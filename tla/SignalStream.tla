---------------------------- MODULE SignalStream ----------------------------
(***************************************************************************)
(* What the dispatcher promises the callers of Submit, without its lock,   *)
(* its goroutines and its counters: each stream is a line served in order, *)
(* one signal at a time, and each signal gets one verdict.                 *)
(***************************************************************************)
EXTENDS Naturals, Sequences

CONSTANTS Job, Key, KeyOf

VARIABLES
    line,      \* line[k]: the signals of stream k in the order accepted
    serving,   \* the streams whose first signal is being delivered
    verdict    \* the one answer each signal gets

vars == <<line, serving, verdict>>

InLine(j) == \E i \in DOMAIN line[KeyOf[j]] : line[KeyOf[j]][i] = j

Init ==
    /\ line = [k \in Key |-> <<>>]
    /\ serving = {}
    /\ verdict = [j \in Job |-> "none"]

\* A signal is answered without ever entering its line,
Refuse(j) ==
    /\ verdict[j] = "none"
    /\ ~InLine(j)
    /\ \E v \in {"expired", "queue_full"} : verdict' = [verdict EXCEPT ![j] = v]
    /\ UNCHANGED <<line, serving>>

\* or it takes the last place,
Accept(j) ==
    /\ verdict[j] = "none"
    /\ ~InLine(j)
    /\ line' = [line EXCEPT ![KeyOf[j]] = Append(@, j)]
    /\ UNCHANGED <<serving, verdict>>

\* the first place is served when nobody is being served,
Serve(k) ==
    /\ line[k] # <<>>
    /\ k \notin serving
    /\ serving' = serving \cup {k}
    /\ UNCHANGED <<line, verdict>>

\* and is answered: with the outcome of its delivery, or as expired if it was
\* not delivered.
Answer(k) ==
    /\ line[k] # <<>>
    /\ verdict[Head(line[k])] = "none"
    /\ \E v \in IF k \in serving THEN {"delivered", "failed"} ELSE {"expired"} :
           verdict' = [verdict EXCEPT ![Head(line[k])] = v]
    /\ line' = [line EXCEPT ![k] = Tail(@)]
    /\ serving' = serving \ {k}

Next ==
    \/ \E j \in Job : Refuse(j) \/ Accept(j)
    \/ \E k \in Key : Serve(k) \/ Answer(k)

Spec == Init /\ [][Next]_vars
=============================================================================
