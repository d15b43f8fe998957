--------------------------- MODULE CallDispatcher ---------------------------
(***************************************************************************)
(* The federated call-signal dispatcher (internal/callsig/dispatcher.go).  *)
(*                                                                         *)
(* Any number of WebSocket readers call Submit concurrently; each accepted *)
(* job waits in the FIFO of its stream and one goroutine per active stream *)
(* delivers the stream's jobs one at a time.  A step is a section of code  *)
(* between two points where other goroutines can run: a section under d.mu *)
(* is one step, what follows the unlock is another.                        *)
(*                                                                         *)
(* A job stands for one call of Submit.  A goroutine is named by the job   *)
(* whose Submit started it, so that two goroutines on one stream are a     *)
(* state this module can express.                                          *)
(***************************************************************************)
EXTENDS Integers, Sequences, FiniteSets

CONSTANTS
    Job,                  \* the calls of Submit
    NoJob,                \* what a goroutine holds when it holds no job
    Key,                  \* the StreamKeys
    KeyOf,                \* job.Key
    HungKey,              \* streams whose remote instance may never answer
    DispatchStreamDepth,
    DispatchTotalDepth,
    DispatchMaxStreams

ASSUME DispatchAssumption ==
    /\ IsFiniteSet(Job)
    /\ NoJob \notin Job
    /\ KeyOf \in [Job -> Key]
    /\ HungKey \subseteq Key
    /\ DispatchStreamDepth \in Nat \ {0}
    /\ DispatchTotalDepth \in Nat \ {0}
    /\ DispatchMaxStreams \in Nat \ {0}

VARIABLES
    streams,   \* domain of the map d.streams
    jobs,      \* jobs[k]: d.streams[k].jobs, empty when k has no entry
    running,   \* keys whose entry has running = true
    queued,    \* d.queued
    stage,     \* how far each job has come
    verdict,   \* what job.Report was given
    run,       \* program counter of the goroutine each job started
    item       \* the job that goroutine took off its stream

mapVars == <<streams, jobs, running, queued>>
vars == <<mapVars, stage, verdict, run, item>>

Stage == {"unsent", "checked", "refused", "waiting", "taken", "reported"}
Verdict == {"none", "expired", "queue_full", "delivered", "failed"}
RunState == {"none", "starting", "loop", "holding", "delivering", "done"}

\* A goroutine owns its stream from the moment Submit decides to start it
\* until it deletes the map entry.
Owning == {"starting", "loop", "holding", "delivering"}
Owners(k) == {g \in Job : KeyOf[g] = k /\ run[g] \in Owning}

Waiting == {j \in Job : stage[j] = "waiting"}
InFlight == {j \in Job : stage[j] = "taken"}

TypeOK ==
    /\ streams \subseteq Key
    /\ jobs \in [Key -> Seq(Job)]
    /\ running \subseteq Key
    /\ queued \in Nat
    /\ stage \in [Job -> Stage]
    /\ verdict \in [Job -> Verdict]
    /\ run \in [Job -> RunState]
    /\ item \in [Job -> Job \cup {NoJob}]

Init ==
    /\ streams = {}
    /\ jobs = [k \in Key |-> <<>>]
    /\ running = {}
    /\ queued = 0
    /\ stage = [j \in Job |-> "unsent"]
    /\ verdict = [j \in Job |-> "none"]
    /\ run = [j \in Job |-> "none"]
    /\ item = [j \in Job |-> NoJob]

-----------------------------------------------------------------------------
\* job.Report(Delivery{...}): the callback of the submitting connection.
Report(j, v) ==
    /\ stage' = [stage EXCEPT ![j] = "reported"]
    /\ verdict' = [verdict EXCEPT ![j] = v]

\* Submit, before the lock: an expired event is reported and goes no further.
\* Whether the clock has passed the event's expiry is open here and again in
\* the goroutine; nothing reads it once a job was found expired.
SubmitExpired(j) ==
    /\ stage[j] = "unsent"
    /\ Report(j, "expired")
    /\ UNCHANGED <<mapVars, run, item>>

SubmitLive(j) ==
    /\ stage[j] = "unsent"
    /\ stage' = [stage EXCEPT ![j] = "checked"]
    /\ UNCHANGED <<mapVars, verdict, run, item>>

FullLate(k) ==                      \* mutant: the total is one too generous
    \/ queued > DispatchTotalDepth
    \/ k \in streams /\ Len(jobs[k]) >= DispatchStreamDepth
    \/ k \notin streams /\ Cardinality(streams) >= DispatchMaxStreams

\* The three reasons to refuse a job, in the order of the switch.
Full(k) ==
    \/ queued >= DispatchTotalDepth
    \/ k \in streams /\ Len(jobs[k]) >= DispatchStreamDepth
    \/ k \notin streams /\ Cardinality(streams) >= DispatchMaxStreams

\* Submit, under the lock: the job is refused, to be reported after the unlock,
Refuse(j) ==
    /\ stage[j] = "checked"
    /\ Full(KeyOf[j])
    /\ stage' = [stage EXCEPT ![j] = "refused"]
    /\ UNCHANGED <<mapVars, verdict, run, item>>

ReportRefused(j) ==
    /\ stage[j] = "refused"
    /\ Report(j, "queue_full")
    /\ UNCHANGED <<mapVars, run, item>>

\* or appended to its stream, which is marked running; the caller becomes
\* the one to start its goroutine if it was not.
Enqueue(j) ==
    LET k == KeyOf[j] IN
    /\ stage[j] = "checked"
    /\ ~Full(k)
    /\ streams' = streams \cup {k}
    /\ jobs' = [jobs EXCEPT ![k] = Append(@, j)]
    /\ stage' = [stage EXCEPT ![j] = "waiting"]
    /\ running' = running \cup {k}
    /\ UNCHANGED <<verdict, item>>

AcceptAlwaysStarts(j) ==            \* mutant: existing.running is not consulted
    /\ Enqueue(j)
    /\ queued' = queued + 1
    /\ run' = [run EXCEPT ![j] = "starting"]

AcceptUncounted(j) ==               \* mutant: d.queued++ is missing
    /\ Enqueue(j)
    /\ run' = IF KeyOf[j] \in running THEN run
                                      ELSE [run EXCEPT ![j] = "starting"]
    /\ UNCHANGED queued

Accept(j) ==
    /\ Enqueue(j)
    /\ queued' = queued + 1
    /\ run' = IF KeyOf[j] \in running THEN run
                                      ELSE [run EXCEPT ![j] = "starting"]

\* go d.run(job.Key), after the unlock.
Start(g) ==
    /\ run[g] = "starting"
    /\ run' = [run EXCEPT ![g] = "loop"]
    /\ UNCHANGED <<mapVars, stage, verdict, item>>

-----------------------------------------------------------------------------
\* run, under the lock, with a job to take.
Take(g) ==
    LET k == KeyOf[g] IN
    /\ run[g] = "loop"
    /\ k \in streams
    /\ jobs[k] # <<>>
    /\ item' = [item EXCEPT ![g] = Head(jobs[k])]
    /\ stage' = [stage EXCEPT ![Head(jobs[k])] = "taken"]
    /\ jobs' = [jobs EXCEPT ![k] = Tail(@)]
    /\ queued' = queued - 1
    /\ run' = [run EXCEPT ![g] = "holding"]
    /\ UNCHANGED <<streams, running, verdict>>

\* run, under the lock, with nothing to take: the map entry goes away, and
\* the goroutine with it.
Drained(g) ==
    /\ run[g] = "loop"
    /\ KeyOf[g] \notin streams \/ jobs[KeyOf[g]] = <<>>
    /\ run' = [run EXCEPT ![g] = "done"]
    /\ UNCHANGED <<jobs, queued, stage, verdict, item>>

LeaveRunning(g) ==                  \* mutant: the stream stays marked running
    /\ Drained(g)
    /\ streams' = streams \ {KeyOf[g]}
    /\ UNCHANGED running

Leave(g) ==
    /\ Drained(g)
    /\ streams' = streams \ {KeyOf[g]}
    /\ running' = running \ {KeyOf[g]}

\* The goroutine reports the job it holds and goes round its loop.
Settle(g, v) ==
    /\ Report(item[g], v)
    /\ run' = [run EXCEPT ![g] = "loop"]
    /\ item' = [item EXCEPT ![g] = NoJob]
    /\ UNCHANGED mapVars

\* run, after the unlock: the event expired while it waited,
SettleExpired(g) ==
    /\ run[g] = "holding"
    /\ Settle(g, "expired")

\* or d.deliver(job) is entered,
Deliver(g) ==
    /\ run[g] = "holding"
    /\ run' = [run EXCEPT ![g] = "delivering"]
    /\ UNCHANGED <<mapVars, stage, verdict, item>>

\* and returns, whatever the remote instance answered.
SettleDelivered(g) ==
    /\ run[g] = "delivering"
    /\ \E v \in {"delivered", "failed"} : Settle(g, v)

Submitting(j) == Refuse(j) \/ ReportRefused(j) \/ Accept(j) \/ Start(j)
Looping(g) == Take(g) \/ Leave(g) \/ SettleExpired(g) \/ Deliver(g)

Next ==
    \E j \in Job :
        \/ SubmitExpired(j) \/ SubmitLive(j)
        \/ Submitting(j)
        \/ Looping(j)
        \/ SettleDelivered(j)

Spec == Init /\ [][Next]_vars

\* The Go scheduler runs every goroutine that can run, whoever waits for the
\* mutex gets it, and a delivery returns (an HTTP request with a deadline),
\* except towards the instances in HungKey.  Nobody is obliged to call Submit.
Fairness ==
    \A j \in Job :
        /\ WF_vars(Submitting(j))
        /\ WF_vars(Looping(j))
        /\ KeyOf[j] \notin HungKey => WF_vars(SettleDelivered(j))

FairSpec == Spec /\ Fairness

-----------------------------------------------------------------------------
(* Properties *)

\* The limits stated at the top of dispatcher.go, all at once: d.queued is
\* the number of waiting jobs, no stream and no total exceeds its depth, at
\* most DispatchMaxStreams streams have a goroutine or a job in flight, and
\* at most DispatchTotalDepth + DispatchMaxStreams jobs are held at all.
Limits ==
    /\ queued = Cardinality(Waiting)
    /\ queued <= DispatchTotalDepth
    /\ \A k \in Key : Len(jobs[k]) <= DispatchStreamDepth
    /\ Cardinality(streams) <= DispatchMaxStreams
    /\ Cardinality({g \in Job : run[g] \in Owning}) <= DispatchMaxStreams
    /\ Cardinality(InFlight) <= DispatchMaxStreams
    /\ Cardinality(Waiting \cup InFlight)
           <= DispatchTotalDepth + DispatchMaxStreams

\* "Exactly one goroutine exists per active stream": a stream is in the map
\* exactly while one goroutine owns it, so no two goroutines deliver for one
\* stream and no job waits on a stream nobody drains.
OneGoroutinePerStream ==
    \A k \in Key :
        /\ \A g, h \in Owners(k) : g = h
        /\ k \in streams <=> Owners(k) # {}
        /\ k \notin streams => jobs[k] = <<>>

\* Every Submit is answered: a job that passed the expiry check is reported,
\* unless its own stream leads to an instance that never answers - an
\* instance that hangs delays nobody else.
EverySignalReported ==
    \A j \in Job : KeyOf[j] \notin HungKey =>
        (stage[j] = "checked" ~> stage[j] = "reported")

\* "An idle call leaves nothing behind": once submissions stop, the entry of
\* every stream goes away for good, unless its instance hangs.
IdleStreamsVanish == \A k \in Key \ HungKey : <>[](k \notin streams)

\* Both: nobody but the signals of a hung instance is left waiting, or left behind.
StreamsDrain == EverySignalReported /\ IdleStreamsVanish
=============================================================================
