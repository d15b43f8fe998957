---------------------------- MODULE SignalLedger ----------------------------
(***************************************************************************)
(* What one browser remembers about the call signals it received           *)
(* (createCallSignalLedger, call-negotiation.js): the events it has seen,   *)
(* the last sequence of every sender, call and addressee, and the calls     *)
(* that ended. The three JavaScript Maps iterate in the order of insertion, *)
(* which is the order they are trimmed in: each is a sequence of            *)
(* <<key, value>>. A call stands for its conversation and its identifier.   *)
(***************************************************************************)
EXTENDS Integers, Sequences, SequencesExt

CONSTANTS
  Skew,             \* CALL_CLOCK_SKEW_MS
  Tombstone,        \* CALL_TOMBSTONE_TTL_MS
  LedgerCapacity    \* CALL_LEDGER_CAPACITY

ASSUME LedgerAssumption ==
  /\ Skew \in Nat
  /\ Tombstone \in Nat
  /\ LedgerCapacity \in Nat \ {0}

-----------------------------------------------------------------------------
(* Maps in insertion order                                                 *)

Keys(map) == {map[i][1] : i \in DOMAIN map}
Has(map, key) == key \in Keys(map)
At(map, key) == map[CHOOSE i \in DOMAIN map : map[i][1] = key][2]
Put(map, key, value) ==
  IF Has(map, key)
    THEN [i \in DOMAIN map |-> IF map[i][1] = key THEN <<key, value>> ELSE map[i]]
    ELSE Append(map, <<key, value>>)
Trim(map) ==
  IF Len(map) <= LedgerCapacity THEN map
  ELSE SubSeq(map, Len(map) - LedgerCapacity + 1, Len(map))
Unexpired(map, now) ==
  IF \A i \in DOMAIN map : now <= map[i][2] THEN map
  ELSE SelectSeq(map, LAMBDA entry : now <= entry[2])

-----------------------------------------------------------------------------
(* The ledger                                                              *)

NoLedger == [seen |-> <<>>, last |-> <<>>, ended |-> <<>>]

Terminal(type) == type \in {"call_hangup", "call_reject"}

CallScope(e) == <<e.sender, e.call>>
SequenceScope(e) == <<e.sender, e.call, e.target>>
SeenKey(e) == <<e.sender, e.id>>

Swept(ledger, now) ==
  [seen |-> Trim(Unexpired(ledger.seen, now)),
   last |-> Trim(ledger.last),
   ended |-> Trim(Unexpired(ledger.ended, now))]

Outdated(ledger, e) ==
  /\ e.type # "ice_candidate"
  /\ Has(ledger.last, SequenceScope(e))
  /\ e.seq > 0
  /\ e.seq < At(ledger.last, SequenceScope(e))

Repeated(ledger, e) == Has(ledger.seen, SeenKey(e))

\* The reason a signal is dropped for, "" when it is admitted.
Refusal(ledger, e, now) ==
  LET swept == Swept(ledger, now) IN
  IF now > e.expires + Skew THEN "expired"
  ELSE IF Repeated(swept, e) THEN "duplicate"
  ELSE IF ~Terminal(e.type) /\ Has(swept.ended, CallScope(e)) THEN "call_ended"
  ELSE IF Outdated(swept, e) THEN "stale"
  ELSE ""

Advanced(last, e) ==
  IF e.type = "ice_candidate" \/ (Has(last, SequenceScope(e)) /\ At(last, SequenceScope(e)) >= e.seq)
    THEN last
    ELSE Put(last, SequenceScope(e), e.seq)

\* accept: a refused signal still sweeps.
AfterSignal(ledger, e, now) ==
  LET swept == Swept(ledger, now) IN
  IF Refusal(ledger, e, now) # "" THEN swept
  ELSE [seen |-> Trim(Put(swept.seen, SeenKey(e), e.expires + Skew)),
        last |-> Trim(Advanced(swept.last, e)),
        ended |-> IF Terminal(e.type) THEN Trim(Put(swept.ended, CallScope(e), now + Tombstone))
                  ELSE swept.ended]

\* endCall: the ordering of the call goes, its tombstone stays.
CallEndedBy(ledger, sender, call, now) ==
  [ledger EXCEPT
     !.last = SelectSeq(@, LAMBDA entry : <<entry[1][1], entry[1][2]>> # <<sender, call>>),
     !.ended = Trim(Put(@, <<sender, call>>, now + Tombstone))]
=============================================================================
