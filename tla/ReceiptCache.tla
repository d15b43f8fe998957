---------------------------- MODULE ReceiptCache ----------------------------
(***************************************************************************)
(* The receipt cache that makes federated call-signal delivery idempotent  *)
(* (internal/callsig/receipts.go).                                         *)
(*                                                                         *)
(* A request is one HTTP delivery of an event: it may look its key up,     *)
(* begins it, and ends as the leader that delivers the event, as a         *)
(* follower that waits for a leader, or refused.  An entry is named by the *)
(* request that claimed it, which is what its generation number encodes:   *)
(* c.generations gives no two claims the same one.  An entry that was      *)
(* dropped from the map stays reachable for the followers that hold it.    *)
(***************************************************************************)
EXTENDS Integers, FiniteSets, FiniteSetsExt

CONSTANTS
    Req,             \* requests
    EventKey,        \* ReceiptKeys
    EventKeyOf,      \* the key each request carries
    NoEntry,         \* no entry
    Empty,           \* the zero Receipt
    InProgress,      \* Receipt{Reason: ReasonInProgress}
    CacheFull,       \* Receipt{Reason: ReasonCacheFull}
    Capacity,        \* c.capacity
    Retain,          \* the retention passed to Begin
    SweepInterval,   \* receiptSweepInterval
    MaxNow           \* bound on the clock

Refusals == {Empty, InProgress, CacheFull}

ReceiptAssumption ==
    /\ IsFiniteSet(Req) /\ IsFiniteSet(EventKey)
    /\ EventKeyOf \in [Req -> EventKey]
    /\ NoEntry \notin Req /\ Refusals \cap Req = {}
    /\ Empty # InProgress /\ Empty # CacheFull /\ InProgress # CacheFull
    /\ Capacity \in Nat \ {0} /\ Retain \in Nat \ {0}
    /\ SweepInterval \in Nat \ {0} /\ MaxNow \in Nat

VARIABLES
    now,         \* the clock
    sweptAt,     \* c.sweptAt
    slot,        \* slot[k]: the claim whose entry the map holds under k
    claimedAt, expiresAt, completed, closed,   \* fields of the entry of a claim
    receipt,     \* its receipt; r itself stands for the outcome of r's delivery
    at,          \* where each request is
    seen,        \* the time a request read before taking the lock
    entry,       \* the entry a follower waits on
    answer,      \* the receipt a request was answered with
    lost         \* why an entry left the map before its expiry, if it did

entryVars == <<claimedAt, expiresAt, completed, closed, receipt>>
receiptVars == <<now, sweptAt, slot, entryVars, at, seen, entry, answer, lost>>

ReceiptPC == {"new", "looking", "absent", "beginning", "leading", "closing", "waiting",
       "woken", "answered"}
Receipt == Req \cup Refusals

ReceiptTypeOK ==
    /\ now \in 0 .. MaxNow /\ sweptAt \in Int
    /\ slot \in [EventKey -> Req \cup {NoEntry}]
    /\ claimedAt \in [Req -> Nat] /\ expiresAt \in [Req -> Nat]
    /\ completed \subseteq Req /\ closed \subseteq Req
    /\ lost \in [Req -> {"no", "evicted", "abandoned"}]
    /\ receipt \in [Req -> Receipt] /\ answer \in [Req -> Receipt]
    /\ at \in [Req -> ReceiptPC]
    /\ seen \in [Req -> Nat]
    /\ entry \in [Req -> Req \cup {NoEntry}]

ReceiptInit ==
    /\ now = 0 /\ sweptAt = -SweepInterval
    /\ slot = [k \in EventKey |-> NoEntry]
    /\ claimedAt = [r \in Req |-> 0] /\ expiresAt = [r \in Req |-> 0]
    /\ completed = {} /\ closed = {}
    /\ lost = [r \in Req |-> "no"]
    /\ receipt = [r \in Req |-> Empty] /\ answer = [r \in Req |-> Empty]
    /\ at = [r \in Req |-> "new"]
    /\ seen = [r \in Req |-> 0]
    /\ entry = [r \in Req |-> NoEntry]

-----------------------------------------------------------------------------
Proceed(r, to) == at' = [at EXCEPT ![r] = to]

\* The time read for one call is not used after it.
Done(r) == seen' = [seen EXCEPT ![r] = 0]

Answer(r, a) == /\ Proceed(r, "answered")
                /\ answer' = [answer EXCEPT ![r] = a]

Tick ==
    /\ now < MaxNow
    /\ now' = now + 1
    /\ UNCHANGED <<sweptAt, slot, entryVars, at, seen, entry, answer, lost>>

\* Lookup and Begin read the clock before they take the lock.
ReadClock(r) ==
    /\ \/ at[r] = "new" /\ at' \in {[at EXCEPT ![r] = to] : to \in {"looking", "beginning"}}
       \/ at[r] = "absent" /\ Proceed(r, "beginning")
    /\ seen' = [seen EXCEPT ![r] = now]
    /\ UNCHANGED <<now, sweptAt, slot, entryVars, entry, answer, lost>>

StaleAtOnce(r) ==                \* mutant: the wrong time of the entry is read
    {k \in {EventKeyOf[r]} : slot[k] # NoEntry /\ seen[r] >= claimedAt[slot[k]]}

\* expireKey: the key's own entry has reached its expiry.
Stale(r) ==
    {k \in {EventKeyOf[r]} : slot[k] # NoEntry /\ seen[r] >= expiresAt[slot[k]]}

Occupied(keys) == {k \in EventKey \ keys : slot[k] # NoEntry}

\* sweep: periodically, and whenever the map is full.
Sweeps(r) ==
    \/ seen[r] - sweptAt >= SweepInterval
    \/ Cardinality(Occupied(Stale(r))) >= Capacity

\* What Begin drops before it looks at the key: its own entry if stale, and
\* every entry past its expiry if a sweep is due.
Dropped(r) ==
    Stale(r) \cup
      {k \in EventKey : Sweeps(r) /\ slot[k] # NoEntry /\ seen[r] > expiresAt[slot[k]]}

ExpireEmpty(keys) ==          \* mutant: followers are released with no receipt
    LET late == {slot[k] : k \in keys} \ completed IN
    /\ completed' = completed \cup late
    /\ closed' = closed \cup late
    /\ UNCHANGED receipt

\* expireEntry: a leader that expires in flight releases its followers with an
\* unknown outcome.
Expire(keys) ==
    LET late == {slot[k] : k \in keys} \ completed IN
    /\ completed' = completed \cup late
    /\ closed' = closed \cup late
    /\ receipt' = [r \in Req |-> IF r \in late THEN InProgress ELSE receipt[r]]

Without(keys) == [k \in EventKey |-> IF k \in keys THEN NoEntry ELSE slot[k]]

\* The caller becomes a follower of the entry its key still has.
Follow(r, keys) ==
    /\ EventKeyOf[r] \notin keys /\ slot[EventKeyOf[r]] # NoEntry
    /\ Proceed(r, "waiting")
    /\ entry' = [entry EXCEPT ![r] = slot[EventKeyOf[r]]]
    /\ slot' = Without(keys)
    /\ Expire(keys)
    /\ Done(r)
    /\ UNCHANGED <<now, claimedAt, expiresAt, answer, lost>>

LookupFound(r) ==
    /\ at[r] = "looking"
    /\ Follow(r, Stale(r))
    /\ UNCHANGED sweptAt

LookupAbsent(r) ==
    /\ at[r] = "looking"
    /\ EventKeyOf[r] \in Stale(r) \/ slot[EventKeyOf[r]] = NoEntry
    /\ Proceed(r, "absent")
    /\ slot' = Without(Stale(r))
    /\ Expire(Stale(r))
    /\ Done(r)
    /\ UNCHANGED <<now, sweptAt, claimedAt, expiresAt, entry, answer, lost>>

SweepNow(r) == sweptAt' = IF Sweeps(r) THEN seen[r] ELSE sweptAt

BeginFollow(r) ==
    /\ at[r] = "beginning"
    /\ Follow(r, Dropped(r))
    /\ SweepNow(r)

\* evictOne: a batch of the oldest completed entries (among equally old ones
\* the text of the key decides).
Victims(held) ==
    LET done == {k \in held : slot[k] \in completed}
        batch == Max({1, Capacity \div 8})
    IN  {e \in (SUBSET done) \ {{}} :
            /\ Cardinality(e) = Min({batch, Cardinality(done)})
            /\ \A k \in e, m \in done \ e :
                  claimedAt[slot[k]] <= claimedAt[slot[m]]}

Room(held) == Cardinality(held) < Capacity

\* Nothing is known of the key.
Unknown(r) == EventKeyOf[r] \in Dropped(r) \/ slot[EventKeyOf[r]] = NoEntry

\* The caller becomes the leader, after evictions if the map is full.
BeginLead(r) ==
    LET held == Occupied(Dropped(r)) IN
    /\ at[r] = "beginning"
    /\ Unknown(r)
    /\ \E e \in IF Room(held) THEN {{}} ELSE Victims(held) :
          /\ slot' = [Without(Dropped(r) \cup e) EXCEPT ![EventKeyOf[r]] = r]
          /\ lost' = [q \in Req |-> IF q \in {slot[k] : k \in e}
                                    THEN "evicted" ELSE lost[q]]
    /\ Expire(Dropped(r))
    /\ claimedAt' = [claimedAt EXCEPT ![r] = seen[r]]
    /\ expiresAt' = [expiresAt EXCEPT ![r] = seen[r] + Retain]
    /\ SweepNow(r)
    /\ Proceed(r, "leading")
    /\ Done(r)
    /\ UNCHANGED <<now, entry, answer>>

\* Every slot holds a delivery that is still running.
BeginFull(r) ==
    LET held == Occupied(Dropped(r)) IN
    /\ at[r] = "beginning"
    /\ Unknown(r)
    /\ ~Room(held) /\ Victims(held) = {}
    /\ slot' = Without(Dropped(r))
    /\ Expire(Dropped(r))
    /\ SweepNow(r)
    /\ Answer(r, CacheFull)
    /\ Done(r)
    /\ UNCHANGED <<now, claimedAt, expiresAt, entry, lost>>

-----------------------------------------------------------------------------

\* The entry under the claim's key is still the claim's own.
Owns(r) == slot[EventKeyOf[r]] = r

\* The leader's outcome is recorded in the entry its key holds, if that is its
\* own; the channel is closed after the unlock.
Record(r) ==
    /\ at[r] = "leading"
    /\ Owns(r)
    /\ receipt' = [receipt EXCEPT ![slot[EventKeyOf[r]]] = r]
    /\ completed' = completed \cup {slot[EventKeyOf[r]]}
    /\ entry' = [entry EXCEPT ![r] = slot[EventKeyOf[r]]]
    /\ Proceed(r, "closing")
    /\ UNCHANGED <<now, sweptAt, claimedAt, expiresAt, closed, seen, answer>>

Publish(r) == Record(r) /\ UNCHANGED <<slot, lost>>

\* Abandon also forgets the entry: the event had no sender or target.
Abandon(r) ==
    /\ Record(r)
    /\ lost' = [lost EXCEPT ![slot[EventKeyOf[r]]] = "abandoned"]
    /\ slot' = [slot EXCEPT ![EventKeyOf[r]] = NoEntry]

\* Publish and Abandon by a leader whose claim expired and was dropped, or was
\* replaced: nothing is recorded.
PublishStale(r) ==
    /\ at[r] = "leading"
    /\ ~Owns(r)
    /\ Answer(r, r)
    /\ UNCHANGED <<now, sweptAt, slot, entryVars, seen, entry, lost>>

\* close(entry.done), unless closed already.
Close(r) ==
    /\ at[r] = "closing"
    /\ closed' = closed \cup {entry[r]}
    /\ Answer(r, r)
    /\ UNCHANGED <<now, sweptAt, slot, claimedAt, expiresAt, completed, receipt,
                   seen, entry, lost>>

\* await: the follower sees the channel closed, and then reads the receipt
\* under the lock,
Wake(r) ==
    /\ at[r] = "waiting"
    /\ entry[r] \in closed
    /\ Proceed(r, "woken")
    /\ UNCHANGED <<now, sweptAt, slot, entryVars, seen, entry, answer, lost>>

ReadReceipt(r) ==
    /\ at[r] = "woken"
    /\ Answer(r, receipt[entry[r]])
    /\ UNCHANGED <<now, sweptAt, slot, entryVars, seen, entry, lost>>

\* or its timer fires first.
GiveUp(r) ==
    /\ at[r] = "waiting"
    /\ Answer(r, InProgress)
    /\ UNCHANGED <<now, sweptAt, slot, entryVars, seen, entry, lost>>

Begin(r) == BeginFollow(r) \/ BeginLead(r) \/ BeginFull(r)
Lookup(r) == LookupFound(r) \/ LookupAbsent(r)
Lead(r) == Publish(r) \/ Abandon(r) \/ PublishStale(r) \/ Close(r)

ReceiptNext ==
    \/ Tick
    \/ \E r \in Req : \/ ReadClock(r) \/ Lookup(r) \/ Begin(r) \/ Lead(r)
                     \/ Wake(r) \/ ReadReceipt(r) \/ GiveUp(r)

ReceiptSpec == ReceiptInit /\ [][ReceiptNext]_receiptVars

-----------------------------------------------------------------------------
(* Properties *)

\* "The cache never holds more entries than this": the map stays within its
\* capacity, and every delivery in flight whose retention has not run out is
\* in it, so that no duplicate of it can become a second leader.
CapacityAndInFlight ==
    /\ Cardinality(Occupied({})) <= Capacity
    /\ \A r \in Req : at[r] = "leading" /\ r \notin completed =>
          slot[EventKeyOf[r]] = r

\* A follower is told what its own leader did, or that the outcome is unknown:
\* never the zero receipt, and never an outcome of another claim or key.
AnswersAreTheLeaders ==
    \A r \in Req : at[r] = "answered" /\ entry[r] # NoEntry =>
        \/ answer[r] = InProgress
        \/ answer[r] = entry[r] /\ EventKeyOf[entry[r]] = EventKeyOf[r]

\* What the first attempt published is never replaced: once an entry is
\* completed its receipt stays as it is, whoever expires, evicts, abandons or
\* publishes afterwards.
Final == \A r \in completed : r \in completed' /\ receipt'[r] = receipt[r]
ReceiptsAreFinal == [][Final]_receiptVars

\* An event is delivered again only when the record of its last delivery ran
\* out of retention, made room for others, or was abandoned by its leader.
Explained ==
    \A r, q \in Req :
        /\ at[r] = "beginning" /\ at'[r] = "leading"
        /\ q # r /\ EventKeyOf[q] = EventKeyOf[r] /\ expiresAt[q] > 0
        => now >= expiresAt[q] \/ lost'[q] # "no"
RedeliveryIsExplained == [][Explained]_receiptVars

\* A follower never depends on its timer once its leader is done: the entry
\* it waits on is closed by the time the leader returns, however that entry
\* left the map meanwhile.
FollowersAreReleased ==
    \A r \in Req : at[r] = "waiting" =>
        entry[r] \in closed \/ at[entry[r]] \in {"leading", "closing"}
=============================================================================
