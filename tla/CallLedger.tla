----------------------------- MODULE CallLedger -----------------------------
(***************************************************************************)
(* The ledger of call signals (internal/callsig/ledger.go): it drops a     *)
(* signal already seen, refuses one that is older than the negotiation it  *)
(* belongs to, and remembers which calls have ended.                       *)
(*                                                                         *)
(* Every key of the code holds the conversation and the sender: here a     *)
(* Call stands for one (conversation, sender, call id) and an event for    *)
(* one (conversation, sender, event id).  A request is one delivery of an  *)
(* event to Accept or Admit, or one call of Finish or Forget.  admit reads *)
(* the clock before it takes the lock, so that a request may decide with a *)
(* reading that is up to MaxStall old.                                     *)
(***************************************************************************)
EXTENDS Integers, FiniteSets, FiniteSetsExt

CONSTANTS
    Req,              \* requests
    Event,            \* event ids
    Call,             \* calls
    Scope,            \* addressees: a participant or BroadcastTarget
    EventOf,          \* the event each request delivers
    CallOf, ScopeOf, SequenceOf,   \* attributes of an event
    KindOf,           \* of a request: see Kind
    OfClient,         \* events of this server's clients; the others come from a peer
    TTL,              \* expiresAt - createdAt, by event
    Ahead,            \* how far ahead of ours the clock that stamps an event is
    Tombstone,        \* tombstoneTTL
    Skew,             \* MaxClockSkew
    SweepInterval,    \* ledgerSweep
    Capacity,         \* l.capacity
    MaxStall,         \* bound on the age of a clock reading when it is used
    MaxNow            \* bound on the clock

\* Candidates are exempt from ordering, hangup and reject are terminal, every
\* other type of signal is ordered.
Kind == {"ordered", "candidate", "terminal", "teardown"}

SeqKey == Call \X Scope

LedgerAssumption ==
    /\ IsFiniteSet(Req) /\ IsFiniteSet(Event) /\ IsFiniteSet(Call) /\ IsFiniteSet(Scope)
    /\ EventOf \in [Req -> Event] /\ KindOf \in [Req -> Kind]
    /\ CallOf \in [Event -> Call] /\ ScopeOf \in [Event -> Scope]
    /\ SequenceOf \in [Event -> Nat] /\ OfClient \subseteq Event
    /\ TTL \in [Event -> Nat \ {0}]
    /\ {Ahead, Tombstone, Skew, SweepInterval, MaxStall, MaxNow} \subseteq Nat
    /\ Ahead <= Skew
    /\ Capacity \in Nat \ {0}

VARIABLES
    now,          \* the clock
    sent,         \* when the peer created an event
    read,         \* the time a request read before taking the lock
    verdict,      \* the reason a request was answered with
    seen,         \* l.seen: until when an event id is remembered
    highest, touchedAt,   \* l.sequences: value and touchedAt of an entry
    terminated,   \* l.terminated: until when an ended call is refused
    sweptAt,      \* l.sweptAt
    evicted,      \* l.evicted
    place,        \* the place of a request in the order those of its call were decided
    decidedAt     \* the time at which it was

ledger == <<seen, highest, touchedAt, terminated, sweptAt, evicted>>
vars == <<now, sent, read, verdict, ledger, place, decidedAt>>

Absent == -1
Time == Nat \cup {Absent}
Held(m) == {k \in DOMAIN m : m[k] # Absent}

Verdict == {"none", "delivered", "expired", "duplicate", "call_ended", "stale",
            "finished", "forgotten"}

TypeOK ==
    /\ now \in 0 .. MaxNow
    /\ sent \in [Event -> Time] /\ read \in [Req -> Time]
    /\ verdict \in [Req -> Verdict]
    /\ seen \in [Event -> Time] /\ touchedAt \in [SeqKey -> Time]
    /\ highest \in [SeqKey -> Nat] /\ terminated \in [Call -> Time]
    /\ sweptAt \in Int /\ evicted \in Nat
    /\ place \in [Req -> Nat] /\ decidedAt \in [Req -> Time]
    /\ Cardinality(Held(seen)) <= Capacity
    /\ Cardinality(Held(touchedAt)) <= Capacity
    /\ Cardinality(Held(terminated)) <= Capacity

Init ==
    /\ now = 0
    /\ sent = [e \in Event |-> Absent]
    /\ read = [r \in Req |-> Absent]
    /\ verdict = [r \in Req |-> "none"]
    /\ seen = [e \in Event |-> Absent]
    /\ highest = [k \in SeqKey |-> 0]
    /\ touchedAt = [k \in SeqKey |-> Absent]
    /\ terminated = [c \in Call |-> Absent]
    /\ sweptAt = 0 - SweepInterval      \* the zero time: the first admit sweeps
    /\ evicted = 0
    /\ place = [r \in Req |-> 0]
    /\ decidedAt = [r \in Req |-> Absent]

-----------------------------------------------------------------------------
(* Events and requests *)

TheCall(r) == CallOf[EventOf[r]]
TheKey(r) == <<TheCall(r), ScopeOf[EventOf[r]]>>
Terminal(r) == KindOf[r] = "terminal"
Signal(r) == KindOf[r] # "teardown"
Undecided(r) == verdict[r] = "none"

\* buildCallEvent stamps a client's signal each time it arrives, a retry too;
\* a peer's event keeps the window it was created with.
Expiry(r, arrived) ==
    LET e == EventOf[r]
    IN  (IF e \in OfClient THEN arrived ELSE sent[e] + Ahead) + TTL[e]

ExpiresAt(r) == Expiry(r, read[r])

\* Until when an accepted event id is remembered.
SeenUntil(r) == ExpiresAt(r) + Skew

Expired(r) == now > Expiry(r, now) + Skew

-----------------------------------------------------------------------------
(* The three maps *)

BatchShort(size) ==            \* mutant: no room is made for the new entry
    Min({size, size - Capacity})

Batch(size) == Min({size, Max({1, Capacity \div 8, size - Capacity + 1})})

\* The sets of entries makeRoom may drop before k is inserted: a batch of those
\* that are due first.  Entries due at the same time are sorted in no order.
Victims(m, k) ==
    LET old == Held(m)
    IN  IF k \in old \/ Cardinality(old) < Capacity THEN {{}}
        ELSE {v \in kSubset(Batch(Cardinality(old)), old) :
                 \A x \in v, y \in old \ v : m[x] <= m[y]}

Drop(m, gone) == [k \in DOMAIN m |-> IF k \in gone THEN Absent ELSE m[k]]
Put(m, gone, k, t) == [Drop(m, gone) EXCEPT ![k] = t]

SweepDue(t) == t - sweptAt >= SweepInterval

Past(m, t) == IF SweepDue(t) THEN {k \in Held(m) : t > m[k]} ELSE {}

\* A sequence has no expiry: it goes when it has not been raised for too long.
Silent(t) ==
    IF SweepDue(t) THEN {k \in Held(touchedAt) : t - touchedAt[k] > Tombstone} ELSE {}

\* The maps as a request finds them, once admit has swept.
SeenBy(r) == Drop(seen, Past(seen, read[r]))
TerminatedFor(r) == Drop(terminated, Past(terminated, read[r]))
TouchedFor(r) == Drop(touchedAt, Silent(read[r]))

CallKeys(c) == {k \in SeqKey : k[1] = c}

-----------------------------------------------------------------------------
(* The checks of admit *)

Duplicate(r) == EventOf[r] \in OfClient /\ EventOf[r] \in Held(SeenBy(r))

CallEndedOrdered(r) ==         \* mutant: candidates are exempt from this rule too
    LET ended == TerminatedFor(r)
    IN  KindOf[r] = "ordered" /\ TheCall(r) \in Held(ended) /\ read[r] < ended[TheCall(r)]

CallEnded(r) ==
    LET ended == TerminatedFor(r)
    IN  ~Terminal(r) /\ TheCall(r) \in Held(ended) /\ read[r] < ended[TheCall(r)]

StaleCandidate(r) ==           \* mutant: candidates are ordered like offers
    /\ TheKey(r) \in Held(TouchedFor(r))
    /\ SequenceOf[EventOf[r]] \in 1 .. highest[TheKey(r)] - 1

Stale(r) ==
    /\ KindOf[r] # "candidate"
    /\ TheKey(r) \in Held(TouchedFor(r))
    /\ SequenceOf[EventOf[r]] \in 1 .. highest[TheKey(r)] - 1

\* The first check that fails, in the order of the code.
Reason(r) ==
    IF Duplicate(r) THEN "duplicate"
    ELSE IF CallEnded(r) THEN "call_ended"
    ELSE IF Stale(r) THEN "stale"
    ELSE "delivered"

\* The signal opens the sequence of its key or raises it.
Grows(r) ==
    /\ KindOf[r] # "candidate"
    /\ TheKey(r) \in Held(TouchedFor(r)) => SequenceOf[EventOf[r]] > highest[TheKey(r)]

-----------------------------------------------------------------------------
(* Steps *)

Tick ==
    /\ now < MaxNow
    /\ \A r \in Req : Undecided(r) /\ read[r] # Absent => now - read[r] < MaxStall
    /\ now' = now + 1
    /\ UNCHANGED <<sent, read, verdict, ledger, place, decidedAt>>

\* A peer creates an event; it arrives any number of times, at any time later.
Create(e) ==
    /\ e \notin OfClient /\ sent[e] = Absent
    /\ \E r \in Req : EventOf[r] = e /\ Signal(r)
    /\ sent' = [sent EXCEPT ![e] = now]
    /\ UNCHANGED <<now, read, verdict, ledger, place, decidedAt>>

\* admit reads the clock and refuses an event past its window.
Arrive(r) ==
    /\ Signal(r) /\ Undecided(r) /\ read[r] = Absent
    /\ EventOf[r] \in OfClient \/ sent[EventOf[r]] # Absent
    /\ read' = [read EXCEPT ![r] = now]
    /\ verdict' = [verdict EXCEPT ![r] = IF Expired(r) THEN "expired" ELSE @]
    /\ UNCHANGED <<now, sent, ledger, place, decidedAt>>

Decided(c) == {r \in Req : TheCall(r) = c /\ place[r] # 0}

Record(r, reason) ==
    /\ verdict' = [verdict EXCEPT ![r] = reason]
    /\ place' = [place EXCEPT ![r] = 1 + Cardinality(Decided(TheCall(r)))]
    /\ decidedAt' = [decidedAt EXCEPT ![r] = now]
    /\ UNCHANGED <<now, sent, read>>

Sweep(r) == sweptAt' = IF SweepDue(read[r]) THEN read[r] ELSE sweptAt

Locked(r) == Signal(r) /\ Undecided(r) /\ read[r] # Absent

\* An entry that was dropped has no value.
SetSequences(touched, values) ==
    /\ touchedAt' = touched
    /\ highest' = [k \in SeqKey |-> IF touched[k] = Absent THEN 0 ELSE values[k]]

\* A refused signal still sweeps.
Refuse(r) ==
    /\ Locked(r) /\ Reason(r) # "delivered"
    /\ Sweep(r)
    /\ seen' = SeenBy(r)
    /\ terminated' = TerminatedFor(r)
    /\ SetSequences(TouchedFor(r), highest)
    /\ UNCHANGED evicted
    /\ Record(r, Reason(r))

Deliver(r) ==
    LET e == EventOf[r]  c == TheCall(r)  k == TheKey(r)
        touched == TouchedFor(r)  ended == TerminatedFor(r)  known == SeenBy(r)
        values == IF Grows(r) THEN [highest EXCEPT ![k] = SequenceOf[e]] ELSE highest
    IN
    /\ Locked(r) /\ Reason(r) = "delivered"
    /\ Sweep(r)
    /\ \E s \in IF Grows(r) THEN Victims(touched, k) ELSE {{}},
          t \in IF Terminal(r) THEN Victims(ended, c) ELSE {{}},
          d \in IF e \in OfClient THEN Victims(known, e) ELSE {{}} :
        LET grown == IF Grows(r) THEN Put(touched, s, k, read[r]) ELSE touched
        IN
        /\ SetSequences(IF Terminal(r) THEN Drop(grown, CallKeys(c)) ELSE grown, values)
        /\ terminated' = IF Terminal(r) THEN Put(ended, t, c, read[r] + Tombstone) ELSE ended
        /\ seen' = IF e \in OfClient THEN Put(known, d, e, SeenUntil(r)) ELSE known
        /\ evicted' = evicted + Cardinality(s) + Cardinality(t) + Cardinality(d)
    /\ Record(r, "delivered")

\* Finish reads the clock under the lock and does not sweep.
Finish(r) ==
    /\ KindOf[r] = "teardown" /\ Undecided(r)
    /\ \E t \in Victims(terminated, TheCall(r)) :
        /\ terminated' = Put(terminated, t, TheCall(r), now + Tombstone)
        /\ evicted' = evicted + Cardinality(t)
    /\ SetSequences(Drop(touchedAt, CallKeys(TheCall(r))), highest)
    /\ UNCHANGED <<seen, sweptAt>>
    /\ Record(r, "finished")

Forget(r) ==
    /\ KindOf[r] = "teardown" /\ Undecided(r)
    /\ SetSequences(Drop(touchedAt, CallKeys(TheCall(r))), highest)
    /\ UNCHANGED <<seen, terminated, sweptAt, evicted>>
    /\ Record(r, "forgotten")

Next ==
    \/ Tick
    \/ \E e \in Event : Create(e)
    \/ \E r \in Req : Arrive(r) \/ Refuse(r) \/ Deliver(r) \/ Finish(r) \/ Forget(r)

Spec == Init /\ [][Next]_vars

-----------------------------------------------------------------------------
(* Properties *)

Before(q, r) == TheCall(q) = TheCall(r) /\ place[q] \in 1 .. place[r] - 1
Delivered(r) == verdict[r] = "delivered"
Ends(r) == verdict[r] = "finished" \/ (Terminal(r) /\ Delivered(r))
Resets(r) == verdict[r] = "forgotten" \/ Ends(r)

\* No reset of the call came between the decisions of q and r.
Continuous(q, r) == \A m \in Req : Before(q, m) /\ Before(m, r) => ~Resets(m)

Number(r) == SequenceOf[EventOf[r]]

\* q was delivered before r to the same addressee of the call, which was not
\* reset in between, and is newer.
Newer(q, r) ==
    /\ Delivered(q) /\ KindOf[q] # "candidate"
    /\ Before(q, r) /\ TheKey(q) = TheKey(r) /\ Continuous(q, r)
    /\ ~Resets(q)
    /\ 0 < Number(r) /\ Number(r) < Number(q)

\* A client that retries cannot make a signal travel twice: until the window of
\* the delivered signal, skew included, is over, the same event id is dropped.
\* (Evictions at capacity are the exception the code names.)
RetriesAreDropped ==
    evicted = 0 =>
    \A e \in OfClient : \A q, r \in {s \in Req : EventOf[s] = e /\ Delivered(s)} :
        Before(q, r) => decidedAt[r] > ExpiresAt(q) + Skew

Created(r) == IF EventOf[r] \in OfClient THEN read[r] ELSE sent[EventOf[r]]

\* A call that has ended stays ended: a signal that was in flight when the
\* ledger recorded the end of its call is not delivered after it.
EndedStaysEnded ==
    evicted = 0 =>
    \A q \in {s \in Req : Ends(s)}, r \in {s \in Req : Delivered(s) /\ ~Terminal(s)} :
        Before(q, r) => Created(r) > decidedAt[q]

\* An offer or answer older than one already processed, for the same addressee,
\* is not delivered, unless the call was reset in between or the newer one was
\* the last to raise the sequence for longer than tombstoneTTL.
OutdatedIsRefused ==
    evicted = 0 =>
    \A r \in {s \in Req : Delivered(s) /\ KindOf[s] # "candidate"} :
        LET newer == {q \in Req : Newer(q, r)}
        IN  newer # {} => \E q \in newer : decidedAt[r] > read[q] + Tombstone

\* A legitimate signal is never dropped silently: what is refused as a duplicate
\* was delivered, what is refused as part of an ended call belongs to that very
\* call and comes within tombstoneTTL of its end, and what is refused as stale
\* follows a newer one of the same call to the same addressee.
RefusalsAreJustified ==
    \A r \in Req :
        /\ verdict[r] = "duplicate" =>
             \E q \in Req : Before(q, r) /\ Delivered(q) /\ EventOf[q] = EventOf[r]
        /\ verdict[r] = "call_ended" =>
             \E q \in Req : /\ Before(q, r) /\ Ends(q) /\ ~Terminal(r)
                            /\ read[r] < decidedAt[q] + Tombstone
        /\ verdict[r] = "stale" =>
             KindOf[r] # "candidate" /\ \E q \in Req : Newer(q, r)
=============================================================================
