-------------------------- MODULE CallLedgerProofs --------------------------
(***************************************************************************)
(* CallLedger, for any requests, windows, capacity and stalls: the bounds  *)
(* of the maps, and what the verdicts of the ledger are worth.             *)
(***************************************************************************)
EXTENDS CallLedger, FiniteSetTheorems, TLAPS

-----------------------------------------------------------------------------
(* The inductive invariant                                                 *)

Placed(r) == place[r] # 0

\* A request decides with a reading that is MaxStall old at most, and within the window of
\* its event; what has a place in the order of its call has been decided.
RequestsOK ==
    \A r \in Req :
        /\ read[r] <= now /\ (Undecided(r) /\ read[r] # Absent => now <= read[r] + MaxStall)
        /\ Placed(r) <=> verdict[r] \notin {"none", "expired"}
        /\ Placed(r) => decidedAt[r] \in 0 .. now
        /\ verdict[r] \in {"finished", "forgotten"} => ~Signal(r)
        /\ ~Signal(r) => verdict[r] \in {"none", "finished", "forgotten"}
        /\ Signal(r) /\ Placed(r) =>
             read[r] # Absent /\ read[r] <= decidedAt[r] /\ decidedAt[r] <= read[r] + MaxStall
        /\ Signal(r) /\ read[r] # Absent =>
             /\ EventOf[r] \notin OfClient => sent[EventOf[r]] # Absent
             /\ verdict[r] # "expired" => read[r] <= ExpiresAt(r) + Skew

\* The places of the requests of a call are those of the order in which they were decided.
PlacesOK == \A r \in Req : place[r] <= Cardinality(Decided(TheCall(r)))

\* An event id is remembered because it was delivered, and until its window is over.
SeenOK ==
    /\ \A e \in Event : seen[e] # Absent => \E q \in Req : EventOf[q] = e /\ Delivered(q)
    /\ evicted = 0 =>
         \A q \in Req : Delivered(q) /\ EventOf[q] \in OfClient =>
             now > SeenUntil(q) \/ seen[EventOf[q]] >= SeenUntil(q)

\* A tombstone stands for the end of its call, and stands as long as promised, less the
\* age of the reading it was made with.
TerminatedOK ==
    /\ \A c \in Call : terminated[c] # Absent =>
         \E q \in Req : Ends(q) /\ TheCall(q) = c /\ terminated[c] <= decidedAt[q] + Tombstone
    /\ evicted = 0 =>
         \A q \in Req : Ends(q) =>
             LET until == decidedAt[q] + Tombstone - MaxStall
             IN  now > until \/ terminated[TheCall(q)] >= until

\* An ordered signal that was delivered, and whose call was not reset since.
Live(q) ==
    /\ Delivered(q) /\ KindOf[q] = "ordered"
    /\ \A m \in Req : Before(q, m) => ~Resets(m)

\* The entry of a key is the last live signal that raised it; it is at least as high as any
\* live signal, unless it went because nothing raised it for too long.
SequencesOK ==
    /\ \A k \in SeqKey : touchedAt[k] # Absent =>
         \E q \in Req : Live(q) /\ TheKey(q) = k /\ Number(q) = highest[k] /\ read[q] = touchedAt[k]
    /\ evicted = 0 =>
         \A q \in Req : Live(q) =>
             \/ touchedAt[TheKey(q)] # Absent /\ highest[TheKey(q)] >= Number(q)
             \/ \E p \in Req : /\ Live(p) /\ TheKey(p) = TheKey(q) /\ Number(p) >= Number(q)
                               /\ now > read[p] + Tombstone

BaseInv == TypeOK /\ RequestsOK /\ PlacesOK
MapsInv == SeenOK /\ TerminatedOK /\ SequencesOK
IInv == BaseInv /\ MapsInv /\ RetriesAreDropped /\ OutdatedIsRefused /\ RefusalsAreJustified

\* A tombstone outlasts whatever its call may still have in flight: the window of a signal,
\* the skews of the clocks, and the ages of two readings.
TombstoneLasts ==
    /\ MaxStall < Tombstone
    /\ \A e \in Event : LET window == TTL[e] + Skew + (IF e \in OfClient THEN 0 ELSE Ahead)
                        IN  window + 2 * MaxStall <= Tombstone /\ window + MaxStall < Tombstone

-----------------------------------------------------------------------------
(* The maps                                                                *)

\* The batch that is dropped is not empty, there is as much to drop, and it leaves room.
LEMMA BatchMakesRoom ==
    ASSUME LedgerAssumption, NEW n \in Nat, n >= Capacity
    PROVE  Batch(n) \in 1 .. n /\ n - Batch(n) < Capacity
<1> USE DEF LedgerAssumption
<1> DEFINE S == {1, Capacity \div 8, n - Capacity + 1}
<1>1. Capacity \div 8 \in Nat /\ Capacity \div 8 <= n /\ n - Capacity + 1 \in Nat
  OBVIOUS
<1>2. \E x \in S : \A y \in S : x >= y
  BY <1>1
<1>3. Max(S) \in S /\ \A y \in S : Max(S) >= y
  BY <1>2 DEF Max
<1> DEFINE m == Max(S)
<1>4. m \in Nat /\ m >= 1 /\ m <= n /\ m >= n - Capacity + 1
  BY <1>1, <1>3
<1> HIDE DEF m
<1>5. Min({n, m}) \in {n, m} /\ Min({n, m}) <= n /\ Min({n, m}) <= m
  <2>1. \E x \in {n, m} : \A y \in {n, m} : x <= y
    BY <1>4
  <2>2. QED BY <2>1 DEF Min
<1>6. Min({n, m}) = m
  BY <1>4, <1>5
<1>7. QED BY <1>4, <1>6 DEF Batch, m

\* Dropping entries from a map of times leaves a map of times, with no entry that was not
\* there.
LEMMA DropTypes ==
    ASSUME NEW D, IsFiniteSet(D), NEW m \in [D -> Time], NEW gone
    PROVE  /\ Drop(m, gone) \in [D -> Time]
           /\ \A k \in D : Drop(m, gone)[k] = IF k \in gone THEN Absent ELSE m[k]
           /\ Held(Drop(m, gone)) = Held(m) \ gone
           /\ IsFiniteSet(Held(m)) /\ Cardinality(Held(m)) \in Nat
           /\ Cardinality(Held(Drop(m, gone))) \in 0 .. Cardinality(Held(m))
<1>1. /\ Drop(m, gone) \in [D -> Time]
      /\ \A k \in D : Drop(m, gone)[k] = IF k \in gone THEN Absent ELSE m[k]
      /\ Held(Drop(m, gone)) = Held(m) \ gone
  BY DEF Drop, Held, Time
<1>2. IsFiniteSet(Held(m)) /\ Held(Drop(m, gone)) \subseteq Held(m)
  BY <1>1, FS_Subset DEF Held
<1>3. QED BY <1>1, <1>2, FS_Subset, FS_CardinalityType

\* Inserting an entry after making room for it respects the capacity; nobody was dropped if
\* nobody was counted.
LEMMA PutTypes ==
    ASSUME LedgerAssumption, NEW D, IsFiniteSet(D), NEW m \in [D -> Time],
           Cardinality(Held(m)) <= Capacity, NEW k \in D, NEW t \in Nat, NEW v \in Victims(m, k)
    PROVE  /\ Put(m, v, k, t) \in [D -> Time]
           /\ \A x \in D : Put(m, v, k, t)[x] = IF x = k THEN t ELSE IF x \in v THEN Absent ELSE m[x]
           /\ Cardinality(Held(Put(m, v, k, t))) <= Capacity
           /\ Cardinality(v) \in Nat /\ (Cardinality(v) = 0 => v = {})
<1> USE DEF LedgerAssumption
<1> DEFINE old == Held(m)
<1>1. IsFiniteSet(old) /\ Cardinality(old) \in Nat
  BY DropTypes
<1>2. v \subseteq old
  BY DEF Victims, kSubset
<1>3. IsFiniteSet(v) /\ Cardinality(v) \in Nat /\ (Cardinality(v) = 0 => v = {})
  BY <1>1, <1>2, FS_Subset, FS_CardinalityType, FS_EmptySet
<1>4. /\ Put(m, v, k, t) \in [D -> Time]
      /\ \A x \in D : Put(m, v, k, t)[x] = IF x = k THEN t ELSE IF x \in v THEN Absent ELSE m[x]
  BY DropTypes DEF Put, Time
<1>5. Held(Put(m, v, k, t)) = (old \ v) \cup {k}
  BY <1>4 DEF Held, Put, Drop, Absent
<1>6. IsFiniteSet(old \ v) /\ Cardinality(old \ v) = Cardinality(old) - Cardinality(v)
  <2> DEFINE rest == old \ v
  <2>1. IsFiniteSet(rest) /\ rest \cup v = old /\ rest \cap v = {}
    BY <1>1, <1>2, FS_Subset
  <2> HIDE DEF rest, old
  <2>2. Cardinality(rest \cup v) = Cardinality(rest) + Cardinality(v) - Cardinality(rest \cap v)
    BY <2>1, <1>3, FS_Union
  <2>3. Cardinality(rest) \in Nat /\ Cardinality(rest \cap v) = 0
    BY <2>1, FS_CardinalityType, FS_EmptySet
  <2>4. Cardinality(rest) = Cardinality(old) - Cardinality(v)
    <3>1. Cardinality(old) = Cardinality(rest) + Cardinality(v) - 0
      BY <2>1, <2>2, <2>3, Zenon
    <3>2. ASSUME NEW a \in Nat, NEW b \in Nat, NEW c, c = a + b - 0 PROVE a = c - b
      BY <3>2
    <3>3. QED BY <3>1, <3>2, <2>3, <1>3
  <2>5. QED BY <2>1, <2>4 DEF rest
<1>7. CASE k \in old
  <2>1. v = {}
    BY <1>7 DEF Victims
  <2>2. (old \ v) \cup {k} = old
    BY <2>1, <1>7
  <2>3. QED BY <2>2, <1>3, <1>4, <1>5
<1>8. CASE k \notin old
  <2>1. Cardinality(old \ v) < Capacity
    <3>1. CASE Cardinality(old) < Capacity
      BY <3>1, <1>1, <1>3, <1>6
    <3>2. CASE Cardinality(old) >= Capacity
      <4>1. Cardinality(v) = Batch(Cardinality(old))
        BY <3>2, <1>1, <1>8 DEF Victims, kSubset
      <4>2. QED BY <4>1, <3>2, <1>1, <1>6, BatchMakesRoom
    <3>3. QED BY <3>1, <3>2, <1>1
  <2>2. Cardinality((old \ v) \cup {k}) = Cardinality(old \ v) + 1
    BY <1>6, <1>8, FS_AddElement
  <2>3. Cardinality(old \ v) \in Nat
    BY <1>6, FS_CardinalityType
  <2>4. QED BY <2>1, <2>2, <2>3, <1>3, <1>4, <1>5
<1>9. QED BY <1>7, <1>8

-----------------------------------------------------------------------------
(* Requests                                                                *)

\* The attributes of a request and of its event.
LEMMA Attributes ==
    ASSUME LedgerAssumption, TypeOK, NEW r \in Req
    PROVE  /\ EventOf[r] \in Event /\ KindOf[r] \in Kind /\ TheCall(r) \in Call
           /\ TheKey(r) \in SeqKey /\ TheKey(r)[1] = TheCall(r) /\ Number(r) \in Nat
           /\ TTL[EventOf[r]] \in Nat \ {0}
           /\ now \in Nat /\ read[r] \in Time /\ sent[EventOf[r]] \in Time
           /\ place[r] \in Nat /\ decidedAt[r] \in Time /\ verdict[r] \in Verdict
           /\ SeenUntil(r) \in Int /\ ExpiresAt(r) \in Int
           /\ read[r] # Absent => SeenUntil(r) \in Nat
<1>1. /\ EventOf[r] \in Event /\ KindOf[r] \in Kind /\ TheCall(r) \in Call
      /\ TTL[EventOf[r]] \in Nat \ {0} /\ ScopeOf[EventOf[r]] \in Scope /\ Number(r) \in Nat
  BY DEF LedgerAssumption, TheCall, Number
<1>2. TheKey(r) \in SeqKey /\ TheKey(r)[1] = TheCall(r)
  BY <1>1 DEF TheKey, SeqKey
<1>3. /\ now \in Nat /\ read[r] \in Time /\ sent[EventOf[r]] \in Time
      /\ place[r] \in Nat /\ decidedAt[r] \in Time /\ verdict[r] \in Verdict
  BY <1>1 DEF TypeOK, LedgerAssumption
<1>4. /\ SeenUntil(r) \in Int /\ ExpiresAt(r) \in Int
      /\ read[r] # Absent => SeenUntil(r) \in Nat
  BY <1>1, <1>3 DEF SeenUntil, ExpiresAt, Expiry, LedgerAssumption, Time, Absent
<1>5. QED BY <1>1, <1>2, <1>3, <1>4

\* The requests of a call that have a place are finitely many.
LEMMA DecidedIsFinite ==
    ASSUME LedgerAssumption, NEW c
    PROVE  IsFiniteSet(Decided(c)) /\ Cardinality(Decided(c)) \in Nat
BY FS_Subset, FS_CardinalityType DEF Decided, LedgerAssumption

\* What a request may be answered with once the lock is held.
Answered(r, reason) ==
    /\ Undecided(r)
    /\ Signal(r) => read[r] # Absent /\ reason \in {"delivered", "duplicate", "call_ended", "stale"}
    /\ ~Signal(r) => reason \in {"finished", "forgotten"}

\* The request comes after those of its call that were decided, and before none.
Last(r) ==
    /\ \A q, p \in Req \ {r} : Before(q, p)' <=> Before(q, p)
    /\ \A p \in Req : ~Before(r, p)'
    /\ \A q \in Req : Before(q, r)' <=> q # r /\ TheCall(q) = TheCall(r) /\ Placed(q)

\* The answers to the others stay.
OthersStay(r) ==
    /\ \A q \in Req \ {r} : /\ verdict'[q] = verdict[q] /\ place'[q] = place[q]
                            /\ decidedAt'[q] = decidedAt[q]
    /\ UNCHANGED <<now, sent, read>>

\* An answer is the last of its call.
LEMMA RecordIsLast ==
    ASSUME LedgerAssumption, TypeOK, RequestsOK, PlacesOK, NEW r \in Req, NEW reason \in Verdict,
           Answered(r, reason), Record(r, reason)
    PROVE  /\ RequestsOK' /\ PlacesOK' /\ Last(r) /\ OthersStay(r)
           /\ verdict'[r] = reason /\ decidedAt'[r] = now /\ Placed(r)' /\ ~Placed(r)
           /\ verdict' \in [Req -> Verdict] /\ place' \in [Req -> Nat]
           /\ decidedAt' \in [Req -> Time]
<1> DEFINE c == TheCall(r)
<1>1. /\ verdict \in [Req -> Verdict] /\ place \in [Req -> Nat] /\ decidedAt \in [Req -> Time]
      /\ now \in Nat /\ IsFiniteSet(Req)
  BY DEF TypeOK, LedgerAssumption
<1>2. IsFiniteSet(Decided(c)) /\ Cardinality(Decided(c)) \in Nat
  BY DecidedIsFinite
<1>3. /\ OthersStay(r) /\ verdict'[r] = reason /\ decidedAt'[r] = now
      /\ place'[r] = 1 + Cardinality(Decided(c))
  BY <1>1 DEF Record, OthersStay
<1>4. /\ verdict' \in [Req -> Verdict] /\ place' \in [Req -> Nat] /\ decidedAt' \in [Req -> Time]
  BY <1>1, <1>2 DEF Record, Time
<1>5. place[r] = 0
  BY DEF Answered, Undecided, RequestsOK, Placed
<1>6. RequestsOK'
  <2> SUFFICES ASSUME NEW q \in Req PROVE
        /\ read'[q] <= now' /\ (Undecided(q)' /\ read'[q] # Absent => now' <= read'[q] + MaxStall)
        /\ Placed(q)' <=> verdict'[q] \notin {"none", "expired"}
        /\ Placed(q)' => decidedAt'[q] \in 0 .. now'
        /\ verdict'[q] \in {"finished", "forgotten"} => ~Signal(q)
        /\ ~Signal(q) => verdict'[q] \in {"none", "finished", "forgotten"}
        /\ Signal(q) /\ Placed(q)' =>
             read'[q] # Absent /\ read'[q] <= decidedAt'[q] /\ decidedAt'[q] <= read'[q] + MaxStall
        /\ Signal(q) /\ read'[q] # Absent =>
             /\ EventOf[q] \notin OfClient => sent'[EventOf[q]] # Absent
             /\ verdict'[q] # "expired" => read'[q] <= ExpiresAt(q)' + Skew
    BY DEF RequestsOK
  <2>1. ExpiresAt(q)' = ExpiresAt(q)
    BY <1>3 DEF OthersStay, ExpiresAt, Expiry
  <2>2. CASE q = r
    BY <2>1, <2>2, <1>1, <1>2, <1>3, <1>5
       DEF RequestsOK, OthersStay, Placed, Undecided, Answered
  <2>3. CASE q # r
    BY <2>1, <2>3, <1>3 DEF RequestsOK, OthersStay, Placed, Undecided
  <2>4. QED BY <2>2, <2>3
<1>7. Decided(c)' = Decided(c) \cup {r} /\ r \notin Decided(c)
  BY <1>2, <1>3, <1>5 DEF Decided, OthersStay
<1>8. Cardinality(Decided(c)') = Cardinality(Decided(c)) + 1
  BY <1>2, <1>7, FS_AddElement
<1>9. \A q \in Req : TheCall(q) # c => Decided(TheCall(q))' = Decided(TheCall(q))
  BY <1>3 DEF Decided, OthersStay
<1>10. PlacesOK'
  <2> SUFFICES ASSUME NEW q \in Req PROVE place'[q] <= Cardinality(Decided(TheCall(q)))'
    BY DEF PlacesOK
  <2>1. CASE q = r
    BY <2>1, <1>2, <1>3, <1>8
  <2>2. CASE q # r /\ TheCall(q) = c
    BY <2>2, <1>1, <1>2, <1>3, <1>8 DEF PlacesOK, OthersStay
  <2>3. CASE q # r /\ TheCall(q) # c
    BY <2>3, <1>3, <1>9 DEF PlacesOK, OthersStay
  <2>4. QED BY <2>1, <2>2, <2>3
<1>11. \A q \in Req : TheCall(q) = c => place[q] <= Cardinality(Decided(c))
  BY DEF PlacesOK
<1>12. Last(r)
  <2>1. \A q, p \in Req \ {r} : Before(q, p)' <=> Before(q, p)
    BY <1>3 DEF Before, OthersStay
  <2>2. ASSUME NEW p \in Req, Before(r, p)' PROVE FALSE
    <3>1. TheCall(p) = c /\ place'[r] < place'[p] /\ place'[p] \in Nat
      BY <2>2, <1>4 DEF Before
    <3>2. CASE p = r
      BY <3>1, <3>2
    <3>3. CASE p # r
      BY <3>1, <3>3, <1>1, <1>2, <1>3, <1>11 DEF OthersStay
    <3>4. QED BY <3>2, <3>3
  <2>3. ASSUME NEW q \in Req PROVE Before(q, r)' <=> q # r /\ TheCall(q) = c /\ Placed(q)
    <3>1. CASE q = r
      BY <3>1, <2>2
    <3>2. CASE q # r
      <4>1. place'[q] = place[q] /\ place[q] \in Nat
        BY <3>2, <1>1, <1>3 DEF OthersStay
      <4>2. QED BY <3>2, <4>1, <1>2, <1>3, <1>11 DEF Before, Placed
    <3>3. QED BY <3>1, <3>2
  <2>4. QED BY <2>1, <2>2, <2>3 DEF Last
<1>13. Placed(r)' /\ ~Placed(r)
  BY <1>2, <1>3, <1>5 DEF Placed
<1>14. QED BY <1>3, <1>4, <1>6, <1>10, <1>12, <1>13

-----------------------------------------------------------------------------
(* What a step does to the maps                                            *)

MapsOK ==
    /\ seen \in [Event -> Time] /\ touchedAt \in [SeqKey -> Time]
    /\ highest \in [SeqKey -> Nat] /\ terminated \in [Call -> Time]
    /\ sweptAt \in Int /\ evicted \in Nat
    /\ Cardinality(Held(seen)) <= Capacity
    /\ Cardinality(Held(touchedAt)) <= Capacity
    /\ Cardinality(Held(terminated)) <= Capacity

\* An id is dropped once its window is over, unless something was evicted.
SeenStep(r) ==
    /\ \A e \in Event : seen'[e] # Absent =>
         seen'[e] = seen[e] \/ (e = EventOf[r] /\ Delivered(r)')
    /\ evicted' = 0 => \A e \in Event : seen'[e] >= seen[e] \/ seen[e] < now
    /\ Delivered(r)' /\ EventOf[r] \in OfClient => seen'[EventOf[r]] = SeenUntil(r)

\* A tombstone is dropped once it is over, or replaced by that of a later end.
TerminatedStep(r) ==
    /\ \A c \in Call : terminated'[c] # Absent =>
         \/ terminated'[c] = terminated[c]
         \/ c = TheCall(r) /\ Ends(r)' /\ terminated'[c] <= now + Tombstone
    /\ evicted' = 0 => \A c \in Call : \/ terminated'[c] >= terminated[c]
                                       \/ terminated[c] < now
                                       \/ terminated'[c] >= now + Tombstone - MaxStall
    /\ Ends(r)' => terminated'[TheCall(r)] >= now + Tombstone - MaxStall

\* A sequence is raised, reset with its call, or dropped for its silence.
SequencesStep(r) ==
    /\ \A k \in SeqKey : touchedAt'[k] # Absent =>
         /\ Resets(r)' => k[1] # TheCall(r)
         /\ \/ touchedAt'[k] = touchedAt[k] /\ highest'[k] = highest[k]
            \/ /\ k = TheKey(r) /\ Delivered(r)' /\ KindOf[r] = "ordered"
               /\ touchedAt'[k] = read[r] /\ highest'[k] = Number(r)
    /\ evicted' = 0 => \A k \in SeqKey : touchedAt[k] # Absent =>
         \/ Resets(r)' /\ k[1] = TheCall(r)
         \/ touchedAt'[k] # Absent /\ highest'[k] >= highest[k]
         \/ now > touchedAt[k] + Tombstone
    /\ Delivered(r)' /\ KindOf[r] = "ordered" =>
         touchedAt'[TheKey(r)] # Absent /\ highest'[TheKey(r)] >= Number(r)

MapsStep(r) == SeenStep(r) /\ TerminatedStep(r) /\ SequencesStep(r) /\ evicted <= evicted'

\* The maps of the ledger have finitely many keys.
LEMMA KeysAreFinite ==
    ASSUME LedgerAssumption
    PROVE  IsFiniteSet(SeqKey) /\ IsFiniteSet(Event) /\ IsFiniteSet(Call)
BY FS_Product DEF SeqKey, LedgerAssumption

\* The sweep drops only what is over.
LEMMA SweptMaps ==
    ASSUME LedgerAssumption, TypeOK, NEW r \in Req
    PROVE  /\ SeenBy(r) \in [Event -> Time] /\ Cardinality(Held(SeenBy(r))) <= Capacity
           /\ \A e \in Event : SeenBy(r)[e] = seen[e]
                               \/ (SeenBy(r)[e] = Absent /\ read[r] > seen[e])
           /\ TerminatedFor(r) \in [Call -> Time] /\ Cardinality(Held(TerminatedFor(r))) <= Capacity
           /\ \A c \in Call : TerminatedFor(r)[c] = terminated[c]
                              \/ (TerminatedFor(r)[c] = Absent /\ read[r] > terminated[c])
           /\ TouchedFor(r) \in [SeqKey -> Time] /\ Cardinality(Held(TouchedFor(r))) <= Capacity
           /\ \A k \in SeqKey : TouchedFor(r)[k] = touchedAt[k]
                                \/ (TouchedFor(r)[k] = Absent /\ read[r] - touchedAt[k] > Tombstone)
<1>1. /\ seen \in [Event -> Time] /\ terminated \in [Call -> Time] /\ touchedAt \in [SeqKey -> Time]
      /\ Cardinality(Held(seen)) <= Capacity /\ Cardinality(Held(terminated)) <= Capacity
      /\ Cardinality(Held(touchedAt)) <= Capacity /\ Capacity \in Nat
  BY DEF TypeOK, LedgerAssumption
<1>2. IsFiniteSet(SeqKey) /\ IsFiniteSet(Event) /\ IsFiniteSet(Call)
  BY KeysAreFinite
<1>3. /\ SeenBy(r) \in [Event -> Time] /\ Cardinality(Held(SeenBy(r))) <= Capacity
      /\ \A e \in Event : SeenBy(r)[e] = seen[e]
                          \/ (SeenBy(r)[e] = Absent /\ read[r] > seen[e])
  <2>1. /\ SeenBy(r) \in [Event -> Time]
        /\ \A e \in Event : SeenBy(r)[e] = IF e \in Past(seen, read[r]) THEN Absent ELSE seen[e]
        /\ Cardinality(Held(SeenBy(r))) <= Cardinality(Held(seen))
        /\ Cardinality(Held(SeenBy(r))) \in Nat /\ Cardinality(Held(seen)) \in Nat
    BY <1>1, <1>2, DropTypes DEF SeenBy
  <2>2. \A e \in Past(seen, read[r]) : read[r] > seen[e]
    BY DEF Past
  <2>3. QED BY <2>1, <2>2, <1>1
<1>4. /\ TerminatedFor(r) \in [Call -> Time] /\ Cardinality(Held(TerminatedFor(r))) <= Capacity
      /\ \A c \in Call : TerminatedFor(r)[c] = terminated[c]
                         \/ (TerminatedFor(r)[c] = Absent /\ read[r] > terminated[c])
  <2>1. /\ TerminatedFor(r) \in [Call -> Time]
        /\ \A c \in Call : TerminatedFor(r)[c]
                             = IF c \in Past(terminated, read[r]) THEN Absent ELSE terminated[c]
        /\ Cardinality(Held(TerminatedFor(r))) <= Cardinality(Held(terminated))
        /\ Cardinality(Held(TerminatedFor(r))) \in Nat /\ Cardinality(Held(terminated)) \in Nat
    BY <1>1, <1>2, DropTypes DEF TerminatedFor
  <2>2. \A c \in Past(terminated, read[r]) : read[r] > terminated[c]
    BY DEF Past
  <2>3. QED BY <2>1, <2>2, <1>1
<1>5. /\ TouchedFor(r) \in [SeqKey -> Time] /\ Cardinality(Held(TouchedFor(r))) <= Capacity
      /\ \A k \in SeqKey : TouchedFor(r)[k] = touchedAt[k]
                           \/ (TouchedFor(r)[k] = Absent /\ read[r] - touchedAt[k] > Tombstone)
  <2>1. /\ TouchedFor(r) \in [SeqKey -> Time]
        /\ \A k \in SeqKey : TouchedFor(r)[k] = IF k \in Silent(read[r]) THEN Absent ELSE touchedAt[k]
        /\ Cardinality(Held(TouchedFor(r))) <= Cardinality(Held(touchedAt))
        /\ Cardinality(Held(TouchedFor(r))) \in Nat /\ Cardinality(Held(touchedAt)) \in Nat
    BY <1>1, <1>2, DropTypes DEF TouchedFor
  <2>2. \A k \in Silent(read[r]) : read[r] - touchedAt[k] > Tombstone
    BY DEF Silent
  <2>3. QED BY <2>1, <2>2, <1>1
<1>6. QED BY <1>3, <1>4, <1>5

-----------------------------------------------------------------------------
(* The steps                                                               *)

\* The first check that fails gives the reason.
LEMMA ReasonFacts ==
    ASSUME NEW r
    PROVE  /\ Reason(r) \in {"delivered", "duplicate", "call_ended", "stale"}
           /\ Reason(r) = "delivered" <=> ~Duplicate(r) /\ ~CallEnded(r) /\ ~Stale(r)
           /\ Reason(r) = "duplicate" => Duplicate(r)
           /\ Reason(r) = "call_ended" => CallEnded(r)
           /\ Reason(r) = "stale" => Stale(r)
BY DEF Reason

\* What a refusal does to the maps.
LEMMA RefuseStep ==
    ASSUME LedgerAssumption, TypeOK, RequestsOK, NEW r \in Req, Refuse(r)
    PROVE  MapsStep(r) /\ MapsOK'
<1>1. /\ seen' = SeenBy(r) /\ terminated' = TerminatedFor(r) /\ touchedAt' = TouchedFor(r)
      /\ highest' = [k \in SeqKey |-> IF touchedAt'[k] = Absent THEN 0 ELSE highest[k]]
      /\ evicted' = evicted /\ sweptAt' \in {sweptAt, read[r]} /\ read[r] # Absent /\ Signal(r)
      /\ verdict'[r] = Reason(r) /\ Reason(r) # "delivered"
  BY DEF Refuse, SetSequences, Sweep, Record, Locked, TypeOK
<1>2. ~Delivered(r)' /\ ~Ends(r)' /\ ~Resets(r)'
  BY <1>1, ReasonFacts DEF Delivered, Ends, Resets
<1>3. /\ now \in Nat /\ read[r] \in Nat /\ read[r] <= now /\ evicted \in Nat /\ sweptAt \in Int
      /\ Tombstone \in Nat /\ highest \in [SeqKey -> Nat]
      /\ seen \in [Event -> Time] /\ terminated \in [Call -> Time] /\ touchedAt \in [SeqKey -> Time]
  BY <1>1, Attributes DEF RequestsOK, TypeOK, Time, LedgerAssumption
<1>4. MapsOK'
  <2>1. highest' \in [SeqKey -> Nat]
    BY <1>1, <1>3
  <2>2. QED BY <1>1, <1>3, <2>1, SweptMaps DEF MapsOK
<1>5. SeenStep(r)
  BY <1>1, <1>2, <1>3, SweptMaps DEF SeenStep, Time, Absent
<1>6. TerminatedStep(r)
  BY <1>1, <1>2, <1>3, SweptMaps DEF TerminatedStep, Time, Absent
<1>7. SequencesStep(r)
  BY <1>1, <1>2, <1>3, SweptMaps DEF SequencesStep, Time, Absent
<1>8. QED BY <1>1, <1>3, <1>4, <1>5, <1>6, <1>7 DEF MapsStep

\* What a delivery does to the maps.
LEMMA DeliverStep ==
    ASSUME LedgerAssumption, TypeOK, RequestsOK, NEW r \in Req, Deliver(r)
    PROVE  MapsStep(r) /\ MapsOK'
<1> DEFINE e == EventOf[r]
           c == TheCall(r)
           k == TheKey(r)
           touched == TouchedFor(r)
           ended == TerminatedFor(r)
           known == SeenBy(r)
           values == IF Grows(r) THEN [highest EXCEPT ![k] = SequenceOf[e]] ELSE highest
<1>1. PICK s \in IF Grows(r) THEN Victims(touched, k) ELSE {{}},
           t \in IF Terminal(r) THEN Victims(ended, c) ELSE {{}},
           d \in IF e \in OfClient THEN Victims(known, e) ELSE {{}} :
        LET grown == IF Grows(r) THEN Put(touched, s, k, read[r]) ELSE touched
        IN
        /\ SetSequences(IF Terminal(r) THEN Drop(grown, CallKeys(c)) ELSE grown, values)
        /\ terminated' = IF Terminal(r) THEN Put(ended, t, c, read[r] + Tombstone) ELSE ended
        /\ seen' = IF e \in OfClient THEN Put(known, d, e, SeenUntil(r)) ELSE known
        /\ evicted' = evicted + Cardinality(s) + Cardinality(t) + Cardinality(d)
  BY DEF Deliver
<1> DEFINE grown == IF Grows(r) THEN Put(touched, s, k, read[r]) ELSE touched
<1>2. /\ sweptAt' \in {sweptAt, read[r]} /\ read[r] # Absent /\ Signal(r)
      /\ verdict'[r] = "delivered" /\ ~Duplicate(r) /\ ~CallEnded(r) /\ ~Stale(r)
  BY ReasonFacts DEF Deliver, Sweep, Record, Locked, TypeOK
<1>3. Delivered(r)' /\ (Ends(r)' <=> Terminal(r)) /\ (Resets(r)' <=> Terminal(r))
  BY <1>2 DEF Delivered, Ends, Resets
<1>4. /\ now \in Nat /\ read[r] \in Nat /\ read[r] <= now /\ now <= read[r] + MaxStall
      /\ evicted \in Nat /\ sweptAt \in Int /\ Tombstone \in Nat /\ MaxStall \in Nat
      /\ highest \in [SeqKey -> Nat] /\ SeenUntil(r) \in Nat /\ SequenceOf[e] \in Nat
      /\ seen \in [Event -> Time] /\ terminated \in [Call -> Time] /\ touchedAt \in [SeqKey -> Time]
      /\ e \in Event /\ c \in Call /\ k \in SeqKey /\ k[1] = c
  <2>1. Undecided(r)
    BY DEF Deliver, Locked
  <2>2. QED BY <1>2, <2>1, Attributes DEF RequestsOK, TypeOK, Time, LedgerAssumption, Number
<1>5. /\ known \in [Event -> Time] /\ ended \in [Call -> Time] /\ touched \in [SeqKey -> Time]
      /\ Cardinality(Held(known)) <= Capacity /\ Cardinality(Held(ended)) <= Capacity
      /\ Cardinality(Held(touched)) <= Capacity
      /\ IsFiniteSet(SeqKey) /\ IsFiniteSet(Event) /\ IsFiniteSet(Call)
  BY SweptMaps, KeysAreFinite
<1> HIDE DEF e, c, k, touched, ended, known
<1>6. /\ seen' \in [Event -> Time] /\ Cardinality(Held(seen')) <= Capacity
      /\ Cardinality(d) \in Nat /\ (Cardinality(d) = 0 => d = {})
      /\ \A x \in Event : seen'[x] = IF x = e /\ e \in OfClient THEN SeenUntil(r)
                                     ELSE IF x \in d THEN Absent ELSE known[x]
  <2>1. CASE e \in OfClient
    <3>1. d \in Victims(known, e) /\ seen' = Put(known, d, e, SeenUntil(r))
      BY <2>1, <1>1
    <3>2. SeenUntil(r) \in Nat
      BY <1>4
    <3> HIDE DEF grown
    <3>3. QED BY <2>1, <3>1, <3>2, <1>4, <1>5, PutTypes
  <2>2. CASE e \notin OfClient
    <3>1. d = {} /\ seen' = known
      BY <2>2, <1>1
    <3> HIDE DEF grown
    <3>2. QED BY <2>2, <3>1, <1>5, FS_EmptySet
  <2>3. QED BY <2>1, <2>2
<1>7. /\ terminated' \in [Call -> Time] /\ Cardinality(Held(terminated')) <= Capacity
      /\ Cardinality(t) \in Nat /\ (Cardinality(t) = 0 => t = {})
      /\ \A x \in Call : terminated'[x] = IF x = c /\ Terminal(r) THEN read[r] + Tombstone
                                          ELSE IF x \in t THEN Absent ELSE ended[x]
  <2>1. CASE Terminal(r)
    <3>1. t \in Victims(ended, c) /\ terminated' = Put(ended, t, c, read[r] + Tombstone)
      BY <2>1, <1>1
    <3>2. read[r] + Tombstone \in Nat
      BY <1>4
    <3> HIDE DEF grown
    <3>3. QED BY <2>1, <3>1, <3>2, <1>4, <1>5, PutTypes
  <2>2. CASE ~Terminal(r)
    <3>1. t = {} /\ terminated' = ended
      BY <2>2, <1>1
    <3> HIDE DEF grown
    <3>2. QED BY <2>2, <3>1, <1>5, FS_EmptySet
  <2>3. QED BY <2>1, <2>2
<1>8. /\ grown \in [SeqKey -> Time] /\ Cardinality(Held(grown)) <= Capacity
      /\ Cardinality(s) \in Nat /\ (Cardinality(s) = 0 => s = {})
      /\ \A x \in SeqKey : grown[x] = IF x = k /\ Grows(r) THEN read[r]
                                      ELSE IF x \in s THEN Absent ELSE touched[x]
  <2>1. CASE Grows(r)
    <3>1. s \in Victims(touched, k) /\ grown = Put(touched, s, k, read[r])
      BY <2>1, <1>1
    <3>2. read[r] \in Nat
      BY <1>4
    <3> HIDE DEF grown
    <3>3. QED BY <2>1, <3>1, <3>2, <1>4, <1>5, PutTypes
  <2>2. CASE ~Grows(r)
    <3>1. s = {} /\ grown = touched
      BY <2>2, <1>1
    <3> HIDE DEF grown
    <3>2. QED BY <2>2, <3>1, <1>5, FS_EmptySet
  <2>3. QED BY <2>1, <2>2
<1>9. /\ touchedAt' = IF Terminal(r) THEN Drop(grown, CallKeys(c)) ELSE grown
      /\ highest' = [x \in SeqKey |-> IF touchedAt'[x] = Absent THEN 0 ELSE values[x]]
  BY <1>1 DEF SetSequences
<1>10. values \in [SeqKey -> Nat] /\ \A x \in SeqKey :
         values[x] = IF x = k /\ Grows(r) THEN SequenceOf[e] ELSE highest[x]
  BY <1>4
<1> HIDE DEF grown, values
<1>11. /\ touchedAt' \in [SeqKey -> Time] /\ Cardinality(Held(touchedAt')) <= Capacity
       /\ \A x \in SeqKey : touchedAt'[x] = IF Terminal(r) /\ x[1] = c THEN Absent ELSE grown[x]
  <2>1. CASE Terminal(r)
    <3>1. /\ touchedAt' \in [SeqKey -> Time]
          /\ \A x \in SeqKey : touchedAt'[x] = IF x \in CallKeys(c) THEN Absent ELSE grown[x]
          /\ Cardinality(Held(touchedAt')) \in 0 .. Cardinality(Held(grown))
          /\ Cardinality(Held(grown)) \in Nat
      BY <2>1, <1>5, <1>8, <1>9, DropTypes
    <3>2. \A x \in SeqKey : x \in CallKeys(c) <=> x[1] = c
      BY DEF CallKeys
    <3>3. Capacity \in Nat
      BY DEF LedgerAssumption
    <3>4. QED BY <2>1, <3>1, <3>2, <3>3, <1>8
  <2>2. CASE ~Terminal(r)
    BY <2>2, <1>8, <1>9
  <2>3. QED BY <2>1, <2>2
<1>12. /\ evicted' \in Nat /\ evicted <= evicted'
       /\ evicted' = 0 => d = {} /\ t = {} /\ s = {}
  <2>1. evicted' = evicted + Cardinality(s) + Cardinality(t) + Cardinality(d)
    BY <1>1
  <2>2. /\ evicted \in Nat /\ Cardinality(d) \in Nat /\ (Cardinality(d) = 0 => d = {})
        /\ Cardinality(t) \in Nat /\ (Cardinality(t) = 0 => t = {})
        /\ Cardinality(s) \in Nat /\ (Cardinality(s) = 0 => s = {})
    BY <1>4, <1>6, <1>7, <1>8
  <2>3. \A n, x, y, z \in Nat : /\ n + x + y + z \in Nat /\ n <= n + x + y + z
                                /\ n + x + y + z = 0 => x = 0 /\ y = 0 /\ z = 0
    OBVIOUS
  <2>4. /\ evicted + Cardinality(s) + Cardinality(t) + Cardinality(d) \in Nat
        /\ evicted <= evicted + Cardinality(s) + Cardinality(t) + Cardinality(d)
        /\ evicted + Cardinality(s) + Cardinality(t) + Cardinality(d) = 0 =>
             Cardinality(s) = 0 /\ Cardinality(t) = 0 /\ Cardinality(d) = 0
    BY <2>2, <2>3, Zenon
  <2>5. QED BY <2>1, <2>2, <2>4, Zenon
<1>13. MapsOK'
  <2>1. highest' \in [SeqKey -> Nat]
    BY <1>9, <1>10
  <2>2. sweptAt' \in Int
    BY <1>2, <1>4
  <2>3. QED BY <1>6, <1>7, <1>11, <1>12, <2>1, <2>2 DEF MapsOK
<1>14. SeenStep(r)
  <2>1. \A x \in Event : known[x] = seen[x] \/ (known[x] = Absent /\ read[r] > seen[x])
    BY SweptMaps DEF known
  <2>2. e \in OfClient => known[e] = Absent
    BY <1>2, <1>4, <1>5 DEF Duplicate, Held, known, e
  <2>3. ASSUME NEW x \in Event, seen'[x] # Absent PROVE seen'[x] = seen[x] \/ x = e
    BY <2>1, <2>3, <1>6
  <2>4. ASSUME evicted' = 0, NEW x \in Event PROVE seen'[x] >= seen[x] \/ seen[x] < now
    <3>1. d = {} /\ seen[x] \in Time /\ known[x] \in Time
      BY <2>4, <1>4, <1>5, <1>12
    <3>2. CASE x = e /\ e \in OfClient
      <4>1. seen[x] = Absent \/ read[r] > seen[x]
        BY <2>1, <2>2, <3>2
      <4>2. seen'[x] \in Nat
        BY <3>2, <1>4, <1>6
      <4>3. QED BY <4>1, <4>2, <3>1, <1>4 DEF Absent, Time
    <3>3. CASE ~(x = e /\ e \in OfClient)
      <4>1. seen'[x] = known[x]
        BY <3>1, <3>3, <1>6
      <4>2. QED BY <4>1, <2>1, <3>1, <1>4 DEF Absent, Time
    <3>4. QED BY <3>2, <3>3
  <2>5. e \in OfClient => seen'[e] = SeenUntil(r)
    BY <1>4, <1>6
  <2>6. QED BY <2>3, <2>4, <2>5, <1>3 DEF SeenStep, e
<1>15. TerminatedStep(r)
  <2>1. \A x \in Call : ended[x] = terminated[x] \/ (ended[x] = Absent /\ read[r] > terminated[x])
    BY SweptMaps DEF ended
  <2>2. ASSUME NEW x \in Call, terminated'[x] # Absent
        PROVE  \/ terminated'[x] = terminated[x]
               \/ x = c /\ Ends(r)' /\ terminated'[x] <= now + Tombstone
    BY <2>1, <2>2, <1>3, <1>4, <1>7
  <2>3. ASSUME evicted' = 0, NEW x \in Call
        PROVE  \/ terminated'[x] >= terminated[x]
               \/ terminated[x] < now
               \/ terminated'[x] >= now + Tombstone - MaxStall
    <3>1. t = {} /\ terminated[x] \in Time /\ ended[x] \in Time
      BY <2>3, <1>4, <1>5, <1>12
    <3>2. CASE x = c /\ Terminal(r)
      BY <3>2, <1>4, <1>7
    <3>3. CASE ~(x = c /\ Terminal(r))
      <4>1. terminated'[x] = ended[x]
        BY <3>1, <3>3, <1>7
      <4>2. QED BY <4>1, <2>1, <3>1, <1>4 DEF Absent, Time
    <3>4. QED BY <3>2, <3>3
  <2>4. Ends(r)' => terminated'[c] >= now + Tombstone - MaxStall
    BY <1>3, <1>4, <1>7
  <2>5. QED BY <2>2, <2>3, <2>4 DEF TerminatedStep, c
<1>16. SequencesStep(r)
  <2>1. \A x \in SeqKey : touched[x] = touchedAt[x]
                          \/ (touched[x] = Absent /\ read[r] - touchedAt[x] > Tombstone)
    BY SweptMaps DEF touched
  <2>2. Grows(r) => KindOf[r] # "candidate" /\ (touched[k] # Absent => SequenceOf[e] > highest[k])
    BY <1>4, <1>5 DEF Grows, Held, touched, k, e
  <2>3. KindOf[r] \in {"ordered", "candidate", "terminal"}
    BY <1>2, Attributes DEF Kind, Signal
  <2>4. ASSUME NEW x \in SeqKey, touchedAt'[x] # Absent
        PROVE  /\ Resets(r)' => x[1] # c
               /\ \/ touchedAt'[x] = touchedAt[x] /\ highest'[x] = highest[x]
                  \/ /\ x = k /\ KindOf[r] = "ordered"
                     /\ touchedAt'[x] = read[r] /\ highest'[x] = SequenceOf[e]
    <3>1. ~(Terminal(r) /\ x[1] = c) /\ touchedAt'[x] = grown[x] /\ highest'[x] = values[x]
      BY <2>4, <1>9, <1>11
    <3>2. CASE x = k /\ Grows(r)
      <4>1. KindOf[r] = "ordered"
        BY <3>1, <3>2, <2>2, <2>3, <1>4 DEF Terminal
      <4>2. QED BY <4>1, <3>1, <3>2, <1>3, <1>8, <1>10
    <3>3. CASE ~(x = k /\ Grows(r))
      <4>1. touchedAt'[x] = touched[x]
        BY <2>4, <3>1, <3>3, <1>8
      <4>2. QED BY <4>1, <3>1, <3>3, <2>1, <2>4, <1>3, <1>10
    <3>4. QED BY <3>2, <3>3
  <2>5. ASSUME evicted' = 0, NEW x \in SeqKey, touchedAt[x] # Absent
        PROVE  \/ Resets(r)' /\ x[1] = c
               \/ touchedAt'[x] # Absent /\ highest'[x] >= highest[x]
               \/ now > touchedAt[x] + Tombstone
    <3>1. s = {} /\ touchedAt[x] \in Nat /\ touched[x] \in Time /\ highest[x] \in Nat
      BY <2>5, <1>4, <1>5, <1>12 DEF Time
    <3>2. CASE Terminal(r) /\ x[1] = c
      BY <3>2, <1>3
    <3>3. CASE ~(Terminal(r) /\ x[1] = c) /\ touched[x] # touchedAt[x]
      BY <3>1, <3>3, <2>1, <1>4
    <3>4. CASE ~(Terminal(r) /\ x[1] = c) /\ touched[x] = touchedAt[x]
      <4>1. touchedAt'[x] = grown[x]
        BY <3>4, <1>11
      <4>2. touchedAt'[x] # Absent
        BY <4>1, <3>1, <3>4, <2>5, <1>4, <1>8 DEF Absent
      <4>3. highest'[x] = values[x]
        BY <4>2, <1>9
      <4>4. values[x] >= highest[x]
        <5>1. CASE x = k /\ Grows(r)
          BY <5>1, <3>1, <3>4, <2>2, <2>5, <1>4, <1>10
        <5>2. CASE ~(x = k /\ Grows(r))
          BY <5>2, <3>1, <1>10
        <5>3. QED BY <5>1, <5>2
      <4>5. QED BY <4>2, <4>3, <4>4
    <3>5. QED BY <3>2, <3>3, <3>4
  <2>6. ASSUME KindOf[r] = "ordered"
        PROVE  touchedAt'[k] # Absent /\ highest'[k] >= SequenceOf[e]
    <3>1. ~Terminal(r)
      BY <2>6 DEF Terminal
    <3>2. touchedAt'[k] = grown[k]
      BY <3>1, <1>4, <1>11
    <3>3. CASE Grows(r)
      <4>1. grown[k] # Absent
        BY <3>3, <1>4, <1>8 DEF Absent
      <4>2. QED BY <4>1, <3>2, <3>3, <1>4, <1>9, <1>10
    <3>4. CASE ~Grows(r)
      <4>1. k \in Held(touched) /\ ~(SequenceOf[e] > highest[k])
        BY <2>6, <3>4 DEF Grows, touched, k, e
      <4>2. touched[k] # Absent /\ highest[k] \in Nat
        BY <4>1, <1>4 DEF Held
      <4>3. s = {}
        BY <3>4, <1>1
      <4>4. touchedAt'[k] # Absent /\ highest'[k] = highest[k]
        BY <4>2, <4>3, <3>2, <3>4, <1>4, <1>8, <1>9, <1>10
      <4>5. QED BY <4>1, <4>2, <4>4, <1>4
    <3>5. QED BY <3>3, <3>4
  <2>7. QED BY <2>4, <2>5, <2>6, <1>3 DEF SequencesStep, c, k, e, Number
<1>17. QED BY <1>12, <1>13, <1>14, <1>15, <1>16 DEF MapsStep

\* What the teardown of a call does to the maps.
LEMMA TeardownStep ==
    ASSUME LedgerAssumption, TypeOK, NEW r \in Req, Finish(r) \/ Forget(r)
    PROVE  MapsStep(r) /\ MapsOK'
<1> DEFINE c == TheCall(r)
           left == Drop(touchedAt, CallKeys(c))
<1>1. /\ c \in Call /\ now \in Nat /\ Tombstone \in Nat /\ MaxStall \in Nat /\ evicted \in Nat
      /\ now + Tombstone \in Nat /\ highest \in [SeqKey -> Nat] /\ sweptAt \in Int
      /\ seen \in [Event -> Time] /\ terminated \in [Call -> Time] /\ touchedAt \in [SeqKey -> Time]
      /\ IsFiniteSet(Call) /\ IsFiniteSet(SeqKey) /\ Capacity \in Nat
      /\ Cardinality(Held(seen)) <= Capacity /\ Cardinality(Held(terminated)) <= Capacity
      /\ Cardinality(Held(touchedAt)) <= Capacity
  BY Attributes, KeysAreFinite DEF TypeOK, LedgerAssumption
<1>2. /\ seen' = seen /\ sweptAt' = sweptAt /\ touchedAt' = left
      /\ highest' = [k \in SeqKey |-> IF left[k] = Absent THEN 0 ELSE highest[k]]
      /\ KindOf[r] = "teardown"
  BY DEF Finish, Forget, SetSequences
<1>3. /\ left \in [SeqKey -> Time] /\ Cardinality(Held(left)) <= Capacity
      /\ \A k \in SeqKey : left[k] = IF k[1] = c THEN Absent ELSE touchedAt[k]
  <2>1. /\ left \in [SeqKey -> Time]
        /\ \A k \in SeqKey : left[k] = IF k \in CallKeys(c) THEN Absent ELSE touchedAt[k]
        /\ Cardinality(Held(left)) \in 0 .. Cardinality(Held(touchedAt))
        /\ Cardinality(Held(touchedAt)) \in Nat
    BY <1>1, DropTypes
  <2>2. \A k \in SeqKey : k \in CallKeys(c) <=> k[1] = c
    BY DEF CallKeys
  <2> HIDE DEF left
  <2>3. QED BY <2>1, <2>2, <1>1
<1> HIDE DEF left
<1>4. ~Delivered(r)' /\ Resets(r)'
  BY DEF Finish, Forget, Record, TypeOK, Delivered, Resets, Ends
<1>5. SequencesStep(r)
  <2>1. \A k \in SeqKey : touchedAt'[k] # Absent => k[1] # c /\ touchedAt'[k] = touchedAt[k]
                                                  /\ highest'[k] = highest[k]
    BY <1>2, <1>3
  <2>2. \A k \in SeqKey : touchedAt[k] # Absent =>
           (k[1] = c \/ (touchedAt'[k] # Absent /\ highest'[k] >= highest[k]))
    BY <1>1, <1>2, <1>3
  <2>3. QED BY <2>1, <2>2, <1>4 DEF SequencesStep
<1>6. SeenStep(r)
  BY <1>1, <1>2, <1>4 DEF SeenStep, Time, Absent
<1>7. highest' \in [SeqKey -> Nat]
  BY <1>1, <1>2
<1>8. CASE Finish(r)
  <2>1. PICK t \in Victims(terminated, c) :
          /\ terminated' = Put(terminated, t, c, now + Tombstone)
          /\ evicted' = evicted + Cardinality(t)
    BY <1>8 DEF Finish
  <2>2. /\ terminated' \in [Call -> Time] /\ Cardinality(Held(terminated')) <= Capacity
        /\ Cardinality(t) \in Nat /\ (Cardinality(t) = 0 => t = {})
        /\ \A x \in Call : terminated'[x] = IF x = c THEN now + Tombstone
                                            ELSE IF x \in t THEN Absent ELSE terminated[x]
    BY <2>1, <1>1, PutTypes
  <2>3. evicted' \in Nat /\ evicted <= evicted' /\ (evicted' = 0 => t = {})
    BY <2>1, <2>2, <1>1
  <2>4. Ends(r)'
    BY <1>8 DEF Finish, Record, TypeOK, Ends
  <2>5. TerminatedStep(r)
    BY <2>2, <2>3, <2>4, <1>1 DEF TerminatedStep, Time, Absent
  <2>6. MapsOK'
    BY <2>2, <2>3, <1>1, <1>2, <1>3, <1>7 DEF MapsOK
  <2>7. QED BY <2>3, <2>5, <2>6, <1>5, <1>6 DEF MapsStep
<1>9. CASE Forget(r)
  <2>1. terminated' = terminated /\ evicted' = evicted
    BY <1>9 DEF Forget
  <2>2. ~Ends(r)'
    BY <1>2, <1>9 DEF Forget, Record, TypeOK, Ends, Terminal
  <2>3. TerminatedStep(r)
    BY <2>1, <2>2, <1>1 DEF TerminatedStep, Time, Absent
  <2>4. MapsOK'
    BY <2>1, <1>1, <1>2, <1>3, <1>7 DEF MapsOK
  <2>5. QED BY <2>1, <2>3, <2>4, <1>1, <1>5, <1>6 DEF MapsStep
<1>10. QED BY <1>8, <1>9

-----------------------------------------------------------------------------
(* One more answer                                                         *)

\* r has just been answered, for this reason.
Newest(r, reason) ==
    /\ Answered(r, reason) /\ Last(r) /\ OthersStay(r)
    /\ verdict'[r] = reason /\ decidedAt'[r] = now /\ Placed(r)' /\ ~Placed(r)
    /\ evicted \in Nat /\ evicted' \in Nat

\* The answers given before are those given since, and they are those of other requests.
LEMMA AnswersStay ==
    ASSUME LedgerAssumption, TypeOK, RequestsOK, NEW r \in Req, NEW reason, Newest(r, reason)
    PROVE  /\ \A q \in Req \ {r} : /\ Delivered(q)' <=> Delivered(q)
                                   /\ Ends(q)' <=> Ends(q)
                                   /\ Resets(q)' <=> Resets(q)
                                   /\ decidedAt'[q] = decidedAt[q] /\ verdict'[q] = verdict[q]
           /\ ~Delivered(r) /\ ~Ends(r) /\ ~Resets(r)
           /\ \A q \in Req : Delivered(q) \/ Ends(q) \/ Resets(q) => Placed(q)
           /\ \A q \in Req : /\ ~Before(r, q) /\ ~Before(q, r) /\ SeenUntil(q)' = SeenUntil(q)
                             /\ ExpiresAt(q)' = ExpiresAt(q) /\ Created(q)' = Created(q)
           /\ now' = now /\ read' = read
<1>1. \A q \in Req \ {r} : verdict'[q] = verdict[q] /\ decidedAt'[q] = decidedAt[q]
  BY DEF Newest, OthersStay
<1>2. \A q \in Req \ {r} : /\ Delivered(q)' <=> Delivered(q)
                           /\ Ends(q)' <=> Ends(q)
                           /\ Resets(q)' <=> Resets(q)
  BY <1>1 DEF Delivered, Ends, Resets
<1>3. ~Delivered(r) /\ ~Ends(r) /\ ~Resets(r)
  BY DEF Newest, Answered, Undecided, Delivered, Ends, Resets
<1>4. \A q \in Req : Delivered(q) \/ Ends(q) \/ Resets(q) => Placed(q)
  BY DEF RequestsOK, Delivered, Ends, Resets
<1>5. ASSUME NEW q \in Req
      PROVE  /\ ~Before(r, q) /\ ~Before(q, r) /\ SeenUntil(q)' = SeenUntil(q)
             /\ ExpiresAt(q)' = ExpiresAt(q) /\ Created(q)' = Created(q)
  <2>1. place[r] = 0 /\ place[q] \in Nat
    BY DEF Newest, Placed, TypeOK
  <2>2. ~Before(r, q) /\ ~Before(q, r)
    BY <2>1 DEF Before
  <2>3. now' = now /\ sent' = sent /\ read' = read
    BY DEF Newest, OthersStay
  <2>4. QED BY <2>2, <2>3 DEF SeenUntil, ExpiresAt, Expiry, Created
<1>6. QED BY <1>1, <1>2, <1>3, <1>4, <1>5 DEF Newest, OthersStay

\* The live signals are those that were, unless r resets their call, and r if it is one.
LEMMA LiveAfter ==
    ASSUME LedgerAssumption, TypeOK, RequestsOK, NEW r \in Req, NEW reason, Newest(r, reason)
    PROVE  /\ \A q \in Req \ {r} : Live(q)' <=> /\ Live(q)
                                                /\ ~(Resets(r)' /\ TheCall(q) = TheCall(r))
           /\ Live(r)' <=> Delivered(r)' /\ KindOf[r] = "ordered"
           /\ ~Live(r)
<1>1. Last(r)
  BY DEF Newest
<1>2. ASSUME NEW q \in Req \ {r}
      PROVE  Live(q)' <=> Live(q) /\ ~(Resets(r)' /\ TheCall(q) = TheCall(r))
  <2>1. CASE ~Delivered(q)
    BY <2>1, AnswersStay DEF Live
  <2>2. CASE Delivered(q)
    <3>1. Before(q, r)' <=> TheCall(q) = TheCall(r)
      BY <2>2, <1>1, AnswersStay DEF Last
    <3>2. \A m \in Req \ {r} : (Before(q, m)' <=> Before(q, m)) /\ (Resets(m)' <=> Resets(m))
      BY <1>1, AnswersStay DEF Last
    <3>3. (\A m \in Req : Before(q, m)' => ~Resets(m)') <=>
            /\ \A m \in Req : Before(q, m) => ~Resets(m)
            /\ ~(Resets(r)' /\ TheCall(q) = TheCall(r))
      BY <3>1, <3>2, AnswersStay
    <3>4. QED BY <2>2, <3>3, AnswersStay DEF Live
  <2>3. QED BY <2>1, <2>2
<1>3. Live(r)' <=> Delivered(r)' /\ KindOf[r] = "ordered"
  BY <1>1 DEF Live, Last
<1>4. ~Live(r)
  BY AnswersStay DEF Live
<1>5. QED BY <1>2, <1>3, <1>4

\* A signal newer than r, delivered to the same addressee, is a live one; for the others
\* nothing changed.
LEMMA NewerAfter ==
    ASSUME LedgerAssumption, TypeOK, RequestsOK, NEW r \in Req, NEW reason, Newest(r, reason)
    PROVE  /\ \A q \in Req, p \in Req \ {r} : Newer(q, p)' <=> Newer(q, p)
           /\ \A q \in Req : Newer(q, r)' <=> /\ Live(q) /\ TheKey(q) = TheKey(r)
                                              /\ 0 < Number(r) /\ Number(r) < Number(q)
<1>1. Last(r)
  BY DEF Newest
<1>2. ASSUME NEW q \in Req, NEW p \in Req \ {r} PROVE Newer(q, p)' <=> Newer(q, p)
  <2>1. CASE q = r
    BY <2>1, <1>1, AnswersStay DEF Newer, Last
  <2>2. CASE q # r
    <3>1. Before(q, p)' <=> Before(q, p)
      BY <2>2, <1>1 DEF Last
    <3>2. \A m \in Req \ {r} : /\ Before(q, m)' <=> Before(q, m)
                               /\ Before(m, p)' <=> Before(m, p)
                               /\ Resets(m)' <=> Resets(m)
      BY <2>2, <1>1, AnswersStay DEF Last
    <3>3. ~Before(r, p)' /\ ~Before(r, p)
      BY <1>1, AnswersStay DEF Last
    <3>4. Continuous(q, p)' <=> Continuous(q, p)
      BY <3>2, <3>3 DEF Continuous
    <3>5. QED BY <2>2, <3>1, <3>4, AnswersStay DEF Newer
  <2>3. QED BY <2>1, <2>2
<1>3. ASSUME NEW q \in Req
      PROVE  Newer(q, r)' <=> /\ Live(q) /\ TheKey(q) = TheKey(r)
                              /\ 0 < Number(r) /\ Number(r) < Number(q)
  <2>1. CASE q = r
    BY <2>1, <1>1, LiveAfter DEF Newer, Last
  <2>2. CASE q # r /\ ~Delivered(q)
    BY <2>2, AnswersStay DEF Newer, Live
  <2>3. CASE q # r /\ Delivered(q) /\ TheKey(q) # TheKey(r)
    BY <2>3 DEF Newer
  <2>4. CASE q # r /\ Delivered(q) /\ TheKey(q) = TheKey(r)
    <3>1. TheCall(q) = TheCall(r) /\ KindOf[q] \in {"ordered", "candidate", "terminal"}
      <4>1. Signal(q)
        BY <2>4 DEF RequestsOK, Delivered
      <4>2. QED BY <2>4, <4>1, Attributes DEF Kind, Signal
    <3>2. Before(q, r)'
      BY <2>4, <3>1, <1>1, AnswersStay DEF Last
    <3>3. \A m \in Req : Before(q, m)' /\ Before(m, r)' <=> Before(q, m)
      <4>1. ASSUME NEW m \in Req, Before(q, m)
            PROVE  m # r /\ TheCall(m) = TheCall(r) /\ Placed(m)
        BY <4>1, <3>1, AnswersStay DEF Before, Placed, TypeOK
      <4>2. \A m \in Req \ {r} : Before(q, m)' <=> Before(q, m)
        BY <2>4, <1>1 DEF Last
      <4>3. \A m \in Req : Before(m, r)' <=> m # r /\ TheCall(m) = TheCall(r) /\ Placed(m)
        BY <1>1 DEF Last
      <4>4. QED BY <4>1, <4>2, <4>3, AnswersStay
    <3>4. \A m \in Req : Before(q, m) => (Resets(m)' <=> Resets(m))
      BY AnswersStay
    <3>5. Continuous(q, r)' <=> \A m \in Req : Before(q, m) => ~Resets(m)
      BY <3>3, <3>4 DEF Continuous
    <3>6. ~Resets(q)' /\ KindOf[q] # "candidate" <=> KindOf[q] = "ordered"
      BY <2>4, <3>1, AnswersStay DEF Resets, Ends, Terminal, Delivered
    <3>7. QED BY <2>4, <3>2, <3>5, <3>6, AnswersStay DEF Newer, Live
  <2>5. QED BY <2>1, <2>2, <2>3, <2>4
<1>4. QED BY <1>2, <1>3

-----------------------------------------------------------------------------
(* The invariant holds after an answer                                     *)

\* What one decision does to the record of delivered events.
LEMMA SeenAfter ==
    ASSUME LedgerAssumption, TypeOK, RequestsOK, SeenOK, NEW r \in Req, NEW reason,
           Newest(r, reason), SeenStep(r), evicted <= evicted', seen' \in [Event -> Time]
    PROVE  SeenOK'
<1>1. ASSUME NEW e \in Event, seen'[e] # Absent
      PROVE  \E q \in Req : EventOf[q] = e /\ Delivered(q)'
  <2>1. CASE seen'[e] = seen[e]
    <3>1. PICK q \in Req : EventOf[q] = e /\ Delivered(q)
      BY <1>1, <2>1 DEF SeenOK
    <3>2. QED BY <3>1, AnswersStay
  <2>2. CASE e = EventOf[r] /\ Delivered(r)'
    BY <2>2
  <2>3. QED BY <1>1, <2>1, <2>2 DEF SeenStep
<1>2. ASSUME evicted' = 0, NEW q \in Req, Delivered(q)', EventOf[q] \in OfClient
      PROVE  now > SeenUntil(q) \/ seen'[EventOf[q]] >= SeenUntil(q)
  <2>1. EventOf[q] \in Event /\ SeenUntil(q) \in Int /\ now \in Nat
        /\ seen[EventOf[q]] \in Time /\ seen'[EventOf[q]] \in Time
    BY Attributes DEF TypeOK
  <2>2. CASE q = r
    BY <1>2, <2>1, <2>2 DEF SeenStep
  <2>3. CASE q # r
    <3>1. now > SeenUntil(q) \/ seen[EventOf[q]] >= SeenUntil(q)
      BY <1>2, <2>3, AnswersStay DEF SeenOK, Newest
    <3>2. seen'[EventOf[q]] >= seen[EventOf[q]] \/ seen[EventOf[q]] < now
      BY <1>2, <2>1 DEF SeenStep
    <3>3. QED BY <2>1, <3>1, <3>2 DEF Time, Absent
  <2>4. QED BY <2>2, <2>3
<1>3. \A q \in Req : SeenUntil(q)' = SeenUntil(q)
  BY AnswersStay
<1>4. now' = now
  BY AnswersStay
<1>5. QED BY <1>1, <1>2, <1>3, <1>4 DEF SeenOK

\* What one decision does to the tombstones.
LEMMA TerminatedAfter ==
    ASSUME LedgerAssumption, TypeOK, RequestsOK, TerminatedOK, NEW r \in Req, NEW reason,
           Newest(r, reason), TerminatedStep(r), evicted <= evicted',
           terminated' \in [Call -> Time]
    PROVE  TerminatedOK'
<1>1. ASSUME NEW c \in Call, terminated'[c] # Absent
      PROVE  \E q \in Req : /\ Ends(q)' /\ TheCall(q) = c
                            /\ terminated'[c] <= decidedAt'[q] + Tombstone
  <2>1. CASE terminated'[c] = terminated[c]
    <3>1. PICK q \in Req : Ends(q) /\ TheCall(q) = c /\ terminated[c] <= decidedAt[q] + Tombstone
      BY <1>1, <2>1 DEF TerminatedOK
    <3>2. QED BY <2>1, <3>1, AnswersStay
  <2>2. CASE c = TheCall(r) /\ Ends(r)' /\ terminated'[c] <= now + Tombstone
    BY <2>2 DEF Newest
  <2>3. QED BY <1>1, <2>1, <2>2 DEF TerminatedStep
<1>2. ASSUME evicted' = 0, NEW q \in Req, Ends(q)'
      PROVE  LET until == decidedAt'[q] + Tombstone - MaxStall
             IN  now > until \/ terminated'[TheCall(q)] >= until
  <2> DEFINE c == TheCall(q)
  <2>1. /\ c \in Call /\ now \in Nat /\ terminated[c] \in Time /\ terminated'[c] \in Time
        /\ Tombstone \in Nat /\ MaxStall \in Nat
    BY Attributes DEF TypeOK, LedgerAssumption
  <2>2. CASE q = r
    BY <1>2, <2>1, <2>2 DEF TerminatedStep, Newest
  <2>3. CASE q # r
    <3> DEFINE until == decidedAt[q] + Tombstone - MaxStall
    <3>1. Ends(q) /\ decidedAt'[q] = decidedAt[q] /\ decidedAt[q] \in 0 .. now /\ evicted = 0
      BY <1>2, <2>3, AnswersStay DEF RequestsOK, Newest
    <3>2. now > until \/ terminated[c] >= until
      BY <3>1 DEF TerminatedOK
    <3>3. \/ terminated'[c] >= terminated[c]
          \/ terminated[c] < now
          \/ terminated'[c] >= now + Tombstone - MaxStall
      BY <1>2, <2>1 DEF TerminatedStep
    <3>4. QED BY <2>1, <3>1, <3>2, <3>3 DEF Time, Absent
  <2>4. QED BY <2>2, <2>3
<1>3. now' = now
  BY AnswersStay
<1>4. QED BY <1>1, <1>2, <1>3 DEF TerminatedOK

\* What one decision does to the highest sequence numbers.
LEMMA SequencesAfter ==
    ASSUME LedgerAssumption, TypeOK, RequestsOK, SequencesOK, NEW r \in Req, NEW reason,
           Newest(r, reason), SequencesStep(r), evicted <= evicted', MapsOK'
    PROVE  SequencesOK'
<1>1. ASSUME NEW k \in SeqKey, touchedAt'[k] # Absent
      PROVE  \E q \in Req : /\ Live(q)' /\ TheKey(q) = k /\ Number(q) = highest'[k]
                            /\ read'[q] = touchedAt'[k]
  <2>1. CASE touchedAt'[k] = touchedAt[k] /\ highest'[k] = highest[k]
    <3>1. PICK q \in Req : /\ Live(q) /\ TheKey(q) = k /\ Number(q) = highest[k]
                           /\ read[q] = touchedAt[k]
      BY <1>1, <2>1 DEF SequencesOK
    <3>2. q # r /\ TheCall(q) = k[1]
      BY <3>1, LiveAfter, Attributes
    <3>3. Live(q)'
      BY <1>1, <3>1, <3>2, LiveAfter DEF SequencesStep
    <3>4. QED BY <2>1, <3>1, <3>3, AnswersStay
  <2>2. CASE /\ k = TheKey(r) /\ Delivered(r)' /\ KindOf[r] = "ordered"
             /\ touchedAt'[k] = read[r] /\ highest'[k] = Number(r)
    BY <2>2, LiveAfter, AnswersStay
  <2>3. QED BY <1>1, <2>1, <2>2 DEF SequencesStep
<1>2. ASSUME evicted' = 0, NEW q \in Req, Live(q)'
      PROVE  \/ touchedAt'[TheKey(q)] # Absent /\ highest'[TheKey(q)] >= Number(q)
             \/ \E p \in Req : /\ Live(p)' /\ TheKey(p) = TheKey(q) /\ Number(p) >= Number(q)
                               /\ now > read[p] + Tombstone
  <2> DEFINE k == TheKey(q)
  <2>1. /\ k \in SeqKey /\ now \in Nat /\ highest[k] \in Nat /\ highest'[k] \in Nat
        /\ Number(q) \in Nat /\ touchedAt[k] \in Time /\ Tombstone \in Nat /\ k[1] = TheCall(q)
    BY Attributes DEF TypeOK, MapsOK, LedgerAssumption
  <2>2. CASE q = r
    BY <1>2, <2>2, LiveAfter DEF SequencesStep
  <2>3. CASE q # r
    <3>1. Live(q) /\ ~(Resets(r)' /\ TheCall(q) = TheCall(r)) /\ evicted = 0
      BY <1>2, <2>3, LiveAfter DEF Newest
    <3>2. \A p \in Req : Live(p) /\ TheKey(p) = k => Live(p)'
      <4>1. ASSUME NEW p \in Req, Live(p), TheKey(p) = k PROVE Live(p)'
        <5>1. TheCall(p) = TheCall(q) /\ p # r
          BY <4>1, <2>1, Attributes, LiveAfter
        <5>2. QED BY <4>1, <5>1, <3>1, LiveAfter
      <4>2. QED BY <4>1
    <3>3. CASE \E p \in Req : /\ Live(p) /\ TheKey(p) = k /\ Number(p) >= Number(q)
                              /\ now > read[p] + Tombstone
      BY <3>2, <3>3
    <3>4. CASE touchedAt[k] # Absent /\ highest[k] >= Number(q)
      <4>1. CASE touchedAt'[k] # Absent /\ highest'[k] >= highest[k]
        BY <4>1, <3>4, <2>1
      <4>2. CASE now > touchedAt[k] + Tombstone
        <5>1. PICK p \in Req : /\ Live(p) /\ TheKey(p) = k /\ Number(p) = highest[k]
                               /\ read[p] = touchedAt[k]
          BY <3>4, <2>1 DEF SequencesOK
        <5>2. QED BY <5>1, <4>2, <3>2, <3>4
      <4>3. QED BY <4>1, <4>2, <3>1, <3>4, <1>2, <2>1 DEF SequencesStep
    <3>5. QED BY <3>1, <3>3, <3>4 DEF SequencesOK
  <2>4. QED BY <2>2, <2>3
<1>3. now' = now /\ read' = read
  BY AnswersStay
<1>4. QED BY <1>1, <1>2, <1>3 DEF SequencesOK

-----------------------------------------------------------------------------
(* The verdicts after an answer                                            *)

\* A delivery follows that of the same id only once the window of that one is over.
LEMMA RetriesAfter ==
    ASSUME LedgerAssumption, TypeOK, RequestsOK, SeenOK, RetriesAreDropped,
           NEW r \in Req, NEW reason, Newest(r, reason), evicted <= evicted',
           reason = "delivered" => ~Duplicate(r)
    PROVE  RetriesAreDropped'
<1> SUFFICES ASSUME evicted' = 0, NEW e \in OfClient, NEW q \in Req, NEW p \in Req,
                    EventOf[q] = e, EventOf[p] = e, Delivered(q)', Delivered(p)', Before(q, p)'
             PROVE  decidedAt'[p] > ExpiresAt(q) + Skew
  BY AnswersStay DEF RetriesAreDropped
<1>1. evicted = 0 /\ Last(r)
  BY DEF Newest
<1>2. CASE p # r
  <2>1. q # r
    BY <1>1 DEF Last
  <2>2. Before(q, p) /\ Delivered(q) /\ Delivered(p) /\ decidedAt'[p] = decidedAt[p]
    BY <1>1, <1>2, <2>1, AnswersStay DEF Last
  <2>3. QED BY <1>1, <2>2 DEF RetriesAreDropped
<1>3. CASE p = r
  <2>1. q # r /\ Delivered(q)
    BY <1>1, <1>3, AnswersStay DEF Last
  <2>2. /\ SeenUntil(q) \in Nat /\ seen[e] \in Time /\ now \in Nat /\ read[r] \in Time
        /\ e \in Event /\ read[r] <= now /\ ExpiresAt(q) \in Int /\ Skew \in Int
    <3>1. Signal(q) /\ read[q] # Absent
      BY <2>1, AnswersStay DEF RequestsOK, Delivered
    <3>2. QED BY <3>1, Attributes DEF RequestsOK, TypeOK, LedgerAssumption
  <2>3. decidedAt'[p] = now /\ reason = "delivered"
    BY <1>3 DEF Newest, Delivered
  <2>4. now > SeenUntil(q) \/ seen[e] >= SeenUntil(q)
    BY <1>1, <2>1 DEF SeenOK
  <2>5. SeenBy(r)[e] = Absent
    BY <1>3, <2>2, <2>3, SweptMaps DEF Duplicate, Held
  <2>6. seen[e] = Absent \/ read[r] > seen[e]
    BY <2>2, <2>5, SweptMaps
  <2>7. now > SeenUntil(q)
    BY <2>2, <2>4, <2>6 DEF Time, Absent
  <2>8. QED BY <2>2, <2>3, <2>7 DEF SeenUntil
<1>4. QED BY <1>2, <1>3

\* A delivery after a newer one follows the silence of that one, or of one newer still.
LEMMA OutdatedAfter ==
    ASSUME LedgerAssumption, TypeOK, RequestsOK, SequencesOK, OutdatedIsRefused,
           NEW r \in Req, NEW reason, Newest(r, reason), evicted <= evicted',
           reason = "delivered" => ~Stale(r)
    PROVE  OutdatedIsRefused'
<1> SUFFICES ASSUME evicted' = 0, NEW p \in Req, NEW q \in Req, Delivered(p)',
                    KindOf[p] # "candidate", Newer(q, p)'
             PROVE  \E m \in Req : Newer(m, p)' /\ decidedAt'[p] > read'[m] + Tombstone
  BY DEF OutdatedIsRefused
<1>1. evicted = 0 /\ read' = read
  BY AnswersStay DEF Newest
<1>2. CASE p # r
  <2>1. Newer(q, p) /\ Delivered(p) /\ decidedAt'[p] = decidedAt[p]
    BY <1>2, NewerAfter, AnswersStay
  <2>2. PICK m \in Req : Newer(m, p) /\ decidedAt[p] > read[m] + Tombstone
    BY <1>1, <2>1 DEF OutdatedIsRefused
  <2>3. QED BY <1>1, <1>2, <2>1, <2>2, NewerAfter
<1>3. CASE p = r
  <2> DEFINE k == TheKey(r)
  <2>1. Live(q) /\ TheKey(q) = k /\ 0 < Number(r) /\ Number(r) < Number(q)
    BY <1>3, NewerAfter
  <2>2. decidedAt'[r] = now /\ ~Stale(r)
    BY <1>3 DEF Newest, Delivered
  <2>3. /\ k \in SeqKey /\ now \in Nat /\ highest[k] \in Nat /\ read[r] \in Time /\ read[r] <= now
        /\ Number(q) \in Nat /\ Number(r) \in Nat /\ touchedAt[k] \in Time /\ Tombstone \in Nat
    BY Attributes DEF TypeOK, RequestsOK, LedgerAssumption
  <2>4. \A m \in Req : Live(m) /\ TheKey(m) = k /\ Number(m) >= Number(q) => Newer(m, r)'
    BY <2>1, <2>3, Attributes, NewerAfter
  <2>5. CASE \E m \in Req : /\ Live(m) /\ TheKey(m) = k /\ Number(m) >= Number(q)
                            /\ now > read[m] + Tombstone
    BY <1>1, <1>3, <2>2, <2>4, <2>5
  <2>6. CASE touchedAt[k] # Absent /\ highest[k] >= Number(q)
    <3>1. TouchedFor(r)[k] = Absent
      <4>1. Number(r) \in 1 .. highest[k] - 1
        BY <2>1, <2>3, <2>6
      <4>2. k \notin Held(TouchedFor(r))
        BY <1>3, <2>2, <4>1 DEF Stale, Number
      <4>3. QED BY <2>3, <4>2, SweptMaps DEF Held
    <3>2. read[r] - touchedAt[k] > Tombstone
      BY <2>3, <2>6, <3>1, SweptMaps
    <3>3. PICK m \in Req : /\ Live(m) /\ TheKey(m) = k /\ Number(m) = highest[k]
                           /\ read[m] = touchedAt[k]
      BY <2>3, <2>6 DEF SequencesOK
    <3>4. now > read[m] + Tombstone
      BY <2>3, <2>6, <3>2, <3>3 DEF Time, Absent
    <3>5. Newer(m, r)'
      BY <2>4, <2>6, <3>3
    <3>6. QED BY <1>1, <1>3, <2>2, <3>4, <3>5
  <2>7. QED BY <1>1, <2>1, <2>5, <2>6 DEF SequencesOK
<1>4. QED BY <1>2, <1>3

\* A refusal has its cause among the answers given before it.
LEMMA RefusalsAfter ==
    ASSUME LedgerAssumption, TypeOK, RequestsOK, SeenOK, TerminatedOK, SequencesOK,
           RefusalsAreJustified, NEW r \in Req, NEW reason, Newest(r, reason),
           reason = "duplicate" => Duplicate(r),
           reason = "call_ended" => CallEnded(r),
           reason = "stale" => Stale(r)
    PROVE  RefusalsAreJustified'
<1>1. Last(r) /\ verdict'[r] = reason /\ read' = read
  BY AnswersStay DEF Newest
<1>2. \A q \in Req : (Delivered(q) \/ Ends(q)) /\ TheCall(q) = TheCall(r) => Before(q, r)'
  BY <1>1, AnswersStay DEF Last
<1>3. \A q \in Req, p \in Req \ {r} : Before(q, p) => q # r /\ Before(q, p)'
  BY <1>1, AnswersStay DEF Last
<1> SUFFICES ASSUME NEW p \in Req
             PROVE  /\ verdict'[p] = "duplicate" =>
                         \E q \in Req : Before(q, p)' /\ Delivered(q)' /\ EventOf[q] = EventOf[p]
                    /\ verdict'[p] = "call_ended" =>
                         \E q \in Req : /\ Before(q, p)' /\ Ends(q)' /\ ~Terminal(p)
                                        /\ read'[p] < decidedAt'[q] + Tombstone
                    /\ verdict'[p] = "stale" =>
                         KindOf[p] # "candidate" /\ \E q \in Req : Newer(q, p)'
  BY DEF RefusalsAreJustified
<1>4. CASE p # r
  <2>1. verdict'[p] = verdict[p]
    BY <1>4, AnswersStay
  <2>2. ASSUME verdict[p] = "duplicate"
        PROVE  \E q \in Req : Before(q, p)' /\ Delivered(q)' /\ EventOf[q] = EventOf[p]
    BY <2>2, <1>3, <1>4, AnswersStay DEF RefusalsAreJustified
  <2>3. ASSUME verdict[p] = "call_ended"
        PROVE  \E q \in Req : /\ Before(q, p)' /\ Ends(q)' /\ ~Terminal(p)
                              /\ read'[p] < decidedAt'[q] + Tombstone
    BY <2>3, <1>1, <1>3, <1>4, AnswersStay DEF RefusalsAreJustified
  <2>4. ASSUME verdict[p] = "stale"
        PROVE  KindOf[p] # "candidate" /\ \E q \in Req : Newer(q, p)'
    BY <2>4, <1>4, NewerAfter DEF RefusalsAreJustified
  <2>5. QED BY <2>1, <2>2, <2>3, <2>4
<1>5. CASE p = r
  <2>1. ASSUME reason = "duplicate"
        PROVE  \E q \in Req : Before(q, r)' /\ Delivered(q)' /\ EventOf[q] = EventOf[r]
    <3>1. EventOf[r] \in Event /\ SeenBy(r)[EventOf[r]] # Absent
      BY <2>1, Attributes DEF Duplicate, Held
    <3>2. seen[EventOf[r]] # Absent
      BY <3>1, SweptMaps
    <3>3. PICK q \in Req : EventOf[q] = EventOf[r] /\ Delivered(q)
      BY <3>1, <3>2 DEF SeenOK
    <3>4. TheCall(q) = TheCall(r)
      BY <3>3 DEF TheCall
    <3>5. QED BY <1>2, <3>3, <3>4, AnswersStay
  <2>2. ASSUME reason = "call_ended"
        PROVE  \E q \in Req : /\ Before(q, r)' /\ Ends(q)' /\ ~Terminal(r)
                              /\ read[r] < decidedAt'[q] + Tombstone
    <3> DEFINE c == TheCall(r)
    <3>1. c \in Call /\ TerminatedFor(r)[c] # Absent /\ read[r] < TerminatedFor(r)[c] /\ ~Terminal(r)
      BY <2>2, Attributes DEF CallEnded, Held
    <3>2. terminated[c] # Absent /\ read[r] < terminated[c]
      BY <3>1, SweptMaps
    <3>3. PICK q \in Req : Ends(q) /\ TheCall(q) = c /\ terminated[c] <= decidedAt[q] + Tombstone
      BY <3>1, <3>2 DEF TerminatedOK
    <3>4. /\ read[r] \in Time /\ terminated[c] \in Time /\ decidedAt[q] \in Time /\ Tombstone \in Nat
          /\ q # r /\ decidedAt'[q] = decidedAt[q] /\ Ends(q)'
      BY <3>1, <3>3, AnswersStay DEF TypeOK, LedgerAssumption
    <3>5. read[r] < decidedAt[q] + Tombstone
      BY <3>2, <3>3, <3>4 DEF Time, Absent
    <3>6. QED BY <1>2, <3>1, <3>3, <3>4, <3>5
  <2>3. ASSUME reason = "stale"
        PROVE  KindOf[r] # "candidate" /\ \E q \in Req : Newer(q, r)'
    <3> DEFINE k == TheKey(r)
    <3>1. /\ k \in SeqKey /\ TouchedFor(r)[k] # Absent /\ KindOf[r] # "candidate"
          /\ Number(r) \in 1 .. highest[k] - 1 /\ highest[k] \in Nat
      BY <2>3, Attributes DEF Stale, Held, Number, TypeOK
    <3>2. touchedAt[k] # Absent
      BY <3>1, SweptMaps
    <3>3. PICK q \in Req : Live(q) /\ TheKey(q) = k /\ Number(q) = highest[k]
      BY <3>1, <3>2 DEF SequencesOK
    <3>4. QED BY <3>1, <3>3, NewerAfter
  <2>4. QED BY <1>1, <1>5, <2>1, <2>2, <2>3
<1>6. QED BY <1>4, <1>5

\* With tombstones that last, what was in flight at the end of its call is not delivered.
LEMMA EndedAfter ==
    ASSUME LedgerAssumption, TombstoneLasts, TypeOK, RequestsOK, TerminatedOK, EndedStaysEnded,
           NEW r \in Req, NEW reason, Newest(r, reason), evicted <= evicted', RequestsOK',
           reason = "delivered" => ~CallEnded(r)
    PROVE  EndedStaysEnded'
<1> SUFFICES ASSUME evicted' = 0, NEW q \in Req, NEW p \in Req, Ends(q)', Delivered(p)',
                    ~Terminal(p), Before(q, p)'
             PROVE  Created(p) > decidedAt'[q]
  BY AnswersStay DEF EndedStaysEnded
<1>1. evicted = 0 /\ Last(r)
  BY DEF Newest
<1>2. q # r /\ Ends(q) /\ decidedAt'[q] = decidedAt[q]
  BY <1>1, AnswersStay DEF Last
<1>3. CASE p # r
  BY <1>1, <1>2, <1>3, AnswersStay DEF EndedStaysEnded, Last
<1>4. CASE p = r
  <2> DEFINE e == EventOf[r]
             c == TheCall(r)
             window == TTL[e] + Skew + (IF e \in OfClient THEN 0 ELSE Ahead)
             until == decidedAt[q] + Tombstone - MaxStall
  <2>1. ~CallEnded(r) /\ Signal(r) /\ read[r] # Absent /\ verdict'[r] # "expired"
        /\ TheCall(q) = c
    BY <1>4 DEF Newest, Delivered, Answered, Before
  <2>2. /\ e \in Event /\ c \in Call /\ now \in Nat /\ read[r] \in Nat /\ terminated[c] \in Time
        /\ decidedAt[q] \in Nat /\ sent[e] \in Time
        /\ {TTL[e], Skew, Ahead, MaxStall, Tombstone} \subseteq Nat
    <3>1. decidedAt[q] \in 0 .. now
      BY <1>2, AnswersStay DEF RequestsOK
    <3>2. QED BY <2>1, <3>1, Attributes DEF TypeOK, Time, LedgerAssumption
  <2>3. now <= read[r] + MaxStall
    BY <2>1 DEF RequestsOK, Newest, Answered
  <2>4. Created(r) \in Int /\ Created(r) >= read[r] - window /\ (e \in OfClient => Created(r) = read[r])
    <3>1. ExpiresAt(r)' = ExpiresAt(r) /\ read' = read
      BY AnswersStay
    <3>2. read[r] <= ExpiresAt(r) + Skew
      BY <2>1, <3>1 DEF RequestsOK
    <3>3. QED BY <2>2, <3>2 DEF Created, ExpiresAt, Expiry, Time, Absent
  <2>5. window + 2 * MaxStall <= Tombstone /\ window + MaxStall < Tombstone /\ MaxStall < Tombstone
        /\ window \in Nat
    BY <2>2 DEF TombstoneLasts
  <2> HIDE DEF window
  <2>6. now > until \/ terminated[c] >= until
    BY <1>1, <1>2, <2>1 DEF TerminatedOK
  <2>7. CASE now > until
    BY <1>2, <1>4, <2>2, <2>3, <2>4, <2>5, <2>7
  <2>8. CASE terminated[c] >= until
    <3>1. terminated[c] # Absent
      BY <2>2, <2>5, <2>8 DEF Absent
    <3>2. TerminatedFor(r)[c] = Absent \/ read[r] >= TerminatedFor(r)[c]
      <4>1. TerminatedFor(r)[c] \in Time /\ DOMAIN TerminatedFor(r) = Call /\ ~Terminal(r)
        BY <1>4, <2>2, SweptMaps
      <4>2. c \notin Held(TerminatedFor(r)) \/ ~(read[r] < TerminatedFor(r)[c])
        BY <2>1, <4>1 DEF CallEnded
      <4>3. QED BY <2>2, <4>1, <4>2 DEF Held, Time, Absent
    <3>3. read[r] >= terminated[c]
      BY <2>2, <3>1, <3>2, SweptMaps DEF Time, Absent
    <3>4. Created(r) > decidedAt[q]
      BY <2>2, <2>4, <2>5, <2>8, <3>3 DEF Time, Absent
    <3>5. QED BY <1>2, <1>4, <3>4
  <2>9. QED BY <2>6, <2>7, <2>8
<1>5. QED BY <1>3, <1>4

-----------------------------------------------------------------------------
(* The invariant holds when nothing is answered under the lock             *)

\* Time passes, an event is created, a request arrives: no answer given changes.
Quiet ==
    /\ UNCHANGED <<ledger, place, decidedAt>>
    /\ now' \in Nat /\ now <= now'
    /\ \A q \in Req : /\ \/ verdict'[q] = verdict[q]
                         \/ verdict[q] = "none" /\ verdict'[q] = "expired"
                      /\ Placed(q) => read'[q] = read[q]
                      /\ Placed(q) /\ Signal(q) => sent'[EventOf[q]] = sent[EventOf[q]]

\* The clock, new events and arrivals leave the maps alone.
LEMMA QuietSteps ==
    ASSUME LedgerAssumption, TypeOK, RequestsOK,
           Tick \/ (\E e \in Event : Create(e)) \/ (\E r \in Req : Arrive(r)) \/ UNCHANGED vars
    PROVE  Quiet /\ TypeOK' /\ RequestsOK'
<1>1. /\ now \in Nat /\ sent \in [Event -> Time] /\ read \in [Req -> Time]
      /\ verdict \in [Req -> Verdict] /\ MaxNow \in Nat /\ MaxStall \in Nat
      /\ EventOf \in [Req -> Event]
  BY DEF TypeOK, LedgerAssumption
<1>2. \A q \in Req : ~Placed(q) <=> verdict[q] \in {"none", "expired"}
  BY DEF RequestsOK
<1>3. CASE Tick
  <2>1. /\ now' = now + 1 /\ UNCHANGED <<sent, read, verdict, ledger, place, decidedAt>>
        /\ \A r \in Req : Undecided(r) /\ read[r] # Absent => now - read[r] < MaxStall
    BY <1>3 DEF Tick
  <2>2. TypeOK'
    <3>1. now' \in 0 .. MaxNow
      BY <1>1, <1>3, <2>1 DEF Tick
    <3>2. QED BY <2>1, <3>1 DEF TypeOK, ledger, Held
  <2>3. RequestsOK'
    <3>1. \A q \in Req : ExpiresAt(q)' = ExpiresAt(q)
      BY <2>1 DEF ExpiresAt, Expiry
    <3>2. \A q \in Req : read[q] \in Time /\ decidedAt[q] \in Time
      BY DEF TypeOK
    <3>3. QED BY <1>1, <2>1, <3>1, <3>2 DEF RequestsOK, Placed, Undecided, Time, Absent
  <2>4. QED BY <1>1, <2>1, <2>2, <2>3 DEF Quiet
<1>4. ASSUME NEW e \in Event, Create(e) PROVE Quiet /\ TypeOK' /\ RequestsOK'
  <2>1. /\ e \notin OfClient /\ sent[e] = Absent /\ sent' = [sent EXCEPT ![e] = now]
        /\ UNCHANGED <<now, read, verdict, ledger, place, decidedAt>>
    BY <1>4 DEF Create
  <2>2. TypeOK'
    <3>1. sent' \in [Event -> Time]
      BY <1>1, <2>1 DEF Time
    <3>2. QED BY <2>1, <3>1 DEF TypeOK, ledger, Held
  <2>3. \A q \in Req : Signal(q) /\ read[q] # Absent /\ EventOf[q] \notin OfClient => EventOf[q] # e
    BY <2>1 DEF RequestsOK
  <2>4. \A q \in Req : Signal(q) /\ read[q] # Absent =>
           /\ ExpiresAt(q)' = ExpiresAt(q)
           /\ EventOf[q] \in OfClient \/ sent'[EventOf[q]] = sent[EventOf[q]]
    BY <1>1, <2>1, <2>3 DEF ExpiresAt, Expiry
  <2>5. RequestsOK'
    BY <2>1, <2>4 DEF RequestsOK, Placed, Undecided
  <2>6. \A q \in Req : Placed(q) /\ Signal(q) => sent'[EventOf[q]] = sent[EventOf[q]]
    BY <1>1, <2>1, <2>3 DEF RequestsOK
  <2>7. QED BY <1>1, <2>1, <2>2, <2>5, <2>6 DEF Quiet
<1>5. ASSUME NEW r \in Req, Arrive(r) PROVE Quiet /\ TypeOK' /\ RequestsOK'
  <2>1. /\ Signal(r) /\ verdict[r] = "none" /\ read[r] = Absent
        /\ EventOf[r] \in OfClient \/ sent[EventOf[r]] # Absent
        /\ read' = [read EXCEPT ![r] = now]
        /\ verdict' = [verdict EXCEPT ![r] = IF Expired(r) THEN "expired" ELSE @]
        /\ UNCHANGED <<now, sent, ledger, place, decidedAt>>
    BY <1>5 DEF Arrive, Undecided
  <2>2. TypeOK'
    <3>1. read' \in [Req -> Time] /\ verdict' \in [Req -> Verdict]
      BY <1>1, <2>1 DEF Time, Verdict
    <3>2. QED BY <2>1, <3>1 DEF TypeOK, ledger, Held
  <2>3. \A q \in Req \ {r} : /\ read'[q] = read[q] /\ verdict'[q] = verdict[q]
                             /\ ExpiresAt(q)' = ExpiresAt(q)
    BY <1>1, <2>1 DEF ExpiresAt, Expiry
  <2>4. read'[r] = now /\ ExpiresAt(r)' = Expiry(r, now)
        /\ verdict'[r] = (IF Expired(r) THEN "expired" ELSE "none")
    BY <1>1, <2>1 DEF ExpiresAt, Expiry
  <2>5. ~Placed(r) /\ (verdict'[r] # "expired" => read'[r] <= ExpiresAt(r)' + Skew)
    <3>1. ~Placed(r)
      BY <1>2, <2>1
    <3>2. Expiry(r, now) \in Int /\ Skew \in Int
      BY <1>1 DEF Expiry, Time, Absent, LedgerAssumption
    <3>3. verdict'[r] # "expired" => ~Expired(r)
      BY <2>4
    <3>4. verdict'[r] # "expired" => now <= Expiry(r, now) + Skew
      BY <1>1, <3>2, <3>3 DEF Expired
    <3>5. QED BY <2>1, <2>4, <3>1, <3>4
  <2>6. RequestsOK'
    <3> SUFFICES ASSUME NEW q \in Req PROVE
          /\ read'[q] <= now' /\ (Undecided(q)' /\ read'[q] # Absent => now' <= read'[q] + MaxStall)
          /\ Placed(q)' <=> verdict'[q] \notin {"none", "expired"}
          /\ Placed(q)' => decidedAt'[q] \in 0 .. now'
          /\ verdict'[q] \in {"finished", "forgotten"} => ~Signal(q)
          /\ ~Signal(q) => verdict'[q] \in {"none", "finished", "forgotten"}
          /\ Signal(q) /\ Placed(q)' =>
               read'[q] # Absent /\ read'[q] <= decidedAt'[q] /\ decidedAt'[q] <= read'[q] + MaxStall
          /\ Signal(q) /\ read'[q] # Absent =>
               /\ EventOf[q] \notin OfClient => sent'[EventOf[q]] # Absent
               /\ verdict'[q] # "expired" => read'[q] <= ExpiresAt(q)' + Skew
      BY DEF RequestsOK
    <3>1. CASE q = r
      BY <3>1, <1>1, <2>1, <2>4, <2>5 DEF Placed
    <3>2. CASE q # r
      BY <3>2, <2>1, <2>3 DEF RequestsOK, Placed, Undecided
    <3>3. QED BY <3>1, <3>2
  <2>7. Quiet
    BY <1>1, <2>1, <2>3, <2>5 DEF Quiet
  <2>8. QED BY <2>2, <2>6, <2>7
<1>6. CASE UNCHANGED vars
  <2>1. UNCHANGED <<now, sent, read, verdict, ledger, place, decidedAt>>
    BY <1>6 DEF vars
  <2>2. TypeOK'
    BY <2>1 DEF TypeOK, ledger, Held
  <2>3. RequestsOK'
    BY <2>1 DEF RequestsOK, Placed, Undecided, ExpiresAt, Expiry
  <2>4. QED BY <1>1, <2>1, <2>2, <2>3 DEF Quiet
<1>7. QED BY <1>3, <1>4, <1>5, <1>6

\* What was promised holds on when nothing is answered: time only passes.
LEMMA QuietKeeps ==
    ASSUME LedgerAssumption, IInv, TypeOK', RequestsOK', Quiet
    PROVE  IInv' /\ (EndedStaysEnded => EndedStaysEnded')
<1> USE DEF IInv, BaseInv, MapsInv
<1>1. /\ seen' = seen /\ terminated' = terminated /\ touchedAt' = touchedAt /\ highest' = highest
      /\ evicted' = evicted /\ place' = place /\ decidedAt' = decidedAt
      /\ now' \in Nat /\ now \in Nat /\ now <= now'
  BY DEF Quiet, ledger, TypeOK
<1>2. \A q, p \in Req : Before(q, p)' <=> Before(q, p)
  BY <1>1 DEF Before
<1>3. ASSUME NEW q \in Req
      PROVE  /\ Delivered(q)' <=> Delivered(q)
             /\ Ends(q)' <=> Ends(q)
             /\ Resets(q)' <=> Resets(q)
             /\ \A v \in {"duplicate", "call_ended", "stale"} : verdict'[q] = v <=> verdict[q] = v
  BY DEF Quiet, Delivered, Ends, Resets
<1>4. ASSUME NEW q \in Req, Placed(q)
      PROVE  read'[q] = read[q]
  BY <1>4 DEF Quiet
<1>5. ASSUME NEW q \in Req, Delivered(q)
      PROVE  /\ read'[q] = read[q] /\ SeenUntil(q)' = SeenUntil(q) /\ ExpiresAt(q)' = ExpiresAt(q)
             /\ Created(q)' = Created(q) /\ SeenUntil(q) \in Int
  <2>1. Placed(q) /\ Signal(q)
    BY <1>5 DEF RequestsOK, Delivered
  <2>2. read'[q] = read[q] /\ sent'[EventOf[q]] = sent[EventOf[q]]
    BY <2>1 DEF Quiet
  <2>3. QED BY <2>2, Attributes DEF SeenUntil, ExpiresAt, Expiry, Created
<1>6. \A q \in Req : Live(q)' <=> Live(q)
  BY <1>2, <1>3 DEF Live
<1>7. \A q, p \in Req : Newer(q, p)' <=> Newer(q, p)
  BY <1>2, <1>3 DEF Newer, Continuous
<1>8. PlacesOK'
  <2>1. \A c : Decided(c)' = Decided(c)
    BY <1>1 DEF Decided
  <2>2. QED BY <1>1, <2>1 DEF PlacesOK
<1>9. SeenOK'
  <2>1. ASSUME evicted = 0, NEW q \in Req, Delivered(q), EventOf[q] \in OfClient
        PROVE  now' > SeenUntil(q) \/ seen[EventOf[q]] >= SeenUntil(q)
    BY <2>1, <1>1, <1>5 DEF SeenOK
  <2>2. QED BY <2>1, <1>1, <1>3, <1>5 DEF SeenOK
<1>10. TerminatedOK'
  <2>1. ASSUME evicted = 0, NEW q \in Req, Ends(q)
        PROVE  LET until == decidedAt[q] + Tombstone - MaxStall
               IN  now' > until \/ terminated[TheCall(q)] >= until
    <3>1. decidedAt[q] \in 0 .. now /\ Tombstone \in Nat /\ MaxStall \in Nat
      BY <2>1 DEF RequestsOK, Ends, Delivered, LedgerAssumption
    <3>2. QED BY <2>1, <3>1, <1>1 DEF TerminatedOK
  <2>2. QED BY <2>1, <1>1, <1>3 DEF TerminatedOK
<1>11. SequencesOK'
  <2>1. \A q \in Req : Live(q) => read'[q] = read[q] /\ read[q] \in Time
    BY <1>5, Attributes DEF Live
  <2>2. Tombstone \in Nat
    BY DEF LedgerAssumption
  <2>3. ASSUME NEW q \in Req, Live(q), now > read[q] + Tombstone
        PROVE  now' > read'[q] + Tombstone
    BY <1>1, <2>1, <2>2, <2>3 DEF Time, Absent
  <2>4. QED BY <2>1, <2>3, <1>1, <1>6 DEF SequencesOK
<1>12. RetriesAreDropped'
  BY <1>1, <1>2, <1>3, <1>5 DEF RetriesAreDropped
<1>13. OutdatedIsRefused'
  <2>1. ASSUME NEW q \in Req, NEW p \in Req, Newer(q, p) PROVE read'[q] = read[q]
    BY <2>1, <1>5 DEF Newer
  <2>2. ASSUME evicted = 0, NEW p \in Req, Delivered(p), KindOf[p] # "candidate",
               NEW q \in Req, Newer(q, p)
        PROVE  \E m \in Req : Newer(m, p) /\ decidedAt[p] > read'[m] + Tombstone
    BY <2>1, <2>2 DEF OutdatedIsRefused
  <2>3. QED BY <2>2, <1>1, <1>3, <1>7 DEF OutdatedIsRefused
<1>14. RefusalsAreJustified'
  <2> SUFFICES ASSUME NEW p \in Req
               PROVE  /\ verdict[p] = "duplicate" =>
                           \E q \in Req : Before(q, p) /\ Delivered(q) /\ EventOf[q] = EventOf[p]
                      /\ verdict[p] = "call_ended" =>
                           \E q \in Req : /\ Before(q, p) /\ Ends(q) /\ ~Terminal(p)
                                          /\ read'[p] < decidedAt[q] + Tombstone
                      /\ verdict[p] = "stale" =>
                           KindOf[p] # "candidate" /\ \E q \in Req : Newer(q, p)
    BY <1>1, <1>2, <1>3, <1>7 DEF RefusalsAreJustified
  <2>1. verdict[p] = "call_ended" => read'[p] = read[p]
    BY <1>4 DEF RequestsOK
  <2>2. QED BY <2>1 DEF RefusalsAreJustified
<1>15. EndedStaysEnded => EndedStaysEnded'
  BY <1>1, <1>2, <1>3, <1>5 DEF EndedStaysEnded
<1>16. QED BY <1>8, <1>9, <1>10, <1>11, <1>12, <1>13, <1>14, <1>15

-----------------------------------------------------------------------------
(* The theorems                                                            *)

\* Nothing was delivered, ended or remembered yet.
LEMMA InitInv ==
    ASSUME LedgerAssumption, Init
    PROVE  IInv /\ EndedStaysEnded
<1> USE DEF LedgerAssumption
<1>1. \A r \in Req : /\ verdict[r] = "none" /\ place[r] = 0 /\ read[r] = Absent
                     /\ ~Delivered(r) /\ ~Ends(r)
  BY DEF Init, Delivered, Ends
<1>2. TypeOK
  <2>1. Held(seen) = {} /\ Held(touchedAt) = {} /\ Held(terminated) = {}
    BY DEF Init, Held
  <2>2. Cardinality(Held(seen)) = 0 /\ Cardinality(Held(touchedAt)) = 0
        /\ Cardinality(Held(terminated)) = 0
    BY <2>1, FS_EmptySet
  <2>3. /\ sent \in [Event -> Time] /\ read \in [Req -> Time] /\ verdict \in [Req -> Verdict]
        /\ seen \in [Event -> Time] /\ touchedAt \in [SeqKey -> Time]
        /\ highest \in [SeqKey -> Nat] /\ terminated \in [Call -> Time]
        /\ place \in [Req -> Nat] /\ decidedAt \in [Req -> Time]
    BY DEF Init, Time, Verdict
  <2>4. now \in 0 .. MaxNow /\ sweptAt \in Int /\ evicted \in Nat
    BY DEF Init
  <2>5. QED BY <2>2, <2>3, <2>4 DEF TypeOK
<1>3. RequestsOK
  BY <1>1 DEF Init, RequestsOK, Placed, Undecided, Absent
<1>4. PlacesOK
  BY <1>1, DecidedIsFinite DEF PlacesOK
<1>5. SeenOK /\ TerminatedOK
  BY <1>1 DEF Init, SeenOK, TerminatedOK
<1>6. SequencesOK
  BY <1>1 DEF Init, SequencesOK, Live
<1>7. RetriesAreDropped /\ OutdatedIsRefused /\ EndedStaysEnded
  BY <1>1 DEF RetriesAreDropped, OutdatedIsRefused, EndedStaysEnded
<1>8. RefusalsAreJustified
  BY <1>1 DEF RefusalsAreJustified
<1>9. QED BY <1>2, <1>3, <1>4, <1>5, <1>6, <1>7, <1>8 DEF IInv, BaseInv, MapsInv

\* The requests that are answered under the lock: what they are answered, and why.
LEMMA AnsweringSteps ==
    ASSUME LedgerAssumption, TypeOK, RequestsOK, PlacesOK, NEW r \in Req,
           Refuse(r) \/ Deliver(r) \/ Finish(r) \/ Forget(r)
    PROVE  \E reason \in Verdict :
             /\ Answered(r, reason) /\ Record(r, reason) /\ MapsStep(r) /\ MapsOK'
             /\ reason = "delivered" => ~Duplicate(r) /\ ~CallEnded(r) /\ ~Stale(r)
             /\ reason = "duplicate" => Duplicate(r)
             /\ reason = "call_ended" => CallEnded(r)
             /\ reason = "stale" => Stale(r)
<1>1. CASE Refuse(r)
  <2>1. Answered(r, Reason(r)) /\ Record(r, Reason(r)) /\ Reason(r) \in Verdict
        /\ Reason(r) # "delivered"
    BY <1>1, ReasonFacts DEF Refuse, Locked, Answered, Verdict
  <2>2. QED BY <1>1, <2>1, RefuseStep, ReasonFacts
<1>2. CASE Deliver(r)
  <2>1. Answered(r, "delivered") /\ Record(r, "delivered") /\ Reason(r) = "delivered"
    BY <1>2 DEF Deliver, Locked, Answered
  <2>2. QED BY <1>2, <2>1, DeliverStep, ReasonFacts DEF Verdict
<1>3. CASE Finish(r)
  <2>1. Answered(r, "finished") /\ Record(r, "finished")
    BY <1>3 DEF Finish, Answered, Signal
  <2>2. QED BY <1>3, <2>1, TeardownStep DEF Verdict
<1>4. CASE Forget(r)
  <2>1. Answered(r, "forgotten") /\ Record(r, "forgotten")
    BY <1>4 DEF Forget, Answered, Signal
  <2>2. QED BY <1>4, <2>1, TeardownStep DEF Verdict
<1>5. QED BY <1>1, <1>2, <1>3, <1>4

\* A verdict keeps the invariant, and ended calls stay ended.
LEMMA AnswerKeeps ==
    ASSUME LedgerAssumption, IInv, NEW r \in Req,
           Refuse(r) \/ Deliver(r) \/ Finish(r) \/ Forget(r)
    PROVE  IInv' /\ (TombstoneLasts /\ EndedStaysEnded => EndedStaysEnded')
<1> USE DEF IInv, BaseInv, MapsInv
<1>1. PICK reason \in Verdict :
        /\ Answered(r, reason) /\ Record(r, reason) /\ MapsStep(r) /\ MapsOK'
        /\ reason = "delivered" => ~Duplicate(r) /\ ~CallEnded(r) /\ ~Stale(r)
        /\ reason = "duplicate" => Duplicate(r)
        /\ reason = "call_ended" => CallEnded(r)
        /\ reason = "stale" => Stale(r)
  BY AnsweringSteps
<1>2. /\ RequestsOK' /\ PlacesOK' /\ Last(r) /\ OthersStay(r)
      /\ verdict'[r] = reason /\ decidedAt'[r] = now /\ Placed(r)' /\ ~Placed(r)
      /\ verdict' \in [Req -> Verdict] /\ place' \in [Req -> Nat]
      /\ decidedAt' \in [Req -> Time]
  BY <1>1, RecordIsLast
<1>3. TypeOK'
  <2>1. now' = now /\ sent' = sent /\ read' = read
    BY <1>2 DEF OthersStay
  <2>2. QED BY <1>1, <1>2, <2>1 DEF TypeOK, MapsOK
<1>4. Newest(r, reason) /\ evicted <= evicted'
  BY <1>1, <1>2 DEF Newest, TypeOK, MapsOK, MapsStep
<1>5. SeenOK' /\ TerminatedOK' /\ SequencesOK'
  BY <1>1, <1>4, SeenAfter, TerminatedAfter, SequencesAfter DEF MapsStep, MapsOK
<1>6. RetriesAreDropped' /\ OutdatedIsRefused' /\ RefusalsAreJustified'
  BY <1>1, <1>4, RetriesAfter, OutdatedAfter, RefusalsAfter
<1>7. TombstoneLasts /\ EndedStaysEnded => EndedStaysEnded'
  BY <1>1, <1>2, <1>4, EndedAfter
<1>8. QED BY <1>2, <1>3, <1>5, <1>6, <1>7

\* Every step keeps the invariant, and what has ended stays ended if tombstones last.
LEMMA StepInv ==
    ASSUME LedgerAssumption, IInv, [Next]_vars
    PROVE  IInv' /\ (TombstoneLasts /\ EndedStaysEnded => EndedStaysEnded')
<1>1. CASE Tick \/ (\E e \in Event : Create(e)) \/ (\E r \in Req : Arrive(r)) \/ UNCHANGED vars
  BY <1>1, QuietSteps, QuietKeeps DEF IInv, BaseInv
<1>2. ASSUME NEW r \in Req, Refuse(r) \/ Deliver(r) \/ Finish(r) \/ Forget(r)
      PROVE  IInv' /\ (TombstoneLasts /\ EndedStaysEnded => EndedStaysEnded')
  BY <1>2, AnswerKeeps
<1>3. QED BY <1>1, <1>2 DEF Next

\* The maps of the ledger never hold more than their capacity, whatever requests come and
\* however their readings of the clock are delayed.
THEOREM LedgerType ==
    ASSUME LedgerAssumption
    PROVE  Spec => []TypeOK
<1>1. Init => IInv
  BY InitInv
<1>2. IInv /\ [Next]_vars => IInv'
  BY StepInv
<1>3. IInv => TypeOK
  BY DEF IInv, BaseInv
<1>4. QED BY <1>1, <1>2, <1>3, PTL DEF Spec

\* Retries are dropped, outdated signals refused, and no refusal is without cause.
THEOREM LedgerVerdicts ==
    ASSUME LedgerAssumption
    PROVE  Spec => [](RetriesAreDropped /\ OutdatedIsRefused /\ RefusalsAreJustified)
<1>1. Init => IInv
  BY InitInv
<1>2. IInv /\ [Next]_vars => IInv'
  BY StepInv
<1>3. IInv => RetriesAreDropped /\ OutdatedIsRefused /\ RefusalsAreJustified
  BY DEF IInv
<1>4. QED BY <1>1, <1>2, <1>3, PTL DEF Spec

\* If tombstones outlast what may be in flight, a call that has ended stays ended.
THEOREM LedgerEndedStaysEnded ==
    ASSUME LedgerAssumption, TombstoneLasts
    PROVE  Spec => []EndedStaysEnded
<1>1. Init => IInv /\ EndedStaysEnded
  BY InitInv
<1>2. IInv /\ EndedStaysEnded /\ [Next]_vars => (IInv /\ EndedStaysEnded)'
  BY StepInv
<1>3. QED BY <1>1, <1>2, PTL DEF Spec
=============================================================================
