-------------------------- MODULE NegotiationProofs --------------------------
(***************************************************************************)
(* Proofs about the negotiation of a call between two browsers, as a        *)
(* library and as the pages of a call use it (MCCalls), for any bounds and   *)
(* any limits.                                                              *)
(***************************************************************************)
EXTENDS MCCalls, SequenceTheorems, FiniteSetTheorems, TLAPS

-----------------------------------------------------------------------------
(* Each link by itself                                                     *)

Signaling == {"stable", "have-local-offer", "have-remote-offer"}
Made == 1 .. made

Connection == [signaling : Signaling, agreed : Nat, offered : Nat, heard : Nat,
               paths : SUBSET Nat, gathered : Nat]
Negotiation == [making : BOOLEAN, ignore : BOOLEAN, answering : BOOLEAN,
                roleKnown : BOOLEAN, generation : Nat]
Tasks ==
  [op : {"offer"}, stage : {"start", "created"}, n : Nat, mine : Nat]
  \cup [op : {"call_offer"}, stage : {"start", "answering"}, n : Nat]
  \cup [op : {"call_answer"}, stage : {"start", "applying"}, n : Nat]
  \cup [op : {"ice_candidate"}, stage : {"start"}, c : Nat]

\* The head of a chain is at a stage, op and all.
Head1(c, op, stage) == c # <<>> /\ c[1].op = op /\ c[1].stage = stage

\* One link: only the first task has started, what the connection and the
\* negotiation hold is what that task left them in, and candidates are held
\* until a description was heard.
LinkShape(r, c, g, h) ==
  /\ r \in Connection /\ c \in Seq(Tasks) /\ g \in Negotiation /\ h \in Seq(Nat)
  /\ Len(h) <= PendingLimit
  /\ r.offered # None <=> r.signaling = "have-local-offer"
  /\ r.heard # None => h = <<>>
  /\ r.signaling = "have-remote-offer" => r.heard # None
  /\ \A i \in DOMAIN c : i > 1 => c[i].stage = "start"
  /\ g.making <=> Head1(c, "offer", "created")
  /\ g.answering <=> Head1(c, "call_answer", "applying")
  /\ g.answering => r.signaling = "have-local-offer"
  /\ r.signaling = "have-remote-offer" <=> Head1(c, "call_offer", "answering")

\* Every offer named anywhere was made.
NamesOK(r, c, N) ==
  /\ {r.agreed, r.offered, r.heard} \subseteq N \cup {None}
  /\ \A i \in DOMAIN c : IF c[i].op = "ice_candidate" THEN c[i].c \in N ELSE c[i].n \in N

Named == {"call_offer", "call_answer", "ice_candidate"}
GoodSignal(e) ==
  /\ e.type \in Named \cup {"call_resync", "call_hangup"}
  /\ e.type \in Named => e.content \in Made
  /\ mode = "library" => e.type \in Named
WireOK == \A s \in Sides : \A e \in wire[s] : GoodSignal(e)

LinkInv ==
  /\ mode \in {"call", "library"}
  /\ made \in 0 .. MaxOffers /\ faults \in 0 .. MaxFaults /\ refused = {}
  /\ rtc \in [Sides -> Connection] /\ chain \in [Sides -> Seq(Tasks)]
  /\ nego \in [Sides -> Negotiation] /\ pending \in [Sides -> Seq(Nat)]
  /\ wire = [s \in Sides |-> wire[s]]
  /\ sequence \in [Sides -> Nat] /\ sent \in [Sides -> Nat] /\ open \in [Sides -> BOOLEAN]
  /\ ledger = [s \in Sides |-> ledger[s]]
  /\ \A s \in Sides : LinkShape(rtc[s], chain[s], nego[s], pending[s]) /\ NamesOK(rtc[s], chain[s], Made)
  /\ WireOK

-----------------------------------------------------------------------------
(* The two links together                                                  *)

Rude == Other(Polite)
Alive(s) == mode = "library" \/ page[s].call

\* What a ledger keeps of one call.
SeenIds(l) == {l.seen[i][1][2] : i \in DOMAIN l.seen}
LastId(l) == IF l.last = <<>> THEN 0 ELSE l.last[1][2]
LedgerOf(l, s, t, m) ==
  /\ l = [seen |-> l.seen, last |-> l.last, ended |-> <<>>]
  /\ l.seen \in Seq(({t} \X (1 .. m)) \X {Skew})
  /\ \A i, j \in DOMAIN l.seen : l.seen[i][1][2] = l.seen[j][1][2] => i = j
  /\ l.last = <<>> \/ \E q \in 1 .. m : l.last = << << <<t, "call", s>>, q >> >>

\* No ledger is ever trimmed.
Fits == \A s \in Sides : sent[s] <= LedgerCapacity

\* The path: sequences and identifiers count the same signals, every signal was
\* sent by the peer, and a ledger knows nothing else.
Counted == \A s \in Sides : Alive(s) => sequence[s] = sent[s]
SignalOf(e, s, m) ==
  /\ e.sender = Other(s) /\ e.call = "call" /\ e.expires = 0
  /\ e.id \in 1 .. m
  /\ e.type # "call_hangup" => e.target = s /\ e.seq = e.id
Carried ==
  \A s \in Sides : \A e \in wire[s] :
    SignalOf(e, s, sent[Other(s)]) /\ \A f \in wire[s] : e.id = f.id => e = f
Remembered == \A s \in Sides : Alive(s) => LedgerOf(ledger[s], s, Other(s), sent[Other(s)])
Path == Counted /\ Carried /\ Remembered

\* The descriptions a side has still to apply, and in which order: tasks first,
\* then the signals its ledger would admit. A task counts from the end of the chain.
Item(kind, n, pos) == [kind |-> kind, n |-> n, pos |-> pos]
Described(task) ==
  \/ task.op = "call_offer" /\ task.stage = "start"
  \/ task.op = "call_answer"
Fresh(l, e) ==
  e.type \in {"call_offer", "call_answer"} /\ e.id \notin SeenIds(l) /\ LastId(l) <= e.id
TaskItems(c) == {Item(c[i].op, c[i].n, i - Len(c)) : i \in {j \in DOMAIN c : Described(c[j])}}
WireItems(w, l) == {Item(e.type, e.content, e.id) : e \in {f \in w : Fresh(l, f)}}
Items(s) == IF Alive(s) THEN TaskItems(chain[s]) \cup WireItems(wire[s], ledger[s]) ELSE {}

OffersIn(A) == {x \in A : x.kind = "call_offer"}
AnswersIn(A) == {x \in A : x.kind = "call_answer"}

\* p, q: the connections of the polite and of the other browser; A, B: the
\* descriptions on their way to each; pl, ql: whether each is in the call.
\* One offer at most is on its way to the polite browser, the one the other waits
\* with, and no answer crosses it.
ToPolite(q, A, B, ql) ==
  \A x \in OffersIn(A) :
    /\ ql => q.offered = x.n
    /\ \A y \in OffersIn(A) : x = y
    /\ \A y \in AnswersIn(A) : y.pos < x.pos
    /\ AnswersIn(B) = {}
PoliteBusy(p, q, A, B, ql) ==
  p.signaling = "have-remote-offer" =>
    (ql => q.offered = p.heard) /\ AnswersIn(B) = {} /\ OffersIn(A) = {}
AnswersToRude(q, B) == \A x \in AnswersIn(B) : q.offered = x.n /\ \A y \in AnswersIn(B) : x = y

\* An offer on its way to the other is the one the polite browser waits with, or
\* was rolled back: then it arrives while the other still waits, before its answer.
ToRude(p, q, B, pl) ==
  \A x \in OffersIn(B) :
    /\ pl => p.offered = x.n \/ (q.offered # None /\ \A y \in AnswersIn(B) : x.pos < y.pos)
    /\ \A y \in OffersIn(B) : x.n = y.n => x = y
    /\ p.offered = x.n => \A y \in AnswersIn(B) : y.pos < x.pos
AnswersToPolite(p, A, B) ==
  \A x \in AnswersIn(A) :
    /\ p.offered = x.n
    /\ \A y \in AnswersIn(A) : x = y
    /\ \A y \in OffersIn(B) : y.n # x.n
RudeBusy(p, q, A, B, pl) ==
  q.signaling = "have-remote-offer" =>
    /\ pl => p.offered = q.heard
    /\ AnswersIn(A) = {}
    /\ \A y \in OffersIn(B) : y.n # q.heard
Agrees(r) == r.signaling # "have-remote-offer" => r.agreed = r.heard

Pact(p, q, A, B, pl, ql) ==
  /\ ToPolite(q, A, B, ql) /\ PoliteBusy(p, q, A, B, ql) /\ AnswersToRude(q, B)
  /\ ToRude(p, q, B, pl) /\ AnswersToPolite(p, A, B) /\ RudeBusy(p, q, A, B, pl)
  /\ Agrees(p) /\ Agrees(q)

\* An offer that is not sent yet is nowhere else.
Known == {rtc[s].heard : s \in Sides} \cup UNION {{x.n : x \in Items(s)} : s \in Sides}
UnsentOK ==
  \A s \in Sides : \A i \in DOMAIN chain[s] : chain[s][i].op = "offer" =>
    /\ chain[s][i].n \notin Known
    /\ \A t \in Sides : \A j \in DOMAIN chain[t] :
         chain[t][j].op = "offer" /\ chain[t][j].n = chain[s][i].n => s = t /\ i = j

GlareInv ==
  Fits =>
    /\ Path
    /\ Pact(rtc[Polite], rtc[Rude], Items(Polite), Items(Rude), Alive(Polite), Alive(Rude))
    /\ UnsentOK

-----------------------------------------------------------------------------
(* The two pages                                                           *)

Pages == [call : BOOLEAN, peer : BOOLEAN, link : BOOLEAN, conn : {"new", "checking", "connected", "failed"},
          needs : BOOLEAN, restarting : BOOLEAN, attempts : Nat, timer : BOOLEAN,
          recovering : SUBSET Nat, loss : BOOLEAN, todo : {"none", "offer", "finish", "gone"}]

-----------------------------------------------------------------------------
(* Chains of tasks                                                         *)

\* There are two browsers.
LEMMA TwoSides ==
  /\ Rude \in Sides /\ Rude # Polite /\ Sides = {Polite, Rude}
  /\ Other(Polite) = Rude /\ Other(Rude) = Polite
  /\ \A s \in Sides : Other(s) \in Sides /\ Other(s) # s /\ Other(Other(s)) = s
<1> DEFINE R == Sides \ {Polite}
<1>1. IsFiniteSet(Sides) /\ Cardinality(Sides) = 2 /\ Polite \in Sides
  BY LinkAssumption
<1>2. IsFiniteSet(R) /\ Cardinality(R) = 1
  BY <1>1, FS_RemoveElement
<1>3. PICK x : R = {x}
  BY <1>2, FS_Singleton
<1>4. x \in Sides /\ x # Polite /\ Sides = {Polite, x}
  BY <1>1, <1>3
<1>5. Other(Polite) = x /\ Other(x) = Polite
  BY <1>4 DEF Other
<1> QED
  BY <1>4, <1>5 DEF Rude

\* A task that settles leaves the ones behind it, each one place ahead.
LEMMA Removed ==
  ASSUME NEW S, NEW c \in Seq(S), c # <<>>
  PROVE  /\ RemoveAt(c, 1) \in Seq(S)
         /\ DOMAIN RemoveAt(c, 1) = 1 .. Len(c) - 1
         /\ Len(RemoveAt(c, 1)) = Len(c) - 1
         /\ \A i \in 1 .. Len(c) - 1 : RemoveAt(c, 1)[i] = c[i + 1]
<1> DEFINE t == SubSeq(c, 2, Len(c))
<1>1. Len(c) \in Nat \ {0}
  BY EmptySeq
<1>2. SubSeq(c, 1, 0) = <<>>
  BY SubSeqEmpty
<1>3. /\ t \in Seq(S) /\ Len(t) = Len(c) - 1
      /\ \A i \in 1 .. Len(c) - 1 : t[i] = c[i + 1]
  <2>1. \A i \in 2 .. Len(c) : c[i] \in S
    BY <1>1, ElementOfSeq
  <2>2. /\ t \in Seq(S) /\ Len(t) = IF 2 <= Len(c) THEN Len(c) - 2 + 1 ELSE 0
        /\ \A i \in 1 .. Len(c) - 2 + 1 : t[i] = c[2 + i - 1]
    BY <1>1, <2>1, SubSeqProperties
  <2> HIDE DEF t
  <2> DEFINE n == Len(c)
  <2> HIDE DEF n
  <2>3. n \in Nat /\ n >= 1 /\ n - 2 + 1 = n - 1 /\ (~(2 <= n) => n - 1 = 0)
    <3>1. n \in Nat \ {0}
      BY <1>1 DEF n
    <3> QED
      BY <3>1
  <2>4. Len(t) = n - 1
    BY <2>2, <2>3 DEF n
  <2>5. ASSUME NEW i \in 1 .. n - 1 PROVE t[i] = c[i + 1]
    <3>1. i \in Int /\ 2 + i - 1 = i + 1 /\ i \in 1 .. n - 2 + 1
      BY <2>3
    <3> QED
      BY <2>2, <3>1 DEF n
  <2> QED
    BY <2>2, <2>4, <2>5 DEF n
<1>4. RemoveAt(c, 1) = <<>> \o t
  BY <1>2 DEF RemoveAt
<1>5. RemoveAt(c, 1) = t
  BY <1>3, <1>4, ConcatEmptySeq
<1> QED
  BY <1>3, <1>5, <1>1, LenProperties

\* Another task is put last.
LEMMA Queued ==
  ASSUME NEW S, NEW c \in Seq(S), NEW t \in S
  PROVE  /\ Append(c, t) \in Seq(S)
         /\ Len(Append(c, t)) = Len(c) + 1 /\ Len(c) \in Nat
         /\ DOMAIN c = 1 .. Len(c) /\ DOMAIN Append(c, t) = 1 .. Len(c) + 1
         /\ \A i \in 1 .. Len(c) : Append(c, t)[i] = c[i]
         /\ Append(c, t)[Len(c) + 1] = t
  BY AppendProperties, LenProperties

\* The first task goes on.
LEMMA Staged ==
  ASSUME NEW S, NEW c \in Seq(S), c # <<>>, NEW t \in S
  PROVE  /\ [c EXCEPT ![1] = t] \in Seq(S)
         /\ Len([c EXCEPT ![1] = t]) = Len(c) /\ Len(c) \in Nat \ {0}
         /\ DOMAIN c = 1 .. Len(c) /\ DOMAIN [c EXCEPT ![1] = t] = 1 .. Len(c)
         /\ [c EXCEPT ![1] = t] # <<>>
         /\ [c EXCEPT ![1] = t][1] = t
         /\ \A i \in 2 .. Len(c) : [c EXCEPT ![1] = t][i] = c[i]
<1>1. Len(c) \in Nat \ {0}
  BY EmptySeq
<1>2. 1 \in 1 .. Len(c)
  BY <1>1
<1> QED
  BY <1>1, <1>2, ExceptSeq, LenProperties, EmptySeq

-----------------------------------------------------------------------------
(* One link                                                                *)

\* A task has settled: nothing runs.
LEMMA Settles ==
  ASSUME NEW r, NEW c, NEW g, NEW h, LinkShape(r, c, g, h), c # <<>>,
         NEW r2 \in Connection, NEW g2 \in Negotiation, NEW h2 \in Seq(Nat),
         Len(h2) <= PendingLimit, ~g2.making, ~g2.answering,
         r2.signaling # "have-remote-offer",
         r2.offered # None <=> r2.signaling = "have-local-offer",
         r2.heard # None => h2 = <<>>
  PROVE  LinkShape(r2, RemoveAt(c, 1), g2, h2)
<1> DEFINE d == RemoveAt(c, 1)
<1>0. c \in Seq(Tasks) /\ \A i \in DOMAIN c : i > 1 => c[i].stage = "start"
  BY DEF LinkShape
<1>1. /\ d \in Seq(Tasks) /\ DOMAIN d = 1 .. Len(c) - 1 /\ Len(d) = Len(c) - 1
      /\ \A i \in 1 .. Len(c) - 1 : d[i] = c[i + 1]
  BY <1>0, Removed
<1>2. DOMAIN c = 1 .. Len(c) /\ Len(c) \in Nat
  BY <1>0, LenProperties
<1>3. \A i \in DOMAIN d : d[i].stage = "start"
  <2> SUFFICES ASSUME NEW i \in 1 .. Len(c) - 1 PROVE c[i + 1].stage = "start"
    BY <1>1
  <2>1. i + 1 \in DOMAIN c /\ i + 1 > 1
    BY <1>2
  <2> QED
    BY <2>1, <1>0
<1>4. d # <<>> => 1 \in DOMAIN d
  BY <1>1, <1>2, EmptySeq
<1>5. \A op : ~Head1(d, op, "created") /\ ~Head1(d, op, "applying") /\ ~Head1(d, op, "answering")
  BY <1>3, <1>4 DEF Head1
<1> HIDE DEF d
<1>6. g2.making <=> Head1(d, "offer", "created")
  BY <1>5
<1>7. g2.answering <=> Head1(d, "call_answer", "applying")
  BY <1>5
<1>8. r2.signaling = "have-remote-offer" <=> Head1(d, "call_offer", "answering")
  BY <1>5
<1>9. LinkShape(r2, d, g2, h2)
  BY <1>1, <1>3, <1>6, <1>7, <1>8 DEF LinkShape
<1> QED
  BY <1>9 DEF d

\* The task that runs is the first of the chain.
Running(s, op, stage) ==
  /\ chain[s] # <<>> /\ 1 \in DOMAIN chain[s]
  /\ chain[s][1] \in Tasks /\ chain[s][1].op = op /\ chain[s][1].stage = stage
  /\ LinkShape(rtc[s], chain[s], nego[s], pending[s])
  /\ NamesOK(rtc[s], chain[s], Made)
  /\ rtc[s] \in Connection /\ nego[s] \in Negotiation /\ pending[s] \in Seq(Nat)
  /\ chain[s] \in Seq(Tasks)
  /\ \A o, g : Head1(chain[s], o, g) <=> o = op /\ g = stage

LEMMA AtHead ==
  ASSUME LinkInv, NEW s \in Sides, NEW i, NEW op, NEW stage, Runs(s, i, op, stage)
  PROVE  i = 1 /\ Running(s, op, stage)
<1>1. /\ LinkShape(rtc[s], chain[s], nego[s], pending[s]) /\ NamesOK(rtc[s], chain[s], Made)
      /\ chain[s] \in Seq(Tasks)
  BY DEF LinkInv
<1>2. i = 1 /\ 1 \in DOMAIN chain[s] /\ chain[s][1].op = op /\ chain[s][1].stage = stage
  BY DEF Runs, Turn
<1>3. chain[s] # <<>> /\ chain[s][1] \in Tasks
  <2>1. DOMAIN chain[s] = 1 .. Len(chain[s]) /\ Len(chain[s]) \in Nat
    BY <1>1, LenProperties
  <2> QED
    BY <1>1, <1>2, <2>1, ElementOfSeq, EmptySeq
<1>4. \A o, g : Head1(chain[s], o, g) <=> o = op /\ g = stage
  BY <1>2, <1>3 DEF Head1
<1> QED
  BY <1>1, <1>2, <1>3, <1>4 DEF LinkShape, Running

\* A step changed the link of one side, and left it well formed.
LinkChange(s, N) ==
  \E r, c, g, h :
    /\ rtc' = [rtc EXCEPT ![s] = r] /\ chain' = [chain EXCEPT ![s] = c]
    /\ nego' = [nego EXCEPT ![s] = g] /\ pending' = [pending EXCEPT ![s] = h]
    /\ LinkShape(r, c, g, h) /\ NamesOK(r, c, N)

\* What a task that settles leaves.
LEMMA NamesSettle ==
  ASSUME NEW r, NEW c, NEW N, NEW r2, NamesOK(r, c, N), c \in Seq(Tasks), c # <<>>,
         {r2.agreed, r2.offered, r2.heard} \subseteq N \cup {None}
  PROVE  NamesOK(r2, RemoveAt(c, 1), N)
<1>1. /\ DOMAIN RemoveAt(c, 1) = 1 .. Len(c) - 1
      /\ \A i \in 1 .. Len(c) - 1 : RemoveAt(c, 1)[i] = c[i + 1]
  BY Removed
<1>2. DOMAIN c = 1 .. Len(c) /\ Len(c) \in Nat
  BY LenProperties
<1>3. \A i \in 1 .. Len(c) - 1 : i + 1 \in DOMAIN c
  BY <1>2
<1> QED
  BY <1>1, <1>3 DEF NamesOK

LEMMA SettledChange ==
  ASSUME LinkInv, NEW s \in Sides, chain[s] # <<>>, NEW i, i = 1, Settle(s, i),
         NEW r2 \in Connection, NEW g2 \in Negotiation, NEW h2 \in Seq(Nat),
         Len(h2) <= PendingLimit, ~g2.making, ~g2.answering,
         r2.signaling # "have-remote-offer",
         r2.offered # None <=> r2.signaling = "have-local-offer",
         r2.heard # None => h2 = <<>>,
         {r2.agreed, r2.offered, r2.heard} \subseteq Made \cup {None},
         rtc' = [rtc EXCEPT ![s] = r2], nego' = [nego EXCEPT ![s] = g2],
         pending' = [pending EXCEPT ![s] = h2]
  PROVE  LinkChange(s, Made)
<1>1. /\ LinkShape(rtc[s], chain[s], nego[s], pending[s]) /\ NamesOK(rtc[s], chain[s], Made)
      /\ chain[s] \in Seq(Tasks) /\ chain \in [Sides -> Seq(Tasks)]
  BY DEF LinkInv
<1>2. LinkShape(r2, RemoveAt(chain[s], 1), g2, h2)
  BY <1>1, Settles
<1>3. NamesOK(r2, RemoveAt(chain[s], 1), Made)
  BY <1>1, NamesSettle
<1>4. chain' = [chain EXCEPT ![s] = RemoveAt(chain[s], 1)]
  BY <1>1 DEF Settle
<1> QED
  BY <1>2, <1>3, <1>4 DEF LinkChange

\* A task goes on to its next stage.
LEMMA StagedChange ==
  ASSUME LinkInv, NEW s \in Sides, chain[s] # <<>>, NEW t \in Tasks,
         chain' = [chain EXCEPT ![s] = [chain[s] EXCEPT ![1] = t]],
         t.op # "ice_candidate", t.n = chain[s][1].n, chain[s][1].op = t.op,
         NEW r2 \in Connection, NEW g2 \in Negotiation, NEW h2 \in Seq(Nat),
         Len(h2) <= PendingLimit,
         r2.offered # None <=> r2.signaling = "have-local-offer",
         r2.heard # None => h2 = <<>>,
         r2.signaling = "have-remote-offer" => r2.heard # None,
         g2.making <=> t.op = "offer" /\ t.stage = "created",
         g2.answering <=> t.op = "call_answer" /\ t.stage = "applying",
         g2.answering => r2.signaling = "have-local-offer",
         r2.signaling = "have-remote-offer" <=> t.op = "call_offer" /\ t.stage = "answering",
         {r2.agreed, r2.offered, r2.heard} \subseteq Made \cup {None},
         rtc' = [rtc EXCEPT ![s] = r2], nego' = [nego EXCEPT ![s] = g2],
         pending' = [pending EXCEPT ![s] = h2]
  PROVE  LinkChange(s, Made)
<1> DEFINE c == chain[s]
           d == [c EXCEPT ![1] = t]
<1>1. /\ LinkShape(rtc[s], c, nego[s], pending[s]) /\ NamesOK(rtc[s], c, Made)
      /\ c \in Seq(Tasks)
  BY DEF LinkInv
<1>2. /\ d \in Seq(Tasks) /\ DOMAIN c = 1 .. Len(c) /\ DOMAIN d = 1 .. Len(c)
      /\ d # <<>> /\ d[1] = t /\ \A i \in 2 .. Len(c) : d[i] = c[i]
      /\ Len(c) \in Nat \ {0}
  BY <1>1, Staged
<1>3. \A i \in DOMAIN d : i = 1 \/ i \in 2 .. Len(c)
  BY <1>2
<1>4. \A i \in DOMAIN d : i > 1 => d[i].stage = "start"
  <2>1. \A i \in DOMAIN c : i > 1 => c[i].stage = "start"
    BY <1>1 DEF LinkShape
  <2> QED
    BY <1>2, <1>3, <2>1
<1>5. \A o, g : Head1(d, o, g) <=> t.op = o /\ t.stage = g
  BY <1>2 DEF Head1
<1>6. NamesOK(r2, d, Made)
  <2>1. \A i \in DOMAIN c : IF c[i].op = "ice_candidate" THEN c[i].c \in Made ELSE c[i].n \in Made
    BY <1>1 DEF NamesOK
  <2>2. t.n \in Made
    BY <1>2, <2>1
  <2>3. \A i \in DOMAIN d : IF d[i].op = "ice_candidate" THEN d[i].c \in Made ELSE d[i].n \in Made
    BY <1>2, <1>3, <2>1, <2>2
  <2> QED
    BY <2>3 DEF NamesOK
<1>7. LinkShape(r2, d, g2, h2)
  <2> HIDE DEF d
  <2> QED
    BY <1>2, <1>4, <1>5 DEF LinkShape
<1> QED
  BY <1>6, <1>7 DEF LinkChange

LEMMA FunctionUpdates ==
  ASSUME LinkInv, NEW s \in Sides
  PROVE  /\ rtc = [rtc EXCEPT ![s] = rtc[s]] /\ nego = [nego EXCEPT ![s] = nego[s]]
         /\ pending = [pending EXCEPT ![s] = pending[s]] /\ chain = [chain EXCEPT ![s] = chain[s]]
BY DEF LinkInv

LEMMA NegotiationFields ==
  ASSUME NEW g \in Negotiation
  PROVE  /\ \A n \in Nat : [g EXCEPT !.generation = n] \in Negotiation
         /\ \A b \in BOOLEAN : /\ [g EXCEPT !.making = b] \in Negotiation
                             /\ [g EXCEPT !.ignore = b] \in Negotiation
                             /\ [g EXCEPT !.answering = b] \in Negotiation
                             /\ [g EXCEPT !.roleKnown = b] \in Negotiation
BY DEF Negotiation

LEMMA CreateOfferLink ==
  ASSUME LinkInv, NEW s \in Sides, NEW i, CreateOffer(s, i)
  PROVE  LinkChange(s, Made)
<1> DEFINE t == [chain[s][1] EXCEPT !.stage = "created", !.mine = nego[s].generation + 1]
           g2 == [nego[s] EXCEPT !.generation = @ + 1, !.making = TRUE]
<1>1. Runs(s, i, "offer", "start")
  BY DEF CreateOffer
<1>2. /\ i = 1 /\ chain[s] # <<>>
      /\ chain[s][1] \in Tasks /\ chain[s][1].op = "offer" /\ chain[s][1].stage = "start"
      /\ LinkShape(rtc[s], chain[s], nego[s], pending[s]) /\ NamesOK(rtc[s], chain[s], Made)
      /\ rtc[s] \in Connection /\ nego[s] \in Negotiation /\ pending[s] \in Seq(Nat)
      /\ \A o, g : Head1(chain[s], o, g) <=> o = "offer" /\ g = "start"
  <2>1. i = 1 /\ Running(s, "offer", "start")
    BY <1>1, AtHead
  <2> QED
    BY <2>1 DEF Running
<1>3. t \in Tasks /\ t.op = "offer" /\ t.stage = "created" /\ t.n = chain[s][1].n
  <2>1. nego[s].generation + 1 \in Nat
    BY <1>2 DEF Negotiation
  <2>2. chain[s][1] \in [op : {"offer"}, stage : {"start", "created"}, n : Nat, mine : Nat]
    BY <1>2 DEF Tasks
  <2>3. /\ t \in [op : {"offer"}, stage : {"start", "created"}, n : Nat, mine : Nat]
        /\ t.op = "offer" /\ t.stage = "created" /\ t.n = chain[s][1].n
    BY <2>1, <2>2
  <2> QED
    BY <2>3 DEF Tasks
<1>4. g2 \in Negotiation /\ g2.making /\ g2.answering = nego[s].answering
  <2>1. nego[s].generation + 1 \in Nat
    BY <1>2 DEF Negotiation
  <2> DEFINE g1 == [nego[s] EXCEPT !.generation = @ + 1]
  <2>2. g1 \in Negotiation
    BY <1>2, <2>1, NegotiationFields
  <2>3. g2 = [g1 EXCEPT !.making = TRUE]
    OBVIOUS
  <2>4. g2 \in Negotiation
    BY <2>2, <2>3, NegotiationFields
  <2>5. g2.making /\ g2.answering = nego[s].answering
    BY <1>2 DEF Negotiation
  <2> QED
    BY <2>4, <2>5
<1>5. nego' = [nego EXCEPT ![s] = g2]
  BY DEF CreateOffer, LinkInv
<1>6. chain' = [chain EXCEPT ![s] = [chain[s] EXCEPT ![1] = t]]
  BY <1>2 DEF CreateOffer, LinkInv
<1>7. rtc' = [rtc EXCEPT ![s] = rtc[s]] /\ pending' = [pending EXCEPT ![s] = pending[s]]
  BY FunctionUpdates DEF CreateOffer
<1>8. {rtc[s].agreed, rtc[s].offered, rtc[s].heard} \subseteq Made \cup {None}
  BY <1>2 DEF NamesOK
<1>9. ~nego[s].answering /\ rtc[s].signaling # "have-remote-offer"
  BY <1>2 DEF LinkShape
<1>10. /\ Len(pending[s]) <= PendingLimit
       /\ rtc[s].offered # None <=> rtc[s].signaling = "have-local-offer"
       /\ rtc[s].heard # None => pending[s] = <<>>
  BY <1>2 DEF LinkShape
<1> HIDE DEF t, g2
<1> QED
  BY <1>2, <1>3, <1>4, <1>5, <1>6, <1>7, <1>8, <1>9, <1>10, StagedChange

LEMMA AbandonOfferLink ==
  ASSUME LinkInv, NEW s \in Sides, NEW i, AbandonOffer(s, i)
  PROVE  LinkChange(s, Made)
<1> DEFINE g2 == [nego[s] EXCEPT !.making = FALSE]
<1>1. Runs(s, i, "offer", "created") /\ Settle(s, i)
  BY DEF AbandonOffer
<1>2. /\ i = 1 /\ chain[s] # <<>>
      /\ LinkShape(rtc[s], chain[s], nego[s], pending[s]) /\ NamesOK(rtc[s], chain[s], Made)
      /\ rtc[s] \in Connection /\ nego[s] \in Negotiation /\ pending[s] \in Seq(Nat)
      /\ \A o, g : Head1(chain[s], o, g) <=> o = "offer" /\ g = "created"
  <2>1. i = 1 /\ Running(s, "offer", "created")
    BY <1>1, AtHead
  <2> QED
    BY <2>1 DEF Running
<1>3. g2 \in Negotiation /\ ~g2.making /\ g2.answering = nego[s].answering
  BY <1>2 DEF Negotiation
<1>4. nego' = [nego EXCEPT ![s] = g2]
  BY DEF AbandonOffer, LinkInv
<1>5. rtc' = [rtc EXCEPT ![s] = rtc[s]] /\ pending' = [pending EXCEPT ![s] = pending[s]]
  BY FunctionUpdates DEF AbandonOffer
<1>6. {rtc[s].agreed, rtc[s].offered, rtc[s].heard} \subseteq Made \cup {None}
  BY <1>2 DEF NamesOK
<1>7. ~nego[s].answering /\ rtc[s].signaling # "have-remote-offer"
  BY <1>2 DEF LinkShape
<1>8. /\ Len(pending[s]) <= PendingLimit
      /\ rtc[s].offered # None <=> rtc[s].signaling = "have-local-offer"
      /\ rtc[s].heard # None => pending[s] = <<>>
  BY <1>2 DEF LinkShape
<1> HIDE DEF g2
<1> QED
  BY <1>1, <1>2, <1>3, <1>4, <1>5, <1>6, <1>7, <1>8, SettledChange

LEMMA SendOfferLink ==
  ASSUME LinkInv, NEW s \in Sides, NEW i, SendOffer(s, i)
  PROVE  LinkChange(s, Made)
<1> DEFINE g2 == [nego[s] EXCEPT !.making = FALSE]
           r2 == [rtc[s] EXCEPT !.signaling = "have-local-offer", !.offered = chain[s][1].n]
<1>1. Runs(s, i, "offer", "created") /\ Settle(s, i) /\ rtc[s].signaling = "stable"
  BY DEF SendOffer
<1>2. /\ i = 1 /\ chain[s] # <<>> /\ 1 \in DOMAIN chain[s]
      /\ chain[s][1] \in Tasks /\ chain[s][1].op = "offer" /\ chain[s][1].stage = "created"
      /\ LinkShape(rtc[s], chain[s], nego[s], pending[s]) /\ NamesOK(rtc[s], chain[s], Made)
      /\ rtc[s] \in Connection /\ nego[s] \in Negotiation /\ pending[s] \in Seq(Nat)
      /\ \A o, g : Head1(chain[s], o, g) <=> o = "offer" /\ g = "created"
  <2>1. i = 1 /\ Running(s, "offer", "created")
    BY <1>1, AtHead
  <2> QED
    BY <2>1 DEF Running
<1>3. g2 \in Negotiation /\ ~g2.making /\ g2.answering = nego[s].answering
  BY <1>2 DEF Negotiation
<1>4. nego' = [nego EXCEPT ![s] = g2]
  BY DEF SendOffer, LinkInv
<1>5. /\ rtc' = [rtc EXCEPT ![s] = r2] /\ pending' = [pending EXCEPT ![s] = pending[s]]
  BY <1>2, FunctionUpdates DEF SendOffer, Update
<1>6. {rtc[s].agreed, rtc[s].offered, rtc[s].heard} \subseteq Made \cup {None} /\ chain[s][1].n \in Made
  BY <1>2 DEF NamesOK
<1>7. ~nego[s].answering
  BY <1>2 DEF LinkShape
<1>8. /\ Len(pending[s]) <= PendingLimit
      /\ rtc[s].heard # None => pending[s] = <<>>
  BY <1>2 DEF LinkShape
<1>9. /\ r2 \in Connection /\ r2.signaling = "have-local-offer" /\ r2.offered = chain[s][1].n
      /\ r2.heard = rtc[s].heard /\ r2.agreed = rtc[s].agreed
  <2>1. Made \subseteq Nat
    BY DEF Made, LinkInv
  <2> QED
    BY <1>2, <1>6, <2>1 DEF Connection, Signaling
<1>10. r2.offered # None
  BY <1>6, <1>9 DEF Made, None
<1> HIDE DEF g2, r2
<1> QED
  BY <1>1, <1>2, <1>3, <1>4, <1>5, <1>6, <1>7, <1>8, <1>9, <1>10, SettledChange

LEMMA IgnoreOfferLink ==
  ASSUME LinkInv, NEW s \in Sides, NEW i, IgnoreOffer(s, i)
  PROVE  LinkChange(s, Made)
<1> DEFINE g2 == [nego[s] EXCEPT !.ignore = TRUE]
<1>1. Runs(s, i, "call_offer", "start") /\ Settle(s, i)
  BY DEF IgnoreOffer
<1>2. /\ i = 1 /\ chain[s] # <<>>
      /\ LinkShape(rtc[s], chain[s], nego[s], pending[s]) /\ NamesOK(rtc[s], chain[s], Made)
      /\ rtc[s] \in Connection /\ nego[s] \in Negotiation /\ pending[s] \in Seq(Nat)
      /\ \A o, g : Head1(chain[s], o, g) <=> o = "call_offer" /\ g = "start"
  <2>1. i = 1 /\ Running(s, "call_offer", "start")
    BY <1>1, AtHead
  <2> QED
    BY <2>1 DEF Running
<1>3. g2 \in Negotiation /\ g2.making = nego[s].making /\ g2.answering = nego[s].answering
  BY <1>2 DEF Negotiation
<1>4. nego' = [nego EXCEPT ![s] = g2]
  BY DEF IgnoreOffer, LinkInv
<1>5. rtc' = [rtc EXCEPT ![s] = rtc[s]] /\ pending' = [pending EXCEPT ![s] = pending[s]]
  BY FunctionUpdates DEF IgnoreOffer
<1>6. {rtc[s].agreed, rtc[s].offered, rtc[s].heard} \subseteq Made \cup {None}
  BY <1>2 DEF NamesOK
<1>7. ~nego[s].answering /\ ~nego[s].making /\ rtc[s].signaling # "have-remote-offer"
  BY <1>2 DEF LinkShape
<1>8. /\ Len(pending[s]) <= PendingLimit
      /\ rtc[s].offered # None <=> rtc[s].signaling = "have-local-offer"
      /\ rtc[s].heard # None => pending[s] = <<>>
  BY <1>2 DEF LinkShape
<1> HIDE DEF g2
<1> QED
  BY <1>1, <1>2, <1>3, <1>4, <1>5, <1>6, <1>7, <1>8, SettledChange

\* A description that starts to be applied meets a connection that takes it:
\* nothing is refused.
LEMMA ApplyOfferGoes ==
  ASSUME LinkInv, NEW s \in Sides, NEW i, ApplyOffer(s, i)
  PROVE  /\ i = 1 /\ Running(s, "call_offer", "start")
         /\ Update(s, Offered(s, chain[s][1].n))
         /\ pending' = [pending EXCEPT ![s] = <<>>]
         /\ Stage(s, 1, "answering") /\ UNCHANGED refused
         /\ rtc[s].signaling = "stable" \/ (s = Polite /\ rtc[s].signaling = "have-local-offer")
<1>1. i = 1 /\ Running(s, "call_offer", "start")
  <2>1. Runs(s, i, "call_offer", "start")
    BY DEF ApplyOffer
  <2> QED
    BY <2>1, AtHead
<1>2. ~nego[s].making /\ ~nego[s].answering /\ rtc[s].signaling # "have-remote-offer"
  BY <1>1 DEF Running, LinkShape
<1>3. rtc[s].signaling \in {"stable", "have-local-offer", "have-remote-offer"}
  BY <1>1 DEF Running, Connection, Signaling
<1>4. ReadyForOffer(s) <=> rtc[s].signaling = "stable"
  BY <1>2 DEF ReadyForOffer
<1>5. ReadyForOffer(s) \/ IsPolite(s)
  BY DEF ApplyOffer
<1>6. (IsPolite(s) /\ ~ReadyForOffer(s)) <=> rtc[s].signaling = "have-local-offer"
  BY <1>2, <1>3, <1>4, <1>5
<1>7. /\ Update(s, Offered(s, chain[s][i].n)) /\ pending' = [pending EXCEPT ![s] = AfterDrain(s)]
      /\ Stage(s, i, "answering") /\ UNCHANGED refused
  BY <1>6 DEF ApplyOffer
<1>8. rtc[s].signaling = "stable" \/ (s = Polite /\ rtc[s].signaling = "have-local-offer")
  BY <1>4, <1>5, <1>6 DEF IsPolite
<1> QED
  BY <1>1, <1>7, <1>8 DEF AfterDrain

LEMMA AnswerGoes ==
  ASSUME LinkInv, NEW s \in Sides, NEW i, Answer(s, i)
  PROVE  /\ i = 1 /\ Running(s, "call_offer", "answering")
         /\ rtc[s].signaling = "have-remote-offer"
         /\ Update(s, [rtc[s] EXCEPT !.signaling = "stable", !.agreed = rtc[s].heard])
         /\ Send(s, "call_answer", rtc[s].heard)
         /\ Settle(s, 1) /\ UNCHANGED refused
<1>1. i = 1 /\ Running(s, "call_offer", "answering")
  <2>1. Runs(s, i, "call_offer", "answering")
    BY DEF Answer
  <2> QED
    BY <2>1, AtHead
<1>2. rtc[s].signaling = "have-remote-offer"
  BY <1>1 DEF Running, LinkShape
<1> QED
  BY <1>1, <1>2 DEF Answer

LEMMA ApplyAnswerGoes ==
  ASSUME LinkInv, NEW s \in Sides, NEW i, ApplyAnswer(s, i)
  PROVE  /\ i = 1 /\ Running(s, "call_answer", "applying")
         /\ rtc[s].signaling = "have-local-offer"
         /\ Update(s, [rtc[s] EXCEPT !.signaling = "stable", !.agreed = rtc[s].offered,
                       !.offered = None, !.heard = chain[s][1].n,
                       !.paths = DrainedInto(s, chain[s][1].n)])
         /\ pending' = [pending EXCEPT ![s] = <<>>]
         /\ Settle(s, 1) /\ UNCHANGED refused
<1>1. i = 1 /\ Running(s, "call_answer", "applying")
  <2>1. Runs(s, i, "call_answer", "applying")
    BY DEF ApplyAnswer
  <2> QED
    BY <2>1, AtHead
<1>2. nego[s].answering /\ rtc[s].signaling = "have-local-offer"
  BY <1>1 DEF Running, LinkShape
<1> QED
  BY <1>1, <1>2 DEF ApplyAnswer, AfterDrain

\* The candidates of a description in force are names of offers.
LEMMA DrainedType ==
  ASSUME LinkInv, NEW s \in Sides, NEW n
  PROVE  DrainedInto(s, n) \in SUBSET Nat
<1>1. pending[s] \in Seq(Nat)
  BY DEF LinkInv
<1>2. DOMAIN pending[s] = 1 .. Len(pending[s])
  BY <1>1, LenProperties
<1>3. \A i \in DOMAIN pending[s] : pending[s][i] \in Nat
  BY <1>1, <1>2, ElementOfSeq
<1>4. ToSet(pending[s]) \subseteq Nat
  BY <1>3 DEF ToSet
<1> QED
  BY <1>4 DEF DrainedInto, Usable

LEMMA ApplyOfferLink ==
  ASSUME LinkInv, NEW s \in Sides, NEW i, ApplyOffer(s, i)
  PROVE  LinkChange(s, Made)
<1> DEFINE n == chain[s][1].n
           t == [chain[s][1] EXCEPT !.stage = "answering"]
           r2 == Offered(s, n)
<1>1. /\ Running(s, "call_offer", "start") /\ Update(s, r2)
      /\ pending' = [pending EXCEPT ![s] = <<>>] /\ Stage(s, 1, "answering")
  BY ApplyOfferGoes
<1>2. /\ chain[s] # <<>> /\ chain[s][1] \in Tasks /\ 1 \in DOMAIN chain[s]
      /\ chain[s][1].op = "call_offer" /\ chain[s][1].stage = "start"
      /\ LinkShape(rtc[s], chain[s], nego[s], pending[s]) /\ NamesOK(rtc[s], chain[s], Made)
      /\ rtc[s] \in Connection /\ nego[s] \in Negotiation
      /\ \A o, g : Head1(chain[s], o, g) <=> o = "call_offer" /\ g = "start"
  BY <1>1 DEF Running
<1>3. t \in Tasks /\ t.op = "call_offer" /\ t.stage = "answering" /\ t.n = chain[s][1].n
  <2>1. chain[s][1] \in [op : {"call_offer"}, stage : {"start", "answering"}, n : Nat]
    BY <1>2 DEF Tasks
  <2>2. /\ t \in [op : {"call_offer"}, stage : {"start", "answering"}, n : Nat]
        /\ t.op = "call_offer" /\ t.stage = "answering" /\ t.n = chain[s][1].n
    BY <2>1
  <2> QED
    BY <2>2 DEF Tasks
<1>4. chain' = [chain EXCEPT ![s] = [chain[s] EXCEPT ![1] = t]]
  BY <1>1 DEF Stage, LinkInv
<1>5. n \in Made /\ {rtc[s].agreed, rtc[s].offered, rtc[s].heard} \subseteq Made \cup {None}
  BY <1>2 DEF NamesOK
<1>6. n \in Nat /\ n # None /\ None \in Nat
  BY <1>5 DEF Made, LinkInv, None
<1>7. DrainedInto(s, n) \in SUBSET Nat
  BY DrainedType
<1>8. /\ r2 \in Connection /\ r2.signaling = "have-remote-offer" /\ r2.offered = None
      /\ r2.heard = n /\ r2.agreed = rtc[s].agreed
  <2> HIDE DEF n
  <2> QED
    BY <1>2, <1>6, <1>7 DEF Connection, Signaling, Offered
<1>9. PICK g2 : g2 \in Negotiation /\ g2.making = nego[s].making /\ g2.answering = nego[s].answering
                /\ nego' = [nego EXCEPT ![s] = g2]
  <2> DEFINE m == IF IsPolite(s) /\ ~ReadyForOffer(s) THEN nego[s].generation + 1 ELSE nego[s].generation
             g1 == [nego[s] EXCEPT !.ignore = FALSE]
             g3 == [g1 EXCEPT !.generation = m]
  <2>1. m \in Nat
    BY <1>2 DEF Negotiation
  <2>2. g1 \in Negotiation /\ g1.making = nego[s].making /\ g1.answering = nego[s].answering
    BY <1>2, NegotiationFields DEF Negotiation
  <2>3. g3 \in Negotiation /\ g3.making = g1.making /\ g3.answering = g1.answering
    <3> HIDE DEF g1, m
    <3> QED
      BY <2>1, <2>2, NegotiationFields DEF Negotiation
  <2>4. nego' = [nego EXCEPT ![s] = g3]
    BY <1>2 DEF ApplyOffer, LinkInv, Negotiation
  <2> QED
    BY <2>2, <2>3, <2>4
<1>10. ~nego[s].making /\ ~nego[s].answering
  BY <1>2 DEF LinkShape
<1>11. <<>> \in Seq(Nat) /\ Len(<<>>) = 0 /\ PendingLimit \in Nat
  BY EmptySeq, LinkAssumption
<1>12. rtc' = [rtc EXCEPT ![s] = r2]
  BY <1>1 DEF Update
<1> HIDE DEF t, r2, n
<1>13. /\ chain[s] # <<>> /\ t \in Tasks /\ t.op # "ice_candidate" /\ t.n = chain[s][1].n
       /\ chain[s][1].op = t.op /\ chain' = [chain EXCEPT ![s] = [chain[s] EXCEPT ![1] = t]]
  BY <1>2, <1>3, <1>4
<1>14. /\ r2 \in Connection /\ g2 \in Negotiation /\ <<>> \in Seq(Nat) /\ Len(<<>>) <= PendingLimit
       /\ {r2.agreed, r2.offered, r2.heard} \subseteq Made \cup {None}
  BY <1>5, <1>8, <1>9, <1>11
<1>15. /\ r2.offered # None <=> r2.signaling = "have-local-offer"
       /\ r2.signaling = "have-remote-offer" => r2.heard # None
       /\ g2.making <=> t.op = "offer" /\ t.stage = "created"
       /\ g2.answering <=> t.op = "call_answer" /\ t.stage = "applying"
       /\ g2.answering => r2.signaling = "have-local-offer"
       /\ r2.signaling = "have-remote-offer" <=> t.op = "call_offer" /\ t.stage = "answering"
  BY <1>3, <1>6, <1>8, <1>9, <1>10
<1>16. /\ rtc' = [rtc EXCEPT ![s] = r2] /\ nego' = [nego EXCEPT ![s] = g2]
       /\ pending' = [pending EXCEPT ![s] = <<>>]
  BY <1>1, <1>9, <1>12
<1> QED
  BY ONLY LinkInv, s \in Sides, <1>13, <1>14, <1>15, <1>16, StagedChange

\* An answer was made: the task that made it has settled.
LEMMA AnswerLink ==
  ASSUME LinkInv, NEW s \in Sides, NEW i, Answer(s, i)
  PROVE  LinkChange(s, Made)
<1> DEFINE r2 == [rtc[s] EXCEPT !.signaling = "stable", !.agreed = rtc[s].heard]
<1>1. Running(s, "call_offer", "answering") /\ Update(s, r2) /\ Settle(s, 1)
      /\ rtc[s].signaling = "have-remote-offer"
  BY AnswerGoes
<1>2. /\ chain[s] # <<>>
      /\ LinkShape(rtc[s], chain[s], nego[s], pending[s]) /\ NamesOK(rtc[s], chain[s], Made)
      /\ rtc[s] \in Connection /\ nego[s] \in Negotiation /\ pending[s] \in Seq(Nat)
      /\ \A o, g : Head1(chain[s], o, g) <=> o = "call_offer" /\ g = "answering"
  BY <1>1 DEF Running
<1>3. /\ nego' = [nego EXCEPT ![s] = nego[s]] /\ pending' = [pending EXCEPT ![s] = pending[s]]
  BY FunctionUpdates DEF Answer
<1>4. /\ r2 \in Connection /\ r2.signaling = "stable" /\ r2.offered = rtc[s].offered
      /\ r2.heard = rtc[s].heard /\ r2.agreed = rtc[s].heard
  BY <1>2 DEF Connection, Signaling
<1>5. {r2.agreed, r2.offered, r2.heard} \subseteq Made \cup {None}
  BY <1>2, <1>4 DEF NamesOK
<1>6. ~nego[s].answering /\ ~nego[s].making
  BY <1>2 DEF LinkShape
<1>7. /\ Len(pending[s]) <= PendingLimit
      /\ rtc[s].heard # None => pending[s] = <<>>
      /\ rtc[s].offered = None
  BY <1>1, <1>2 DEF LinkShape
<1>8. rtc' = [rtc EXCEPT ![s] = r2]
  BY <1>1 DEF Update
<1> HIDE DEF r2
<1>9. /\ r2.signaling # "have-remote-offer" /\ (r2.offered # None <=> r2.signaling = "have-local-offer")
      /\ r2.heard # None => pending[s] = <<>>
  BY <1>4, <1>7
<1> QED
  BY <1>1, <1>2, <1>3, <1>4, <1>5, <1>6, <1>7, <1>8, <1>9, SettledChange

LEMMA IgnoreAnswerLink ==
  ASSUME LinkInv, NEW s \in Sides, NEW i, IgnoreAnswer(s, i)
  PROVE  LinkChange(s, Made)
<1>1. Runs(s, i, "call_answer", "start") /\ Settle(s, i)
  BY DEF IgnoreAnswer
<1>2. /\ i = 1 /\ chain[s] # <<>>
      /\ LinkShape(rtc[s], chain[s], nego[s], pending[s]) /\ NamesOK(rtc[s], chain[s], Made)
      /\ rtc[s] \in Connection /\ nego[s] \in Negotiation /\ pending[s] \in Seq(Nat)
      /\ \A o, g : Head1(chain[s], o, g) <=> o = "call_answer" /\ g = "start"
  <2>1. i = 1 /\ Running(s, "call_answer", "start")
    BY <1>1, AtHead
  <2> QED
    BY <2>1 DEF Running
<1>3. /\ rtc' = [rtc EXCEPT ![s] = rtc[s]] /\ nego' = [nego EXCEPT ![s] = nego[s]]
      /\ pending' = [pending EXCEPT ![s] = pending[s]]
  BY FunctionUpdates DEF IgnoreAnswer
<1>4. {rtc[s].agreed, rtc[s].offered, rtc[s].heard} \subseteq Made \cup {None}
  BY <1>2 DEF NamesOK
<1>5. ~nego[s].answering /\ ~nego[s].making /\ rtc[s].signaling # "have-remote-offer"
  BY <1>2 DEF LinkShape
<1>6. /\ Len(pending[s]) <= PendingLimit
      /\ rtc[s].offered # None <=> rtc[s].signaling = "have-local-offer"
      /\ rtc[s].heard # None => pending[s] = <<>>
  BY <1>2 DEF LinkShape
<1> QED
  BY <1>1, <1>2, <1>3, <1>4, <1>5, <1>6, SettledChange

LEMMA BeginAnswerLink ==
  ASSUME LinkInv, NEW s \in Sides, NEW i, BeginAnswer(s, i)
  PROVE  LinkChange(s, Made)
<1> DEFINE t == [chain[s][1] EXCEPT !.stage = "applying"]
           g2 == [nego[s] EXCEPT !.answering = TRUE]
<1>1. Runs(s, i, "call_answer", "start") /\ rtc[s].signaling = "have-local-offer"
  BY DEF BeginAnswer
<1>2. /\ i = 1 /\ chain[s] # <<>> /\ chain[s][1] \in Tasks
      /\ chain[s][1].op = "call_answer" /\ chain[s][1].stage = "start"
      /\ LinkShape(rtc[s], chain[s], nego[s], pending[s]) /\ NamesOK(rtc[s], chain[s], Made)
      /\ rtc[s] \in Connection /\ nego[s] \in Negotiation /\ pending[s] \in Seq(Nat)
      /\ \A o, g : Head1(chain[s], o, g) <=> o = "call_answer" /\ g = "start"
  <2>1. i = 1 /\ Running(s, "call_answer", "start")
    BY <1>1, AtHead
  <2> QED
    BY <2>1 DEF Running
<1>3. t \in Tasks /\ t.op = "call_answer" /\ t.stage = "applying" /\ t.n = chain[s][1].n
  <2>1. chain[s][1] \in [op : {"call_answer"}, stage : {"start", "applying"}, n : Nat]
    BY <1>2 DEF Tasks
  <2>2. /\ t \in [op : {"call_answer"}, stage : {"start", "applying"}, n : Nat]
        /\ t.op = "call_answer" /\ t.stage = "applying" /\ t.n = chain[s][1].n
    BY <2>1
  <2> QED
    BY <2>2 DEF Tasks
<1>4. g2 \in Negotiation /\ g2.making = nego[s].making /\ g2.answering
  BY <1>2 DEF Negotiation
<1>5. nego' = [nego EXCEPT ![s] = g2]
  BY DEF BeginAnswer
<1>6. chain' = [chain EXCEPT ![s] = [chain[s] EXCEPT ![1] = t]]
  BY <1>2 DEF BeginAnswer, Stage, LinkInv
<1>7. rtc' = [rtc EXCEPT ![s] = rtc[s]] /\ pending' = [pending EXCEPT ![s] = pending[s]]
  BY FunctionUpdates DEF BeginAnswer
<1>8. {rtc[s].agreed, rtc[s].offered, rtc[s].heard} \subseteq Made \cup {None}
  BY <1>2 DEF NamesOK
<1>9. ~nego[s].making /\ rtc[s].signaling # "have-remote-offer"
  BY <1>2 DEF LinkShape
<1>10. /\ Len(pending[s]) <= PendingLimit
       /\ rtc[s].offered # None <=> rtc[s].signaling = "have-local-offer"
       /\ rtc[s].heard # None => pending[s] = <<>>
  BY <1>2 DEF LinkShape
<1> HIDE DEF t, g2
<1>11. t.op # "ice_candidate" /\ chain[s][1].op = t.op
  BY <1>2, <1>3
<1>12. /\ g2.making <=> t.op = "offer" /\ t.stage = "created"
       /\ g2.answering <=> t.op = "call_answer" /\ t.stage = "applying"
       /\ g2.answering => rtc[s].signaling = "have-local-offer"
       /\ rtc[s].signaling = "have-remote-offer" <=> t.op = "call_offer" /\ t.stage = "answering"
       /\ rtc[s].signaling = "have-remote-offer" => rtc[s].heard # None
  BY <1>1, <1>3, <1>4, <1>9
<1> QED
  BY ONLY LinkInv, s \in Sides, <1>2, <1>3, <1>4, <1>5, <1>6, <1>7, <1>8, <1>10, <1>11, <1>12, StagedChange

LEMMA ApplyAnswerLink ==
  ASSUME LinkInv, NEW s \in Sides, NEW i, ApplyAnswer(s, i)
  PROVE  LinkChange(s, Made)
<1> DEFINE n == chain[s][1].n
           g2 == [nego[s] EXCEPT !.answering = FALSE]
           r2 == [rtc[s] EXCEPT !.signaling = "stable", !.agreed = rtc[s].offered,
                       !.offered = None, !.heard = n, !.paths = DrainedInto(s, n)]
<1>1. /\ Running(s, "call_answer", "applying") /\ Update(s, r2) /\ Settle(s, 1)
      /\ pending' = [pending EXCEPT ![s] = <<>>]
  BY ApplyAnswerGoes
<1>2. /\ chain[s] # <<>> /\ 1 \in DOMAIN chain[s] /\ chain[s][1].op = "call_answer"
      /\ LinkShape(rtc[s], chain[s], nego[s], pending[s]) /\ NamesOK(rtc[s], chain[s], Made)
      /\ rtc[s] \in Connection /\ nego[s] \in Negotiation
      /\ \A o, g : Head1(chain[s], o, g) <=> o = "call_answer" /\ g = "applying"
  BY <1>1 DEF Running
<1>3. g2 \in Negotiation /\ g2.making = nego[s].making /\ ~g2.answering
  BY <1>2 DEF Negotiation
<1>4. nego' = [nego EXCEPT ![s] = g2]
  BY DEF ApplyAnswer
<1>5. n \in Made /\ {rtc[s].agreed, rtc[s].offered, rtc[s].heard} \subseteq Made \cup {None}
  BY <1>2 DEF NamesOK
<1>6. n \in Nat /\ None \in Nat
  BY <1>5 DEF Made, LinkInv, None
<1>7. DrainedInto(s, n) \in SUBSET Nat
  BY DrainedType
<1>8. /\ r2 \in Connection /\ r2.signaling = "stable" /\ r2.offered = None
      /\ r2.heard = n /\ r2.agreed = rtc[s].offered
  <2> HIDE DEF n
  <2> QED
    BY <1>2, <1>6, <1>7 DEF Connection, Signaling
<1>9. ~nego[s].making
  BY <1>2 DEF LinkShape
<1>10. <<>> \in Seq(Nat) /\ Len(<<>>) <= PendingLimit
  BY EmptySeq, LinkAssumption
<1>11. rtc' = [rtc EXCEPT ![s] = r2]
  BY <1>1 DEF Update
<1> HIDE DEF r2, n, g2
<1>12. /\ r2.signaling # "have-remote-offer" /\ (r2.offered # None <=> r2.signaling = "have-local-offer")
       /\ {r2.agreed, r2.offered, r2.heard} \subseteq Made \cup {None} /\ ~g2.making
  BY <1>3, <1>5, <1>8, <1>9
<1> QED
  BY ONLY LinkInv, s \in Sides, <1>1, <1>2, <1>3, <1>4, <1>8, <1>10, <1>11, <1>12, SettledChange

\* A candidate is held while there is no remote description, the oldest making room.
LEMMA HoldCandidateLink ==
  ASSUME LinkInv, NEW s \in Sides, NEW i, HoldCandidate(s, i)
  PROVE  LinkChange(s, Made)
<1> DEFINE h2 == Hold(s, chain[s][1].c)
<1>1. Runs(s, i, "ice_candidate", "start") /\ Settle(s, i) /\ rtc[s].heard = None
  BY DEF HoldCandidate
<1>2. /\ i = 1 /\ chain[s] # <<>> /\ 1 \in DOMAIN chain[s] /\ chain[s][1].op = "ice_candidate"
      /\ LinkShape(rtc[s], chain[s], nego[s], pending[s]) /\ NamesOK(rtc[s], chain[s], Made)
      /\ rtc[s] \in Connection /\ nego[s] \in Negotiation /\ pending[s] \in Seq(Nat)
      /\ \A o, g : Head1(chain[s], o, g) <=> o = "ice_candidate" /\ g = "start"
  <2>1. i = 1 /\ Running(s, "ice_candidate", "start")
    BY <1>1, AtHead
  <2> QED
    BY <2>1 DEF Running
<1>3. chain[s][1].c \in Nat
  BY <1>2 DEF NamesOK, Made, LinkInv
<1>4. h2 \in Seq(Nat) /\ Len(h2) <= PendingLimit
  <2>0. PendingLimit \in Nat \ {0} /\ Len(pending[s]) \in Nat /\ Len(pending[s]) <= PendingLimit
    BY <1>2, LinkAssumption, LenProperties DEF LinkShape
  <2>1. CASE Len(pending[s]) >= PendingLimit
    <3>1. pending[s] # <<>>
      BY <2>0, <2>1, EmptySeq
    <3>2. Tail(pending[s]) \in Seq(Nat) /\ Len(Tail(pending[s])) = Len(pending[s]) - 1
      BY <1>2, <3>1, HeadTailProperties
    <3>3. h2 = Append(Tail(pending[s]), chain[s][1].c)
      BY <2>1 DEF Hold
    <3> QED
      BY <1>3, <2>0, <3>2, <3>3, AppendProperties
  <2>2. CASE ~(Len(pending[s]) >= PendingLimit)
    <3>1. h2 = Append(pending[s], chain[s][1].c)
      BY <2>2 DEF Hold
    <3> QED
      BY <1>2, <1>3, <2>0, <2>2, <3>1, AppendProperties
  <2> QED
    BY <2>1, <2>2
<1>5. /\ rtc' = [rtc EXCEPT ![s] = rtc[s]] /\ nego' = [nego EXCEPT ![s] = nego[s]]
      /\ pending' = [pending EXCEPT ![s] = h2]
  BY <1>2, FunctionUpdates DEF HoldCandidate
<1>6. {rtc[s].agreed, rtc[s].offered, rtc[s].heard} \subseteq Made \cup {None}
  BY <1>2 DEF NamesOK
<1>7. ~nego[s].answering /\ ~nego[s].making /\ rtc[s].signaling # "have-remote-offer"
  BY <1>2 DEF LinkShape
<1>8. /\ rtc[s].offered # None <=> rtc[s].signaling = "have-local-offer"
      /\ rtc[s].heard # None => h2 = <<>>
  BY <1>1, <1>2 DEF LinkShape
<1> HIDE DEF h2
<1> QED
  BY ONLY LinkInv, s \in Sides, <1>1, <1>2, <1>4, <1>5, <1>6, <1>7, <1>8, SettledChange

LEMMA AddCandidateLink ==
  ASSUME LinkInv, NEW s \in Sides, NEW i, AddCandidate(s, i)
  PROVE  LinkChange(s, Made)
<1> DEFINE P == rtc[s].paths \cup Usable(rtc[s].heard, {chain[s][1].c})
           r2 == [rtc[s] EXCEPT !.paths = P]
<1>1. Runs(s, i, "ice_candidate", "start") /\ Settle(s, i)
  BY DEF AddCandidate
<1>2. /\ i = 1 /\ chain[s] # <<>> /\ 1 \in DOMAIN chain[s] /\ chain[s][1].op = "ice_candidate"
      /\ LinkShape(rtc[s], chain[s], nego[s], pending[s]) /\ NamesOK(rtc[s], chain[s], Made)
      /\ rtc[s] \in Connection /\ nego[s] \in Negotiation /\ pending[s] \in Seq(Nat)
      /\ \A o, g : Head1(chain[s], o, g) <=> o = "ice_candidate" /\ g = "start"
  <2>1. i = 1 /\ Running(s, "ice_candidate", "start")
    BY <1>1, AtHead
  <2> QED
    BY <2>1 DEF Running
<1>3. P \in SUBSET Nat
  <2>1. chain[s][1].c \in Nat
    BY <1>2 DEF NamesOK, Made, LinkInv
  <2> QED
    BY <1>2, <2>1 DEF Usable, Connection
<1>4. rtc' = [rtc EXCEPT ![s] = r2]
  BY <1>2 DEF AddCandidate, Update, LinkInv, Connection
<1> HIDE DEF P
<1>5. /\ r2 \in Connection /\ r2.signaling = rtc[s].signaling /\ r2.offered = rtc[s].offered
      /\ r2.heard = rtc[s].heard /\ r2.agreed = rtc[s].agreed
  BY <1>2, <1>3 DEF Connection
<1>6. nego' = [nego EXCEPT ![s] = nego[s]] /\ pending' = [pending EXCEPT ![s] = pending[s]]
  BY FunctionUpdates DEF AddCandidate
<1> HIDE DEF r2
<1>7. {r2.agreed, r2.offered, r2.heard} \subseteq Made \cup {None}
  BY <1>2, <1>5 DEF NamesOK
<1>8. ~nego[s].answering /\ ~nego[s].making /\ r2.signaling # "have-remote-offer"
  BY <1>2, <1>5 DEF LinkShape
<1>9. /\ Len(pending[s]) <= PendingLimit
      /\ r2.offered # None <=> r2.signaling = "have-local-offer"
      /\ r2.heard # None => pending[s] = <<>>
  BY <1>2, <1>5 DEF LinkShape
<1> QED
  BY ONLY LinkInv, s \in Sides, <1>1, <1>2, <1>4, <1>5, <1>6, <1>7, <1>8, <1>9, SettledChange

\* A candidate was gathered: the description of the connection stays.
LEMMA GatheredLink ==
  ASSUME LinkInv, NEW s \in Sides, Update(s, [rtc[s] EXCEPT !.gathered = @ + 1]),
         UNCHANGED <<chain, nego, pending>>
  PROVE  LinkChange(s, Made)
<1> DEFINE r2 == [rtc[s] EXCEPT !.gathered = @ + 1]
<1>1. /\ LinkShape(rtc[s], chain[s], nego[s], pending[s]) /\ NamesOK(rtc[s], chain[s], Made)
      /\ rtc[s] \in Connection
  BY DEF LinkInv
<1>2. /\ r2 \in Connection /\ r2.signaling = rtc[s].signaling /\ r2.offered = rtc[s].offered
      /\ r2.heard = rtc[s].heard /\ r2.agreed = rtc[s].agreed
  BY <1>1 DEF Connection
<1>3. /\ rtc' = [rtc EXCEPT ![s] = r2] /\ chain' = [chain EXCEPT ![s] = chain[s]]
      /\ nego' = [nego EXCEPT ![s] = nego[s]] /\ pending' = [pending EXCEPT ![s] = pending[s]]
  BY FunctionUpdates DEF Update
<1> HIDE DEF r2
<1>4. LinkShape(r2, chain[s], nego[s], pending[s])
  BY <1>1, <1>2 DEF LinkShape
<1>5. NamesOK(r2, chain[s], Made)
  BY <1>1, <1>2 DEF NamesOK
<1> QED
  BY <1>3, <1>4, <1>5 DEF LinkChange

\* Another task waits behind the ones there are.
LEMMA QueuedChange ==
  ASSUME LinkInv, NEW s \in Sides, NEW N, Made \subseteq N, NEW t \in Tasks, t.stage = "start",
         IF t.op = "ice_candidate" THEN t.c \in N ELSE t.n \in N,
         chain' = [chain EXCEPT ![s] = Append(chain[s], t)],
         NEW g2 \in Negotiation, g2.making = nego[s].making, g2.answering = nego[s].answering,
         nego' = [nego EXCEPT ![s] = g2], UNCHANGED <<rtc, pending>>
  PROVE  LinkChange(s, N)
<1> DEFINE c == chain[s]
           d == Append(c, t)
<1>1. /\ LinkShape(rtc[s], c, nego[s], pending[s]) /\ NamesOK(rtc[s], c, Made) /\ c \in Seq(Tasks)
  BY DEF LinkInv
<1>2. /\ d \in Seq(Tasks) /\ Len(c) \in Nat /\ DOMAIN c = 1 .. Len(c) /\ DOMAIN d = 1 .. Len(c) + 1
      /\ (\A i \in 1 .. Len(c) : d[i] = c[i]) /\ d[Len(c) + 1] = t
  BY <1>1, Queued
<1>3. \A i \in DOMAIN d : i \in DOMAIN c \/ i = Len(c) + 1
  BY <1>2
<1>4. \A i \in DOMAIN d : i > 1 => d[i].stage = "start"
  BY <1>1, <1>2, <1>3 DEF LinkShape
<1>5. NamesOK(rtc[s], d, N)
  <2>1. \A i \in DOMAIN d : IF d[i].op = "ice_candidate" THEN d[i].c \in N ELSE d[i].n \in N
    <3> SUFFICES ASSUME NEW i \in DOMAIN d
                 PROVE  IF d[i].op = "ice_candidate" THEN d[i].c \in N ELSE d[i].n \in N
      OBVIOUS
    <3>1. CASE i = Len(c) + 1
      BY <1>2, <3>1
    <3>2. CASE i \in DOMAIN c
      <4>1. d[i] = c[i]
        BY <1>2, <3>2
      <4>2. IF c[i].op = "ice_candidate" THEN c[i].c \in Made ELSE c[i].n \in Made
        BY <1>1, <3>2 DEF NamesOK
      <4> QED
        BY <4>1, <4>2
    <3> QED
      BY <1>3, <3>1, <3>2
  <2> QED
    BY <1>1, <2>1 DEF NamesOK
<1>6. \A o, g : g # "start" => (Head1(d, o, g) <=> Head1(c, o, g))
  <2>1. CASE c = <<>>
    <3>1. Len(c) = 0
      BY <2>1
    <3>2. d[1] = t
      BY <1>2, <3>1
    <3> QED
      BY <2>1, <3>2 DEF Head1
  <2>2. CASE c # <<>>
    <3>1. 1 \in 1 .. Len(c)
      BY <1>1, <1>2, <2>2, EmptySeq
    <3>2. d[1] = c[1]
      BY <1>2, <3>1
    <3>3. 1 \in DOMAIN d /\ DOMAIN <<>> = {}
      BY <1>2, EmptySeq
    <3>4. d # <<>>
      <4> HIDE DEF d
      <4> QED
        BY <3>3
    <3> QED
      BY <2>2, <3>2, <3>4 DEF Head1
  <2> QED
    BY <2>1, <2>2
<1> HIDE DEF d
<1>7. Head1(d, "offer", "created") <=> Head1(c, "offer", "created")
  BY <1>6
<1>8. Head1(d, "call_answer", "applying") <=> Head1(c, "call_answer", "applying")
  BY <1>6
<1>9. Head1(d, "call_offer", "answering") <=> Head1(c, "call_offer", "answering")
  BY <1>6
<1>10. LinkShape(rtc[s], d, g2, pending[s])
  BY <1>1, <1>2, <1>4, <1>7, <1>8, <1>9 DEF LinkShape
<1>11. rtc' = [rtc EXCEPT ![s] = rtc[s]] /\ pending' = [pending EXCEPT ![s] = pending[s]]
  BY FunctionUpdates
<1>12. chain' = [chain EXCEPT ![s] = d]
  BY DEF d
<1> QED
  BY <1>5, <1>10, <1>11, <1>12 DEF LinkChange

\* The candidates held are forgotten.
LEMMA ForgottenChange ==
  ASSUME LinkInv, NEW s \in Sides, pending' = [pending EXCEPT ![s] = <<>>],
         UNCHANGED <<rtc, chain, nego>>
  PROVE  LinkChange(s, Made)
<1>1. LinkShape(rtc[s], chain[s], nego[s], pending[s]) /\ NamesOK(rtc[s], chain[s], Made)
  BY DEF LinkInv
<1>2. <<>> \in Seq(Nat) /\ Len(<<>>) <= PendingLimit
  BY EmptySeq, LinkAssumption
<1>3. LinkShape(rtc[s], chain[s], nego[s], <<>>)
  BY <1>1, <1>2 DEF LinkShape
<1>4. /\ rtc' = [rtc EXCEPT ![s] = rtc[s]] /\ chain' = [chain EXCEPT ![s] = chain[s]]
      /\ nego' = [nego EXCEPT ![s] = nego[s]]
  BY FunctionUpdates
<1> QED
  BY <1>1, <1>3, <1>4 DEF LinkChange

LEMMA NewLink ==
  ASSUME NEW N
  PROVE  /\ LinkShape(NewConnection, <<>>, NewNegotiation, <<>>) /\ NamesOK(NewConnection, <<>>, N)
         /\ NewConnection \in Connection /\ NewNegotiation \in Negotiation
         /\ <<>> \in Seq(Tasks) /\ <<>> \in Seq(Nat)
<1>1. /\ <<>> \in Seq(Tasks) /\ <<>> \in Seq(Nat) /\ Len(<<>>) <= PendingLimit /\ DOMAIN <<>> = {}
  BY EmptySeq, LinkAssumption
<1>2. NewConnection \in Connection
  BY DEF NewConnection, Connection, Signaling, None
<1>3. NewNegotiation \in Negotiation
  BY DEF NewNegotiation, Negotiation
<1>4. \A o, g : ~Head1(<<>>, o, g)
  BY DEF Head1
<1>5. /\ NewConnection.signaling = "stable" /\ NewConnection.offered = None /\ NewConnection.heard = None
      /\ NewConnection.agreed = None
  BY DEF NewConnection
<1>6. ~NewNegotiation.making /\ ~NewNegotiation.answering
  BY DEF NewNegotiation
<1>7. LinkShape(NewConnection, <<>>, NewNegotiation, <<>>)
  BY <1>1, <1>2, <1>3, <1>4, <1>5, <1>6 DEF LinkShape
<1>8. NamesOK(NewConnection, <<>>, N)
  BY <1>1, <1>5 DEF NamesOK
<1> QED
  BY <1>1, <1>2, <1>3, <1>7, <1>8

\* A call that ends closes its connection.
LEMMA ClosedLink ==
  ASSUME NEW s \in Sides, CloseLink(s), NEW N
  PROVE  LinkChange(s, N)
  BY NewLink DEF CloseLink, LinkChange


-----------------------------------------------------------------------------
(* The path                                                                *)

PathStep ==
  /\ wire' = [s \in Sides |-> wire'[s]]
  /\ \A s \in Sides : \A e \in wire'[s] : e \in wire[s] \/ GoodSignal(e)
  /\ sequence' \in [Sides -> Nat] /\ sent' \in [Sides -> Nat] /\ open' \in [Sides -> BOOLEAN]
  /\ ledger' = [s \in Sides |-> ledger'[s]]

LinksStep == UNCHANGED <<rtc, chain, nego, pending>> \/ \E s \in Sides : LinkChange(s, 1 .. made')

\* A step on one link and on the path keeps the invariant of the links.
LEMMA Assembled ==
  ASSUME LinkInv, LinksStep, PathStep, UNCHANGED <<mode, refused>>,
         made' \in 0 .. MaxOffers, made <= made', faults' \in 0 .. MaxFaults
  PROVE  LinkInv'
<1> DEFINE N == 1 .. made'
<1>1. Made \subseteq N
  BY DEF Made, LinkInv
<1>2. \A s \in Sides : NamesOK(rtc[s], chain[s], N)
  <2> SUFFICES ASSUME NEW s \in Sides PROVE NamesOK(rtc[s], chain[s], N)
    OBVIOUS
  <2>1. NamesOK(rtc[s], chain[s], Made)
    BY DEF LinkInv
  <2> HIDE DEF N
  <2> QED
    BY <1>1, <2>1 DEF NamesOK
<1>3. /\ rtc' \in [Sides -> Connection] /\ chain' \in [Sides -> Seq(Tasks)]
      /\ nego' \in [Sides -> Negotiation] /\ pending' \in [Sides -> Seq(Nat)]
      /\ \A s \in Sides : LinkShape(rtc'[s], chain'[s], nego'[s], pending'[s]) /\ NamesOK(rtc'[s], chain'[s], N)
  <2>0. /\ rtc \in [Sides -> Connection] /\ chain \in [Sides -> Seq(Tasks)]
        /\ nego \in [Sides -> Negotiation] /\ pending \in [Sides -> Seq(Nat)]
        /\ \A s \in Sides : LinkShape(rtc[s], chain[s], nego[s], pending[s])
    BY DEF LinkInv
  <2>1. CASE UNCHANGED <<rtc, chain, nego, pending>>
    BY <1>2, <2>0, <2>1
  <2>2. CASE \E s \in Sides : LinkChange(s, N)
    <3>1. PICK s \in Sides : LinkChange(s, N)
      BY <2>2
    <3>2. PICK r, c, g, h :
            /\ rtc' = [rtc EXCEPT ![s] = r] /\ chain' = [chain EXCEPT ![s] = c]
            /\ nego' = [nego EXCEPT ![s] = g] /\ pending' = [pending EXCEPT ![s] = h]
            /\ LinkShape(r, c, g, h) /\ NamesOK(r, c, N)
      BY <3>1 DEF LinkChange
    <3>3. r \in Connection /\ c \in Seq(Tasks) /\ g \in Negotiation /\ h \in Seq(Nat)
      BY <3>2 DEF LinkShape
    <3>4. /\ rtc' \in [Sides -> Connection] /\ chain' \in [Sides -> Seq(Tasks)]
          /\ nego' \in [Sides -> Negotiation] /\ pending' \in [Sides -> Seq(Nat)]
      BY <2>0, <3>2, <3>3
    <3>5. /\ rtc'[s] = r /\ chain'[s] = c /\ nego'[s] = g /\ pending'[s] = h
          /\ \A x \in Sides : x # s => /\ rtc'[x] = rtc[x] /\ chain'[x] = chain[x]
                                       /\ nego'[x] = nego[x] /\ pending'[x] = pending[x]
      BY <2>0, <3>2
    <3> HIDE DEF N
    <3> QED
      BY <1>2, <2>0, <3>2, <3>4, <3>5
  <2> QED
    BY <2>1, <2>2 DEF LinksStep
<1>4. WireOK'
  <2> SUFFICES ASSUME NEW s \in Sides, NEW e \in wire'[s] PROVE GoodSignal(e)'
    BY DEF WireOK
  <2>1. GoodSignal(e)
    BY DEF PathStep, LinkInv, WireOK
  <2> HIDE DEF N
  <2>2. Made' = N
    BY DEF Made, N
  <2> QED
    BY <1>1, <2>1, <2>2 DEF GoodSignal
<1>5. N = Made'
  BY DEF Made
<1> HIDE DEF N
<1> QED
  BY <1>3, <1>4, <1>5 DEF LinkInv, PathStep

LEMMA SamePath ==
  ASSUME LinkInv, UNCHANGED <<wire, sequence, sent, open, ledger>>
  PROVE  PathStep
  BY DEF LinkInv, PathStep

\* A ledger changed: what it holds is of no matter here.
LEMMA LedgerPath ==
  ASSUME LinkInv, NEW s \in Sides, NEW l, ledger' = [ledger EXCEPT ![s] = l]
  PROVE  ledger' = [x \in Sides |-> ledger'[x]]
  BY DEF LinkInv

LEMMA SentPath ==
  ASSUME LinkInv, NEW s \in Sides, NEW type, NEW content, Send(s, type, content),
         type \in Named, content \in Made, UNCHANGED <<open, ledger>>
  PROVE  PathStep
<1> DEFINE e == Signal(s, type, content)
<1>1. GoodSignal(e)
  BY DEF GoodSignal, Signal, Named
<1>2. Other(s) \in Sides
  BY TwoSides
<1>3. /\ wire' = [x \in Sides |-> wire'[x]]
      /\ \A x \in Sides : \A f \in wire'[x] : f \in wire[x] \/ f = e
  <2>1. CASE open[s]
    <3>1. wire' = [wire EXCEPT ![Other(s)] = @ \cup {e}]
      BY <2>1 DEF Send
    <3> HIDE DEF e
    <3> QED
      BY <1>2, <3>1 DEF LinkInv
  <2>2. CASE ~open[s]
    BY <2>2 DEF LinkInv, Send
  <2> QED
    BY <2>1, <2>2
<1>4. sequence' \in [Sides -> Nat] /\ sent' \in [Sides -> Nat]
  BY DEF LinkInv, Send
<1> HIDE DEF e
<1> QED
  BY <1>1, <1>3, <1>4 DEF LinkInv, PathStep

\* A signal left the wire, or stays to arrive again.
LEMMA TakenPath ==
  ASSUME LinkInv, NEW s \in Sides, NEW e, TakeOff(s, e)
  PROVE  /\ wire' = [x \in Sides |-> wire'[x]]
         /\ \A x \in Sides : wire'[x] \subseteq wire[x]
         /\ faults' \in 0 .. MaxFaults
<1>1. CASE wire' = [wire EXCEPT ![s] = @ \ {e}] /\ UNCHANGED faults
  BY <1>1 DEF LinkInv
<1>2. CASE faults < MaxFaults /\ faults' = faults + 1 /\ UNCHANGED wire
  BY <1>2, LinkAssumption DEF LinkInv
<1> QED
  BY <1>1, <1>2 DEF TakeOff

\* The task of a signal on its way waits to be run.
LEMMA TaskOfSignal ==
  ASSUME LinkInv, NEW s \in Sides, NEW e \in wire[s], e.type \in Named
  PROVE  /\ TaskFor(e) \in Tasks /\ TaskFor(e).stage = "start" /\ TaskFor(e).op = e.type
         /\ e.type = "ice_candidate" => TaskFor(e).c \in Made
         /\ e.type # "ice_candidate" => TaskFor(e).n \in Made
<1>1. e.content \in Made /\ e.content \in Nat
  BY DEF LinkInv, WireOK, GoodSignal, Made
<1>2. CASE e.type = "ice_candidate"
  BY <1>1, <1>2 DEF TaskFor, CandidateTask, Tasks
<1>3. CASE e.type = "call_offer"
  BY <1>1, <1>3 DEF TaskFor, DescriptionTask, Tasks
<1>4. CASE e.type = "call_answer"
  BY <1>1, <1>4 DEF TaskFor, DescriptionTask, Tasks
<1> QED
  BY <1>2, <1>3, <1>4 DEF Named

\* A task of the chain, whichever: one link changes, nothing is refused, and what
\* it sends names an offer that was made.
LEMMA TaskGood ==
  ASSUME LinkInv, NEW s \in Sides, NEW i,
         \/ CreateOffer(s, i) \/ AbandonOffer(s, i) \/ SendOffer(s, i)
         \/ IgnoreOffer(s, i) \/ ApplyOffer(s, i) \/ Answer(s, i)
         \/ IgnoreAnswer(s, i) \/ BeginAnswer(s, i) \/ ApplyAnswer(s, i)
         \/ HoldCandidate(s, i) \/ AddCandidate(s, i)
  PROVE  LinkChange(s, Made) /\ PathStep /\ UNCHANGED <<made, faults, refused>>
<1>1. CASE CreateOffer(s, i)
  <2>1. PathStep
    BY <1>1, SamePath DEF CreateOffer, pathVars
  <2> QED
    BY <1>1, <2>1, CreateOfferLink DEF CreateOffer, pathVars
<1>2. CASE AbandonOffer(s, i)
  <2>1. PathStep
    BY <1>2, SamePath DEF AbandonOffer, pathVars
  <2> QED
    BY <1>2, <2>1, AbandonOfferLink DEF AbandonOffer, pathVars
<1>3. CASE SendOffer(s, i)
  <2>1. chain[s][i].n \in Made
    <3>1. Runs(s, i, "offer", "created")
      BY <1>3 DEF SendOffer
    <3>2. i = 1 /\ Running(s, "offer", "created")
      BY <3>1, AtHead
    <3> QED
      BY <3>2 DEF Running, NamesOK
  <2>2. PathStep
    BY <1>3, <2>1, SentPath DEF SendOffer, Named
  <2> QED
    BY <1>3, <2>2, SendOfferLink DEF SendOffer
<1>4. CASE IgnoreOffer(s, i)
  <2>1. PathStep
    BY <1>4, SamePath DEF IgnoreOffer, pathVars
  <2> QED
    BY <1>4, <2>1, IgnoreOfferLink DEF IgnoreOffer, pathVars
<1>5. CASE ApplyOffer(s, i)
  <2>1. PathStep /\ UNCHANGED <<made, faults>>
    BY <1>5, SamePath DEF ApplyOffer, pathVars
  <2>2. UNCHANGED refused
    BY <1>5, ApplyOfferGoes
  <2> QED
    BY <1>5, <2>1, <2>2, ApplyOfferLink
<1>6. CASE Answer(s, i)
  <2>1. Send(s, "call_answer", rtc[s].heard) /\ UNCHANGED refused /\ Running(s, "call_offer", "answering")
        /\ rtc[s].signaling = "have-remote-offer"
    BY <1>6, AnswerGoes
  <2>2. rtc[s].heard \in Made
    BY <2>1 DEF Running, LinkShape, NamesOK
  <2>3. UNCHANGED <<open, ledger, made, faults>>
    BY <1>6 DEF Answer
  <2>4. PathStep
    BY <2>1, <2>2, <2>3, SentPath DEF Named
  <2> QED
    BY <1>6, <2>1, <2>3, <2>4, AnswerLink
<1>7. CASE IgnoreAnswer(s, i)
  <2>1. PathStep
    BY <1>7, SamePath DEF IgnoreAnswer, pathVars
  <2> QED
    BY <1>7, <2>1, IgnoreAnswerLink DEF IgnoreAnswer, pathVars
<1>8. CASE BeginAnswer(s, i)
  <2>1. PathStep
    BY <1>8, SamePath DEF BeginAnswer, pathVars
  <2> QED
    BY <1>8, <2>1, BeginAnswerLink DEF BeginAnswer, pathVars
<1>9. CASE ApplyAnswer(s, i)
  <2>1. PathStep /\ UNCHANGED <<made, faults>>
    BY <1>9, SamePath DEF ApplyAnswer, pathVars
  <2>2. UNCHANGED refused
    BY <1>9, ApplyAnswerGoes
  <2> QED
    BY <1>9, <2>1, <2>2, ApplyAnswerLink
<1>10. CASE HoldCandidate(s, i)
  <2>1. PathStep
    BY <1>10, SamePath DEF HoldCandidate, pathVars
  <2> QED
    BY <1>10, <2>1, HoldCandidateLink DEF HoldCandidate, pathVars
<1>11. CASE AddCandidate(s, i)
  <2>1. PathStep
    BY <1>11, SamePath DEF AddCandidate, pathVars
  <2> QED
    BY <1>11, <2>1, AddCandidateLink DEF AddCandidate, pathVars
<1> QED
  BY <1>1, <1>2, <1>3, <1>4, <1>5, <1>6, <1>7, <1>8, <1>9, <1>10, <1>11


-----------------------------------------------------------------------------
(* The steps of the pages                                                  *)

Keeps ==
  /\ LinksStep /\ PathStep /\ UNCHANGED refused
  /\ made' \in 0 .. MaxOffers /\ made <= made' /\ faults' \in 0 .. MaxFaults

LEMMA KeepsCounts ==
  ASSUME LinkInv, LinksStep, PathStep, UNCHANGED <<made, refused>>,
         UNCHANGED faults \/ (faults < MaxFaults /\ faults' = faults + 1)
  PROVE  Keeps
<1>1. made' \in 0 .. MaxOffers /\ made <= made'
  BY DEF LinkInv
<1>2. faults' \in 0 .. MaxFaults
  BY LinkAssumption DEF LinkInv
<1> QED
  BY <1>1, <1>2 DEF Keeps

LEMMA KeepsLinks ==
  ASSUME LinkInv, NEW s \in Sides, LinkChange(s, Made), UNCHANGED made
  PROVE  LinksStep
<1>1. Made = 1 .. made'
  BY DEF Made
<1>2. LinkChange(s, 1 .. made')
  BY <1>1
<1> QED
  BY <1>2 DEF LinksStep

LEMMA TaskKeeps ==
  ASSUME LinkInv, NEW s \in Sides, NEW i,
         \/ CreateOffer(s, i) \/ AbandonOffer(s, i) \/ SendOffer(s, i)
         \/ IgnoreOffer(s, i) \/ ApplyOffer(s, i) \/ Answer(s, i)
         \/ IgnoreAnswer(s, i) \/ BeginAnswer(s, i) \/ ApplyAnswer(s, i)
         \/ HoldCandidate(s, i) \/ AddCandidate(s, i)
  PROVE  Keeps
<1>1. LinkChange(s, Made) /\ PathStep /\ UNCHANGED <<made, faults, refused>>
  BY TaskGood
<1>2. LinksStep
  BY <1>1, KeepsLinks
<1> QED
  BY <1>1, <1>2, KeepsCounts

LEMMA LinkStepKeeps ==
  ASSUME LinkInv, NEW s \in Sides, LinkStep(s)
  PROVE  Keeps
<1>1. PICK i \in DOMAIN chain[s] :
         \/ CreateOffer(s, i) \/ AbandonOffer(s, i) \/ SendOffer(s, i)
         \/ IgnoreOffer(s, i) \/ ApplyOffer(s, i) \/ Answer(s, i)
         \/ IgnoreAnswer(s, i) \/ BeginAnswer(s, i) \/ ApplyAnswer(s, i)
         \/ HoldCandidate(s, i) \/ AddCandidate(s, i)
  BY DEF LinkStep
<1> QED
  BY <1>1, TaskKeeps

\* A candidate is sent for a description that names an offer.
LEMMA EmitKeeps ==
  ASSUME LinkInv, NEW s \in Sides, NEW n,
         n = IF rtc[s].offered # None THEN rtc[s].offered ELSE rtc[s].agreed, n # None,
         Update(s, [rtc[s] EXCEPT !.gathered = @ + 1]), Send(s, "ice_candidate", n),
         UNCHANGED <<chain, nego, pending, open, ledger, made, faults, refused>>
  PROVE  Keeps
<1>1. n \in Made
  BY DEF LinkInv, NamesOK
<1>2. PathStep
  BY <1>1, SentPath DEF Named
<1>3. LinkChange(s, Made)
  BY GatheredLink
<1>4. LinksStep
  BY <1>3, KeepsLinks
<1> QED
  BY <1>2, <1>4, KeepsCounts

\* offer() queues a task that names an offer nobody made before.
LEMMA OfferKeeps ==
  ASSUME LinkInv, NEW s \in Sides, CallOffer(s),
         UNCHANGED <<rtc, nego, pending, pathVars, refused>>
  PROVE  Keeps
<1> DEFINE t == OfferTask(made + 1)
           N == 1 .. made'
<1>1. made' = made + 1 /\ made' \in 0 .. MaxOffers /\ made <= made' /\ Made \subseteq N
  BY LinkAssumption DEF CallOffer, LinkInv, Made
<1>2. t \in Tasks /\ t.stage = "start" /\ t.op = "offer" /\ t.n \in N
  BY <1>1 DEF LinkInv, OfferTask, Tasks
<1>3. chain' = [chain EXCEPT ![s] = Append(chain[s], t)]
  BY DEF CallOffer, Serialize, LinkInv
<1>4. nego[s] \in Negotiation /\ nego' = [nego EXCEPT ![s] = nego[s]]
  BY FunctionUpdates DEF LinkInv
<1> HIDE DEF t
<1>5. IF t.op = "ice_candidate" THEN t.c \in N ELSE t.n \in N
  BY <1>2
<1> HIDE DEF N
<1>6. LinkChange(s, N)
  BY <1>1, <1>2, <1>3, <1>4, <1>5, QueuedChange
<1>7. LinksStep
  BY <1>6 DEF LinksStep, N
<1>8. PathStep
  BY SamePath DEF pathVars
<1>9. faults' \in 0 .. MaxFaults
  BY DEF LinkInv, pathVars
<1> QED
  BY <1>1, <1>7, <1>8, <1>9 DEF Keeps

LEMMA GoodbyeKeeps ==
  ASSUME LinkInv, mode = "call", NEW s \in Sides, NEW reason, HangUp(s, reason)
  PROVE  Keeps
<1> DEFINE e == Goodbye(s, reason)
<1>1. GoodSignal(e)
  BY DEF GoodSignal, Goodbye, Signal, Named
<1>2. Other(s) \in Sides
  BY TwoSides
<1>3. LinksStep
  BY ClosedLink DEF HangUp, Clear, LinksStep
<1>4. /\ wire' = [x \in Sides |-> wire'[x]]
      /\ \A x \in Sides : \A f \in wire'[x] : f \in wire[x] \/ f = e
  <2>1. CASE open[s]
    <3>1. wire' = [wire EXCEPT ![Other(s)] = @ \cup {e}]
      BY <2>1 DEF HangUp
    <3> HIDE DEF e
    <3> QED
      BY <1>2, <3>1 DEF LinkInv
  <2>2. CASE ~open[s]
    BY <2>2 DEF LinkInv, HangUp
  <2> QED
    BY <2>1, <2>2
<1>5. sequence' \in [Sides -> Nat] /\ sent' \in [Sides -> Nat] /\ open' \in [Sides -> BOOLEAN]
  BY DEF LinkInv, HangUp, Clear
<1>6. ledger' = [x \in Sides |-> ledger'[x]]
  BY DEF LinkInv, HangUp, Clear
<1>7. UNCHANGED <<made, faults, refused>>
  BY DEF HangUp
<1> HIDE DEF e
<1>8. PathStep
  BY <1>1, <1>4, <1>5, <1>6 DEF PathStep
<1> QED
  BY <1>3, <1>7, <1>8, KeepsCounts

\* The page forgets the call without a word.
LEMMA ClearKeeps ==
  ASSUME LinkInv, NEW s \in Sides, Clear(s), wire' = [x \in Sides |-> wire'[x]],
         \A x \in Sides : wire'[x] \subseteq wire[x],
         UNCHANGED <<open, sent, made, faults, refused>>
  PROVE  Keeps
<1>1. LinksStep
  BY ClosedLink DEF Clear, LinksStep
<1>2. sequence' \in [Sides -> Nat] /\ ledger' = [x \in Sides |-> ledger'[x]]
  BY DEF LinkInv, Clear
<1>3. PathStep
  BY <1>2 DEF LinkInv, PathStep
<1> QED
  BY <1>1, <1>3, KeepsCounts

LEMMA StillKeeps ==
  ASSUME LinkInv, UNCHANGED vars
  PROVE  Keeps
<1>1. LinksStep
  BY DEF LinksStep, vars
<1>2. PathStep
  BY SamePath DEF vars
<1> QED
  BY <1>1, <1>2, KeepsCounts DEF vars

LEMMA ReopenKeeps ==
  ASSUME LinkInv, mode = "call", NEW s \in Sides, SocketReopens(s)
  PROVE  Keeps
<1> DEFINE e == Signal(s, "call_resync", None)
<1>1. GoodSignal(e)
  BY DEF GoodSignal, Signal, Named
<1>2. Other(s) \in Sides
  BY TwoSides
<1>3. UNCHANGED <<rtc, chain, nego, ledger, made, faults, refused>> /\ open' = [open EXCEPT ![s] = TRUE]
  BY DEF SocketReopens
<1>4. CASE /\ pending' = [pending EXCEPT ![s] = <<>>]
           /\ wire' = [wire EXCEPT ![Other(s)] = @ \cup {e}]
           /\ sequence' = [sequence EXCEPT ![s] = @ + 1]
           /\ sent' = [sent EXCEPT ![s] = @ + 1]
  <2>1. LinkChange(s, Made)
    BY <1>3, <1>4, ForgottenChange
  <2>2. LinksStep
    BY <1>3, <2>1, KeepsLinks
  <2> HIDE DEF e
  <2>3. /\ wire' = [x \in Sides |-> wire'[x]]
        /\ \A x \in Sides : \A f \in wire'[x] : f \in wire[x] \/ f = e
    BY <1>2, <1>4 DEF LinkInv
  <2>4. sequence' \in [Sides -> Nat] /\ sent' \in [Sides -> Nat] /\ open' \in [Sides -> BOOLEAN]
    BY <1>3, <1>4 DEF LinkInv
  <2>5. PathStep
    BY <1>1, <1>3, <2>3, <2>4 DEF LinkInv, PathStep
  <2> QED
    BY <1>3, <2>2, <2>5, KeepsCounts
<1>5. CASE UNCHANGED <<pending, wire, sequence, sent>>
  <2>1. LinksStep
    BY <1>3, <1>5 DEF LinksStep
  <2>2. PathStep
    BY <1>3, <1>5 DEF LinkInv, PathStep
  <2> QED
    BY <1>3, <2>1, <2>2, KeepsCounts
<1> QED
  BY <1>4, <1>5 DEF SocketReopens

LEMMA GoneKeeps ==
  ASSUME LinkInv, mode = "call", NEW s \in Sides, SayGone(s)
  PROVE  Keeps
<1> DEFINE e == Signal(s, "call_hangup", "session_gone")
<1>1. GoodSignal(e)
  BY DEF GoodSignal, Signal, Named
<1>2. Other(s) \in Sides
  BY TwoSides
<1>3. /\ wire' = IF open[s] THEN [wire EXCEPT ![Other(s)] = @ \cup {e}] ELSE wire
      /\ sequence' = [sequence EXCEPT ![s] = @ + 1] /\ sent' = [sent EXCEPT ![s] = @ + 1]
  BY DEF SayGone, Send
<1>4. UNCHANGED <<rtc, chain, nego, pending, open, ledger, made, faults, refused>>
  BY DEF SayGone, linkVars
<1> HIDE DEF e
<1>5. /\ wire' = [x \in Sides |-> wire'[x]]
      /\ \A x \in Sides : \A f \in wire'[x] : f \in wire[x] \/ f = e
  BY <1>2, <1>3 DEF LinkInv
<1>6. sequence' \in [Sides -> Nat] /\ sent' \in [Sides -> Nat]
  BY <1>3 DEF LinkInv
<1>7. PathStep
  BY <1>1, <1>4, <1>5, <1>6 DEF LinkInv, PathStep
<1>8. LinksStep
  BY <1>4 DEF LinksStep
<1> QED
  BY <1>4, <1>7, <1>8, KeepsCounts

LEMMA DropSocketKeeps ==
  ASSUME LinkInv, NEW s \in Sides, SocketDrops(s)
  PROVE  Keeps
<1>1. LinksStep
  BY DEF SocketDrops, linkVars, LinksStep
<1>2. PathStep
  BY DEF SocketDrops, LinkInv, PathStep
<1> QED
  BY <1>1, <1>2, KeepsCounts DEF SocketDrops

LEMMA CrashKeeps ==
  ASSUME LinkInv, NEW s \in Sides, Crash(s)
  PROVE  Keeps
<1>1. LinksStep
  BY ClosedLink DEF Crash, LinksStep
<1>2. PathStep
  BY DEF Crash, LinkInv, PathStep
<1> QED
  BY <1>1, <1>2, KeepsCounts DEF Crash


-----------------------------------------------------------------------------
(* The signals a page hears                                                *)

LEMMA DropKeeps ==
  ASSUME LinkInv, NEW s \in Sides, NEW e, Drop(s, e)
  PROVE  Keeps
<1>1. /\ wire' = [x \in Sides |-> wire'[x]] /\ \A x \in Sides : wire'[x] \subseteq wire[x]
      /\ faults' \in 0 .. MaxFaults
  BY TakenPath DEF Drop
<1>2. LinksStep
  BY DEF Drop, linkVars, LinksStep
<1>3. UNCHANGED <<open, sequence, sent, made, refused>> /\ ledger' = [x \in Sides |-> ledger'[x]]
  BY DEF Drop, LinkInv
<1>4. PathStep
  BY <1>1, <1>3 DEF LinkInv, PathStep
<1>5. made' \in 0 .. MaxOffers /\ made <= made'
  BY <1>3 DEF LinkInv
<1> QED
  BY <1>1, <1>2, <1>3, <1>4, <1>5 DEF Keeps

LEMMA WithoutCallKeeps ==
  ASSUME LinkInv, mode = "call", NEW s \in Sides, NEW e, WithoutCall(s, e)
  PROVE  Keeps
<1> DEFINE f == Signal(s, "call_hangup", "session_gone")
<1>1. GoodSignal(f)
  BY DEF GoodSignal, Signal, Named
<1>2. Other(s) \in Sides /\ Other(s) # s
  BY TwoSides
<1>3. UNCHANGED <<rtc, chain, nego, pending, open, made, refused>>
      /\ ledger' = [x \in Sides |-> ledger'[x]]
  BY DEF WithoutCall, linkVars, LinkInv
<1>4. LinksStep
  BY <1>3 DEF LinksStep
<1>5. made' \in 0 .. MaxOffers /\ made <= made'
  BY <1>3 DEF LinkInv
<1>6. CASE /\ wire' = [wire EXCEPT ![s] = @ \ {e}, ![Other(s)] = @ \cup {f}]
           /\ sequence' = [sequence EXCEPT ![s] = @ + 1]
           /\ sent' = [sent EXCEPT ![s] = @ + 1]
           /\ UNCHANGED faults
  <2> HIDE DEF f
  <2>1. /\ wire' = [x \in Sides |-> wire'[x]]
        /\ \A x \in Sides : \A g \in wire'[x] : g \in wire[x] \/ g = f
    BY <1>2, <1>6 DEF LinkInv
  <2>2. sequence' \in [Sides -> Nat] /\ sent' \in [Sides -> Nat]
    BY <1>6 DEF LinkInv
  <2>3. PathStep
    BY <1>1, <1>3, <2>1, <2>2 DEF LinkInv, PathStep
  <2>4. faults' \in 0 .. MaxFaults
    BY <1>6 DEF LinkInv
  <2> QED
    BY <1>3, <1>4, <1>5, <2>3, <2>4 DEF Keeps
<1>7. CASE TakeOff(s, e) /\ UNCHANGED <<sequence, sent>>
  <2>1. /\ wire' = [x \in Sides |-> wire'[x]] /\ \A x \in Sides : wire'[x] \subseteq wire[x]
        /\ faults' \in 0 .. MaxFaults
    BY <1>7, TakenPath
  <2>2. PathStep
    BY <1>3, <1>7, <2>1 DEF LinkInv, PathStep
  <2> QED
    BY <1>3, <1>4, <1>5, <2>1, <2>2 DEF Keeps
<1>8. \/ /\ wire' = [wire EXCEPT ![s] = @ \ {e}, ![Other(s)] = @ \cup {f}]
         /\ sequence' = [sequence EXCEPT ![s] = @ + 1]
         /\ sent' = [sent EXCEPT ![s] = @ + 1]
         /\ UNCHANGED faults
      \/ TakeOff(s, e) /\ UNCHANGED <<sequence, sent>>
  BY DEF WithoutCall
<1> QED
  BY <1>6, <1>7, <1>8

LEMMA PeerHangsUpKeeps ==
  ASSUME LinkInv, NEW s \in Sides, NEW e, PeerHangsUp(s, e)
  PROVE  Keeps
<1>1. LinksStep
  BY ClosedLink DEF PeerHangsUp, LinksStep
<1>2. /\ wire' = [x \in Sides |-> wire'[x]] /\ \A x \in Sides : wire'[x] \subseteq wire[x]
      /\ sequence' \in [Sides -> Nat] /\ ledger' = [x \in Sides |-> ledger'[x]]
      /\ UNCHANGED <<open, sent, made, faults, refused>>
  BY DEF PeerHangsUp, LinkInv
<1>3. PathStep
  BY <1>2 DEF LinkInv, PathStep
<1> QED
  BY <1>1, <1>2, <1>3, KeepsCounts

LEMMA LearnType ==
  ASSUME LinkInv, NEW s \in Sides, NEW e
  PROVE  /\ Learn(s, e) \in Negotiation /\ Learn(s, e).making = nego[s].making
         /\ Learn(s, e).answering = nego[s].answering
<1>1. nego[s] \in Negotiation
  BY DEF LinkInv
<1> QED
  BY <1>1 DEF Learn, Negotiation

\* The role of the sender is known; its task, when there is one, waits.
LEMMA HeardLink ==
  ASSUME LinkInv, NEW s \in Sides, NEW e \in wire[s],
         nego' = [nego EXCEPT ![s] = Learn(s, e)], UNCHANGED <<rtc, pending, made>>,
         UNCHANGED chain \/ (e.type \in Named /\ Serialize(s, TaskFor(e)))
  PROVE  LinksStep
<1> DEFINE g2 == Learn(s, e)
<1>1. /\ g2 \in Negotiation /\ g2.making = nego[s].making
      /\ g2.answering = nego[s].answering
  BY LearnType
<1>2. CASE UNCHANGED chain
  <2>1. LinkShape(rtc[s], chain[s], nego[s], pending[s]) /\ NamesOK(rtc[s], chain[s], Made)
    BY DEF LinkInv
  <2>2. nego' = [nego EXCEPT ![s] = g2]
    OBVIOUS
  <2> HIDE DEF g2
  <2>3. LinkShape(rtc[s], chain[s], g2, pending[s])
    BY <1>1, <2>1 DEF LinkShape
  <2>4. /\ rtc' = [rtc EXCEPT ![s] = rtc[s]] /\ pending' = [pending EXCEPT ![s] = pending[s]]
        /\ chain' = [chain EXCEPT ![s] = chain[s]]
    BY <1>2, FunctionUpdates
  <2>5. LinkChange(s, Made)
    BY <2>1, <2>2, <2>3, <2>4 DEF LinkChange
  <2> QED
    BY <2>5, KeepsLinks
<1>3. CASE e.type \in Named /\ Serialize(s, TaskFor(e))
  <2> DEFINE t == TaskFor(e)
  <2>1. /\ t \in Tasks /\ t.stage = "start" /\ t.op = e.type
        /\ e.type = "ice_candidate" => t.c \in Made
        /\ e.type # "ice_candidate" => t.n \in Made
    BY <1>3, TaskOfSignal
  <2>2. chain' = [chain EXCEPT ![s] = Append(chain[s], t)]
    BY <1>3 DEF Serialize, LinkInv
  <2> HIDE DEF t
  <2>3. IF t.op = "ice_candidate" THEN t.c \in Made ELSE t.n \in Made
    BY <2>1
  <2>4. nego' = [nego EXCEPT ![s] = g2]
    OBVIOUS
  <2> HIDE DEF g2
  <2>5. LinkChange(s, Made)
    BY <1>1, <2>1, <2>2, <2>3, <2>4, QueuedChange
  <2> QED
    BY <2>5, KeepsLinks
<1> QED
  BY <1>2, <1>3

LEMMA WithCallKeeps ==
  ASSUME LinkInv, NEW s \in Sides, NEW e \in wire[s], WithCall(s, e)
  PROVE  Keeps
<1>1. /\ nego' = [nego EXCEPT ![s] = Learn(s, e)]
      /\ UNCHANGED <<rtc, pending, open, sequence, sent, made, refused>>
      /\ ledger' = [ledger EXCEPT ![s] = AfterSignal(@, e, 0)] /\ TakeOff(s, e) /\ ~Terminal(e.type)
  BY DEF WithCall
<1>2. e.type \in Named \cup {"call_resync", "call_hangup"}
  BY DEF LinkInv, WireOK, GoodSignal
<1>3. e.type # "call_resync" => e.type \in Named
  BY <1>1, <1>2 DEF Terminal
<1>4. UNCHANGED chain \/ (e.type \in Named /\ Serialize(s, TaskFor(e)))
  BY <1>3 DEF WithCall, ForTheLink, Named
<1>5. LinksStep
  BY <1>1, <1>4, HeardLink
<1>6. /\ wire' = [x \in Sides |-> wire'[x]] /\ \A x \in Sides : wire'[x] \subseteq wire[x]
      /\ faults' \in 0 .. MaxFaults
  BY <1>1, TakenPath
<1>7. ledger' = [x \in Sides |-> ledger'[x]]
  BY <1>1 DEF LinkInv
<1>8. PathStep
  BY <1>1, <1>6, <1>7 DEF LinkInv, PathStep
<1>9. made' \in 0 .. MaxOffers /\ made <= made'
  BY <1>1 DEF LinkInv
<1> QED
  BY <1>1, <1>5, <1>6, <1>8, <1>9 DEF Keeps

LEMMA UndeliveredKeeps ==
  ASSUME LinkInv, NEW s \in Sides, NEW e, Undelivered(s, e)
  PROVE  Keeps
<1>1. /\ wire' = [x \in Sides |-> wire'[x]] /\ \A x \in Sides : wire'[x] \subseteq wire[x]
      /\ UNCHANGED <<open, sent, made, faults, refused>>
  BY DEF Undelivered, LinkInv
<1>2. Other(s) \in Sides
  BY TwoSides
<1>3. CASE Clear(Other(s))
  BY <1>1, <1>2, <1>3, ClearKeeps
<1>4. CASE UNCHANGED <<linkVars, page, sequence, ledger>>
  <2>1. LinksStep
    BY <1>4 DEF linkVars, LinksStep
  <2>2. PathStep
    BY <1>1, <1>4 DEF LinkInv, PathStep
  <2> QED
    BY <1>1, <2>1, <2>2, KeepsCounts
<1> QED
  BY <1>3, <1>4 DEF Undelivered

LEMMA PageKeeps ==
  ASSUME LinkInv, mode = "call", NEW s \in Sides, PageStep(s)
  PROVE  Keeps
<1>1. CASE LinkStep(s)
  BY <1>1, LinkStepKeeps
<1>2. CASE Gather(s)
  <2> DEFINE n == IF rtc[s].offered # None THEN rtc[s].offered ELSE rtc[s].agreed
  <2>1. /\ n # None /\ Update(s, [rtc[s] EXCEPT !.gathered = @ + 1])
        /\ Send(s, "ice_candidate", n)
        /\ UNCHANGED <<chain, nego, pending, open, ledger, made, faults, refused>>
    BY <1>2 DEF Gather, EmitCandidate
  <2> QED
    BY <2>1, EmitKeeps
<1>3. CASE OfferNow(s)
  BY <1>3, OfferKeeps DEF OfferNow
<1>4. CASE GiveUp(s)
  <2>1. CASE HangUp(s, "connection_failed")
    BY <2>1, GoodbyeKeeps
  <2>2. CASE UNCHANGED vars
    BY <2>2, StillKeeps
  <2> QED
    BY <1>4, <2>1, <2>2 DEF GiveUp
<1>5. CASE MediaUp(s) \/ PeerClosed(s) \/ RestartTimeout(s)
  BY <1>5, StillKeeps DEF MediaUp, PeerClosed, RestartTimeout
<1>6. CASE NetworkFails(s)
  <2>1. LinksStep
    BY <1>6 DEF NetworkFails, linkVars, LinksStep
  <2>2. PathStep
    BY <1>6, SamePath DEF NetworkFails
  <2> QED
    BY <1>6, <2>1, <2>2, KeepsCounts DEF NetworkFails
<1>7. CASE UserHangsUp(s)
  BY <1>7, GoodbyeKeeps DEF UserHangsUp
<1>8. CASE SocketDrops(s)
  BY <1>8, DropSocketKeeps
<1>9. CASE SocketReopens(s)
  BY <1>9, ReopenKeeps
<1>10. CASE SignalLossTimeout(s)
  <2>1. wire' = [x \in Sides |-> wire'[x]] /\ \A x \in Sides : wire'[x] \subseteq wire[x]
    BY <1>10 DEF SignalLossTimeout, LinkInv
  <2> QED
    BY <1>10, <2>1, ClearKeeps DEF SignalLossTimeout
<1>11. CASE Crash(s)
  BY <1>11, CrashKeeps
<1>12. CASE \E e \in wire[s] : Hear(s, e)
  BY <1>12, DropKeeps, WithoutCallKeeps, PeerHangsUpKeeps, WithCallKeeps DEF Hear
<1>13. CASE \E e \in wire[s] : Undelivered(s, e)
  BY <1>13, UndeliveredKeeps
<1>14. CASE SayGone(s)
  BY <1>14, GoneKeeps
<1> QED
  BY <1>1, <1>2, <1>3, <1>4, <1>5, <1>6, <1>7, <1>8, <1>9, <1>10, <1>11, <1>12, <1>13, <1>14 DEF PageStep


-----------------------------------------------------------------------------
(* The library by itself                                                   *)

\* What the instance says of one browser, without the bounds, is what the module says.
LEMMA LibraryNames ==
  /\ Library!None = None /\ Library!NewConnection = NewConnection
  /\ Library!NewNegotiation = NewNegotiation /\ Library!NoLedger = NoLedger
  /\ \A s : Library!Other(s) = Other(s)
  /\ \A s : Library!IsPolite(s) <=> IsPolite(s)
  /\ \A s : Library!ReadyForOffer(s) <=> ReadyForOffer(s)
  /\ \A s, n : Library!Offered(s, n) = Offered(s, n)
  /\ \A s, n : Library!DrainedInto(s, n) = DrainedInto(s, n)
  /\ \A s, type, content : Library!Signal(s, type, content) = Signal(s, type, content)
  /\ \A e : Library!TaskFor(e) = TaskFor(e)
  /\ \A n : Library!OfferTask(n) = OfferTask(n)
  /\ \A n, c : Library!Usable(n, c) = Usable(n, c)
  /\ \A s, c : Library!Hold(s, c) = Hold(s, c)
  /\ \A s, e : Library!Learn(s, e) = Learn(s, e)
  /\ \A s, i : Library!Settle(s, i) <=> Settle(s, i)
<1>1. Library!None = None
  BY DEF Library!None, None
<1>2. \A s : Library!Other(s) = Other(s)
  BY DEF Library!Other, Other
<1>3. \A s : Library!IsPolite(s) <=> IsPolite(s)
  BY DEF Library!IsPolite, IsPolite
<1>4. \A s : Library!ReadyForOffer(s) <=> ReadyForOffer(s)
  BY DEF Library!ReadyForOffer, ReadyForOffer
<1>5. \A n, c : Library!Usable(n, c) = Usable(n, c)
  BY DEF Library!Usable, Usable
<1>6. \A q : Library!ToSet(q) = ToSet(q)
  BY DEF Library!ToSet, ToSet
<1>7. \A s, n : Library!DrainedInto(s, n) = DrainedInto(s, n)
  BY <1>5, <1>6 DEF Library!DrainedInto, DrainedInto, Library!AfterDrain, AfterDrain
<1>8. \A s, n : Library!Offered(s, n) = Offered(s, n)
  BY <1>1, <1>7 DEF Library!Offered, Offered
<1>9. \A s, type, content : Library!Signal(s, type, content) = Signal(s, type, content)
  BY <1>2 DEF Library!Signal, Signal
<1>10. \A e : Library!TaskFor(e) = TaskFor(e)
  BY DEF Library!TaskFor, TaskFor, Library!CandidateTask, CandidateTask, Library!DescriptionTask, DescriptionTask
<1>11. \A n : Library!OfferTask(n) = OfferTask(n)
  BY DEF Library!OfferTask, OfferTask
<1>12. \A s, c : Library!Hold(s, c) = Hold(s, c)
  BY DEF Library!Hold, Hold
<1>13. \A s, e : Library!Learn(s, e) = Learn(s, e)
  BY DEF Library!Learn, Learn
<1>14. \A q, i : Library!RemoveAt(q, i) = RemoveAt(q, i)
  BY DEF Library!RemoveAt, RemoveAt
<1>15. \A s, i : Library!Settle(s, i) <=> Settle(s, i)
  BY <1>14 DEF Library!Settle, Settle
<1>16. Library!NewConnection = NewConnection /\ Library!NewNegotiation = NewNegotiation /\ Library!NoLedger = NoLedger
  BY <1>1 DEF Library!NewConnection, NewConnection, Library!NewNegotiation, NewNegotiation, Library!NoLedger, NoLedger
<1> QED
  BY <1>1, <1>2, <1>3, <1>4, <1>5, <1>7, <1>8, <1>9, <1>10, <1>11, <1>12, <1>13, <1>15, <1>16

LEMMA LibrarySend ==
  ASSUME NEW s, NEW type, NEW content
  PROVE  Library!Send(s, type, content) <=> Send(s, type, content)
  BY LibraryNames DEF Library!Send, Send

LEMMA LibraryRuns ==
  ASSUME NEW s, NEW i, NEW op, NEW stage
  PROVE  Library!Runs(s, i, op, stage) <=> Runs(s, i, op, stage)
  BY DEF Library!Runs, Runs, Library!Turn, Turn

\* The tasks of the instance are the tasks of the module.
LEMMA LibraryTasks ==
  ASSUME NEW s, NEW i
  PROVE  /\ Library!CreateOffer(s, i) => CreateOffer(s, i)
         /\ Library!AbandonOffer(s, i) => AbandonOffer(s, i)
         /\ Library!SendOffer(s, i) => SendOffer(s, i)
         /\ Library!IgnoreOffer(s, i) => IgnoreOffer(s, i)
         /\ Library!ApplyOffer(s, i) => ApplyOffer(s, i)
         /\ Library!Answer(s, i) => Answer(s, i)
         /\ Library!IgnoreAnswer(s, i) => IgnoreAnswer(s, i)
         /\ Library!BeginAnswer(s, i) => BeginAnswer(s, i)
         /\ Library!ApplyAnswer(s, i) => ApplyAnswer(s, i)
         /\ Library!HoldCandidate(s, i) => HoldCandidate(s, i)
         /\ Library!AddCandidate(s, i) => AddCandidate(s, i)
<1>1. Library!pathVars = pathVars /\ Library!linkVars = linkVars
  BY DEF Library!pathVars, pathVars, Library!linkVars, linkVars
<1>2. Library!CreateOffer(s, i) => CreateOffer(s, i)
  BY LibraryRuns DEF Library!CreateOffer, CreateOffer, Library!pathVars, pathVars
<1>3. Library!AbandonOffer(s, i) => AbandonOffer(s, i)
  BY LibraryRuns, LibraryNames DEF Library!AbandonOffer, AbandonOffer, Library!pathVars, pathVars
<1>4. Library!SendOffer(s, i) => SendOffer(s, i)
  BY LibraryRuns, LibraryNames, LibrarySend DEF Library!SendOffer, SendOffer, Library!Update, Update
<1>5. Library!IgnoreOffer(s, i) => IgnoreOffer(s, i)
  BY LibraryRuns, LibraryNames DEF Library!IgnoreOffer, IgnoreOffer, Library!pathVars, pathVars
<1>6. Library!ApplyOffer(s, i) => ApplyOffer(s, i)
  BY LibraryRuns, LibraryNames
  DEF Library!ApplyOffer, ApplyOffer, Library!pathVars, pathVars, Library!Update, Update,
      Library!Stage, Stage, Library!Refuses, Refuses, Library!AfterDrain, AfterDrain
<1>7. Library!Answer(s, i) => Answer(s, i)
  BY LibraryRuns, LibraryNames, LibrarySend
  DEF Library!Answer, Answer, Library!Update, Update, Library!Refuses, Refuses
<1>8. Library!IgnoreAnswer(s, i) => IgnoreAnswer(s, i)
  BY LibraryRuns, LibraryNames DEF Library!IgnoreAnswer, IgnoreAnswer, Library!pathVars, pathVars
<1>9. Library!BeginAnswer(s, i) => BeginAnswer(s, i)
  BY LibraryRuns DEF Library!BeginAnswer, BeginAnswer, Library!pathVars, pathVars, Library!Stage, Stage
<1>10. Library!ApplyAnswer(s, i) => ApplyAnswer(s, i)
  BY LibraryRuns, LibraryNames
  DEF Library!ApplyAnswer, ApplyAnswer, Library!pathVars, pathVars, Library!Update, Update,
      Library!Refuses, Refuses, Library!AfterDrain, AfterDrain
<1>11. Library!HoldCandidate(s, i) => HoldCandidate(s, i)
  BY LibraryRuns, LibraryNames DEF Library!HoldCandidate, HoldCandidate, Library!pathVars, pathVars
<1>12. Library!AddCandidate(s, i) => AddCandidate(s, i)
  BY LibraryRuns, LibraryNames DEF Library!AddCandidate, AddCandidate, Library!pathVars, pathVars, Library!Update, Update
<1> QED
  BY <1>2, <1>3, <1>4, <1>5, <1>6, <1>7, <1>8, <1>9, <1>10, <1>11, <1>12

LEMMA LibraryKeeps ==
  ASSUME LinkInv, mode = "library", Library!Next
  PROVE  Keeps
<1>1. PICK s \in Sides :
         \/ Library!TaskStep(s) \/ Library!EmitCandidate(s)
         \/ Library!Offer(s) \/ Library!LoseSignal(s)
         \/ \E e \in wire[s] : Library!Receive(s, e)
  BY DEF Library!Next
<1>2. CASE Library!TaskStep(s)
  <2>1. PICK i \in DOMAIN chain[s] :
          \/ CreateOffer(s, i) \/ AbandonOffer(s, i) \/ SendOffer(s, i)
          \/ IgnoreOffer(s, i) \/ ApplyOffer(s, i) \/ Answer(s, i)
          \/ IgnoreAnswer(s, i) \/ BeginAnswer(s, i) \/ ApplyAnswer(s, i)
          \/ HoldCandidate(s, i) \/ AddCandidate(s, i)
    BY <1>2, LibraryTasks DEF Library!TaskStep
  <2> QED
    BY <2>1, TaskKeeps
<1>3. CASE Library!EmitCandidate(s)
  <2> DEFINE n == IF rtc[s].offered # None THEN rtc[s].offered ELSE rtc[s].agreed
  <2>1. /\ n # None /\ Update(s, [rtc[s] EXCEPT !.gathered = @ + 1])
        /\ Send(s, "ice_candidate", n)
        /\ UNCHANGED <<chain, nego, pending, open, ledger, made, faults, refused>>
    BY <1>3, LibraryNames, LibrarySend DEF Library!EmitCandidate, Library!Update, Update
  <2> QED
    BY <2>1, EmitKeeps
<1>4. CASE Library!Offer(s)
  <2>1. made < 3 /\ made' = made + 1 /\ Serialize(s, OfferTask(made + 1))
    BY <1>4, LibraryNames DEF Library!Offer, Library!CallOffer, Library!Serialize, Serialize
  <2>2. made < MaxOffers
    BY <2>1, LibraryBounds, LinkAssumption DEF LinkInv
  <2>3. CallOffer(s)
    BY <2>1, <2>2 DEF CallOffer
  <2>4. UNCHANGED <<rtc, nego, pending, pathVars, refused>>
    BY <1>4 DEF Library!Offer, Library!pathVars, pathVars
  <2> QED
    BY <2>3, <2>4, OfferKeeps
<1>5. CASE Library!LoseSignal(s)
  <2>1. /\ faults < 1 /\ faults' = faults + 1
        /\ \E e : wire' = [wire EXCEPT ![s] = @ \ {e}]
        /\ UNCHANGED <<linkVars, open, sequence, sent, ledger, made, refused>>
    BY <1>5 DEF Library!LoseSignal, Library!linkVars, linkVars
  <2>2. LinksStep
    BY <2>1 DEF linkVars, LinksStep
  <2>3. wire' = [x \in Sides |-> wire'[x]] /\ \A x \in Sides : wire'[x] \subseteq wire[x]
    BY <2>1 DEF LinkInv
  <2>4. PathStep
    BY <2>1, <2>3 DEF LinkInv, PathStep
  <2>5. faults < MaxFaults
    BY <2>1, LibraryBounds, LinkAssumption DEF LinkInv
  <2> QED
    BY <2>1, <2>2, <2>4, <2>5, KeepsCounts
<1>6. CASE \E e \in wire[s] : Library!Receive(s, e)
  <2>1. PICK e \in wire[s] : Library!Receive(s, e)
    BY <1>6
  <2>2. /\ UNCHANGED <<rtc, pending, open, sequence, sent, made, refused>>
        /\ \E l : ledger' = [ledger EXCEPT ![s] = l]
        /\ \/ nego' = [nego EXCEPT ![s] = Learn(s, e)] /\ Serialize(s, TaskFor(e))
           \/ UNCHANGED <<nego, chain>>
    BY <2>1, LibraryNames DEF Library!Receive, Library!Serialize, Serialize
  <2>3. TakeOff(s, e)
    <3>1. faults < 1 => faults < MaxFaults
      BY LibraryBounds, LinkAssumption DEF LinkInv
    <3> QED
      BY <2>1, <3>1 DEF Library!Receive, Library!TakeOff, TakeOff
  <2>4. e.type \in Named
    BY DEF LinkInv, WireOK, GoodSignal
  <2>5. LinksStep
    BY <2>2, <2>4, HeardLink DEF LinksStep
  <2>6. /\ wire' = [x \in Sides |-> wire'[x]] /\ \A x \in Sides : wire'[x] \subseteq wire[x]
        /\ faults' \in 0 .. MaxFaults
    BY <2>3, TakenPath
  <2>7. ledger' = [x \in Sides |-> ledger'[x]]
    BY <2>2 DEF LinkInv
  <2>8. PathStep
    BY <2>2, <2>6, <2>7 DEF LinkInv, PathStep
  <2>9. made' \in 0 .. MaxOffers /\ made <= made'
    BY <2>2 DEF LinkInv
  <2> QED
    BY <2>2, <2>5, <2>6, <2>8, <2>9 DEF Keeps
<1> QED
  BY <1>1, <1>2, <1>3, <1>4, <1>5, <1>6

-----------------------------------------------------------------------------
(* What the links keep                                                     *)

LEMMA LinksStart ==
  ASSUME CallsInit
  PROVE  LinkInv
<1>1. Init /\ mode \in {"call", "library"}
  <2>1. Library!Init => Init
    BY LibraryNames DEF Library!Init, Init
  <2> QED
    BY <2>1 DEF CallsInit, StartCall
<1>2. \A s \in Sides : /\ LinkShape(rtc[s], chain[s], nego[s], pending[s])
                       /\ NamesOK(rtc[s], chain[s], Made)
  BY <1>1, NewLink DEF Init
<1>3. /\ rtc \in [Sides -> Connection] /\ chain \in [Sides -> Seq(Tasks)]
      /\ nego \in [Sides -> Negotiation] /\ pending \in [Sides -> Seq(Nat)]
  BY <1>1, NewLink DEF Init
<1>4. WireOK
  BY <1>1 DEF Init, WireOK
<1>5. /\ sequence \in [Sides -> Nat] /\ sent \in [Sides -> Nat] /\ open \in [Sides -> BOOLEAN]
      /\ wire = [s \in Sides |-> wire[s]] /\ ledger = [s \in Sides |-> ledger[s]]
  BY <1>1 DEF Init
<1>6. made \in 0 .. MaxOffers /\ faults \in 0 .. MaxFaults /\ refused = {}
  BY <1>1, LinkAssumption DEF Init
<1> QED
  BY <1>1, <1>2, <1>3, <1>4, <1>5, <1>6 DEF LinkInv

LEMMA LinksStay ==
  ASSUME LinkInv, [CallsNext]_callsVars
  PROVE  LinkInv'
<1>1. CASE mode = "call" /\ NextCall /\ UNCHANGED mode
  <2>1. PICK s \in Sides : PageStep(s)
    BY <1>1 DEF NextCall
  <2>2. Keeps
    BY <1>1, <2>1, PageKeeps
  <2> QED
    BY <1>1, <2>2, Assembled DEF Keeps
<1>2. CASE mode = "library" /\ Library!Next /\ UNCHANGED <<page, mode>>
  <2>1. Keeps
    BY <1>2, LibraryKeeps
  <2> QED
    BY <1>2, <2>1, Assembled DEF Keeps
<1>3. CASE UNCHANGED callsVars
  <2>1. UNCHANGED vars /\ UNCHANGED mode
    BY <1>3 DEF callsVars, pageVars
  <2>2. Keeps
    BY <2>1, StillKeeps
  <2> QED
    BY <2>1, <2>2, Assembled DEF Keeps
<1> QED
  BY <1>1, <1>2, <1>3 DEF CallsNext

LEMMA LinksProve ==
  ASSUME LinkInv
  PROVE  LinkTypeOK /\ NothingIsRefused /\ HeldCandidatesAreUsed
<1>1. ASSUME NEW s \in Sides
      PROVE  /\ rtc[s].signaling \in {"stable", "have-local-offer", "have-remote-offer"}
             /\ {rtc[s].agreed, rtc[s].offered, rtc[s].heard} \subseteq Offers \cup {None}
             /\ rtc[s].offered # None <=> rtc[s].signaling = "have-local-offer"
             /\ Len(pending[s]) <= PendingLimit
             /\ rtc[s].heard # None => pending[s] = <<>>
             /\ \A i \in DOMAIN chain[s] :
                  chain[s][i].op \in {"offer", "call_offer", "call_answer", "ice_candidate"}
  <2>1. /\ LinkShape(rtc[s], chain[s], nego[s], pending[s]) /\ NamesOK(rtc[s], chain[s], Made)
        /\ rtc[s] \in Connection /\ chain[s] \in Seq(Tasks)
    BY DEF LinkInv
  <2>2. rtc[s].signaling \in {"stable", "have-local-offer", "have-remote-offer"}
    BY <2>1 DEF Connection, Signaling
  <2>3. Made \subseteq Offers
    BY LinkAssumption DEF LinkInv, Made, Offers
  <2>4. {rtc[s].agreed, rtc[s].offered, rtc[s].heard} \subseteq Offers \cup {None}
    BY <2>1, <2>3 DEF NamesOK
  <2>5. \A i \in DOMAIN chain[s] : chain[s][i] \in Tasks
    BY <2>1, ElementOfSeq, LenProperties
  <2>6. \A i \in DOMAIN chain[s] :
          chain[s][i].op \in {"offer", "call_offer", "call_answer", "ice_candidate"}
    BY <2>5 DEF Tasks
  <2> QED
    BY <2>1, <2>2, <2>4, <2>6 DEF LinkShape
<1> QED
  BY <1>1 DEF LinkInv, LinkTypeOK, NothingIsRefused, HeldCandidatesAreUsed

\* At any number of offers, candidates and faults, and whatever the two pages do:
\* the signalling state of a connection tells which descriptions are set.
THEOREM LinkTypes == CallsSpec => []LinkTypeOK
<1>1. CallsInit => LinkInv
  BY LinksStart
<1>2. LinkInv /\ [CallsNext]_callsVars => LinkInv'
  BY LinksStay
<1>3. LinkInv => LinkTypeOK
  BY LinksProve
<1> QED
  BY <1>1, <1>2, <1>3, PTL DEF CallsSpec

\* No operation reaches a connection in a state that refuses it, however offers
\* cross, signals are lost, doubled or overtaken, and pages crash or hang up.
THEOREM RefusesNothing == CallsSpec => []NothingIsRefused
<1>1. CallsInit => LinkInv
  BY LinksStart
<1>2. LinkInv /\ [CallsNext]_callsVars => LinkInv'
  BY LinksStay
<1>3. LinkInv => NothingIsRefused
  BY LinksProve
<1> QED
  BY <1>1, <1>2, <1>3, PTL DEF CallsSpec

\* No candidate stays held once a description is applied.
THEOREM UsesHeldCandidates == CallsSpec => []HeldCandidatesAreUsed
<1>1. CallsInit => LinkInv
  BY LinksStart
<1>2. LinkInv /\ [CallsNext]_callsVars => LinkInv'
  BY LinksStay
<1>3. LinkInv => HeldCandidatesAreUsed
  BY LinksProve
<1> QED
  BY <1>1, <1>2, <1>3, PTL DEF CallsSpec

-----------------------------------------------------------------------------
(* What a ledger admits                                                    *)

\* A ledger that holds one entry per signal of the peer holds no more than the
\* peer has sent.
LEMMA SeenFew ==
  ASSUME NEW q, NEW s, NEW t, NEW m \in Nat, q \in Seq(({t} \X (1 .. m)) \X {Skew}),
         \A i, j \in DOMAIN q : q[i][1][2] = q[j][1][2] => i = j
  PROVE  Len(q) <= m
<1> DEFINE f == [i \in 1 .. Len(q) |-> q[i][1][2]]
<1>1. Len(q) \in Nat /\ DOMAIN q = 1 .. Len(q)
  BY LenProperties
<1>2. \A i \in 1 .. Len(q) : q[i] \in ({t} \X (1 .. m)) \X {Skew}
  BY ElementOfSeq
<1>3. \A i \in 1 .. Len(q) : q[i][1][2] \in 1 .. m
  BY <1>2
<1>4. f \in Injection(1 .. Len(q), 1 .. m)
  BY <1>1, <1>3 DEF Injection, IsInjective
<1>5. \A k \in Nat : IsFiniteSet(1 .. k) /\ Cardinality(1 .. k) = k
  <2> SUFFICES ASSUME NEW k \in Nat PROVE IsFiniteSet(1 .. k) /\ Cardinality(1 .. k) = k
    OBVIOUS
  <2>1. IsFiniteSet(1 .. k) /\ Cardinality(1 .. k) = IF 1 > k THEN 0 ELSE k - 1 + 1
    BY FS_Interval
  <2> QED
    BY <2>1
<1> HIDE DEF f
<1> QED
  BY <1>1, <1>4, <1>5, FS_Injection DEF ExistsInjection

LEMMA SeenEntries ==
  ASSUME NEW l, NEW s, NEW t, NEW m \in Nat, LedgerOf(l, s, t, m)
  PROVE  /\ \A i \in DOMAIN l.seen : /\ l.seen[i] = << <<t, l.seen[i][1][2]>>, Skew>>
                                     /\ l.seen[i][1][2] \in 1 .. m
         /\ SeenIds(l) \subseteq 1 .. m /\ LastId(l) \in 0 .. m
<1>1. \A i \in DOMAIN l.seen : l.seen[i] \in ({t} \X (1 .. m)) \X {Skew}
  BY ElementOfSeq, LenProperties DEF LedgerOf
<1>2. \A i \in DOMAIN l.seen : /\ l.seen[i] = << <<t, l.seen[i][1][2]>>, Skew>>
                               /\ l.seen[i][1][2] \in 1 .. m
  BY <1>1
<1>3. LastId(l) \in 0 .. m
  <2>1. CASE l.last = <<>>
    BY <2>1 DEF LastId
  <2>2. CASE l.last # <<>>
    <3>1. PICK q \in 1 .. m : l.last = << << <<t, "call", s>>, q >> >>
      BY <2>2 DEF LedgerOf
    <3>2. LastId(l) = q
      BY <2>2, <3>1 DEF LastId
    <3> QED
      BY <3>2
  <2> QED
    BY <2>1, <2>2
<1> QED
  BY <1>2, <1>3 DEF SeenIds

\* Nothing is swept: no entry has expired, and none is trimmed.
LEMMA SweptSame ==
  ASSUME NEW l, NEW s, NEW t, NEW m \in Nat, LedgerOf(l, s, t, m), m <= LedgerCapacity
  PROVE  Swept(l, 0) = l
<1>0. LedgerCapacity \in Nat \ {0} /\ Skew \in Nat
  BY LedgerAssumption
<1>1. Unexpired(l.seen, 0) = l.seen
  <2>1. \A i \in DOMAIN l.seen : 0 <= l.seen[i][2]
    <3> SUFFICES ASSUME NEW i \in DOMAIN l.seen PROVE 0 <= l.seen[i][2]
      OBVIOUS
    <3>1. l.seen[i] = << <<t, l.seen[i][1][2]>>, Skew>>
      BY SeenEntries
    <3>2. l.seen[i][2] = Skew
      BY <3>1
    <3> QED
      BY <3>2, <1>0
  <2> QED
    BY <2>1 DEF Unexpired
<1>2. Trim(l.seen) = l.seen
  <2>1. Len(l.seen) <= m
    BY SeenFew DEF LedgerOf
  <2>2. Len(l.seen) \in Nat
    BY LenProperties DEF LedgerOf
  <2> QED
    BY <1>0, <2>1, <2>2 DEF Trim
<1>3. Trim(l.last) = l.last
  <2>1. CASE l.last = <<>>
    BY <1>0, <2>1, EmptySeq DEF Trim
  <2>2. CASE l.last # <<>>
    <3>1. PICK q \in 1 .. m : l.last = << << <<t, "call", s>>, q >> >>
      BY <2>2 DEF LedgerOf
    <3>2. Len(l.last) = 1
      BY <3>1
    <3> QED
      BY <1>0, <3>2 DEF Trim
  <2> QED
    BY <2>1, <2>2
<1>4. Trim(Unexpired(l.ended, 0)) = l.ended
  <2>1. l.ended = <<>>
    BY DEF LedgerOf
  <2>2. DOMAIN <<>> = {} /\ Len(<<>>) = 0
    BY EmptySeq
  <2>3. Unexpired(<<>>, 0) = <<>>
    BY <2>2 DEF Unexpired
  <2> QED
    BY <1>0, <2>1, <2>2, <2>3 DEF Trim
<1> QED
  BY <1>1, <1>2, <1>3, <1>4 DEF Swept, LedgerOf

Admitted(l, e) == Refusal(l, e, 0) = ""

\* A signal of the peer in the call.
Wellsent(e, s, t, m) ==
  /\ e.sender = t /\ e.call = "call" /\ e.expires = 0 /\ e.id \in 1 .. m
  /\ e.target = s /\ e.seq = e.id /\ ~Terminal(e.type)

LEMMA RefusedKeeps ==
  ASSUME NEW l, NEW s, NEW t, NEW m \in Nat, LedgerOf(l, s, t, m), m <= LedgerCapacity,
         NEW e, ~Admitted(l, e)
  PROVE  AfterSignal(l, e, 0) = l
  BY SweptSame DEF AfterSignal, Admitted

LEMMA Admits ==
  ASSUME NEW l, NEW s, NEW t, NEW m \in Nat, LedgerOf(l, s, t, m), m <= LedgerCapacity,
         NEW e, Wellsent(e, s, t, m)
  PROVE  /\ Admitted(l, e) <=>
              e.id \notin SeenIds(l) /\ (e.type = "ice_candidate" \/ LastId(l) <= e.id)
         /\ Repeated(l, e) <=> e.id \in SeenIds(l)
<1>1. Swept(l, 0) = l
  BY SweptSame
<1>2. ~(0 > e.expires + Skew)
  BY LedgerAssumption DEF Wellsent
<1>3. Repeated(l, e) <=> e.id \in SeenIds(l)
  <2>1. \A i \in DOMAIN l.seen : l.seen[i][1] = <<t, l.seen[i][1][2]>>
    <3> SUFFICES ASSUME NEW i \in DOMAIN l.seen PROVE l.seen[i][1] = <<t, l.seen[i][1][2]>>
      OBVIOUS
    <3>1. l.seen[i] = << <<t, l.seen[i][1][2]>>, Skew>>
      BY SeenEntries
    <3> QED
      BY <3>1
  <2>2. Repeated(l, e) <=> \E i \in DOMAIN l.seen : l.seen[i][1] = <<t, e.id>>
    BY DEF Repeated, Has, Keys, SeenKey, Wellsent
  <2>3. \A i \in DOMAIN l.seen : l.seen[i][1] = <<t, e.id>> <=> l.seen[i][1][2] = e.id
    BY <2>1
  <2> QED
    BY <2>2, <2>3 DEF SeenIds
<1>4. ~Has(l.ended, CallScope(e))
  <2>1. l.ended = <<>> /\ DOMAIN <<>> = {}
    BY EmptySeq DEF LedgerOf
  <2> QED
    BY <2>1 DEF Has, Keys
<1>5. Outdated(l, e) <=> e.type # "ice_candidate" /\ e.id < LastId(l)
  <2>1. SequenceScope(e) = <<t, "call", s>> /\ e.seq = e.id /\ e.id > 0 /\ e.id \in Nat
    BY DEF Wellsent, SequenceScope
  <2>2. CASE l.last = <<>>
    <3>1. ~Has(l.last, SequenceScope(e))
      BY <2>2, EmptySeq DEF Has, Keys
    <3>2. LastId(l) = 0
      BY <2>2 DEF LastId
    <3> QED
      BY <2>1, <3>1, <3>2 DEF Outdated
  <2>3. CASE l.last # <<>>
    <3>1. PICK q \in 1 .. m : l.last = << << <<t, "call", s>>, q >> >>
      BY <2>3 DEF LedgerOf
    <3>2. DOMAIN l.last = {1} /\ l.last[1] = << <<t, "call", s>>, q >>
      BY <3>1
    <3>3. Has(l.last, SequenceScope(e)) /\ At(l.last, SequenceScope(e)) = q
      BY <2>1, <3>2 DEF Has, Keys, At
    <3>4. LastId(l) = q
      BY <2>3, <3>2 DEF LastId
    <3> QED
      BY <2>1, <3>3, <3>4 DEF Outdated
  <2> QED
    BY <2>2, <2>3
<1>6. ~Terminal(e.type)
  BY DEF Wellsent
<1>7. LastId(l) \in Nat /\ e.id \in Nat
  BY SeenEntries DEF Wellsent
<1> QED
  BY <1>1, <1>2, <1>3, <1>4, <1>5, <1>6, <1>7 DEF Refusal, Admitted

\* An admitted signal is remembered, and its sequence unless it is a candidate.
LEMMA AdmittedLedger ==
  ASSUME NEW l, NEW s, NEW t, NEW m \in Nat, LedgerOf(l, s, t, m), m <= LedgerCapacity,
         NEW e, Wellsent(e, s, t, m), Admitted(l, e)
  PROVE  /\ LedgerOf(AfterSignal(l, e, 0), s, t, m)
         /\ SeenIds(AfterSignal(l, e, 0)) = SeenIds(l) \cup {e.id}
         /\ LastId(AfterSignal(l, e, 0)) = IF e.type = "ice_candidate" THEN LastId(l) ELSE e.id
<1> DEFINE k == << <<t, e.id>>, Skew>>
           seen2 == Append(l.seen, k)
           after == AfterSignal(l, e, 0)
<1>0. LedgerCapacity \in Nat \ {0} /\ Skew \in Nat
  BY LedgerAssumption
<1>1. /\ Swept(l, 0) = l /\ e.id \notin SeenIds(l) /\ ~Repeated(l, e)
      /\ e.type = "ice_candidate" \/ LastId(l) <= e.id
  BY SweptSame, Admits
<1>2. k \in ({t} \X (1 .. m)) \X {Skew} /\ k[1][2] = e.id
  BY DEF Wellsent
<1>3. l.seen \in Seq(({t} \X (1 .. m)) \X {Skew})
  BY DEF LedgerOf
<1>4. Put(l.seen, SeenKey(e), e.expires + Skew) = seen2
  <2>1. SeenKey(e) = <<t, e.id>> /\ e.expires + Skew = Skew
    BY <1>0 DEF SeenKey, Wellsent
  <2> QED
    BY <1>1, <2>1 DEF Put, Repeated
<1> HIDE DEF k
<1>5. /\ seen2 \in Seq(({t} \X (1 .. m)) \X {Skew}) /\ DOMAIN l.seen = 1 .. Len(l.seen)
      /\ Len(l.seen) \in Nat /\ DOMAIN seen2 = 1 .. Len(l.seen) + 1
      /\ \A i \in 1 .. Len(l.seen) : seen2[i] = l.seen[i]
      /\ seen2[Len(l.seen) + 1] = k
  BY <1>2, <1>3, Queued
<1> HIDE DEF seen2
<1>6. {seen2[i][1][2] : i \in DOMAIN seen2} = SeenIds(l) \cup {e.id}
  <2>1. \A i \in DOMAIN seen2 : i \in DOMAIN l.seen \/ i = Len(l.seen) + 1
    BY <1>5
  <2>2. Len(l.seen) + 1 \in DOMAIN seen2 /\ DOMAIN l.seen \subseteq DOMAIN seen2
    BY <1>5
  <2>3. seen2[Len(l.seen) + 1][1][2] = e.id
    BY <1>2, <1>5
  <2>4. \A i \in DOMAIN l.seen : seen2[i][1][2] = l.seen[i][1][2]
    BY <1>5
  <2> QED
    BY <2>1, <2>2, <2>3, <2>4 DEF SeenIds
<1>7. \A i, j \in DOMAIN seen2 : seen2[i][1][2] = seen2[j][1][2] => i = j
  <2>1. \A i \in DOMAIN l.seen : seen2[i][1][2] = l.seen[i][1][2] /\ l.seen[i][1][2] # e.id
    BY <1>1, <1>5 DEF SeenIds
  <2>2. seen2[Len(l.seen) + 1][1][2] = e.id
    BY <1>2, <1>5
  <2>3. \A i, j \in DOMAIN l.seen : l.seen[i][1][2] = l.seen[j][1][2] => i = j
    BY DEF LedgerOf
  <2>4. \A i \in DOMAIN seen2 : i \in DOMAIN l.seen \/ i = Len(l.seen) + 1
    BY <1>5
  <2> QED
    BY <2>1, <2>2, <2>3, <2>4
<1>8. Trim(seen2) = seen2
  <2>1. Len(seen2) <= m
    BY <1>5, <1>7, SeenFew
  <2>2. Len(seen2) \in Nat
    BY <1>5, LenProperties
  <2> QED
    BY <1>0, <2>1, <2>2 DEF Trim
<1>9. /\ Trim(Advanced(l.last, e)) = Advanced(l.last, e)
      /\ \/ Advanced(l.last, e) = l.last /\ (e.type = "ice_candidate" \/ LastId(l) = e.id)
         \/ e.type # "ice_candidate" /\ Advanced(l.last, e) = << << <<t, "call", s>>, e.id >> >>
  <2>1. SequenceScope(e) = <<t, "call", s>> /\ e.seq = e.id /\ e.id \in Nat
    BY DEF Wellsent, SequenceScope
  <2>2. Trim(l.last) = l.last
    BY <1>1 DEF Swept
  <2>3. \A q : Trim(<<q>>) = <<q>>
    BY <1>0 DEF Trim
  <2>4. CASE e.type = "ice_candidate"
    BY <2>2, <2>4 DEF Advanced
  <2>5. CASE e.type # "ice_candidate" /\ l.last = <<>>
    <3>1. ~Has(l.last, SequenceScope(e))
      BY <2>5, EmptySeq DEF Has, Keys
    <3>2. Advanced(l.last, e) = Append(<<>>, << SequenceScope(e), e.seq >>)
      BY <2>5, <3>1 DEF Advanced, Put
    <3>3. Advanced(l.last, e) = << << <<t, "call", s>>, e.id >> >>
      BY <2>1, <3>2
    <3> QED
      BY <2>3, <2>5, <3>3
  <2>6. CASE e.type # "ice_candidate" /\ l.last # <<>>
    <3>1. PICK q \in 1 .. m : l.last = << << <<t, "call", s>>, q >> >>
      BY <2>6 DEF LedgerOf
    <3>2. DOMAIN l.last = {1} /\ l.last[1] = << <<t, "call", s>>, q >>
      BY <3>1
    <3>3. Has(l.last, SequenceScope(e)) /\ At(l.last, SequenceScope(e)) = q
      BY <2>1, <3>2 DEF Has, Keys, At
    <3>4. LastId(l) = q
      BY <2>6, <3>2 DEF LastId
    <3>5. q <= e.id
      BY <1>1, <2>6, <3>4
    <3>6. CASE q = e.id
      <4>1. Advanced(l.last, e) = l.last
        BY <2>1, <3>3, <3>6 DEF Advanced
      <4> QED
        BY <2>2, <3>4, <3>6, <4>1
    <3>7. CASE q < e.id
      <4>1. Advanced(l.last, e) = Put(l.last, SequenceScope(e), e.seq)
        BY <2>1, <2>6, <3>3, <3>7 DEF Advanced
      <4>2. Put(l.last, SequenceScope(e), e.seq) =
              [i \in {1} |-> IF l.last[i][1] = SequenceScope(e) THEN <<SequenceScope(e), e.seq>> ELSE l.last[i]]
        BY <3>2, <3>3 DEF Put
      <4>3. Advanced(l.last, e) = [i \in {1} |-> << <<t, "call", s>>, e.id >>]
        BY <2>1, <3>2, <4>1, <4>2
      <4>4. Advanced(l.last, e) = << << <<t, "call", s>>, e.id >> >>
        BY <4>3
      <4> QED
        BY <2>3, <2>6, <4>4
    <3> QED
      BY <2>1, <3>5, <3>6, <3>7
  <2> QED
    BY <2>4, <2>5, <2>6
<1> DEFINE last2 == Advanced(l.last, e)
<1>10. after = [seen |-> seen2, last |-> last2, ended |-> <<>>]
  <2>1. ~Terminal(e.type) /\ l.ended = <<>>
    BY DEF Wellsent, LedgerOf
  <2> QED
    BY <1>1, <1>4, <1>8, <1>9, <2>1 DEF AfterSignal, Admitted
<1> HIDE DEF last2, after
<1>11. after.seen = seen2 /\ after.last = last2 /\ after.ended = <<>>
  BY <1>10
<1>12. SeenIds(after) = SeenIds(l) \cup {e.id}
  BY <1>6, <1>11 DEF SeenIds
<1>13. LastId(after) = IF e.type = "ice_candidate" THEN LastId(l) ELSE e.id
  <2>1. CASE last2 = l.last /\ (e.type = "ice_candidate" \/ LastId(l) = e.id)
    <3>1. LastId(after) = LastId(l)
      BY <1>11, <2>1 DEF LastId
    <3> QED
      BY <2>1, <3>1
  <2>2. CASE e.type # "ice_candidate" /\ last2 = << << <<t, "call", s>>, e.id >> >>
    <3>1. last2 # <<>> /\ last2[1][2] = e.id
      BY <2>2
    <3> QED
      BY <1>11, <2>2, <3>1 DEF LastId
  <2> QED
    BY <1>9, <2>1, <2>2 DEF last2
<1>14. last2 = <<>> \/ \E q \in 1 .. m : last2 = << << <<t, "call", s>>, q >> >>
  BY <1>9 DEF last2, LedgerOf, Wellsent
<1>15. LedgerOf(after, s, t, m)
  BY <1>5, <1>7, <1>10, <1>11, <1>14 DEF LedgerOf
<1> QED
  BY <1>12, <1>13, <1>15 DEF after

-----------------------------------------------------------------------------
(* What a page holds                                                       *)

LEMMA PageUpdates ==
  ASSUME NEW p \in Pages, NEW b \in BOOLEAN, NEW k \in Nat, NEW r \in SUBSET Nat,
         NEW c \in {"new", "checking", "connected", "failed"}, NEW o \in {"none", "offer", "finish", "gone"}
  PROVE  /\ [p EXCEPT !.call = b] \in Pages /\ [p EXCEPT !.link = b] \in Pages
         /\ [p EXCEPT !.peer = b] \in Pages
         /\ [p EXCEPT !.conn = c] \in Pages /\ [p EXCEPT !.needs = b] \in Pages
         /\ [p EXCEPT !.restarting = b] \in Pages /\ [p EXCEPT !.attempts = k] \in Pages
         /\ [p EXCEPT !.timer = b] \in Pages /\ [p EXCEPT !.recovering = r] \in Pages
         /\ [p EXCEPT !.loss = b] \in Pages /\ [p EXCEPT !.todo = o] \in Pages
  BY DEF Pages

Sound(p) == p \in Pages /\ (p.todo = "finish" => p.conn # "connected")
Continues(p2, p) == Sound(p2) /\ p2.call = p.call

LEMMA TimedPage ==
  ASSUME NEW p, Sound(p)
  PROVE  Continues(Timed(p), p)
  BY DEF Continues, Sound, Timed, Pages

LEMMA OfferingPage ==
  ASSUME NEW p, Sound(p)
  PROVE  Continues([p EXCEPT !.needs = FALSE, !.restarting = TRUE, !.attempts = @ + 1, !.todo = "offer"], p)
<1> DEFINE k == p.attempts + 1
           q == [p EXCEPT !.needs = FALSE, !.restarting = TRUE, !.attempts = k, !.todo = "offer"]
<1>1. p \in Pages /\ k \in Nat
  BY DEF Sound, Pages
<1> HIDE DEF k
<1>2. q \in Pages
  BY <1>1 DEF Pages
<1>3. q.call = p.call /\ q.todo = "offer"
  BY <1>1 DEF Pages
<1> QED
  BY <1>2, <1>3 DEF Continues, Sound, k

LEMMA RestartPage ==
  ASSUME NEW p, Sound(p), NEW s \in Sides, NEW sig
  PROVE  Continues(Restart(s, p, sig), p)
<1>1. CASE p.conn = "connected"
  BY <1>1 DEF Restart, Continues, Sound
<1>2. CASE p.conn # "connected"
  <2>1. Continues(Timed(p), p)
    BY TimedPage
  <2>2. Continues([p EXCEPT !.todo = "finish"], p)
    BY <1>2 DEF Continues, Sound, Pages
  <2>3. Continues([p EXCEPT !.needs = FALSE, !.restarting = TRUE, !.attempts = @ + 1, !.todo = "offer"], p)
    BY OfferingPage
  <2> QED
    BY <1>2, <2>1, <2>2, <2>3 DEF Restart
<1> QED
  BY <1>1, <1>2

LEMMA FailingPage ==
  ASSUME NEW p, Sound(p), NEW s \in Sides
  PROVE  Continues(Failing(s, p), p)
<1> DEFINE q == [p EXCEPT !.needs = TRUE]
<1>1. Continues(q, p)
  BY DEF Continues, Sound, Pages
<1> HIDE DEF q
<1>2. Continues(Timed(q), q) /\ Continues(Restart(s, q, rtc[s].signaling), q)
  BY <1>1, TimedPage, RestartPage DEF Continues
<1>3. Failing(s, p) \in {p, Timed(q), Restart(s, q, rtc[s].signaling)}
  BY DEF Failing, q
<1>4. Continues(p, p)
  BY DEF Continues
<1> QED
  BY <1>1, <1>2, <1>3, <1>4 DEF Continues
-----------------------------------------------------------------------------
(* The pages, step by step                                                 *)

\* A page without a call holds nothing of it.
Emptied(p) == ~p.call => p = NoCall
PagesSound == /\ page = [x \in Sides |-> page[x]]
              /\ \A x \in Sides : Sound(page[x]) /\ Emptied(page[x])

LEMMA NoCallPage == Sound(NoCall) /\ ~NoCall.call /\ ~NoCall.peer /\ ~NoCall.link /\ ~NoCall.timer /\ ~NoCall.loss
                    /\ NoCall.todo = "none" /\ ~NoCall.needs /\ NoCall.conn = "new" /\ ~NoCall.restarting
  BY DEF Sound, NoCall, Talking, Pages

CallsKept == \A x \in Sides : page'[x].call = page[x].call

\* One page changes, and what it becomes is sound.
LEMMA PageBecomes ==
  ASSUME PagesSound, NEW s \in Sides, NEW p, Sound(p), Emptied(p), Become(s, p)
  PROVE  PagesSound'
<1>1. page' = [page EXCEPT ![s] = p]
  BY DEF Become
<1>2. page' = [x \in Sides |-> page'[x]]
  BY <1>1 DEF PagesSound
<1>3. \A x \in Sides : page'[x] = IF x = s THEN p ELSE page[x]
  BY <1>1 DEF PagesSound
<1>4. \A x \in Sides : (Sound(page[x]) /\ Emptied(page[x]))'
  <2> SUFFICES ASSUME NEW x \in Sides PROVE Sound(page'[x]) /\ Emptied(page'[x])
    BY DEF Sound, Emptied, Pages, NoCall, Talking
  <2> QED
    BY <1>3 DEF PagesSound
<1> QED
  BY <1>2, <1>4 DEF PagesSound

LEMMA PageStays ==
  ASSUME PagesSound, UNCHANGED page
  PROVE  PagesSound' /\ CallsKept
  BY DEF CallsKept, PagesSound, Sound, Emptied, Pages, NoCall, Talking

\* A page in a call goes on.
LEMMA PageGoesOn ==
  ASSUME PagesSound, NEW s \in Sides, NEW p, Continues(p, page[s]), page[s].call, Become(s, p)
  PROVE  PagesSound' /\ CallsKept
<1>1. Sound(p) /\ Emptied(p)
  BY DEF Continues, Emptied
<1>2. \A x \in Sides : page'[x] = IF x = s THEN p ELSE page[x]
  BY DEF Become, PagesSound
<1> QED
  BY <1>1, <1>2, PageBecomes DEF CallsKept, Continues

\* A page that holds anything of a call is in it.
LEMMA Talks ==
  ASSUME PagesSound, NEW s \in Sides,
         page[s].peer \/ page[s].link \/ page[s].timer \/ page[s].loss \/ page[s].needs \/ page[s].todo # "none"
  PROVE  page[s].call
  BY NoCallPage DEF PagesSound, Emptied

LEMMA Idles ==
  ASSUME PagesSound, NEW s \in Sides
  PROVE  Sound(page[s]) /\ page[s] \in Pages
  BY DEF PagesSound, Sound

LEMMA LinkStepPage ==
  ASSUME PagesSound, NEW s \in Sides, page[s].call, LinkStep(s), LinkInv
  PROVE  PagesSound' /\ CallsKept
<1> DEFINE p == page[s]
<1>0. Sound(p) /\ p \in Pages /\ p.todo = "none"
  BY Idles DEF LinkStep, Idle
<1>1. Continues(p, p) /\ Continues(Timed(p), p)
  BY <1>0, TimedPage DEF Continues
<1> HIDE DEF p
<1>2. PICK i \in DOMAIN chain[s] :
         LET n == IF chain[s][i].op = "ice_candidate" THEN None ELSE chain[s][i].n IN
         \/ UNCHANGED page
         \/ Become(s, AfterOffer(s, n))
         \/ Become(s, Checking(AfterAnswering(s, n), n))
         \/ Become(s, [page[s] EXCEPT !.needs = FALSE])
         \/ Become(s, Checking([Stabilised(s, page[s]) EXCEPT !.needs = FALSE], n))
  BY DEF LinkStep
<1> DEFINE n == IF chain[s][i].op = "ice_candidate" THEN None ELSE chain[s][i].n
<1> HIDE DEF n
<1>3. Continues(AfterOffer(s, n), p)
  BY <1>1 DEF AfterOffer, p
<1>4. \A q : Continues(q, p) /\ q.todo # "finish" => Continues(Checking(q, n), p)
  BY DEF Checking, Continues, Sound, Pages
<1>5. Continues(AfterAnswering(s, n), p) /\ AfterAnswering(s, n).todo # "finish"
  <2> DEFINE r == p.recovering \ {n}
             q == [p EXCEPT !.needs = FALSE, !.restarting = TRUE, !.recovering = r]
  <2>1. r \in SUBSET Nat
    BY <1>0 DEF Pages
  <2> HIDE DEF r
  <2>2. q \in Pages
    BY <1>0, <2>1 DEF Pages
  <2>3. q.call = p.call /\ q.todo = "none"
    BY <1>0 DEF Pages
  <2> HIDE DEF q
  <2>4. Continues(q, p)
    BY <2>2, <2>3 DEF Continues, Sound
  <2>5. Continues(Timed(q), q) /\ Timed(q).todo = "none"
    BY <2>3, <2>4, TimedPage DEF Continues, Timed, Sound, Pages
  <2>6. AfterAnswering(s, n) \in {p, Timed(q)}
    BY DEF AfterAnswering, p, q, r
  <2> QED
    BY <1>0, <1>1, <2>4, <2>5, <2>6 DEF Continues
<1>6. Continues([p EXCEPT !.needs = FALSE], p)
  BY <1>0 DEF Continues, Sound, Pages
<1>7. CASE Become(s, Checking([Stabilised(s, page[s]) EXCEPT !.needs = FALSE], n))
  <2> DEFINE q == Stabilised(s, p)
             q1 == [q EXCEPT !.needs = FALSE]
             q2 == Checking(q1, n)
  <2>1. Continues(q, p)
    BY <1>0, <1>1, RestartPage DEF Stabilised
  <2> HIDE DEF q
  <2>2. Continues(q1, p)
    BY <2>1 DEF Continues, Sound, Pages
  <2> HIDE DEF q1
  <2>3. Continues(q2, p)
    BY <2>2 DEF Checking, Continues, Sound, Pages
  <2>4. Become(s, q2)
    BY <1>7 DEF q, q1, q2, p
  <2> QED
    BY <2>3, <2>4, PageGoesOn DEF p
<1> QED
  BY <1>2, <1>3, <1>4, <1>5, <1>6, <1>7, PageGoesOn, PageStays DEF p, n

LEMMA FailingMoves ==
  ASSUME PagesSound, NEW s \in Sides, MediaDown(s)
  PROVE  PagesSound' /\ CallsKept
<1> DEFINE q == [page[s] EXCEPT !.conn = "failed"]
<1>1. page[s] \in Pages /\ page[s].call /\ page[s].todo = "none"
  BY Idles, Talks DEF MediaDown, Idle
<1>2. Continues(q, page[s])
  BY <1>1 DEF Continues, Sound, Pages
<1>3. Become(s, Failing(s, q))
  BY DEF MediaDown
<1> HIDE DEF q
<1>4. Continues(Failing(s, q), page[s])
  BY <1>2, FailingPage DEF Continues
<1> QED
  BY <1>1, <1>3, <1>4, PageGoesOn

LEMMA UpPage ==
  ASSUME PagesSound, NEW s \in Sides, MediaUp(s)
  PROVE  PagesSound' /\ CallsKept
<1> DEFINE q == Steady(page[s])
           q2 == [q EXCEPT !.conn = "connected"]
<1>1. page[s] \in Pages /\ page[s].call /\ page[s].todo = "none"
  BY Idles, Talks DEF MediaUp, Idle
<1>2. q \in Pages /\ q.call = page[s].call /\ q.todo = "none"
  BY <1>1 DEF Steady, Pages
<1>3. Become(s, q2)
  BY DEF MediaUp
<1> HIDE DEF q
<1>4. Continues(q2, page[s])
  BY <1>2 DEF Continues, Sound, Pages
<1> QED
  BY <1>1, <1>3, <1>4, PageGoesOn

LEMMA TimeoutPage ==
  ASSUME PagesSound, NEW s \in Sides, RestartTimeout(s)
  PROVE  PagesSound' /\ CallsKept
<1> DEFINE o == IF page[s].conn = "connected" THEN "none" ELSE "finish"
           q == [page[s] EXCEPT !.timer = FALSE, !.todo = o]
<1>1. page[s] \in Pages /\ page[s].call /\ o \in {"none", "finish"} /\ (o = "finish" => page[s].conn # "connected")
  BY Idles, Talks DEF RestartTimeout
<1>2. Become(s, q)
  BY DEF RestartTimeout
<1> HIDE DEF o
<1>3. Continues(q, page[s])
  BY <1>1 DEF Continues, Sound, Pages
<1> QED
  BY <1>1, <1>2, <1>3, PageGoesOn

\* A page stops what it was about to do.
LEMMA DonePage ==
  ASSUME PagesSound, NEW s \in Sides, page[s].todo # "none", Become(s, [page[s] EXCEPT !.todo = "none"])
  PROVE  PagesSound' /\ CallsKept
<1>1. page[s] \in Pages /\ page[s].call
  BY Idles, Talks
<1>2. Continues([page[s] EXCEPT !.todo = "none"], page[s])
  BY <1>1 DEF Continues, Sound, Pages
<1> QED
  BY <1>1, <1>2, PageGoesOn

LEMMA ClosedPage ==
  ASSUME PagesSound, NEW s \in Sides, CloseLink(s)
  PROVE  PagesSound'
  BY NoCallPage, PageBecomes DEF CloseLink, Emptied

LEMMA DropPages ==
  ASSUME PagesSound, NEW s \in Sides, SocketDrops(s)
  PROVE  PagesSound' /\ CallsKept
<1> DEFINE t == Other(s)
           q == [page[s] EXCEPT !.loss = page[s].call]
           r == IF page[t].link /\ open[t] THEN Failing(t, page[t]) ELSE page[t]
<1>0. t \in Sides /\ t # s /\ Sides = {s, t}
  BY TwoSides
<1> HIDE DEF t
<1>1. Sound(page[s]) /\ Sound(page[t]) /\ Emptied(page[s]) /\ Emptied(page[t])
  BY <1>0 DEF PagesSound
<1>2. Continues(q, page[s]) /\ Emptied(q)
  <2>1. Continues(q, page[s])
    BY <1>1 DEF Continues, Sound, Pages
  <2>2. CASE page[s].call
    BY <2>1, <2>2 DEF Continues, Emptied
  <2>3. CASE ~page[s].call
    <3>1. page[s] = NoCall
      BY <1>1, <2>3 DEF Emptied
    <3>2. q = NoCall
      BY <3>1 DEF NoCall, Talking
    <3> QED
      BY <2>1, <3>2 DEF Emptied
  <2> QED
    BY <2>1, <2>2, <2>3
<1>3. Continues(r, page[t]) /\ Emptied(r)
  <2>1. CASE page[t].link /\ open[t]
    <3>1. Continues(Failing(t, page[t]), page[t])
      BY <1>0, <1>1, FailingPage
    <3>2. page[t].call
      BY <1>0, <2>1, Talks
    <3> QED
      BY <2>1, <3>1, <3>2 DEF Continues, Emptied
  <2>2. CASE ~(page[t].link /\ open[t])
    BY <1>1, <2>2 DEF Continues
  <2> QED
    BY <2>1, <2>2
<1>4. page' = [page EXCEPT ![s] = q, ![t] = r]
  <2>1. page' = [page EXCEPT ![s].loss = page[s].call, ![t] = r]
    BY DEF SocketDrops, t
  <2> QED
    BY <2>1
<1> HIDE DEF q, r
<1>5. page'[s] = q /\ page'[t] = r /\ page' = [x \in Sides |-> page'[x]]
  BY <1>0, <1>4 DEF PagesSound
<1>6. \A x \in Sides : (Sound(page[x]) /\ Emptied(page[x]))'
  <2>1. Sound(page'[s]) /\ Emptied(page'[s]) /\ Sound(page'[t]) /\ Emptied(page'[t])
    BY <1>2, <1>3, <1>5 DEF Continues
  <2>2. \A x \in Sides : Sound(page'[x]) /\ Emptied(page'[x])
    BY <1>0, <2>1
  <2> QED
    BY <2>2 DEF Sound, Emptied, Pages, NoCall, Talking
<1> QED
  BY <1>0, <1>2, <1>3, <1>5, <1>6 DEF PagesSound, Continues, CallsKept

LEMMA ReopenPage ==
  ASSUME PagesSound, NEW s \in Sides, SocketReopens(s)
  PROVE  PagesSound' /\ CallsKept
<1> DEFINE p == Resumed(s)
           q == [p EXCEPT !.needs = FALSE, !.restarting = TRUE, !.attempts = @ + 1, !.todo = "offer"]
<1>1. CASE ~page[s].peer /\ Become(s, p)
  <2>1. page[s] \in Pages
    BY Idles
  <2>2. Continues(p, page[s])
    BY <2>1, Idles DEF Resumed, Continues, Sound, Pages
  <2>3. CASE page[s].call
    BY <1>1, <2>2, <2>3, PageGoesOn
  <2>4. CASE ~page[s].call
    <3>1. page[s] = NoCall
      BY <2>4 DEF PagesSound, Emptied
    <3>2. p = NoCall
      BY <3>1 DEF Resumed, NoCall, Talking
    <3>3. Become(s, page[s])
      BY <1>1, <3>1, <3>2
    <3>4. page' = page
      BY <3>3 DEF Become, PagesSound
    <3> QED
      BY <3>4, PageStays
  <2> QED
    BY <2>3, <2>4
<1>2. ASSUME page[s].peer,
             Become(s, IF page[s].needs /\ s = Initiator /\ page[s].link
                     THEN IF p.conn = "connected" THEN p
                          ELSE IF p.attempts >= MaxAttempts THEN [p EXCEPT !.todo = "finish"]
                          ELSE IF rtc[s].signaling # "stable" THEN Timed(p)
                          ELSE q
                     ELSE Resumed(s))
      PROVE  PagesSound' /\ CallsKept
  <2>1. page[s] \in Pages /\ page[s].todo = "none" /\ page[s].call
    BY <1>2, Idles, Talks DEF SocketReopens, Idle
  <2>2. p \in Pages /\ p.todo = "none" /\ p.call = page[s].call
    BY <2>1 DEF Resumed, Pages
  <2>3. PICK r : Become(s, r) /\ (r = p \/ (r = [p EXCEPT !.todo = "finish"] /\ p.conn # "connected")
                                  \/ r = Timed(p) \/ r = q)
    <3> DEFINE r == IF page[s].needs /\ s = Initiator /\ page[s].link
                     THEN IF p.conn = "connected" THEN p
                          ELSE IF p.attempts >= MaxAttempts THEN [p EXCEPT !.todo = "finish"]
                          ELSE IF rtc[s].signaling # "stable" THEN Timed(p)
                          ELSE q
                     ELSE Resumed(s)
    <3> HIDE DEF q
    <3>1. r = p \/ (r = [p EXCEPT !.todo = "finish"] /\ p.conn # "connected") \/ r = Timed(p) \/ r = q
      OBVIOUS
    <3> HIDE DEF r
    <3> QED
      BY <1>2, <3>1 DEF r, q
  <2> HIDE DEF p
  <2>4. Sound(p)
    BY <2>2 DEF Sound
  <2>5. Continues(p, p) /\ Continues(Timed(p), p) /\ Continues(q, p)
    BY <2>4, TimedPage, OfferingPage DEF Continues
  <2>6. p.conn # "connected" => Continues([p EXCEPT !.todo = "finish"], p)
    BY <2>2 DEF Continues, Sound, Pages
  <2> HIDE DEF q
  <2>7. Continues(r, page[s])
    BY <2>2, <2>3, <2>5, <2>6 DEF Continues
  <2> QED
    BY <2>1, <2>3, <2>7, PageGoesOn
<1> QED
  BY <1>1, <1>2 DEF SocketReopens

\* The page of a side in a call hears a signal.
LEMMA HeardPage ==
  ASSUME PagesSound, NEW s \in Sides, NEW e, WithCall(s, e), Idle(s),
         e.type = "call_offer" => e.content \in Nat
  PROVE  PagesSound' /\ CallsKept
<1>1. Sound(page[s]) /\ page[s] \in Pages /\ page[s].call /\ page[s].todo = "none"
  BY Idles DEF WithCall, Idle
<1>2. CASE UNCHANGED page
  BY <1>2, PageStays
<1>3. CASE Become(s, Resync(s))
  <2> DEFINE q == [page[s] EXCEPT !.needs = TRUE]
  <2>1. Continues(q, page[s])
    BY <1>1 DEF Continues, Sound, Pages
  <2>2. Resync(s) \in {page[s], Restart(s, q, rtc[s].signaling), [page[s] EXCEPT !.todo = "gone"]}
    BY DEF Resync
  <2> HIDE DEF q
  <2>3. Continues(Restart(s, q, rtc[s].signaling), q)
    BY <2>1, RestartPage DEF Continues
  <2>5. Continues([page[s] EXCEPT !.todo = "gone"], page[s])
    BY <1>1 DEF Continues, Sound, Pages
  <2>4. Continues(Resync(s), page[s])
    BY <1>1, <2>1, <2>2, <2>3, <2>5 DEF Continues
  <2> QED
    BY <1>1, <1>3, <2>4, PageGoesOn
<1>4. CASE e.type = "call_offer" /\ Become(s, BeforeAnswering(s, e.content))
  <2> DEFINE r == page[s].recovering \cup {e.content}
             p == [page[s] EXCEPT !.peer = TRUE, !.link = TRUE]
             q == [p EXCEPT !.timer = FALSE, !.recovering = r]
  <2>0. p \in Pages /\ p.call = page[s].call /\ p.todo = "none" /\ p.recovering = page[s].recovering
    BY <1>1 DEF Pages
  <2>1. r \in SUBSET Nat
    BY <1>1, <1>4 DEF Pages
  <2> HIDE DEF r
  <2>6. BeforeAnswering(s, e.content) \in {q, p}
    BY <2>0 DEF BeforeAnswering, r
  <2> HIDE DEF p
  <2>2. q \in Pages
    BY <2>0, <2>1 DEF Pages
  <2>3. q.call = page[s].call /\ q.todo = "none"
    BY <2>0 DEF Pages
  <2>4. Continues(q, page[s])
    BY <2>2, <2>3 DEF Continues, Sound
  <2>5. Continues(p, page[s])
    BY <2>0 DEF Continues, Sound
  <2> HIDE DEF q
  <2>7. Continues(BeforeAnswering(s, e.content), page[s])
    BY <2>4, <2>5, <2>6
  <2> QED
    BY <1>1, <1>4, <2>7, PageGoesOn
<1>5. CASE Become(s, [page[s] EXCEPT !.peer = TRUE])
  <2>1. Continues([page[s] EXCEPT !.peer = TRUE], page[s])
    BY <1>1 DEF Continues, Sound, Pages
  <2> QED
    BY <1>1, <1>5, <2>1, PageGoesOn
<1> QED
  BY <1>2, <1>3, <1>4, <1>5 DEF WithCall

-----------------------------------------------------------------------------
(* The steps, as the two links and the path between them see them          *)

CallsStay == UNCHANGED mode /\ CallsKept

\* Nothing but signals that disappear.
Still ==
  /\ CallsStay
  /\ UNCHANGED <<rtc, chain, sequence, sent, ledger>>
  /\ \A x \in Sides : wire'[x] \subseteq wire[x]

\* A task that sends nothing.
Works(s) ==
  /\ CallsStay /\ Alive(s)
  /\ UNCHANGED <<wire, sequence, sent, ledger>>
  /\ \E i \in DOMAIN chain[s] :
       \/ CreateOffer(s, i) \/ AbandonOffer(s, i) \/ IgnoreOffer(s, i) \/ ApplyOffer(s, i)
       \/ IgnoreAnswer(s, i) \/ BeginAnswer(s, i) \/ ApplyAnswer(s, i)
       \/ HoldCandidate(s, i) \/ AddCandidate(s, i)

\* A signal is sent, or lost at a closed socket.
Drawn(s, e) ==
  /\ sequence' = [sequence EXCEPT ![s] = @ + 1] /\ sent' = [sent EXCEPT ![s] = @ + 1]
  /\ \/ UNCHANGED wire
     \/ wire' = [wire EXCEPT ![Other(s)] = @ \cup {e}]
Speaks(s) ==
  /\ CallsStay /\ Alive(s) /\ UNCHANGED <<ledger, open>>
  /\ \E i \in DOMAIN chain[s] : SendOffer(s, i) \/ Answer(s, i)
Mentions(s) ==
  /\ CallsStay /\ Alive(s) /\ UNCHANGED <<ledger, chain>>
  /\ \A x \in Sides : /\ rtc'[x].signaling = rtc[x].signaling /\ rtc'[x].agreed = rtc[x].agreed
                      /\ rtc'[x].offered = rtc[x].offered /\ rtc'[x].heard = rtc[x].heard
                      /\ x # s => rtc'[x] = rtc[x]
  /\ \E n, type : type \in {"ice_candidate", "call_resync", "call_hangup"} /\ Drawn(s, Signal(s, type, n))

Asks(s) ==
  /\ CallsStay /\ Alive(s)
  /\ CallOffer(s)
  /\ UNCHANGED <<rtc, wire, sequence, sent, ledger>>

Hears(s) ==
  /\ CallsStay /\ Alive(s)
  /\ UNCHANGED <<rtc, sequence, sent>>
  /\ \E e \in Arriving(s) :
       /\ TakeOff(s, e)
       /\ ledger' = [ledger EXCEPT ![s] = AfterSignal(ledger[s], e, 0)]
       /\ \/ ~Admitted(ledger[s], e) /\ UNCHANGED chain
          \/ /\ Admitted(ledger[s], e)
             /\ ~Terminal(e.type)
             /\ \/ e.type \in Named /\ Serialize(s, TaskFor(e))
                \/ e.type \notin {"call_offer", "call_answer"} /\ UNCHANGED chain

\* A side is out of the call, and the signals of its peer go unanswered.
Farewell(s, e) ==
  /\ e.type = "call_hangup" /\ e.sender = s /\ e.call = "call" /\ e.expires = 0
  /\ e.id = sent[s] + 1 /\ sent'[s] = sent[s] + 1
Leaves(s) ==
  LET t == Other(s) IN
  /\ UNCHANGED mode /\ mode = "call" /\ page'[t].call = page[t].call /\ ~page'[s].call
  /\ rtc'[t] = rtc[t] /\ chain'[t] = chain[t] /\ ledger'[t] = ledger[t]
  /\ rtc'[s] = NewConnection /\ chain'[s] = <<>>
  /\ sequence'[t] = sequence[t] /\ sent'[t] = sent[t] /\ sent[s] <= sent'[s]
  /\ wire'[s] \subseteq wire[s]
  /\ \/ wire'[t] \subseteq wire[t]
     \/ \E e : Farewell(s, e) /\ wire'[t] \subseteq wire[t] \cup {e}

Moves == Still \/ \E s \in Sides : \/ Works(s) \/ Speaks(s) \/ Mentions(s) \/ Asks(s)
                                   \/ Hears(s) \/ Leaves(s)

\* A page without a call has no link.
Parted == \A x \in Sides : ~page[x].call => chain[x] = <<>> /\ rtc[x] = NewConnection

-----------------------------------------------------------------------------

\* A task runs at a page that is in the call.
LEMMA ChainTalks ==
  ASSUME Parted, NEW s \in Sides, NEW i \in DOMAIN chain[s]
  PROVE  page[s].call
<1>1. chain[s] = <<>> => DOMAIN chain[s] = {}
  BY EmptySeq
<1> QED
  BY <1>1 DEF Parted

LEMMA TaskMoves ==
  ASSUME NEW s \in Sides, NEW i \in DOMAIN chain[s], CallsStay, Alive(s),
         \/ CreateOffer(s, i) \/ AbandonOffer(s, i) \/ SendOffer(s, i)
         \/ IgnoreOffer(s, i) \/ ApplyOffer(s, i) \/ Answer(s, i)
         \/ IgnoreAnswer(s, i) \/ BeginAnswer(s, i) \/ ApplyAnswer(s, i)
         \/ HoldCandidate(s, i) \/ AddCandidate(s, i)
  PROVE  Moves
<1>1. CASE SendOffer(s, i) \/ Answer(s, i)
  <2>1. UNCHANGED <<ledger, open>>
    BY <1>1 DEF SendOffer, Answer
  <2> QED
    BY <1>1, <2>1 DEF Speaks, Moves
<1>2. CASE \/ CreateOffer(s, i) \/ AbandonOffer(s, i) \/ IgnoreOffer(s, i) \/ ApplyOffer(s, i)
           \/ IgnoreAnswer(s, i) \/ BeginAnswer(s, i) \/ ApplyAnswer(s, i)
           \/ HoldCandidate(s, i) \/ AddCandidate(s, i)
  <2>1. UNCHANGED pathVars
    BY <1>2 DEF CreateOffer, AbandonOffer, IgnoreOffer, ApplyOffer, IgnoreAnswer, BeginAnswer,
                ApplyAnswer, HoldCandidate, AddCandidate
  <2> QED
    BY <1>2, <2>1 DEF Works, Moves, pathVars
<1> QED
  BY <1>1, <1>2

LEMMA LinkStepMoves ==
  ASSUME LinkInv, PagesSound, Parted, mode = "call", UNCHANGED mode, NEW s \in Sides, LinkStep(s)
  PROVE  PagesSound' /\ Moves
<1>1. PICK i \in DOMAIN chain[s] :
         \/ CreateOffer(s, i) \/ AbandonOffer(s, i) \/ SendOffer(s, i)
         \/ IgnoreOffer(s, i) \/ ApplyOffer(s, i) \/ Answer(s, i)
         \/ IgnoreAnswer(s, i) \/ BeginAnswer(s, i) \/ ApplyAnswer(s, i)
         \/ HoldCandidate(s, i) \/ AddCandidate(s, i)
  BY DEF LinkStep
<1>2. page[s].call
  BY ChainTalks
<1>3. PagesSound' /\ CallsStay
  BY <1>2, LinkStepPage DEF CallsStay
<1> QED
  BY <1>1, <1>2, <1>3, TaskMoves DEF Alive

\* A candidate is gathered for a description.
LEMMA EmitMoves ==
  ASSUME LinkInv, CallsStay, NEW s \in Sides, NEW n, Alive(s),
         Update(s, [rtc[s] EXCEPT !.gathered = @ + 1]), Send(s, "ice_candidate", n),
         UNCHANGED <<chain, ledger>>
  PROVE  Moves
<1>1. Drawn(s, Signal(s, "ice_candidate", n))
  BY DEF Send, Drawn
<1>2. rtc[s] \in Connection /\ rtc \in [Sides -> Connection]
  BY DEF LinkInv
<1>3. \A x \in Sides : /\ rtc'[x].signaling = rtc[x].signaling /\ rtc'[x].agreed = rtc[x].agreed
                       /\ rtc'[x].offered = rtc[x].offered /\ rtc'[x].heard = rtc[x].heard
                       /\ x # s => rtc'[x] = rtc[x]
  <2> SUFFICES ASSUME NEW x \in Sides
               PROVE  /\ rtc'[x].signaling = rtc[x].signaling /\ rtc'[x].agreed = rtc[x].agreed
                      /\ rtc'[x].offered = rtc[x].offered /\ rtc'[x].heard = rtc[x].heard
                      /\ x # s => rtc'[x] = rtc[x]
    OBVIOUS
  <2>1. rtc'[x] = IF x = s THEN [rtc[s] EXCEPT !.gathered = @ + 1] ELSE rtc[x]
    BY <1>2 DEF Update
  <2> QED
    BY <1>2, <2>1 DEF Connection
<1> QED
  BY <1>1, <1>3 DEF Mentions, Moves

\* The end of a call at one side, whatever is sent and forgotten.
LEMMA ClosedMoves ==
  ASSUME LinkInv, PagesSound, mode = "call", UNCHANGED mode, NEW s \in Sides, CloseLink(s),
         NEW k, sequence' = [sequence EXCEPT ![s] = k], sent[s] <= sent'[s], NEW j, sent' = [sent EXCEPT ![s] = j],
         NEW l, ledger' = [ledger EXCEPT ![s] = l],
         wire'[s] \subseteq wire[s],
         \/ wire'[Other(s)] \subseteq wire[Other(s)]
         \/ \E e : Farewell(s, e) /\ wire'[Other(s)] \subseteq wire[Other(s)] \cup {e}
  PROVE  PagesSound' /\ Moves
<1> DEFINE t == Other(s)
<1>1. t \in Sides /\ t # s
  BY TwoSides
<1>2. PagesSound'
  BY ClosedPage
<1> HIDE DEF t
<1>3. page'[t] = page[t] /\ ~page'[s].call
  BY <1>1, NoCallPage DEF CloseLink, Become, PagesSound
<1>4. rtc'[s] = NewConnection /\ chain'[s] = <<>> /\ rtc'[t] = rtc[t] /\ chain'[t] = chain[t]
  BY <1>1 DEF CloseLink, LinkInv
<1>5. sequence'[t] = sequence[t] /\ sent'[t] = sent[t] /\ ledger'[t] = ledger[t]
  BY <1>1 DEF LinkInv
<1>6. Leaves(s)
  BY <1>3, <1>4, <1>5 DEF Leaves, t
<1> QED
  BY <1>2, <1>6 DEF Moves

LEMMA HangUpMoves ==
  ASSUME LinkInv, PagesSound, mode = "call", UNCHANGED mode, NEW s \in Sides, NEW reason, HangUp(s, reason)
  PROVE  PagesSound' /\ Moves
<1> DEFINE t == Other(s)
           e == Goodbye(s, reason)
<1>1. t \in Sides /\ t # s
  BY TwoSides
<1>2. sent[s] \in Nat /\ sent'[s] = sent[s] + 1 /\ sent' = [sent EXCEPT ![s] = sent[s] + 1]
  BY DEF HangUp, LinkInv
<1>3. Farewell(s, e)
  BY <1>2 DEF Farewell, Goodbye, Signal
<1>4. wire'[s] \subseteq wire[s] /\ wire'[t] \subseteq wire[t] \cup {e}
  <2> HIDE DEF e
  <2>1. wire' = [wire EXCEPT ![t] = @ \cup {e}] \/ wire' = wire
    BY DEF HangUp, e
  <2> HIDE DEF t
  <2> QED
    BY <1>1, <2>1 DEF LinkInv
<1>5. /\ CloseLink(s) /\ sequence' = [sequence EXCEPT ![s] = 0]
      /\ ledger' = [ledger EXCEPT ![s] = EndedLedger(s, ledger[s])]
  BY DEF HangUp, Clear, LinkInv
<1> HIDE DEF e
<1>6. \E f : Farewell(s, f) /\ wire'[Other(s)] \subseteq wire[Other(s)] \cup {f}
  BY <1>3, <1>4
<1>7. sent[s] <= sent'[s]
  BY <1>2
<1>8. wire'[s] \subseteq wire[s]
  BY <1>4
<1> QED
  BY <1>2, <1>5, <1>6, <1>7, <1>8, ClosedMoves

LEMMA ClearMoves ==
  ASSUME LinkInv, PagesSound, mode = "call", UNCHANGED mode, NEW s \in Sides, Clear(s),
         UNCHANGED sent, \A x \in Sides : wire'[x] \subseteq wire[x]
  PROVE  PagesSound' /\ Moves
<1>1. Other(s) \in Sides
  BY TwoSides
<1>2. sent[s] <= sent'[s] /\ sent' = [sent EXCEPT ![s] = sent[s]]
  BY DEF LinkInv
<1>3. /\ CloseLink(s) /\ sequence' = [sequence EXCEPT ![s] = 0]
      /\ ledger' = [ledger EXCEPT ![s] = EndedLedger(s, ledger[s])]
  BY DEF Clear, LinkInv
<1> QED
  BY <1>1, <1>2, <1>3, ClosedMoves

-----------------------------------------------------------------------------

\* A signal leaves the wire of one browser, or none does.
LEMMA TakenAway ==
  ASSUME LinkInv, NEW s \in Sides, NEW e, TakeOff(s, e)
  PROVE  /\ \A x \in Sides : wire'[x] \subseteq wire[x]
         /\ \A x \in Sides : x # s => wire'[x] = wire[x]
  BY DEF TakeOff, LinkInv

\* A page without a call does not come back, whatever it hears.
LEMMA AbsentMoves ==
  ASSUME LinkInv, Parted, mode = "call", UNCHANGED mode, NEW s \in Sides, ~page[s].call, UNCHANGED page,
         UNCHANGED <<rtc, chain>>,
         NEW k, sequence' = [sequence EXCEPT ![s] = k], sent[s] <= sent'[s], NEW j, sent' = [sent EXCEPT ![s] = j],
         NEW l, ledger' = [ledger EXCEPT ![s] = l],
         wire'[s] \subseteq wire[s],
         \/ wire'[Other(s)] \subseteq wire[Other(s)]
         \/ \E e : Farewell(s, e) /\ wire'[Other(s)] \subseteq wire[Other(s)] \cup {e}
  PROVE  Moves
<1> DEFINE t == Other(s)
<1>1. t \in Sides /\ t # s
  BY TwoSides
<1> HIDE DEF t
<1>2. rtc[s] = NewConnection /\ chain[s] = <<>>
  BY DEF Parted
<1>3. sequence'[t] = sequence[t] /\ sent'[t] = sent[t] /\ ledger'[t] = ledger[t]
  BY <1>1 DEF LinkInv
<1>4. page'[t].call = page[t].call /\ ~page'[s].call
  OBVIOUS
<1>5. rtc'[s] = NewConnection /\ chain'[s] = <<>> /\ rtc'[t] = rtc[t] /\ chain'[t] = chain[t]
  BY <1>2
<1>6. Leaves(s)
  BY <1>3, <1>4, <1>5 DEF Leaves, t
<1> QED
  BY <1>6 DEF Moves

LEMMA WithoutCallMoves ==
  ASSUME LinkInv, PagesSound, Parted, mode = "call", UNCHANGED mode, NEW s \in Sides, NEW e \in wire[s],
         WithoutCall(s, e)
  PROVE  PagesSound' /\ Moves
<1> DEFINE t == Other(s)
           f == Signal(s, "call_hangup", "session_gone")
<1>1. t \in Sides /\ t # s
  BY TwoSides
<1>2. UNCHANGED page /\ UNCHANGED <<rtc, chain>> /\ ~page[s].call
      /\ ledger' = [ledger EXCEPT ![s] = AfterSignal(ledger[s], e, 0)]
  BY DEF WithoutCall, linkVars, LinkInv
<1>3. PagesSound'
  BY <1>2, PageStays
<1>4. CASE /\ wire' = [wire EXCEPT ![s] = @ \ {e}, ![t] = @ \cup {f}]
           /\ sequence' = [sequence EXCEPT ![s] = @ + 1]
           /\ sent' = [sent EXCEPT ![s] = @ + 1]
  <2>1. /\ sent[s] \in Nat /\ sent'[s] = sent[s] + 1 /\ sent' = [sent EXCEPT ![s] = sent[s] + 1]
        /\ sequence' = [sequence EXCEPT ![s] = sequence[s] + 1]
    BY <1>4 DEF LinkInv
  <2>2. Farewell(s, f)
    BY <2>1 DEF Farewell, Signal
  <2> HIDE DEF f
  <2>3. wire'[s] \subseteq wire[s] /\ wire'[t] \subseteq wire[t] \cup {f}
    <3> HIDE DEF t
    <3> QED
      BY <1>1, <1>4 DEF LinkInv
  <2>4. \E g : Farewell(s, g) /\ wire'[Other(s)] \subseteq wire[Other(s)] \cup {g}
    BY <2>2, <2>3
  <2>5. sent[s] <= sent'[s]
    BY <2>1
  <2>6. Moves
    BY <1>2, <2>1, <2>3, <2>4, <2>5, AbsentMoves
  <2> QED
    BY <1>3, <2>6
<1>5. CASE TakeOff(s, e) /\ UNCHANGED <<sequence, sent>>
  <2>1. \A x \in Sides : wire'[x] \subseteq wire[x]
    BY <1>5, TakenAway
  <2>2. /\ sent[s] <= sent'[s] /\ sent' = [sent EXCEPT ![s] = sent[s]]
        /\ sequence' = [sequence EXCEPT ![s] = sequence[s]]
    BY <1>5 DEF LinkInv
  <2>3. wire'[s] \subseteq wire[s] /\ wire'[Other(s)] \subseteq wire[Other(s)]
    BY <1>1, <2>1
  <2>4. Moves
    BY <1>2, <2>2, <2>3, AbsentMoves
  <2> QED
    BY <1>3, <2>4
<1> QED
  BY <1>4, <1>5 DEF WithoutCall

LEMMA DropMoves ==
  ASSUME LinkInv, PagesSound, Parted, mode = "call", UNCHANGED mode, NEW s \in Sides, NEW e \in Arriving(s),
         Drop(s, e)
  PROVE  PagesSound' /\ Moves
<1>1. /\ UNCHANGED page /\ UNCHANGED <<rtc, chain, sequence, sent>> /\ TakeOff(s, e)
      /\ ledger' = [ledger EXCEPT ![s] = AfterSignal(ledger[s], e, 0)] /\ ~Admitted(ledger[s], e)
  BY DEF Drop, linkVars, LinkInv, Admitted
<1>2. PagesSound' /\ CallsStay
  BY <1>1, PageStays DEF CallsStay
<1>3. CASE page[s].call
  <2>1. Hears(s)
    BY <1>1, <1>2, <1>3 DEF Hears, Alive
  <2> QED
    BY <1>2, <2>1 DEF Moves
<1>4. CASE ~page[s].call
  <2>1. wire'[s] \subseteq wire[s] /\ wire'[Other(s)] \subseteq wire[Other(s)]
    BY <1>1, TakenAway, TwoSides
  <2>2. /\ sent[s] <= sent'[s] /\ sent' = [sent EXCEPT ![s] = sent[s]]
        /\ sequence' = [sequence EXCEPT ![s] = sequence[s]]
    BY <1>1 DEF LinkInv
  <2>3. Moves
    BY <1>1, <1>4, <2>1, <2>2, AbsentMoves
  <2> QED
    BY <1>2, <2>3
<1> QED
  BY <1>3, <1>4

LEMMA WithCallMoves ==
  ASSUME LinkInv, PagesSound, mode = "call", UNCHANGED mode, NEW s \in Sides, NEW e \in Arriving(s),
         Idle(s), Admitted(ledger[s], e), WithCall(s, e)
  PROVE  PagesSound' /\ Moves
<1>0. e \in wire[s] /\ GoodSignal(e)
  BY DEF LinkInv, WireOK, Arriving
<1>1. /\ UNCHANGED <<rtc, sequence, sent>> /\ TakeOff(s, e) /\ ~Terminal(e.type) /\ page[s].call
      /\ ledger' = [ledger EXCEPT ![s] = AfterSignal(ledger[s], e, 0)]
  BY DEF WithCall, LinkInv
<1>2. e.type = "call_offer" => e.content \in Nat
  BY <1>0 DEF GoodSignal, Named, Made
<1>3. PagesSound' /\ CallsStay
  BY <1>2, HeardPage DEF CallsStay
<1>4. \/ e.type \in Named /\ Serialize(s, TaskFor(e))
      \/ e.type \notin {"call_offer", "call_answer"} /\ UNCHANGED chain
  BY <1>0, <1>1 DEF WithCall, ForTheLink, GoodSignal, Named, Terminal
<1>5. Hears(s)
  BY <1>1, <1>3, <1>4 DEF Hears, Alive
<1> QED
  BY <1>3, <1>5 DEF Moves

LEMMA PeerHangsUpMoves ==
  ASSUME LinkInv, PagesSound, mode = "call", UNCHANGED mode, NEW s \in Sides, NEW e, PeerHangsUp(s, e)
  PROVE  PagesSound' /\ Moves
<1>1. Other(s) \in Sides /\ Other(s) # s
  BY TwoSides
<1>2. wire'[s] \subseteq wire[s] /\ wire'[Other(s)] \subseteq wire[Other(s)]
  BY <1>1 DEF PeerHangsUp, LinkInv
<1>3. sent[s] <= sent'[s] /\ sent' = [sent EXCEPT ![s] = sent[s]]
  BY DEF PeerHangsUp, LinkInv
<1>4. CloseLink(s) /\ sequence' = [sequence EXCEPT ![s] = 0]
  BY DEF PeerHangsUp
<1>5. ledger' = [ledger EXCEPT ![s] = EndedLedger(s, AfterSignal(ledger[s], e, 0))]
  BY DEF PeerHangsUp, LinkInv
<1> QED
  BY <1>2, <1>3, <1>4, <1>5, ClosedMoves

LEMMA QuietMoves ==
  ASSUME LinkInv, PagesSound', CallsKept, UNCHANGED mode,
         UNCHANGED <<rtc, chain, sequence, sent, ledger>>, \A x \in Sides : wire'[x] \subseteq wire[x]
  PROVE  PagesSound' /\ Moves
  BY DEF Still, CallsStay, Moves

LEMMA ReopenMoves ==
  ASSUME LinkInv, PagesSound, mode = "call", UNCHANGED mode, NEW s \in Sides, SocketReopens(s)
  PROVE  PagesSound' /\ Moves
<1>1. PagesSound' /\ CallsKept
  BY ReopenPage
<1>2. UNCHANGED <<rtc, chain, ledger>>
  BY DEF SocketReopens
<1>3. CASE UNCHANGED <<wire, sequence, sent>>
  BY <1>1, <1>2, <1>3, QuietMoves
<1>4. CASE /\ page[s].peer
           /\ wire' = [wire EXCEPT ![Other(s)] = @ \cup {Signal(s, "call_resync", None)}]
           /\ sequence' = [sequence EXCEPT ![s] = @ + 1]
           /\ sent' = [sent EXCEPT ![s] = @ + 1]
  <2>1. Drawn(s, Signal(s, "call_resync", None))
    BY <1>4 DEF Drawn
  <2>2. page[s].call
    BY <1>4, Talks
  <2>3. Mentions(s)
    BY <1>1, <1>2, <2>1, <2>2 DEF Mentions, CallsStay, Alive
  <2> QED
    BY <1>1, <2>3 DEF Moves
<1> QED
  BY <1>3, <1>4 DEF SocketReopens

LEMMA GoneMoves ==
  ASSUME LinkInv, PagesSound, mode = "call", UNCHANGED mode, NEW s \in Sides, SayGone(s)
  PROVE  PagesSound' /\ Moves
<1>1. PagesSound' /\ CallsKept
  BY DonePage DEF SayGone
<1>2. page[s].call
  BY Talks DEF SayGone
<1>3. Drawn(s, Signal(s, "call_hangup", "session_gone")) /\ UNCHANGED <<rtc, chain, ledger>>
  BY DEF SayGone, Send, Drawn, linkVars
<1>4. Mentions(s)
  BY <1>1, <1>2, <1>3 DEF Mentions, CallsStay, Alive
<1> QED
  BY <1>1, <1>4 DEF Moves

LEMMA UndeliveredMoves ==
  ASSUME LinkInv, PagesSound, mode = "call", UNCHANGED mode, NEW s \in Sides, NEW e, Undelivered(s, e)
  PROVE  PagesSound' /\ Moves
<1>1. Other(s) \in Sides
  BY TwoSides
<1>2. \A x \in Sides : wire'[x] \subseteq wire[x]
  BY DEF Undelivered, LinkInv
<1>3. UNCHANGED sent
  BY DEF Undelivered
<1>4. CASE Clear(Other(s))
  BY <1>1, <1>2, <1>3, <1>4, ClearMoves
<1>5. CASE UNCHANGED <<linkVars, page, sequence, ledger>>
  <2>1. PagesSound' /\ CallsKept
    BY <1>5, PageStays
  <2> QED
    BY <1>2, <1>3, <1>5, <2>1, QuietMoves DEF linkVars
<1> QED
  BY <1>4, <1>5 DEF Undelivered

LEMMA CrashMoves ==
  ASSUME LinkInv, PagesSound, mode = "call", UNCHANGED mode, NEW s \in Sides, Crash(s)
  PROVE  PagesSound' /\ Moves
<1>1. Other(s) \in Sides
  BY TwoSides
<1>2. sent[s] <= sent'[s] /\ sent' = [sent EXCEPT ![s] = sent[s]]
  BY DEF Crash, LinkInv
<1>3. /\ CloseLink(s) /\ sequence' = [sequence EXCEPT ![s] = 0]
      /\ ledger' = [ledger EXCEPT ![s] = NoLedger]
  BY DEF Crash
<1>4. wire'[s] \subseteq wire[s] /\ wire'[Other(s)] \subseteq wire[Other(s)]
  BY DEF Crash
<1> QED
  BY <1>2, <1>3, <1>4, ClosedMoves

LEMMA CallMoves ==
  ASSUME LinkInv, PagesSound, Parted, mode = "call", UNCHANGED mode, NEW s \in Sides, PageStep(s)
  PROVE  PagesSound' /\ Moves
<1>1. CASE LinkStep(s)
  BY <1>1, LinkStepMoves
<1>2. CASE Gather(s)
  <2> DEFINE n == IF rtc[s].offered # None THEN rtc[s].offered ELSE rtc[s].agreed
  <2>1. page[s].call
    BY <1>2, Talks DEF Gather
  <2>2. PagesSound' /\ CallsStay
    BY <1>2, PageStays DEF Gather, CallsStay
  <2>3. /\ Update(s, [rtc[s] EXCEPT !.gathered = @ + 1]) /\ Send(s, "ice_candidate", n)
        /\ UNCHANGED <<chain, ledger>>
    BY <1>2 DEF Gather, EmitCandidate
  <2>4. Alive(s)
    BY <2>1 DEF Alive
  <2> HIDE DEF n
  <2> QED
    BY <2>2, <2>3, <2>4, EmitMoves
<1>3. CASE OfferNow(s)
  <2>1. PagesSound' /\ CallsKept
    BY <1>3, DonePage DEF OfferNow
  <2>2. page[s].call
    BY <1>3, Talks DEF OfferNow
  <2>3. Asks(s)
    BY <1>3, <2>1, <2>2 DEF OfferNow, Asks, CallsStay, Alive, pathVars
  <2> QED
    BY <2>1, <2>3 DEF Moves
<1>4. CASE GiveUp(s)
  <2>1. CASE HangUp(s, "connection_failed")
    BY <2>1, HangUpMoves
  <2>2. CASE Become(s, [page[s] EXCEPT !.todo = "none"]) /\ UNCHANGED vars
    <3>1. PagesSound' /\ CallsKept
      BY <1>4, <2>2, DonePage DEF GiveUp
    <3> QED
      BY <2>2, <3>1, QuietMoves DEF vars
  <2> QED
    BY <1>4, <2>1, <2>2 DEF GiveUp
<1>5. CASE MediaUp(s)
  <2>1. PagesSound' /\ CallsKept
    BY <1>5, UpPage
  <2> QED
    BY <1>5, <2>1, QuietMoves DEF MediaUp, vars
<1>6. CASE NetworkFails(s)
  <2>1. PagesSound' /\ CallsKept
    BY <1>6, FailingMoves DEF NetworkFails
  <2> QED
    BY <1>6, <2>1, QuietMoves DEF NetworkFails, linkVars
<1>7. CASE PeerClosed(s)
  <2>1. PagesSound' /\ CallsKept
    BY <1>7, FailingMoves DEF PeerClosed
  <2> QED
    BY <1>7, <2>1, QuietMoves DEF PeerClosed, vars
<1>8. CASE RestartTimeout(s)
  <2>1. PagesSound' /\ CallsKept
    BY <1>8, TimeoutPage
  <2> QED
    BY <1>8, <2>1, QuietMoves DEF RestartTimeout, vars
<1>9. CASE UserHangsUp(s)
  BY <1>9, HangUpMoves DEF UserHangsUp
<1>10. CASE SocketDrops(s)
  <2>1. PagesSound' /\ CallsKept
    BY <1>10, DropPages
  <2> QED
    BY <1>10, <2>1, QuietMoves DEF SocketDrops, linkVars
<1>11. CASE SocketReopens(s)
  BY <1>11, ReopenMoves
<1>12. CASE SignalLossTimeout(s)
  BY <1>12, ClearMoves DEF SignalLossTimeout
<1>13. CASE Crash(s)
  BY <1>13, CrashMoves
<1>14. CASE \E e \in wire[s] : Hear(s, e)
  <2>1. PICK e \in wire[s] : Hear(s, e)
    BY <1>14
  <2>2. e \in Arriving(s) /\ Idle(s)
    BY <2>1 DEF Hear
  <2>3. CASE Drop(s, e)
    BY <2>2, <2>3, DropMoves
  <2>4. CASE Admitted(ledger[s], e) /\ (WithoutCall(s, e) \/ PeerHangsUp(s, e) \/ WithCall(s, e))
    BY <2>2, <2>4, WithoutCallMoves, PeerHangsUpMoves, WithCallMoves
  <2> QED
    BY <2>1, <2>3, <2>4 DEF Hear, Admitted
<1>15. CASE \E e \in wire[s] : Undelivered(s, e)
  BY <1>15, UndeliveredMoves
<1>16. CASE SayGone(s)
  BY <1>16, GoneMoves
<1> QED
  BY <1>1, <1>2, <1>3, <1>4, <1>5, <1>6, <1>7, <1>8, <1>9, <1>10, <1>11, <1>12, <1>13, <1>14, <1>15, <1>16 DEF PageStep

\* The ledger of the instance is the ledger of the module.
LEMMA LibraryLedger ==
  ASSUME NEW l, NEW e
  PROVE  /\ Library!Refusal(l, e, 0) = Refusal(l, e, 0)
         /\ Library!AfterSignal(l, e, 0) = AfterSignal(l, e, 0)
<1>1. \A m : Library!Trim(m) = Trim(m)
  BY DEF Library!Trim, Trim
<1>2. \A m, k : Library!Has(m, k) <=> Has(m, k)
  BY DEF Library!Has, Has, Library!Keys, Keys
<1>3. \A m, k : Library!At(m, k) = At(m, k)
  BY DEF Library!At, At
<1>4. \A m, k, v : Library!Put(m, k, v) = Put(m, k, v)
  BY <1>2 DEF Library!Put, Put
<1>5. \A m : Library!Unexpired(m, 0) = Unexpired(m, 0)
  BY DEF Library!Unexpired, Unexpired
<1>6. Library!Swept(l, 0) = Swept(l, 0)
  BY <1>1, <1>5 DEF Library!Swept, Swept
<1>7. /\ Library!SeenKey(e) = SeenKey(e) /\ Library!CallScope(e) = CallScope(e)
      /\ Library!SequenceScope(e) = SequenceScope(e) /\ (Library!Terminal(e.type) <=> Terminal(e.type))
  BY DEF Library!SeenKey, SeenKey, Library!CallScope, CallScope, Library!SequenceScope, SequenceScope,
         Library!Terminal, Terminal
<1>8. \A m : (Library!Repeated(m, e) <=> Repeated(m, e)) /\ (Library!Outdated(m, e) <=> Outdated(m, e))
  BY <1>2, <1>3, <1>7 DEF Library!Repeated, Repeated, Library!Outdated, Outdated
<1>9. \A m : Library!Advanced(m, e) = Advanced(m, e)
  BY <1>2, <1>3, <1>4, <1>7 DEF Library!Advanced, Advanced
<1>10. Library!Refusal(l, e, 0) = Refusal(l, e, 0)
  BY <1>2, <1>6, <1>7, <1>8 DEF Library!Refusal, Refusal
<1>11. Library!AfterSignal(l, e, 0) = AfterSignal(l, e, 0)
  BY <1>1, <1>4, <1>6, <1>7, <1>9, <1>10 DEF Library!AfterSignal, AfterSignal
<1> QED
  BY <1>10, <1>11

\* Two browsers of the library hear each other in the order of sending.
InOrderHere(s, e) == \A f \in wire[s] : e.id <= f.id

LEMMA LibraryHears ==
  ASSUME NEW s \in Sides, NEW e \in wire[s], Library!Receive(s, e), LinkInv
  PROVE  /\ UNCHANGED <<rtc, sequence, sent, open>> /\ TakeOff(s, e) /\ InOrderHere(s, e)
         /\ ledger' = [ledger EXCEPT ![s] = AfterSignal(ledger[s], e, 0)]
         /\ \/ ~Admitted(ledger[s], e) /\ UNCHANGED <<chain, nego>>
            \/ Admitted(ledger[s], e) /\ Serialize(s, TaskFor(e)) /\ nego' = [nego EXCEPT ![s] = Learn(s, e)]
<1>1. UNCHANGED <<rtc, sequence, sent, open>> /\ InOrderHere(s, e)
  BY DEF Library!Receive, Library!Arriving, InOrderHere
<1>2. ledger' = [ledger EXCEPT ![s] = AfterSignal(ledger[s], e, 0)]
  BY LibraryLedger DEF Library!Receive, LinkInv
<1>3. TakeOff(s, e)
  <2>1. faults < 1 => faults < MaxFaults
    BY LibraryBounds, LinkAssumption DEF LinkInv
  <2> QED
    BY <2>1 DEF Library!Receive, Library!TakeOff, TakeOff
<1>4. \/ ~Admitted(ledger[s], e) /\ UNCHANGED <<chain, nego>>
      \/ Admitted(ledger[s], e) /\ Serialize(s, TaskFor(e)) /\ nego' = [nego EXCEPT ![s] = Learn(s, e)]
  BY LibraryLedger, LibraryNames DEF Library!Receive, Library!Serialize, Serialize, Admitted
<1> QED
  BY <1>1, <1>2, <1>3, <1>4

LEMMA LibraryMoves ==
  ASSUME LinkInv, mode = "library", UNCHANGED <<mode, page>>, Library!Next
  PROVE  Moves
<1>0. CallsStay /\ \A s \in Sides : Alive(s)
  BY DEF CallsStay, CallsKept, Alive
<1>1. PICK s \in Sides :
         \/ Library!TaskStep(s) \/ Library!EmitCandidate(s)
         \/ Library!Offer(s) \/ Library!LoseSignal(s)
         \/ \E e \in wire[s] : Library!Receive(s, e)
  BY DEF Library!Next
<1>2. CASE Library!TaskStep(s)
  <2>1. PICK i \in DOMAIN chain[s] :
          \/ CreateOffer(s, i) \/ AbandonOffer(s, i) \/ SendOffer(s, i)
          \/ IgnoreOffer(s, i) \/ ApplyOffer(s, i) \/ Answer(s, i)
          \/ IgnoreAnswer(s, i) \/ BeginAnswer(s, i) \/ ApplyAnswer(s, i)
          \/ HoldCandidate(s, i) \/ AddCandidate(s, i)
    BY <1>2, LibraryTasks DEF Library!TaskStep
  <2> QED
    BY <1>0, <2>1, TaskMoves
<1>3. CASE Library!EmitCandidate(s)
  <2> DEFINE n == IF rtc[s].offered # None THEN rtc[s].offered ELSE rtc[s].agreed
  <2>1. /\ Update(s, [rtc[s] EXCEPT !.gathered = @ + 1])
        /\ Send(s, "ice_candidate", n)
        /\ UNCHANGED <<chain, ledger>>
    BY <1>3, LibraryNames, LibrarySend DEF Library!EmitCandidate, Library!Update, Update
  <2> HIDE DEF n
  <2> QED
    BY <1>0, <2>1, EmitMoves
<1>4. CASE Library!Offer(s)
  <2>1. made < 3 /\ made' = made + 1 /\ Serialize(s, OfferTask(made + 1))
    BY <1>4, LibraryNames DEF Library!Offer, Library!CallOffer, Library!Serialize, Serialize
  <2>2. made < MaxOffers
    BY <2>1, LibraryBounds, LinkAssumption DEF LinkInv
  <2>3. CallOffer(s)
    BY <2>1, <2>2 DEF CallOffer
  <2>4. UNCHANGED <<rtc, wire, sequence, sent, ledger>>
    BY <1>4 DEF Library!Offer, Library!pathVars
  <2> QED
    BY <1>0, <2>3, <2>4 DEF Asks, Moves
<1>5. CASE Library!LoseSignal(s)
  <2>1. /\ \E e : wire' = [wire EXCEPT ![s] = @ \ {e}]
        /\ UNCHANGED <<rtc, chain, sequence, sent, ledger>>
    BY <1>5 DEF Library!LoseSignal, Library!linkVars
  <2>2. \A x \in Sides : wire'[x] \subseteq wire[x]
    BY <2>1 DEF LinkInv
  <2> QED
    BY <1>0, <2>1, <2>2 DEF Still, Moves
<1>6. CASE \E e \in wire[s] : Library!Receive(s, e)
  <2>1. PICK e \in wire[s] : Library!Receive(s, e)
    BY <1>6
  <2>2. GoodSignal(e) /\ e.type \in Named
    BY DEF LinkInv, WireOK, GoodSignal
  <2>3. ~Terminal(e.type) /\ e \in Arriving(s)
    <3>1. InOrderHere(s, e)
      BY <2>1, LibraryHears
    <3> QED
      BY <2>2, <3>1 DEF Named, Terminal, Arriving, InOrderHere
  <2>4. Hears(s)
    BY <1>0, <2>1, <2>2, <2>3, LibraryHears DEF Hears
  <2> QED
    BY <2>4 DEF Moves
<1> QED
  BY <1>1, <1>2, <1>3, <1>4, <1>5, <1>6

-----------------------------------------------------------------------------

\* What a page holds, and what it does not when it is not in the call.
PageInv == PagesSound /\ (mode = "call" => Parted)

LEMMA PagesStart ==
  ASSUME CallsInit
  PROVE  PageInv
<1>1. PICK p : p = page /\ page = [s \in Sides |-> p[s]] /\ \A s \in Sides :
         p[s] \in {NoCall, Talking, Calling}
  BY DEF CallsInit, StartCall
<1>2. \A s \in Sides : Sound(page[s]) /\ Emptied(page[s])
  <2>1. Sound(Talking) /\ Talking.call
    BY DEF Sound, Talking, Pages
  <2>2. Calling \in Pages /\ Calling.call /\ Calling.todo = "offer"
    BY DEF Calling, Talking, Pages
  <2> QED
    BY <1>1, <2>1, <2>2, NoCallPage DEF Emptied, Sound
<1>3. \A s \in Sides : mode = "call" => chain[s] = <<>> /\ rtc[s] = NewConnection
  BY DEF CallsInit, StartCall, Init
<1> QED
  BY <1>1, <1>2, <1>3 DEF PageInv, PagesSound, Parted

\* A side that is not in the call holds nothing.
LEMMA PartedStays ==
  ASSUME LinkInv, PageInv, mode = "call", Moves
  PROVE  Parted'
<1>0. Parted
  BY DEF PageInv
<1>1. CASE Still
  BY <1>0, <1>1 DEF Still, CallsStay, CallsKept, Parted
<1>2. ASSUME NEW s \in Sides, CallsStay, Alive(s),
             \A x \in Sides : x # s => rtc'[x] = rtc[x] /\ chain'[x] = chain[x]
      PROVE  Parted'
  BY <1>0, <1>2 DEF CallsStay, CallsKept, Parted, Alive
<1>3. ASSUME NEW s \in Sides, Works(s)
      PROVE  Parted'
  <2>1. \A x \in Sides : x # s => rtc'[x] = rtc[x] /\ chain'[x] = chain[x]
    BY <1>3 DEF Works, CreateOffer, AbandonOffer, IgnoreOffer, ApplyOffer, IgnoreAnswer, BeginAnswer,
                ApplyAnswer, HoldCandidate, AddCandidate, Settle, Stage, Update, LinkInv
  <2> QED
    BY <1>2, <1>3, <2>1 DEF Works
<1>4. ASSUME NEW s \in Sides, Speaks(s)
      PROVE  Parted'
  <2>1. \A x \in Sides : x # s => rtc'[x] = rtc[x] /\ chain'[x] = chain[x]
    BY <1>4 DEF Speaks, SendOffer, Answer, Settle, Update, LinkInv
  <2> QED
    BY <1>2, <1>4, <2>1 DEF Speaks
<1>5. ASSUME NEW s \in Sides, Mentions(s)
      PROVE  Parted'
  BY <1>2, <1>5 DEF Mentions
<1>6. ASSUME NEW s \in Sides, Asks(s)
      PROVE  Parted'
  <2>1. \A x \in Sides : x # s => rtc'[x] = rtc[x] /\ chain'[x] = chain[x]
    BY <1>6 DEF Asks, CallOffer, Serialize, LinkInv
  <2> QED
    BY <1>2, <1>6, <2>1 DEF Asks
<1>7. ASSUME NEW s \in Sides, Hears(s)
      PROVE  Parted'
  <2>1. \A x \in Sides : x # s => rtc'[x] = rtc[x] /\ chain'[x] = chain[x]
    BY <1>7 DEF Hears, Serialize, LinkInv
  <2> QED
    BY <1>2, <1>7, <2>1 DEF Hears
<1>8. ASSUME NEW s \in Sides, Leaves(s)
      PROVE  Parted'
  <2>1. Sides = {s, Other(s)}
    BY TwoSides
  <2> QED
    BY <1>0, <1>8, <2>1 DEF Leaves, Parted
<1> QED
  BY <1>1, <1>3, <1>4, <1>5, <1>6, <1>7, <1>8 DEF Moves

\* Every step is one of these moves, and the pages stay sound.
LEMMA PagesStay ==
  ASSUME LinkInv, PageInv, [CallsNext]_callsVars
  PROVE  PageInv' /\ Moves
<1>1. CASE mode = "call" /\ NextCall /\ UNCHANGED mode
  <2>1. PICK s \in Sides : PageStep(s)
    BY <1>1 DEF NextCall
  <2>2. PagesSound' /\ Moves
    BY <1>1, <2>1, CallMoves DEF PageInv
  <2>3. Parted'
    BY <1>1, <2>2, PartedStays
  <2> QED
    BY <2>2, <2>3 DEF PageInv
<1>2. CASE mode = "library" /\ Library!Next /\ UNCHANGED <<page, mode>>
  <2>1. Moves
    BY <1>2, LibraryMoves
  <2>2. PagesSound'
    BY <1>2, PageStays DEF PageInv
  <2>3. mode' # "call"
    BY <1>2
  <2> QED
    BY <2>1, <2>2, <2>3 DEF PageInv
<1>3. CASE UNCHANGED callsVars
  <2>1. UNCHANGED <<rtc, chain, sequence, sent, ledger, wire, page, mode>>
    BY <1>3 DEF callsVars, pageVars, vars
  <2>2. PagesSound' /\ CallsKept
    BY <2>1, PageStays DEF PageInv
  <2>3. Still
    BY <2>1, <2>2 DEF Still, CallsStay
  <2>4. (mode = "call" => Parted)'
    BY <2>1 DEF PageInv, Parted, NewConnection, None
  <2> QED
    BY <2>2, <2>3, <2>4 DEF PageInv, Moves
<1> QED
  BY <1>1, <1>2, <1>3 DEF CallsNext

-----------------------------------------------------------------------------
(* The path between the two links                                          *)

LEMMA LedgerGrows ==
  ASSUME NEW l, NEW s, NEW t, NEW m \in Nat, NEW n \in Nat, m <= n, LedgerOf(l, s, t, m)
  PROVE  LedgerOf(l, s, t, n)
<1> DEFINE S(k) == ({t} \X (1 .. k)) \X {Skew}
<1>1. 1 .. m \subseteq 1 .. n
  OBVIOUS
<1>2. l.seen \in Seq(S(n))
  <2>1. l.seen \in Seq(S(m))
    BY DEF LedgerOf
  <2>2. S(m) \subseteq S(n)
    BY <1>1
  <2> HIDE DEF S
  <2>3. \A i \in 1 .. Len(l.seen) : l.seen[i] \in S(n)
    BY <2>1, <2>2, ElementOfSeq
  <2>4. Len(l.seen) \in Nat /\ DOMAIN l.seen = 1 .. Len(l.seen) /\ l.seen = [i \in 1 .. Len(l.seen) |-> l.seen[i]]
    BY <2>1
  <2> QED
    BY <2>3, <2>4
<1> QED
  BY <1>1, <1>2 DEF LedgerOf

LEMMA FitsBefore ==
  ASSUME LinkInv, LinkInv', Moves, Fits'
  PROVE  Fits
<1>1. \A s \in Sides : sent[s] \in Nat /\ sent[s] <= sent'[s] /\ sent'[s] \in Nat
  <2>0. \A x \in Sides : sent[x] \in Nat /\ sent[x] <= sent[x]
    BY DEF LinkInv
  <2>1. CASE Still
    <3>1. sent' = sent
      BY <2>1 DEF Still
    <3> QED
      BY <2>0, <3>1
  <2>2. ASSUME NEW s \in Sides, Works(s) \/ Asks(s) \/ Hears(s)
        PROVE  \A x \in Sides : sent[x] \in Nat /\ sent[x] <= sent'[x] /\ sent'[x] \in Nat
    <3>1. sent' = sent
      <4>1. CASE Works(s)
        BY <4>1 DEF Works
      <4>2. CASE Asks(s)
        BY <4>2 DEF Asks
      <4>3. CASE Hears(s)
        BY <4>3 DEF Hears
      <4> QED
        BY <2>2, <4>1, <4>2, <4>3
    <3> QED
      BY <2>0, <3>1
  <2>3. ASSUME NEW s \in Sides, sent' = [sent EXCEPT ![s] = @ + 1]
        PROVE  \A x \in Sides : sent[x] \in Nat /\ sent[x] <= sent'[x] /\ sent'[x] \in Nat
    <3>1. sent \in [Sides -> Nat]
      BY DEF LinkInv
    <3> QED
      BY <2>3, <3>1
  <2>4. ASSUME NEW s \in Sides, Speaks(s)
        PROVE  sent' = [sent EXCEPT ![s] = @ + 1]
    BY <2>4, AnswerGoes DEF Speaks, SendOffer, Send
  <2>5. ASSUME NEW s \in Sides, Mentions(s)
        PROVE  sent' = [sent EXCEPT ![s] = @ + 1]
    BY <2>5 DEF Mentions, Drawn
  <2>6. ASSUME NEW s \in Sides, Leaves(s)
        PROVE  \A x \in Sides : sent[x] \in Nat /\ sent[x] <= sent'[x] /\ sent'[x] \in Nat
    <3>1. Sides = {s, Other(s)}
      BY TwoSides
    <3> QED
      BY <2>6, <3>1 DEF Leaves, LinkInv
  <2> QED
    BY <2>1, <2>2, <2>3, <2>4, <2>5, <2>6 DEF Moves
<1> QED
  BY <1>1, LedgerAssumption DEF Fits

\* Whatever is only taken off the wire.
LEMMA PathThins ==
  ASSUME LinkInv, Path, CallsStay, UNCHANGED <<sequence, sent, ledger>>, \A x \in Sides : wire'[x] \subseteq wire[x]
  PROVE  Path'
<1>1. Counted' /\ Remembered'
  BY DEF Path, CallsStay, CallsKept, Alive, Counted, Remembered, LedgerOf, Other
<1>2. Carried'
  BY DEF Path, Carried, SignalOf, Other
<1> QED
  BY <1>1, <1>2 DEF Path


\* A side in the call sends a signal of the call.
LEMMA PathDrawn ==
  ASSUME LinkInv, Path, CallsStay, NEW s \in Sides, Alive(s), UNCHANGED ledger,
         NEW type, NEW n, Drawn(s, Signal(s, type, n))
  PROVE  Path'
<1> DEFINE t == Other(s)
           e == Signal(s, type, n)
<1>0. t \in Sides /\ t # s /\ Sides = {s, t} /\ Other(t) = s
  BY TwoSides
<1>1. /\ sent \in [Sides -> Nat] /\ sequence \in [Sides -> Nat] /\ wire = [x \in Sides |-> wire[x]]
      /\ sequence[s] = sent[s]
  BY DEF LinkInv, Path, Counted
<1>2. /\ sent'[s] = sent[s] + 1 /\ sent'[t] = sent[t] /\ sequence'[s] = sent[s] + 1 /\ sequence'[t] = sequence[t]
  BY <1>0, <1>1 DEF Drawn
<1>3. /\ e.sender = s /\ e.call = "call" /\ e.expires = 0 /\ e.id = sent[s] + 1
      /\ e.target = t /\ e.seq = sent[s] + 1
  BY <1>1 DEF Signal
<1>4. wire'[s] = wire[s] /\ wire'[t] \subseteq wire[t] \cup {e}
  <2> HIDE DEF e
  <2>1. wire' = wire \/ wire' = [wire EXCEPT ![t] = @ \cup {e}]
    BY DEF Drawn, e
  <2> HIDE DEF t
  <2> QED
    BY <1>0, <1>1, <2>1
<1> HIDE DEF e
<1>5. Counted'
  <2>1. \A x \in Sides : Alive(x)' <=> Alive(x)
    BY DEF CallsStay, CallsKept, Alive
  <2>2. \A x \in Sides : Alive(x)' => sequence'[x] = sent'[x]
    BY <1>0, <1>2, <2>1 DEF Path, Counted
  <2> QED
    BY <2>2 DEF Counted
<1> HIDE DEF t
<1>6. Carried'
  <2>1. \A f \in wire[s] : SignalOf(f, s, sent[t]) /\ \A g \in wire[s] : f.id = g.id => f = g
    BY <1>0 DEF Path, Carried, t
  <2>2. \A f \in wire[t] : SignalOf(f, t, sent[s]) /\ \A g \in wire[t] : f.id = g.id => f = g
    BY <1>0 DEF Path, Carried
  <2>3. \A f \in wire'[s] : SignalOf(f, s, sent'[t]) /\ \A g \in wire'[s] : f.id = g.id => f = g
    BY <1>2, <1>4, <2>1
  <2>4. \A f \in wire[t] : f.id # sent[s] + 1 /\ SignalOf(f, t, sent'[s])
    BY <1>1, <1>2, <2>2 DEF SignalOf
  <2>5. SignalOf(e, t, sent'[s])
    BY <1>0, <1>1, <1>2, <1>3 DEF SignalOf
  <2>6. \A f \in wire'[t] : SignalOf(f, t, sent'[s]) /\ \A g \in wire'[t] : f.id = g.id => f = g
    BY <1>3, <1>4, <2>2, <2>4, <2>5
  <2>7. \A x \in Sides : \A f \in wire'[x] : SignalOf(f, x, sent'[Other(x)]) /\ \A g \in wire'[x] : f.id = g.id => f = g
    BY <1>0, <2>3, <2>6 DEF t
  <2> QED
    BY <2>7 DEF Carried, SignalOf, Other
<1>7. Remembered'
  <2>1. \A x \in Sides : Alive(x)' <=> Alive(x)
    BY DEF CallsStay, CallsKept, Alive
  <2>2. ASSUME NEW x \in Sides, Alive(x)
        PROVE  LedgerOf(ledger[x], x, Other(x), sent'[Other(x)])
    <3>1. LedgerOf(ledger[x], x, Other(x), sent[Other(x)])
      BY <2>2 DEF Path, Remembered
    <3>2. sent[Other(x)] \in Nat /\ sent'[Other(x)] \in Nat /\ sent[Other(x)] <= sent'[Other(x)]
      BY <1>0, <1>1, <1>2 DEF t
    <3> QED
      BY <3>1, <3>2, LedgerGrows
  <2>3. \A x \in Sides : Alive(x)' => LedgerOf(ledger'[x], x, Other(x), sent'[Other(x)])
    BY <2>1, <2>2
  <2> QED
    BY <2>3 DEF Remembered, LedgerOf, Other
<1> QED
  BY <1>5, <1>6, <1>7 DEF Path

\* A signal on its way to a side in the call, when it is no hangup.
LEMMA OnTheWay ==
  ASSUME LinkInv, Path, NEW s \in Sides, NEW e \in wire[s]
  PROVE  /\ sent[Other(s)] \in Nat
         /\ ~Terminal(e.type) => Wellsent(e, s, Other(s), sent[Other(s)])
         /\ e.id \in 1 .. sent[Other(s)]
         /\ Alive(s) => LedgerOf(ledger[s], s, Other(s), sent[Other(s)])
  BY TwoSides DEF LinkInv, Path, Carried, SignalOf, Remembered, Wellsent, Terminal

LEMMA PathHears ==
  ASSUME LinkInv, Path, Fits, NEW s \in Sides, Hears(s)
  PROVE  Path'
<1> DEFINE t == Other(s)
           m == sent[t]
<1>1. t \in Sides /\ m <= LedgerCapacity
  BY TwoSides DEF Fits
<1>2. PICK e \in Arriving(s) :
         /\ TakeOff(s, e)
         /\ ledger' = [ledger EXCEPT ![s] = AfterSignal(ledger[s], e, 0)]
         /\ Admitted(ledger[s], e) => ~Terminal(e.type)
  BY DEF Hears
<1>3. e \in wire[s] /\ Alive(s) /\ m \in Nat /\ LedgerOf(ledger[s], s, t, m)
  BY <1>2, OnTheWay DEF Arriving, Hears
<1>4. LedgerOf(AfterSignal(ledger[s], e, 0), s, t, m)
  <2>1. CASE ~Admitted(ledger[s], e)
    BY <1>1, <1>3, <2>1, RefusedKeeps
  <2>2. CASE Admitted(ledger[s], e)
    <3>1. Wellsent(e, s, t, m)
      BY <1>2, <1>3, <2>2, OnTheWay
    <3> QED
      BY <1>1, <1>3, <2>2, <3>1, AdmittedLedger
  <2> QED
    BY <2>1, <2>2
<1> HIDE DEF m
<1>5. \A x \in Sides : ledger'[x] = IF x = s THEN AfterSignal(ledger[s], e, 0) ELSE ledger[x]
  BY <1>2 DEF LinkInv
<1>6. UNCHANGED <<sequence, sent>> /\ CallsStay
  BY DEF Hears
<1>7. Remembered'
  <2>1. \A x \in Sides : Alive(x)' <=> Alive(x)
    BY <1>6 DEF CallsStay, CallsKept, Alive
  <2>2. \A x \in Sides : Alive(x)' => LedgerOf(ledger'[x], x, Other(x), sent'[Other(x)])
    BY <1>4, <1>5, <1>6, <2>1 DEF Path, Remembered, m
  <2> QED
    BY <2>2 DEF Remembered, LedgerOf, Other
<1>8. Counted'
  BY <1>6 DEF CallsStay, CallsKept, Alive, Path, Counted
<1>9. Carried'
  <2>1. \A x \in Sides : wire'[x] \subseteq wire[x]
    BY <1>2, TakenAway
  <2> QED
    BY <1>6, <2>1 DEF Path, Carried, SignalOf, Other
<1> QED
  BY <1>7, <1>8, <1>9 DEF Path

LEMMA PathLeaves ==
  ASSUME LinkInv, LinkInv', Path, NEW s \in Sides, Leaves(s)
  PROVE  Path'
<1> DEFINE t == Other(s)
<1>0. t \in Sides /\ t # s /\ Sides = {s, t} /\ Other(t) = s
  BY TwoSides
<1>1. /\ ~Alive(s)' /\ (Alive(t)' <=> Alive(t))
      /\ ledger'[t] = ledger[t] /\ sequence'[t] = sequence[t] /\ sent'[t] = sent[t] /\ sent[s] <= sent'[s]
  BY DEF Leaves, Alive
<1>2. sent[s] \in Nat /\ sent'[s] \in Nat
  <2>1. sent \in [Sides -> Nat] /\ sent' \in [Sides -> Nat]
    BY DEF LinkInv
  <2> QED
    BY <2>1
<1>3. Counted'
  <2>1. \A x \in Sides : Alive(x)' => sequence'[x] = sent'[x]
    BY <1>0, <1>1 DEF Path, Counted
  <2> QED
    BY <2>1 DEF Counted
<1>4. Remembered'
  <2>1. Alive(t) => LedgerOf(ledger[t], t, s, sent'[s])
    BY <1>0, <1>1, <1>2, LedgerGrows DEF Path, Remembered
  <2>2. \A x \in Sides : Alive(x)' => LedgerOf(ledger'[x], x, Other(x), sent'[Other(x)])
    BY <1>0, <1>1, <2>1
  <2> QED
    BY <2>2 DEF Remembered, LedgerOf, Other
<1>5. Carried'
  <2> HIDE DEF t
  <2>1. \A f \in wire[s] : SignalOf(f, s, sent[t]) /\ \A g \in wire[s] : f.id = g.id => f = g
    BY <1>0 DEF Path, Carried, t
  <2>2. \A f \in wire[t] : SignalOf(f, t, sent[s]) /\ \A g \in wire[t] : f.id = g.id => f = g
    BY <1>0 DEF Path, Carried
  <2>3. wire'[s] \subseteq wire[s]
    BY DEF Leaves
  <2>4. \A f \in wire'[s] : SignalOf(f, s, sent'[t]) /\ \A g \in wire'[s] : f.id = g.id => f = g
    BY <1>1, <2>1, <2>3
  <2>5. \A f \in wire[t] : f.id # sent[s] + 1 /\ SignalOf(f, t, sent'[s])
    BY <1>1, <1>2, <2>2 DEF SignalOf
  <2>6. \A f \in wire'[t] : SignalOf(f, t, sent'[s]) /\ \A g \in wire'[t] : f.id = g.id => f = g
    <3>1. CASE wire'[t] \subseteq wire[t]
      BY <2>2, <2>5, <3>1
    <3>2. ASSUME NEW e, Farewell(s, e), wire'[t] \subseteq wire[t] \cup {e}
          PROVE  \A f \in wire'[t] : SignalOf(f, t, sent'[s]) /\ \A g \in wire'[t] : f.id = g.id => f = g
      <4>1. SignalOf(e, t, sent'[s]) /\ e.id = sent[s] + 1
        BY <1>0, <1>2, <3>2 DEF Farewell, SignalOf
      <4> QED
        BY <2>2, <2>5, <3>2, <4>1
    <3> QED
      BY <3>1, <3>2 DEF Leaves, t
  <2>7. \A x \in Sides : \A f \in wire'[x] : SignalOf(f, x, sent'[Other(x)]) /\ \A g \in wire'[x] : f.id = g.id => f = g
    BY <1>0, <2>4, <2>6 DEF t
  <2> QED
    BY <2>7 DEF Carried, SignalOf, Other
<1> QED
  BY <1>3, <1>4, <1>5 DEF Path

LEMMA PathStays ==
  ASSUME LinkInv, LinkInv', Path, Fits, Moves
  PROVE  Path'
<1>1. CASE Still
  BY <1>1, PathThins DEF Still
<1>2. ASSUME NEW s \in Sides, Works(s) PROVE Path'
  BY <1>2, PathThins DEF Works
<1>3. ASSUME NEW s \in Sides, Speaks(s) PROVE Path'
  <2>1. PICK i \in DOMAIN chain[s] : SendOffer(s, i) \/ Answer(s, i)
    BY <1>3 DEF Speaks
  <2>2. UNCHANGED ledger /\ CallsStay /\ Alive(s)
    BY <1>3 DEF Speaks
  <2>3. CASE SendOffer(s, i)
    <3>1. Drawn(s, Signal(s, "call_offer", chain[s][i].n))
      BY <2>3 DEF SendOffer, Send, Drawn
    <3> QED
      BY <2>2, <3>1, PathDrawn
  <2>4. CASE Answer(s, i)
    <3>1. Send(s, "call_answer", rtc[s].heard)
      BY <2>4, AnswerGoes
    <3>2. Drawn(s, Signal(s, "call_answer", rtc[s].heard))
      BY <3>1 DEF Send, Drawn
    <3> QED
      BY <2>2, <3>2, PathDrawn
  <2> QED
    BY <2>1, <2>3, <2>4
<1>4. ASSUME NEW s \in Sides, Mentions(s) PROVE Path'
  <2>1. PICK n, type : type \in {"ice_candidate", "call_resync", "call_hangup"} /\ Drawn(s, Signal(s, type, n))
    BY <1>4 DEF Mentions
  <2> QED
    BY <1>4, <2>1, PathDrawn DEF Mentions
<1>5. ASSUME NEW s \in Sides, Asks(s) PROVE Path'
  BY <1>5, PathThins DEF Asks
<1>6. ASSUME NEW s \in Sides, Hears(s) PROVE Path'
  BY <1>6, PathHears
<1>7. ASSUME NEW s \in Sides, Leaves(s) PROVE Path'
  BY <1>7, PathLeaves
<1> QED
  BY <1>1, <1>2, <1>3, <1>4, <1>5, <1>6, <1>7 DEF Moves

-----------------------------------------------------------------------------
(* What two negotiations agree on                                          *)

\* A set of descriptions holds what another held, in the same order.
Thins(A2, A) ==
  \E g \in [A2 -> A] :
    /\ \A x \in A2 : g[x].kind = x.kind /\ g[x].n = x.n
    /\ \A x, y \in A2 : (g[x] = g[y] => x = y) /\ (x.pos < y.pos <=> g[x].pos < g[y].pos)
Alike(r2, r) ==
  /\ r2.signaling = r.signaling /\ r2.agreed = r.agreed
  /\ r2.offered = r.offered /\ r2.heard = r.heard

\* What the links and the path say of both sides.
Link(r, A, l) ==
  /\ r.offered # None <=> r.signaling = "have-local-offer"
  /\ r.signaling = "have-remote-offer" => r.heard # None
  /\ \A x \in A : x.n # None
  /\ ~l => A = {} /\ r.signaling = "stable" /\ r.offered = None

LEMMA PactThins ==
  ASSUME NEW p, NEW q, NEW A, NEW B, NEW pl, NEW ql, Pact(p, q, A, B, pl, ql),
         NEW p2, NEW q2, NEW A2, NEW B2, Alike(p2, p), Alike(q2, q), Thins(A2, A), Thins(B2, B)
  PROVE  Pact(p2, q2, A2, B2, pl, ql)
<1>1. PICK f \in [A2 -> A] :
         /\ \A x \in A2 : f[x].kind = x.kind /\ f[x].n = x.n
         /\ \A x, y \in A2 : (f[x] = f[y] => x = y) /\ (x.pos < y.pos <=> f[x].pos < f[y].pos)
  BY DEF Thins
<1>2. PICK g \in [B2 -> B] :
         /\ \A x \in B2 : g[x].kind = x.kind /\ g[x].n = x.n
         /\ \A x, y \in B2 : (g[x] = g[y] => x = y) /\ (x.pos < y.pos <=> g[x].pos < g[y].pos)
  BY DEF Thins
<1>3. /\ \A x \in OffersIn(A2) : f[x] \in OffersIn(A)
      /\ \A x \in AnswersIn(A2) : f[x] \in AnswersIn(A)
  BY <1>1 DEF OffersIn, AnswersIn
<1>4. /\ \A x \in OffersIn(B2) : g[x] \in OffersIn(B)
      /\ \A x \in AnswersIn(B2) : g[x] \in AnswersIn(B)
  BY <1>2 DEF OffersIn, AnswersIn
<1>5. OffersIn(A2) \subseteq A2 /\ AnswersIn(A2) \subseteq A2 /\ OffersIn(B2) \subseteq B2 /\ AnswersIn(B2) \subseteq B2
  BY DEF OffersIn, AnswersIn
<1>6. AnswersIn(B) = {} => AnswersIn(B2) = {}
  BY <1>4
<1>7. AnswersIn(A) = {} => AnswersIn(A2) = {}
  BY <1>3
<1>8. OffersIn(A) = {} => OffersIn(A2) = {}
  BY <1>3
<1>9. ToPolite(q2, A2, B2, ql)
  BY <1>1, <1>3, <1>5, <1>6 DEF Pact, ToPolite, Alike
<1>10. PoliteBusy(p2, q2, A2, B2, ql)
  BY <1>6, <1>8 DEF Pact, PoliteBusy, Alike
<1>11. AnswersToRude(q2, B2)
  BY <1>2, <1>4, <1>5 DEF Pact, AnswersToRude, Alike
<1>12. ToRude(p2, q2, B2, pl)
  BY <1>2, <1>4, <1>5 DEF Pact, ToRude, Alike
<1>13. AnswersToPolite(p2, A2, B2)
  BY <1>1, <1>2, <1>3, <1>4, <1>5 DEF Pact, AnswersToPolite, Alike
<1>14. RudeBusy(p2, q2, A2, B2, pl)
  BY <1>2, <1>4, <1>5, <1>7 DEF Pact, RudeBusy, Alike
<1>15. Agrees(p2) /\ Agrees(q2)
  BY DEF Pact, Agrees, Alike
<1> QED
  BY <1>9, <1>10, <1>11, <1>12, <1>13, <1>14, <1>15 DEF Pact

LEMMA PoliteOffers ==
  ASSUME NEW p, NEW q, NEW A, NEW B, NEW pl, NEW ql, Pact(p, q, A, B, pl, ql), Link(p, A, pl), Link(q, B, ql),
         pl, p.signaling = "stable", NEW n, n # None,
         \A x \in B : x.n # n,
         NEW p2, p2.signaling = "have-local-offer", p2.offered = n, p2.agreed = p.agreed, p2.heard = p.heard,
         NEW B2, B2 = B \/ \E k : B2 = B \cup {Item("call_offer", n, k)} /\ \A y \in B : y.pos < k
  PROVE  Pact(p2, q, A, B2, pl, ql)
<1>1. /\ AnswersIn(B2) = AnswersIn(B) /\ OffersIn(B) \subseteq B
      /\ OffersIn(B2) = OffersIn(B) \/
           \E k : OffersIn(B2) = OffersIn(B) \cup {Item("call_offer", n, k)} /\ \A y \in B : y.pos < k
  BY DEF OffersIn, AnswersIn, Item
<1>2. p.offered = None
  BY DEF Link
<1>3. ToPolite(q, A, B2, ql) /\ AnswersToRude(q, B2)
  BY <1>1 DEF Pact, ToPolite, AnswersToRude
<1>4. PoliteBusy(p2, q, A, B2, ql)
  BY DEF PoliteBusy
<1>5. \A x \in OffersIn(B) : q.offered # None /\ \A y \in AnswersIn(B) : x.pos < y.pos
  BY <1>1, <1>2 DEF Pact, ToRude, Link
<1>6. ToRude(p2, q, B2, pl)
  <2>1. \A k : Item("call_offer", n, k).n = n /\ Item("call_offer", n, k).pos = k
    BY DEF Item
  <2>2. AnswersIn(B) \subseteq B
    BY DEF AnswersIn
  <2>3. \A x, y \in OffersIn(B) : x.n = y.n => x = y
    BY DEF Pact, ToRude
  <2>4. \A x \in OffersIn(B2) : x \in OffersIn(B) \/ (x.n = n /\ \A y \in AnswersIn(B2) : y.pos < x.pos)
    BY <1>1, <2>1, <2>2
  <2>5. \A x, y \in OffersIn(B2) : x.n = n /\ y.n = n => x = y
    BY <1>1, <2>1
  <2> QED
    BY <1>1, <1>5, <2>3, <2>4, <2>5 DEF ToRude
<1>7. AnswersIn(A) = {}
  BY <1>2 DEF Pact, AnswersToPolite, Link, AnswersIn
<1>8. q.signaling # "have-remote-offer"
  BY <1>2 DEF Pact, RudeBusy, Link
<1>9. AnswersToPolite(p2, A, B2) /\ RudeBusy(p2, q, A, B2, pl)
  BY <1>7, <1>8 DEF AnswersToPolite, RudeBusy
<1>10. Agrees(p2) /\ Agrees(q)
  BY DEF Pact, Agrees
<1> QED
  BY <1>3, <1>4, <1>6, <1>9, <1>10 DEF Pact

LEMMA RudeOffers ==
  ASSUME NEW p, NEW q, NEW A, NEW B, NEW pl, NEW ql, Pact(p, q, A, B, pl, ql), Link(p, A, pl), Link(q, B, ql),
         ql, q.signaling = "stable", NEW n, n # None,
         NEW q2, q2.signaling = "have-local-offer", q2.offered = n, q2.agreed = q.agreed, q2.heard = q.heard,
         NEW A2, A2 = A \/ \E k : A2 = A \cup {Item("call_offer", n, k)} /\ \A y \in A : y.pos < k
  PROVE  Pact(p, q2, A2, B, pl, ql)
<1>1. q.offered = None
  BY DEF Link
<1>2. OffersIn(A) = {} /\ AnswersIn(B) = {}
  BY <1>1 DEF Pact, ToPolite, AnswersToRude, Link, OffersIn, AnswersIn
<1>3. p.signaling # "have-remote-offer"
  BY <1>1 DEF Pact, PoliteBusy, Link
<1>4. /\ AnswersIn(A2) = AnswersIn(A) /\ AnswersIn(A) \subseteq A
      /\ OffersIn(A2) = {} \/
           \E k : OffersIn(A2) = {Item("call_offer", n, k)} /\ \A y \in A : y.pos < k
  BY <1>2 DEF OffersIn, AnswersIn, Item
<1>5. \A k : Item("call_offer", n, k).n = n /\ Item("call_offer", n, k).pos = k
  BY DEF Item
<1>6. ToPolite(q2, A2, B, ql)
  <2>1. \A x \in OffersIn(A2) : /\ x.n = n
                                /\ \A y \in OffersIn(A2) : x = y
                                /\ \A y \in AnswersIn(A2) : y.pos < x.pos
    BY <1>4, <1>5
  <2> QED
    BY <1>2, <2>1 DEF ToPolite
<1>7. PoliteBusy(p, q2, A2, B, ql) /\ AnswersToRude(q2, B)
  BY <1>2, <1>3 DEF PoliteBusy, AnswersToRude
<1>8. ToRude(p, q2, B, pl)
  BY <1>1, <1>2 DEF Pact, ToRude
<1>9. AnswersToPolite(p, A2, B) /\ RudeBusy(p, q2, A2, B, pl)
  BY <1>4 DEF Pact, AnswersToPolite, RudeBusy
<1>10. Agrees(p) /\ Agrees(q2)
  BY DEF Pact, Agrees
<1> QED
  BY <1>6, <1>7, <1>8, <1>9, <1>10 DEF Pact

\* Without one of the descriptions.
LEMMA Fewer ==
  ASSUME NEW A, NEW x
  PROVE  /\ OffersIn(A \ {x}) = OffersIn(A) \ {x} /\ AnswersIn(A \ {x}) = AnswersIn(A) \ {x}
         /\ OffersIn(A) \subseteq A /\ AnswersIn(A) \subseteq A
  BY DEF OffersIn, AnswersIn

LEMMA PoliteHearsOffer ==
  ASSUME NEW p, NEW q, NEW A, NEW B, NEW pl, NEW ql, Pact(p, q, A, B, pl, ql), Link(p, A, pl), Link(q, B, ql),
         NEW x \in OffersIn(A), \A y \in A : ~(y.pos < x.pos),
         NEW p2, p2.signaling = "have-remote-offer", p2.offered = None, p2.heard = x.n
  PROVE  Pact(p2, q, A \ {x}, B, pl, ql)
<1>0. /\ OffersIn(A \ {x}) = OffersIn(A) \ {x} /\ AnswersIn(A \ {x}) = AnswersIn(A) \ {x}
      /\ OffersIn(A) \subseteq A /\ AnswersIn(A) \subseteq A
  BY Fewer
<1>1. AnswersIn(A) = {} /\ AnswersIn(B) = {} /\ OffersIn(A) \ {x} = {} /\ (ql => q.offered = x.n)
  BY Fewer DEF Pact, ToPolite
<1>2. AnswersIn(A \ {x}) = {} /\ OffersIn(A \ {x}) = {}
  BY <1>0, <1>1
<1>3. x.n # None
  BY Fewer DEF Link
<1>4. ToPolite(q, A \ {x}, B, ql) /\ PoliteBusy(p2, q, A \ {x}, B, ql) /\ AnswersToRude(q, B)
  BY <1>1, <1>2 DEF ToPolite, PoliteBusy, AnswersToRude
<1>5. ToRude(p2, q, B, pl)
  <2>1. \A y \in OffersIn(B) : y.n # None /\ q.offered # None
    BY <1>1, <1>3, Fewer DEF Link
  <2>2. \A y, z \in OffersIn(B) : y.n = z.n => y = z
    BY DEF Pact, ToRude
  <2> QED
    BY <1>1, <2>1, <2>2 DEF ToRude
<1>6. q.signaling # "have-remote-offer"
  BY <1>1, <1>3 DEF Link
<1>7. AnswersToPolite(p2, A \ {x}, B) /\ RudeBusy(p2, q, A \ {x}, B, pl)
  BY <1>2, <1>6 DEF AnswersToPolite, RudeBusy
<1>8. Agrees(p2) /\ Agrees(q)
  BY DEF Pact, Agrees
<1> QED
  BY <1>4, <1>5, <1>7, <1>8 DEF Pact

LEMMA RudeHearsOffer ==
  ASSUME NEW p, NEW q, NEW A, NEW B, NEW pl, NEW ql, Pact(p, q, A, B, pl, ql), Link(p, A, pl), Link(q, B, ql),
         q.signaling = "stable", NEW x \in OffersIn(B),
         NEW q2, q2.signaling = "have-remote-offer", q2.offered = None, q2.heard = x.n
  PROVE  Pact(p, q2, A, B \ {x}, pl, ql)
<1>0. /\ OffersIn(B \ {x}) = OffersIn(B) \ {x} /\ AnswersIn(B \ {x}) = AnswersIn(B) \ {x}
      /\ OffersIn(B) \subseteq B /\ AnswersIn(B) \subseteq B
  BY Fewer
<1>1. q.offered = None /\ x.n # None /\ ql
  BY Fewer DEF Link
<1>2. OffersIn(A) = {} /\ AnswersIn(B) = {}
  <2>1. \A y \in OffersIn(A) : FALSE
    BY <1>1, Fewer DEF Pact, ToPolite, Link
  <2>2. \A y \in AnswersIn(B) : FALSE
    BY <1>1, Fewer DEF Pact, AnswersToRude, Link
  <2> QED
    BY <2>1, <2>2
<1>3. p.signaling # "have-remote-offer"
  BY <1>1 DEF Pact, PoliteBusy, Link
<1>4. /\ \A y \in OffersIn(B) : pl => p.offered = y.n
      /\ \A y, z \in OffersIn(B) : y.n = z.n => y = z
  BY <1>1 DEF Pact, ToRude
<1>5. AnswersIn(A) = {}
  <2>1. \A y \in AnswersIn(A) : y.n # x.n /\ p.offered = y.n /\ pl
    BY Fewer DEF Pact, AnswersToPolite, Link
  <2> QED
    BY <1>4, <2>1
<1>6. AnswersIn(B \ {x}) = {}
  BY <1>0, <1>2
<1>7. ToPolite(q2, A, B \ {x}, ql) /\ PoliteBusy(p, q2, A, B \ {x}, ql) /\ AnswersToRude(q2, B \ {x})
  BY <1>2, <1>3, <1>6 DEF ToPolite, PoliteBusy, AnswersToRude
<1>8. ToRude(p, q2, B \ {x}, pl)
  BY <1>0, <1>4, <1>6 DEF ToRude
<1>9. AnswersToPolite(p, A, B \ {x})
  BY <1>5 DEF AnswersToPolite
<1>10. RudeBusy(p, q2, A, B \ {x}, pl)
  BY <1>0, <1>4, <1>5 DEF RudeBusy
<1>11. Agrees(p) /\ Agrees(q2)
  BY DEF Pact, Agrees
<1> QED
  BY <1>7, <1>8, <1>9, <1>10, <1>11 DEF Pact

LEMMA PoliteReplies ==
  ASSUME NEW p, NEW q, NEW A, NEW B, NEW pl, NEW ql, Pact(p, q, A, B, pl, ql), Link(p, A, pl), Link(q, B, ql),
         p.signaling = "have-remote-offer",
         NEW p2, p2.signaling = "stable", p2.offered = None, p2.heard = p.heard, p2.agreed = p.heard,
         NEW B2, \/ B2 = B
                 \/ ql /\ \E k : B2 = B \cup {Item("call_answer", p.heard, k)} /\ \A y \in B : y.pos < k
  PROVE  Pact(p2, q, A, B2, pl, ql)
<1>1. /\ p.offered = None /\ p.heard # None /\ pl /\ (ql => q.offered = p.heard)
      /\ AnswersIn(B) = {} /\ OffersIn(A) = {}
  BY DEF Link, Pact, PoliteBusy
<1>2. /\ OffersIn(B2) = OffersIn(B) /\ OffersIn(B) \subseteq B
      /\ \/ AnswersIn(B2) = {}
         \/ ql /\ \E k : AnswersIn(B2) = {Item("call_answer", p.heard, k)} /\ \A y \in B : y.pos < k
  BY <1>1 DEF OffersIn, AnswersIn, Item
<1>3. \A k : Item("call_answer", p.heard, k).n = p.heard /\ Item("call_answer", p.heard, k).pos = k
  BY DEF Item
<1>4. ToPolite(q, A, B2, ql) /\ PoliteBusy(p2, q, A, B2, ql)
  BY <1>1 DEF ToPolite, PoliteBusy
<1>5. AnswersToRude(q, B2)
  BY <1>1, <1>2, <1>3 DEF AnswersToRude
<1>6. ToRude(p2, q, B2, pl)
  <2>1. \A x \in OffersIn(B) : x.n # None /\ q.offered # None
    BY <1>1, <1>2 DEF Link, Pact, ToRude
  <2>2. \A x, y \in OffersIn(B) : x.n = y.n => x = y
    BY DEF Pact, ToRude
  <2>3. \A x \in OffersIn(B) : \A y \in AnswersIn(B2) : x.pos < y.pos
    BY <1>2, <1>3
  <2> QED
    BY <1>2, <2>1, <2>2, <2>3 DEF ToRude
<1>7. AnswersIn(A) = {}
  BY <1>1 DEF Pact, AnswersToPolite, Link, AnswersIn
<1>8. q.signaling # "have-remote-offer"
  BY <1>1 DEF Pact, RudeBusy, Link
<1>9. AnswersToPolite(p2, A, B2) /\ RudeBusy(p2, q, A, B2, pl)
  BY <1>7, <1>8 DEF AnswersToPolite, RudeBusy
<1>10. Agrees(p2) /\ Agrees(q)
  BY DEF Pact, Agrees
<1> QED
  BY <1>4, <1>5, <1>6, <1>9, <1>10 DEF Pact

LEMMA RudeReplies ==
  ASSUME NEW p, NEW q, NEW A, NEW B, NEW pl, NEW ql, Pact(p, q, A, B, pl, ql), Link(p, A, pl), Link(q, B, ql),
         q.signaling = "have-remote-offer",
         NEW q2, q2.signaling = "stable", q2.offered = None, q2.heard = q.heard, q2.agreed = q.heard,
         NEW A2, \/ A2 = A
                 \/ pl /\ \E k : A2 = A \cup {Item("call_answer", q.heard, k)} /\ \A y \in A : y.pos < k
  PROVE  Pact(p, q2, A2, B, pl, ql)
<1>1. /\ q.offered = None /\ q.heard # None /\ ql /\ (pl => p.offered = q.heard)
      /\ AnswersIn(A) = {} /\ \A y \in OffersIn(B) : y.n # q.heard
  BY DEF Link, Pact, RudeBusy
<1>2. OffersIn(A) = {} /\ AnswersIn(B) = {}
  <2>1. \A y \in OffersIn(A) : FALSE
    BY <1>1, Fewer DEF Pact, ToPolite, Link
  <2>2. \A y \in AnswersIn(B) : FALSE
    BY <1>1, Fewer DEF Pact, AnswersToRude, Link
  <2> QED
    BY <2>1, <2>2
<1>3. /\ OffersIn(A2) = {}
      /\ \/ AnswersIn(A2) = {}
         \/ pl /\ \E k : AnswersIn(A2) = {Item("call_answer", q.heard, k)}
  <2>1. CASE A2 = A
    BY <1>1, <1>2, <2>1
  <2>2. ASSUME NEW k, A2 = A \cup {Item("call_answer", q.heard, k)}
        PROVE  OffersIn(A2) = {} /\ AnswersIn(A2) = {Item("call_answer", q.heard, k)}
    BY <1>1, <1>2, <2>2 DEF OffersIn, AnswersIn, Item
  <2> QED
    BY <2>1, <2>2
<1>4. \A k : Item("call_answer", q.heard, k).n = q.heard
  BY DEF Item
<1>5. p.signaling # "have-remote-offer"
  BY <1>1 DEF Link
<1>6. ToPolite(q2, A2, B, ql) /\ PoliteBusy(p, q2, A2, B, ql) /\ AnswersToRude(q2, B)
  BY <1>2, <1>3, <1>5 DEF ToPolite, PoliteBusy, AnswersToRude
<1>7. ToRude(p, q2, B, pl)
  BY <1>1, <1>2 DEF Pact, ToRude
<1>8. AnswersToPolite(p, A2, B) /\ RudeBusy(p, q2, A2, B, pl)
  BY <1>1, <1>3, <1>4 DEF AnswersToPolite, RudeBusy
<1>9. Agrees(p) /\ Agrees(q2)
  BY DEF Pact, Agrees
<1> QED
  BY <1>6, <1>7, <1>8, <1>9 DEF Pact

LEMMA PoliteHearsAnswer ==
  ASSUME NEW p, NEW q, NEW A, NEW B, NEW pl, NEW ql, Pact(p, q, A, B, pl, ql), Link(p, A, pl), Link(q, B, ql),
         NEW x \in AnswersIn(A),
         NEW p2, p2.signaling = "stable", p2.offered = None, p2.heard = x.n, p2.agreed = p.offered
  PROVE  Pact(p2, q, A \ {x}, B, pl, ql)
<1>0. /\ OffersIn(A \ {x}) = OffersIn(A) \ {x} /\ AnswersIn(A \ {x}) = AnswersIn(A) \ {x}
      /\ OffersIn(A) \subseteq A /\ AnswersIn(A) \subseteq A
  BY Fewer
<1>1. /\ p.offered = x.n /\ AnswersIn(A) \ {x} = {} /\ x.n # None /\ pl
      /\ \A y \in OffersIn(B) : y.n # x.n
  BY Fewer DEF Pact, AnswersToPolite, Link
<1>2. AnswersIn(A \ {x}) = {} /\ OffersIn(A \ {x}) \subseteq OffersIn(A)
  BY <1>0, <1>1
<1>3. ToPolite(q, A \ {x}, B, ql)
  BY <1>2 DEF Pact, ToPolite
<1>4. PoliteBusy(p2, q, A \ {x}, B, ql) /\ AnswersToRude(q, B)
  BY DEF Pact, PoliteBusy
<1>5. ToRude(p2, q, B, pl)
  <2>1. \A y \in OffersIn(B) : y.n # None
    BY Fewer DEF Link
  <2> QED
    BY <1>1, <2>1 DEF Pact, ToRude
<1>6. q.signaling # "have-remote-offer"
  BY DEF Pact, RudeBusy
<1>7. AnswersToPolite(p2, A \ {x}, B) /\ RudeBusy(p2, q, A \ {x}, B, pl)
  BY <1>2, <1>6 DEF AnswersToPolite, RudeBusy
<1>8. Agrees(p2) /\ Agrees(q)
  BY <1>1 DEF Pact, Agrees
<1> QED
  BY <1>3, <1>4, <1>5, <1>7, <1>8 DEF Pact

LEMMA RudeHearsAnswer ==
  ASSUME NEW p, NEW q, NEW A, NEW B, NEW pl, NEW ql, Pact(p, q, A, B, pl, ql), Link(p, A, pl), Link(q, B, ql),
         NEW x \in AnswersIn(B), \A y \in B : ~(y.pos < x.pos),
         NEW q2, q2.signaling = "stable", q2.offered = None, q2.heard = x.n, q2.agreed = q.offered
  PROVE  Pact(p, q2, A, B \ {x}, pl, ql)
<1>0. /\ OffersIn(B \ {x}) = OffersIn(B) \ {x} /\ AnswersIn(B \ {x}) = AnswersIn(B) \ {x}
      /\ OffersIn(B) \subseteq B /\ AnswersIn(B) \subseteq B
  BY Fewer
<1>1. q.offered = x.n /\ AnswersIn(B) \ {x} = {} /\ x.n # None /\ ql
  BY Fewer DEF Pact, AnswersToRude, Link
<1>2. AnswersIn(B \ {x}) = {} /\ OffersIn(B \ {x}) = OffersIn(B) \ {x} /\ OffersIn(B) \subseteq B
  BY <1>0, <1>1
<1>3. OffersIn(A) = {} /\ p.signaling # "have-remote-offer"
  BY DEF Pact, ToPolite, PoliteBusy
<1>4. ToPolite(q2, A, B \ {x}, ql) /\ PoliteBusy(p, q2, A, B \ {x}, ql) /\ AnswersToRude(q2, B \ {x})
  BY <1>2, <1>3 DEF ToPolite, PoliteBusy, AnswersToRude
<1>5. ToRude(p, q2, B \ {x}, pl)
  <2>1. \A y \in OffersIn(B) : ~(y.pos < x.pos)
    BY <1>2
  <2>2. \A y \in OffersIn(B) : pl => p.offered = y.n
    BY <2>1 DEF Pact, ToRude
  <2>3. \A y, z \in OffersIn(B) : y.n = z.n => y = z
    BY DEF Pact, ToRude
  <2> QED
    BY <1>2, <2>2, <2>3 DEF ToRude
<1>6. AnswersToPolite(p, A, B \ {x}) /\ RudeBusy(p, q2, A, B \ {x}, pl)
  BY <1>2 DEF Pact, AnswersToPolite, RudeBusy
<1>7. Agrees(p) /\ Agrees(q2)
  BY <1>1 DEF Pact, Agrees
<1> QED
  BY <1>4, <1>5, <1>6, <1>7 DEF Pact

\* A side is gone, with all that was on its way to it.
LEMMA PoliteGone ==
  ASSUME NEW p, NEW q, NEW A, NEW B, NEW pl, NEW ql, Pact(p, q, A, B, pl, ql), Link(q, B, ql)
  PROVE  Pact(NewConnection, q, {}, B, FALSE, ql)
<1>1. /\ NewConnection.signaling = "stable" /\ NewConnection.offered = None
      /\ NewConnection.agreed = NewConnection.heard
  BY DEF NewConnection
<1>2. OffersIn({}) = {} /\ AnswersIn({}) = {}
  BY DEF OffersIn, AnswersIn
<1>3. \A y \in OffersIn(B) : y.n # None
  BY Fewer DEF Link
<1> HIDE DEF NewConnection
<1>4. ToPolite(q, {}, B, ql) /\ PoliteBusy(NewConnection, q, {}, B, ql) /\ AnswersToRude(q, B)
  BY <1>1, <1>2 DEF Pact, ToPolite, PoliteBusy
<1>5. ToRude(NewConnection, q, B, FALSE)
  BY <1>1, <1>3 DEF Pact, ToRude
<1>6. AnswersToPolite(NewConnection, {}, B) /\ RudeBusy(NewConnection, q, {}, B, FALSE)
  BY <1>1, <1>2 DEF Pact, AnswersToPolite, RudeBusy
<1>7. Agrees(NewConnection) /\ Agrees(q)
  BY <1>1 DEF Pact, Agrees
<1> QED
  BY <1>4, <1>5, <1>6, <1>7 DEF Pact

LEMMA RudeGone ==
  ASSUME NEW p, NEW q, NEW A, NEW B, NEW pl, NEW ql, Pact(p, q, A, B, pl, ql)
  PROVE  Pact(p, NewConnection, A, {}, pl, FALSE)
<1>1. /\ NewConnection.signaling = "stable" /\ NewConnection.offered = None
      /\ NewConnection.agreed = NewConnection.heard
  BY DEF NewConnection
<1>2. OffersIn({}) = {} /\ AnswersIn({}) = {}
  BY DEF OffersIn, AnswersIn
<1>3. ToPolite(NewConnection, A, {}, FALSE) /\ PoliteBusy(p, NewConnection, A, {}, FALSE)
  BY <1>1, <1>2 DEF Pact, ToPolite, PoliteBusy
<1>4. AnswersToRude(NewConnection, {}) /\ ToRude(p, NewConnection, {}, pl)
  BY <1>2 DEF AnswersToRude, ToRude
<1>5. AnswersToPolite(p, A, {}) /\ RudeBusy(p, NewConnection, A, {}, pl)
  BY <1>1, <1>2 DEF Pact, AnswersToPolite, RudeBusy
<1>6. Agrees(p) /\ Agrees(NewConnection)
  BY <1>1 DEF Pact, Agrees
<1> QED
  BY <1>3, <1>4, <1>5, <1>6 DEF Pact

-----------------------------------------------------------------------------
(* The descriptions on their way                                           *)

Descriptions == {"call_offer", "call_answer"}
Listed(A) == \A x \in A : x = Item(x.kind, x.n, x.pos) /\ x.kind \in Descriptions /\ x.pos \in Int
HeadItem(c) == Item(c[1].op, c[1].n, 1 - Len(c))

LEMMA ItemParts ==
  ASSUME NEW k, NEW n, NEW p
  PROVE  /\ Item(k, n, p).kind = k /\ Item(k, n, p).n = n /\ Item(k, n, p).pos = p
         /\ \A x : x = Item(k, n, p) => x = Item(x.kind, x.n, x.pos)
  BY DEF Item

LEMMA TasksListed ==
  ASSUME NEW c \in Seq(Tasks)
  PROVE  /\ \A x : x \in TaskItems(c) <=>
              \E i \in 1 .. Len(c) : Described(c[i]) /\ x = Item(c[i].op, c[i].n, i - Len(c))
         /\ Listed(TaskItems(c)) /\ \A x \in TaskItems(c) : x.pos <= 0
<1>1. DOMAIN c = 1 .. Len(c) /\ Len(c) \in Nat
  BY LenProperties
<1>2. \A x : x \in TaskItems(c) <=>
              \E i \in 1 .. Len(c) : Described(c[i]) /\ x = Item(c[i].op, c[i].n, i - Len(c))
  BY <1>1 DEF TaskItems
<1>3. ASSUME NEW x \in TaskItems(c)
      PROVE  x = Item(x.kind, x.n, x.pos) /\ x.kind \in Descriptions /\ x.pos \in Int /\ x.pos <= 0
  <2>1. PICK i \in 1 .. Len(c) : Described(c[i]) /\ x = Item(c[i].op, c[i].n, i - Len(c))
    BY <1>2
  <2>2. x.kind = c[i].op /\ x.pos = i - Len(c) /\ x = Item(x.kind, x.n, x.pos)
    BY <2>1, ItemParts
  <2>3. c[i].op \in Descriptions
    BY <2>1 DEF Described, Descriptions
  <2> QED
    BY <1>1, <2>2, <2>3
<1> QED
  BY <1>2, <1>3 DEF Listed

LEMMA SettledItems ==
  ASSUME NEW c \in Seq(Tasks), c # <<>>
  PROVE  /\ TaskItems(RemoveAt(c, 1)) = TaskItems(c) \ {HeadItem(c)}
         /\ ~Described(c[1]) => TaskItems(RemoveAt(c, 1)) = TaskItems(c)
<1> DEFINE d == RemoveAt(c, 1)
<1>1. d \in Seq(Tasks) /\ Len(d) = Len(c) - 1 /\ \A i \in 1 .. Len(c) - 1 : d[i] = c[i + 1]
  BY Removed
<1>2. Len(c) \in Nat \ {0}
  BY EmptySeq
<1> HIDE DEF d
<1>3. \A x : x \in TaskItems(d) <=>
        \E i \in 1 .. Len(c) - 1 : Described(c[i + 1]) /\ x = Item(c[i + 1].op, c[i + 1].n, i - (Len(c) - 1))
  BY <1>1, TasksListed
<1>4. \A x : x \in TaskItems(c) <=>
        \E i \in 1 .. Len(c) : Described(c[i]) /\ x = Item(c[i].op, c[i].n, i - Len(c))
  BY TasksListed
<1>5. ASSUME NEW x \in TaskItems(d)
      PROVE  x \in TaskItems(c) /\ x # HeadItem(c)
  <2>1. PICK i \in 1 .. Len(c) - 1 : Described(c[i + 1]) /\ x = Item(c[i + 1].op, c[i + 1].n, i - (Len(c) - 1))
    BY <1>3
  <2>2. i + 1 \in 1 .. Len(c) /\ i - (Len(c) - 1) = (i + 1) - Len(c) /\ i - (Len(c) - 1) # 1 - Len(c)
    BY <1>2
  <2>3. x \in TaskItems(c)
    BY <1>4, <2>1, <2>2
  <2>4. x.pos # HeadItem(c).pos
    BY <2>1, <2>2, ItemParts DEF HeadItem
  <2> QED
    BY <2>3, <2>4
<1>6. ASSUME NEW x \in TaskItems(c)
      PROVE  x \in TaskItems(d) \/ (Described(c[1]) /\ x = HeadItem(c))
  <2>1. PICK i \in 1 .. Len(c) : Described(c[i]) /\ x = Item(c[i].op, c[i].n, i - Len(c))
    BY <1>4
  <2>2. CASE i = 1
    BY <2>1, <2>2 DEF HeadItem
  <2>3. CASE i # 1
    <3>1. i - 1 \in 1 .. Len(c) - 1 /\ (i - 1) - (Len(c) - 1) = i - Len(c) /\ (i - 1) + 1 = i
      BY <1>2, <2>3
    <3> QED
      BY <1>3, <2>1, <3>1
  <2> QED
    BY <2>2, <2>3
<1> QED
  BY <1>5, <1>6 DEF d

\* The first task goes on: it still has to apply its description, or has applied it.
LEMMA StagedItems ==
  ASSUME NEW c \in Seq(Tasks), c # <<>>, NEW t \in Tasks, t.op = c[1].op,
         Described(t) => Described(c[1]) /\ t.n = c[1].n
  PROVE  TaskItems([c EXCEPT ![1] = t]) =
           IF Described(t) THEN TaskItems(c) ELSE TaskItems(c) \ {HeadItem(c)}
<1> DEFINE d == [c EXCEPT ![1] = t]
<1>1. /\ d \in Seq(Tasks) /\ Len(d) = Len(c) /\ Len(c) \in Nat \ {0} /\ d[1] = t
      /\ \A i \in 2 .. Len(c) : d[i] = c[i]
  BY Staged
<1> HIDE DEF d
<1>2. \A x : x \in TaskItems(d) <=>
        \E i \in 1 .. Len(c) : Described(d[i]) /\ x = Item(d[i].op, d[i].n, i - Len(c))
  BY <1>1, TasksListed
<1>3. \A x : x \in TaskItems(c) <=>
        \E i \in 1 .. Len(c) : Described(c[i]) /\ x = Item(c[i].op, c[i].n, i - Len(c))
  BY TasksListed
<1>4. \A i \in 1 .. Len(c) : i = 1 \/ i \in 2 .. Len(c)
  BY <1>1
<1>5. \A i \in 1 .. Len(c) : d[i].op = c[i].op /\ (Described(d[i]) => d[i].n = c[i].n /\ Described(c[i]))
  BY <1>1, <1>4
<1>6. TaskItems(d) \subseteq TaskItems(c)
  <2> SUFFICES ASSUME NEW x \in TaskItems(d) PROVE x \in TaskItems(c)
    OBVIOUS
  <2>1. PICK i \in 1 .. Len(c) : Described(d[i]) /\ x = Item(d[i].op, d[i].n, i - Len(c))
    BY <1>2
  <2> QED
    BY <1>3, <1>5, <2>1
<1>7. CASE Described(t)
  <2> SUFFICES ASSUME NEW x \in TaskItems(c) PROVE x \in TaskItems(d)
    BY <1>6, <1>7 DEF d
  <2>1. PICK i \in 1 .. Len(c) : Described(c[i]) /\ x = Item(c[i].op, c[i].n, i - Len(c))
    BY <1>3
  <2>2. Described(d[i]) /\ d[i].op = c[i].op /\ d[i].n = c[i].n
    BY <1>1, <1>4, <1>7, <2>1
  <2> QED
    BY <1>2, <2>1, <2>2
<1>8. CASE ~Described(t)
  <2>1. ASSUME NEW x \in TaskItems(d) PROVE x # HeadItem(c)
    <3>1. PICK i \in 1 .. Len(c) : Described(d[i]) /\ x = Item(d[i].op, d[i].n, i - Len(c))
      BY <1>2
    <3>2. i # 1
      BY <1>1, <1>8, <3>1
    <3>3. i - Len(c) # 1 - Len(c)
      BY <1>1, <3>2
    <3>4. x.pos # HeadItem(c).pos
      BY <3>1, <3>3, ItemParts DEF HeadItem
    <3> QED
      BY <3>4
  <2>2. ASSUME NEW x \in TaskItems(c), x # HeadItem(c) PROVE x \in TaskItems(d)
    <3>1. PICK i \in 1 .. Len(c) : Described(c[i]) /\ x = Item(c[i].op, c[i].n, i - Len(c))
      BY <1>3
    <3>2. i # 1
      BY <2>2, <3>1 DEF HeadItem
    <3>3. d[i] = c[i]
      BY <1>1, <1>4, <3>2
    <3> QED
      BY <1>2, <3>1, <3>3
  <2> QED
    BY <1>6, <1>8, <2>1, <2>2 DEF d
<1> QED
  BY <1>7, <1>8 DEF d

\* The first task is the first to apply its description.
LEMMA HeadFirst ==
  ASSUME NEW c \in Seq(Tasks), c # <<>>, Described(c[1]), NEW W, \A x \in W : x.pos \in Nat \ {0}
  PROVE  /\ HeadItem(c) \in TaskItems(c)
         /\ \A y \in TaskItems(c) \cup W : ~(y.pos < HeadItem(c).pos)
<1>1. Len(c) \in Nat \ {0}
  BY EmptySeq
<1>2. HeadItem(c).pos = 1 - Len(c)
  BY ItemParts DEF HeadItem
<1>3. HeadItem(c) \in TaskItems(c)
  <2>1. 1 \in 1 .. Len(c)
    BY <1>1
  <2> QED
    BY <2>1, TasksListed DEF HeadItem
<1>4. ASSUME NEW y \in TaskItems(c) PROVE ~(y.pos < 1 - Len(c))
  <2>1. PICK i \in 1 .. Len(c) : y = Item(c[i].op, c[i].n, i - Len(c))
    BY TasksListed
  <2>2. y.pos = i - Len(c)
    BY <2>1, ItemParts
  <2> QED
    BY <1>1, <2>2
<1>5. \A y \in W : ~(y.pos < 1 - Len(c))
  BY <1>1
<1> QED
  BY <1>2, <1>3, <1>4, <1>5

LEMMA QueuedItems ==
  ASSUME NEW c \in Seq(Tasks), NEW t \in Tasks
  PROVE  \A x \in TaskItems(Append(c, t)) :
           \/ x.pos < 0 /\ Item(x.kind, x.n, x.pos + 1) \in TaskItems(c)
           \/ x.pos = 0 /\ Described(t) /\ x = Item(t.op, t.n, 0)
<1> DEFINE d == Append(c, t)
<1>1. /\ d \in Seq(Tasks) /\ Len(d) = Len(c) + 1 /\ Len(c) \in Nat
      /\ \A i \in 1 .. Len(c) : d[i] = c[i]
      /\ d[Len(c) + 1] = t
  BY Queued
<1> HIDE DEF d
<1> SUFFICES ASSUME NEW x \in TaskItems(d)
             PROVE  \/ x.pos < 0 /\ Item(x.kind, x.n, x.pos + 1) \in TaskItems(c)
                    \/ x.pos = 0 /\ Described(t) /\ x = Item(t.op, t.n, 0)
  BY DEF d
<1>2. PICK i \in 1 .. Len(c) + 1 : Described(d[i]) /\ x = Item(d[i].op, d[i].n, i - (Len(c) + 1))
  BY <1>1, TasksListed
<1>3. x.kind = d[i].op /\ x.n = d[i].n /\ x.pos = i - (Len(c) + 1)
  BY <1>2, ItemParts
<1>4. CASE i = Len(c) + 1
  <2>1. i - (Len(c) + 1) = 0
    BY <1>1, <1>4
  <2> QED
    BY <1>1, <1>2, <1>3, <1>4, <2>1
<1>5. CASE i # Len(c) + 1
  <2>1. i \in 1 .. Len(c) /\ (i - (Len(c) + 1)) + 1 = i - Len(c) /\ i - (Len(c) + 1) < 0
    BY <1>1, <1>5
  <2>2. d[i] = c[i]
    BY <1>1, <2>1
  <2>3. Item(c[i].op, c[i].n, i - Len(c)) \in TaskItems(c)
    BY <1>2, <2>1, <2>2, TasksListed
  <2> QED
    BY <1>3, <2>1, <2>2, <2>3
<1> QED
  BY <1>4, <1>5

LEMMA ThinsSubset ==
  ASSUME NEW A, NEW A2, A2 \subseteq A
  PROVE  Thins(A2, A)
<1> DEFINE f == [x \in A2 |-> x]
<1>1. f \in [A2 -> A] /\ \A x \in A2 : f[x] = x
  OBVIOUS
<1> HIDE DEF f
<1> QED
  BY <1>1 DEF Thins

\* Another task: the tasks before it keep their order, and so does what it took
\* off the wire.
LEMMA Shifts ==
  ASSUME NEW c \in Seq(Tasks), NEW t \in Tasks, NEW W, NEW W2, W2 \subseteq W, Listed(W),
         \A x \in W : x.pos > 0,
         NEW k \in Nat, Described(t) => Item(t.op, t.n, k) \in W /\ \A x \in W2 : k < x.pos
  PROVE  Thins(TaskItems(Append(c, t)) \cup W2, TaskItems(c) \cup W)
<1> DEFINE T2 == TaskItems(Append(c, t))
           A == TaskItems(c) \cup W
           G(x) == IF x.pos < 0 THEN Item(x.kind, x.n, x.pos + 1)
                   ELSE IF x.pos = 0 THEN Item(x.kind, x.n, k) ELSE x
           g == [x \in T2 \cup W2 |-> G(x)]
<1>1. \A x \in T2 : \/ x.pos < 0 /\ Item(x.kind, x.n, x.pos + 1) \in TaskItems(c)
                    \/ x.pos = 0 /\ Described(t) /\ x = Item(t.op, t.n, 0)
  BY QueuedItems
<1>2. Append(c, t) \in Seq(Tasks)
  BY Queued
<1>3. Listed(T2) /\ \A x \in T2 : x.pos <= 0
  BY <1>2, TasksListed
<1>4. \A x \in T2 \cup W2 : x = Item(x.kind, x.n, x.pos) /\ x.pos \in Int
  BY <1>3 DEF Listed
<1>5. \A x \in W2 : x.pos > 0
  OBVIOUS
<1>6. \A x \in T2 \cup W2 : x.pos = 0 => Described(t) /\ Item(x.kind, x.n, k) \in W /\ x \in T2
  <2> SUFFICES ASSUME NEW x \in T2, x.pos = 0
               PROVE  Described(t) /\ Item(x.kind, x.n, k) \in W
    BY <1>4, <1>5
  <2>1. Described(t) /\ x = Item(t.op, t.n, 0)
    BY <1>1
  <2> QED
    BY <2>1, ItemParts
<1> HIDE DEF T2
<1>7. \A x \in T2 \cup W2 : G(x) \in A
  <2> SUFFICES ASSUME NEW x \in T2 \cup W2 PROVE G(x) \in A
    OBVIOUS
  <2>1. CASE x \in T2
    BY <1>1, <1>6, <2>1
  <2>2. CASE x \in W2
    BY <1>4, <1>5, <2>2
  <2> QED
    BY <2>1, <2>2
<1>8. \A x \in T2 \cup W2 : /\ G(x).kind = x.kind /\ G(x).n = x.n
                            /\ G(x).pos = IF x.pos < 0 THEN x.pos + 1 ELSE IF x.pos = 0 THEN k ELSE x.pos
  BY <1>4, ItemParts
<1>9. \A x \in T2 \cup W2 : x.pos = 0 => 0 < k
  BY <1>6, ItemParts
<1>10. \A x, y \in T2 \cup W2 : x.pos = 0 /\ y.pos > 0 => k < y.pos
  <2> SUFFICES ASSUME NEW x \in T2 \cup W2, NEW y \in T2 \cup W2, x.pos = 0, y.pos > 0
               PROVE  k < y.pos
    OBVIOUS
  <2>1. y \in W2
    BY <1>3, <1>4
  <2> QED
    BY <1>6, <2>1
<1> HIDE DEF A, G
<1>11. g \in [T2 \cup W2 -> A] /\ \A x \in T2 \cup W2 : g[x] = G(x)
  BY <1>7
<1>12. ASSUME NEW x \in T2 \cup W2, NEW y \in T2 \cup W2
       PROVE  (G(x) = G(y) => x = y) /\ (x.pos < y.pos <=> G(x).pos < G(y).pos)
  <2>1. /\ x.pos \in Int /\ y.pos \in Int /\ (x.pos = 0 => 0 < k) /\ (y.pos = 0 => 0 < k)
        /\ (x.pos = 0 /\ y.pos > 0 => k < y.pos) /\ (y.pos = 0 /\ x.pos > 0 => k < x.pos)
    BY <1>4, <1>9, <1>10
  <2>2. /\ G(x).pos = IF x.pos < 0 THEN x.pos + 1 ELSE IF x.pos = 0 THEN k ELSE x.pos
        /\ G(y).pos = IF y.pos < 0 THEN y.pos + 1 ELSE IF y.pos = 0 THEN k ELSE y.pos
    BY <1>8
  <2>3. x.pos < y.pos <=> G(x).pos < G(y).pos
    BY <2>1, <2>2
  <2>4. G(x).pos = G(y).pos => x.pos = y.pos
    BY <2>1, <2>2
  <2>5. G(x) = G(y) => x.kind = y.kind /\ x.n = y.n /\ x.pos = y.pos
    BY <1>8, <2>4
  <2>6. G(x) = G(y) => x = y
    BY <1>4, <2>5
  <2> QED
    BY <2>3, <2>6
<1> HIDE DEF g
<1>13. Thins(T2 \cup W2, A)
  BY <1>8, <1>11, <1>12 DEF Thins
<1> QED
  BY <1>13 DEF T2, A

\* What a side has still to apply after a step.
LEMMA ItemsAfter ==
  ASSUME NEW s
  PROVE  Items(s)' = IF mode' = "library" \/ page'[s].call
                       THEN TaskItems(chain'[s]) \cup WireItems(wire'[s], ledger'[s]) ELSE {}
  BY DEF Items, Alive, TaskItems, WireItems, Fresh, Described, Item, SeenIds, LastId

-----------------------------------------------------------------------------
(* What a step makes of the descriptions on their way                      *)

\* Nothing happens to the negotiation of a side, but that signals disappear.
Rests(x) ==
  (Alive(x)' <=> Alive(x)) /\ Alike(rtc'[x], rtc[x]) /\ Thins(Items(x)', Items(x))
Same(x) == (Alive(x)' <=> Alive(x)) /\ rtc'[x] = rtc[x] /\ Items(x)' = Items(x)

TakesOffer(s) ==
  /\ Same(Other(s)) /\ (Alive(s)' <=> Alive(s))
  /\ s # Polite => rtc[s].signaling = "stable"
  /\ rtc'[s].signaling = "have-remote-offer" /\ rtc'[s].offered = None
  /\ \E x \in OffersIn(Items(s)) :
       /\ \A y \in Items(s) : ~(y.pos < x.pos)
       /\ rtc'[s].heard = x.n /\ Items(s)' = Items(s) \ {x}
TakesAnswer(s) ==
  /\ Same(Other(s)) /\ (Alive(s)' <=> Alive(s))
  /\ rtc'[s].signaling = "stable" /\ rtc'[s].offered = None /\ rtc'[s].agreed = rtc[s].offered
  /\ \E x \in AnswersIn(Items(s)) :
       /\ \A y \in Items(s) : ~(y.pos < x.pos)
       /\ rtc'[s].heard = x.n /\ Items(s)' = Items(s) \ {x}

\* A description is on its way to a side, after all the others.
Gains(t, kind, n) ==
  /\ rtc'[t] = rtc[t] /\ (Alive(t)' <=> Alive(t))
  /\ \/ Items(t)' = Items(t)
     \/ Alive(t) /\ \E k : Items(t)' = Items(t) \cup {Item(kind, n, k)} /\ \A y \in Items(t) : y.pos < k
MakesOffer(s, n) ==
  /\ Alive(s) /\ Alive(s)' /\ rtc[s].signaling = "stable" /\ n # None
  /\ rtc'[s].signaling = "have-local-offer" /\ rtc'[s].offered = n
  /\ rtc'[s].agreed = rtc[s].agreed /\ rtc'[s].heard = rtc[s].heard
  /\ Items(s)' = Items(s) /\ Gains(Other(s), "call_offer", n)
Replies(s) ==
  /\ Alive(s) /\ Alive(s)' /\ rtc[s].signaling = "have-remote-offer"
  /\ rtc'[s].signaling = "stable" /\ rtc'[s].offered = None
  /\ rtc'[s].agreed = rtc[s].heard /\ rtc'[s].heard = rtc[s].heard
  /\ Items(s)' = Items(s) /\ Gains(Other(s), "call_answer", rtc[s].heard)
Goes(s) ==
  /\ ~Alive(s)' /\ rtc'[s] = NewConnection /\ Items(s)' = {}
  /\ Rests(Other(s)) /\ rtc'[Other(s)] = rtc[Other(s)]

LEMMA WireListed ==
  ASSUME LinkInv, Path, NEW s \in Sides
  PROVE  /\ Listed(WireItems(wire[s], ledger[s]))
         /\ \A x \in WireItems(wire[s], ledger[s]) : x.pos \in Nat \ {0} /\ x.pos <= sent[Other(s)] /\ x.n \in Made
         /\ sent[Other(s)] \in Nat
<1>1. sent[Other(s)] \in Nat
  BY TwoSides DEF LinkInv
<1>2. ASSUME NEW x \in WireItems(wire[s], ledger[s])
      PROVE  /\ x = Item(x.kind, x.n, x.pos) /\ x.kind \in Descriptions /\ x.pos \in Int
             /\ x.pos \in Nat \ {0} /\ x.pos <= sent[Other(s)] /\ x.n \in Made
  <2>1. PICK e \in wire[s] : Fresh(ledger[s], e) /\ x = Item(e.type, e.content, e.id)
    BY DEF WireItems
  <2>2. x.kind = e.type /\ x.n = e.content /\ x.pos = e.id /\ x = Item(x.kind, x.n, x.pos)
    BY <2>1, ItemParts
  <2>3. e.id \in 1 .. sent[Other(s)]
    BY OnTheWay
  <2>4. e.type \in Descriptions /\ e.type \in Named
    BY <2>1 DEF Fresh, Descriptions, Named
  <2>5. e.content \in Made
    BY <2>4 DEF LinkInv, WireOK, GoodSignal
  <2> QED
    BY <1>1, <2>2, <2>3, <2>4, <2>5
<1> QED
  BY <1>1, <1>2 DEF Listed

LEMMA Linked ==
  ASSUME LinkInv, PageInv, Path, NEW s \in Sides
  PROVE  /\ Link(rtc[s], Items(s), Alive(s))
         /\ Listed(Items(s)) /\ \A x \in Items(s) : x.n \in Made /\ x.pos <= sent[Other(s)]
         /\ rtc[s].heard \in Made \cup {None}
<1>1. /\ LinkShape(rtc[s], chain[s], nego[s], pending[s]) /\ NamesOK(rtc[s], chain[s], Made)
      /\ chain[s] \in Seq(Tasks)
  BY DEF LinkInv
<1>2. \A x \in TaskItems(chain[s]) : x.n \in Made /\ x.pos <= 0
  <2> SUFFICES ASSUME NEW x \in TaskItems(chain[s]) PROVE x.n \in Made
    BY <1>1, TasksListed
  <2>1. PICK i \in 1 .. Len(chain[s]) :
          Described(chain[s][i]) /\ x = Item(chain[s][i].op, chain[s][i].n, i - Len(chain[s]))
    BY <1>1, TasksListed
  <2>2. x.n = chain[s][i].n
    BY <2>1, ItemParts
  <2>3. chain[s][i].op # "ice_candidate"
    BY <2>1 DEF Described
  <2>4. i \in DOMAIN chain[s]
    BY <1>1, LenProperties
  <2> QED
    BY <1>1, <2>2, <2>3, <2>4 DEF NamesOK
<1>3. /\ Listed(TaskItems(chain[s])) /\ Listed(WireItems(wire[s], ledger[s])) /\ sent[Other(s)] \in Nat
      /\ \A x \in WireItems(wire[s], ledger[s]) : x.n \in Made /\ x.pos <= sent[Other(s)]
  BY <1>1, TasksListed, WireListed
<1>4. Listed(Items(s)) /\ \A x \in Items(s) : x.n \in Made /\ x.pos <= sent[Other(s)]
  BY <1>2, <1>3 DEF Listed, Items
<1>5. None \notin Made
  BY DEF Made, None
<1>6. ~Alive(s) => Items(s) = {} /\ rtc[s].signaling = "stable" /\ rtc[s].offered = None
  <2>1. ~Alive(s) => rtc[s] = NewConnection
    BY DEF Alive, PageInv, Parted, LinkInv
  <2>2. NewConnection.signaling = "stable" /\ NewConnection.offered = None
    BY DEF NewConnection
  <2> QED
    BY <2>1, <2>2 DEF Items
<1>7. Link(rtc[s], Items(s), Alive(s))
  BY <1>1, <1>4, <1>5, <1>6 DEF Link, LinkShape
<1> QED
  BY <1>1, <1>4, <1>7 DEF NamesOK

LEMMA AliveAfter ==
  ASSUME CallsStay, NEW x \in Sides
  PROVE  Alive(x)' <=> Alive(x)
  BY DEF CallsStay, CallsKept, Alive

LEMMA SameSide ==
  ASSUME CallsStay, NEW x \in Sides, rtc'[x] = rtc[x], chain'[x] = chain[x], wire'[x] = wire[x], ledger'[x] = ledger[x]
  PROVE  Same(x)
<1>1. Alive(x)' <=> Alive(x)
  BY AliveAfter
<1>2. mode' = "library" \/ page'[x].call <=> Alive(x)
  BY DEF CallsStay, CallsKept, Alive
<1>3. Items(x)' = Items(x)
  BY <1>2, ItemsAfter DEF Items
<1> QED
  BY <1>1, <1>3 DEF Same

LEMMA RestingSide ==
  ASSUME CallsStay, NEW x \in Sides, Alike(rtc'[x], rtc[x]), chain'[x] = chain[x], wire'[x] \subseteq wire[x],
         ledger'[x] = ledger[x]
  PROVE  Rests(x)
<1>1. Alive(x)' <=> Alive(x)
  BY AliveAfter
<1>2. mode' = "library" \/ page'[x].call <=> Alive(x)
  BY DEF CallsStay, CallsKept, Alive
<1>3. WireItems(wire'[x], ledger[x]) \subseteq WireItems(wire[x], ledger[x])
  BY DEF WireItems
<1>4. Items(x)' \subseteq Items(x)
  BY <1>2, <1>3, ItemsAfter DEF Items
<1> QED
  BY <1>1, <1>4, ThinsSubset DEF Rests

LEMMA SettlingSide ==
  ASSUME LinkInv, Path, CallsStay, NEW s \in Sides, Alive(s), chain[s] # <<>>, Settle(s, 1),
         wire'[s] = wire[s], ledger'[s] = ledger[s]
  PROVE  /\ Items(s)' = Items(s) \ {HeadItem(chain[s])}
         /\ ~Described(chain[s][1]) => Items(s)' = Items(s)
<1> DEFINE W == WireItems(wire[s], ledger[s])
<1>1. chain[s] \in Seq(Tasks) /\ chain'[s] = RemoveAt(chain[s], 1)
  BY DEF LinkInv, Settle
<1>2. mode' = "library" \/ page'[s].call
  BY DEF CallsStay, CallsKept, Alive
<1>3. Items(s)' = TaskItems(chain'[s]) \cup W
  BY <1>2, ItemsAfter
<1>4. Items(s) = TaskItems(chain[s]) \cup W
  BY DEF Items
<1>5. HeadItem(chain[s]) \notin W
  <2>1. \A x \in W : x.pos \in Nat \ {0}
    BY WireListed
  <2>2. HeadItem(chain[s]).pos = 1 - Len(chain[s])
    BY ItemParts DEF HeadItem
  <2>3. Len(chain[s]) \in Nat \ {0}
    BY <1>1, EmptySeq
  <2> QED
    BY <2>1, <2>2, <2>3
<1>6. /\ TaskItems(chain'[s]) = TaskItems(chain[s]) \ {HeadItem(chain[s])}
      /\ ~Described(chain[s][1]) => TaskItems(chain'[s]) = TaskItems(chain[s])
  BY <1>1, SettledItems
<1> HIDE DEF W
<1> QED
  BY <1>3, <1>4, <1>5, <1>6

LEMMA StagingSide ==
  ASSUME LinkInv, Path, CallsStay, NEW s \in Sides, Alive(s), chain[s] # <<>>,
         NEW t \in Tasks, chain'[s] = [chain[s] EXCEPT ![1] = t], t.op = chain[s][1].op,
         Described(t) => Described(chain[s][1]) /\ t.n = chain[s][1].n,
         wire'[s] = wire[s], ledger'[s] = ledger[s]
  PROVE  Items(s)' = IF Described(t) THEN Items(s) ELSE Items(s) \ {HeadItem(chain[s])}
<1> DEFINE W == WireItems(wire[s], ledger[s])
<1>1. chain[s] \in Seq(Tasks)
  BY DEF LinkInv
<1>2. mode' = "library" \/ page'[s].call
  BY DEF CallsStay, CallsKept, Alive
<1>3. Items(s)' = TaskItems(chain'[s]) \cup W
  BY <1>2, ItemsAfter
<1>4. Items(s) = TaskItems(chain[s]) \cup W
  BY DEF Items
<1>5. HeadItem(chain[s]) \notin W
  <2>1. \A x \in W : x.pos \in Nat \ {0}
    BY WireListed
  <2>2. HeadItem(chain[s]).pos = 1 - Len(chain[s])
    BY ItemParts DEF HeadItem
  <2>3. Len(chain[s]) \in Nat \ {0}
    BY <1>1, EmptySeq
  <2> QED
    BY <2>1, <2>2, <2>3
<1>6. TaskItems(chain'[s]) =
        IF Described(t) THEN TaskItems(chain[s]) ELSE TaskItems(chain[s]) \ {HeadItem(chain[s])}
  BY <1>1, StagedItems
<1> HIDE DEF W
<1> QED
  BY <1>3, <1>4, <1>5, <1>6

\* The description of the first task.
LEMMA HeadOfSide ==
  ASSUME LinkInv, Path, NEW s \in Sides, Alive(s), chain[s] # <<>>, Described(chain[s][1])
  PROVE  /\ HeadItem(chain[s]) \in Items(s)
         /\ \A y \in Items(s) : ~(y.pos < HeadItem(chain[s]).pos)
         /\ HeadItem(chain[s]).kind = chain[s][1].op /\ HeadItem(chain[s]).n = chain[s][1].n
<1> DEFINE W == WireItems(wire[s], ledger[s])
<1>1. chain[s] \in Seq(Tasks)
  BY DEF LinkInv
<1>2. Items(s) = TaskItems(chain[s]) \cup W
  BY DEF Items
<1>3. \A x \in W : x.pos \in Nat \ {0}
  BY WireListed
<1>4. HeadItem(chain[s]).kind = chain[s][1].op /\ HeadItem(chain[s]).n = chain[s][1].n
  BY ItemParts DEF HeadItem
<1> HIDE DEF W
<1> QED
  BY <1>1, <1>2, <1>3, <1>4, HeadFirst

\* A task that leaves both descriptions of its connection alone.
LEMMA SettlingRests ==
  ASSUME LinkInv, Path, CallsStay, NEW s \in Sides, Alive(s), chain[s] # <<>>, Settle(s, 1),
         wire'[s] = wire[s], ledger'[s] = ledger[s], Alike(rtc'[s], rtc[s])
  PROVE  Rests(s)
<1>1. Items(s)' \subseteq Items(s)
  BY SettlingSide
<1> QED
  BY <1>1, AliveAfter, ThinsSubset DEF Rests

\* The other side sees nothing of a task that sends nothing.
LEMMA OthersStay ==
  ASSUME LinkInv, NEW s \in Sides, NEW i,
         \/ CreateOffer(s, i) \/ AbandonOffer(s, i) \/ IgnoreOffer(s, i) \/ ApplyOffer(s, i)
         \/ IgnoreAnswer(s, i) \/ BeginAnswer(s, i) \/ ApplyAnswer(s, i)
         \/ HoldCandidate(s, i) \/ AddCandidate(s, i) \/ SendOffer(s, i) \/ Answer(s, i)
  PROVE  \A x \in Sides : x # s => rtc'[x] = rtc[x] /\ chain'[x] = chain[x]
  BY DEF CreateOffer, AbandonOffer, IgnoreOffer, ApplyOffer, IgnoreAnswer, BeginAnswer, ApplyAnswer,
         HoldCandidate, AddCandidate, SendOffer, Answer, Settle, Stage, Update, LinkInv

LEMMA CreateOfferRests ==
  ASSUME LinkInv, Path, CallsStay, NEW s \in Sides, Alive(s), UNCHANGED <<wire, ledger>>, NEW i, CreateOffer(s, i)
  PROVE  Rests(s)
<1> DEFINE t == [chain[s][1] EXCEPT !.stage = "created", !.mine = nego[s].generation + 1]
<1>1. i = 1 /\ Running(s, "offer", "start")
  <2>1. Runs(s, i, "offer", "start")
    BY DEF CreateOffer
  <2> QED
    BY <2>1, AtHead
<1>2. chain[s] # <<>> /\ chain[s][1] \in Tasks /\ chain[s][1].op = "offer" /\ nego[s].generation + 1 \in Nat
  BY <1>1 DEF Running, Negotiation
<1>3. t \in Tasks /\ t.op = "offer"
  <2>1. chain[s][1] \in [op : {"offer"}, stage : {"start", "created"}, n : Nat, mine : Nat]
    BY <1>2 DEF Tasks
  <2>2. t \in [op : {"offer"}, stage : {"start", "created"}, n : Nat, mine : Nat] /\ t.op = "offer"
    BY <1>2, <2>1
  <2> QED
    BY <2>2 DEF Tasks
<1>4. chain'[s] = [chain[s] EXCEPT ![1] = t]
  BY <1>1 DEF CreateOffer, LinkInv
<1> HIDE DEF t
<1>5. ~Described(t) /\ ~Described(chain[s][1])
  BY <1>2, <1>3 DEF Described
<1>6. Items(s)' = Items(s) \ {HeadItem(chain[s])}
  BY <1>2, <1>3, <1>4, <1>5, StagingSide
<1>7. rtc'[s] = rtc[s]
  BY DEF CreateOffer
<1>8. Thins(Items(s)', Items(s))
  BY <1>6, ThinsSubset
<1> QED
  BY <1>7, <1>8, AliveAfter DEF Rests, Alike

LEMMA BeginAnswerRests ==
  ASSUME LinkInv, Path, CallsStay, NEW s \in Sides, Alive(s), UNCHANGED <<wire, ledger>>, NEW i, BeginAnswer(s, i)
  PROVE  Rests(s)
<1> DEFINE t == [chain[s][1] EXCEPT !.stage = "applying"]
<1>1. i = 1 /\ Running(s, "call_answer", "start")
  <2>1. Runs(s, i, "call_answer", "start")
    BY DEF BeginAnswer
  <2> QED
    BY <2>1, AtHead
<1>2. chain[s] # <<>> /\ chain[s][1] \in Tasks /\ chain[s][1].op = "call_answer"
  BY <1>1 DEF Running
<1>3. t \in Tasks /\ t.op = "call_answer" /\ t.n = chain[s][1].n
  <2>1. chain[s][1] \in [op : {"call_answer"}, stage : {"start", "applying"}, n : Nat]
    BY <1>2 DEF Tasks
  <2>2. /\ t \in [op : {"call_answer"}, stage : {"start", "applying"}, n : Nat]
        /\ t.op = "call_answer" /\ t.n = chain[s][1].n
    BY <2>1
  <2> QED
    BY <2>2 DEF Tasks
<1>4. chain'[s] = [chain[s] EXCEPT ![1] = t]
  BY <1>1 DEF BeginAnswer, Stage, LinkInv
<1> HIDE DEF t
<1>5. Described(t) /\ Described(chain[s][1])
  BY <1>2, <1>3 DEF Described
<1>6. Items(s)' = Items(s)
  BY <1>2, <1>3, <1>4, <1>5, StagingSide
<1>7. rtc'[s] = rtc[s]
  BY DEF BeginAnswer
<1>8. Thins(Items(s)', Items(s))
  BY <1>6, ThinsSubset
<1> QED
  BY <1>7, <1>8, AliveAfter DEF Rests, Alike

LEMMA ApplyOfferTakes ==
  ASSUME LinkInv, Path, CallsStay, NEW s \in Sides, Alive(s), UNCHANGED <<wire, ledger>>, NEW i, ApplyOffer(s, i),
         Same(Other(s))
  PROVE  TakesOffer(s)
<1> DEFINE n == chain[s][1].n
           t == [chain[s][1] EXCEPT !.stage = "answering"]
<1>1. /\ Running(s, "call_offer", "start") /\ Update(s, Offered(s, n)) /\ Stage(s, 1, "answering")
      /\ rtc[s].signaling = "stable" \/ (s = Polite /\ rtc[s].signaling = "have-local-offer")
  BY ApplyOfferGoes
<1>2. /\ chain[s] # <<>> /\ chain[s][1] \in Tasks /\ chain[s][1].op = "call_offer"
      /\ chain[s][1].stage = "start" /\ rtc[s] \in Connection
  BY <1>1 DEF Running
<1>3. t \in Tasks /\ t.op = "call_offer" /\ t.stage = "answering"
  <2>1. chain[s][1] \in [op : {"call_offer"}, stage : {"start", "answering"}, n : Nat]
    BY <1>2 DEF Tasks
  <2>2. /\ t \in [op : {"call_offer"}, stage : {"start", "answering"}, n : Nat]
        /\ t.op = "call_offer" /\ t.stage = "answering"
    BY <2>1
  <2> QED
    BY <2>2 DEF Tasks
<1>4. chain'[s] = [chain[s] EXCEPT ![1] = t]
  BY <1>1 DEF Stage, LinkInv
<1>5. rtc'[s].signaling = "have-remote-offer" /\ rtc'[s].offered = None /\ rtc'[s].heard = n
  <2>1. rtc'[s] = Offered(s, n)
    BY <1>1 DEF Update, LinkInv
  <2> QED
    BY <1>2, <2>1 DEF Offered, Connection
<1> HIDE DEF t
<1>6. ~Described(t) /\ Described(chain[s][1])
  BY <1>2, <1>3 DEF Described
<1>7. Items(s)' = Items(s) \ {HeadItem(chain[s])}
  BY <1>2, <1>3, <1>4, <1>6, StagingSide
<1>8. /\ HeadItem(chain[s]) \in OffersIn(Items(s)) /\ HeadItem(chain[s]).n = n
      /\ \A y \in Items(s) : ~(y.pos < HeadItem(chain[s]).pos)
  BY <1>2, <1>6, HeadOfSide DEF OffersIn
<1> HIDE DEF n
<1> QED
  BY <1>1, <1>5, <1>7, <1>8, AliveAfter DEF TakesOffer

LEMMA ApplyAnswerTakes ==
  ASSUME LinkInv, Path, CallsStay, NEW s \in Sides, Alive(s), UNCHANGED <<wire, ledger>>, NEW i, ApplyAnswer(s, i),
         Same(Other(s))
  PROVE  TakesAnswer(s)
<1> DEFINE n == chain[s][1].n
<1>1. /\ Running(s, "call_answer", "applying") /\ Settle(s, 1)
      /\ Update(s, [rtc[s] EXCEPT !.signaling = "stable", !.agreed = rtc[s].offered,
                    !.offered = None, !.heard = n, !.paths = DrainedInto(s, n)])
  BY ApplyAnswerGoes
<1>2. /\ chain[s] # <<>> /\ chain[s][1] \in Tasks /\ chain[s][1].op = "call_answer" /\ rtc[s] \in Connection
  BY <1>1 DEF Running
<1>3. /\ rtc'[s].signaling = "stable" /\ rtc'[s].offered = None /\ rtc'[s].heard = n
      /\ rtc'[s].agreed = rtc[s].offered
  <2>1. rtc'[s] = [rtc[s] EXCEPT !.signaling = "stable", !.agreed = rtc[s].offered,
                    !.offered = None, !.heard = n, !.paths = DrainedInto(s, n)]
    BY <1>1 DEF Update, LinkInv
  <2> QED
    BY <1>2, <2>1 DEF Connection
<1>4. Described(chain[s][1])
  BY <1>2 DEF Described
<1>5. Items(s)' = Items(s) \ {HeadItem(chain[s])}
  BY <1>1, <1>2, SettlingSide
<1>6. /\ HeadItem(chain[s]) \in AnswersIn(Items(s)) /\ HeadItem(chain[s]).n = n
      /\ \A y \in Items(s) : ~(y.pos < HeadItem(chain[s]).pos)
  BY <1>2, <1>4, HeadOfSide DEF AnswersIn
<1> HIDE DEF n
<1> QED
  BY <1>3, <1>5, <1>6, AliveAfter DEF TakesAnswer

LEMMA WorksDeals ==
  ASSUME LinkInv, Path, NEW s \in Sides, Works(s)
  PROVE  (Rests(s) /\ Same(Other(s))) \/ TakesOffer(s) \/ TakesAnswer(s)
<1>1. CallsStay /\ Alive(s) /\ UNCHANGED <<wire, ledger>>
  BY DEF Works
<1>2. PICK i :
         \/ CreateOffer(s, i) \/ AbandonOffer(s, i) \/ IgnoreOffer(s, i) \/ ApplyOffer(s, i)
         \/ IgnoreAnswer(s, i) \/ BeginAnswer(s, i) \/ ApplyAnswer(s, i)
         \/ HoldCandidate(s, i) \/ AddCandidate(s, i)
  BY DEF Works
<1>3. Same(Other(s))
  <2>1. Other(s) \in Sides /\ Other(s) # s
    BY TwoSides
  <2>2. rtc'[Other(s)] = rtc[Other(s)] /\ chain'[Other(s)] = chain[Other(s)]
    BY <1>2, <2>1, OthersStay
  <2> QED
    BY <1>1, <2>1, <2>2, SameSide
<1>4. CASE AbandonOffer(s, i) \/ IgnoreOffer(s, i) \/ IgnoreAnswer(s, i) \/ HoldCandidate(s, i) \/ AddCandidate(s, i)
  <2>1. \E op, stage : Runs(s, i, op, stage)
    BY <1>4 DEF AbandonOffer, IgnoreOffer, IgnoreAnswer, HoldCandidate, AddCandidate
  <2>2. i = 1 /\ chain[s] # <<>>
    BY <2>1, AtHead DEF Running
  <2>3. Settle(s, 1)
    BY <1>4, <2>2 DEF AbandonOffer, IgnoreOffer, IgnoreAnswer, HoldCandidate, AddCandidate
  <2>4. Alike(rtc'[s], rtc[s])
    <3>1. CASE AddCandidate(s, i)
      <4>1. rtc[s] \in Connection /\ \E P : rtc'[s] = [rtc[s] EXCEPT !.paths = P]
        BY <3>1 DEF AddCandidate, Update, LinkInv
      <4> QED
        BY <4>1 DEF Alike, Connection
    <3>2. CASE ~AddCandidate(s, i)
      BY <1>4, <3>2 DEF AbandonOffer, IgnoreOffer, IgnoreAnswer, HoldCandidate, Alike
    <3> QED
      BY <3>1, <3>2
  <2> QED
    BY <1>1, <1>3, <2>2, <2>3, <2>4, SettlingRests
<1>5. CASE CreateOffer(s, i)
  BY <1>1, <1>3, <1>5, CreateOfferRests
<1>6. CASE BeginAnswer(s, i)
  BY <1>1, <1>3, <1>6, BeginAnswerRests
<1>7. CASE ApplyOffer(s, i)
  BY <1>1, <1>3, <1>7, ApplyOfferTakes
<1>8. CASE ApplyAnswer(s, i)
  BY <1>1, <1>3, <1>8, ApplyAnswerTakes
<1> QED
  BY <1>2, <1>4, <1>5, <1>6, <1>7, <1>8

\* A signal joins the others on the wire, and comes after all of them.
LEMMA DrawnItems ==
  ASSUME LinkInv, PageInv, Path, CallsStay, NEW s \in Sides, UNCHANGED ledger, NEW type, NEW n,
         Drawn(s, Signal(s, type, n)), rtc'[Other(s)] = rtc[Other(s)], chain'[Other(s)] = chain[Other(s)]
  PROVE  /\ wire'[s] = wire[s]
         /\ type \in Descriptions => Gains(Other(s), type, n)
         /\ type \notin Descriptions => Same(Other(s))
<1> DEFINE t == Other(s)
           e == Signal(s, type, n)
           W == WireItems(wire[t], ledger[t])
<1>0. t \in Sides /\ t # s /\ Other(t) = s
  BY TwoSides
<1>1. wire'[s] = wire[s] /\ (wire'[t] = wire[t] \/ wire'[t] = wire[t] \cup {e})
  BY <1>0 DEF Drawn, LinkInv
<1>2. Alive(t)' <=> Alive(t)
  BY <1>0, AliveAfter
<1>3. mode' = "library" \/ page'[t].call <=> Alive(t)
  BY <1>0 DEF CallsStay, CallsKept, Alive
<1>4. Items(t)' = IF Alive(t) THEN TaskItems(chain[t]) \cup WireItems(wire'[t], ledger[t]) ELSE {}
  BY <1>0, <1>3, ItemsAfter
<1>5. e.type = type /\ e.content = n /\ e.id = sent[s] + 1
  BY DEF Signal
<1> HIDE DEF e
<1>6. CASE ~Alive(t) \/ wire'[t] = wire[t]
  <2>1. Items(t)' = Items(t)
    BY <1>4, <1>6 DEF Items
  <2> QED
    BY <1>1, <1>2, <2>1 DEF Gains, Same
<1>7. CASE Alive(t) /\ wire'[t] = wire[t] \cup {e} /\ type \notin Descriptions
  <2>1. WireItems(wire'[t], ledger[t]) = W
    BY <1>5, <1>7 DEF WireItems, Fresh, Descriptions
  <2>2. Items(t)' = Items(t)
    BY <1>4, <1>7, <2>1 DEF Items
  <2> QED
    BY <1>1, <1>2, <1>7, <2>2 DEF Same
<1>8. CASE Alive(t) /\ wire'[t] = wire[t] \cup {e} /\ type \in Descriptions
  <2>1. Fresh(ledger[t], e)
    <3>1. LedgerOf(ledger[t], t, s, sent[s]) /\ sent[s] \in Nat
      BY <1>0, <1>8 DEF Path, Remembered, LinkInv
    <3>2. SeenIds(ledger[t]) \subseteq 1 .. sent[s] /\ LastId(ledger[t]) \in 0 .. sent[s]
      BY <3>1, SeenEntries
    <3>3. sent[s] + 1 \notin SeenIds(ledger[t]) /\ LastId(ledger[t]) <= sent[s] + 1
      BY <3>1, <3>2
    <3> QED
      BY <1>5, <1>8, <3>3 DEF Fresh, Descriptions
  <2>2. WireItems(wire'[t], ledger[t]) = W \cup {Item(type, n, sent[s] + 1)}
    BY <1>5, <1>8, <2>1 DEF WireItems
  <2>3. \A y \in Items(t) : y.pos < sent[s] + 1
    <3>1. \A y \in Items(t) : y.pos \in Int /\ y.pos <= sent[s]
      BY <1>0, Linked DEF Listed
    <3>2. sent[s] \in Nat
      BY DEF LinkInv
    <3> QED
      BY <3>1, <3>2
  <2>4. Items(t)' = Items(t) \cup {Item(type, n, sent[s] + 1)}
    BY <1>4, <1>8, <2>2 DEF Items
  <2>5. Gains(t, type, n)
    BY <1>2, <1>8, <2>3, <2>4 DEF Gains
  <2> QED
    BY <1>1, <1>8, <2>5
<1> QED
  BY <1>1, <1>6, <1>7, <1>8

LEMMA SpeaksDeals ==
  ASSUME LinkInv, PageInv, Path, NEW s \in Sides, Speaks(s)
  PROVE  \/ Replies(s)
         \/ /\ MakesOffer(s, chain[s][1].n)
            /\ chain[s] # <<>> /\ chain[s][1].op = "offer" /\ chain'[s] = RemoveAt(chain[s], 1)
            /\ chain'[Other(s)] = chain[Other(s)]
<1> DEFINE n == chain[s][1].n
<1>1. CallsStay /\ Alive(s) /\ UNCHANGED ledger
  BY DEF Speaks
<1>2. PICK i : SendOffer(s, i) \/ Answer(s, i)
  BY DEF Speaks
<1>3. Other(s) \in Sides /\ rtc'[Other(s)] = rtc[Other(s)] /\ chain'[Other(s)] = chain[Other(s)]
  <2>1. Other(s) \in Sides /\ Other(s) # s
    BY TwoSides
  <2> QED
    BY <1>2, <2>1, OthersStay
<1>4. Alive(s)'
  BY <1>1, AliveAfter
<1>5. CASE SendOffer(s, i)
  <2>1. i = 1 /\ Running(s, "offer", "created")
    <3>1. Runs(s, i, "offer", "created")
      BY <1>5 DEF SendOffer
    <3> QED
      BY <3>1, AtHead
  <2>2. /\ chain[s] # <<>> /\ 1 \in DOMAIN chain[s] /\ chain[s][1].op = "offer" /\ NamesOK(rtc[s], chain[s], Made)
        /\ rtc[s] \in Connection
    BY <2>1 DEF Running
  <2>3. /\ Update(s, [rtc[s] EXCEPT !.signaling = "have-local-offer", !.offered = n])
        /\ Send(s, "call_offer", n) /\ Settle(s, 1) /\ rtc[s].signaling = "stable"
    BY <1>5, <2>1 DEF SendOffer
  <2>4. n # None
    BY <2>2 DEF NamesOK, Made, None
  <2>5. /\ rtc'[s].signaling = "have-local-offer" /\ rtc'[s].offered = n
        /\ rtc'[s].agreed = rtc[s].agreed /\ rtc'[s].heard = rtc[s].heard
    <3>1. rtc'[s] = [rtc[s] EXCEPT !.signaling = "have-local-offer", !.offered = n]
      BY <2>3 DEF Update, LinkInv
    <3> QED
      BY <2>2, <3>1 DEF Connection
  <2>6. Drawn(s, Signal(s, "call_offer", n))
    BY <2>3 DEF Send, Drawn
  <2>7. wire'[s] = wire[s] /\ Gains(Other(s), "call_offer", n)
    BY <1>1, <1>3, <2>6, DrawnItems DEF Descriptions
  <2>8. ~Described(chain[s][1])
    BY <2>2 DEF Described
  <2>9. Items(s)' = Items(s)
    BY <1>1, <2>2, <2>3, <2>7, <2>8, SettlingSide
  <2>10. chain'[s] = RemoveAt(chain[s], 1)
    BY <2>3 DEF Settle, LinkInv
  <2> HIDE DEF n
  <2>11. MakesOffer(s, n)
    BY <1>1, <1>4, <2>3, <2>4, <2>5, <2>7, <2>9 DEF MakesOffer
  <2> QED
    BY <1>3, <2>2, <2>10, <2>11 DEF n
<1>6. CASE Answer(s, i)
  <2>1. /\ Running(s, "call_offer", "answering") /\ rtc[s].signaling = "have-remote-offer"
        /\ Update(s, [rtc[s] EXCEPT !.signaling = "stable", !.agreed = rtc[s].heard])
        /\ Send(s, "call_answer", rtc[s].heard) /\ Settle(s, 1)
    BY <1>6, AnswerGoes
  <2>2. /\ chain[s] # <<>> /\ chain[s][1].op = "call_offer" /\ chain[s][1].stage = "answering"
        /\ rtc[s] \in Connection /\ LinkShape(rtc[s], chain[s], nego[s], pending[s])
    BY <2>1 DEF Running
  <2>3. /\ rtc'[s].signaling = "stable" /\ rtc'[s].offered = None
        /\ rtc'[s].agreed = rtc[s].heard /\ rtc'[s].heard = rtc[s].heard
    <3>1. rtc'[s] = [rtc[s] EXCEPT !.signaling = "stable", !.agreed = rtc[s].heard]
      BY <2>1 DEF Update, LinkInv
    <3>2. rtc[s].offered = None
      BY <2>1, <2>2 DEF LinkShape
    <3> QED
      BY <2>2, <3>1, <3>2 DEF Connection
  <2>4. Drawn(s, Signal(s, "call_answer", rtc[s].heard))
    BY <2>1 DEF Send, Drawn
  <2>5. wire'[s] = wire[s] /\ Gains(Other(s), "call_answer", rtc[s].heard)
    BY <1>1, <1>3, <2>4, DrawnItems DEF Descriptions
  <2>6. ~Described(chain[s][1])
    BY <2>2 DEF Described
  <2>7. Items(s)' = Items(s)
    BY <1>1, <2>1, <2>2, <2>5, <2>6, SettlingSide
  <2>8. Replies(s)
    BY <1>1, <1>4, <2>1, <2>3, <2>5, <2>7 DEF Replies
  <2> QED
    BY <2>8
<1> QED
  BY <1>2, <1>5, <1>6

LEMMA MentionsDeals ==
  ASSUME LinkInv, PageInv, Path, NEW s \in Sides, Mentions(s)
  PROVE  Rests(s) /\ Same(Other(s))
<1>1. PICK n, type : type \in {"ice_candidate", "call_resync", "call_hangup"} /\ Drawn(s, Signal(s, type, n))
  BY DEF Mentions
<1>2. type \notin Descriptions
  BY <1>1 DEF Descriptions
<1>3. Other(s) \in Sides /\ rtc'[Other(s)] = rtc[Other(s)] /\ chain' = chain /\ UNCHANGED ledger /\ CallsStay
  BY TwoSides DEF Mentions
<1>4. wire'[s] = wire[s] /\ Same(Other(s))
  BY <1>1, <1>2, <1>3, DrawnItems
<1>5. Alike(rtc'[s], rtc[s])
  BY DEF Mentions, Alike
<1> QED
  BY <1>3, <1>4, <1>5, RestingSide

LEMMA StillDeals ==
  ASSUME LinkInv, Still, NEW s \in Sides
  PROVE  Rests(s)
  BY RestingSide DEF Still, Alike

LEMMA AsksDeals ==
  ASSUME LinkInv, Path, NEW s \in Sides, Asks(s)
  PROVE  /\ Rests(s) /\ Same(Other(s)) /\ made' = made + 1
         /\ chain' = [chain EXCEPT ![s] = Append(chain[s], OfferTask(made + 1))]
<1> DEFINE t == OfferTask(made + 1)
           W == WireItems(wire[s], ledger[s])
<1>1. CallsStay /\ Alive(s) /\ UNCHANGED <<rtc, wire, ledger>> /\ made' = made + 1
  BY DEF Asks, CallOffer
<1>2. chain' = [chain EXCEPT ![s] = Append(chain[s], t)] /\ chain[s] \in Seq(Tasks)
  BY DEF Asks, CallOffer, Serialize, LinkInv
<1>3. t \in Tasks /\ ~Described(t)
  BY DEF OfferTask, Tasks, LinkInv, Described
<1> HIDE DEF t
<1>4. chain'[s] = Append(chain[s], t)
  BY <1>2 DEF LinkInv
<1>5. Same(Other(s))
  <2>1. Other(s) \in Sides /\ Other(s) # s
    BY TwoSides
  <2>2. chain'[Other(s)] = chain[Other(s)]
    BY <1>2, <2>1 DEF LinkInv
  <2> QED
    BY <1>1, <2>1, <2>2, SameSide
<1>6. Thins(TaskItems(Append(chain[s], t)) \cup W, TaskItems(chain[s]) \cup W)
  <2>1. Listed(W) /\ \A x \in W : x.pos > 0
    BY WireListed
  <2> HIDE DEF W
  <2>2. 0 \in Nat
    OBVIOUS
  <2> QED
    BY <1>2, <1>3, <2>1, <2>2, Shifts
<1>7. mode' = "library" \/ page'[s].call
  BY <1>1 DEF CallsStay, CallsKept, Alive
<1>8. Items(s)' = TaskItems(chain'[s]) \cup W
  BY <1>1, <1>7, ItemsAfter
<1>9. Items(s) = TaskItems(chain[s]) \cup W
  BY <1>1 DEF Items
<1> HIDE DEF W
<1>10. Rests(s)
  BY <1>1, <1>4, <1>6, <1>8, <1>9, AliveAfter DEF Rests, Alike
<1> QED
  BY <1>1, <1>2, <1>5, <1>10 DEF t

LEMMA HearsDeals ==
  ASSUME LinkInv, Path, Fits, NEW s \in Sides, Hears(s)
  PROVE  Rests(s) /\ Same(Other(s))
<1> DEFINE t == Other(s)
           m == sent[t]
           l == ledger[s]
           W == WireItems(wire[s], l)
<1>1. t \in Sides /\ t # s /\ m <= LedgerCapacity
  BY TwoSides DEF Fits
<1>2. CallsStay /\ Alive(s) /\ UNCHANGED rtc
  BY DEF Hears
<1>3. PICK e \in Arriving(s) :
         /\ TakeOff(s, e)
         /\ ledger' = [ledger EXCEPT ![s] = AfterSignal(ledger[s], e, 0)]
         /\ \/ ~Admitted(ledger[s], e) /\ UNCHANGED chain
            \/ /\ Admitted(ledger[s], e)
               /\ ~Terminal(e.type)
               /\ \/ e.type \in Named /\ Serialize(s, TaskFor(e))
                  \/ e.type \notin {"call_offer", "call_answer"} /\ UNCHANGED chain
  BY DEF Hears
<1> DEFINE l2 == AfterSignal(l, e, 0)
           W2 == WireItems(wire'[s], l2)
<1>4. e \in wire[s] /\ m \in Nat /\ LedgerOf(l, s, t, m) /\ e.id \in 1 .. m
  BY <1>2, <1>3, OnTheWay DEF Arriving
<1>5. /\ \A x \in Sides : wire'[x] \subseteq wire[x]
      /\ \A x \in Sides : x # s => wire'[x] = wire[x]
  BY <1>3, TakenAway
<1>6. ledger'[s] = l2 /\ \A x \in Sides : x # s => ledger'[x] = ledger[x]
  BY <1>3 DEF LinkInv
<1>7. \A x \in Sides : x # s => chain'[x] = chain[x]
  BY <1>3 DEF Serialize, LinkInv
<1>8. Same(t)
  BY <1>1, <1>2, <1>5, <1>6, <1>7, SameSide
<1>9. mode' = "library" \/ page'[s].call
  BY <1>2 DEF CallsStay, CallsKept, Alive
<1>10. Items(s)' = TaskItems(chain'[s]) \cup W2
  BY <1>6, <1>9, ItemsAfter
<1>11. Items(s) = TaskItems(chain[s]) \cup W
  BY <1>2 DEF Items
<1>12. CASE ~Admitted(l, e)
  <2>1. l2 = l /\ UNCHANGED chain
    BY <1>1, <1>3, <1>4, <1>12, RefusedKeeps
  <2>2. W2 \subseteq W
    BY <1>5, <2>1 DEF WireItems
  <2>3. Items(s)' \subseteq Items(s)
    BY <1>10, <1>11, <2>1, <2>2
  <2> QED
    BY <1>2, <1>8, <2>3, AliveAfter, ThinsSubset DEF Rests, Alike
<1>13. CASE Admitted(l, e)
  <2>1. Wellsent(e, s, t, m) /\ ~Terminal(e.type)
    BY <1>3, <1>4, <1>13, OnTheWay
  <2>2. /\ SeenIds(l2) = SeenIds(l) \cup {e.id}
        /\ LastId(l2) = IF e.type = "ice_candidate" THEN LastId(l) ELSE e.id
    BY <1>1, <1>4, <1>13, <2>1, AdmittedLedger
  <2>3. e.id \notin SeenIds(l) /\ (e.type = "ice_candidate" \/ LastId(l) <= e.id)
    BY <1>1, <1>4, <1>13, <2>1, Admits
  <2>4. LastId(l) \in Nat /\ \A f \in wire[s] : f.id \in Nat
    <3>1. LastId(l) \in 0 .. m
      BY <1>4, SeenEntries
    <3> QED
      BY <1>4, <3>1, OnTheWay
  <2> HIDE DEF l2, l
  <2>5. \A f \in wire[s] : Fresh(l2, f) =>
           Fresh(l, f) /\ (e.type # "ice_candidate" => e.id < f.id)
    BY <1>4, <2>2, <2>3, <2>4 DEF Fresh
  <2>6. W2 \subseteq W
    BY <1>5, <2>5 DEF WireItems
  <2>7. e.type # "ice_candidate" => \A x \in W2 : e.id < x.pos
    BY <1>5, <2>5, ItemParts DEF WireItems
  <2>8. CASE UNCHANGED chain
    <3>1. Items(s)' \subseteq Items(s)
      BY <1>10, <1>11, <2>6, <2>8
    <3> QED
      BY <1>2, <1>8, <3>1, AliveAfter, ThinsSubset DEF Rests, Alike
  <2>9. CASE e.type \in Named /\ Serialize(s, TaskFor(e))
    <3> DEFINE k == TaskFor(e)
    <3>1. /\ k \in Tasks
          /\ Described(k) => e.type \in Descriptions /\ k.op = e.type /\ k.n = e.content
      <4>1. e.content \in Nat
        BY <1>4, <2>9 DEF LinkInv, WireOK, GoodSignal, Made
      <4> QED
        BY <2>9, <4>1 DEF TaskFor, CandidateTask, DescriptionTask, Tasks, Described, Descriptions, Named
    <3>2. Described(k) => Item(k.op, k.n, e.id) \in W /\ \A x \in W2 : e.id < x.pos
      <4>1. Described(k) => Fresh(l, e)
        BY <2>3, <3>1 DEF Fresh, Descriptions
      <4>2. Described(k) => e.type # "ice_candidate"
        BY <3>1 DEF Descriptions
      <4> QED
        BY <1>4, <2>7, <3>1, <4>1, <4>2 DEF WireItems
    <3>3. chain'[s] = Append(chain[s], k) /\ chain[s] \in Seq(Tasks)
      BY <2>9 DEF Serialize, LinkInv
    <3>4. Listed(W) /\ \A x \in W : x.pos > 0
      BY WireListed DEF l
    <3>5. e.id \in Nat
      BY <1>4
    <3> HIDE DEF k, W, W2
    <3>6. Thins(TaskItems(Append(chain[s], k)) \cup W2, TaskItems(chain[s]) \cup W)
      BY <2>6, <3>1, <3>2, <3>3, <3>4, <3>5, Shifts
    <3>7. Thins(Items(s)', Items(s))
      BY <1>10, <1>11, <3>3, <3>6
    <3> QED
      BY <1>2, <1>8, <3>7, AliveAfter DEF Rests, Alike
  <2> QED
    BY <1>3, <1>13, <2>8, <2>9 DEF l
<1> QED
  BY <1>12, <1>13

LEMMA LeavesDeals ==
  ASSUME LinkInv, NEW s \in Sides, Leaves(s)
  PROVE  Goes(s)
<1> DEFINE t == Other(s)
<1>1. t \in Sides
  BY TwoSides
<1>2. ~Alive(s)' /\ (Alive(t)' <=> Alive(t)) /\ (mode' = "library" \/ page'[t].call <=> Alive(t))
      /\ ~(mode' = "library" \/ page'[s].call)
  BY DEF Leaves, Alive
<1>3. rtc'[t] = rtc[t] /\ chain'[t] = chain[t] /\ ledger'[t] = ledger[t] /\ rtc'[s] = NewConnection
  BY DEF Leaves
<1>4. Items(s)' = {}
  BY <1>2, ItemsAfter
<1>5. WireItems(wire'[t], ledger[t]) \subseteq WireItems(wire[t], ledger[t])
  <2>1. CASE wire'[t] \subseteq wire[t]
    BY <2>1 DEF WireItems
  <2>2. ASSUME NEW e, Farewell(s, e), wire'[t] \subseteq wire[t] \cup {e}
        PROVE  WireItems(wire'[t], ledger[t]) \subseteq WireItems(wire[t], ledger[t])
    <3>1. ~Fresh(ledger[t], e)
      BY <2>2 DEF Fresh, Farewell
    <3> QED
      BY <2>2, <3>1 DEF WireItems
  <2> QED
    BY <2>1, <2>2 DEF Leaves
<1>6. Items(t)' \subseteq Items(t)
  BY <1>2, <1>3, <1>5, ItemsAfter DEF Items
<1>7. Rests(t)
  BY <1>2, <1>3, <1>6, ThinsSubset DEF Rests, Alike
<1> QED
  BY <1>2, <1>3, <1>4, <1>7 DEF Goes

-----------------------------------------------------------------------------
(* The pact of the two negotiations                                        *)

LEMMA PactAlive ==
  ASSUME NEW p, NEW q, NEW A, NEW B, NEW pl, NEW ql, Pact(p, q, A, B, pl, ql),
         NEW pl2, NEW ql2, pl2 <=> pl, ql2 <=> ql
  PROVE  Pact(p, q, A, B, pl2, ql2)
<1>1. ToPolite(q, A, B, ql2) /\ PoliteBusy(p, q, A, B, ql2) /\ AnswersToRude(q, B)
  BY DEF Pact, ToPolite, PoliteBusy
<1>2. ToRude(p, q, B, pl2) /\ AnswersToPolite(p, A, B) /\ RudeBusy(p, q, A, B, pl2)
  BY DEF Pact, ToRude, RudeBusy
<1> QED
  BY <1>1, <1>2 DEF Pact

PactHere == Pact(rtc[Polite], rtc[Rude], Items(Polite), Items(Rude), Alive(Polite), Alive(Rude))
PactThere ==
  Pact(rtc'[Polite], rtc'[Rude], Items(Polite)', Items(Rude)', Alive(Polite)', Alive(Rude)')

LEMMA SelfThin ==
  ASSUME NEW A, NEW A2, A2 = A
  PROVE  Thins(A2, A)
  BY ThinsSubset

LEMMA PactRests ==
  ASSUME PactHere, Rests(Polite), Rests(Rude)
  PROVE  PactThere
<1>1. /\ Alike(rtc'[Polite], rtc[Polite]) /\ Thins(Items(Polite)', Items(Polite))
      /\ Alike(rtc'[Rude], rtc[Rude]) /\ Thins(Items(Rude)', Items(Rude))
      /\ (Alive(Polite)' <=> Alive(Polite)) /\ (Alive(Rude)' <=> Alive(Rude))
  BY DEF Rests
<1>2. Pact(rtc'[Polite], rtc'[Rude], Items(Polite)', Items(Rude)', Alive(Polite), Alive(Rude))
  BY <1>1, PactThins DEF PactHere
<1> QED
  BY <1>1, <1>2, PactAlive DEF PactThere

LEMMA SameRests ==
  ASSUME NEW x, Same(x)
  PROVE  Rests(x)
<1>1. Thins(Items(x)', Items(x))
  BY SelfThin DEF Same
<1> QED
  BY <1>1 DEF Same, Rests, Alike

LEMMA PactTakesOffer ==
  ASSUME PactHere, Link(rtc[Polite], Items(Polite), Alive(Polite)), Link(rtc[Rude], Items(Rude), Alive(Rude)),
         NEW s \in Sides, TakesOffer(s)
  PROVE  PactThere
<1>1. PICK x \in OffersIn(Items(s)) :
         (\A y \in Items(s) : ~(y.pos < x.pos)) /\ rtc'[s].heard = x.n /\ Items(s)' = Items(s) \ {x}
  BY DEF TakesOffer
<1>2. /\ rtc'[s].signaling = "have-remote-offer" /\ rtc'[s].offered = None
      /\ (s # Polite => rtc[s].signaling = "stable") /\ (Alive(s)' <=> Alive(s))
      /\ rtc'[Other(s)] = rtc[Other(s)] /\ Items(Other(s))' = Items(Other(s)) /\ (Alive(Other(s))' <=> Alive(Other(s)))
  BY DEF TakesOffer, Same
<1>3. Sides = {Polite, Rude} /\ Other(Polite) = Rude /\ Other(Rude) = Polite /\ Rude # Polite
  BY TwoSides
<1>4. CASE s = Polite
  <2>1. Pact(rtc'[Polite], rtc[Rude], Items(Polite) \ {x}, Items(Rude), Alive(Polite), Alive(Rude))
    BY <1>1, <1>2, <1>4, PoliteHearsOffer DEF PactHere
  <2>2. Pact(rtc'[Polite], rtc'[Rude], Items(Polite)', Items(Rude)', Alive(Polite), Alive(Rude))
    BY <1>1, <1>2, <1>3, <1>4, <2>1
  <2>3. (Alive(Polite)' <=> Alive(Polite)) /\ (Alive(Rude)' <=> Alive(Rude))
    BY <1>2, <1>3, <1>4
  <2> QED
    BY <2>2, <2>3, PactAlive DEF PactThere
<1>5. CASE s = Rude
  <2>1. Pact(rtc[Polite], rtc'[Rude], Items(Polite), Items(Rude) \ {x}, Alive(Polite), Alive(Rude))
    BY <1>1, <1>2, <1>3, <1>5, RudeHearsOffer DEF PactHere
  <2>2. Pact(rtc'[Polite], rtc'[Rude], Items(Polite)', Items(Rude)', Alive(Polite), Alive(Rude))
    BY <1>1, <1>2, <1>3, <1>5, <2>1
  <2>3. (Alive(Polite)' <=> Alive(Polite)) /\ (Alive(Rude)' <=> Alive(Rude))
    BY <1>2, <1>3, <1>5
  <2> QED
    BY <2>2, <2>3, PactAlive DEF PactThere
<1> QED
  BY <1>3, <1>4, <1>5

LEMMA PactTakesAnswer ==
  ASSUME PactHere, Link(rtc[Polite], Items(Polite), Alive(Polite)), Link(rtc[Rude], Items(Rude), Alive(Rude)),
         NEW s \in Sides, TakesAnswer(s)
  PROVE  PactThere
<1>1. PICK x \in AnswersIn(Items(s)) :
         (\A y \in Items(s) : ~(y.pos < x.pos)) /\ rtc'[s].heard = x.n /\ Items(s)' = Items(s) \ {x}
  BY DEF TakesAnswer
<1>2. /\ rtc'[s].signaling = "stable" /\ rtc'[s].offered = None /\ rtc'[s].agreed = rtc[s].offered
      /\ (Alive(s)' <=> Alive(s))
      /\ rtc'[Other(s)] = rtc[Other(s)] /\ Items(Other(s))' = Items(Other(s)) /\ (Alive(Other(s))' <=> Alive(Other(s)))
  BY DEF TakesAnswer, Same
<1>3. Sides = {Polite, Rude} /\ Other(Polite) = Rude /\ Other(Rude) = Polite /\ Rude # Polite
  BY TwoSides
<1>4. CASE s = Polite
  <2>1. Pact(rtc'[Polite], rtc[Rude], Items(Polite) \ {x}, Items(Rude), Alive(Polite), Alive(Rude))
    BY <1>1, <1>2, <1>4, PoliteHearsAnswer DEF PactHere
  <2>2. Pact(rtc'[Polite], rtc'[Rude], Items(Polite)', Items(Rude)', Alive(Polite), Alive(Rude))
    BY <1>1, <1>2, <1>3, <1>4, <2>1
  <2>3. (Alive(Polite)' <=> Alive(Polite)) /\ (Alive(Rude)' <=> Alive(Rude))
    BY <1>2, <1>3, <1>4
  <2> QED
    BY <2>2, <2>3, PactAlive DEF PactThere
<1>5. CASE s = Rude
  <2>1. Pact(rtc[Polite], rtc'[Rude], Items(Polite), Items(Rude) \ {x}, Alive(Polite), Alive(Rude))
    BY <1>1, <1>2, <1>3, <1>5, RudeHearsAnswer DEF PactHere
  <2>2. Pact(rtc'[Polite], rtc'[Rude], Items(Polite)', Items(Rude)', Alive(Polite), Alive(Rude))
    BY <1>1, <1>2, <1>3, <1>5, <2>1
  <2>3. (Alive(Polite)' <=> Alive(Polite)) /\ (Alive(Rude)' <=> Alive(Rude))
    BY <1>2, <1>3, <1>5
  <2> QED
    BY <2>2, <2>3, PactAlive DEF PactThere
<1> QED
  BY <1>3, <1>4, <1>5

LEMMA PactMakesOffer ==
  ASSUME PactHere, Link(rtc[Polite], Items(Polite), Alive(Polite)), Link(rtc[Rude], Items(Rude), Alive(Rude)),
         NEW s \in Sides, NEW n, MakesOffer(s, n), \A x \in Items(Other(s)) : x.n # n
  PROVE  PactThere
<1> DEFINE t == Other(s)
<1>1. /\ Alive(s) /\ Alive(s)' /\ rtc[s].signaling = "stable" /\ n # None
      /\ rtc'[s].signaling = "have-local-offer" /\ rtc'[s].offered = n
      /\ rtc'[s].agreed = rtc[s].agreed /\ rtc'[s].heard = rtc[s].heard
      /\ Items(s)' = Items(s) /\ rtc'[t] = rtc[t] /\ (Alive(t)' <=> Alive(t))
  BY DEF MakesOffer, Gains
<1>2. Items(t)' = Items(t) \/
        \E k : Items(t)' = Items(t) \cup {Item("call_offer", n, k)} /\ \A y \in Items(t) : y.pos < k
  BY DEF MakesOffer, Gains
<1>0. \A x \in Items(t) : x.n # n
  OBVIOUS
<1>3. Sides = {Polite, Rude} /\ Other(Polite) = Rude /\ Other(Rude) = Polite /\ Rude # Polite
  BY TwoSides
<1>4. CASE s = Polite
  <2>1. t = Rude
    BY <1>3, <1>4
  <2> DEFINE B == Items(Rude)
             B2 == Items(Rude)'
  <2>5. /\ Alive(Polite) /\ rtc[Polite].signaling = "stable" /\ n # None /\ \A x \in B : x.n # n
        /\ rtc'[Polite].signaling = "have-local-offer" /\ rtc'[Polite].offered = n
        /\ rtc'[Polite].agreed = rtc[Polite].agreed /\ rtc'[Polite].heard = rtc[Polite].heard
        /\ B2 = B \/ \E k : B2 = B \cup {Item("call_offer", n, k)} /\ \A y \in B : y.pos < k
    BY <1>0, <1>1, <1>2, <1>4, <2>1
  <2>6. Pact(rtc[Polite], rtc[Rude], Items(Polite), B, Alive(Polite), Alive(Rude)) /\ Link(rtc[Rude], B, Alive(Rude))
    BY DEF PactHere
  <2> HIDE DEF B, B2
  <2>7. Pact(rtc'[Polite], rtc[Rude], Items(Polite), B2, Alive(Polite), Alive(Rude))
    BY <2>5, <2>6, PoliteOffers
  <2>2. Pact(rtc'[Polite], rtc[Rude], Items(Polite), Items(Rude)', Alive(Polite), Alive(Rude))
    BY <2>7 DEF B2
  <2>3. Pact(rtc'[Polite], rtc'[Rude], Items(Polite)', Items(Rude)', Alive(Polite), Alive(Rude))
    BY <1>1, <1>4, <2>1, <2>2
  <2>4. (Alive(Polite)' <=> Alive(Polite)) /\ (Alive(Rude)' <=> Alive(Rude))
    BY <1>1, <1>4, <2>1
  <2> QED
    BY <2>3, <2>4, PactAlive DEF PactThere
<1>5. CASE s = Rude
  <2>1. t = Polite
    BY <1>3, <1>5
  <2> DEFINE A == Items(Polite)
             A2 == Items(Polite)'
  <2>5. /\ Alive(Rude) /\ rtc[Rude].signaling = "stable" /\ n # None
        /\ rtc'[Rude].signaling = "have-local-offer" /\ rtc'[Rude].offered = n
        /\ rtc'[Rude].agreed = rtc[Rude].agreed /\ rtc'[Rude].heard = rtc[Rude].heard
        /\ A2 = A \/ \E k : A2 = A \cup {Item("call_offer", n, k)} /\ \A y \in A : y.pos < k
    BY <1>1, <1>2, <1>5, <2>1
  <2>6. /\ Pact(rtc[Polite], rtc[Rude], A, Items(Rude), Alive(Polite), Alive(Rude))
        /\ Link(rtc[Polite], A, Alive(Polite))
    BY DEF PactHere
  <2> HIDE DEF A, A2
  <2>7. Pact(rtc[Polite], rtc'[Rude], A2, Items(Rude), Alive(Polite), Alive(Rude))
    BY <2>5, <2>6, RudeOffers
  <2>2. Pact(rtc[Polite], rtc'[Rude], Items(Polite)', Items(Rude), Alive(Polite), Alive(Rude))
    BY <2>7 DEF A2
  <2>3. Pact(rtc'[Polite], rtc'[Rude], Items(Polite)', Items(Rude)', Alive(Polite), Alive(Rude))
    BY <1>1, <1>5, <2>1, <2>2
  <2>4. (Alive(Polite)' <=> Alive(Polite)) /\ (Alive(Rude)' <=> Alive(Rude))
    BY <1>1, <1>5, <2>1
  <2> QED
    BY <2>3, <2>4, PactAlive DEF PactThere
<1> QED
  BY <1>3, <1>4, <1>5

LEMMA PactReplies ==
  ASSUME PactHere, Link(rtc[Polite], Items(Polite), Alive(Polite)), Link(rtc[Rude], Items(Rude), Alive(Rude)),
         NEW s \in Sides, Replies(s)
  PROVE  PactThere
<1> DEFINE t == Other(s)
           n == rtc[s].heard
<1>1. /\ Alive(s) /\ Alive(s)' /\ rtc[s].signaling = "have-remote-offer"
      /\ rtc'[s].signaling = "stable" /\ rtc'[s].offered = None
      /\ rtc'[s].agreed = n /\ rtc'[s].heard = n
      /\ Items(s)' = Items(s) /\ rtc'[t] = rtc[t] /\ (Alive(t)' <=> Alive(t))
  BY DEF Replies, Gains
<1>2. Items(t)' = Items(t) \/
        (Alive(t) /\ \E k : Items(t)' = Items(t) \cup {Item("call_answer", n, k)} /\ \A y \in Items(t) : y.pos < k)
  BY DEF Replies, Gains
<1>3. Sides = {Polite, Rude} /\ Other(Polite) = Rude /\ Other(Rude) = Polite /\ Rude # Polite
  BY TwoSides
<1>4. CASE s = Polite
  <2>1. t = Rude
    BY <1>3, <1>4
  <2>2. Pact(rtc'[Polite], rtc[Rude], Items(Polite), Items(Rude)', Alive(Polite), Alive(Rude))
    BY <1>1, <1>2, <1>4, <2>1, PoliteReplies DEF PactHere
  <2>3. Pact(rtc'[Polite], rtc'[Rude], Items(Polite)', Items(Rude)', Alive(Polite), Alive(Rude))
    BY <1>1, <1>4, <2>1, <2>2
  <2>4. (Alive(Polite)' <=> Alive(Polite)) /\ (Alive(Rude)' <=> Alive(Rude))
    BY <1>1, <1>4, <2>1
  <2> QED
    BY <2>3, <2>4, PactAlive DEF PactThere
<1>5. CASE s = Rude
  <2>1. t = Polite
    BY <1>3, <1>5
  <2>2. Pact(rtc[Polite], rtc'[Rude], Items(Polite)', Items(Rude), Alive(Polite), Alive(Rude))
    BY <1>1, <1>2, <1>5, <2>1, RudeReplies DEF PactHere
  <2>3. Pact(rtc'[Polite], rtc'[Rude], Items(Polite)', Items(Rude)', Alive(Polite), Alive(Rude))
    BY <1>1, <1>5, <2>1, <2>2
  <2>4. (Alive(Polite)' <=> Alive(Polite)) /\ (Alive(Rude)' <=> Alive(Rude))
    BY <1>1, <1>5, <2>1
  <2> QED
    BY <2>3, <2>4, PactAlive DEF PactThere
<1> QED
  BY <1>3, <1>4, <1>5

LEMMA PactGoes ==
  ASSUME PactHere, Link(rtc[Polite], Items(Polite), Alive(Polite)), Link(rtc[Rude], Items(Rude), Alive(Rude)),
         NEW s \in Sides, Goes(s)
  PROVE  PactThere
<1> DEFINE t == Other(s)
<1>1. /\ ~Alive(s)' /\ rtc'[s] = NewConnection /\ Items(s)' = {}
      /\ rtc'[t] = rtc[t] /\ (Alive(t)' <=> Alive(t)) /\ Thins(Items(t)', Items(t))
  BY DEF Goes, Rests
<1>2. Sides = {Polite, Rude} /\ Other(Polite) = Rude /\ Other(Rude) = Polite /\ Rude # Polite
  BY TwoSides
<1>3. \A r : Alike(r, r)
  BY DEF Alike
<1>4. Thins({}, {})
  BY SelfThin
<1>5. CASE s = Polite
  <2>1. t = Rude
    BY <1>2, <1>5
  <2>2. Pact(NewConnection, rtc[Rude], {}, Items(Rude), FALSE, Alive(Rude))
    BY PoliteGone DEF PactHere
  <2>3. Alike(NewConnection, NewConnection) /\ Alike(rtc[Rude], rtc[Rude])
    BY <1>3
  <2>4. Pact(NewConnection, rtc[Rude], {}, Items(Rude)', FALSE, Alive(Rude))
    BY <1>1, <1>4, <2>1, <2>2, <2>3, PactThins
  <2>5. Pact(rtc'[Polite], rtc'[Rude], Items(Polite)', Items(Rude)', FALSE, Alive(Rude))
    BY <1>1, <1>5, <2>1, <2>4
  <2>6. (Alive(Polite)' <=> FALSE) /\ (Alive(Rude)' <=> Alive(Rude))
    BY <1>1, <1>5, <2>1
  <2> DEFINE no == FALSE
  <2>7. Pact(rtc'[Polite], rtc'[Rude], Items(Polite)', Items(Rude)', no, Alive(Rude)) /\ (Alive(Polite)' <=> no)
    BY <2>5, <2>6
  <2> HIDE DEF no
  <2> QED
    BY <2>6, <2>7, PactAlive DEF PactThere
<1>6. CASE s = Rude
  <2>1. t = Polite
    BY <1>2, <1>6
  <2>2. Pact(rtc[Polite], NewConnection, Items(Polite), {}, Alive(Polite), FALSE)
    BY RudeGone DEF PactHere
  <2>3. Alike(NewConnection, NewConnection) /\ Alike(rtc[Polite], rtc[Polite])
    BY <1>3
  <2>4. Pact(rtc[Polite], NewConnection, Items(Polite)', {}, Alive(Polite), FALSE)
    BY <1>1, <1>4, <2>1, <2>2, <2>3, PactThins
  <2>5. Pact(rtc'[Polite], rtc'[Rude], Items(Polite)', Items(Rude)', Alive(Polite), FALSE)
    BY <1>1, <1>6, <2>1, <2>4
  <2>6. (Alive(Rude)' <=> FALSE) /\ (Alive(Polite)' <=> Alive(Polite))
    BY <1>1, <1>6, <2>1
  <2> DEFINE no == FALSE
  <2>7. Pact(rtc'[Polite], rtc'[Rude], Items(Polite)', Items(Rude)', Alive(Polite), no) /\ (Alive(Rude)' <=> no)
    BY <2>5, <2>6
  <2> HIDE DEF no
  <2> QED
    BY <2>6, <2>7, PactAlive DEF PactThere
<1> QED
  BY <1>2, <1>5, <1>6

-----------------------------------------------------------------------------
(* An offer that is not sent yet is nowhere else                           *)

\* The offers still to send are some of those there were, in the same order.
OffersThin(d, c) ==
  \E k \in 0 .. 1 : \A i \in DOMAIN d : d[i].op = "offer" =>
    i + k \in DOMAIN c /\ c[i + k].op = "offer" /\ c[i + k].n = d[i].n

LEMMA OffersSame ==
  ASSUME NEW c \in Seq(Tasks)
  PROVE  OffersThin(c, c)
<1>1. \A i \in DOMAIN c : i + 0 = i
  BY LenProperties
<1>2. 0 \in 0 .. 1
  OBVIOUS
<1> QED
  BY <1>1, <1>2 DEF OffersThin

LEMMA OffersNone ==
  ASSUME NEW c
  PROVE  OffersThin(<<>>, c)
<1>1. DOMAIN <<>> = {} /\ 0 \in 0 .. 1
  OBVIOUS
<1> QED
  BY <1>1 DEF OffersThin

LEMMA OffersSettled ==
  ASSUME NEW c \in Seq(Tasks), c # <<>>
  PROVE  OffersThin(RemoveAt(c, 1), c)
<1>1. /\ DOMAIN RemoveAt(c, 1) = 1 .. Len(c) - 1
      /\ \A i \in 1 .. Len(c) - 1 : RemoveAt(c, 1)[i] = c[i + 1]
  BY Removed
<1>2. \A i \in 1 .. Len(c) - 1 : i + 1 \in DOMAIN c
  BY LenProperties
<1>3. 1 \in 0 .. 1
  OBVIOUS
<1> QED
  BY <1>1, <1>2, <1>3 DEF OffersThin

LEMMA OffersStaged ==
  ASSUME NEW c \in Seq(Tasks), c # <<>>, NEW t \in Tasks, t.op = c[1].op, t.op = "offer" => t.n = c[1].n
  PROVE  OffersThin([c EXCEPT ![1] = t], c)
<1> DEFINE d == [c EXCEPT ![1] = t]
<1>1. /\ Len(c) \in Nat \ {0} /\ DOMAIN c = 1 .. Len(c) /\ DOMAIN d = 1 .. Len(c)
      /\ d[1] = t /\ \A i \in 2 .. Len(c) : d[i] = c[i]
  BY Staged
<1> HIDE DEF d
<1>2. \A i \in 1 .. Len(c) : i + 0 = i /\ (i = 1 \/ i \in 2 .. Len(c))
  BY <1>1
<1>3. \A i \in 1 .. Len(c) : d[i].op = "offer" => c[i].op = "offer" /\ c[i].n = d[i].n
  BY <1>1, <1>2
<1>4. 0 \in 0 .. 1
  OBVIOUS
<1>5. OffersThin(d, c)
  BY <1>1, <1>2, <1>3, <1>4 DEF OffersThin
<1> QED
  BY <1>5 DEF d

LEMMA OffersQueued ==
  ASSUME NEW c \in Seq(Tasks), NEW t \in Tasks, t.op # "offer"
  PROVE  OffersThin(Append(c, t), c)
<1> DEFINE d == Append(c, t)
<1>1. /\ Len(c) \in Nat /\ DOMAIN c = 1 .. Len(c) /\ DOMAIN d = 1 .. Len(c) + 1
      /\ \A i \in 1 .. Len(c) : d[i] = c[i]
      /\ d[Len(c) + 1] = t
  BY Queued
<1> HIDE DEF d
<1>2. \A i \in DOMAIN d : d[i].op = "offer" => i \in 1 .. Len(c) /\ i + 0 = i
  BY <1>1
<1>3. 0 \in 0 .. 1
  OBVIOUS
<1>4. OffersThin(d, c)
  BY <1>1, <1>2, <1>3 DEF OffersThin
<1> QED
  BY <1>4 DEF d

LEMMA UnsentThins ==
  ASSUME LinkInv, LinkInv', UnsentOK, \A s \in Sides : OffersThin(chain'[s], chain[s]),
         NEW N, Known' \subseteq Known \cup N,
         \A s \in Sides : \A i \in DOMAIN chain'[s] : chain'[s][i].op = "offer" => chain'[s][i].n \notin N
  PROVE  UnsentOK'
<1> DEFINE P(s, k) == \A i \in DOMAIN chain'[s] : chain'[s][i].op = "offer" =>
             i + k \in DOMAIN chain[s] /\ chain[s][i + k].op = "offer" /\ chain[s][i + k].n = chain'[s][i].n
           K(s) == CHOOSE k \in 0 .. 1 : P(s, k)
<1>1. \A s \in Sides : K(s) \in 0 .. 1 /\ P(s, K(s))
  <2> SUFFICES ASSUME NEW s \in Sides PROVE K(s) \in 0 .. 1 /\ P(s, K(s))
    OBVIOUS
  <2>1. \E k \in 0 .. 1 : P(s, k)
    BY DEF OffersThin
  <2> HIDE DEF P
  <2> QED
    BY <2>1
<1> HIDE DEF K
<1>2. \A s \in Sides : DOMAIN chain'[s] \subseteq Int
  <2>1. \A s \in Sides : chain'[s] \in Seq(Tasks)
    BY DEF LinkInv
  <2> QED
    BY <2>1, LenProperties
<1>3. ASSUME NEW s \in Sides, NEW i \in DOMAIN chain'[s], chain'[s][i].op = "offer"
      PROVE  /\ chain'[s][i].n \notin Known'
             /\ \A t \in Sides : \A j \in DOMAIN chain'[t] :
                  chain'[t][j].op = "offer" /\ chain'[t][j].n = chain'[s][i].n => s = t /\ i + K(s) = j + K(t)
  <2>1. /\ i + K(s) \in DOMAIN chain[s] /\ chain[s][i + K(s)].op = "offer"
        /\ chain[s][i + K(s)].n = chain'[s][i].n
    BY <1>1, <1>3
  <2>2. chain'[s][i].n \notin Known'
    BY <1>3, <2>1 DEF UnsentOK
  <2>3. ASSUME NEW t \in Sides, NEW j \in DOMAIN chain'[t],
               chain'[t][j].op = "offer", chain'[t][j].n = chain'[s][i].n
        PROVE  s = t /\ i + K(s) = j + K(t)
    <3>1. /\ j + K(t) \in DOMAIN chain[t] /\ chain[t][j + K(t)].op = "offer"
          /\ chain[t][j + K(t)].n = chain'[t][j].n
      BY <1>1, <2>3
    <3> QED
      BY <2>1, <2>3, <3>1 DEF UnsentOK
  <2> QED
    BY <2>2, <2>3
<1>4. \A s \in Sides : \A i, j \in DOMAIN chain'[s] :
        (chain'[s][i].op = "offer" /\ chain'[s][j].op = "offer" /\ i + K(s) = j + K(s)) => i = j
  <2> SUFFICES ASSUME NEW s \in Sides, NEW i \in DOMAIN chain'[s], NEW j \in DOMAIN chain'[s],
                      i + K(s) = j + K(s)
               PROVE  i = j
    OBVIOUS
  <2>1. i \in Int /\ j \in Int /\ K(s) \in Int
    BY <1>1, <1>2
  <2>2. \A a, b, k \in Int : a + k = b + k => a = b
    OBVIOUS
  <2> HIDE DEF P
  <2> QED
    BY <2>1, <2>2
<1> QED
  BY <1>3, <1>4 DEF UnsentOK

\* The names a side knows after a step.
NamesAfter(s) == {rtc'[s].heard} \cup {x.n : x \in Items(s)'}

LEMMA KnownAfter ==
  ASSUME NEW N, \A s \in Sides : NamesAfter(s) \subseteq Known \cup N
  PROVE  Known' \subseteq Known \cup N
<1> SUFFICES ASSUME NEW n \in Known' PROVE n \in Known \cup N
  OBVIOUS
<1>1. PICK s \in Sides : n \in NamesAfter(s)
  BY DEF Known, NamesAfter
<1> QED
  BY <1>1

LEMMA KnownHere ==
  ASSUME NEW s \in Sides
  PROVE  rtc[s].heard \in Known /\ \A x \in Items(s) : x.n \in Known
  BY DEF Known

LEMMA KnownRests ==
  ASSUME NEW s \in Sides, Rests(s)
  PROVE  NamesAfter(s) \subseteq Known
<1>1. rtc'[s].heard = rtc[s].heard /\ Thins(Items(s)', Items(s))
  BY DEF Rests, Alike
<1>2. \A x \in Items(s)' : \E y \in Items(s) : y.n = x.n
  BY <1>1 DEF Thins
<1> QED
  BY <1>1, <1>2, KnownHere DEF NamesAfter

LEMMA KnownSame ==
  ASSUME NEW s \in Sides, Same(s)
  PROVE  NamesAfter(s) \subseteq Known
  BY KnownHere DEF NamesAfter, Same

LEMMA KnownGains ==
  ASSUME NEW t \in Sides, NEW kind, NEW n, Gains(t, kind, n)
  PROVE  NamesAfter(t) \subseteq Known \cup {n}
<1>1. rtc'[t].heard = rtc[t].heard
  BY DEF Gains
<1>2. \A x \in Items(t)' : x.n = n \/ x \in Items(t)
  <2>1. \A k : Item(kind, n, k).n = n
    BY ItemParts
  <2> QED
    BY <2>1 DEF Gains
<1> QED
  BY <1>1, <1>2, KnownHere DEF NamesAfter

\* A move that does not offer brings no name that was not known.
LEMMA KnownStays ==
  ASSUME NEW s \in Sides,
         \/ (Rests(s) /\ Rests(Other(s))) \/ TakesOffer(s) \/ TakesAnswer(s) \/ Replies(s) \/ Goes(s)
  PROVE  Known' \subseteq Known \cup {None}
<1> DEFINE t == Other(s)
<1>1. t \in Sides /\ Sides = {s, t}
  BY TwoSides
<1>2. CASE Rests(s) /\ Rests(t)
  BY <1>1, <1>2, KnownRests, KnownAfter
<1>3. CASE TakesOffer(s) \/ TakesAnswer(s)
  <2>1. Same(t)
    BY <1>3 DEF TakesOffer, TakesAnswer
  <2>2. \E x \in Items(s) : rtc'[s].heard = x.n /\ Items(s)' = Items(s) \ {x}
    BY <1>3 DEF TakesOffer, TakesAnswer, OffersIn, AnswersIn
  <2>3. NamesAfter(s) \subseteq Known
    BY <2>2, KnownHere DEF NamesAfter
  <2> QED
    BY <1>1, <2>1, <2>3, KnownSame, KnownAfter
<1>4. CASE Replies(s)
  <2>1. rtc'[s].heard = rtc[s].heard /\ Items(s)' = Items(s) /\ Gains(t, "call_answer", rtc[s].heard)
    BY <1>4 DEF Replies
  <2>2. NamesAfter(s) \subseteq Known /\ rtc[s].heard \in Known
    BY <2>1, KnownHere DEF NamesAfter
  <2>3. NamesAfter(t) \subseteq Known \cup {rtc[s].heard}
    BY <1>1, <2>1, KnownGains
  <2>4. \A x \in Sides : NamesAfter(x) \subseteq Known \cup {None}
    BY <1>1, <2>2, <2>3
  <2> HIDE DEF t
  <2> QED
    BY <2>4, KnownAfter
<1>5. CASE Goes(s)
  <2>1. rtc'[s].heard = None
    BY <1>5 DEF Goes, NewConnection
  <2>2. NamesAfter(s) \subseteq {None}
    BY <1>5, <2>1 DEF Goes, NamesAfter
  <2>3. NamesAfter(t) \subseteq Known
    BY <1>1, <1>5, KnownRests DEF Goes
  <2> QED
    BY <1>1, <2>2, <2>3, KnownAfter
<1> QED
  BY <1>2, <1>3, <1>4, <1>5

\* No offer is named None.
LEMMA OffersNamed ==
  ASSUME LinkInv, NEW s \in Sides, NEW i \in DOMAIN chain[s], chain[s][i].op = "offer"
  PROVE  chain[s][i].n \in Made /\ chain[s][i].n # None
<1>1. chain[s][i].n \in Made
  BY DEF LinkInv, NamesOK
<1> QED
  BY <1>1 DEF Made, None

\* Without a new offer.
LEMMA UnsentStays ==
  ASSUME LinkInv, LinkInv', UnsentOK, NEW s \in Sides,
         \/ (Rests(s) /\ Rests(Other(s))) \/ TakesOffer(s) \/ TakesAnswer(s) \/ Replies(s) \/ Goes(s),
         OffersThin(chain'[s], chain[s]), chain'[Other(s)] = chain[Other(s)]
  PROVE  UnsentOK'
<1>1. Other(s) \in Sides /\ Sides = {s, Other(s)} /\ chain[Other(s)] \in Seq(Tasks)
  BY TwoSides DEF LinkInv
<1>2. \A x \in Sides : OffersThin(chain'[x], chain[x])
  BY <1>1, OffersSame
<1>3. Known' \subseteq Known \cup {None}
  BY KnownStays
<1>4. \A x \in Sides : \A i \in DOMAIN chain'[x] : chain'[x][i].op = "offer" => chain'[x][i].n \notin {None}
  <2> SUFFICES ASSUME NEW x \in Sides, NEW i \in DOMAIN chain'[x], chain'[x][i].op = "offer"
               PROVE  chain'[x][i].n # None
    OBVIOUS
  <2>1. made' \in Nat
    BY DEF LinkInv
  <2>2. \A j \in DOMAIN chain'[x] : IF chain'[x][j].op = "ice_candidate" THEN chain'[x][j].c \in 1 .. made'
                                     ELSE chain'[x][j].n \in 1 .. made'
    BY DEF LinkInv, NamesOK, Made
  <2>3. chain'[x][i].n \in 1 .. made'
    BY <2>2
  <2> QED
    BY <2>1, <2>3 DEF None
<1> QED
  BY <1>2, <1>3, <1>4, UnsentThins

LEMMA WorksChain ==
  ASSUME LinkInv, NEW s \in Sides, Works(s)
  PROVE  OffersThin(chain'[s], chain[s]) /\ chain'[Other(s)] = chain[Other(s)]
<1>1. PICK i :
         \/ CreateOffer(s, i) \/ AbandonOffer(s, i) \/ IgnoreOffer(s, i) \/ ApplyOffer(s, i)
         \/ IgnoreAnswer(s, i) \/ BeginAnswer(s, i) \/ ApplyAnswer(s, i)
         \/ HoldCandidate(s, i) \/ AddCandidate(s, i)
  BY DEF Works
<1>2. chain'[Other(s)] = chain[Other(s)]
  BY <1>1, TwoSides, OthersStay
<1>3. \E op, stage : Runs(s, i, op, stage)
  BY <1>1 DEF CreateOffer, AbandonOffer, IgnoreOffer, ApplyOffer, IgnoreAnswer, BeginAnswer, ApplyAnswer,
              HoldCandidate, AddCandidate
<1>4. i = 1 /\ chain[s] # <<>> /\ chain[s][1] \in Tasks /\ chain[s] \in Seq(Tasks)
  BY <1>3, AtHead DEF Running
<1>5. \/ chain'[s] = RemoveAt(chain[s], 1)
      \/ \E t \in Tasks : /\ chain'[s] = [chain[s] EXCEPT ![1] = t] /\ t.op = chain[s][1].op
                          /\ t.op = "offer" => t.n = chain[s][1].n
  <2>1. CASE AbandonOffer(s, i) \/ IgnoreOffer(s, i) \/ IgnoreAnswer(s, i) \/ HoldCandidate(s, i)
             \/ AddCandidate(s, i) \/ ApplyAnswer(s, i)
    BY <1>4, <2>1 DEF AbandonOffer, IgnoreOffer, IgnoreAnswer, HoldCandidate, AddCandidate, ApplyAnswer, Settle,
                      LinkInv
  <2>2. CASE CreateOffer(s, i)
    <3> DEFINE t == [chain[s][1] EXCEPT !.stage = "created", !.mine = nego[s].generation + 1]
    <3>1. chain[s][1].op = "offer" /\ nego[s].generation + 1 \in Nat
      <4>1. nego[s] \in Negotiation
        BY DEF LinkInv
      <4> QED
        BY <1>4, <2>2, <4>1 DEF CreateOffer, Runs, Negotiation
    <3>2. chain[s][1] \in [op : {"offer"}, stage : {"start", "created"}, n : Nat, mine : Nat]
      BY <1>4, <3>1 DEF Tasks
    <3>3. /\ t \in [op : {"offer"}, stage : {"start", "created"}, n : Nat, mine : Nat]
          /\ t.op = "offer" /\ t.n = chain[s][1].n
      BY <3>1, <3>2
    <3>4. t \in Tasks
      BY <3>3 DEF Tasks
    <3>5. chain'[s] = [chain[s] EXCEPT ![1] = t]
      BY <1>4, <2>2 DEF CreateOffer, LinkInv
    <3> HIDE DEF t
    <3> QED
      BY <3>1, <3>3, <3>4, <3>5
  <2>3. CASE BeginAnswer(s, i)
    <3> DEFINE t == [chain[s][1] EXCEPT !.stage = "applying"]
    <3>1. chain[s][1].op = "call_answer"
      BY <1>4, <2>3 DEF BeginAnswer, Runs
    <3>2. chain[s][1] \in [op : {"call_answer"}, stage : {"start", "applying"}, n : Nat]
      BY <1>4, <3>1 DEF Tasks
    <3>3. /\ t \in [op : {"call_answer"}, stage : {"start", "applying"}, n : Nat]
          /\ t.op = "call_answer"
      BY <3>1, <3>2
    <3>4. t \in Tasks
      BY <3>3 DEF Tasks
    <3>5. chain'[s] = [chain[s] EXCEPT ![1] = t]
      BY <1>4, <2>3 DEF BeginAnswer, Stage, LinkInv
    <3> HIDE DEF t
    <3> QED
      BY <3>1, <3>3, <3>4, <3>5
  <2>4. CASE ApplyOffer(s, i)
    <3> DEFINE t == [chain[s][1] EXCEPT !.stage = "answering"]
    <3>1. chain[s][1].op = "call_offer" /\ Stage(s, 1, "answering")
      BY <2>4, ApplyOfferGoes DEF Running
    <3>2. chain[s][1] \in [op : {"call_offer"}, stage : {"start", "answering"}, n : Nat]
      BY <1>4, <3>1 DEF Tasks
    <3>3. /\ t \in [op : {"call_offer"}, stage : {"start", "answering"}, n : Nat]
          /\ t.op = "call_offer"
      BY <3>1, <3>2
    <3>4. t \in Tasks
      BY <3>3 DEF Tasks
    <3>5. chain'[s] = [chain[s] EXCEPT ![1] = t]
      BY <3>1 DEF Stage, LinkInv
    <3> HIDE DEF t
    <3> QED
      BY <3>1, <3>3, <3>4, <3>5
  <2> QED
    BY <1>1, <2>1, <2>2, <2>3, <2>4
<1> QED
  BY <1>2, <1>4, <1>5, OffersSettled, OffersStaged

LEMMA UnsentOffers ==
  ASSUME LinkInv, LinkInv', UnsentOK, NEW s \in Sides, NEW n, n = chain[s][1].n, MakesOffer(s, n),
         chain[s] # <<>>, chain[s][1].op = "offer", chain'[s] = RemoveAt(chain[s], 1),
         chain'[Other(s)] = chain[Other(s)]
  PROVE  UnsentOK' /\ \A x \in Items(Other(s)) : x.n # n
<1> DEFINE t == Other(s)
<1>1. t \in Sides /\ t # s /\ Sides = {s, t} /\ chain[t] \in Seq(Tasks) /\ chain[s] \in Seq(Tasks)
  BY TwoSides DEF LinkInv
<1>2. \A x \in Sides : OffersThin(chain'[x], chain[x])
  BY <1>1, OffersSame, OffersSettled
<1>3. 1 \in DOMAIN chain[s]
  BY <1>1, EmptySeq, LenProperties
<1>4. n \notin Known
  BY <1>3 DEF UnsentOK
<1>5. \A x \in Items(t) : x.n # n
  BY <1>1, <1>4, KnownHere
<1>6. Known' \subseteq Known \cup {n}
  <2>1. NamesAfter(s) \subseteq Known
    BY KnownHere DEF NamesAfter, MakesOffer
  <2>2. NamesAfter(t) \subseteq Known \cup {n}
    BY <1>1, KnownGains DEF MakesOffer
  <2> HIDE DEF t
  <2> QED
    BY <1>1, <2>1, <2>2, KnownAfter
<1>7. \A x \in Sides : \A i \in DOMAIN chain'[x] : chain'[x][i].op = "offer" => chain'[x][i].n \notin {n}
  <2>1. \A i \in DOMAIN chain[t] : chain[t][i].op = "offer" => chain[t][i].n # n
    BY <1>1, <1>3 DEF UnsentOK
  <2>2. \A i \in DOMAIN chain'[s] : chain'[s][i].op = "offer" => chain'[s][i].n # n
    <3>1. /\ DOMAIN chain'[s] = 1 .. Len(chain[s]) - 1
          /\ \A i \in 1 .. Len(chain[s]) - 1 : chain'[s][i] = chain[s][i + 1]
      BY <1>1, Removed
    <3>2. \A i \in 1 .. Len(chain[s]) - 1 : i + 1 \in DOMAIN chain[s] /\ i + 1 # 1
      BY <1>1, LenProperties
    <3>3. \A i \in DOMAIN chain[s] : chain[s][i].op = "offer" /\ i # 1 => chain[s][i].n # n
      BY <1>3 DEF UnsentOK
    <3> QED
      BY <3>1, <3>2, <3>3
  <2> QED
    BY <1>1, <2>1, <2>2
<1> QED
  BY <1>2, <1>5, <1>6, <1>7, UnsentThins

LEMMA KnownMade ==
  ASSUME LinkInv, PageInv, Path
  PROVE  Known \subseteq Made \cup {None}
<1>1. \A s \in Sides : rtc[s].heard \in Made \cup {None} /\ \A x \in Items(s) : x.n \in Made
  BY Linked
<1> QED
  BY <1>1 DEF Known

LEMMA UnsentAsks ==
  ASSUME LinkInv, LinkInv', PageInv, Path, UnsentOK, NEW s \in Sides, Asks(s)
  PROVE  UnsentOK'
<1> DEFINE m == made + 1
           c == chain[s]
<1>1. /\ Rests(s) /\ Same(Other(s))
      /\ chain' = [chain EXCEPT ![s] = Append(c, OfferTask(m))]
  BY AsksDeals
<1>2. c \in Seq(Tasks) /\ OfferTask(m) \in Tasks /\ OfferTask(m).n = m /\ OfferTask(m).op = "offer" /\ made \in Nat
  BY DEF LinkInv, OfferTask, Tasks
<1>3. m \notin Made \cup {None}
  BY <1>2 DEF Made, None
<1>4. Known' \subseteq Made \cup {None}
  <2>1. Rests(Other(s))
    BY <1>1, SameRests
  <2> QED
    BY <1>1, <2>1, KnownStays, KnownMade
<1>5. Other(s) \in Sides /\ Sides = {s, Other(s)}
  BY TwoSides
<1> HIDE DEF m
<1>6. /\ Len(c) \in Nat /\ DOMAIN c = 1 .. Len(c) /\ DOMAIN chain'[s] = 1 .. Len(c) + 1
      /\ \A i \in 1 .. Len(c) : chain'[s][i] = c[i]
      /\ chain'[s][Len(c) + 1].n = m
  <2>1. chain'[s] = Append(c, OfferTask(m))
    BY <1>1 DEF LinkInv
  <2> QED
    BY <1>2, <2>1, Queued
<1>7. \A x \in Sides : x # s => chain'[x] = chain[x]
  BY <1>1 DEF LinkInv
<1>8. \A x \in Sides : \A i \in DOMAIN chain'[x] :
        chain'[x][i].op = "offer" =>
          \/ i \in DOMAIN chain[x] /\ chain'[x][i] = chain[x][i]
          \/ x = s /\ i = Len(c) + 1 /\ chain'[x][i].n = m
  <2> SUFFICES ASSUME NEW x \in Sides, NEW i \in DOMAIN chain'[x]
               PROVE  \/ i \in DOMAIN chain[x] /\ chain'[x][i] = chain[x][i]
                      \/ x = s /\ i = Len(c) + 1 /\ chain'[x][i].n = m
    OBVIOUS
  <2>1. CASE x = s
    <3>1. i \in 1 .. Len(c) + 1
      BY <1>6, <2>1
    <3>2. CASE i = Len(c) + 1
      BY <1>6, <2>1, <3>2
    <3>3. CASE i # Len(c) + 1
      <4>1. i \in 1 .. Len(c)
        BY <1>6, <3>1, <3>3
      <4> QED
        BY <1>6, <2>1, <4>1
    <3> QED
      BY <3>2, <3>3
  <2>2. CASE x # s
    BY <1>7, <2>2
  <2> QED
    BY <2>1, <2>2
<1>9. \A x \in Sides : \A i \in DOMAIN chain[x] : chain[x][i].op = "offer" =>
        /\ chain[x][i].n \in Made /\ chain[x][i].n # None
        /\ chain[x][i].n \notin Known
  BY OffersNamed DEF UnsentOK
<1>10. \A x \in Sides : \A i \in DOMAIN chain[x] : chain[x][i].op = "offer" => chain[x][i].n \notin Known'
  <2>1. Known' \subseteq Known \cup {None}
    <3>1. Rests(Other(s))
      BY <1>1, SameRests
    <3> QED
      BY <1>1, <3>1, KnownStays
  <2> QED
    BY <1>9, <2>1
<1>11. ASSUME NEW x \in Sides, NEW i \in DOMAIN chain'[x], chain'[x][i].op = "offer"
       PROVE  /\ chain'[x][i].n \notin Known'
              /\ \A y \in Sides : \A j \in DOMAIN chain'[y] :
                   chain'[y][j].op = "offer" /\ chain'[y][j].n = chain'[x][i].n => x = y /\ i = j
  <2>1. chain'[x][i].n \notin Known'
    BY <1>3, <1>4, <1>8, <1>10, <1>11
  <2>2. ASSUME NEW y \in Sides, NEW j \in DOMAIN chain'[y], chain'[y][j].op = "offer", chain'[y][j].n = chain'[x][i].n
        PROVE  x = y /\ i = j
    <3>1. CASE /\ i \in DOMAIN chain[x] /\ chain'[x][i] = chain[x][i]
               /\ j \in DOMAIN chain[y] /\ chain'[y][j] = chain[y][j]
      BY <1>11, <2>2, <3>1 DEF UnsentOK
    <3>2. CASE i \in DOMAIN chain[x] /\ chain'[x][i] = chain[x][i] /\ y = s /\ j = Len(c) + 1 /\ chain'[y][j].n = m
      BY <1>3, <1>9, <1>11, <2>2, <3>2
    <3>3. CASE j \in DOMAIN chain[y] /\ chain'[y][j] = chain[y][j] /\ x = s /\ i = Len(c) + 1 /\ chain'[x][i].n = m
      BY <1>3, <1>9, <1>11, <2>2, <3>3
    <3>4. CASE x = s /\ i = Len(c) + 1 /\ y = s /\ j = Len(c) + 1
      BY <3>4
    <3> QED
      BY <1>8, <1>11, <2>2, <3>1, <3>2, <3>3, <3>4
  <2> QED
    BY <2>1, <2>2
<1> QED
  BY <1>11 DEF UnsentOK

-----------------------------------------------------------------------------
(* The two links stay in their pact                                        *)

Glare == Path /\ PactHere /\ UnsentOK

LEMMA GlareMoves ==
  ASSUME LinkInv, LinkInv', PageInv, Fits, Glare, Moves
  PROVE  PactThere /\ UnsentOK'
<1>1. Path /\ PactHere /\ UnsentOK
  BY DEF Glare
<1>2. Link(rtc[Polite], Items(Polite), Alive(Polite)) /\ Link(rtc[Rude], Items(Rude), Alive(Rude))
  BY <1>1, TwoSides, Linked
<1>3. Polite \in Sides /\ Rude \in Sides /\ Rude # Polite /\ Other(Polite) = Rude /\ Other(Rude) = Polite
      /\ Sides = {Polite, Rude} /\ \A s \in Sides : Other(s) \in Sides
  BY TwoSides
<1>4. ASSUME NEW s \in Sides, Rests(s), Rests(Other(s)) PROVE PactThere
  <2>1. Rests(Polite) /\ Rests(Rude)
    BY <1>3, <1>4
  <2> QED
    BY <1>1, <2>1, PactRests
<1>5. \A x \in Sides : chain[x] \in Seq(Tasks) /\ OffersThin(chain[x], chain[x])
  BY OffersSame DEF LinkInv
<1>6. CASE Still
  <2>1. Rests(Polite) /\ Rests(Rude)
    BY <1>3, <1>6, StillDeals
  <2>2. chain' = chain
    BY <1>6 DEF Still
  <2> QED
    BY <1>1, <1>3, <1>4, <1>5, <2>1, <2>2, UnsentStays
<1>7. ASSUME NEW s \in Sides, Works(s) PROVE PactThere /\ UnsentOK'
  <2>1. OffersThin(chain'[s], chain[s]) /\ chain'[Other(s)] = chain[Other(s)]
    BY <1>7, WorksChain
  <2>2. CASE Rests(s) /\ Same(Other(s))
    <3>1. Rests(Other(s))
      BY <2>2, SameRests
    <3> QED
      BY <1>1, <1>4, <2>1, <2>2, <3>1, UnsentStays
  <2>3. CASE TakesOffer(s)
    BY <1>1, <1>2, <2>1, <2>3, PactTakesOffer, UnsentStays
  <2>4. CASE TakesAnswer(s)
    BY <1>1, <1>2, <2>1, <2>4, PactTakesAnswer, UnsentStays
  <2> QED
    BY <1>1, <1>7, <2>2, <2>3, <2>4, WorksDeals
<1>8. ASSUME NEW s \in Sides, Speaks(s) PROVE PactThere /\ UnsentOK'
  <2>1. CASE Replies(s)
    <3>1. PactThere
      BY <1>1, <1>2, <2>1, PactReplies
    <3>2. OffersThin(chain'[s], chain[s]) /\ chain'[Other(s)] = chain[Other(s)]
      <4>1. PICK i : SendOffer(s, i) \/ Answer(s, i)
        BY <1>8 DEF Speaks
      <4>2. \E op, stage : Runs(s, i, op, stage)
        BY <4>1 DEF SendOffer, Answer
      <4>3. i = 1 /\ chain[s] # <<>>
        BY <4>2, AtHead DEF Running
      <4>4. Settle(s, 1)
        BY <4>1, <4>3 DEF SendOffer, Answer
      <4>5. chain'[s] = RemoveAt(chain[s], 1)
        BY <4>4 DEF Settle, LinkInv
      <4>6. chain'[Other(s)] = chain[Other(s)]
        BY <4>1, TwoSides, OthersStay
      <4> QED
        BY <1>5, <4>3, <4>5, <4>6, OffersSettled
    <3> QED
      BY <1>1, <2>1, <3>1, <3>2, UnsentStays
  <2>2. CASE /\ MakesOffer(s, chain[s][1].n)
             /\ chain[s] # <<>> /\ chain[s][1].op = "offer" /\ chain'[s] = RemoveAt(chain[s], 1)
             /\ chain'[Other(s)] = chain[Other(s)]
    <3> DEFINE n == chain[s][1].n
    <3>1. MakesOffer(s, n) /\ n = chain[s][1].n
      BY <2>2
    <3> HIDE DEF n
    <3>2. UnsentOK' /\ \A x \in Items(Other(s)) : x.n # n
      BY <1>1, <2>2, <3>1, UnsentOffers
    <3> QED
      BY <1>1, <1>2, <3>1, <3>2, PactMakesOffer
  <2> QED
    BY <1>1, <1>8, <2>1, <2>2, SpeaksDeals
<1>9. ASSUME NEW s \in Sides, Mentions(s) PROVE PactThere /\ UnsentOK'
  <2>1. Rests(s) /\ Rests(Other(s))
    BY <1>1, <1>9, MentionsDeals, SameRests
  <2>2. chain' = chain
    BY <1>9 DEF Mentions
  <2> QED
    BY <1>1, <1>3, <1>4, <1>5, <2>1, <2>2, UnsentStays
<1>10. ASSUME NEW s \in Sides, Asks(s) PROVE PactThere /\ UnsentOK'
  <2>1. Rests(s) /\ Rests(Other(s))
    BY <1>1, <1>10, AsksDeals, SameRests
  <2> QED
    BY <1>1, <1>4, <1>10, <2>1, UnsentAsks
<1>11. ASSUME NEW s \in Sides, Hears(s) PROVE PactThere /\ UnsentOK'
  <2>1. Rests(s) /\ Rests(Other(s))
    BY <1>1, <1>11, HearsDeals, SameRests
  <2>2. OffersThin(chain'[s], chain[s]) /\ chain'[Other(s)] = chain[Other(s)]
    <3>1. CASE UNCHANGED chain
      BY <1>5, <3>1
    <3>2. ASSUME NEW e \in wire[s], e.type \in Named, Serialize(s, TaskFor(e))
          PROVE  OffersThin(chain'[s], chain[s]) /\ chain'[Other(s)] = chain[Other(s)]
      <4>1. e.content \in Nat
        BY <3>2 DEF LinkInv, WireOK, GoodSignal, Made
      <4>2. TaskFor(e) \in Tasks /\ TaskFor(e).op # "offer"
        BY <3>2, <4>1 DEF TaskFor, CandidateTask, DescriptionTask, Tasks, Named
      <4>3. chain'[s] = Append(chain[s], TaskFor(e)) /\ chain'[Other(s)] = chain[Other(s)]
        BY <3>2, TwoSides DEF Serialize, LinkInv
      <4> QED
        BY <1>5, <4>2, <4>3, OffersQueued
    <3> QED
      BY <1>11, <3>1, <3>2 DEF Hears, Arriving
  <2> QED
    BY <1>1, <1>4, <2>1, <2>2, UnsentStays
<1>12. ASSUME NEW s \in Sides, Leaves(s) PROVE PactThere /\ UnsentOK'
  <2>1. Goes(s)
    BY <1>12, LeavesDeals
  <2>2. OffersThin(chain'[s], chain[s]) /\ chain'[Other(s)] = chain[Other(s)]
    BY <1>12, OffersNone DEF Leaves
  <2> QED
    BY <1>1, <1>2, <2>1, <2>2, PactGoes, UnsentStays
<1> QED
  BY <1>6, <1>7, <1>8, <1>9, <1>10, <1>11, <1>12 DEF Moves

LEMMA GlareStays ==
  ASSUME LinkInv, LinkInv', PageInv, GlareInv, Moves
  PROVE  GlareInv'
<1> SUFFICES ASSUME Fits' PROVE Path' /\ PactHere' /\ UnsentOK'
  BY DEF GlareInv, PactHere
<1>1. Fits
  BY FitsBefore
<1>2. Glare
  BY <1>1 DEF GlareInv, Glare, PactHere
<1>3. Path'
  BY <1>1, <1>2, PathStays DEF Glare
<1>4. PactThere /\ UnsentOK'
  BY <1>1, <1>2, GlareMoves
<1>5. PactHere'
  BY <1>4 DEF PactHere, PactThere, Pact, ToPolite, PoliteBusy, AnswersToRude, ToRude, AnswersToPolite,
              RudeBusy, Agrees, OffersIn, AnswersIn, None, Rude, Other
<1> QED
  BY <1>3, <1>4, <1>5

-----------------------------------------------------------------------------
(* An answer completes its own offer                                       *)

\* At the start nothing is on its way.
LEMMA NothingThere ==
  ASSUME NEW s \in Sides, chain[s] = <<>>, wire[s] = {}
  PROVE  Items(s) = {}
<1>1. DOMAIN chain[s] = {}
  BY EmptySeq
<1>2. TaskItems(chain[s]) = {}
  BY <1>1 DEF TaskItems
<1>3. WireItems(wire[s], ledger[s]) = {}
  BY DEF WireItems
<1> QED
  BY <1>2, <1>3 DEF Items

LEMMA GlareStart ==
  ASSUME CallsInit
  PROVE  GlareInv
<1>1. Init
  <2>1. Library!Init => Init
    BY LibraryNames DEF Library!Init, Init
  <2> QED
    BY <2>1 DEF CallsInit, StartCall
<1>2. \A s \in Sides : /\ chain[s] = <<>> /\ wire[s] = {} /\ rtc[s] = NewConnection
                       /\ ledger[s] = NoLedger /\ sequence[s] = 0 /\ sent[s] = 0
  BY <1>1 DEF Init
<1>3. \A s \in Sides : Items(s) = {}
  BY <1>2, NothingThere
<1>4. Path
  <2>1. Counted /\ Carried
    BY <1>2 DEF Counted, Carried
  <2>2. ASSUME NEW s \in Sides PROVE LedgerOf(ledger[s], s, Other(s), sent[Other(s)])
    <3>1. NoLedger.seen = <<>> /\ NoLedger.last = <<>> /\ NoLedger.ended = <<>>
          /\ NoLedger = [seen |-> <<>>, last |-> <<>>, ended |-> <<>>]
      BY DEF NoLedger
    <3>2. DOMAIN NoLedger.seen = {}
      BY <3>1, EmptySeq
    <3>3. NoLedger.seen \in Seq(({Other(s)} \X (1 .. sent[Other(s)])) \X {Skew})
      BY <3>1, EmptySeq
    <3> QED
      BY <1>2, <3>1, <3>2, <3>3 DEF LedgerOf
  <2> QED
    BY <2>1, <2>2 DEF Remembered, Path
<1>5. Pact(rtc[Polite], rtc[Rude], Items(Polite), Items(Rude), Alive(Polite), Alive(Rude))
  <2>1. /\ rtc[Polite].signaling = "stable" /\ rtc[Polite].agreed = rtc[Polite].heard
        /\ rtc[Rude].signaling = "stable" /\ rtc[Rude].agreed = rtc[Rude].heard
    BY <1>2, TwoSides DEF NewConnection
  <2>2. Items(Polite) = {} /\ Items(Rude) = {}
    BY <1>3, TwoSides
  <2> QED
    BY <2>1, <2>2 DEF Pact, ToPolite, PoliteBusy, AnswersToRude, ToRude, AnswersToPolite, RudeBusy,
                      Agrees, OffersIn, AnswersIn
<1>6. UnsentOK
  <2>1. \A s \in Sides : DOMAIN chain[s] = {}
    BY <1>2, EmptySeq
  <2> QED
    BY <2>1 DEF UnsentOK
<1> QED
  BY <1>4, <1>5, <1>6 DEF GlareInv

\* What the links, the pages and the path keep, together.
Dealt == LinkInv /\ PageInv /\ GlareInv

LEMMA DealtStart ==
  ASSUME CallsInit
  PROVE  Dealt
  BY LinksStart, PagesStart, GlareStart DEF Dealt

LEMMA DealtStays ==
  ASSUME Dealt, [CallsNext]_callsVars
  PROVE  Dealt'
<1>1. LinkInv'
  BY LinksStay DEF Dealt
<1>2. PageInv' /\ Moves
  BY PagesStay DEF Dealt
<1>3. GlareInv'
  BY <1>1, <1>2, GlareStays DEF Dealt
<1> QED
  BY <1>1, <1>2, <1>3 DEF Dealt

\* A browser that is stable agreed on the offer it heard of last: the one it
\* answered, or the one of its own that the answer it applied names. Offers may
\* cross and be rolled back, signals be lost, doubled or overtaken, pages come and
\* go: as long as no ledger forgets.
THEOREM AnswersMeet == CallsSpec => [](Fits => AnswersMeetTheirOffer)
<1>1. CallsInit => Dealt
  BY DealtStart
<1>2. Dealt /\ [CallsNext]_callsVars => Dealt'
  BY DealtStays
<1>3. Dealt => (Fits => AnswersMeetTheirOffer)
  <2> SUFFICES ASSUME Dealt, Fits PROVE AnswersMeetTheirOffer
    OBVIOUS
  <2>1. Agrees(rtc[Polite]) /\ Agrees(rtc[Rude])
    BY DEF Dealt, GlareInv, Pact
  <2>2. Sides = {Polite, Rude}
    BY TwoSides
  <2> QED
    BY <2>1, <2>2 DEF Agrees, AnswersMeetTheirOffer
<1> QED
  BY <1>1, <1>2, <1>3, PTL DEF CallsSpec

-----------------------------------------------------------------------------
(* The library, while nothing is lost: what two negotiations wait for       *)

Carries(A, kind, n) == \E x \in A : x.kind = kind /\ x.n = n
Brings(A, kind) == \E x \in A : x.kind = kind

\* p, q: the connections of the polite and of the other browser; A, B: the
\* descriptions on their way to each. An offer somebody waits with is on its way, is
\* being answered, or its answer is; the polite browser may also be about to roll
\* its own back. An answer tells what the other agreed on already.
Kept(p, q, A, B) ==
  /\ q.offered # None =>
       \/ Carries(A, "call_offer", q.offered)
       \/ p.signaling = "have-remote-offer" /\ p.heard = q.offered
       \/ Carries(B, "call_answer", q.offered)
  /\ p.offered # None =>
       \/ Carries(B, "call_offer", p.offered)
       \/ q.signaling = "have-remote-offer" /\ q.heard = p.offered
       \/ Carries(A, "call_answer", p.offered)
       \/ Brings(A, "call_offer")
  /\ \A x \in A : x.kind = "call_answer" => q.agreed = x.n /\ ~Brings(B, "call_answer")
  /\ \A x \in B : x.kind = "call_answer" => p.agreed = x.n
  /\ ~Brings(A, "call_answer") /\ ~Brings(B, "call_answer") => p.agreed = q.agreed

SameNames(A2, A) ==
  /\ \A x \in A2 : Carries(A, x.kind, x.n)
  /\ \A x \in A : Carries(A2, x.kind, x.n)

LEMMA NamesMean ==
  ASSUME NEW A, NEW A2, SameNames(A2, A)
  PROVE  /\ \A k, n : Carries(A2, k, n) <=> Carries(A, k, n)
         /\ \A k : Brings(A2, k) <=> Brings(A, k)
  BY DEF SameNames, Carries, Brings

LEMMA KeptSame ==
  ASSUME NEW p, NEW q, NEW A, NEW B, Kept(p, q, A, B), NEW p2, NEW q2, NEW A2, NEW B2,
         Alike(p2, p), Alike(q2, q), SameNames(A2, A), SameNames(B2, B)
  PROVE  Kept(p2, q2, A2, B2)
<1>1. /\ \A k, n : (Carries(A2, k, n) <=> Carries(A, k, n)) /\ (Carries(B2, k, n) <=> Carries(B, k, n))
      /\ \A k : (Brings(A2, k) <=> Brings(A, k)) /\ (Brings(B2, k) <=> Brings(B, k))
  BY NamesMean
<1>2. \A x \in A2 : x.kind = "call_answer" => q.agreed = x.n /\ ~Brings(B, "call_answer")
  <2> SUFFICES ASSUME NEW x \in A2, x.kind = "call_answer"
               PROVE  q.agreed = x.n /\ ~Brings(B, "call_answer")
    OBVIOUS
  <2>1. PICK y \in A : y.kind = x.kind /\ y.n = x.n
    BY DEF SameNames, Carries
  <2> QED
    BY <2>1 DEF Kept
<1>3. \A x \in B2 : x.kind = "call_answer" => p.agreed = x.n
  <2> SUFFICES ASSUME NEW x \in B2, x.kind = "call_answer"
               PROVE  p.agreed = x.n
    OBVIOUS
  <2>1. PICK y \in B : y.kind = x.kind /\ y.n = x.n
    BY DEF SameNames, Carries
  <2> QED
    BY <2>1 DEF Kept
<1>4. /\ p2.signaling = p.signaling /\ p2.agreed = p.agreed /\ p2.offered = p.offered /\ p2.heard = p.heard
      /\ q2.signaling = q.signaling /\ q2.agreed = q.agreed /\ q2.offered = q.offered /\ q2.heard = q.heard
  BY DEF Alike
<1> QED
  BY <1>1, <1>2, <1>3, <1>4 DEF Kept

\* A description less.
LEMMA NamesLess ==
  ASSUME NEW A, NEW x \in A, NEW A2, A2 = A \ {x}
  PROVE  /\ \A k, n : Carries(A, k, n) => Carries(A2, k, n) \/ (x.kind = k /\ x.n = n)
         /\ \A k, n : Carries(A2, k, n) => Carries(A, k, n)
         /\ \A k : Brings(A, k) => Brings(A2, k) \/ x.kind = k
         /\ \A k : Brings(A2, k) => Brings(A, k)
  BY DEF Carries, Brings

\* A description more.
LEMMA NamesMore ==
  ASSUME NEW A, NEW x, NEW A2, A2 = A \cup {x}
  PROVE  /\ \A k, n : Carries(A2, k, n) <=> Carries(A, k, n) \/ (x.kind = k /\ x.n = n)
         /\ \A k : Brings(A2, k) <=> Brings(A, k) \/ x.kind = k
  BY DEF Carries, Brings

\* The other browser, which waits with an offer of its own, ignores one.
LEMMA KeptIgnores ==
  ASSUME NEW p, NEW q, NEW A, NEW B, Kept(p, q, A, B), Pact(p, q, A, B, TRUE, TRUE),
         Link(p, A, TRUE), q.offered # None,
         NEW x \in OffersIn(B), \A y \in B : ~(y.pos < x.pos), NEW B2, B2 = B \ {x}
  PROVE  Kept(p, q, A, B2)
<1>1. x \in B /\ x.kind = "call_offer"
  BY DEF OffersIn
<1>2. /\ \A k, n : Carries(B, k, n) => Carries(B2, k, n) \/ (x.kind = k /\ x.n = n)
      /\ \A k : Brings(B, k) => Brings(B2, k) \/ x.kind = k
      /\ \A k : Brings(B2, k) => Brings(B, k)
  BY <1>1, NamesLess
<1>3. Carries(B, "call_answer", q.offered) => Carries(B2, "call_answer", q.offered)
  BY <1>1, <1>2
<1>4. p.offered = x.n /\ p.offered # None => Brings(A, "call_offer")
  <2> SUFFICES ASSUME p.offered = x.n, p.offered # None PROVE Brings(A, "call_offer")
    OBVIOUS
  <2>1. p.signaling # "have-remote-offer"
    BY DEF Link
  <2>2. ~Carries(B, "call_answer", q.offered)
    <3>1. \A y \in AnswersIn(B) : y.pos < x.pos
      BY DEF Pact, ToRude
    <3>2. \A y \in B : y.kind # "call_answer"
      BY <3>1 DEF AnswersIn
    <3> QED
      BY <3>2 DEF Carries
  <2>3. Carries(A, "call_offer", q.offered)
    BY <2>1, <2>2 DEF Kept
  <2> QED
    BY <2>3 DEF Carries, Brings
<1>5. p.offered # None =>
       \/ Carries(B2, "call_offer", p.offered)
       \/ q.signaling = "have-remote-offer" /\ q.heard = p.offered
       \/ Carries(A, "call_answer", p.offered)
       \/ Brings(A, "call_offer")
  BY <1>1, <1>2, <1>4 DEF Kept
<1>6. Brings(B2, "call_answer") <=> Brings(B, "call_answer")
  BY <1>1, <1>2
<1>7. \A y \in B2 : y \in B
  OBVIOUS
<1> QED
  BY <1>3, <1>5, <1>6, <1>7 DEF Kept

\* The polite browser takes the offer of the other.
LEMMA KeptPoliteTakes ==
  ASSUME NEW p, NEW q, NEW A, NEW B, Kept(p, q, A, B), Pact(p, q, A, B, TRUE, TRUE),
         NEW x \in OffersIn(A), \A y \in A : ~(y.pos < x.pos), NEW A2, A2 = A \ {x},
         NEW p2, p2.signaling = "have-remote-offer", p2.offered = None, p2.heard = x.n, p2.agreed = p.agreed
  PROVE  Kept(p2, q, A2, B)
<1>1. q.offered = x.n /\ (\A y \in AnswersIn(A) : y.pos < x.pos) /\ AnswersIn(B) = {}
  BY DEF Pact, ToPolite
<1>2. ~Brings(A, "call_answer") /\ ~Brings(B, "call_answer")
  BY <1>1 DEF Brings, AnswersIn
<1>3. \A y \in A2 : y.kind # "call_answer"
  BY <1>2 DEF Brings
<1>4. \A y \in B : y.kind # "call_answer"
  BY <1>2 DEF Brings
<1>5. p2.agreed = q.agreed
  BY <1>2 DEF Kept
<1> QED
  BY <1>1, <1>3, <1>4, <1>5 DEF Kept

\* The other takes the offer of the polite browser.
LEMMA KeptRudeTakes ==
  ASSUME NEW p, NEW q, NEW A, NEW B, Kept(p, q, A, B), Pact(p, q, A, B, TRUE, TRUE), q.offered = None,
         NEW x \in OffersIn(B), \A y \in B : ~(y.pos < x.pos), NEW B2, B2 = B \ {x},
         NEW q2, q2.signaling = "have-remote-offer", q2.offered = None, q2.heard = x.n, q2.agreed = q.agreed
  PROVE  Kept(p, q2, A, B2)
<1>1. p.offered = x.n /\ \A y \in AnswersIn(B) : y.pos < x.pos
  BY DEF Pact, ToRude
<1>2. ~Brings(B, "call_answer") /\ ~Brings(B2, "call_answer")
  BY <1>1 DEF Brings, AnswersIn
<1>3. \A y \in B2 : y.kind # "call_answer"
  BY <1>2 DEF Brings
<1>4. ~Brings(A, "call_answer") => p.agreed = q2.agreed
  BY <1>2 DEF Kept
<1>5. \A y \in A : y.kind = "call_answer" => q2.agreed = y.n
  BY DEF Kept
<1> QED
  BY <1>1, <1>2, <1>3, <1>4, <1>5 DEF Kept

\* The polite browser applies an answer.
LEMMA KeptPoliteApplies ==
  ASSUME NEW p, NEW q, NEW A, NEW B, Kept(p, q, A, B), Pact(p, q, A, B, TRUE, TRUE), Link(p, A, TRUE),
         NEW x \in AnswersIn(A), NEW A2, A2 = A \ {x},
         NEW p2, p2.signaling = "stable", p2.offered = None, p2.agreed = p.offered
  PROVE  Kept(p2, q, A2, B)
<1>1. x \in A /\ x.kind = "call_answer" /\ x.n # None
  BY DEF AnswersIn, Link
<1>2. p.offered = x.n /\ \A y \in AnswersIn(A) : x = y
  BY DEF Pact, AnswersToPolite
<1>3. q.agreed = x.n /\ ~Brings(B, "call_answer")
  BY <1>1 DEF Kept
<1>4. p.signaling # "have-remote-offer"
  BY <1>1, <1>2 DEF Link
<1>5. \A y \in A2 : y.kind # "call_answer"
  BY <1>2 DEF AnswersIn
<1>6. ~Carries(B, "call_answer", q.offered) /\ \A y \in B : y.kind # "call_answer"
  BY <1>3 DEF Carries, Brings
<1>7. \A n : Carries(A, "call_offer", n) => Carries(A2, "call_offer", n)
  BY <1>1, NamesLess
<1>8. q.offered # None => Carries(A2, "call_offer", q.offered)
  BY <1>4, <1>6, <1>7 DEF Kept
<1> QED
  BY <1>2, <1>3, <1>5, <1>6, <1>8 DEF Kept

\* The other applies an answer.
LEMMA KeptRudeApplies ==
  ASSUME NEW p, NEW q, NEW A, NEW B, Kept(p, q, A, B), Pact(p, q, A, B, TRUE, TRUE), Link(q, B, TRUE),
         NEW x \in AnswersIn(B), NEW B2, B2 = B \ {x},
         NEW q2, q2.signaling = "stable", q2.offered = None, q2.agreed = q.offered
  PROVE  Kept(p, q2, A, B2)
<1>1. x \in B /\ x.kind = "call_answer" /\ x.n # None
  BY DEF AnswersIn, Link
<1>2. q.offered = x.n /\ \A y \in AnswersIn(B) : x = y
  BY DEF Pact, AnswersToRude
<1>3. p.agreed = x.n /\ Brings(B, "call_answer")
  BY <1>1 DEF Kept, Brings
<1>4. q.signaling # "have-remote-offer"
  BY <1>1, <1>2 DEF Link
<1>5. \A y \in B2 : y.kind # "call_answer"
  BY <1>2 DEF AnswersIn
<1>6. \A y \in A : y.kind # "call_answer"
  BY <1>3 DEF Kept
<1>7. \A n : Carries(B, "call_offer", n) => Carries(B2, "call_offer", n)
  BY <1>1, NamesLess
<1>8. p.offered # None =>
       \/ Carries(B2, "call_offer", p.offered)
       \/ Carries(A, "call_answer", p.offered)
       \/ Brings(A, "call_offer")
  BY <1>4, <1>7 DEF Kept
<1> QED
  BY <1>2, <1>3, <1>5, <1>6, <1>8 DEF Kept

\* An offer goes out.
LEMMA KeptPoliteOffers ==
  ASSUME NEW p, NEW q, NEW A, NEW B, Kept(p, q, A, B), p.signaling = "stable",
         NEW n, NEW x, x.kind = "call_offer", x.n = n, NEW B2, B2 = B \cup {x},
         NEW p2, p2.signaling = "have-local-offer", p2.offered = n, p2.agreed = p.agreed
  PROVE  Kept(p2, q, A, B2)
<1>1. /\ \A k, m : Carries(B2, k, m) <=> Carries(B, k, m) \/ (x.kind = k /\ x.n = m)
      /\ \A k : Brings(B2, k) <=> Brings(B, k) \/ x.kind = k
  BY NamesMore
<1>2. Carries(B2, "call_offer", n)
  BY <1>1
<1>3. /\ \A m : Carries(B2, "call_answer", m) <=> Carries(B, "call_answer", m)
      /\ Brings(B2, "call_answer") <=> Brings(B, "call_answer")
  BY <1>1
<1>4. \A y \in B2 : y.kind = "call_answer" => y \in B
  OBVIOUS
<1> QED
  BY <1>2, <1>3, <1>4 DEF Kept

LEMMA KeptRudeOffers ==
  ASSUME NEW p, NEW q, NEW A, NEW B, Kept(p, q, A, B), q.signaling = "stable",
         NEW n, NEW x, x.kind = "call_offer", x.n = n, NEW A2, A2 = A \cup {x},
         NEW q2, q2.signaling = "have-local-offer", q2.offered = n, q2.agreed = q.agreed
  PROVE  Kept(p, q2, A2, B)
<1>1. /\ \A k, m : Carries(A2, k, m) <=> Carries(A, k, m) \/ (x.kind = k /\ x.n = m)
      /\ \A k : Brings(A2, k) <=> Brings(A, k) \/ x.kind = k
  BY NamesMore
<1>2. Carries(A2, "call_offer", n) /\ Brings(A2, "call_offer")
  BY <1>1
<1>3. Brings(A2, "call_answer") <=> Brings(A, "call_answer")
  BY <1>1
<1>4. \A y \in A2 : y.kind = "call_answer" => y \in A
  OBVIOUS
<1> QED
  BY <1>2, <1>3, <1>4 DEF Kept

\* An answer goes out.
LEMMA KeptPoliteReplies ==
  ASSUME NEW p, NEW q, NEW A, NEW B, Kept(p, q, A, B), Pact(p, q, A, B, TRUE, TRUE), Link(p, A, TRUE),
         p.signaling = "have-remote-offer",
         NEW x, x.kind = "call_answer", x.n = p.heard, NEW B2, B2 = B \cup {x},
         NEW p2, p2.signaling = "stable", p2.offered = None, p2.agreed = p.heard
  PROVE  Kept(p2, q, A, B2)
<1>1. q.offered = p.heard /\ AnswersIn(B) = {}
  BY DEF Pact, PoliteBusy
<1>2. \A y \in A : y.kind # "call_answer"
  <2>1. p.offered = None /\ \A y \in A : y.n # None
    BY DEF Link
  <2>2. \A y \in AnswersIn(A) : p.offered = y.n
    BY DEF Pact, AnswersToPolite
  <2> QED
    BY <2>1, <2>2 DEF AnswersIn
<1>3. Carries(B2, "call_answer", q.offered) /\ Brings(B2, "call_answer")
  BY <1>1 DEF Carries, Brings
<1>4. \A y \in B2 : y.kind = "call_answer" => p2.agreed = y.n
  BY <1>1 DEF AnswersIn
<1> QED
  BY <1>2, <1>3, <1>4 DEF Kept

LEMMA KeptRudeReplies ==
  ASSUME NEW p, NEW q, NEW A, NEW B, Kept(p, q, A, B), Pact(p, q, A, B, TRUE, TRUE), Link(q, B, TRUE),
         q.signaling = "have-remote-offer",
         NEW x, x.kind = "call_answer", x.n = q.heard, NEW A2, A2 = A \cup {x},
         NEW q2, q2.signaling = "stable", q2.offered = None, q2.agreed = q.heard
  PROVE  Kept(p, q2, A2, B)
<1>1. p.offered = q.heard /\ AnswersIn(A) = {}
  BY DEF Pact, RudeBusy
<1>2. \A y \in B : y.kind # "call_answer"
  <2>1. q.offered = None /\ \A y \in B : y.n # None
    BY DEF Link
  <2>2. \A y \in AnswersIn(B) : q.offered = y.n
    BY DEF Pact, AnswersToRude
  <2> QED
    BY <2>1, <2>2 DEF AnswersIn
<1>3. Carries(A2, "call_answer", p.offered) /\ Brings(A2, "call_answer") /\ ~Brings(B, "call_answer")
  BY <1>1, <1>2 DEF Carries, Brings
<1>4. \A y \in A2 : y.kind = "call_answer" => q2.agreed = y.n
  BY <1>1 DEF AnswersIn
<1> QED
  BY <1>2, <1>3, <1>4 DEF Kept

-----------------------------------------------------------------------------
(* The library: every signal is heard, and in order                         *)

\* A browser that has heard anything knows its role.
Learned(c, g) == \A i \in DOMAIN c : c[i].op # "offer" => g.roleKnown
Heard == mode = "library" => \A s \in Sides : open[s] /\ Learned(chain[s], nego[s])

LEMMA LearnedLess ==
  ASSUME NEW c \in Seq(Tasks), c # <<>>, NEW g, Learned(c, g), NEW g2, g2.roleKnown = g.roleKnown
  PROVE  Learned(RemoveAt(c, 1), g2)
<1>1. /\ DOMAIN RemoveAt(c, 1) = 1 .. Len(c) - 1
      /\ \A i \in 1 .. Len(c) - 1 : RemoveAt(c, 1)[i] = c[i + 1]
  BY Removed
<1>2. \A i \in 1 .. Len(c) - 1 : i + 1 \in DOMAIN c
  BY LenProperties
<1> QED
  BY <1>1, <1>2 DEF Learned

LEMMA LearnedStaged ==
  ASSUME NEW c \in Seq(Tasks), c # <<>>, NEW t \in Tasks, t.op = c[1].op,
         NEW g, Learned(c, g), NEW g2, g2.roleKnown = g.roleKnown
  PROVE  Learned([c EXCEPT ![1] = t], g2)
<1> DEFINE d == [c EXCEPT ![1] = t]
<1>1. /\ Len(c) \in Nat \ {0} /\ DOMAIN c = 1 .. Len(c) /\ DOMAIN d = 1 .. Len(c) /\ d[1] = t
      /\ \A i \in 2 .. Len(c) : d[i] = c[i]
  BY Staged
<1> HIDE DEF d
<1>2. \A i \in DOMAIN d : i \in DOMAIN c /\ d[i].op = c[i].op
  <2>1. \A i \in 1 .. Len(c) : i = 1 \/ i \in 2 .. Len(c)
    BY <1>1
  <2> QED
    BY <1>1, <2>1
<1>3. Learned(d, g2)
  BY <1>2 DEF Learned
<1> QED
  BY <1>3 DEF d

LEMMA LearnedMore ==
  ASSUME NEW c \in Seq(Tasks), NEW t \in Tasks, NEW g, Learned(c, g),
         NEW g2, g.roleKnown => g2.roleKnown, t.op # "offer" => g2.roleKnown
  PROVE  Learned(Append(c, t), g2)
<1> DEFINE d == Append(c, t)
<1>1. /\ Len(c) \in Nat /\ DOMAIN c = 1 .. Len(c) /\ DOMAIN d = 1 .. Len(c) + 1
      /\ (\A i \in 1 .. Len(c) : d[i] = c[i]) /\ d[Len(c) + 1] = t
  BY Queued
<1> HIDE DEF d
<1>2. \A i \in DOMAIN d : (i \in DOMAIN c /\ d[i] = c[i]) \/ d[i] = t
  BY <1>1
<1>3. Learned(d, g2)
  BY <1>2 DEF Learned
<1> QED
  BY <1>3 DEF d

\* The head task at its next stage.
LEMMA StagedTask ==
  ASSUME NEW t \in Tasks
  PROVE  /\ t.op = "call_offer" => [t EXCEPT !.stage = "answering"] \in Tasks
                                   /\ [t EXCEPT !.stage = "answering"].op = t.op
         /\ t.op = "call_answer" => [t EXCEPT !.stage = "applying"] \in Tasks
                                   /\ [t EXCEPT !.stage = "applying"].op = t.op
         /\ \A m \in Nat : t.op = "offer" =>
              [t EXCEPT !.stage = "created", !.mine = m] \in Tasks
              /\ [t EXCEPT !.stage = "created", !.mine = m].op = t.op
<1>1. ASSUME t.op = "call_offer"
      PROVE  [t EXCEPT !.stage = "answering"] \in Tasks /\ [t EXCEPT !.stage = "answering"].op = t.op
  <2>1. t \in [op : {"call_offer"}, stage : {"start", "answering"}, n : Nat]
    BY <1>1 DEF Tasks
  <2>2. /\ [t EXCEPT !.stage = "answering"] \in [op : {"call_offer"}, stage : {"start", "answering"}, n : Nat]
        /\ [t EXCEPT !.stage = "answering"].op = t.op
    BY <2>1
  <2> QED
    BY <2>2 DEF Tasks
<1>2. ASSUME t.op = "call_answer"
      PROVE  [t EXCEPT !.stage = "applying"] \in Tasks /\ [t EXCEPT !.stage = "applying"].op = t.op
  <2>1. t \in [op : {"call_answer"}, stage : {"start", "applying"}, n : Nat]
    BY <1>2 DEF Tasks
  <2>2. /\ [t EXCEPT !.stage = "applying"] \in [op : {"call_answer"}, stage : {"start", "applying"}, n : Nat]
        /\ [t EXCEPT !.stage = "applying"].op = t.op
    BY <2>1
  <2> QED
    BY <2>2 DEF Tasks
<1>3. ASSUME t.op = "offer", NEW m \in Nat
      PROVE  /\ [t EXCEPT !.stage = "created", !.mine = m] \in Tasks
             /\ [t EXCEPT !.stage = "created", !.mine = m].op = t.op
  <2> DEFINE u == [t EXCEPT !.stage = "created", !.mine = m]
  <2>1. t \in [op : {"offer"}, stage : {"start", "created"}, n : Nat, mine : Nat]
    BY <1>3 DEF Tasks
  <2>2. u \in [op : {"offer"}, stage : {"start", "created"}, n : Nat, mine : Nat] /\ u.op = t.op
    BY <2>1
  <2> QED
    BY <2>2 DEF Tasks
<1> QED
  BY <1>1, <1>2, <1>3

LEMMA TaskLearned ==
  ASSUME LinkInv, NEW s \in Sides, NEW i, Learned(chain[s], nego[s]),
         \/ CreateOffer(s, i) \/ AbandonOffer(s, i) \/ SendOffer(s, i)
         \/ IgnoreOffer(s, i) \/ ApplyOffer(s, i) \/ Answer(s, i)
         \/ IgnoreAnswer(s, i) \/ BeginAnswer(s, i) \/ ApplyAnswer(s, i)
         \/ HoldCandidate(s, i) \/ AddCandidate(s, i)
  PROVE  Learned(chain'[s], nego'[s]) /\ UNCHANGED open /\ \A x \in Sides : x # s => nego'[x] = nego[x]
<1> DEFINE c == chain[s]
<1>1. UNCHANGED open
  BY DEF CreateOffer, AbandonOffer, SendOffer, IgnoreOffer, ApplyOffer, Answer, IgnoreAnswer, BeginAnswer,
         ApplyAnswer, HoldCandidate, AddCandidate, pathVars
<1>2. /\ nego \in [Sides -> Negotiation] /\ chain \in [Sides -> Seq(Tasks)]
      /\ nego[s] \in Negotiation /\ nego[s].generation + 1 \in Nat
  BY DEF LinkInv, Negotiation
<1>3. nego'[s].roleKnown = nego[s].roleKnown /\ \A x \in Sides : x # s => nego'[x] = nego[x]
  <2>1. CASE UNCHANGED nego
    BY <2>1
  <2>2. CASE nego' = [nego EXCEPT ![s].generation = @ + 1, ![s].making = TRUE]
    BY <1>2, <2>2 DEF Negotiation
  <2>3. CASE nego' = [nego EXCEPT ![s].making = FALSE]
    BY <1>2, <2>3 DEF Negotiation
  <2>4. CASE nego' = [nego EXCEPT ![s].ignore = TRUE]
    BY <1>2, <2>4 DEF Negotiation
  <2>5. CASE \E b : nego' = [nego EXCEPT ![s].ignore = FALSE, ![s].generation = b]
    BY <1>2, <2>5 DEF Negotiation
  <2>6. CASE nego' = [nego EXCEPT ![s].answering = TRUE]
    BY <1>2, <2>6 DEF Negotiation
  <2>7. CASE nego' = [nego EXCEPT ![s].answering = FALSE]
    BY <1>2, <2>7 DEF Negotiation
  <2>8. ApplyOffer(s, i) => \E b : nego' = [nego EXCEPT ![s].ignore = FALSE, ![s].generation = b]
    <3> SUFFICES ASSUME ApplyOffer(s, i)
                 PROVE  \E b : nego' = [nego EXCEPT ![s].ignore = FALSE, ![s].generation = b]
      OBVIOUS
    <3> DEFINE r == IsPolite(s) /\ ~ReadyForOffer(s)
               b == IF r THEN nego[s].generation + 1 ELSE nego[s].generation
    <3>1. nego' = [nego EXCEPT ![s].ignore = FALSE, ![s].generation = IF r THEN @ + 1 ELSE @]
      BY DEF ApplyOffer
    <3> HIDE DEF r
    <3>2. nego' = [nego EXCEPT ![s].ignore = FALSE, ![s].generation = b]
      BY <1>2, <3>1 DEF Negotiation
    <3> QED
      BY <3>2
  <2> QED
    BY <2>1, <2>2, <2>3, <2>4, <2>5, <2>6, <2>7, <2>8
    DEF CreateOffer, AbandonOffer, SendOffer, IgnoreOffer, Answer, IgnoreAnswer, BeginAnswer,
        ApplyAnswer, HoldCandidate, AddCandidate
<1>4. \E op, stage : Runs(s, i, op, stage)
  BY DEF CreateOffer, AbandonOffer, SendOffer, IgnoreOffer, ApplyOffer, Answer, IgnoreAnswer, BeginAnswer,
         ApplyAnswer, HoldCandidate, AddCandidate
<1>5. i = 1 /\ c # <<>> /\ c[1] \in Tasks /\ c \in Seq(Tasks)
  BY <1>4, AtHead DEF Running
<1>6. CASE \/ AbandonOffer(s, i) \/ SendOffer(s, i) \/ IgnoreOffer(s, i) \/ Answer(s, i)
           \/ IgnoreAnswer(s, i) \/ ApplyAnswer(s, i) \/ HoldCandidate(s, i) \/ AddCandidate(s, i)
  <2>1. Settle(s, 1)
    BY <1>5, <1>6, ApplyAnswerGoes, AnswerGoes
    DEF AbandonOffer, SendOffer, IgnoreOffer, IgnoreAnswer, HoldCandidate, AddCandidate
  <2>2. chain'[s] = RemoveAt(c, 1)
    BY <1>2, <2>1 DEF Settle
  <2> QED
    BY <1>1, <1>3, <1>5, <2>2, LearnedLess
<1>7. ASSUME NEW t \in Tasks, t.op = c[1].op, chain'[s] = [c EXCEPT ![1] = t]
      PROVE  Learned(chain'[s], nego'[s])
  BY <1>3, <1>5, <1>7, LearnedStaged
<1>8. CASE CreateOffer(s, i)
  <2> DEFINE t == [c[1] EXCEPT !.stage = "created", !.mine = nego[s].generation + 1]
  <2>1. c[1].op = "offer"
    BY <1>5, <1>8 DEF CreateOffer, Runs
  <2>2. chain'[s] = [c EXCEPT ![1] = t]
    BY <1>2, <1>5, <1>8 DEF CreateOffer
  <2>3. t \in Tasks /\ t.op = c[1].op
    BY <1>2, <1>5, <2>1, StagedTask
  <2> HIDE DEF t
  <2> QED
    BY <1>1, <1>3, <1>7, <2>2, <2>3
<1>9. CASE ApplyOffer(s, i)
  <2> DEFINE t == [c[1] EXCEPT !.stage = "answering"]
  <2>1. c[1].op = "call_offer" /\ Stage(s, 1, "answering")
    BY <1>9, ApplyOfferGoes DEF Running
  <2>2. chain'[s] = [c EXCEPT ![1] = t]
    BY <1>2, <1>5, <2>1 DEF Stage
  <2>3. t \in Tasks /\ t.op = c[1].op
    BY <1>5, <2>1, StagedTask
  <2> HIDE DEF t
  <2> QED
    BY <1>1, <1>3, <1>7, <2>2, <2>3
<1>10. CASE BeginAnswer(s, i)
  <2> DEFINE t == [c[1] EXCEPT !.stage = "applying"]
  <2>1. c[1].op = "call_answer" /\ Stage(s, 1, "applying")
    BY <1>5, <1>10 DEF BeginAnswer, Runs
  <2>2. chain'[s] = [c EXCEPT ![1] = t]
    BY <1>2, <1>5, <2>1 DEF Stage
  <2>3. t \in Tasks /\ t.op = c[1].op
    BY <1>5, <2>1, StagedTask
  <2> HIDE DEF t
  <2> QED
    BY <1>1, <1>3, <1>7, <2>2, <2>3
<1> QED
  BY <1>6, <1>8, <1>9, <1>10

LEMMA HeardStart ==
  ASSUME CallsInit
  PROVE  Heard
<1>1. Library!Init => Init
  BY LibraryNames DEF Library!Init, Init
<1>2. Init
  BY <1>1 DEF CallsInit, StartCall
<1>3. \A s \in Sides : DOMAIN chain[s] = {} /\ open[s]
  BY <1>2, EmptySeq DEF Init
<1> QED
  BY <1>3 DEF Heard, Learned

\* One browser goes on, the other stays as it was.
LEMMA HeardOne ==
  ASSUME LinkInv, LinkInv', Heard, mode = "library", NEW s \in Sides, Learned(chain'[s], nego'[s]), UNCHANGED open,
         \A x \in Sides : x # s => nego'[x] = nego[x] /\ chain'[x] = chain[x]
  PROVE  Heard'
<1>1. \A x \in Sides : open'[x] /\ Learned(chain'[x], nego'[x])
  BY DEF Heard
<1> QED
  BY <1>1 DEF Heard, Learned

LEMMA HeardLibrary ==
  ASSUME LinkInv, LinkInv', Heard, mode = "library", Library!Next
  PROVE  Heard'
<1>1. PICK s \in Sides :
         \/ Library!TaskStep(s) \/ Library!EmitCandidate(s)
         \/ Library!Offer(s) \/ Library!LoseSignal(s)
         \/ \E e \in wire[s] : Library!Receive(s, e)
  BY DEF Library!Next
<1>2. Learned(chain[s], nego[s]) /\ chain[s] \in Seq(Tasks) /\ nego \in [Sides -> Negotiation]
      /\ chain \in [Sides -> Seq(Tasks)] /\ nego[s] \in Negotiation
  BY DEF Heard, LinkInv
<1>3. CASE Library!TaskStep(s)
  <2>1. PICK i \in DOMAIN chain[s] :
          \/ CreateOffer(s, i) \/ AbandonOffer(s, i) \/ SendOffer(s, i)
          \/ IgnoreOffer(s, i) \/ ApplyOffer(s, i) \/ Answer(s, i)
          \/ IgnoreAnswer(s, i) \/ BeginAnswer(s, i) \/ ApplyAnswer(s, i)
          \/ HoldCandidate(s, i) \/ AddCandidate(s, i)
    BY <1>3, LibraryTasks DEF Library!TaskStep
  <2>2. /\ Learned(chain'[s], nego'[s]) /\ UNCHANGED open
        /\ \A x \in Sides : x # s => nego'[x] = nego[x]
    BY <1>2, <2>1, TaskLearned
  <2>3. \A x \in Sides : x # s => chain'[x] = chain[x]
    BY <2>1, OthersStay
  <2> QED
    BY <2>2, <2>3, HeardOne
<1>4. CASE Library!EmitCandidate(s) \/ Library!LoseSignal(s)
  <2>1. UNCHANGED <<chain, nego, open>>
    BY <1>4 DEF Library!EmitCandidate, Library!LoseSignal, Library!linkVars
  <2> QED
    BY <1>2, <2>1, HeardOne
<1>5. CASE Library!Offer(s)
  <2> DEFINE t == OfferTask(made + 1)
  <2>1. chain' = [chain EXCEPT ![s] = Append(@, t)] /\ UNCHANGED <<nego, open>>
    BY <1>5, LibraryNames DEF Library!Offer, Library!CallOffer, Library!Serialize, Library!pathVars
  <2>2. t \in Tasks /\ t.op = "offer"
    BY DEF OfferTask, Tasks, LinkInv
  <2> HIDE DEF t
  <2>3. chain'[s] = Append(chain[s], t) /\ \A x \in Sides : x # s => chain'[x] = chain[x]
    BY <1>2, <2>1
  <2>4. Learned(chain'[s], nego'[s])
    BY <1>2, <2>1, <2>2, <2>3, LearnedMore
  <2> QED
    BY <2>1, <2>3, <2>4, HeardOne
<1>6. CASE \E e \in wire[s] : Library!Receive(s, e)
  <2>1. PICK e \in wire[s] : Library!Receive(s, e)
    BY <1>6
  <2>2. /\ UNCHANGED open
        /\ \/ UNCHANGED <<chain, nego>>
           \/ Serialize(s, TaskFor(e)) /\ nego' = [nego EXCEPT ![s] = Learn(s, e)]
    BY <2>1, LibraryHears
  <2>3. CASE UNCHANGED <<chain, nego>>
    BY <1>2, <2>2, <2>3, HeardOne
  <2>4. CASE Serialize(s, TaskFor(e)) /\ nego' = [nego EXCEPT ![s] = Learn(s, e)]
    <3> DEFINE t == TaskFor(e)
    <3>1. t \in Tasks
      <4>1. e.type \in Named /\ e.content \in Nat
        BY DEF LinkInv, WireOK, GoodSignal, Made
      <4> QED
        BY <4>1 DEF TaskFor, CandidateTask, DescriptionTask, Tasks, Named
    <3>2. nego'[s].roleKnown /\ \A x \in Sides : x # s => nego'[x] = nego[x]
      BY <1>2, <2>4 DEF Learn, Negotiation
    <3> HIDE DEF t
    <3>3. chain'[s] = Append(chain[s], t) /\ \A x \in Sides : x # s => chain'[x] = chain[x]
      BY <1>2, <2>4 DEF Serialize, t
    <3>4. Learned(chain'[s], nego'[s])
      BY <1>2, <3>1, <3>2, <3>3, LearnedMore
    <3> QED
      BY <2>2, <3>2, <3>3, <3>4, HeardOne
  <2> QED
    BY <2>2, <2>3, <2>4
<1> QED
  BY <1>1, <1>3, <1>4, <1>5, <1>6

LEMMA HeardStays ==
  ASSUME LinkInv, LinkInv', Heard, [CallsNext]_callsVars
  PROVE  Heard'
<1>1. CASE mode = "call" /\ UNCHANGED mode
  BY <1>1 DEF Heard
<1>2. CASE mode = "library" /\ Library!Next
  BY <1>2, HeardLibrary
<1>3. CASE UNCHANGED callsVars
  BY <1>3 DEF callsVars, pageVars, vars, Heard, Learned
<1> QED
  BY <1>1, <1>2, <1>3 DEF CallsNext

-----------------------------------------------------------------------------
(* What a step of the library makes of the descriptions on their way, exactly *)

Exact(x) == Alike(rtc'[x], rtc[x]) /\ SameNames(Items(x)', Items(x))
Arrives(t, kind, n) == \E k : Items(t)' = Items(t) \cup {Item(kind, n, k)}
Ignores(s) ==
  /\ s = Rude /\ rtc[s].offered # None /\ rtc'[s] = rtc[s]
  /\ \E x \in OffersIn(Items(s)) :
       (\A y \in Items(s) : ~(y.pos < x.pos)) /\ Items(s)' = Items(s) \ {x}

LibraryMove ==
  \/ \A x \in Sides : Exact(x)
  \/ \E s \in Sides :
       \/ Ignores(s) /\ Same(Other(s))
       \/ TakesOffer(s) /\ rtc'[s].agreed = rtc[s].agreed
       \/ TakesAnswer(s)
       \/ \E n : MakesOffer(s, n) /\ Arrives(Other(s), "call_offer", n)
       \/ Replies(s) /\ Arrives(Other(s), "call_answer", rtc[s].heard)

LEMMA SelfNames ==
  ASSUME NEW A, NEW A2, A2 = A
  PROVE  SameNames(A2, A)
  BY DEF SameNames, Carries

LEMMA SameExact ==
  ASSUME NEW x, Same(x)
  PROVE  Exact(x)
<1>1. SameNames(Items(x)', Items(x))
  BY SelfNames DEF Same
<1> QED
  BY <1>1 DEF Same, Exact, Alike

\* A side whose tasks, wire and ledger stay.
LEMMA ItemsStay ==
  ASSUME CallsStay, NEW x \in Sides, chain'[x] = chain[x], wire'[x] = wire[x], ledger'[x] = ledger[x]
  PROVE  Items(x)' = Items(x)
<1>1. mode' = "library" \/ page'[x].call <=> Alive(x)
  BY DEF CallsStay, CallsKept, Alive
<1> QED
  BY <1>1, ItemsAfter DEF Items

\* A head that holds no description.
LEMMA NotAnItem ==
  ASSUME LinkInv, PageInv, Path, NEW s \in Sides, chain[s] # <<>>, ~Described(chain[s][1]),
         chain[s][1].op \notin Descriptions
  PROVE  Items(s) \ {HeadItem(chain[s])} = Items(s)
<1>1. Listed(Items(s))
  BY Linked
<1>2. HeadItem(chain[s]).kind \notin Descriptions
  BY ItemParts DEF HeadItem
<1> QED
  BY <1>1, <1>2 DEF Listed

LEMMA DrawnArrives ==
  ASSUME LinkInv, PageInv, Path, CallsStay, NEW s \in Sides, UNCHANGED ledger, NEW type \in Descriptions, NEW n,
         Alive(Other(s)), wire'[Other(s)] = wire[Other(s)] \cup {Signal(s, type, n)},
         chain'[Other(s)] = chain[Other(s)]
  PROVE  Arrives(Other(s), type, n)
<1> DEFINE t == Other(s)
           e == Signal(s, type, n)
           W == WireItems(wire[t], ledger[t])
<1>1. t \in Sides /\ Other(t) = s
  BY TwoSides
<1>2. mode' = "library" \/ page'[t].call
  BY <1>1 DEF CallsStay, CallsKept, Alive
<1>3. Items(t)' = TaskItems(chain[t]) \cup WireItems(wire'[t], ledger[t])
  BY <1>2, ItemsAfter
<1>4. e.type = type /\ e.content = n /\ e.id = sent[s] + 1
  BY DEF Signal
<1> HIDE DEF e
<1>5. Fresh(ledger[t], e)
  <2>1. LedgerOf(ledger[t], t, s, sent[s]) /\ sent[s] \in Nat
    BY <1>1 DEF Path, Remembered, LinkInv
  <2>2. SeenIds(ledger[t]) \subseteq 1 .. sent[s] /\ LastId(ledger[t]) \in 0 .. sent[s]
    BY <2>1, SeenEntries
  <2>3. sent[s] + 1 \notin SeenIds(ledger[t]) /\ LastId(ledger[t]) <= sent[s] + 1
    BY <2>1, <2>2
  <2> QED
    BY <1>4, <2>3 DEF Fresh, Descriptions
<1>6. WireItems(wire'[t], ledger[t]) = W \cup {Item(type, n, sent[s] + 1)}
  <2>1. wire'[t] = wire[t] \cup {e}
    BY DEF e
  <2> QED
    BY <1>4, <1>5, <2>1 DEF WireItems
<1>7. Items(t)' = Items(t) \cup {Item(type, n, sent[s] + 1)}
  BY <1>3, <1>6 DEF Items
<1> QED
  BY <1>7 DEF Arrives

\* A description at the head of a chain is the first to apply.
LEMMA HeadOfRun ==
  ASSUME LinkInv, Path, NEW s \in Sides, Alive(s), NEW i, NEW op \in Descriptions, Runs(s, i, op, "start")
  PROVE  /\ i = 1 /\ chain[s] # <<>> /\ Described(chain[s][1]) /\ chain[s][1].op = op
         /\ HeadItem(chain[s]) \in Items(s) /\ HeadItem(chain[s]).kind = op
         /\ HeadItem(chain[s]).n # None
         /\ \A y \in Items(s) : ~(y.pos < HeadItem(chain[s]).pos)
<1>1. i = 1 /\ Running(s, op, "start")
  BY AtHead
<1>2. chain[s] # <<>> /\ 1 \in DOMAIN chain[s] /\ chain[s][1].op = op /\ chain[s][1].stage = "start"
  BY <1>1 DEF Running
<1>3. Described(chain[s][1])
  BY <1>2 DEF Described, Descriptions
<1>4. chain[s][1].n # None
  <2>1. chain[s][1].n \in Made
    BY <1>1, <1>2 DEF Running, NamesOK, Descriptions
  <2> QED
    BY <2>1 DEF Made, None
<1> QED
  BY <1>1, <1>2, <1>3, <1>4, HeadOfSide

\* No answer is ignored.
LEMMA NoAnswerIgnored ==
  ASSUME LinkInv, PageInv, Path, PactHere, NEW s \in Sides, Alive(s), NEW i, IgnoreAnswer(s, i)
  PROVE  FALSE
<1> DEFINE x == HeadItem(chain[s])
<1>1. Runs(s, i, "call_answer", "start") /\ rtc[s].signaling # "have-local-offer"
  BY DEF IgnoreAnswer
<1>2. x \in Items(s) /\ x.kind = "call_answer" /\ x.n # None
  BY <1>1, HeadOfRun DEF Descriptions
<1> HIDE DEF x
<1>3. x \in AnswersIn(Items(s))
  BY <1>2 DEF AnswersIn
<1>4. rtc[s].offered = None
  <2>1. Link(rtc[s], Items(s), Alive(s))
    BY Linked
  <2> QED
    BY <1>1, <2>1 DEF Link
<1>5. s = Polite \/ s = Rude
  BY TwoSides
<1>6. rtc[s].offered = x.n
  BY <1>3, <1>5 DEF PactHere, Pact, AnswersToPolite, AnswersToRude
<1> QED
  BY <1>2, <1>4, <1>6

\* Only the other browser ignores an offer, and it waits with one of its own.
LEMMA OfferIgnored ==
  ASSUME LinkInv, PageInv, Path, mode = "library", Heard, CallsStay, UNCHANGED <<wire, ledger>>,
         NEW s \in Sides, NEW i, IgnoreOffer(s, i)
  PROVE  Ignores(s)
<1> DEFINE x == HeadItem(chain[s])
<1>0. Alive(s)
  BY DEF Alive
<1>1. Runs(s, i, "call_offer", "start") /\ ~IsPolite(s) /\ ~ReadyForOffer(s) /\ rtc'[s] = rtc[s] /\ Settle(s, i)
  BY DEF IgnoreOffer
<1>2. /\ i = 1 /\ chain[s] # <<>> /\ chain[s][1].op = "call_offer"
      /\ x \in Items(s) /\ x.kind = "call_offer" /\ \A y \in Items(s) : ~(y.pos < x.pos)
  BY <1>0, <1>1, HeadOfRun DEF Descriptions
<1>3. s = Rude
  <2>1. i \in DOMAIN chain[s]
    BY <1>1 DEF Runs
  <2>2. nego[s].roleKnown
    BY <1>2, <2>1 DEF Heard, Learned
  <2> QED
    BY <1>1, <2>2, TwoSides DEF IsPolite
<1>4. rtc[s].offered # None
  <2>1. Running(s, "call_offer", "start")
    BY <1>1, AtHead
  <2>2. /\ ~nego[s].making /\ ~nego[s].answering /\ rtc[s].signaling # "have-remote-offer"
        /\ (rtc[s].offered # None <=> rtc[s].signaling = "have-local-offer") /\ rtc[s] \in Connection
    BY <2>1 DEF Running, LinkShape
  <2>3. rtc[s].signaling # "stable"
    BY <1>1, <2>2 DEF ReadyForOffer
  <2>4. rtc[s].signaling \in {"stable", "have-local-offer", "have-remote-offer"}
    BY <2>2 DEF Connection, Signaling
  <2> QED
    BY <2>2, <2>3, <2>4
<1>5. Items(s)' = Items(s) \ {x}
  BY <1>0, <1>1, <1>2, SettlingSide
<1> HIDE DEF x
<1>6. x \in OffersIn(Items(s))
  BY <1>2 DEF OffersIn
<1> QED
  BY <1>1, <1>2, <1>3, <1>4, <1>5, <1>6 DEF Ignores

\* The offer a browser takes leaves what it agreed on alone.
LEMMA TakingAgrees ==
  ASSUME LinkInv, NEW s \in Sides, NEW i, ApplyOffer(s, i)
  PROVE  rtc'[s].agreed = rtc[s].agreed
<1>1. Update(s, Offered(s, chain[s][1].n)) /\ rtc[s] \in Connection /\ rtc \in [Sides -> Connection]
  BY ApplyOfferGoes DEF LinkInv
<1>2. rtc'[s] = Offered(s, chain[s][1].n)
  BY <1>1 DEF Update
<1> QED
  BY <1>1, <1>2 DEF Offered, Connection

LEMMA WorksExactly ==
  ASSUME LinkInv, PageInv, Path, PactHere, mode = "library", Heard, CallsStay, UNCHANGED <<wire, ledger>>,
         NEW s \in Sides, NEW i,
         \/ CreateOffer(s, i) \/ AbandonOffer(s, i) \/ IgnoreOffer(s, i) \/ ApplyOffer(s, i)
         \/ IgnoreAnswer(s, i) \/ BeginAnswer(s, i) \/ ApplyAnswer(s, i)
         \/ HoldCandidate(s, i) \/ AddCandidate(s, i)
  PROVE  LibraryMove
<1>0. Alive(s) /\ Sides = {s, Other(s)} /\ Other(s) # s
  BY TwoSides DEF Alive
<1>1. Same(Other(s))
  <2>1. Other(s) \in Sides /\ Other(s) # s
    BY TwoSides
  <2>2. rtc'[Other(s)] = rtc[Other(s)] /\ chain'[Other(s)] = chain[Other(s)]
    BY <2>1, OthersStay
  <2> QED
    BY <2>1, <2>2, SameSide
<1>2. ASSUME Exact(s) PROVE LibraryMove
  BY <1>0, <1>1, <1>2, SameExact DEF LibraryMove
<1>3. CASE AbandonOffer(s, i) \/ HoldCandidate(s, i) \/ AddCandidate(s, i)
  <2>1. \E op, stage : Runs(s, i, op, stage) /\ op \notin Descriptions
    BY <1>3 DEF AbandonOffer, HoldCandidate, AddCandidate, Descriptions
  <2>2. i = 1 /\ chain[s] # <<>> /\ chain[s][1].op \notin Descriptions
    BY <2>1, AtHead DEF Running
  <2>3. Settle(s, 1)
    BY <1>3, <2>2 DEF AbandonOffer, HoldCandidate, AddCandidate
  <2>4. Alike(rtc'[s], rtc[s])
    <3>1. CASE AddCandidate(s, i)
      <4>1. rtc[s] \in Connection /\ \E P : rtc'[s] = [rtc[s] EXCEPT !.paths = P]
        BY <3>1 DEF AddCandidate, Update, LinkInv
      <4> QED
        BY <4>1 DEF Alike, Connection
    <3>2. CASE ~AddCandidate(s, i)
      BY <1>3, <3>2 DEF AbandonOffer, HoldCandidate, Alike
    <3> QED
      BY <3>1, <3>2
  <2>5. ~Described(chain[s][1])
    BY <2>2 DEF Described, Descriptions
  <2>6. Items(s)' = Items(s)
    BY <1>0, <2>2, <2>3, <2>5, SettlingSide
  <2>7. Exact(s)
    BY <2>4, <2>6, SelfNames DEF Exact
  <2> QED
    BY <1>2, <2>7
<1>4. CASE CreateOffer(s, i)
  <2> DEFINE t == [chain[s][1] EXCEPT !.stage = "created", !.mine = nego[s].generation + 1]
  <2>1. i = 1 /\ Running(s, "offer", "start")
    <3>1. Runs(s, i, "offer", "start")
      BY <1>4 DEF CreateOffer
    <3> QED
      BY <3>1, AtHead
  <2>2. chain[s] # <<>> /\ chain[s][1] \in Tasks /\ chain[s][1].op = "offer" /\ nego[s].generation + 1 \in Nat
    BY <2>1 DEF Running, Negotiation
  <2>3. t \in Tasks /\ t.op = "offer"
    BY <2>2, StagedTask
  <2>4. chain'[s] = [chain[s] EXCEPT ![1] = t]
    BY <1>4, <2>1 DEF CreateOffer, LinkInv
  <2> HIDE DEF t
  <2>5. ~Described(t) /\ ~Described(chain[s][1]) /\ chain[s][1].op \notin Descriptions
    BY <2>2, <2>3 DEF Described, Descriptions
  <2>6. Items(s)' = Items(s) \ {HeadItem(chain[s])}
    BY <1>0, <2>2, <2>3, <2>4, <2>5, StagingSide
  <2>7. Items(s)' = Items(s)
    BY <2>2, <2>5, <2>6, NotAnItem
  <2>8. rtc'[s] = rtc[s]
    BY <1>4 DEF CreateOffer
  <2>9. Exact(s)
    BY <2>7, <2>8, SelfNames DEF Exact, Alike
  <2> QED
    BY <1>2, <2>9
<1>5. CASE BeginAnswer(s, i)
  <2> DEFINE t == [chain[s][1] EXCEPT !.stage = "applying"]
  <2>1. i = 1 /\ Running(s, "call_answer", "start")
    <3>1. Runs(s, i, "call_answer", "start")
      BY <1>5 DEF BeginAnswer
    <3> QED
      BY <3>1, AtHead
  <2>2. chain[s] # <<>> /\ chain[s][1] \in Tasks /\ chain[s][1].op = "call_answer"
    BY <2>1 DEF Running
  <2>3. t \in Tasks /\ t.op = "call_answer" /\ t.n = chain[s][1].n
    <3>1. chain[s][1] \in [op : {"call_answer"}, stage : {"start", "applying"}, n : Nat]
      BY <2>2 DEF Tasks
    <3>2. /\ t \in [op : {"call_answer"}, stage : {"start", "applying"}, n : Nat]
          /\ t.op = "call_answer" /\ t.n = chain[s][1].n
      BY <3>1
    <3> QED
      BY <3>2 DEF Tasks
  <2>4. chain'[s] = [chain[s] EXCEPT ![1] = t]
    BY <1>5, <2>1 DEF BeginAnswer, Stage, LinkInv
  <2> HIDE DEF t
  <2>5. Described(t) /\ Described(chain[s][1])
    BY <2>2, <2>3 DEF Described
  <2>6. Items(s)' = Items(s)
    BY <1>0, <2>2, <2>3, <2>4, <2>5, StagingSide
  <2>7. rtc'[s] = rtc[s]
    BY <1>5 DEF BeginAnswer
  <2>8. Exact(s)
    BY <2>6, <2>7, SelfNames DEF Exact, Alike
  <2> QED
    BY <1>2, <2>8
<1>6. CASE IgnoreOffer(s, i)
  <2>1. Ignores(s)
    BY <1>6, OfferIgnored
  <2> QED
    BY <1>1, <2>1 DEF LibraryMove
<1>7. CASE IgnoreAnswer(s, i)
  BY <1>0, <1>7, NoAnswerIgnored
<1>8. CASE ApplyOffer(s, i)
  <2>1. TakesOffer(s) /\ rtc'[s].agreed = rtc[s].agreed
    BY <1>0, <1>1, <1>8, ApplyOfferTakes, TakingAgrees
  <2> QED
    BY <2>1 DEF LibraryMove
<1>9. CASE ApplyAnswer(s, i)
  <2>1. TakesAnswer(s)
    BY <1>0, <1>1, <1>9, ApplyAnswerTakes
  <2> QED
    BY <2>1 DEF LibraryMove
<1> QED
  BY <1>3, <1>4, <1>5, <1>6, <1>7, <1>8, <1>9

\* What a browser of the library says arrives: its socket is open.
LEMMA SpeaksExactly ==
  ASSUME LinkInv, PageInv, Path, mode = "library", Heard, NEW s \in Sides, Speaks(s)
  PROVE  LibraryMove
<1> DEFINE t == Other(s)
<1>1. CallsStay /\ Alive(s) /\ Alive(t) /\ UNCHANGED ledger /\ open[s]
  BY DEF Speaks, Heard, Alive
<1>2. PICK i : SendOffer(s, i) \/ Answer(s, i)
  BY DEF Speaks
<1>3. t \in Sides /\ t # s /\ chain'[t] = chain[t]
  <2>1. Other(s) \in Sides /\ Other(s) # s
    BY TwoSides
  <2> QED
    BY <1>2, <2>1, OthersStay
<1>4. ASSUME NEW type \in Descriptions, NEW n, Send(s, type, n)
      PROVE  Arrives(t, type, n)
  <2> DEFINE e == Signal(s, type, n)
  <2>1. wire' = [wire EXCEPT ![t] = @ \cup {e}]
    BY <1>1, <1>4 DEF Send
  <2> HIDE DEF e
  <2>2. wire'[t] = wire[t] \cup {e}
    <3> HIDE DEF t
    <3> QED
      BY <1>3, <2>1 DEF LinkInv
  <2> QED
    BY <1>1, <1>3, <2>2, DrawnArrives DEF e
<1>5. CASE SendOffer(s, i)
  <2>1. i = 1 /\ rtc[s].signaling = "stable" /\ Send(s, "call_offer", chain[s][1].n)
    <3>1. Runs(s, i, "offer", "created")
      BY <1>5 DEF SendOffer
    <3>2. i = 1
      BY <3>1, AtHead
    <3> QED
      BY <1>5, <3>2 DEF SendOffer
  <2>2. MakesOffer(s, chain[s][1].n)
    BY <2>1, SpeaksDeals DEF Replies
  <2>3. Arrives(t, "call_offer", chain[s][1].n)
    BY <1>4, <2>1 DEF Descriptions
  <2> QED
    BY <2>2, <2>3 DEF LibraryMove
<1>6. CASE Answer(s, i)
  <2>1. rtc[s].signaling = "have-remote-offer" /\ Send(s, "call_answer", rtc[s].heard)
    BY <1>6, AnswerGoes
  <2>2. Replies(s)
    BY <2>1, SpeaksDeals DEF MakesOffer
  <2>3. Arrives(t, "call_answer", rtc[s].heard)
    BY <1>4, <2>1 DEF Descriptions
  <2> QED
    BY <2>2, <2>3 DEF LibraryMove
<1> QED
  BY <1>2, <1>5, <1>6

\* A queued task leaves the others where they are.
LEMMA QueuedBack ==
  ASSUME NEW c \in Seq(Tasks), NEW t \in Tasks
  PROVE  /\ \A x \in TaskItems(c) : Carries(TaskItems(Append(c, t)), x.kind, x.n)
         /\ Described(t) => Carries(TaskItems(Append(c, t)), t.op, t.n)
<1> DEFINE d == Append(c, t)
<1>1. /\ d \in Seq(Tasks) /\ Len(d) = Len(c) + 1 /\ Len(c) \in Nat
      /\ (\A i \in 1 .. Len(c) : d[i] = c[i]) /\ d[Len(c) + 1] = t
  BY Queued
<1> HIDE DEF d
<1>2. \A i \in 1 .. Len(d) : Described(d[i]) => Carries(TaskItems(d), d[i].op, d[i].n)
  <2> SUFFICES ASSUME NEW i \in 1 .. Len(d), Described(d[i]) PROVE Carries(TaskItems(d), d[i].op, d[i].n)
    OBVIOUS
  <2> DEFINE y == Item(d[i].op, d[i].n, i - Len(d))
  <2>1. y \in TaskItems(d)
    BY <1>1, TasksListed
  <2>2. y.kind = d[i].op /\ y.n = d[i].n
    BY ItemParts
  <2> QED
    BY <2>1, <2>2 DEF Carries
<1>3. \A x \in TaskItems(c) : Carries(TaskItems(d), x.kind, x.n)
  <2> SUFFICES ASSUME NEW x \in TaskItems(c) PROVE Carries(TaskItems(d), x.kind, x.n)
    OBVIOUS
  <2>1. PICK i \in 1 .. Len(c) : Described(c[i]) /\ x = Item(c[i].op, c[i].n, i - Len(c))
    BY TasksListed
  <2>2. x.kind = c[i].op /\ x.n = c[i].n
    BY <2>1, ItemParts
  <2>3. i \in 1 .. Len(d) /\ d[i] = c[i]
    BY <1>1
  <2> QED
    BY <1>2, <2>1, <2>2, <2>3
<1>4. Described(t) => Carries(TaskItems(d), t.op, t.n)
  <2>1. Len(d) \in 1 .. Len(d) /\ d[Len(d)] = t
    BY <1>1
  <2> QED
    BY <1>2, <2>1
<1> QED
  BY <1>3, <1>4 DEF d

LEMMA ThinsNames ==
  ASSUME NEW A, NEW A2, Thins(A2, A)
  PROVE  \A x \in A2 : Carries(A, x.kind, x.n)
<1>1. PICK g \in [A2 -> A] : \A x \in A2 : g[x].kind = x.kind /\ g[x].n = x.n
  BY DEF Thins
<1> QED
  BY <1>1 DEF Carries

LEMMA CarriesMore ==
  ASSUME NEW A, NEW B, NEW k, NEW n, Carries(A, k, n), A \subseteq B
  PROVE  Carries(B, k, n)
  BY DEF Carries

LEMMA MentionsExactly ==
  ASSUME LinkInv, PageInv, Path, NEW s \in Sides, Mentions(s)
  PROVE  LibraryMove
<1>1. PICK n, type : type \in {"ice_candidate", "call_resync", "call_hangup"} /\ Drawn(s, Signal(s, type, n))
  BY DEF Mentions
<1>2. type \notin Descriptions
  BY <1>1 DEF Descriptions
<1>3. Other(s) \in Sides /\ rtc'[Other(s)] = rtc[Other(s)] /\ chain' = chain /\ UNCHANGED ledger /\ CallsStay
      /\ Sides = {s, Other(s)}
  BY TwoSides DEF Mentions
<1>4. wire'[s] = wire[s] /\ Same(Other(s))
  BY <1>1, <1>2, <1>3, DrawnItems
<1>5. Alike(rtc'[s], rtc[s])
  BY DEF Mentions, Alike
<1>6. Items(s)' = Items(s)
  BY <1>3, <1>4, ItemsStay
<1>7. Exact(s)
  BY <1>5, <1>6, SelfNames DEF Exact
<1> QED
  BY <1>3, <1>4, <1>7, SameExact DEF LibraryMove

LEMMA AsksExactly ==
  ASSUME LinkInv, PageInv, Path, NEW s \in Sides, Asks(s)
  PROVE  LibraryMove
<1> DEFINE t == OfferTask(made + 1)
           W == WireItems(wire[s], ledger[s])
<1>1. /\ Rests(s) /\ Same(Other(s))
      /\ chain' = [chain EXCEPT ![s] = Append(chain[s], t)]
  BY AsksDeals
<1>2. CallsStay /\ Alive(s) /\ UNCHANGED <<rtc, wire, ledger>>
  BY DEF Asks
<1>3. t \in Tasks
  BY DEF OfferTask, Tasks, LinkInv
<1> HIDE DEF t
<1>4. chain'[s] = Append(chain[s], t) /\ chain[s] \in Seq(Tasks)
  BY <1>1 DEF LinkInv
<1>5. mode' = "library" \/ page'[s].call
  BY <1>2 DEF CallsStay, CallsKept, Alive
<1>6. Items(s)' = TaskItems(chain'[s]) \cup W
  BY <1>2, <1>5, ItemsAfter
<1>7. Items(s) = TaskItems(chain[s]) \cup W
  BY <1>2 DEF Items
<1> HIDE DEF W
<1>8. ASSUME NEW x \in Items(s) PROVE Carries(Items(s)', x.kind, x.n)
  <2>1. CASE x \in TaskItems(chain[s])
    <3>1. Carries(TaskItems(chain'[s]), x.kind, x.n)
      BY <1>3, <1>4, <2>1, QueuedBack
    <3> QED
      BY <1>6, <3>1, CarriesMore
  <2>2. CASE x \in W
    BY <1>6, <2>2 DEF Carries
  <2> QED
    BY <1>7, <1>8, <2>1, <2>2
<1>9. \A x \in Items(s)' : Carries(Items(s), x.kind, x.n)
  BY <1>1, ThinsNames DEF Rests
<1>10. Exact(s)
  BY <1>1, <1>8, <1>9 DEF Exact, SameNames, Rests
<1> QED
  BY <1>1, <1>10, SameExact, TwoSides DEF LibraryMove

\* A signal that is heard is all that leaves the wire, and what comes after it is
\* still heard.
LEMMA HearsExactly ==
  ASSUME LinkInv, PageInv, Path, Fits, mode = "library", NEW s \in Sides, NEW e \in wire[s], Hears(s),
         wire' = [wire EXCEPT ![s] = @ \ {e}], InOrderHere(s, e),
         ledger' = [ledger EXCEPT ![s] = AfterSignal(ledger[s], e, 0)],
         \/ ~Admitted(ledger[s], e) /\ UNCHANGED chain
         \/ Admitted(ledger[s], e) /\ Serialize(s, TaskFor(e))
  PROVE  LibraryMove
<1> DEFINE t == Other(s)
           m == sent[t]
           l == ledger[s]
           l2 == AfterSignal(l, e, 0)
           W == WireItems(wire[s], l)
           W2 == WireItems(wire'[s], l2)
           k == TaskFor(e)
<1>1. t \in Sides /\ Sides = {s, t} /\ m <= LedgerCapacity
  BY TwoSides DEF Fits
<1>2. CallsStay /\ Alive(s) /\ UNCHANGED rtc
  BY DEF Hears
<1>3. Rests(s) /\ Same(t)
  BY HearsDeals
<1>4. GoodSignal(e) /\ e.type \in Named /\ ~Terminal(e.type)
  BY DEF LinkInv, WireOK, GoodSignal, Named, Terminal
<1>5. m \in Nat /\ LedgerOf(l, s, t, m) /\ e.id \in 1 .. m /\ Wellsent(e, s, t, m)
  BY <1>2, <1>4, OnTheWay
<1>6. ledger'[s] = l2 /\ wire'[s] = wire[s] \ {e}
  BY DEF LinkInv
<1>7. mode' = "library" \/ page'[s].call
  BY <1>2 DEF CallsStay, CallsKept, Alive
<1>8. Items(s)' = TaskItems(chain'[s]) \cup W2
  BY <1>6, <1>7, ItemsAfter
<1>9. Items(s) = TaskItems(chain[s]) \cup W
  BY <1>2 DEF Items
<1>10. chain[s] \in Seq(Tasks) /\ (chain'[s] = chain[s] \/ (Admitted(l, e) /\ chain'[s] = Append(chain[s], k)))
  BY DEF LinkInv, Serialize
<1>11. k \in Tasks /\ (e.type \in Descriptions => Described(k) /\ k.op = e.type /\ k.n = e.content)
  <2>1. e.content \in Nat
    BY <1>4 DEF GoodSignal, Made
  <2> QED
    BY <1>4, <2>1 DEF TaskFor, CandidateTask, DescriptionTask, Tasks, Described, Descriptions, Named
<1> HIDE DEF k
<1>12. Fresh(l, e) => Admitted(l, e)
  BY <1>1, <1>5, Admits DEF Fresh
<1>13. \/ l2 = l
       \/ /\ SeenIds(l2) = SeenIds(l) \cup {e.id}
          /\ LastId(l2) = IF e.type = "ice_candidate" THEN LastId(l) ELSE e.id
  <2>1. ~Admitted(l, e) => l2 = l
    BY <1>1, <1>5, RefusedKeeps
  <2>2. Admitted(l, e) => /\ SeenIds(l2) = SeenIds(l) \cup {e.id}
                          /\ LastId(l2) = IF e.type = "ice_candidate" THEN LastId(l) ELSE e.id
    BY <1>1, <1>5, AdmittedLedger
  <2> QED
    BY <2>1, <2>2
<1>14. \A f \in wire[s] : f # e => f.id # e.id /\ e.id <= f.id
  BY DEF Path, Carried, InOrderHere
<1> HIDE DEF l2, l
<1>15. \A f \in wire[s] : f # e /\ Fresh(l, f) => Fresh(l2, f)
  BY <1>13, <1>14 DEF Fresh
<1>16. \A x \in TaskItems(chain[s]) : Carries(TaskItems(chain'[s]), x.kind, x.n)
  <2>1. CASE chain'[s] = chain[s]
    BY <2>1 DEF Carries
  <2>2. CASE chain'[s] = Append(chain[s], k)
    BY <1>10, <1>11, <2>2, QueuedBack
  <2> QED
    BY <1>10, <2>1, <2>2
<1>17. \A x \in W : Carries(TaskItems(chain'[s]), x.kind, x.n) \/ x \in W2
  <2> SUFFICES ASSUME NEW x \in W PROVE Carries(TaskItems(chain'[s]), x.kind, x.n) \/ x \in W2
    OBVIOUS
  <2>1. PICK f \in wire[s] : Fresh(l, f) /\ x = Item(f.type, f.content, f.id)
    BY DEF WireItems
  <2>2. x.kind = f.type /\ x.n = f.content
    BY <2>1, ItemParts
  <2>3. CASE f = e
    <3>1. Admitted(l, e) /\ e.type \in Descriptions
      BY <1>12, <2>1, <2>3 DEF Fresh, Descriptions
    <3>2. chain'[s] = Append(chain[s], k)
      BY <3>1 DEF Serialize, LinkInv, k, l
    <3>3. Carries(TaskItems(chain'[s]), e.type, e.content)
      BY <1>10, <1>11, <3>1, <3>2, QueuedBack
    <3> QED
      BY <2>2, <2>3, <3>3
  <2>4. CASE f # e
    <3>1. f \in wire'[s] /\ Fresh(l2, f)
      BY <1>6, <1>15, <2>1, <2>4
    <3> QED
      BY <2>1, <3>1 DEF WireItems
  <2> QED
    BY <2>3, <2>4
<1> HIDE DEF W, W2
<1>18. \A x \in Items(s) : Carries(Items(s)', x.kind, x.n)
  <2> SUFFICES ASSUME NEW x \in Items(s) PROVE Carries(Items(s)', x.kind, x.n)
    OBVIOUS
  <2>1. Carries(TaskItems(chain'[s]), x.kind, x.n) \/ x \in W2
    BY <1>9, <1>16, <1>17
  <2> QED
    BY <1>8, <2>1 DEF Carries
<1>19. \A x \in Items(s)' : Carries(Items(s), x.kind, x.n)
  BY <1>3, ThinsNames DEF Rests
<1>20. Exact(s)
  BY <1>3, <1>18, <1>19 DEF Exact, SameNames, Rests
<1> QED
  BY <1>1, <1>3, <1>20, SameExact DEF LibraryMove

LEMMA FaultsGrow ==
  ASSUME LinkInv, mode = "library", Library!Next
  PROVE  faults' = faults \/ faults' = faults + 1
<1>1. PICK s \in Sides :
         \/ Library!TaskStep(s) \/ Library!EmitCandidate(s)
         \/ Library!Offer(s) \/ Library!LoseSignal(s)
         \/ \E e \in wire[s] : Library!Receive(s, e)
  BY DEF Library!Next
<1>2. CASE Library!TaskStep(s)
  <2>1. PICK i \in DOMAIN chain[s] :
          \/ CreateOffer(s, i) \/ AbandonOffer(s, i) \/ SendOffer(s, i)
          \/ IgnoreOffer(s, i) \/ ApplyOffer(s, i) \/ Answer(s, i)
          \/ IgnoreAnswer(s, i) \/ BeginAnswer(s, i) \/ ApplyAnswer(s, i)
          \/ HoldCandidate(s, i) \/ AddCandidate(s, i)
    BY <1>2, LibraryTasks DEF Library!TaskStep
  <2> QED
    BY <2>1, TaskGood
<1>3. CASE \E e \in wire[s] : Library!Receive(s, e)
  BY <1>3, LibraryHears DEF TakeOff
<1>4. CASE Library!EmitCandidate(s) \/ Library!Offer(s) \/ Library!LoseSignal(s)
  BY <1>4 DEF Library!EmitCandidate, Library!Offer, Library!LoseSignal, Library!pathVars
<1> QED
  BY <1>1, <1>2, <1>3, <1>4

LEMMA LibraryExactly ==
  ASSUME LinkInv, PageInv, Path, Fits, PactHere, Heard, mode = "library", UNCHANGED <<mode, page>>,
         Library!Next, faults = 0, faults' = 0
  PROVE  LibraryMove
<1>0. CallsStay /\ \A s \in Sides : Alive(s)
  BY DEF CallsStay, CallsKept, Alive
<1>1. PICK s \in Sides :
         \/ Library!TaskStep(s) \/ Library!EmitCandidate(s)
         \/ Library!Offer(s) \/ Library!LoseSignal(s)
         \/ \E e \in wire[s] : Library!Receive(s, e)
  BY DEF Library!Next
<1>2. CASE Library!TaskStep(s)
  <2>1. PICK i \in DOMAIN chain[s] :
          \/ CreateOffer(s, i) \/ AbandonOffer(s, i) \/ SendOffer(s, i)
          \/ IgnoreOffer(s, i) \/ ApplyOffer(s, i) \/ Answer(s, i)
          \/ IgnoreAnswer(s, i) \/ BeginAnswer(s, i) \/ ApplyAnswer(s, i)
          \/ HoldCandidate(s, i) \/ AddCandidate(s, i)
    BY <1>2, LibraryTasks DEF Library!TaskStep
  <2>2. CASE SendOffer(s, i) \/ Answer(s, i)
    <3>1. UNCHANGED <<ledger, open>>
      BY <2>2 DEF SendOffer, Answer
    <3>2. Speaks(s)
      BY <1>0, <2>2, <3>1 DEF Speaks
    <3> QED
      BY <3>2, SpeaksExactly
  <2>3. CASE \/ CreateOffer(s, i) \/ AbandonOffer(s, i) \/ IgnoreOffer(s, i) \/ ApplyOffer(s, i)
             \/ IgnoreAnswer(s, i) \/ BeginAnswer(s, i) \/ ApplyAnswer(s, i)
             \/ HoldCandidate(s, i) \/ AddCandidate(s, i)
    <3>1. UNCHANGED pathVars
      BY <2>3 DEF CreateOffer, AbandonOffer, IgnoreOffer, ApplyOffer, IgnoreAnswer, BeginAnswer,
                  ApplyAnswer, HoldCandidate, AddCandidate
    <3>2. UNCHANGED <<wire, ledger>>
      BY <3>1 DEF pathVars
    <3> QED
      BY <1>0, <2>3, <3>2, WorksExactly
  <2> QED
    BY <2>1, <2>2, <2>3
<1>3. CASE Library!EmitCandidate(s)
  <2> DEFINE n == IF rtc[s].offered # None THEN rtc[s].offered ELSE rtc[s].agreed
  <2>1. /\ Update(s, [rtc[s] EXCEPT !.gathered = @ + 1])
        /\ Send(s, "ice_candidate", n)
        /\ UNCHANGED <<chain, ledger>>
    BY <1>3, LibraryNames, LibrarySend DEF Library!EmitCandidate, Library!Update, Update
  <2> HIDE DEF n
  <2>2. Drawn(s, Signal(s, "ice_candidate", n))
    BY <2>1 DEF Send, Drawn
  <2>3. \A x \in Sides : /\ rtc'[x].signaling = rtc[x].signaling /\ rtc'[x].agreed = rtc[x].agreed
                         /\ rtc'[x].offered = rtc[x].offered /\ rtc'[x].heard = rtc[x].heard
                         /\ x # s => rtc'[x] = rtc[x]
    <3> SUFFICES ASSUME NEW x \in Sides
                 PROVE  /\ rtc'[x].signaling = rtc[x].signaling /\ rtc'[x].agreed = rtc[x].agreed
                        /\ rtc'[x].offered = rtc[x].offered /\ rtc'[x].heard = rtc[x].heard
                        /\ x # s => rtc'[x] = rtc[x]
      OBVIOUS
    <3>1. rtc'[x] = IF x = s THEN [rtc[s] EXCEPT !.gathered = @ + 1] ELSE rtc[x]
      BY <2>1 DEF Update, LinkInv
    <3>2. rtc[s] \in Connection
      BY DEF LinkInv
    <3> QED
      BY <3>1, <3>2 DEF Connection
  <2>4. Mentions(s)
    BY <1>0, <2>1, <2>2, <2>3 DEF Mentions
  <2> QED
    BY <2>4, MentionsExactly
<1>4. CASE Library!Offer(s)
  <2>1. made < 3 /\ made' = made + 1 /\ Serialize(s, OfferTask(made + 1))
    BY <1>4, LibraryNames DEF Library!Offer, Library!CallOffer, Library!Serialize, Serialize
  <2>2. made < MaxOffers
    BY <2>1, LibraryBounds, LinkAssumption DEF LinkInv
  <2>3. CallOffer(s)
    BY <2>1, <2>2 DEF CallOffer
  <2>4. UNCHANGED <<rtc, wire, sequence, sent, ledger>>
    BY <1>4 DEF Library!Offer, Library!pathVars
  <2>5. Asks(s)
    BY <1>0, <2>3, <2>4 DEF Asks
  <2> QED
    BY <2>5, AsksExactly
<1>5. CASE Library!LoseSignal(s)
  BY <1>5 DEF Library!LoseSignal
<1>6. CASE \E e \in wire[s] : Library!Receive(s, e)
  <2>1. PICK e \in wire[s] : Library!Receive(s, e)
    BY <1>6
  <2>2. GoodSignal(e) /\ e.type \in Named
    BY DEF LinkInv, WireOK, GoodSignal
  <2>3. ~Terminal(e.type) /\ e \in Arriving(s) /\ InOrderHere(s, e)
    <3>1. InOrderHere(s, e)
      BY <2>1, LibraryHears
    <3> QED
      BY <2>2, <3>1 DEF Named, Terminal, Arriving, InOrderHere
  <2>4. Hears(s)
    BY <1>0, <2>1, <2>2, <2>3, LibraryHears DEF Hears
  <2>5. wire' = [wire EXCEPT ![s] = @ \ {e}]
    BY <2>1, LibraryHears DEF TakeOff
  <2>6. /\ ledger' = [ledger EXCEPT ![s] = AfterSignal(ledger[s], e, 0)]
        /\ \/ ~Admitted(ledger[s], e) /\ UNCHANGED chain
           \/ Admitted(ledger[s], e) /\ Serialize(s, TaskFor(e))
    BY <2>1, LibraryHears
  <2> QED
    BY <2>3, <2>4, <2>5, <2>6, HearsExactly
<1> QED
  BY <1>1, <1>2, <1>3, <1>4, <1>5, <1>6

-----------------------------------------------------------------------------
(* Nothing is forgotten                                                    *)

KeptHere == Kept(rtc[Polite], rtc[Rude], Items(Polite), Items(Rude))
KeptThere == Kept(rtc'[Polite], rtc'[Rude], Items(Polite)', Items(Rude)')

LEMMA KeptMoves ==
  ASSUME LinkInv, PageInv, Path, mode = "library", PactHere, KeptHere, LibraryMove
  PROVE  KeptThere
<1> DEFINE p == rtc[Polite]
           q == rtc[Rude]
           p2 == rtc'[Polite]
           q2 == rtc'[Rude]
           A == Items(Polite)
           B == Items(Rude)
           A2 == Items(Polite)'
           B2 == Items(Rude)'
<1>1. Polite \in Sides /\ Rude \in Sides /\ Sides = {Polite, Rude} /\ Other(Polite) = Rude /\ Other(Rude) = Polite
      /\ Rude # Polite
  BY TwoSides
<1>2. Kept(p, q, A, B) /\ Pact(p, q, A, B, TRUE, TRUE)
  <2>1. (TRUE <=> Alive(Polite)) /\ (TRUE <=> Alive(Rude))
    BY DEF Alive
  <2>2. Pact(p, q, A, B, Alive(Polite), Alive(Rude))
    BY DEF PactHere
  <2> HIDE DEF p, q, A, B
  <2>3. Pact(p, q, A, B, TRUE, TRUE)
    BY <2>1, <2>2, PactAlive
  <2> QED
    BY <2>3 DEF KeptHere, p, q, A, B
<1>3. Link(p, A, TRUE) /\ Link(q, B, TRUE)
  <2>1. Link(p, A, Alive(Polite)) /\ Link(q, B, Alive(Rude))
    BY <1>1, Linked
  <2> QED
    BY <2>1 DEF Link, Alive
<1> SUFFICES Kept(p2, q2, A2, B2)
  BY DEF KeptThere
<1>4. CASE \A x \in Sides : Exact(x)
  <2>1. Alike(p2, p) /\ SameNames(A2, A) /\ Alike(q2, q) /\ SameNames(B2, B)
    BY <1>1, <1>4 DEF Exact
  <2> HIDE DEF p, q, A, B, p2, q2, A2, B2
  <2> QED
    BY <1>2, <2>1, KeptSame
<1>5. ASSUME NEW s \in Sides, Ignores(s), Same(Other(s)) PROVE Kept(p2, q2, A2, B2)
  <2>1. s = Rude /\ q.offered # None /\ q2 = q /\ p2 = p /\ A2 = A
    BY <1>1, <1>5 DEF Ignores, Same
  <2>2. PICK x \in OffersIn(B) : (\A y \in B : ~(y.pos < x.pos)) /\ B2 = B \ {x}
    BY <1>5, <2>1 DEF Ignores
  <2> HIDE DEF p, q, A, B, p2, q2, A2, B2
  <2> QED
    BY <1>2, <1>3, <2>1, <2>2, KeptIgnores
<1>6. ASSUME NEW s \in Sides, TakesOffer(s), rtc'[s].agreed = rtc[s].agreed PROVE Kept(p2, q2, A2, B2)
  <2>1. CASE s = Polite
    <3>1. PICK x \in OffersIn(A) : (\A y \in A : ~(y.pos < x.pos)) /\ p2.heard = x.n /\ A2 = A \ {x}
      BY <1>6, <2>1 DEF TakesOffer
    <3>2. /\ p2.signaling = "have-remote-offer" /\ p2.offered = None /\ p2.agreed = p.agreed
          /\ q2 = q /\ B2 = B
      BY <1>1, <1>6, <2>1 DEF TakesOffer, Same
    <3> HIDE DEF p, q, A, B, p2, q2, A2, B2
    <3> QED
      BY <1>2, <3>1, <3>2, KeptPoliteTakes
  <2>2. CASE s = Rude
    <3>1. PICK x \in OffersIn(B) : (\A y \in B : ~(y.pos < x.pos)) /\ q2.heard = x.n /\ B2 = B \ {x}
      BY <1>6, <2>2 DEF TakesOffer
    <3>2. /\ q2.signaling = "have-remote-offer" /\ q2.offered = None /\ q2.agreed = q.agreed
          /\ p2 = p /\ A2 = A /\ q.signaling = "stable"
      BY <1>1, <1>6, <2>2 DEF TakesOffer, Same
    <3>3. q.offered = None
      BY <1>3, <3>2 DEF Link
    <3> HIDE DEF p, q, A, B, p2, q2, A2, B2
    <3> QED
      BY <1>2, <3>1, <3>2, <3>3, KeptRudeTakes
  <2> QED
    BY <1>1, <2>1, <2>2
<1>7. ASSUME NEW s \in Sides, TakesAnswer(s) PROVE Kept(p2, q2, A2, B2)
  <2>1. CASE s = Polite
    <3>1. PICK x \in AnswersIn(A) : A2 = A \ {x}
      BY <1>7, <2>1 DEF TakesAnswer
    <3>2. p2.signaling = "stable" /\ p2.offered = None /\ p2.agreed = p.offered /\ q2 = q /\ B2 = B
      BY <1>1, <1>7, <2>1 DEF TakesAnswer, Same
    <3> HIDE DEF p, q, A, B, p2, q2, A2, B2
    <3> QED
      BY <1>2, <1>3, <3>1, <3>2, KeptPoliteApplies
  <2>2. CASE s = Rude
    <3>1. PICK x \in AnswersIn(B) : B2 = B \ {x}
      BY <1>7, <2>2 DEF TakesAnswer
    <3>2. q2.signaling = "stable" /\ q2.offered = None /\ q2.agreed = q.offered /\ p2 = p /\ A2 = A
      BY <1>1, <1>7, <2>2 DEF TakesAnswer, Same
    <3> HIDE DEF p, q, A, B, p2, q2, A2, B2
    <3> QED
      BY <1>2, <1>3, <3>1, <3>2, KeptRudeApplies
  <2> QED
    BY <1>1, <2>1, <2>2
<1>8. ASSUME NEW s \in Sides, NEW n, MakesOffer(s, n), Arrives(Other(s), "call_offer", n)
      PROVE  Kept(p2, q2, A2, B2)
  <2>1. CASE s = Polite
    <3>1. PICK k : B2 = B \cup {Item("call_offer", n, k)}
      BY <1>1, <1>8, <2>1 DEF Arrives
    <3>2. /\ p.signaling = "stable" /\ p2.signaling = "have-local-offer" /\ p2.offered = n /\ p2.agreed = p.agreed
          /\ A2 = A /\ q2 = q
      BY <1>1, <1>8, <2>1 DEF MakesOffer, Gains
    <3>3. Item("call_offer", n, k).kind = "call_offer" /\ Item("call_offer", n, k).n = n
      BY ItemParts
    <3> HIDE DEF p, q, A, B, p2, q2, A2, B2
    <3> QED
      BY <1>2, <3>1, <3>2, <3>3, KeptPoliteOffers
  <2>2. CASE s = Rude
    <3>1. PICK k : A2 = A \cup {Item("call_offer", n, k)}
      BY <1>1, <1>8, <2>2 DEF Arrives
    <3>2. /\ q.signaling = "stable" /\ q2.signaling = "have-local-offer" /\ q2.offered = n /\ q2.agreed = q.agreed
          /\ B2 = B /\ p2 = p
      BY <1>1, <1>8, <2>2 DEF MakesOffer, Gains
    <3>3. Item("call_offer", n, k).kind = "call_offer" /\ Item("call_offer", n, k).n = n
      BY ItemParts
    <3> HIDE DEF p, q, A, B, p2, q2, A2, B2
    <3> QED
      BY <1>2, <3>1, <3>2, <3>3, KeptRudeOffers
  <2> QED
    BY <1>1, <2>1, <2>2
<1>9. ASSUME NEW s \in Sides, Replies(s), Arrives(Other(s), "call_answer", rtc[s].heard)
      PROVE  Kept(p2, q2, A2, B2)
  <2>1. CASE s = Polite
    <3>1. PICK k : B2 = B \cup {Item("call_answer", p.heard, k)}
      BY <1>1, <1>9, <2>1 DEF Arrives
    <3>2. /\ p.signaling = "have-remote-offer" /\ p2.signaling = "stable" /\ p2.offered = None /\ p2.agreed = p.heard
          /\ A2 = A /\ q2 = q
      BY <1>1, <1>9, <2>1 DEF Replies, Gains
    <3> HIDE DEF p, q, A, B, p2, q2, A2, B2
    <3>3. Item("call_answer", p.heard, k).kind = "call_answer" /\ Item("call_answer", p.heard, k).n = p.heard
      BY ItemParts
    <3> QED
      BY <1>2, <1>3, <3>1, <3>2, <3>3, KeptPoliteReplies
  <2>2. CASE s = Rude
    <3>1. PICK k : A2 = A \cup {Item("call_answer", q.heard, k)}
      BY <1>1, <1>9, <2>2 DEF Arrives
    <3>2. /\ q.signaling = "have-remote-offer" /\ q2.signaling = "stable" /\ q2.offered = None /\ q2.agreed = q.heard
          /\ B2 = B /\ p2 = p
      BY <1>1, <1>9, <2>2 DEF Replies, Gains
    <3> HIDE DEF p, q, A, B, p2, q2, A2, B2
    <3>3. Item("call_answer", q.heard, k).kind = "call_answer" /\ Item("call_answer", q.heard, k).n = q.heard
      BY ItemParts
    <3> QED
      BY <1>2, <1>3, <3>1, <3>2, <3>3, KeptRudeReplies
  <2> QED
    BY <1>1, <2>1, <2>2
<1> QED
  BY <1>4, <1>5, <1>6, <1>7, <1>8, <1>9 DEF LibraryMove

LibraryInv == mode = "library" /\ faults = 0 /\ Fits => KeptHere
AgreeInv == Dealt /\ Heard /\ LibraryInv

LEMMA LibraryStart ==
  ASSUME CallsInit
  PROVE  LibraryInv
<1>1. Library!Init => Init
  BY LibraryNames DEF Library!Init, Init
<1>2. Init
  BY <1>1 DEF CallsInit, StartCall
<1>3. \A s \in Sides : Items(s) = {} /\ rtc[s] = NewConnection
  BY <1>2, NothingThere DEF Init
<1>4. rtc[Polite].offered = None /\ rtc[Rude].offered = None /\ rtc[Polite].agreed = rtc[Rude].agreed
      /\ Items(Polite) = {} /\ Items(Rude) = {}
  BY <1>3, TwoSides DEF NewConnection
<1> QED
  BY <1>4 DEF LibraryInv, KeptHere, Kept

LEMMA LibraryStays ==
  ASSUME Dealt, Dealt', Heard, LibraryInv, Moves, [CallsNext]_callsVars
  PROVE  LibraryInv'
<1> SUFFICES ASSUME mode' = "library", faults' = 0, Fits' PROVE KeptThere
  BY DEF LibraryInv, KeptHere, KeptThere, Kept, Carries, Brings, None, Rude, Other
<1>1. LinkInv /\ LinkInv' /\ PageInv /\ GlareInv
  BY DEF Dealt
<1>2. mode = "library" /\ ((Library!Next /\ UNCHANGED <<mode, page>>) \/ UNCHANGED callsVars)
  BY DEF CallsNext, callsVars, pageVars
<1>3. faults = 0
  <2>1. CASE Library!Next
    <3>1. faults' = faults \/ faults' = faults + 1
      BY <1>1, <1>2, <2>1, FaultsGrow
    <3>2. faults \in Nat
      BY <1>1, LinkAssumption DEF LinkInv
    <3> QED
      BY <3>1, <3>2
  <2>2. CASE UNCHANGED callsVars
    BY <2>2 DEF callsVars, pageVars, vars
  <2> QED
    BY <1>2, <2>1, <2>2
<1>4. Fits
  BY <1>1, FitsBefore
<1>5. Path /\ PactHere
  BY <1>1, <1>4 DEF GlareInv, PactHere
<1>6. KeptHere
  BY <1>2, <1>3, <1>4 DEF LibraryInv
<1>7. LibraryMove
  <2>1. CASE Library!Next /\ UNCHANGED <<mode, page>>
    BY <1>1, <1>2, <1>3, <1>4, <1>5, <2>1, LibraryExactly
  <2>2. CASE UNCHANGED callsVars
    <3>1. UNCHANGED <<rtc, chain, wire, ledger, mode>> /\ UNCHANGED page
      BY <2>2 DEF callsVars, pageVars, vars
    <3>2. CallsStay
      BY <3>1 DEF CallsStay, CallsKept
    <3>3. \A x \in Sides : Same(x)
      BY <3>1, <3>2, SameSide
    <3> QED
      BY <3>3, SameExact DEF LibraryMove
  <2> QED
    BY <1>2, <2>1, <2>2
<1> QED
  BY <1>1, <1>2, <1>5, <1>6, <1>7, KeptMoves

\* When all is quiet, nothing is on its way and nobody waits.
LEMMA QuietAgrees ==
  ASSUME AgreeInv, mode = "library", Fits
  PROVE  QuietMeansAgreed
<1> SUFFICES ASSUME Quiet, faults = 0
             PROVE  \A s \in Sides : rtc[s].signaling = "stable" /\ rtc[s].agreed = rtc[Other(s)].agreed
  BY DEF QuietMeansAgreed
<1>1. LinkInv /\ KeptHere
  BY DEF AgreeInv, Dealt, LibraryInv
<1>2. \A s \in Sides : chain[s] = <<>> /\ wire[s] = {}
  BY DEF Quiet
<1>3. \A s \in Sides : Items(s) = {}
  BY <1>2, NothingThere
<1>4. \A s \in Sides : /\ rtc[s].signaling \in {"stable", "have-local-offer", "have-remote-offer"}
                       /\ rtc[s].signaling # "have-remote-offer"
                       /\ rtc[s].offered # None <=> rtc[s].signaling = "have-local-offer"
  <2> SUFFICES ASSUME NEW s \in Sides
               PROVE  /\ rtc[s].signaling \in {"stable", "have-local-offer", "have-remote-offer"}
                      /\ rtc[s].signaling # "have-remote-offer"
                      /\ rtc[s].offered # None <=> rtc[s].signaling = "have-local-offer"
    OBVIOUS
  <2>1. LinkShape(rtc[s], chain[s], nego[s], pending[s]) /\ rtc[s] \in Connection
    BY <1>1 DEF LinkInv
  <2>2. ~Head1(chain[s], "call_offer", "answering")
    BY <1>2 DEF Head1
  <2> QED
    BY <2>1, <2>2 DEF LinkShape, Connection, Signaling
<1>5. Polite \in Sides /\ Rude \in Sides /\ Sides = {Polite, Rude} /\ Other(Polite) = Rude /\ Other(Rude) = Polite
  BY TwoSides
<1>6. rtc[Polite].offered = None /\ rtc[Rude].offered = None /\ rtc[Polite].agreed = rtc[Rude].agreed
  BY <1>1, <1>3, <1>4, <1>5 DEF KeptHere, Kept, Carries, Brings
<1> QED
  BY <1>4, <1>5, <1>6

\* Offers cross, overtake answers and are rolled back: no operation reaches a
\* connection in a state that refuses it, an answer completes its own offer, early
\* candidates are used, and two browsers of the library that have nothing left to
\* do, and lost nothing, are stable on one offer. As long as no ledger forgets.
THEOREM NegotiationAgrees == CallsSpec => [](Fits => NegotiationsAgree)
<1>1. CallsInit => AgreeInv
  BY DealtStart, HeardStart, LibraryStart DEF AgreeInv
<1>2. AgreeInv /\ [CallsNext]_callsVars => AgreeInv'
  <2> SUFFICES ASSUME AgreeInv, [CallsNext]_callsVars PROVE AgreeInv'
    OBVIOUS
  <2>1. Dealt'
    BY DealtStays DEF AgreeInv
  <2>2. LinkInv /\ LinkInv' /\ PageInv
    BY <2>1 DEF AgreeInv, Dealt
  <2>3. Moves
    BY <2>2, PagesStay
  <2>4. Heard'
    BY <2>2, HeardStays DEF AgreeInv
  <2>5. LibraryInv'
    BY <2>1, <2>3, LibraryStays DEF AgreeInv
  <2> QED
    BY <2>1, <2>4, <2>5 DEF AgreeInv
<1>3. AgreeInv => (Fits => NegotiationsAgree)
  <2> SUFFICES ASSUME AgreeInv, Fits PROVE NegotiationsAgree
    OBVIOUS
  <2>1. LinkInv /\ GlareInv
    BY DEF AgreeInv, Dealt
  <2>2. NothingIsRefused /\ HeldCandidatesAreUsed
    BY <2>1, LinksProve
  <2>3. AnswersMeetTheirOffer
    <3>1. Agrees(rtc[Polite]) /\ Agrees(rtc[Rude])
      BY <2>1 DEF GlareInv, Pact
    <3>2. Sides = {Polite, Rude}
      BY TwoSides
    <3> QED
      BY <3>1, <3>2 DEF Agrees, AnswersMeetTheirOffer
  <2> QED
    BY <2>2, <2>3, QuietAgrees DEF NegotiationsAgree
<1> QED
  BY <1>1, <1>2, <1>3, PTL DEF CallsSpec

=============================================================================
