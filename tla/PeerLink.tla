------------------------------ MODULE PeerLink ------------------------------
(***************************************************************************)
(* createPeerLink (call-negotiation.js): how two browsers negotiate one     *)
(* RTCPeerConnection each over signals that may be lost, doubled, or        *)
(* overtake each other. Every operation on the connection is a task of one  *)
(* chain of promises; a task is several steps, one between two awaits.      *)
(* A description is named by the offer it makes or answers. What the        *)
(* browser's RTCPeerConnection does is external: its signalling state, and  *)
(* the calls it refuses, which are collected in "refused".                  *)
(***************************************************************************)
EXTENDS SignalLedger, FiniteSets

CONSTANTS
  Sides,          \* the two browsers
  Polite,         \* the one whose canonical identity sorts first
  InOrder,        \* TRUE when signals cannot overtake each other
  PendingLimit,   \* candidates held while there is no remote description
  MaxOffers,      \* bound: calls of offer()
  MaxCandidates,  \* bound: candidates gathered by one browser
  MaxFaults       \* bound: signals ever lost or doubled

ASSUME LinkAssumption ==
  /\ IsFiniteSet(Sides) /\ Cardinality(Sides) = 2
  /\ Polite \in Sides
  /\ InOrder \in BOOLEAN
  /\ PendingLimit \in Nat \ {0}
  /\ {MaxOffers, MaxCandidates, MaxFaults} \subseteq Nat

VARIABLES
  rtc,       \* the RTCPeerConnection of each side: see NewConnection
  chain,     \* the tasks that have not settled, the running one first
  nego,      \* PeerNegotiation, and the generation counter
  pending,   \* the candidates held until a description arrives
  open,      \* whether the socket of each side is open
  sequence,  \* callSequencer: the last sequence used towards the other side
  sent,      \* how many event identifiers each side has drawn
  ledger,    \* callSignalLedger
  wire,      \* the signals on their way to each side
  made,      \* calls of offer() so far
  faults,    \* signals lost or doubled so far
  refused    \* operations a connection refused: <<side, operation>>

linkVars == <<rtc, chain, nego, pending>>
pathVars == <<open, sequence, sent, ledger, wire, faults>>
vars == <<rtc, chain, nego, pending, open, sequence, sent, ledger, wire, made, faults, refused>>

None == 0
Offers == 1..MaxOffers
Other(s) == CHOOSE t \in Sides : t # s

\* agreed: the offer of the last negotiation that completed; offered: the local
\* offer that waits for its answer; heard: the offer the remote description
\* makes or answers; paths: the candidates of that description in use;
\* gathered: how many candidates this side has emitted.
NewConnection == [signaling |-> "stable", agreed |-> None, offered |-> None, heard |-> None,
                  paths |-> {}, gathered |-> 0]
NewNegotiation == [making |-> FALSE, ignore |-> FALSE, answering |-> FALSE,
                   roleKnown |-> FALSE, generation |-> 0]

Init ==
  /\ rtc = [s \in Sides |-> NewConnection]
  /\ chain = [s \in Sides |-> <<>>]
  /\ nego = [s \in Sides |-> NewNegotiation]
  /\ pending = [s \in Sides |-> <<>>]
  /\ open = [s \in Sides |-> TRUE]
  /\ sequence = [s \in Sides |-> 0]
  /\ sent = [s \in Sides |-> 0]
  /\ ledger = [s \in Sides |-> NoLedger]
  /\ wire = [s \in Sides |-> {}]
  /\ made = 0
  /\ faults = 0
  /\ refused = {}

-----------------------------------------------------------------------------
(* The path: sendCallSignal, the servers, and the ledger of the receiver.  *)

Signal(s, type, content) ==
  [type |-> type, sender |-> s, target |-> Other(s), call |-> "call", id |-> sent[s] + 1,
   seq |-> sequence[s] + 1, expires |-> 0, content |-> content]

\* The identifier and the sequence are drawn even when the socket drops the signal.
Send(s, type, content) ==
  /\ wire' = IF open[s] THEN [wire EXCEPT ![Other(s)] = @ \cup {Signal(s, type, content)}]
             ELSE wire
  /\ sequence' = [sequence EXCEPT ![s] = @ + 1]
  /\ sent' = [sent EXCEPT ![s] = @ + 1]

\* What may arrive next.
Arriving(s) == {e \in wire[s] : InOrder => \A f \in wire[s] : e.id <= f.id}

LoseSignal(s) ==
  /\ faults < MaxFaults
  /\ faults' = faults + 1
  /\ \E e \in Arriving(s) : wire' = [wire EXCEPT ![s] = @ \ {e}]
  /\ UNCHANGED <<linkVars, open, sequence, sent, ledger, made, refused>>

\* A signal leaves the wire, or arrives a second time later (a retried hop).
TakeOff(s, e) ==
  \/ wire' = [wire EXCEPT ![s] = @ \ {e}] /\ UNCHANGED faults
  \/ faults < MaxFaults /\ faults' = faults + 1 /\ UNCHANGED wire

-----------------------------------------------------------------------------
(* The chain                                                               *)

OfferTask(n) == [op |-> "offer", stage |-> "start", n |-> n, mine |-> 0]
DescriptionTask(type, n) == [op |-> type, stage |-> "start", n |-> n]
CandidateTask(c) == [op |-> "ice_candidate", stage |-> "start", c |-> c]

Serialize(s, task) == chain' = [chain EXCEPT ![s] = Append(@, task)]

\* A task starts when every task before it has settled.
Turn(s, i) == i = 1

Runs(s, i, op, stage) ==
  /\ i \in DOMAIN chain[s]
  /\ Turn(s, i)
  /\ chain[s][i].op = op
  /\ chain[s][i].stage = stage

Stage(s, i, stage) == chain' = [chain EXCEPT ![s][i].stage = stage]
Settle(s, i) == chain' = [chain EXCEPT ![s] = RemoveAt(@, i)]

Update(s, connection) == rtc' = [rtc EXCEPT ![s] = connection]
Refuses(s, what) == refused' = refused \cup {<<s, what>>}

-----------------------------------------------------------------------------
(* offer()                                                                 *)

\* beginOffer, then createOffer is awaited.
CreateOffer(s, i) ==
  /\ Runs(s, i, "offer", "start")
  /\ nego' = [nego EXCEPT ![s].generation = @ + 1, ![s].making = TRUE]
  /\ chain' = [chain EXCEPT ![s][i] =
                 [@ EXCEPT !.stage = "created", !.mine = nego[s].generation + 1]]
  /\ UNCHANGED <<rtc, pending, pathVars, made, refused>>

\* The offer was overtaken while it was built.
AbandonOffer(s, i) ==
  /\ Runs(s, i, "offer", "created")
  /\ chain[s][i].mine # nego[s].generation \/ rtc[s].signaling # "stable"
  /\ nego' = [nego EXCEPT ![s].making = FALSE]
  /\ Settle(s, i)
  /\ UNCHANGED <<rtc, pending, pathVars, made, refused>>

SendOffer(s, i) ==
  /\ Runs(s, i, "offer", "created")
  /\ chain[s][i].mine = nego[s].generation
  /\ rtc[s].signaling = "stable"
  /\ Update(s, [rtc[s] EXCEPT !.signaling = "have-local-offer", !.offered = chain[s][i].n])
  /\ nego' = [nego EXCEPT ![s].making = FALSE]
  /\ Send(s, "call_offer", chain[s][i].n)
  /\ Settle(s, i)
  /\ UNCHANGED <<pending, open, ledger, made, faults, refused>>

-----------------------------------------------------------------------------
(* acceptDescription(): evaluateDescription decides what an offer meets.   *)

IsPolite(s) == nego[s].roleKnown /\ s = Polite
ReadyForOffer(s) ==
  /\ ~nego[s].making
  /\ rtc[s].signaling = "stable" \/ nego[s].answering

\* addIceCandidate of the browser takes a candidate of the description in force.
Usable(n, candidates) == {c \in candidates : c = n}

\* drainPendingCandidates, once the remote description is n.
AfterDrain(s) == <<>>
DrainedInto(s, n) == Usable(n, ToSet(pending[s]) \ ToSet(AfterDrain(s)))

IgnoreOffer(s, i) ==
  /\ Runs(s, i, "call_offer", "start")
  /\ ~IsPolite(s) /\ ~ReadyForOffer(s)
  /\ nego' = [nego EXCEPT ![s].ignore = TRUE]
  /\ Settle(s, i)
  /\ UNCHANGED <<rtc, pending, pathVars, made, refused>>

\* mutant: the offer of this side is not rolled back
OfferKept(s, n) == [rtc[s] EXCEPT !.signaling = "have-remote-offer", !.heard = n]
Offered(s, n) == [rtc[s] EXCEPT !.signaling = "have-remote-offer", !.offered = None,
                    !.heard = n, !.paths = DrainedInto(s, n)]

\* A polite peer rolls its own offer back first; createAnswer is then awaited.
ApplyOffer(s, i) ==
  LET n == chain[s][i].n
      rollback == IsPolite(s) /\ ~ReadyForOffer(s)
  IN
  /\ Runs(s, i, "call_offer", "start")
  /\ ReadyForOffer(s) \/ IsPolite(s)
  /\ nego' = [nego EXCEPT ![s].ignore = FALSE,
                          ![s].generation = IF rollback THEN @ + 1 ELSE @]
  /\ \/ /\ rollback <=> rtc[s].signaling = "have-local-offer"
        /\ Update(s, Offered(s, n))
        /\ pending' = [pending EXCEPT ![s] = AfterDrain(s)]
        /\ Stage(s, i, "answering")
        /\ UNCHANGED refused
     \/ /\ ~(rollback <=> rtc[s].signaling = "have-local-offer")
        /\ Refuses(s, IF rollback THEN "rollback" ELSE "setRemoteDescription")
        /\ Settle(s, i)
        /\ UNCHANGED <<rtc, pending>>
  /\ UNCHANGED <<pathVars, made>>

Answer(s, i) ==
  /\ Runs(s, i, "call_offer", "answering")
  /\ \/ /\ rtc[s].signaling = "have-remote-offer"
        /\ Update(s, [rtc[s] EXCEPT !.signaling = "stable", !.agreed = rtc[s].heard])
        /\ Send(s, "call_answer", rtc[s].heard)
        /\ Settle(s, i)
        /\ UNCHANGED refused
     \/ /\ rtc[s].signaling # "have-remote-offer"
        /\ Refuses(s, "createAnswer")
        /\ Settle(s, i)
        /\ UNCHANGED <<rtc, wire, sequence, sent>>
  /\ UNCHANGED <<nego, pending, open, ledger, made, faults>>

\* The negotiation this answer belonged to no longer exists.
IgnoreAnswer(s, i) ==
  /\ Runs(s, i, "call_answer", "start")
  /\ rtc[s].signaling # "have-local-offer"
  /\ Settle(s, i)
  /\ UNCHANGED <<rtc, nego, pending, pathVars, made, refused>>

BeginAnswer(s, i) ==
  /\ Runs(s, i, "call_answer", "start")
  /\ rtc[s].signaling = "have-local-offer"
  /\ nego' = [nego EXCEPT ![s].answering = TRUE]
  /\ Stage(s, i, "applying")
  /\ UNCHANGED <<rtc, pending, pathVars, made, refused>>

ApplyAnswer(s, i) ==
  LET n == chain[s][i].n IN
  /\ Runs(s, i, "call_answer", "applying")
  /\ nego' = [nego EXCEPT ![s].answering = FALSE]
  /\ \/ /\ rtc[s].signaling = "have-local-offer"
        /\ Update(s, [rtc[s] EXCEPT !.signaling = "stable", !.agreed = rtc[s].offered,
                        !.offered = None, !.heard = n, !.paths = DrainedInto(s, n)])
        /\ pending' = [pending EXCEPT ![s] = AfterDrain(s)]
        /\ Settle(s, i)
        /\ UNCHANGED refused
     \/ /\ rtc[s].signaling # "have-local-offer"
        /\ Refuses(s, "setRemoteDescription")
        /\ Settle(s, i)
        /\ UNCHANGED <<rtc, pending>>
  /\ UNCHANGED <<pathVars, made>>

-----------------------------------------------------------------------------
(* acceptCandidate() and emitCandidate()                                   *)

Hold(s, c) ==
  Append(IF Len(pending[s]) >= PendingLimit THEN Tail(pending[s]) ELSE pending[s], c)

HoldCandidate(s, i) ==
  /\ Runs(s, i, "ice_candidate", "start")
  /\ rtc[s].heard = None
  /\ pending' = [pending EXCEPT ![s] = Hold(s, chain[s][i].c)]
  /\ Settle(s, i)
  /\ UNCHANGED <<rtc, nego, pathVars, made, refused>>

AddCandidate(s, i) ==
  LET c == chain[s][i].c IN
  /\ Runs(s, i, "ice_candidate", "start")
  /\ rtc[s].heard # None
  /\ Update(s, [rtc[s] EXCEPT !.paths = @ \cup Usable(rtc[s].heard, {c})])
  /\ Settle(s, i)
  /\ UNCHANGED <<nego, pending, pathVars, made, refused>>

\* The connection gathers a candidate of its local description.
EmitCandidate(s) ==
  LET n == IF rtc[s].offered # None THEN rtc[s].offered ELSE rtc[s].agreed IN
  /\ n # None
  /\ rtc[s].signaling # "have-remote-offer"
  /\ rtc[s].gathered < MaxCandidates
  /\ Update(s, [rtc[s] EXCEPT !.gathered = @ + 1])
  /\ Send(s, "ice_candidate", n)
  /\ UNCHANGED <<chain, nego, pending, open, ledger, made, faults, refused>>

TaskStep(s) ==
  \E i \in DOMAIN chain[s] :
    \/ CreateOffer(s, i) \/ AbandonOffer(s, i) \/ SendOffer(s, i)
    \/ IgnoreOffer(s, i) \/ ApplyOffer(s, i) \/ Answer(s, i)
    \/ IgnoreAnswer(s, i) \/ BeginAnswer(s, i) \/ ApplyAnswer(s, i)
    \/ HoldCandidate(s, i) \/ AddCandidate(s, i)

-----------------------------------------------------------------------------
(* What the page does with a link                                          *)

CallOffer(s) ==
  /\ made < MaxOffers
  /\ made' = made + 1
  /\ Serialize(s, OfferTask(made + 1))

Offer(s) ==
  /\ CallOffer(s)
  /\ UNCHANGED <<rtc, nego, pending, pathVars, refused>>

TaskFor(e) == IF e.type = "ice_candidate" THEN CandidateTask(e.content)
              ELSE DescriptionTask(e.type, e.content)

\* learnIdentities: the sender of any admitted signal becomes known.
KeepRole(s, e) == nego[s]   \* mutant: the role is not derived again
Learn(s, e) == [nego[s] EXCEPT !.roleKnown = TRUE]

Receive(s, e) ==
  /\ e \in Arriving(s)
  /\ TakeOff(s, e)
  /\ ledger' = [ledger EXCEPT ![s] = AfterSignal(@, e, 0)]
  /\ \/ /\ Refusal(ledger[s], e, 0) = ""
        /\ nego' = [nego EXCEPT ![s] = Learn(s, e)]
        /\ Serialize(s, TaskFor(e))
     \/ /\ Refusal(ledger[s], e, 0) # ""
        /\ UNCHANGED <<nego, chain>>
  /\ UNCHANGED <<rtc, pending, open, sequence, sent, made, refused>>

Next ==
  \E s \in Sides :
    \/ TaskStep(s) \/ EmitCandidate(s)
    \/ Offer(s) \/ LoseSignal(s)
    \/ \E e \in wire[s] : Receive(s, e)

Spec == Init /\ [][Next]_vars

-----------------------------------------------------------------------------
(* Properties                                                              *)

\* The signalling state tells which descriptions are set, and a task list holds tasks.
LinkTypeOK ==
  /\ \A s \in Sides :
       /\ rtc[s].signaling \in {"stable", "have-local-offer", "have-remote-offer"}
       /\ {rtc[s].agreed, rtc[s].offered, rtc[s].heard} \subseteq Offers \cup {None}
       /\ rtc[s].offered # None <=> rtc[s].signaling = "have-local-offer"
       /\ Len(pending[s]) <= PendingLimit
       /\ \A i \in DOMAIN chain[s] :
            chain[s][i].op \in {"offer", "call_offer", "call_answer", "ice_candidate"}
  /\ made \in 0..MaxOffers
  /\ faults \in 0..MaxFaults

\* createPeerLink promises that no operation reaches the connection in a state
\* that refuses it: no rollback from "stable", no description out of turn, however
\* offers cross while they are being created.
NothingIsRefused == refused = {}

\* An answer completes the offer it was made for, never a newer one: what the
\* local and the remote description of a stable connection negotiate is the same
\* offer.
AnswersMeetTheirOffer ==
  \A s \in Sides : rtc[s].signaling = "stable" => rtc[s].agreed = rtc[s].heard

Quiet == \A s \in Sides : chain[s] = <<>> /\ wire[s] = {}

\* Once every signal has arrived and nothing was lost, both browsers are stable
\* on the same offer: glare ends in one negotiation and never in two, or none.
QuietMeansAgreed ==
  Quiet /\ faults = 0 =>
    \A s \in Sides : rtc[s].signaling = "stable" /\ rtc[s].agreed = rtc[Other(s)].agreed

\* A candidate that arrived before the first description is in use once that
\* description is applied, unless more came than the queue holds.
HeldCandidatesAreUsed ==
  \A s \in Sides : rtc[s].heard # None => pending[s] = <<>>
=============================================================================
