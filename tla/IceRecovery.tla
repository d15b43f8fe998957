---------------------------- MODULE IceRecovery ----------------------------
(***************************************************************************)
(* A private call that was accepted, as the two pages run it (app.js): the  *)
(* first offer, the recovery of a failed connection by an ICE restart, the  *)
(* loss of the WebSocket and the resynchronisation after it, and the end of *)
(* the call. Each page drives a PeerLink; what the page does once an        *)
(* operation of the link settles is in the step that settles it. What a     *)
(* handler then calls at once (link.offer, hangupCall, or the hangup that   *)
(* answers a resynchronisation) is its "todo", the next step of that page.  *)
(* The identities of both are known from the invitation and the acceptance. *)
(***************************************************************************)
EXTENDS PeerLink

CONSTANTS
  Initiator,     \* the caller: the side that offers (shouldOfferAfterAccept)
  MaxAttempts    \* CALL_ICE_RESTART_MAX_ATTEMPTS

ASSUME RecoveryAssumption == Initiator \in Sides /\ MaxAttempts \in Nat \ {0}

VARIABLE page    \* what each page holds of the call: see Talking

pageVars == <<vars, page>>

\* peer: call.peers has an entry of the other; link: ensureCallPeer has run; conn: connectionState; needs, restarting,
\* attempts and timer are the ICE restart fields of the peer; recovering: the
\* offers whose answer resumes a recovery; loss: the timer of a lost socket.
Talking == [call |-> TRUE, peer |-> FALSE, link |-> FALSE, conn |-> "new", needs |-> FALSE,
            restarting |-> FALSE, attempts |-> 0, timer |-> FALSE, recovering |-> {},
            loss |-> FALSE, todo |-> "none"]
Calling == [Talking EXCEPT !.peer = TRUE, !.link = TRUE, !.todo = "offer"]
NoCall == [Talking EXCEPT !.call = FALSE]

\* The callee has accepted: beginOutgoingPeerOffer runs at the caller.
StartCall ==
  /\ Init
  /\ page = [s \in Sides |-> IF s = Initiator THEN Calling ELSE Talking]

Become(s, p) == page' = [page EXCEPT ![s] = p]
Idle(s) == page[s].todo = "none"

-----------------------------------------------------------------------------
(* The handlers of a peer connection                                       *)

Timed(p) == [p EXCEPT !.timer = TRUE]
Steady(p) == [p EXCEPT !.needs = FALSE, !.restarting = FALSE, !.attempts = 0, !.timer = FALSE]

\* restartPeerIce: it returns, waits for the timer, gives up, or offers.
Restart(s, p, signaling) ==
  IF p.conn = "connected" THEN p
  ELSE IF ~open[s] THEN Timed(p)
  ELSE IF p.attempts >= MaxAttempts THEN [p EXCEPT !.todo = "finish"]
  ELSE IF signaling # "stable" THEN Timed(p)
  ELSE [p EXCEPT !.needs = FALSE, !.restarting = TRUE, !.attempts = @ + 1, !.todo = "offer"]

\* handleCallPeerConnectionFailure
LeftToThePeer(s, p) ==   \* mutant: the side that does not offer waits without a limit
  IF p.restarting \/ (p.needs /\ p.timer) \/ s # Initiator THEN [p EXCEPT !.needs = TRUE]
  ELSE Restart(s, [p EXCEPT !.needs = TRUE], rtc[s].signaling)
Failing(s, p) ==
  IF p.restarting \/ (p.needs /\ p.timer) THEN p
  ELSE IF s = Initiator THEN Restart(s, [p EXCEPT !.needs = TRUE], rtc[s].signaling)
  ELSE Timed([p EXCEPT !.needs = TRUE])

\* onsignalingstatechange, when an answer made the connection stable.
Stabilised(s, p) ==
  IF p.needs /\ s = Initiator /\ open[s] THEN Restart(s, p, "stable") ELSE p

\* After the offer of an ICE restart settled, sent or abandoned.
Unwatched(s, n) == page[s]   \* mutant: nothing watches the restart
AfterOffer(s, n) == IF n = 1 THEN page[s] ELSE Timed(page[s])

\* acceptRemoteOffer, before and after the link answered.
Recovers(s) == rtc[s].heard # None \/ page[s].needs \/ page[s].restarting \/ page[s].timer
BeforeAnswering(s, n) ==
  LET p == [page[s] EXCEPT !.peer = TRUE, !.link = TRUE] IN
  IF Recovers(s) THEN [p EXCEPT !.timer = FALSE, !.recovering = @ \cup {n}] ELSE p
AfterAnswering(s, n) ==
  IF n \in page[s].recovering
    THEN Timed([page[s] EXCEPT !.needs = FALSE, !.restarting = TRUE, !.recovering = @ \ {n}])
    ELSE page[s]

\* External: an ICE restart makes the agent check its paths again.
Checking(p, n) == IF n = 1 THEN p ELSE [p EXCEPT !.conn = "checking"]

LinkStep(s) ==
  /\ Idle(s)
  /\ \E i \in DOMAIN chain[s] :
       LET n == IF chain[s][i].op = "ice_candidate" THEN None ELSE chain[s][i].n IN
       \/ /\ CreateOffer(s, i) \/ ApplyOffer(s, i) \/ BeginAnswer(s, i)
             \/ IgnoreOffer(s, i) \/ HoldCandidate(s, i) \/ AddCandidate(s, i)
          /\ UNCHANGED page
       \/ (SendOffer(s, i) \/ AbandonOffer(s, i)) /\ Become(s, AfterOffer(s, n))
       \/ Answer(s, i) /\ Become(s, Checking(AfterAnswering(s, n), n))
       \/ IgnoreAnswer(s, i) /\ Become(s, [page[s] EXCEPT !.needs = FALSE])
       \/ /\ ApplyAnswer(s, i)
          /\ Become(s, Checking([Stabilised(s, page[s]) EXCEPT !.needs = FALSE], n))

Gather(s) == Idle(s) /\ page[s].link /\ EmitCandidate(s) /\ UNCHANGED page

MediaUp(s) ==
  /\ Idle(s)
  /\ page[s].link /\ page[Other(s)].link
  /\ page[s].conn # "connected"
  /\ rtc[s].agreed # None /\ rtc[s].agreed = rtc[Other(s)].agreed
  /\ Become(s, [Steady(page[s]) EXCEPT !.conn = "connected"])
  /\ UNCHANGED vars

MediaDown(s) ==
  /\ Idle(s)
  /\ page[s].link
  /\ page[s].conn # "failed"
  /\ Become(s, Failing(s, [page[s] EXCEPT !.conn = "failed"]))

\* The network fails, a bounded number of times; or the peer closed its connection.
NetworkFails(s) ==
  /\ faults < MaxFaults
  /\ faults' = faults + 1
  /\ page[Other(s)].link
  /\ MediaDown(s)
  /\ UNCHANGED <<linkVars, open, sequence, sent, ledger, wire, made, refused>>
PeerClosed(s) ==
  /\ ~page[Other(s)].link
  /\ rtc[s].agreed # None
  /\ MediaDown(s)
  /\ UNCHANGED vars

-----------------------------------------------------------------------------
(* Ending the call                                                         *)

\* clearCallState: the connection is closed, the tombstones of both senders stay
\* (callKnownSenders), and the sequencer forgets the call.
EndedLedger(s, l) == CallEndedBy(CallEndedBy(l, s, "call", 0), Other(s), "call", 0)

CloseLink(s) ==
  /\ Become(s, NoCall)
  /\ rtc' = [rtc EXCEPT ![s] = NewConnection]
  /\ chain' = [chain EXCEPT ![s] = <<>>]
  /\ nego' = [nego EXCEPT ![s] = NewNegotiation]
  /\ pending' = [pending EXCEPT ![s] = <<>>]

Clear(s) ==
  /\ CloseLink(s)
  /\ sequence' = [sequence EXCEPT ![s] = 0]
  /\ ledger' = [ledger EXCEPT ![s] = EndedLedger(s, @)]

\* hangupCall broadcasts its signal, which counts in a sequence of its own.
Goodbye(s, reason) ==
  [Signal(s, "call_hangup", reason) EXCEPT !.target = "*", !.seq = 1]

HangUp(s, reason) ==
  /\ wire' = IF open[s] THEN [wire EXCEPT ![Other(s)] = @ \cup {Goodbye(s, reason)}] ELSE wire
  /\ sent' = [sent EXCEPT ![s] = @ + 1]
  /\ Clear(s)
  /\ UNCHANGED <<open, made, faults, refused>>

UserHangsUp(s) == Idle(s) /\ page[s].call /\ HangUp(s, "hangup")

\* finishCallPeerConnectionFailure
GiveUp(s) ==
  /\ page[s].todo = "finish"
  /\ \/ page[s].conn # "connected" /\ HangUp(s, "connection_failed")
     \/ /\ page[s].conn = "connected"
        /\ Become(s, [page[s] EXCEPT !.todo = "none"])
        /\ UNCHANGED vars

OfferNow(s) ==
  /\ page[s].todo = "offer"
  /\ CallOffer(s)
  /\ Become(s, [page[s] EXCEPT !.todo = "none"])
  /\ UNCHANGED <<rtc, nego, pending, pathVars, refused>>

\* CALL_ICE_RESTART_TIMEOUT_MS after startPeerIceRestartTimeout.
RestartTimeout(s) ==
  /\ Idle(s)
  /\ page[s].timer
  /\ Become(s, [page[s] EXCEPT !.timer = FALSE,
                               !.todo = IF page[s].conn = "connected" THEN "none" ELSE "finish"])
  /\ UNCHANGED vars

-----------------------------------------------------------------------------
(* The WebSocket                                                           *)

\* Both pages learn of it: status FALSE here, user_offline there.
SocketDrops(s) ==
  LET t == Other(s) IN
  /\ faults < MaxFaults
  /\ faults' = faults + 1
  /\ Idle(s) /\ Idle(t)
  /\ open[s]
  /\ open' = [open EXCEPT ![s] = FALSE]
  /\ page' = [page EXCEPT
       ![s].loss = page[s].call,
       ![t] = IF page[t].link /\ open[t] THEN Failing(t, page[t]) ELSE page[t]]
  /\ UNCHANGED <<linkVars, sequence, sent, ledger, wire, made, refused>>

\* resumePendingCallIceRestarts
Resumed(s) == [page[s] EXCEPT !.loss = FALSE]
SocketReopens(s) ==
  /\ Idle(s)
  /\ ~open[s]
  /\ open' = [open EXCEPT ![s] = TRUE]
  /\ \/ /\ page[s].peer
        /\ pending' = [pending EXCEPT ![s] = <<>>]
        /\ wire' = [wire EXCEPT ![Other(s)] = @ \cup {Signal(s, "call_resync", None)}]
        /\ sequence' = [sequence EXCEPT ![s] = @ + 1]
        /\ sent' = [sent EXCEPT ![s] = @ + 1]
        /\ Become(s, IF page[s].needs /\ s = Initiator /\ page[s].link
                     THEN LET p == Resumed(s) IN
                          IF p.conn = "connected" THEN p
                          ELSE IF p.attempts >= MaxAttempts THEN [p EXCEPT !.todo = "finish"]
                          ELSE IF rtc[s].signaling # "stable" THEN Timed(p)
                          ELSE [p EXCEPT !.needs = FALSE, !.restarting = TRUE,
                                         !.attempts = @ + 1, !.todo = "offer"]
                     ELSE Resumed(s))
     \/ ~page[s].peer /\ Become(s, Resumed(s)) /\ UNCHANGED <<pending, wire, sequence, sent>>
  /\ UNCHANGED <<rtc, chain, nego, ledger, made, faults, refused>>

\* interruptCallForSignalLoss, CALL_SIGNAL_LOSS_GRACE_MS later: nothing is signalled.
SignalLossTimeout(s) ==
  /\ Idle(s)
  /\ page[s].loss /\ ~open[s]
  /\ Clear(s)
  /\ UNCHANGED <<open, sent, wire, made, faults, refused>>

\* The page is loaded again without its pagehide handler having run.
Crash(s) ==
  /\ faults < MaxFaults
  /\ faults' = faults + 1
  /\ page[s].call
  /\ CloseLink(s)
  /\ open' = [open EXCEPT ![s] = TRUE]
  /\ sequence' = [sequence EXCEPT ![s] = 0]
  /\ ledger' = [ledger EXCEPT ![s] = NoLedger]
  /\ UNCHANGED <<sent, wire, made, refused>>

-----------------------------------------------------------------------------
(* handleCallSignal                                                        *)

\* The server found no socket: handleCallSignalFailure ends the call of the sender.
Undelivered(s, e) ==
  LET t == Other(s) IN
  /\ ~open[s]
  /\ e \in Arriving(s)
  /\ Idle(t)
  /\ wire' = [wire EXCEPT ![s] = @ \ {e}]
  /\ \/ ~Terminal(e.type) /\ open[t] /\ page[t].call /\ Clear(t)
     \/ /\ Terminal(e.type) \/ ~open[t] \/ ~page[t].call
        /\ UNCHANGED <<linkVars, page, sequence, ledger>>
  /\ UNCHANGED <<open, sent, made, faults, refused>>

Drop(s, e) ==
  /\ Refusal(ledger[s], e, 0) # ""
  /\ TakeOff(s, e)
  /\ ledger' = [ledger EXCEPT ![s] = AfterSignal(@, e, 0)]
  /\ UNCHANGED <<linkVars, open, sequence, sent, made, refused, page>>

\* The call is gone: a resynchronisation is answered, everything else is ignored.
WithoutCall(s, e) ==
  /\ ~page[s].call
  /\ ledger' = [ledger EXCEPT ![s] = AfterSignal(@, e, 0)]
  /\ \/ /\ e.type = "call_resync"
        /\ wire' = [wire EXCEPT ![s] = @ \ {e},
                                ![Other(s)] = @ \cup {Signal(s, "call_hangup", "session_gone")}]
        /\ sequence' = [sequence EXCEPT ![s] = @ + 1]
        /\ sent' = [sent EXCEPT ![s] = @ + 1]
        /\ UNCHANGED faults
     \/ /\ e.type # "call_resync"
        /\ TakeOff(s, e)
        /\ UNCHANGED <<sequence, sent>>
  /\ UNCHANGED <<linkVars, open, made, refused, page>>

PeerHangsUp(s, e) ==
  /\ page[s].call
  /\ Terminal(e.type)
  /\ wire' = [wire EXCEPT ![s] = @ \ {e}]
  /\ CloseLink(s)
  /\ sequence' = [sequence EXCEPT ![s] = 0]
  /\ ledger' = [ledger EXCEPT ![s] = EndedLedger(s, AfterSignal(@, e, 0))]
  /\ UNCHANGED <<open, sent, made, faults, refused>>

\* handleCallResync: a page without a connection answers that the call is gone;
\* otherwise only the side that offers reacts.
Resync(s) ==
  IF ~page[s].link THEN [page[s] EXCEPT !.todo = "gone"]
  ELSE IF page[s].conn = "connected" \/ s # Initiator THEN page[s]
  ELSE Restart(s, [page[s] EXCEPT !.needs = TRUE], rtc[s].signaling)

SayGone(s) ==
  /\ page[s].todo = "gone"
  /\ Send(s, "call_hangup", "session_gone")
  /\ Become(s, [page[s] EXCEPT !.todo = "none"])
  /\ UNCHANGED <<linkVars, open, ledger, made, faults, refused>>

\* A candidate that overtakes the first offer meets no link: it leaves an entry only.
ForTheLink(s, e) == e.type # "ice_candidate" \/ page[s].link

WithCall(s, e) ==
  /\ page[s].call
  /\ ~Terminal(e.type)
  /\ TakeOff(s, e)
  /\ ledger' = [ledger EXCEPT ![s] = AfterSignal(@, e, 0)]
  /\ nego' = [nego EXCEPT ![s] = Learn(s, e)]
  /\ \/ e.type = "call_resync" /\ Become(s, Resync(s)) /\ UNCHANGED chain
     \/ /\ e.type # "call_resync" /\ ForTheLink(s, e)
        /\ Serialize(s, TaskFor(e))
        /\ IF e.type = "call_offer" THEN Become(s, BeforeAnswering(s, e.content))
           ELSE UNCHANGED page
     \/ ~ForTheLink(s, e) /\ Become(s, [page[s] EXCEPT !.peer = TRUE]) /\ UNCHANGED chain
  /\ UNCHANGED <<rtc, pending, open, sequence, sent, made, refused>>

Hear(s, e) ==
  /\ e \in Arriving(s)
  /\ open[s]
  /\ Idle(s)
  /\ \/ Drop(s, e)
     \/ /\ Refusal(ledger[s], e, 0) = ""
        /\ WithoutCall(s, e) \/ PeerHangsUp(s, e) \/ WithCall(s, e)

-----------------------------------------------------------------------------

PageStep(s) ==
  \/ LinkStep(s) \/ Gather(s) \/ OfferNow(s) \/ GiveUp(s) \/ SayGone(s)
  \/ MediaUp(s) \/ NetworkFails(s) \/ PeerClosed(s) \/ RestartTimeout(s)
  \/ UserHangsUp(s) \/ SocketDrops(s) \/ SocketReopens(s) \/ SignalLossTimeout(s) \/ Crash(s)
  \/ \E e \in wire[s] : Hear(s, e) \/ Undelivered(s, e)

NextCall == \E s \in Sides : PageStep(s)

\* Timers fire, promises settle, signals arrive, a closed connection is noticed,
\* and a browser reconnects its socket.
Progress(s) ==
  \/ LinkStep(s) \/ OfferNow(s) \/ GiveUp(s) \/ SayGone(s)
  \/ RestartTimeout(s) \/ SignalLossTimeout(s)
  \/ PeerClosed(s) \/ SocketReopens(s)
  \/ \E e \in wire[s] : Hear(s, e) \/ Undelivered(s, e)

FairCall ==
  /\ StartCall /\ [][NextCall]_pageVars
  /\ \A s \in Sides : WF_pageVars(Progress(s))

-----------------------------------------------------------------------------
(* Properties                                                              *)

\* A page in a call whose connection failed always has something that will end
\* or resume it: a timer, an offer under way, or a recovery it is answering.
FailedLinksAreAttended ==
  \A s \in Sides :
    page[s].call /\ page[s].conn = "failed" =>
      \/ page[s].timer \/ page[s].todo # "none"
      \/ \E i \in DOMAIN chain[s] : chain[s][i].op \in {"offer", "call_offer"}

\* A negotiated call ends at one browser once it has ended at the other, even when
\* the hangup is lost or the other page was only loaded again.
CallsDoNotOutliveTheirPeer ==
  \A s \in Sides : (~page[s].call /\ rtc[Other(s)].agreed # None) ~> ~page[Other(s)].call

\* "A resync for a call this browser no longer has ends the peer's call instead of
\* leaving it waiting" (app.js:6574): its answer is not dropped as outdated.
SessionGoneIsHeard ==
  \A s \in Sides : \A e \in wire[s] :
    page[s].call /\ ~page[Other(s)].call /\ e.type = "call_hangup" /\ e.content = "session_gone" =>
      Refusal(ledger[s], e, 0) # "stale"
=============================================================================
