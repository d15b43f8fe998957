------------------------------ MODULE CallPage ------------------------------
(***************************************************************************)
(* The calls of one page (app.js): invitations, the answers to them, the    *)
(* timers, the media and the connections a call opens, and its end. A       *)
(* handler that awaits leaves a task behind; tasks resume in any order, and *)
(* other events are handled before they do. Handlers read "state.call"      *)
(* again after an await, so a task may resume on another call than the one  *)
(* it began with. A call that replaces another ends nothing of it: the      *)
(* handlers of its connections act on the call of the moment, too.          *)
(* Negotiation is IceRecovery's; the entry a call leaves in its             *)
(* conversation is left out.                                                *)
(***************************************************************************)
EXTENDS Naturals, FiniteSets

CONSTANTS
  Own,        \* the calls this user may start
  Incoming,   \* the calls others start
  Users,      \* the other members
  Members,    \* the members each call reaches
  CallerOf,   \* who starts an incoming call
  Group,      \* the calls of a group conversation
  Initiates,  \* the users this browser offers to in a group (shouldOfferInGroup)
  None,
  MaxSignals, \* bound: signals received
  MaxDrops    \* bound: how often the socket drops

Calls == Own \cup Incoming

CallPageAssumption ==
  /\ Own \cap Incoming = {} /\ None \notin Calls
  /\ Members \in [Calls -> SUBSET Users]
  /\ CallerOf \in [Incoming -> Users]
  /\ \A c \in Incoming : CallerOf[c] \in Members[c]
  /\ Group \subseteq Calls /\ Initiates \subseteq Users
  /\ {MaxSignals, MaxDrops} \subseteq Nat

VARIABLES
  call,        \* state.call
  info,        \* the call objects, also those state.call no longer points to
  ready,       \* the configuration, and with it the own identity, is loaded
  open,        \* the socket
  fullscreen,  \* the video is displayed in full screen
  tasks,       \* handlers that wait: [at, u, c, of, seen], c the call they began with
  ended,       \* the incoming calls the ledger has a tombstone of, by their caller
  invited,     \* the invitations received
  signals,     \* signals received so far
  strays,      \* what was done to another call than the one it was about
  drops

callPageVars == <<call, info, ready, open, fullscreen, tasks, ended, invited, signals, strays, drops>>
steady == <<ready, open, fullscreen, invited, signals, drops>>

Nobody == None
Task(at, u, c) == [at |-> at, u |-> u, c |-> c, of |-> "page", seen |-> {}]
\* A connection being opened: of, the handler that opens it, that of an "accept" or of an
\* "offer", or the call answered here, whose answer goes through those who accepted it
\* (seen, so far).
Dial(at, u, c, of, seen) == [at |-> at, u |-> u, c |-> c, of |-> of, seen |-> seen]

\* peers: the users with an RTCPeerConnection; up: those connected; stream: the
\* microphone is open; loss: the timer of a lost socket.
Fresh == [status |-> "new", closing |-> FALSE, timer |-> FALSE, loss |-> FALSE, stream |-> FALSE,
          peers |-> {}, up |-> {}, accepted |-> {}]

CallPageInit ==
  /\ call = None
  /\ info = [c \in Calls |-> Fresh]
  /\ ready \in BOOLEAN
  /\ open = TRUE
  /\ fullscreen = FALSE
  /\ tasks = {} /\ ended = {} /\ invited = {} /\ strays = {}
  /\ signals = 0 /\ drops = 0

IsGroup(c) == c \in Group
Become(c, i) == info' = [info EXCEPT ![c] = i]
Stray(what, by, c) == IF by = c THEN {} ELSE {what}

\* clearCallAlerts, and the status every side of a negotiation moves to.
Silent(i) == [i EXCEPT !.timer = FALSE]
Connecting(i) == [Silent(i) EXCEPT !.status = "connecting"]
\* closeCallResources: nothing of the call is read again.
Over == [Fresh EXCEPT !.status = "over", !.closing = TRUE]

-----------------------------------------------------------------------------
(* clearCallState, on the current call c whose record is now i; rest are    *)
(* the tasks that remain. Leaving full screen is awaited before the         *)
(* resources are closed.                                                    *)

EndCall(c, i, rest, cause, by) ==
  \/ i.closing /\ Become(c, i) /\ tasks' = rest /\ UNCHANGED <<call, ended, strays>>
  \/ /\ ~i.closing
     /\ ended' = ended \cup ({c} \cap Incoming)
     /\ strays' = strays \cup Stray(cause, by, c)
     /\ \/ /\ fullscreen
           /\ Become(c, [i EXCEPT !.closing = TRUE, !.loss = FALSE])
           /\ tasks' = rest \cup {Task("leaving", Nobody, c)}
           /\ UNCHANGED call
        \/ /\ ~fullscreen
           /\ Become(c, Over)
           /\ tasks' = rest
           /\ call' = None

FullscreenLeft(t) ==
  /\ t.at = "leaving"
  /\ tasks' = tasks \ {t}
  /\ Become(t.c, Over)
  /\ fullscreen' = FALSE
  /\ call' = IF call = t.c THEN None ELSE call
  /\ UNCHANGED <<ready, open, invited, signals, drops, ended, strays>>

\* hangupCall: nothing while the call is already closing.
HangUp(rest, cause, by) ==
  LET c == call IN
  \/ /\ c = None \/ (c # None /\ info[c].closing)
     /\ tasks' = rest
     /\ UNCHANGED <<call, info, ended, strays>>
  \/ /\ c # None /\ ~info[c].closing
     /\ EndCall(c, info[c], rest, cause, by)

-----------------------------------------------------------------------------
(* Starting a call                                                         *)

\* The object startCallInvite builds; an older call it replaces is not ended.
Create(c) ==
  /\ call' = c
  /\ Become(c, [Fresh EXCEPT !.status = "ringing", !.timer = TRUE])
  /\ UNCHANGED <<ended, strays>>

NotStarted(c) == c \in Own /\ info[c] = Fresh /\ \A t \in tasks : t.c # c

ClickCall(c) ==
  /\ open /\ call = None /\ NotStarted(c)
  /\ \/ ready /\ Create(c) /\ UNCHANGED tasks
     \/ /\ ~ready
        /\ tasks' = tasks \cup {Task("config", Nobody, c)}
        /\ UNCHANGED <<call, info, ended, strays>>
  /\ UNCHANGED steady

\* loadCallConfig answered; the identity is asked for once more if it is needed.
ConfigLoaded(t) ==
  /\ t.at = "config"
  /\ \E loaded \in BOOLEAN :
       /\ ready' = (ready \/ loaded)
       /\ \/ /\ call = None /\ IsGroup(t.c) /\ ~ready'
             /\ tasks' = (tasks \ {t}) \cup {Task("identity", Nobody, t.c)}
             /\ UNCHANGED <<call, info, ended, strays>>
          \/ /\ call = None /\ (~IsGroup(t.c) \/ ready')
             /\ tasks' = tasks \ {t}
             /\ Create(t.c)
          \/ /\ call # None
             /\ tasks' = tasks \ {t}
             /\ UNCHANGED <<call, info, ended, strays>>
  /\ UNCHANGED <<open, fullscreen, invited, signals, drops>>

\* The page is not asked again whether it is in a call.
IdentityLoaded(t) ==
  /\ t.at = "identity"
  /\ tasks' = tasks \ {t}
  /\ \/ ready' = TRUE /\ Create(t.c)
     \/ ~ready /\ UNCHANGED <<ready, call, info, ended, strays>>
  /\ UNCHANGED <<open, fullscreen, invited, signals, drops>>

-----------------------------------------------------------------------------
(* Invitations                                                             *)

Hear == signals < MaxSignals /\ signals' = signals + 1

\* An invitation has one identifier; none is admitted once its call ended.
HearInvite(c) ==
  /\ open /\ c \in Incoming
  /\ c \notin invited \cup ended
  /\ invited' = invited \cup {c} /\ Hear
  /\ \/ /\ call # None
        /\ UNCHANGED tasks
     \/ /\ call = None
        /\ tasks' = tasks \cup {Task("names", CallerOf[c], c)}
  /\ UNCHANGED <<call, info, ended, strays, ready, open, fullscreen, drops>>

\* The names are loaded: the page rings, whatever happened meanwhile.
WithoutAClock(i) == i   \* mutant: the invitation has no time limit
Alerted(i) == [i EXCEPT !.timer = TRUE]
Ring(t) ==
  /\ t.at = "names"
  /\ tasks' = tasks \ {t}
  /\ call' = t.c
  /\ Become(t.c, Alerted([Fresh EXCEPT !.status = "ringing", !.accepted = {t.u}]))
  /\ UNCHANGED <<steady, ended, strays>>

Ringing(c) == call = c /\ info[c].status = "ringing"

\* acceptIncomingCall: its conversation is displayed, or it has no button.
Accept(c) ==
  /\ c \in Incoming /\ Ringing(c)
  /\ Become(c, Connecting(info[c]))
  /\ tasks' = tasks \cup {Task(IF IsGroup(c) /\ ~ready THEN "answer identity" ELSE "answer media", Nobody, c)}
  /\ UNCHANGED <<call, ended, strays, ready, open, fullscreen, invited, signals, drops>>

\* From here on the handler acts on the call it finds; without one it fails.
RejectAnswered(t) ==
  \/ call = None /\ tasks' = tasks \ {t} /\ UNCHANGED <<call, info, ended, strays>>
  \/ /\ call # None
     /\ EndCall(call, info[call], tasks \ {t}, "media", t.c)

AnswerIdentity(t) ==
  /\ t.at = "answer identity"
  /\ \/ /\ ready' = TRUE
        /\ tasks' = (tasks \ {t}) \cup {Task("answer media", Nobody, t.c)}
        /\ UNCHANGED <<call, info, ended, strays>>
     \/ ~ready /\ UNCHANGED ready /\ RejectAnswered(t)
  /\ UNCHANGED <<open, fullscreen, invited, signals, drops>>

\* connectAcceptedCallPeers: those of the call who accepted, one after the other (in
\* any order here), without those the page has a connection to.
DialsNext(c, seen) ==
  LET left == info[c].accepted \ (seen \cup info[call].peers) IN
  IF left = {} THEN {{}} ELSE {{Dial("dial", u, call, c, seen \cup {u})} : u \in left}

AnswerMedia(t) ==
  /\ t.at = "answer media"
  /\ \/ RejectAnswered(t)
     \/ /\ call # None
        /\ Become(call, [info[call] EXCEPT !.stream = TRUE, !.status = "accepted"])
        /\ strays' = strays \cup Stray("accept", t.c, call)
        /\ \E next \in DialsNext(call, {}) : tasks' = (tasks \ {t}) \cup next
        /\ UNCHANGED <<call, ended>>
  /\ UNCHANGED steady

UserRejects(c) ==
  /\ c \in Incoming /\ Ringing(c)
  /\ EndCall(c, info[c], tasks, "user", c)
  /\ UNCHANGED steady

UserHangsUp ==
  /\ call # None /\ ~(call \in Incoming /\ Ringing(call)) /\ ~info[call].closing
  /\ HangUp(tasks, "user", call)
  /\ UNCHANGED steady

EnterFullscreen ==
  /\ call # None /\ info[call].status \in {"connecting", "accepted"}
  /\ ~fullscreen /\ fullscreen' = TRUE
  /\ UNCHANGED <<call, info, tasks, ended, strays, ready, open, invited, signals, drops>>

-----------------------------------------------------------------------------
(* Connections                                                             *)

Offers(c, u) == IF IsGroup(c) THEN u \in Initiates ELSE c \in Own
\* ensureCallPeer opens the microphone for a new connection, unless the call has it.
Awaits(c, u) == IF u \in info[c].peers \/ info[c].stream THEN "negotiate" ELSE "capture"

\* What follows once a connection is opened: the next one, if the call was answered here.
Onward(t) == IF t.of \in Calls THEN DialsNext(t.of, t.seen) ELSE {{}}

\* maybeBeginOutgoingPeerOffer, from its configuration to the microphone. In a group the
\* identity of the page and that of the other have to be known.
Unidentified(t) ==
  /\ call # None /\ IsGroup(call)
  /\ \E next \in Onward(t) :
       /\ next = {} \/ fullscreen \/ info[call].closing   \* nothing more once the call is gone
       /\ HangUp((tasks \ {t}) \cup next, "identity", call)

Dialled(t) ==
  /\ t.at = "dial"
  /\ \E loaded \in BOOLEAN :
       /\ ready' = (ready \/ loaded)
       /\ \/ Unidentified(t)
          \/ /\ call # None /\ (IsGroup(call) => ready') /\ Offers(call, t.u)
             /\ Become(call, [Connecting(info[call]) EXCEPT !.peers = @ \cup {t.u}])
             /\ tasks' = (tasks \ {t}) \cup {Dial(Awaits(call, t.u), t.u, call, t.of, t.seen)}
             /\ UNCHANGED <<call, ended, strays>>
          \/ /\ call # None /\ (IsGroup(call) => ready') /\ ~Offers(call, t.u)
             /\ \E next \in Onward(t) : tasks' = (tasks \ {t}) \cup next
             /\ UNCHANGED <<call, info, ended, strays>>
          \/ /\ call = None
             /\ tasks' = tasks \ {t}
             /\ UNCHANGED <<call, info, ended, strays>>
  /\ UNCHANGED <<open, fullscreen, invited, signals, drops>>

Without(i, u) == [i EXCEPT !.peers = @ \ {u}, !.up = @ \ {u}]

\* The error path of a connection that could not be opened: an answer ends the call it
\* finds, an offer hangs it up, an acceptance too, but in a group it loses the user only.
MediaFails(t, i) ==
  \/ /\ call # None /\ t.of = "accept" /\ IsGroup(call)
     /\ Become(call, Without(i, t.u))
     /\ tasks' = tasks \ {t}
     /\ UNCHANGED <<call, ended, strays>>
  \/ /\ call # None /\ ~(t.of = "accept" /\ IsGroup(call))
     /\ EndCall(call, i, tasks \ {t}, "media", t.c)
  \/ /\ call = None
     /\ tasks' = tasks \ {t}
     /\ UNCHANGED <<call, info, ended, strays>>

\* ensureLocalCallStream gives the stream to the call it finds. A connection that was
\* closed meanwhile, or that the call found does not have, fails.
Captured(t) ==
  /\ t.at \in {"capture", "negotiate"}
  /\ LET found == IF call = None THEN Fresh ELSE info[call]
         i == IF t.at = "capture" THEN [found EXCEPT !.stream = TRUE] ELSE found IN
     \/ MediaFails(t, found)
     \/ MediaFails(t, i)
     \/ /\ call # None
        /\ t.u \in info[t.c].peers \cap found.peers
        /\ Become(call, i)
        /\ \E next \in Onward(t) : tasks' = (tasks \ {t}) \cup next
        /\ UNCHANGED <<call, ended, strays>>
  /\ UNCHANGED steady

\* A connection is up, or its recovery was given up. It may be one of a call that was
\* replaced: its handlers were not removed, and they act on the call they find.
PeerUp(c, u) ==
  /\ call # None
  /\ u \in info[c].peers \ info[c].up
  /\ info[c].stream
  /\ info' = [info EXCEPT ![c].up = @ \cup {u}, ![call].status = "accepted"]
  /\ UNCHANGED <<call, tasks, ended, strays, steady>>

PeerFails(c, u) ==
  /\ call # None
  /\ u \in info[c].peers
  /\ call = c \/ u \notin info[call].up
  /\ \/ /\ IsGroup(call)
        /\ Become(call, Without(info[call], u))
        /\ UNCHANGED <<call, tasks, ended, strays>>
     \/ ~IsGroup(call) /\ HangUp(tasks, "connection", c)
  /\ UNCHANGED steady

-----------------------------------------------------------------------------
(* Signals about a call                                                    *)

HearSignal(u, c) ==
  /\ open /\ u \in Members[c]
  /\ c \in Own => info[c].status # "new"
  /\ Hear
  /\ UNCHANGED <<ready, open, fullscreen, invited, drops>>

\* The end of an incoming call, from its caller, leaves a tombstone in any case.
EndedBy(u, c) == {d \in Incoming : d = c /\ u = CallerOf[d]}

HearEndOfOther(u, c) ==
  /\ HearSignal(u, c)
  /\ call # c
  /\ ended' = ended \cup EndedBy(u, c)
  /\ UNCHANGED <<call, info, tasks, strays>>

HearAccept(u, c) ==
  LET i == [info[c] EXCEPT !.accepted = @ \cup {u}] IN
  /\ HearSignal(u, c)
  /\ call = c
  /\ IF (c \in Incoming /\ i.status = "ringing") \/ u \in i.peers
       THEN Become(c, i) /\ UNCHANGED tasks
       ELSE Become(c, Connecting(i)) /\ tasks' = tasks \cup {Dial("dial", u, c, "accept", {})}
  /\ UNCHANGED <<call, ended, strays>>

\* The others go on.
Loses(u, c, i) ==
  /\ ended' = ended \cup EndedBy(u, c)
  /\ Become(c, i)
  /\ UNCHANGED <<call, tasks, strays>>

\* A refusal is addressed to the caller.
HearReject(u, c) ==
  /\ HearSignal(u, c)
  /\ c \in Own /\ call = c
  /\ IF IsGroup(c) THEN Loses(u, c, info[c]) ELSE EndCall(c, info[c], tasks, "signal", c)

\* In a group the call goes on unless its caller leaves, or nobody is left.
LeavesGroup(u, c) == IsGroup(c) /\ (c \in Own \/ u # CallerOf[c])
HearHangup(u, c) ==
  LET i == IF LeavesGroup(u, c) THEN Without(info[c], u) ELSE info[c] IN
  /\ HearSignal(u, c)
  /\ call = c
  /\ IF LeavesGroup(u, c) /\ ~(c \in Own /\ i.up = {} /\ i.status # "ringing")
       THEN Loses(u, c, i)
       ELSE EndCall(c, i, tasks, "signal", c)

\* acceptRemoteOffer creates the connection the offer is for.
HearOffer(u, c) ==
  LET i == [Connecting(info[c]) EXCEPT !.peers = @ \cup {u}] IN
  /\ HearSignal(u, c)
  /\ call = c
  /\ info[c].status \in {"connecting", "accepted"}
  /\ Become(c, i)
  /\ tasks' = tasks \cup {Dial(Awaits(c, u), u, c, "offer", {})}
  /\ UNCHANGED <<call, ended, strays>>

\* call_signal_failed: the name of the participant is awaited.
HearFailure(u, c) ==
  /\ HearSignal(u, c)
  /\ call = c
  /\ tasks' = tasks \cup {Task("failure", u, c)}
  /\ UNCHANGED <<call, info, ended, strays>>

AnyCall(c) == call # None   \* mutant: the call is not compared after the await
SameCall(c) == call = c
Failed(t) ==
  /\ t.at = "failure"
  /\ \/ /\ ~SameCall(t.c)
        /\ tasks' = tasks \ {t}
        /\ UNCHANGED <<call, info, ended, strays>>
     \/ /\ SameCall(t.c) /\ IsGroup(call)
        /\ Become(call, Without(info[call], t.u))
        /\ tasks' = tasks \ {t}
        /\ UNCHANGED <<call, ended, strays>>
     \/ SameCall(t.c) /\ ~IsGroup(call) /\ EndCall(call, info[call], tasks \ {t}, "failure", t.c)
  /\ UNCHANGED steady

-----------------------------------------------------------------------------
(* Timers, the socket, and leaving the page                                *)

\* The timer of a call that is no longer the current one does nothing.
InviteTimeout(c) ==
  /\ info[c].timer
  /\ \/ /\ Ringing(c)
        /\ EndCall(c, Silent(info[c]), tasks, "timeout", c)
     \/ /\ ~Ringing(c)
        /\ Become(c, Silent(info[c]))
        /\ UNCHANGED <<call, tasks, ended, strays>>
  /\ UNCHANGED steady

SocketDrops ==
  /\ open /\ drops < MaxDrops
  /\ drops' = drops + 1
  /\ open' = FALSE
  /\ info' = IF call = None THEN info ELSE [info EXCEPT ![call].loss = TRUE]
  /\ UNCHANGED <<call, tasks, ended, strays, ready, fullscreen, invited, signals>>

SocketReopens ==
  /\ ~open /\ open' = TRUE
  /\ info' = IF call = None THEN info ELSE [info EXCEPT ![call].loss = FALSE]
  /\ UNCHANGED <<call, tasks, ended, strays, ready, fullscreen, invited, signals, drops>>

SignalLossTimeout(c) ==
  /\ info[c].loss
  /\ \/ ~open /\ SameCall(c) /\ EndCall(call, [info[call] EXCEPT !.loss = FALSE], tasks, "loss", c)
     \/ /\ open \/ ~SameCall(c)
        /\ Become(c, [info[c] EXCEPT !.loss = FALSE])
        /\ UNCHANGED <<call, tasks, ended, strays>>
  /\ UNCHANGED steady

\* handleCallPageExit: the page that comes back remembers nothing.
Reload ==
  /\ call # None
  /\ call' = None
  /\ info' = [c \in Calls |-> IF info[c] = Fresh THEN Fresh ELSE Over]
  /\ ended' = {} /\ tasks' = {} /\ strays' = {}
  /\ fullscreen' = FALSE /\ ready' = FALSE /\ open' = TRUE
  /\ UNCHANGED <<invited, signals, drops>>

-----------------------------------------------------------------------------

TaskResumes(t) ==
  \/ FullscreenLeft(t) \/ ConfigLoaded(t) \/ IdentityLoaded(t) \/ Ring(t)
  \/ AnswerIdentity(t) \/ AnswerMedia(t) \/ Dialled(t) \/ Captured(t) \/ Failed(t)

CallPageNext ==
  \/ \E t \in tasks : TaskResumes(t)
  \/ \E c \in Calls :
       \/ ClickCall(c) \/ HearInvite(c) \/ Accept(c) \/ UserRejects(c)
       \/ InviteTimeout(c) \/ SignalLossTimeout(c)
       \/ \E u \in Users :
            \/ PeerUp(c, u) \/ PeerFails(c, u)
            \/ HearAccept(u, c) \/ HearReject(u, c) \/ HearHangup(u, c) \/ HearOffer(u, c)
            \/ HearFailure(u, c) \/ HearEndOfOther(u, c)
  \/ UserHangsUp \/ EnterFullscreen \/ SocketDrops \/ SocketReopens \/ Reload

\* Promises settle and timers fire.
AnyFullscreenLeft == \E t \in tasks : FullscreenLeft(t)

CallPageFairness ==
  /\ \A c \in Calls : WF_callPageVars(InviteTimeout(c))
  /\ WF_callPageVars(AnyFullscreenLeft)

CallPageSpec == CallPageInit /\ [][CallPageNext]_callPageVars /\ CallPageFairness

-----------------------------------------------------------------------------
(* Properties                                                              *)

CallPageTypeOK ==
  /\ call \in Calls \cup {None}
  /\ call # None => info[call].status \in {"ringing", "connecting", "accepted"}
  /\ \A c \in Calls : info[c].up \subseteq info[c].peers /\ info[c].peers \subseteq Users
  /\ \A t \in tasks : t.c \in Calls /\ t.u \in Users \cup {Nobody}
  /\ ended \cup invited \subseteq Incoming

\* No call rings for ever, neither here nor for the person who calls.
NobodyRingsForEver == \A c \in Calls : Ringing(c) ~> ~Ringing(c)

\* A timer of a call, the failure of one of its signals, or the loss of the socket it
\* noticed ends the call it belongs to, never the one that replaced it. The connection
\* of a call that was replaced gives no such promise: its failure may end the new call.
CallsEndForTheirOwnReasons ==
  strays \cap {"timeout", "failure", "loss"} = {}

\* A call that was ended does not ring afterwards.
EndedCallsStayEnded ==
  \A c \in Incoming : Ringing(c) => c \notin ended \/ info[c].closing
=============================================================================
