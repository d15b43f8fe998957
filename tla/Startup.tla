------------------------------- MODULE Startup -------------------------------
(***************************************************************************)
(* The start of the page and its connection (startBoot, boot, refreshAll,  *)
(* connectSocket and the foreground handlers of web/js/app.js, ChatSocket  *)
(* of web/js/websocket.js).  A start that fails is tried again, by a timer *)
(* or as soon as the network, the focus or the socket come back; a socket  *)
(* that closes is replaced, and one that slept with the phone is replaced  *)
(* when the page is shown again.  What changes while no socket is          *)
(* registered is announced to nobody: the page has to ask for its list.    *)
(***************************************************************************)
EXTENDS Naturals, FiniteSets

CONSTANTS
    Slots,      \* WebSocket objects of the page: a closed one is used again
    MaxChanges, \* bound: changes of the list of conversations
    MaxErrors,  \* bound: requests of the start that fail or time out
    MaxBreaks,  \* bound: connections lost
    MaxHides    \* bound: times the page leaves the screen

StartupBounds ==
    /\ 0 \notin Slots
    /\ {MaxChanges, MaxErrors, MaxBreaks, MaxHides} \subseteq Nat

VARIABLES
    boot,       \* the step of bootAttempt, "none" without one, "left" for good
    done,       \* what earlier attempts need not do again
    retryTimer, \* bootRetryTimer
    cached,     \* the local cache holds a list of conversations
    chat,       \* state.socket: the socket it holds, its reconnection timer
    socket,     \* every WebSocket: its state, and what the server knows of it
    dot,        \* the page says it is connected
    screen,     \* the page is "visible", "hidden", or "asleep" for 3 s or more
    version,    \* changes of the list at the server
    askedAt,      \* changes made when the list was last asked for
    spent       \* faults, breaks and hides so far

startupVars ==
    <<boot, done, retryTimer, cached, chat, socket, dot, screen, version, askedAt, spent>>

NoSocket == 0
Ready == "ready" \in done
AtLogin == boot = "left"

Closed == [state |-> "closed", registered |-> FALSE, inbox |-> FALSE, since |-> FALSE]
Opening == [Closed EXCEPT !.state = "connecting"]
Live == {s \in Slots : socket[s].state \in {"connecting", "open"}}
IsOpen(s) == s # NoSocket /\ socket[s].state = "open"

Spend(what, bound) ==
    /\ spent[what] < bound
    /\ spent' = [spent EXCEPT ![what] = @ + 1]

-----------------------------------------------------------------------------
(* scheduleReconnect, scheduleBootRetry: another try is planned.  The delay *)
(* doubles up to 15 s, which is left out. *)
NotPlanned == FALSE                 \* mutant: a failure plans nothing
Planned == TRUE

(* ChatSocket.connect. *)
Connect(s, kept) ==
    /\ kept[s].state = "closed"
    /\ chat' = [made |-> TRUE, current |-> s, timer |-> FALSE]
    /\ socket' = [kept EXCEPT ![s] = Opening]

ReconnectTimer ==
    /\ ~AtLogin
    /\ chat.timer = TRUE /\ chat.current = NoSocket
    /\ \E s \in Slots :
         /\ Connect(s, socket)
         /\ UNCHANGED <<boot, done, retryTimer, cached, dot, screen, version, askedAt, spent>>

(* reconnect: the socket held is closed and replaced at once. *)
Reconnect ==
    LET kept == IF chat.current = NoSocket THEN socket
                ELSE [socket EXCEPT ![chat.current].state = "closing"] IN
    /\ dot' = FALSE
    /\ \E s \in Slots : Connect(s, kept)

(* The events of a socket that was replaced are ignored. *)
AnySocket(s) == TRUE                \* mutant: no test of this.socket
Current(s) == chat.current = s

-----------------------------------------------------------------------------
(* startBoot and boot: an attempt starts where the one before it stopped. *)
NextStep(have) ==
    IF "me" \notin have THEN "identity"
    ELSE IF "keys" \notin have THEN "unlock"
    ELSE IF "trusted" \notin have THEN "trust" ELSE "connect"

StartBoot ==
    /\ ~Ready /\ boot = "none"
    /\ boot' = NextStep(done)

(* retryIncompleteBoot: the network, the focus, the page or the socket is back. *)
RetryIncompleteBoot ==
    IF ~Ready /\ boot = "none" /\ screen' = "visible"
      THEN retryTimer' = FALSE /\ boot' = NextStep(done)
      ELSE UNCHANGED <<boot, retryTimer>>

Began ==                            \* the page is loaded
    /\ StartBoot /\ done = {} /\ ~retryTimer
    /\ UNCHANGED <<done, retryTimer, cached, chat, socket, dot, screen, version, askedAt, spent>>

BootTimer ==
    /\ retryTimer
    /\ retryTimer' = FALSE
    /\ StartBoot
    /\ UNCHANGED <<done, cached, chat, socket, dot, screen, version, askedAt, spent>>

BackOnline ==
    /\ ~Ready /\ boot = "none"
    /\ UNCHANGED screen
    /\ RetryIncompleteBoot
    /\ UNCHANGED <<done, cached, chat, socket, dot, version, askedAt, spent>>

Does(step, what) ==
    /\ boot = step
    /\ done' = done \cup what
    /\ boot' = NextStep(done')

(* The account, the edition and the terms are known; then the keys are, the *)
(* handlers are bound, and the user has accepted the keys of the account.   *)
Step ==
    /\ Does("identity", {"me"}) \/ Does("unlock", {"keys"}) \/ Does("trust", {"trusted"})
    /\ UNCHANGED <<retryTimer, cached, chat, socket, dot, screen, version, askedAt, spent>>

(* connectSocket, unless an earlier attempt made the socket. *)
ConnectSocket ==
    /\ boot = "connect"
    /\ boot' = "cache"
    /\ IF chat.made THEN UNCHANGED <<chat, socket, dot>>
         ELSE (\E s \in Slots : Connect(s, socket)) /\ dot' = FALSE
    /\ UNCHANGED <<done, retryTimer, cached, screen, version, askedAt, spent>>

(* refreshAll: the cached list is shown, the list is asked for. *)
AskList ==
    /\ boot = "cache"
    /\ boot' = "list" /\ askedAt' = version
    /\ UNCHANGED <<done, retryTimer, cached, chat, socket, dot, screen, version, spent>>

Succeeds ==
    /\ done' = done \cup {"ready"}
    /\ boot' = "none" /\ retryTimer' = FALSE

ListAnswered ==
    /\ boot = "list"
    /\ Succeeds
    /\ cached' = TRUE
    /\ UNCHANGED <<chat, socket, dot, screen, version, askedAt, spent>>

(* A request fails or times out: the cached list will do, or the attempt is *)
(* over and another is planned. The page then says that it reconnects, also *)
(* when its socket is open; the next attempt keeps that socket, and nothing *)
(* says otherwise until it closes. *)
BootFails ==
    /\ boot \in {"identity", "trust", "list"}
    /\ Spend("faults", MaxErrors)
    /\ IF boot = "list" /\ cached THEN Succeeds /\ UNCHANGED dot
         ELSE boot' = "none" /\ retryTimer' = Planned /\ dot' = FALSE /\ UNCHANGED done
    /\ UNCHANGED <<cached, chat, socket, screen, version, askedAt>>

(* The session is refused (the cached list hides it), or the terms are to be *)
(* accepted first. *)
LeaveForLogin ==
    /\ boot = "identity" \/ (boot = "list" /\ ~cached)
    /\ boot' = "left"
    /\ UNCHANGED <<done, retryTimer, cached, chat, socket, dot, screen, version, askedAt, spent>>

-----------------------------------------------------------------------------
(* The server registers a connection, then the browser learns it is open. *)
AcceptSocket(s) ==
    /\ socket[s].state = "connecting" /\ ~socket[s].registered
    /\ socket' = [socket EXCEPT ![s].registered = TRUE]
    /\ UNCHANGED <<boot, done, retryTimer, cached, chat, dot, screen, version, askedAt, spent>>

(* The "status" listener: a page that is ready asks for what it missed, one *)
(* that is not starts again. *)
Missed == version

Opened(s) ==
    /\ socket[s].state = "connecting" /\ socket[s].registered
    /\ socket' = [socket EXCEPT ![s].state = "open", ![s].since = Ready]
    /\ UNCHANGED screen
    /\ IF Current(s) /\ ~AtLogin
         THEN /\ dot' = TRUE
              /\ RetryIncompleteBoot
              /\ askedAt' = IF Ready THEN Missed ELSE askedAt
         ELSE UNCHANGED <<dot, boot, retryTimer, askedAt>>
    /\ UNCHANGED <<done, cached, chat, version, spent>>

Deliver(s) ==                       \* handleSocketEvent
    /\ socket[s].state = "open" /\ socket[s].inbox
    /\ socket' = [socket EXCEPT ![s].inbox = FALSE]
    /\ askedAt' = IF Current(s) THEN version ELSE askedAt
    /\ UNCHANGED <<boot, done, retryTimer, cached, chat, dot, screen, version, spent>>

(* A socket is closed: by the page, or by the network or the server. *)
Closes(s) ==
    /\ socket[s].state # "closed"
    /\ IF socket[s].state = "closing" THEN UNCHANGED spent ELSE Spend("breaks", MaxBreaks)
    /\ socket' = [socket EXCEPT ![s] = Closed]
    /\ IF Current(s)
         THEN /\ dot' = FALSE
              /\ chat' = [chat EXCEPT !.current = NoSocket, !.timer = Planned]
         ELSE UNCHANGED <<dot, chat>>
    /\ UNCHANGED <<boot, done, retryTimer, cached, screen, version, askedAt>>

(* While the phone sleeps the connection is lost and the browser is not told. *)
LostAsleep(s) ==
    /\ screen = "asleep"
    /\ socket[s].state = "open" /\ socket[s].registered
    /\ Spend("breaks", MaxBreaks)
    /\ socket' = [socket EXCEPT ![s].registered = FALSE, ![s].inbox = FALSE]
    /\ UNCHANGED <<boot, done, retryTimer, cached, chat, dot, screen, version, askedAt>>

Change ==                           \* another user, another device
    /\ version < MaxChanges
    /\ version' = version + 1
    /\ socket' = [s \in Slots |-> [socket[s] EXCEPT !.inbox = @ \/ socket[s].registered]]
    /\ UNCHANGED <<boot, done, retryTimer, cached, chat, dot, screen, askedAt, spent>>

-----------------------------------------------------------------------------
(* handleAppVisibilityChange. *)
Hide ==
    /\ screen = "visible" /\ screen' = "hidden"
    /\ Spend("hides", MaxHides)
    /\ UNCHANGED <<boot, done, retryTimer, cached, chat, socket, dot, version, askedAt>>

Sleep ==
    /\ screen = "hidden" /\ screen' = "asleep"
    /\ UNCHANGED <<boot, done, retryTimer, cached, chat, socket, dot, version, askedAt, spent>>

Suspended == screen = "asleep"

Show ==
    /\ screen \in {"hidden", "asleep"} /\ screen' = "visible"
    /\ RetryIncompleteBoot
    /\ askedAt' = IF Ready THEN version ELSE askedAt
    /\ IF Ready /\ Suspended THEN Reconnect ELSE UNCHANGED <<chat, socket, dot>>
    /\ UNCHANGED <<done, cached, version, spent>>

(* handleAppFocus: a window that stayed visible and connected missed nothing. *)
Focus ==
    /\ Ready /\ screen = "visible" /\ ~IsOpen(chat.current)
    /\ askedAt' = version
    /\ UNCHANGED <<boot, done, retryTimer, cached, chat, socket, dot, screen, version, spent>>

(* finishAdminNavigation and restoreChatFromHistory: the page waits in the *)
(* history while the administration is shown, with its socket closed. *)
VisitAdministration ==
    /\ Ready /\ screen = "visible"
    /\ Spend("hides", MaxHides)
    /\ screen' = "history"
    /\ socket' = IF chat.current = NoSocket THEN socket
                 ELSE [socket EXCEPT ![chat.current].state = "closing"]
    /\ chat' = [made |-> FALSE, current |-> NoSocket, timer |-> FALSE]
    /\ UNCHANGED <<boot, done, retryTimer, cached, dot, version, askedAt>>

ReturnFromHistory ==
    /\ screen = "history" /\ screen' = "visible"
    /\ \E s \in Slots : Connect(s, socket)
    /\ dot' = FALSE /\ askedAt' = version
    /\ UNCHANGED <<boot, done, retryTimer, cached, version, spent>>

-----------------------------------------------------------------------------
StartupInit ==
    /\ boot = "none" /\ done = {} /\ retryTimer = FALSE
    /\ cached \in BOOLEAN
    /\ chat = [made |-> FALSE, current |-> NoSocket, timer |-> FALSE]
    /\ socket = [s \in Slots |-> Closed]
    /\ dot = FALSE /\ screen = "visible"
    /\ version = 0 /\ askedAt = 0
    /\ spent = [faults |-> 0, breaks |-> 0, hides |-> 0]

StartupNext ==
    \/ Began \/ BootTimer \/ BackOnline \/ Step \/ ConnectSocket \/ AskList
    \/ ListAnswered \/ BootFails \/ LeaveForLogin
    \/ \E s \in Slots : AcceptSocket(s) \/ Opened(s) \/ Deliver(s) \/ Closes(s) \/ LostAsleep(s)
    \/ ReconnectTimer \/ Change \/ Hide \/ Sleep \/ Show \/ Focus
    \/ VisitAdministration \/ ReturnFromHistory

(* Timers fire; a request is answered or times out; a user who is asked for *)
(* a phrase types it; a connection is accepted, refused or broken. *)
Closing(s) == Closes(s) /\ socket[s].state = "closing"

StartupFairness ==
    /\ WF_startupVars(Began) /\ WF_startupVars(BootTimer) /\ WF_startupVars(Step)
    /\ WF_startupVars(ConnectSocket) /\ WF_startupVars(AskList) /\ WF_startupVars(ListAnswered)
    /\ WF_startupVars(ReconnectTimer) /\ WF_startupVars(ReturnFromHistory)
    /\ \A s \in Slots : /\ WF_startupVars(AcceptSocket(s)) /\ WF_startupVars(Opened(s))
                        /\ WF_startupVars(Closing(s))

StartupSpec == StartupInit /\ [][StartupNext]_startupVars /\ StartupFairness

-----------------------------------------------------------------------------
StartupTypeOK ==
    /\ boot \in {"none", "identity", "unlock", "trust", "connect", "cache", "list", "left"}
    /\ done \subseteq {"me", "keys", "trusted", "ready"}
    /\ chat.current \in Slots \cup {NoSocket} /\ chat.timer \in BOOLEAN
    /\ \A s \in Slots : socket[s].state \in {"closed", "connecting", "open", "closing"}
    /\ retryTimer => boot = "none"
    /\ askedAt <= version

(* The page never keeps two connections, and never says it is connected     *)
(* through a socket it dropped, whatever reconnections, closings and visits *)
(* of the administration cross (websocket.js 12-63, app.js 2966-2991).      *)
OneConnection ==
    /\ Cardinality(Live) <= 1
    /\ \A s \in Live : chat.current = s
    /\ dot /\ screen # "history" => IsOpen(chat.current)

(* A page that was ready when its socket opened has asked for its list since *)
(* every change it was not told of: before that connection, between two, or  *)
(* while the phone slept (app.js 2970-2982, 3429-3458). Of a socket that     *)
(* opens before the page is ready nothing is said: its list may have been    *)
(* asked for before the server knew the socket, and is not asked for again.  *)
MissedIsAskedFor ==
    Ready /\ screen = "visible" /\ IsOpen(chat.current) =>
        LET s == socket[chat.current] IN s.since /\ ~s.inbox => askedAt = version

(* Whatever fails, the page ends up started and connected, or at the login   *)
(* page (app.js 907-957, websocket.js 41-49). Connected is its socket: what  *)
(* the page says of it may be out of date (BootFails).                       *)
StartedOrGone == AtLogin \/ (Ready /\ (screen = "visible" => IsOpen(chat.current)))
StartsAndConnects == <>[]StartedOrGone
=============================================================================
