----------------------------- MODULE LiveProofs -----------------------------
(***************************************************************************)
(* The start of the page and its connection, the thumbnails loaded ahead,  *)
(* the sign-in page and the calls of a page: what each step keeps.         *)
(***************************************************************************)
EXTENDS Startup, ThumbnailPreload, SignIn, CallPage, SequenceTheorems, FiniteSetTheorems, TLAPS

-----------------------------------------------------------------------------
(* The connection of the page: it holds the only one that lives, and what that one was not     *)
(* told of has been asked for, is on its way, or will be when the phone wakes up.              *)

Sockets == [state : {"closed", "connecting", "open", "closing"}, registered : BOOLEAN,
            inbox : BOOLEAN, since : BOOLEAN]
StartTyped ==
  /\ boot \in {"none", "identity", "unlock", "trust", "connect", "cache", "list", "left"}
  /\ done \subseteq {"me", "keys", "trusted", "ready"}
  /\ chat \in [made : BOOLEAN, current : Slots \cup {NoSocket}, timer : BOOLEAN]
  /\ socket \in [Slots -> Sockets]
  /\ version \in Nat /\ askedAt \in Nat /\ askedAt <= version
  /\ retryTimer => boot = "none"

\* The page is started once, and holds no socket while it waits in the history or has made none.
StartOnce ==
  /\ Ready => boot = "none"
  /\ ~chat.made => chat.current = NoSocket
  /\ screen = "history" => Ready /\ chat.current = NoSocket /\ ~chat.timer

HeldIsLive == \A s \in Slots : socket[s].state \in {"connecting", "open"} => chat.current = s
DotIsTrue == dot /\ screen # "history" => IsOpen(chat.current)

\* What the server told, or will, a page that was ready when its socket opened.
NothingIsMissed ==
  \A s \in Slots : socket[s].state = "open" /\ socket[s].since =>
    /\ Ready
    /\ socket[s].registered => socket[s].inbox \/ askedAt = version
    /\ ~socket[s].registered => screen = "asleep"

StartInv == StartTyped /\ StartOnce /\ HeldIsLive /\ DotIsTrue /\ NothingIsMissed

\* The page is loaded, without a connection.
LEMMA StartInitInv == ASSUME StartupBounds, StartupInit PROVE StartInv
<1> QED
  BY DEF StartupBounds, StartupInit, StartInv, StartTyped, Sockets, StartOnce, HeldIsLive, DotIsTrue, NothingIsMissed,
    Closed, NoSocket, Ready

\* A start that goes on leaves the connection as it is.
LEMMA BootKeeps ==
  ASSUME StartupBounds, StartInv, Began \/ BootTimer \/ BackOnline \/ Step \/ ListAnswered \/ BootFails \/ LeaveForLogin
  PROVE  StartInv'
<1> USE DEF StartInv, Began, BootTimer, BackOnline, Step, ListAnswered, BootFails, LeaveForLogin, StartBoot,
        RetryIncompleteBoot, Does, Succeeds, NextStep, Planned
<1>1. UNCHANGED <<chat, socket, screen, version, askedAt>> /\ (dot' = dot \/ dot' = FALSE)
  OBVIOUS
<1>2. done \subseteq done' /\ done' \subseteq {"me", "keys", "trusted", "ready"}
  BY DEF StartTyped
<1>3. StartTyped'
  BY <1>1, <1>2 DEF StartTyped, Ready
<1>4. StartOnce'
  BY <1>1, <1>2 DEF StartOnce, Ready, StartTyped
<1>5. HeldIsLive' /\ DotIsTrue' /\ NothingIsMissed'
  BY <1>1, <1>2 DEF HeldIsLive, DotIsTrue, NothingIsMissed, Ready, IsOpen
<1> QED
  BY <1>3, <1>4, <1>5

\* A connection is made where there is none.
LEMMA ConnectKeeps ==
  ASSUME StartupBounds, StartInv, NEW before \in [Slots -> Sockets],
         \A s \in Slots : before[s].state \notin {"connecting", "open"},
         NEW s \in Slots, Connect(s, before), dot' = FALSE \/ (dot' = dot /\ chat.current = NoSocket),
         screen' # "history", screen = "history" => dot' = FALSE,
         UNCHANGED done, done' = done, boot' = boot \/ (boot = "connect" /\ boot' = "cache"),
         retryTimer' = retryTimer,
         UNCHANGED version, askedAt' \in Nat, askedAt' <= version
  PROVE  StartInv'
<1> USE DEF StartInv, StartupBounds
<1>1. Opening \in Sockets /\ Opening.state = "connecting"
  BY DEF Opening, Closed, Sockets
<1>2. /\ chat' = [made |-> TRUE, current |-> s, timer |-> FALSE]
      /\ socket' = [before EXCEPT ![s] = Opening]
  BY DEF Connect
<1>3. socket' \in [Slots -> Sockets] /\ socket'[s].state = "connecting"
      /\ \A r \in Slots : r # s => socket'[r] = before[r]
  BY <1>1, <1>2
<1>4. chat' \in [made : BOOLEAN, current : Slots \cup {NoSocket}, timer : BOOLEAN]
  BY <1>2
<1>5. StartTyped'
  BY <1>3, <1>4 DEF StartTyped
<1>6. StartOnce'
  BY <1>2 DEF StartOnce, Ready
<1>7. HeldIsLive'
  BY <1>2, <1>3 DEF HeldIsLive
<1>8. dot' = FALSE
  BY DEF DotIsTrue, IsOpen
<1>9. NothingIsMissed'
  BY <1>3 DEF NothingIsMissed
<1> QED
  BY <1>5, <1>6, <1>7, <1>8, <1>9 DEF DotIsTrue

\* Every way to connect finds no other connection, or closes it.
LEMMA SocketMade ==
  ASSUME StartupBounds, StartInv, ReconnectTimer \/ ConnectSocket \/ Show \/ ReturnFromHistory
  PROVE  StartInv'
<1> USE DEF StartInv
<1>1. StartTyped /\ StartOnce /\ HeldIsLive /\ DotIsTrue /\ NothingIsMissed /\ NoSocket \notin Slots
  BY DEF StartupBounds, NoSocket
<1>2. ASSUME chat.current = NoSocket
      PROVE  socket \in [Slots -> Sockets] /\ \A s \in Slots : socket[s].state \notin {"connecting", "open"}
  BY <1>1, <1>2 DEF HeldIsLive, StartTyped
<1>3. CASE ReconnectTimer
  <2>1. PICK s \in Slots : Connect(s, socket)
                           /\ UNCHANGED <<boot, done, retryTimer, cached, dot, screen, version, askedAt, spent>>
    BY <1>3 DEF ReconnectTimer
  <2>2. chat.current = NoSocket /\ screen # "history"
    BY <1>1, <1>3 DEF ReconnectTimer, StartOnce
  <2>3. askedAt' \in Nat /\ askedAt' <= version
    BY <1>1, <2>1 DEF StartTyped
  <2> QED
    BY <1>2, <2>1, <2>2, <2>3, ConnectKeeps
<1>4. CASE ConnectSocket
  <2>1. boot = "connect" /\ boot' = "cache" /\ UNCHANGED <<done, retryTimer, cached, screen, version, askedAt, spent>>
    BY <1>4 DEF ConnectSocket
  <2>2. ~Ready /\ screen # "history"
    BY <1>1, <2>1 DEF StartOnce
  <2>3. CASE chat.made
    <3>1. UNCHANGED <<chat, socket, dot>>
      BY <1>4, <2>3 DEF ConnectSocket
    <3> QED
      BY <1>1, <2>1, <2>2, <3>1
        DEF StartTyped, StartOnce, HeldIsLive, DotIsTrue, NothingIsMissed, Ready, IsOpen
  <2>4. CASE ~chat.made
    <3>1. PICK s \in Slots : Connect(s, socket) /\ dot' = FALSE
      BY <1>4, <2>4 DEF ConnectSocket
    <3>2. chat.current = NoSocket
      BY <1>1, <2>4 DEF StartOnce
    <3>3. askedAt' \in Nat /\ askedAt' <= version
      BY <1>1, <2>1 DEF StartTyped
    <3> QED
      BY <1>2, <2>1, <2>2, <3>1, <3>2, <3>3, ConnectKeeps
  <2> QED
    BY <2>3, <2>4
<1>5. CASE ReturnFromHistory
  <2>1. PICK s \in Slots : Connect(s, socket)
    BY <1>5 DEF ReturnFromHistory
  <2>2. /\ screen = "history" /\ screen' = "visible" /\ dot' = FALSE /\ askedAt' = version
        /\ UNCHANGED <<boot, done, retryTimer, cached, version, spent>>
    BY <1>5 DEF ReturnFromHistory
  <2>3. chat.current = NoSocket /\ version \in Nat /\ version <= version
    BY <1>1, <2>2 DEF StartOnce, StartTyped
  <2> QED
    BY <1>2, <2>1, <2>2, <2>3, ConnectKeeps
<1>6. CASE Show
  <2>1. /\ screen \in {"hidden", "asleep"} /\ screen' = "visible"
        /\ askedAt' = IF Ready THEN version ELSE askedAt
        /\ UNCHANGED <<done, cached, version, spent>> /\ RetryIncompleteBoot
    BY <1>6 DEF Show
  <2>2. askedAt' \in Nat /\ askedAt' <= version /\ (Ready => askedAt' = version)
    BY <1>1, <2>1 DEF StartTyped
  <2>3. CASE Ready /\ Suspended
    <3> DEFINE before == IF chat.current = NoSocket THEN socket
                       ELSE [socket EXCEPT ![chat.current].state = "closing"]
    <3>1. PICK s \in Slots : Connect(s, before) /\ dot' = FALSE
      BY <1>6, <2>3 DEF Show, Reconnect
    <3>2. socket \in [Slots -> Sockets] /\ chat.current \in Slots \cup {NoSocket}
      BY <1>1 DEF StartTyped
    <3>3. before \in [Slots -> Sockets]
      <4>1. CASE chat.current = NoSocket
        BY <3>2, <4>1
      <4>2. CASE chat.current # NoSocket
        <5>1. [socket[chat.current] EXCEPT !.state = "closing"] \in Sockets
          BY <3>2, <4>2 DEF Sockets
        <5>2. before = [socket EXCEPT ![chat.current] = [socket[chat.current] EXCEPT !.state = "closing"]]
          BY <4>2
        <5> HIDE DEF before
        <5> QED
          BY <3>2, <5>1, <5>2
      <4> QED
        BY <4>1, <4>2
    <3>4. \A r \in Slots : before[r].state \notin {"connecting", "open"}
      BY <1>1, <3>2 DEF HeldIsLive, Sockets
    <3>5. boot' = boot /\ retryTimer' = retryTimer /\ screen' # "history" /\ screen # "history"
      BY <2>1, <2>3 DEF RetryIncompleteBoot
    <3> HIDE DEF before
    <3> QED
      BY <2>1, <2>2, <3>1, <3>3, <3>4, <3>5, ConnectKeeps
  <2>4. CASE ~(Ready /\ Suspended)
    <3>1. UNCHANGED <<chat, socket, dot>>
      BY <1>6, <2>4 DEF Show
    <3>2. screen # "history" /\ (Ready => screen # "asleep")
      BY <2>1, <2>4 DEF Suspended
    <3>3. StartTyped'
      BY <1>1, <2>1, <2>2, <3>1 DEF StartTyped, RetryIncompleteBoot, NextStep
    <3>4. StartOnce'
      BY <1>1, <2>1, <3>1, <3>2 DEF StartOnce, RetryIncompleteBoot, Ready
    <3>5. NothingIsMissed'
      BY <1>1, <2>1, <2>2, <3>1, <3>2 DEF NothingIsMissed, Ready
    <3> QED
      BY <1>1, <2>1, <3>1, <3>2, <3>3, <3>4, <3>5 DEF HeldIsLive, DotIsTrue, IsOpen
  <2> QED
    BY <2>3, <2>4
<1> QED
  BY <1>3, <1>4, <1>5, <1>6

\* What happens to a connection happens to the one that is held.
LEMMA SocketKeeps ==
  ASSUME StartupBounds, StartInv, NEW s \in Slots,
         AcceptSocket(s) \/ Opened(s) \/ Deliver(s) \/ Closes(s) \/ LostAsleep(s)
  PROVE  StartInv'
<1> USE DEF StartInv
<1>1. StartTyped /\ StartOnce /\ HeldIsLive /\ DotIsTrue /\ NothingIsMissed /\ NoSocket \notin Slots
  BY DEF StartupBounds, NoSocket
<1>2. socket \in [Slots -> Sockets] /\ socket[s] \in Sockets /\ version \in Nat
  BY <1>1 DEF StartTyped
<1>3. ASSUME NEW v \in Sockets, socket' = [socket EXCEPT ![s] = v]
      PROVE  socket' \in [Slots -> Sockets] /\ socket'[s] = v /\ \A r \in Slots : r # s => socket'[r] = socket[r]
  BY <1>2, <1>3
<1>4. CASE AcceptSocket(s)
  <2> DEFINE v == [socket[s] EXCEPT !.registered = TRUE]
  <2>1. v \in Sockets /\ v.state = "connecting"
    BY <1>2, <1>4 DEF AcceptSocket, Sockets
  <2>2. socket' = [socket EXCEPT ![s] = v] /\ socket[s].state = "connecting"
        /\ UNCHANGED <<boot, done, retryTimer, cached, chat, dot, screen, version, askedAt, spent>>
    BY <1>4 DEF AcceptSocket
  <2> HIDE DEF v
  <2>3. socket' \in [Slots -> Sockets] /\ socket'[s] = v /\ \A r \in Slots : r # s => socket'[r] = socket[r]
    BY <1>3, <2>1, <2>2
  <2>4. StartTyped' /\ StartOnce'
    BY <1>1, <2>2, <2>3 DEF StartTyped, StartOnce, Ready
  <2>5. HeldIsLive' /\ NothingIsMissed'
    BY <1>1, <2>1, <2>2, <2>3 DEF HeldIsLive, NothingIsMissed, Ready
  <2>6. DotIsTrue'
    BY <1>1, <2>1, <2>2, <2>3 DEF DotIsTrue, IsOpen, StartTyped
  <2> QED
    BY <2>4, <2>5, <2>6
<1>5. CASE Opened(s)
  <2> DEFINE v == [socket[s] EXCEPT !.state = "open", !.since = Ready]
  <2>1. v \in Sockets /\ v.state = "open" /\ v.registered /\ (v.since => Ready)
    <3>1. \A b \in BOOLEAN : LET w == [socket[s] EXCEPT !.state = "open", !.since = b] IN
            w \in Sockets /\ w.state = "open" /\ w.since = b /\ w.registered = socket[s].registered
      BY <1>2 DEF Sockets
    <3>2. socket[s].registered
      BY <1>5 DEF Opened
    <3>3. CASE Ready
      <4>1. v = [socket[s] EXCEPT !.state = "open", !.since = TRUE]
        BY <3>3, Zenon
      <4> QED
        BY <3>1, <3>2, <3>3, <4>1
    <3>4. CASE ~Ready
      <4>1. v = [socket[s] EXCEPT !.state = "open", !.since = FALSE]
        <5>1. Ready = FALSE
          BY <3>4 DEF Ready
        <5> QED
          BY <5>1, Zenon
      <4> QED
        BY <3>1, <3>2, <4>1
    <3> QED
      BY <3>3, <3>4
  <2>2. socket' = [socket EXCEPT ![s] = v] /\ socket[s].state = "connecting"
        /\ UNCHANGED <<screen, done, cached, chat, version, spent>>
    BY <1>5 DEF Opened
  <2> HIDE DEF v
  <2>3. socket' \in [Slots -> Sockets] /\ socket'[s] = v /\ \A r \in Slots : r # s => socket'[r] = socket[r]
    BY <1>3, <2>1, <2>2
  <2>4. chat.current = s
    BY <1>1, <2>2 DEF HeldIsLive
  <2>5. Ready => ~AtLogin
    BY <1>1 DEF StartOnce, AtLogin
  <2>6. \/ AtLogin /\ UNCHANGED <<dot, boot, retryTimer, askedAt>>
        \/ /\ ~AtLogin /\ dot' = TRUE /\ RetryIncompleteBoot /\ askedAt' = IF Ready THEN version ELSE askedAt
    BY <1>5, <2>4 DEF Opened, Current, Missed
  <2>7. StartTyped'
    BY <1>1, <1>2, <2>2, <2>3, <2>6 DEF StartTyped, RetryIncompleteBoot, NextStep
  <2>8. StartOnce'
    BY <1>1, <2>2, <2>6 DEF StartOnce, RetryIncompleteBoot, Ready
  <2>9. NothingIsMissed'
    BY <1>1, <2>1, <2>2, <2>3, <2>5, <2>6, <2>4 DEF NothingIsMissed, Ready, HeldIsLive
  <2>10. HeldIsLive'
    BY <1>1, <2>2, <2>3, <2>4 DEF HeldIsLive
  <2>11. DotIsTrue'
    BY <1>1, <2>1, <2>2, <2>3, <2>4 DEF DotIsTrue, IsOpen
  <2> QED
    BY <2>7, <2>8, <2>9, <2>10, <2>11
<1>6. CASE Deliver(s)
  <2> DEFINE v == [socket[s] EXCEPT !.inbox = FALSE]
  <2>1. v \in Sockets /\ v.state = "open"
    BY <1>2, <1>6 DEF Deliver, Sockets
  <2>2. socket' = [socket EXCEPT ![s] = v] /\ socket[s].state = "open"
        /\ UNCHANGED <<boot, done, retryTimer, cached, chat, dot, screen, version, spent>>
    BY <1>6 DEF Deliver
  <2>3. v.registered = socket[s].registered /\ v.since = socket[s].since
    BY <1>2 DEF Sockets
  <2> HIDE DEF v
  <2>4. socket' \in [Slots -> Sockets] /\ socket'[s] = v /\ \A r \in Slots : r # s => socket'[r] = socket[r]
    BY <1>3, <2>1, <2>2
  <2>5. chat.current = s /\ askedAt' = version
    BY <1>1, <1>6, <2>2 DEF HeldIsLive, Deliver, Current
  <2>6. StartTyped' /\ StartOnce'
    BY <1>1, <1>2, <2>2, <2>4, <2>5 DEF StartTyped, StartOnce, Ready
  <2>7. HeldIsLive' /\ NothingIsMissed'
    BY <1>1, <2>1, <2>2, <2>3, <2>4, <2>5 DEF HeldIsLive, NothingIsMissed, Ready
  <2>8. DotIsTrue'
    BY <1>1, <2>1, <2>2, <2>4, <2>5 DEF DotIsTrue, IsOpen
  <2> QED
    BY <2>6, <2>7, <2>8
<1>7. CASE Closes(s)
  <2>1. Closed \in Sockets /\ Closed.state = "closed"
    BY DEF Closed, Sockets
  <2>2. socket' = [socket EXCEPT ![s] = Closed]
        /\ UNCHANGED <<boot, done, retryTimer, cached, screen, version, askedAt>>
    BY <1>7 DEF Closes
  <2>3. socket' \in [Slots -> Sockets] /\ socket'[s] = Closed /\ \A r \in Slots : r # s => socket'[r] = socket[r]
    BY <1>3, <2>1, <2>2
  <2>4. NothingIsMissed'
    BY <1>1, <2>1, <2>2, <2>3 DEF NothingIsMissed, Ready
  <2>5. CASE chat.current = s
    <3>1. dot' = FALSE /\ chat' = [chat EXCEPT !.current = NoSocket, !.timer = TRUE]
      BY <1>7, <2>5 DEF Closes, Current, Planned
    <3>2. chat' \in [made : BOOLEAN, current : Slots \cup {NoSocket}, timer : BOOLEAN] /\ chat'.current = NoSocket
          /\ screen # "history"
      BY <1>1, <2>5, <3>1 DEF StartTyped, StartOnce
    <3>3. StartTyped' /\ StartOnce'
      BY <1>1, <2>2, <2>3, <3>2 DEF StartTyped, StartOnce, Ready
    <3>4. HeldIsLive'
      BY <1>1, <2>1, <2>3, <2>5 DEF HeldIsLive
    <3> QED
      BY <2>4, <3>1, <3>3, <3>4 DEF DotIsTrue
  <2>6. CASE chat.current # s
    <3>1. UNCHANGED <<dot, chat>>
      BY <1>7, <2>6 DEF Closes, Current
    <3>2. StartTyped' /\ StartOnce'
      BY <1>1, <2>2, <2>3, <3>1 DEF StartTyped, StartOnce, Ready
    <3>3. HeldIsLive'
      BY <1>1, <2>1, <2>3, <3>1 DEF HeldIsLive
    <3>4. DotIsTrue'
      BY <1>1, <2>2, <2>3, <2>6, <3>1 DEF DotIsTrue, IsOpen, StartTyped
    <3> QED
      BY <2>4, <3>2, <3>3, <3>4
  <2> QED
    BY <2>5, <2>6
<1>8. CASE LostAsleep(s)
  <2> DEFINE v == [socket[s] EXCEPT !.registered = FALSE, !.inbox = FALSE]
  <2>1. v \in Sockets /\ v.state = "open" /\ v.since = socket[s].since /\ ~v.registered
    BY <1>2, <1>8 DEF LostAsleep, Sockets
  <2>2. socket' = [socket EXCEPT ![s] = v] /\ socket[s].state = "open" /\ screen = "asleep"
        /\ UNCHANGED <<boot, done, retryTimer, cached, chat, dot, screen, version, askedAt>>
    BY <1>8 DEF LostAsleep
  <2> HIDE DEF v
  <2>3. socket' \in [Slots -> Sockets] /\ socket'[s] = v /\ \A r \in Slots : r # s => socket'[r] = socket[r]
    BY <1>3, <2>1, <2>2
  <2>4. StartTyped' /\ StartOnce'
    BY <1>1, <2>2, <2>3 DEF StartTyped, StartOnce, Ready
  <2>5. HeldIsLive' /\ NothingIsMissed'
    BY <1>1, <2>1, <2>2, <2>3 DEF HeldIsLive, NothingIsMissed, Ready
  <2>6. DotIsTrue'
    BY <1>1, <2>1, <2>2, <2>3 DEF DotIsTrue, IsOpen, StartTyped
  <2> QED
    BY <2>4, <2>5, <2>6
<1> QED
  BY <1>4, <1>5, <1>6, <1>7, <1>8

\* The list is asked for or changes, and the page leaves the screen.
LEMMA ListKeeps ==
  ASSUME StartupBounds, StartInv, AskList \/ Change \/ Hide \/ Sleep \/ Focus \/ VisitAdministration
  PROVE  StartInv'
<1> USE DEF StartInv
<1>1. StartTyped /\ StartOnce /\ HeldIsLive /\ DotIsTrue /\ NothingIsMissed /\ NoSocket \notin Slots
  BY DEF StartupBounds, NoSocket
<1>2. socket \in [Slots -> Sockets] /\ version \in Nat /\ chat.current \in Slots \cup {NoSocket}
  BY <1>1 DEF StartTyped
<1>3. CASE AskList \/ Hide \/ Sleep \/ Focus
  <2> USE <1>1, <1>2, <1>3 DEF AskList, Hide, Sleep, Focus
  <2>1. UNCHANGED <<done, retryTimer, chat, socket, dot, version>> /\ (askedAt' = askedAt \/ askedAt' = version)
        /\ (boot' = boot \/ (boot = "cache" /\ boot' = "list"))
    OBVIOUS
  <2>2. screen' = screen \/ (screen = "visible" /\ screen' = "hidden") \/ (screen = "hidden" /\ screen' = "asleep")
    OBVIOUS
  <2>3. StartTyped' /\ StartOnce'
    BY <2>1, <2>2 DEF StartTyped, StartOnce, Ready
  <2>4. HeldIsLive' /\ DotIsTrue'
    BY <2>1, <2>2 DEF HeldIsLive, DotIsTrue, IsOpen
  <2>5. NothingIsMissed'
    BY <2>1, <2>2 DEF NothingIsMissed, Ready
  <2> QED
    BY <2>3, <2>4, <2>5
<1>4. CASE Change
  <2>1. /\ version' = version + 1
        /\ socket' = [s \in Slots |-> [socket[s] EXCEPT !.inbox = @ \/ socket[s].registered]]
        /\ UNCHANGED <<boot, done, retryTimer, cached, chat, dot, screen, askedAt, spent>>
    BY <1>4 DEF Change
  <2>2. \A s \in Slots : /\ socket'[s] \in Sockets /\ socket'[s].state = socket[s].state
                         /\ socket'[s].registered = socket[s].registered /\ socket'[s].since = socket[s].since
                         /\ socket'[s].registered => socket'[s].inbox
    BY <1>2, <2>1 DEF Sockets
  <2>3. socket' \in [Slots -> Sockets]
    BY <2>1, <2>2
  <2>4. StartTyped' /\ StartOnce'
    BY <1>1, <2>1, <2>3 DEF StartTyped, StartOnce, Ready
  <2>5. HeldIsLive' /\ NothingIsMissed'
    BY <1>1, <2>1, <2>2 DEF HeldIsLive, NothingIsMissed, Ready
  <2>6. DotIsTrue'
    BY <1>1, <1>2, <2>1, <2>2 DEF DotIsTrue, IsOpen
  <2> QED
    BY <2>4, <2>5, <2>6
<1>5. CASE VisitAdministration
  <2>1. /\ Ready /\ screen' = "history"
        /\ chat' = [made |-> FALSE, current |-> NoSocket, timer |-> FALSE]
        /\ socket' = IF chat.current = NoSocket THEN socket
                     ELSE [socket EXCEPT ![chat.current] = [socket[chat.current] EXCEPT !.state = "closing"]]
        /\ UNCHANGED <<boot, done, retryTimer, cached, dot, version, askedAt>>
    BY <1>5 DEF VisitAdministration
  <2>2. \A s \in Slots : [socket[s] EXCEPT !.state = "closing"] \in Sockets
                         /\ [socket[s] EXCEPT !.state = "closing"].state = "closing"
    BY <1>2 DEF Sockets
  <2>3. socket' \in [Slots -> Sockets]
    <3>1. CASE chat.current = NoSocket
      BY <1>2, <2>1, <3>1
    <3>2. CASE chat.current # NoSocket
      BY <1>2, <2>1, <2>2, <3>2
    <3> QED
      BY <3>1, <3>2
  <2>4. \A s \in Slots : socket'[s].state \notin {"connecting", "open"}
    <3>1. \A s \in Slots : s # chat.current => socket[s].state \notin {"connecting", "open"} /\ socket'[s] = socket[s]
      BY <1>1, <1>2, <2>1 DEF HeldIsLive
    <3>2. \A s \in Slots : s = chat.current => socket'[s] = [socket[s] EXCEPT !.state = "closing"]
      BY <1>1, <1>2, <2>1
    <3> QED
      BY <2>2, <3>1, <3>2
  <2>5. StartTyped' /\ StartOnce'
    BY <1>1, <2>1, <2>3 DEF StartTyped, StartOnce, Ready
  <2>6. HeldIsLive' /\ NothingIsMissed' /\ DotIsTrue'
    BY <2>1, <2>4 DEF HeldIsLive, NothingIsMissed, DotIsTrue
  <2> QED
    BY <2>5, <2>6
<1> QED
  BY <1>3, <1>4, <1>5

\* Every step of the page keeps the invariant.
LEMMA StartNextInv ==
  ASSUME StartupBounds, StartInv, [StartupNext]_startupVars PROVE StartInv'
<1>1. CASE UNCHANGED startupVars
  BY <1>1 DEF startupVars, StartInv, StartTyped, StartOnce, HeldIsLive, DotIsTrue, NothingIsMissed, Ready, IsOpen
<1> QED
  BY <1>1, BootKeeps, SocketMade, SocketKeeps, ListKeeps DEF StartupNext

\* What the invariant says of the connection and of what was missed.
LEMMA StartInvConnects ==
  ASSUME StartupBounds, StartInv PROVE OneConnection /\ MissedIsAskedFor /\ StartupTypeOK
<1> USE DEF StartInv
<1>1. \A s \in Live : chat.current = s
  BY DEF HeldIsLive, Live
<1>2. Cardinality(Live) <= 1
  <2>1. Live \subseteq {chat.current}
    BY <1>1
  <2>2. IsFiniteSet({chat.current}) /\ Cardinality({chat.current}) = 1
    BY FS_Singleton
  <2> QED
    BY <2>1, <2>2, FS_Subset
<1>3. OneConnection
  BY <1>1, <1>2 DEF OneConnection, DotIsTrue
<1>4. MissedIsAskedFor
  <2> SUFFICES ASSUME Ready, screen = "visible", IsOpen(chat.current),
                      socket[chat.current].since, ~socket[chat.current].inbox
               PROVE  askedAt = version
    BY DEF MissedIsAskedFor
  <2>1. chat.current \in Slots
    BY DEF StartTyped, IsOpen
  <2> QED
    BY <2>1 DEF NothingIsMissed, IsOpen
<1>5. StartupTypeOK
  BY DEF StartTyped, StartupTypeOK, Sockets
<1> QED
  BY <1>3, <1>4, <1>5

-----------------------------------------------------------------------------
(* The thumbnails loaded ahead: what a session spends is what it has not left, and whoever     *)
(* asks for a file is the one its load belongs to.                                             *)

Steps == {"start", "read", "fetch", "save", "joined"}
TasksUpTo(m) == [id : 1..m, file : Files, session : Sessions]
RunsUpTo(m) == [task : TasksUpTo(m), step : Steps, joins : 0..m]
LoadsItself(r) == r.step \in {"read", "fetch", "save"}

QueueTyped ==
  /\ asked \in Nat /\ waiting \in Seq(TasksUpTo(asked))
  /\ running \subseteq RunsUpTo(asked)
  /\ IsFiniteSet(running)
  /\ loading \in [Files -> 0..asked] /\ kept \subseteq Files
  /\ remaining \in [Sessions -> Nat] /\ fetched \in [Sessions -> Nat]

\* A thumbnail asked for waits or runs, once.
IdsOf(seq) == \A i, j \in DOMAIN seq : seq[i].id = seq[j].id => i = j
OnceEach ==
  /\ IdsOf(waiting)
  /\ \A r, q \in running : r.task.id = q.task.id => r = q
  /\ \A r \in running : \A i \in DOMAIN waiting : r.task.id # waiting[i].id

LoadsAreOwned == \A r \in running : LoadsItself(r) => loading[r.task.file] = r.task.id
BudgetIsShared == \A s \in Sessions : remaining[s] + fetched[s] = Budget

PreloadInv ==
  /\ QueueTyped /\ OnceEach /\ LoadsAreOwned /\ BudgetIsShared
  /\ Cardinality(running) <= Concurrency

\* The queue is empty and nothing is spent.
LEMMA PreloadInitInv == ASSUME PreloadBounds, PreloadInit PROVE PreloadInv
<1> USE DEF PreloadBounds, PreloadInit, NoTask
<1>1. QueueTyped
  <2>1. IsFiniteSet(running)
    BY FS_EmptySet
  <2>2. waiting \in Seq(TasksUpTo(asked))
    OBVIOUS
  <2> QED
    BY <2>1, <2>2 DEF QueueTyped
<1>2. Cardinality(running) <= Concurrency
  BY FS_EmptySet
<1> QED
  BY <1>1, <1>2 DEF PreloadInv, OnceEach, IdsOf, LoadsAreOwned, BudgetIsShared

\* What is left of a queue once its first n elements were taken.
LEMMA RestOf ==
  ASSUME NEW T, NEW q \in Seq(T), NEW n \in 0..Len(q)
  PROVE  /\ SubSeq(q, n + 1, Len(q)) \in Seq(T)
         /\ Len(SubSeq(q, n + 1, Len(q))) = Len(q) - n
         /\ \A i \in 1..(Len(q) - n) : SubSeq(q, n + 1, Len(q))[i] = q[n + i]
<1>1. Len(q) \in Nat /\ \A i \in 1..Len(q) : q[i] \in T
  OBVIOUS
<1>2. n + 1 \in Int /\ Len(q) \in Int /\ \A i \in (n + 1)..Len(q) : q[i] \in T
  BY <1>1
<1>3. SubSeq(q, n + 1, Len(q)) \in Seq(T)
  BY <1>2
<1>4. Len(SubSeq(q, n + 1, Len(q))) = Len(q) - n
  BY <1>1, <1>2
<1>5. \A i \in 1..(Len(q) - n) : SubSeq(q, n + 1, Len(q))[i] = q[n + i]
  BY <1>1, <1>2
<1> QED
  BY <1>3, <1>4, <1>5

\* Pumping starts tasks in their order, as many as there is room for.
Started(t) == [task |-> t, step |-> "start", joins |-> NoTask]
LEMMA PumpStarts ==
  ASSUME PreloadBounds, NEW T, NEW queue \in Seq(T), NEW active, IsFiniteSet(active),
         Cardinality(active) <= Concurrency, Pumped(queue, active)
  PROVE  \E n \in 0..Len(queue) :
           /\ waiting' = SubSeq(queue, n + 1, Len(queue))
           /\ running' = active \cup {Started(queue[i]) : i \in 1..n}
           /\ IsFiniteSet(running') /\ Cardinality(running') <= Concurrency
<1> DEFINE n == Min({Len(queue), Free(active)})
<1>1. Cardinality(active) \in Nat /\ Concurrency \in Nat /\ Len(queue) \in Nat
  BY FS_CardinalityType DEF PreloadBounds
<1>2. Free(active) \in Nat
  BY <1>1 DEF Free
<1>3. n \in {Len(queue), Free(active)} /\ n <= Len(queue) /\ n <= Free(active)
  <2>1. \E x \in {Len(queue), Free(active)} : \A y \in {Len(queue), Free(active)} : x =< y
    <3>1. CASE Len(queue) <= Free(active)
      BY <3>1, <1>1, <1>2
    <3>2. CASE ~(Len(queue) <= Free(active))
      <4>1. Free(active) <= Len(queue) /\ Free(active) <= Free(active)
        BY <3>2, <1>1, <1>2
      <4> QED
        BY <4>1
    <3> QED
      BY <3>1, <3>2
  <2> QED
    BY <2>1 DEF Min
<1>4. n \in 0..Len(queue)
  BY <1>1, <1>2, <1>3
<1> DEFINE new == {Started(queue[i]) : i \in 1..n}
<1>5. IsFiniteSet(new) /\ Cardinality(new) <= n
  <2> DEFINE f == [i \in 1..n |-> Started(queue[i])]
  <2>1. f \in Surjection(1..n, new)
    BY DEF Surjection
  <2>2. IsFiniteSet(1..n) /\ Cardinality(1..n) = n
    BY <1>4, FS_Interval
  <2> QED
    BY <2>1, <2>2, FS_Surjection
<1>6. IsFiniteSet(active \cup new) /\ Cardinality(active \cup new) <= Concurrency
  <2>1. IsFiniteSet(active \cup new)
        /\ Cardinality(active \cup new) = Cardinality(active) + Cardinality(new) - Cardinality(active \cap new)
    BY <1>5, FS_Union
  <2>2. IsFiniteSet(active \cap new) /\ Cardinality(active \cap new) \in Nat
    BY <1>5, FS_Subset, FS_CardinalityType
  <2>3. Cardinality(new) \in Nat
    BY <1>5, FS_CardinalityType
  <2>4. Cardinality(active) + n <= Concurrency
    BY <1>1, <1>2, <1>3, <1>4 DEF Free
  <2> QED
    BY <2>1, <2>2, <2>3, <2>4, <1>1, <1>4, <1>5
<1>7. waiting' = SubSeq(queue, n + 1, Len(queue)) /\ running' = active \cup new
  BY DEF Pumped, Started
<1> HIDE DEF n
<1> QED
  BY <1>4, <1>6, <1>7

\* Pumping starts each task once, and leaves those that run as they are.
LEMMA PumpKeeps ==
  ASSUME PreloadBounds, NEW m \in Nat, asked' = m, NEW queue \in Seq(TasksUpTo(m)), IdsOf(queue),
         NEW active \in SUBSET RunsUpTo(m), IsFiniteSet(active), Cardinality(active) <= Concurrency,
         \A r, q \in active : r.task.id = q.task.id => r = q,
         \A r \in active : \A i \in DOMAIN queue : r.task.id # queue[i].id,
         Pumped(queue, active)
  PROVE  /\ waiting' \in Seq(TasksUpTo(m)) /\ running' \subseteq RunsUpTo(m)
         /\ IsFiniteSet(running') /\ Cardinality(running') <= Concurrency
         /\ OnceEach'
         /\ \A r \in running' : LoadsItself(r) => r \in active
<1>1. PICK n \in 0..Len(queue) :
           /\ waiting' = SubSeq(queue, n + 1, Len(queue))
           /\ running' = active \cup {Started(queue[i]) : i \in 1..n}
           /\ IsFiniteSet(running') /\ Cardinality(running') <= Concurrency
  BY PumpStarts
<1>2. Len(queue) \in Nat /\ DOMAIN queue = 1..Len(queue)
      /\ \A i \in 1..Len(queue) : queue[i] \in TasksUpTo(m)
  OBVIOUS
<1>3. waiting' \in Seq(TasksUpTo(m)) /\ Len(waiting') = Len(queue) - n
      /\ \A i \in 1..Len(waiting') : waiting'[i] = queue[n + i]
  BY <1>1, RestOf
<1>4. \A i \in 1..n : i \in DOMAIN queue /\ Started(queue[i]) \in RunsUpTo(m)
  BY <1>1, <1>2 DEF Started, RunsUpTo, Steps, NoTask
<1>5. \A i \in DOMAIN waiting' : n + i \in DOMAIN queue /\ n + i > n /\ waiting'[i] = queue[n + i]
  BY <1>1, <1>2, <1>3
<1>6. \A i \in 1..n : Started(queue[i]).task = queue[i]
  BY DEF Started
<1>7. OnceEach'
  <2>1. IdsOf(waiting')
    <3> SUFFICES ASSUME NEW i \in DOMAIN waiting', NEW j \in DOMAIN waiting', waiting'[i].id = waiting'[j].id
                 PROVE  i = j
      BY DEF IdsOf
    <3>1. i \in 1..Len(waiting') /\ j \in 1..Len(waiting')
      BY <1>3
    <3>2. queue[n + i].id = queue[n + j].id /\ n + i \in DOMAIN queue /\ n + j \in DOMAIN queue
      BY <1>5
    <3>3. n + i = n + j
      BY <3>2 DEF IdsOf
    <3> QED
      BY <3>1, <3>3
  <2>2. \A r, q \in running' : r.task.id = q.task.id => r = q
    <3> SUFFICES ASSUME NEW r \in running', NEW q \in running', r.task.id = q.task.id
                 PROVE  r = q
      OBVIOUS
    <3>1. CASE r \in active /\ q \in active
      BY <3>1
    <3>2. CASE r \notin active /\ q \notin active
      <4>1. PICK i \in 1..n, j \in 1..n : r = Started(queue[i]) /\ q = Started(queue[j])
        BY <3>2, <1>1
      <4>2. queue[i].id = queue[j].id /\ i \in DOMAIN queue /\ j \in DOMAIN queue
        BY <4>1, <1>4, <1>6
      <4> QED
        BY <4>1, <4>2 DEF IdsOf
    <3>3. CASE r \in active /\ q \notin active
      BY <3>3, <1>1, <1>4, <1>6
    <3>4. CASE r \notin active /\ q \in active
      BY <3>4, <1>1, <1>4, <1>6
    <3> QED
      BY <3>1, <3>2, <3>3, <3>4
  <2>3. ASSUME NEW r \in running', NEW i \in DOMAIN waiting' PROVE r.task.id # waiting'[i].id
    <3>1. CASE r \in active
      BY <3>1, <1>5
    <3>2. CASE r \notin active
      <4>1. PICK j \in 1..n : r = Started(queue[j])
        BY <3>2, <1>1
      <4>2. j # n + i /\ j \in DOMAIN queue /\ n + i \in DOMAIN queue
        BY <1>1, <1>4, <1>5
      <4> QED
        BY <4>1, <4>2, <1>5, <1>6 DEF IdsOf
    <3> QED
      BY <3>1, <3>2
  <2> QED
    BY <2>1, <2>2, <2>3 DEF OnceEach
<1>8. \A r \in running' : LoadsItself(r) => r \in active
  BY <1>1 DEF LoadsItself, Started
<1> QED
  BY <1>1, <1>3, <1>4, <1>7, <1>8

\* A task that ends frees its file, and no other.
LEMMA TaskEndsKeeps ==
  ASSUME PreloadBounds, PreloadInv, NEW r \in running, TaskEnds(r), UNCHANGED asked
  PROVE  /\ waiting' \in Seq(TasksUpTo(asked)) /\ running' \subseteq RunsUpTo(asked)
         /\ IsFiniteSet(running') /\ Cardinality(running') <= Concurrency
         /\ loading' \in [Files -> 0..asked]
         /\ OnceEach' /\ LoadsAreOwned'
<1> USE DEF PreloadInv, QueueTyped
<1>1. IsFiniteSet(running \ {r}) /\ Cardinality(running \ {r}) <= Concurrency
  <2>1. Cardinality(running) \in Nat /\ Concurrency \in Nat
    BY FS_CardinalityType DEF PreloadBounds
  <2> QED
    <3>1. IsFiniteSet(running \ {r}) /\ Cardinality(running \ {r}) = Cardinality(running) - 1
      BY FS_RemoveElement
    <3> QED
      BY <2>1, <3>1
<1>2. Pumped(waiting, running \ {r})
  BY DEF TaskEnds
<1>3. /\ waiting' \in Seq(TasksUpTo(asked)) /\ running' \subseteq RunsUpTo(asked)
      /\ IsFiniteSet(running') /\ Cardinality(running') <= Concurrency
      /\ OnceEach'
      /\ \A q \in running' : LoadsItself(q) => q \in running \ {r}
  <2>1. IdsOf(waiting) /\ asked' = asked /\ asked \in Nat
    BY DEF OnceEach
  <2>2. \A q, s \in running \ {r} : q.task.id = s.task.id => q = s
    BY DEF OnceEach
  <2>3. \A q \in running \ {r} : \A i \in DOMAIN waiting : q.task.id # waiting[i].id
    BY DEF OnceEach
  <2>4. running \ {r} \in SUBSET RunsUpTo(asked)
    OBVIOUS
  <2> QED
    BY <1>1, <1>2, <2>1, <2>2, <2>3, <2>4, PumpKeeps
<1>4. loading' = [f \in Files |-> IF loading[f] = r.task.id THEN NoTask ELSE loading[f]]
  BY DEF TaskEnds
<1>5. loading' \in [Files -> 0..asked]
  BY <1>4 DEF NoTask
<1>6. LoadsAreOwned'
  <2> SUFFICES ASSUME NEW q \in running', LoadsItself(q) PROVE loading'[q.task.file] = q.task.id
    BY DEF LoadsAreOwned
  <2>1. q \in running /\ q # r
    BY <1>3
  <2>2. q.task.id # r.task.id /\ q.task.file \in Files /\ loading[q.task.file] = q.task.id
    BY <2>1 DEF OnceEach, LoadsAreOwned, RunsUpTo, TasksUpTo
  <2> QED
    BY <2>2, <1>4
<1> QED
  BY <1>3, <1>5, <1>6

\* A page asks for its thumbnails under names that are new.
LEMMA QueueKeeps ==
  ASSUME PreloadBounds, PreloadInv, NEW page \in Pages, NEW s \in Sessions, QueuePage(page, s)
  PROVE  PreloadInv'
<1> USE DEF PreloadInv, QueueTyped
<1> DEFINE task(i) == [id |-> asked + i, file |-> page[i], session |-> s]
           added == [i \in DOMAIN page |-> task(i)]
<1>1. /\ page \in Seq(Files) /\ Len(page) \in Nat /\ DOMAIN page = 1..Len(page)
      /\ \A i \in 1..Len(page) : page[i] \in Files
  BY DEF PreloadBounds
<1>2. asked' = asked + Len(page) /\ asked' \in Nat /\ asked \in Nat
  BY <1>1 DEF QueuePage
<1>3. \A m \in Nat, k \in Nat : k >= m => TasksUpTo(m) \subseteq TasksUpTo(k) /\ RunsUpTo(m) \subseteq RunsUpTo(k)
  BY DEF TasksUpTo, RunsUpTo
<1>4. TasksUpTo(asked) \subseteq TasksUpTo(asked') /\ RunsUpTo(asked) \subseteq RunsUpTo(asked')
  <2>1. asked' >= asked
    BY <1>1, <1>2
  <2> QED
    BY <1>2, <1>3, <2>1
<1>5. \A i \in 1..Len(page) : task(i) \in TasksUpTo(asked + Len(page)) /\ task(i).id = asked + i
  BY <1>1, <1>2 DEF TasksUpTo
<1>6. added \in Seq(TasksUpTo(asked')) /\ Len(added) = Len(page)
      /\ \A i \in 1..Len(page) : added[i] = task(i)
  BY <1>1, <1>2, <1>5
<1> HIDE DEF added, task
<1> DEFINE queue == waiting \o added
<1>7. waiting \in Seq(TasksUpTo(asked')) /\ Len(waiting) \in Nat
  BY <1>4
<1>8. /\ queue \in Seq(TasksUpTo(asked')) /\ Len(queue) = Len(waiting) + Len(added)
      /\ \A i \in 1..Len(queue) :
           queue[i] = IF i <= Len(waiting) THEN waiting[i] ELSE added[i - Len(waiting)]
  BY <1>6, <1>7
<1>9. \A i \in DOMAIN queue :
        \/ i \in DOMAIN waiting /\ queue[i] = waiting[i] /\ waiting[i].id \in 1..asked
        \/ i > Len(waiting) /\ queue[i].id = asked + (i - Len(waiting))
  <2> SUFFICES ASSUME NEW i \in DOMAIN queue
               PROVE  \/ i \in DOMAIN waiting /\ queue[i] = waiting[i] /\ waiting[i].id \in 1..asked
                      \/ i > Len(waiting) /\ queue[i].id = asked + (i - Len(waiting))
    OBVIOUS
  <2>1. i \in 1..(Len(waiting) + Len(page)) /\ i \in 1..Len(queue)
    BY <1>6, <1>8
  <2>2. CASE i <= Len(waiting)
    <3>1. i \in DOMAIN waiting /\ queue[i] = waiting[i]
      BY <2>1, <2>2, <1>7, <1>8
    <3>2. waiting[i] \in TasksUpTo(asked)
      BY <3>1
    <3> QED
      BY <3>1, <3>2 DEF TasksUpTo
  <2>3. CASE ~(i <= Len(waiting))
    <3>1. i - Len(waiting) \in 1..Len(page) /\ i > Len(waiting)
      BY <2>1, <2>3, <1>1, <1>7
    <3>2. queue[i] = added[i - Len(waiting)]
      BY <2>1, <2>3, <1>8
    <3> QED
      BY <3>1, <3>2, <1>5, <1>6
  <2> QED
    BY <2>2, <2>3
<1> HIDE DEF queue
<1>10. \A i \in DOMAIN queue : i \in Nat
  BY <1>8
<1>11. IdsOf(queue)
  <2> SUFFICES ASSUME NEW i \in DOMAIN queue, NEW j \in DOMAIN queue, queue[i].id = queue[j].id
               PROVE  i = j
    BY DEF IdsOf
  <2>1. IdsOf(waiting)
    BY DEF OnceEach
  <2>2. i \in Nat /\ j \in Nat /\ asked \in Nat /\ Len(waiting) \in Nat
    BY <1>2, <1>7, <1>10
  <2>3. \/ i \in DOMAIN waiting /\ queue[i] = waiting[i] /\ waiting[i].id \in 1..asked
        \/ i > Len(waiting) /\ queue[i].id = asked + (i - Len(waiting))
    BY <1>9
  <2>4. \/ j \in DOMAIN waiting /\ queue[j] = waiting[j] /\ waiting[j].id \in 1..asked
        \/ j > Len(waiting) /\ queue[j].id = asked + (j - Len(waiting))
    BY <1>9
  <2>5. CASE i \in DOMAIN waiting /\ j \in DOMAIN waiting
    <3>1. DOMAIN waiting = 1..Len(waiting)
      BY <1>7
    <3>2. queue[i] = waiting[i] /\ queue[j] = waiting[j]
      BY <2>2, <2>3, <2>4, <2>5, <3>1
    <3> QED
      BY <2>1, <2>5, <3>2 DEF IdsOf
  <2>6. CASE i > Len(waiting) /\ j > Len(waiting)
    <3>1. DOMAIN waiting = 1..Len(waiting)
      BY <1>7
    <3>2. queue[i].id = asked + (i - Len(waiting)) /\ queue[j].id = asked + (j - Len(waiting))
      BY <2>2, <2>3, <2>4, <2>6, <3>1
    <3>3. asked + (i - Len(waiting)) = asked + (j - Len(waiting))
      BY <3>2
    <3> QED
      BY <2>2, <3>3
  <2>7. CASE i \in DOMAIN waiting /\ j > Len(waiting) /\ j \notin DOMAIN waiting
    <3>1. DOMAIN waiting = 1..Len(waiting)
      BY <1>7
    <3>2. queue[i].id \in 1..asked /\ queue[j].id = asked + (j - Len(waiting))
      BY <2>2, <2>3, <2>4, <2>7, <3>1
    <3>3. queue[i].id # queue[j].id
      BY <2>2, <2>7, <3>2
    <3> QED
      BY <3>3
  <2>8. CASE j \in DOMAIN waiting /\ i > Len(waiting) /\ i \notin DOMAIN waiting
    <3>1. DOMAIN waiting = 1..Len(waiting)
      BY <1>7
    <3>2. queue[j].id \in 1..asked /\ queue[i].id = asked + (i - Len(waiting))
      BY <2>2, <2>3, <2>4, <2>8, <3>1
    <3>3. queue[i].id # queue[j].id
      BY <2>2, <2>8, <3>2
    <3> QED
      BY <3>3
  <2> QED
    BY <2>3, <2>4, <2>5, <2>6, <2>7, <2>8
<1>12. \A r \in running : \A i \in DOMAIN queue : r.task.id # queue[i].id
  <2>1. \A r \in running : r.task.id \in 1..asked /\ \A i \in DOMAIN waiting : r.task.id # waiting[i].id
    BY DEF RunsUpTo, TasksUpTo, OnceEach
  <2> QED
    BY <2>1, <1>2, <1>7, <1>9, <1>10
<1>13. Pumped(queue, running)
  BY DEF QueuePage, queue, added, task
<1>14. /\ waiting' \in Seq(TasksUpTo(asked')) /\ running' \subseteq RunsUpTo(asked')
       /\ IsFiniteSet(running') /\ Cardinality(running') <= Concurrency
       /\ OnceEach'
       /\ \A r \in running' : LoadsItself(r) => r \in running
  <2>1. \A r, q \in running : r.task.id = q.task.id => r = q
    BY DEF OnceEach
  <2>2. running \in SUBSET RunsUpTo(asked')
    BY <1>4
  <2>3. PICK m \in Nat : m = asked'
    BY <1>2
  <2>4. queue \in Seq(TasksUpTo(m)) /\ running \in SUBSET RunsUpTo(m)
    <3>1. queue \in Seq(TasksUpTo(asked'))
      BY <1>8
    <3>2. queue \in Seq(TasksUpTo(m))
      BY <3>1, <2>3, Zenon
    <3>3. running \in SUBSET RunsUpTo(m)
      BY <2>2, <2>3, Zenon
    <3> QED
      BY <3>2, <3>3
  <2>5. /\ waiting' \in Seq(TasksUpTo(m)) /\ running' \subseteq RunsUpTo(m)
        /\ IsFiniteSet(running') /\ Cardinality(running') <= Concurrency
        /\ OnceEach'
        /\ \A r \in running' : LoadsItself(r) => r \in running
    BY <2>1, <2>3, <2>4, <1>11, <1>12, <1>13, PumpKeeps
  <2> QED
    BY <2>3, <2>5
<1>15. UNCHANGED <<loading, kept, remaining, fetched>>
  BY DEF QueuePage
<1>16. loading' \in [Files -> 0..asked']
  BY <1>15, <1>1, <1>2
<1>17. LoadsAreOwned'
  BY <1>14, <1>15 DEF LoadsAreOwned
<1>18. BudgetIsShared'
  BY <1>15 DEF BudgetIsShared
<1>19. QueueTyped'
  BY <1>2, <1>14, <1>15, <1>16
<1> QED
  BY <1>14, <1>17, <1>18, <1>19

\* A task that goes on is the task it was.
LEMMA GoesKeeps ==
  ASSUME PreloadBounds, PreloadInv, NEW r \in running, NEW q \in RunsUpTo(asked),
         q.task = r.task, running' = (running \ {r}) \cup {q}, UNCHANGED <<waiting, asked>>
  PROVE  /\ running' \subseteq RunsUpTo(asked)
         /\ IsFiniteSet(running') /\ Cardinality(running') <= Concurrency
         /\ OnceEach'
<1> USE DEF PreloadInv, QueueTyped
<1>1. Cardinality(running) \in Nat /\ Concurrency \in Nat
  BY FS_CardinalityType DEF PreloadBounds
<1>2. IsFiniteSet(running \ {r}) /\ Cardinality(running \ {r}) = Cardinality(running) - 1
  BY FS_RemoveElement
<1>3. IsFiniteSet(running') /\ Cardinality(running') <= Concurrency
  <2>1. /\ IsFiniteSet((running \ {r}) \cup {q})
        /\ Cardinality((running \ {r}) \cup {q})
             = IF q \in running \ {r} THEN Cardinality(running \ {r}) ELSE Cardinality(running \ {r}) + 1
    BY <1>2, FS_AddElement
  <2> QED
    BY <1>1, <1>2, <2>1
<1>4. OnceEach'
  BY DEF OnceEach
<1> QED
  BY <1>3, <1>4

\* A step of a task keeps the invariant.
LEMMA TaskKeeps ==
  ASSUME PreloadBounds, PreloadInv, NEW r \in running,
         Start(r) \/ Joined(r) \/ CacheAnswers(r) \/ Fetched(r) \/ Saved(r) \/ TaskFails(r)
  PROVE  PreloadInv'
<1>1. r \in RunsUpTo(asked) /\ r.task.file \in Files /\ r.task.session \in Sessions /\ r.task.id \in 1..asked
      /\ asked \in Nat
  BY DEF PreloadInv, QueueTyped, RunsUpTo, TasksUpTo
<1>2. asked' = asked
  BY DEF Start, Joined, CacheAnswers, Fetched, Saved, TaskFails
<1>3. ASSUME TaskEnds(r), UNCHANGED <<remaining, fetched>>, kept' \subseteq Files
      PROVE  PreloadInv'
  <2>1. /\ waiting' \in Seq(TasksUpTo(asked)) /\ running' \subseteq RunsUpTo(asked)
        /\ IsFiniteSet(running') /\ Cardinality(running') <= Concurrency
        /\ loading' \in [Files -> 0..asked]
        /\ OnceEach' /\ LoadsAreOwned'
    BY <1>2, <1>3, TaskEndsKeeps
  <2>2. QueueTyped'
    BY <1>1, <1>2, <1>3, <2>1 DEF QueueTyped, PreloadInv
  <2>3. BudgetIsShared'
    BY <1>3 DEF BudgetIsShared, PreloadInv
  <2> QED
    BY <2>1, <2>2, <2>3 DEF PreloadInv
<1>4. ASSUME NEW q \in RunsUpTo(asked), q.task = r.task, running' = (running \ {r}) \cup {q},
             UNCHANGED waiting, kept' = kept, loading' \in [Files -> 0..asked],
             remaining' \in [Sessions -> Nat], fetched' \in [Sessions -> Nat],
             LoadsAreOwned', BudgetIsShared'
      PROVE  PreloadInv'
  <2>1. /\ running' \subseteq RunsUpTo(asked)
        /\ IsFiniteSet(running') /\ Cardinality(running') <= Concurrency
        /\ OnceEach'
    BY <1>2, <1>4, GoesKeeps
  <2>2. QueueTyped'
    BY <1>1, <1>2, <1>4, <2>1 DEF QueueTyped, PreloadInv
  <2> QED
    BY <1>4, <2>1, <2>2 DEF PreloadInv
<1>5. \A step \in Steps : [r EXCEPT !.step = step] \in RunsUpTo(asked)
        /\ [r EXCEPT !.step = step].task = r.task /\ [r EXCEPT !.step = step].step = step
  BY <1>1 DEF RunsUpTo
<1>6. CASE Start(r)
  <2>1. loading[r.task.file] \in 0..asked /\ loading \in [Files -> 0..asked]
    BY <1>1 DEF PreloadInv, QueueTyped
  <2>2. UNCHANGED <<waiting, kept, remaining, fetched>> /\ remaining \in [Sessions -> Nat] /\ fetched \in [Sessions -> Nat]
    BY <1>6 DEF Start, PreloadInv, QueueTyped
  <2>3. BudgetIsShared'
    BY <2>2 DEF BudgetIsShared, PreloadInv
  <2>4. CASE loading[r.task.file] # NoTask
    <3> DEFINE q == [r EXCEPT !.step = "joined", !.joins = loading[r.task.file]]
    <3>1. q \in RunsUpTo(asked) /\ q.task = r.task /\ q.step = "joined"
      BY <1>1, <2>1 DEF RunsUpTo, Steps
    <3>2. running' = (running \ {r}) \cup {q} /\ loading' = loading
      BY <1>6, <2>4 DEF Start
    <3>3. LoadsAreOwned'
      BY <3>1, <3>2 DEF LoadsAreOwned, LoadsItself, PreloadInv
    <3> HIDE DEF q
    <3> QED
      BY <1>4, <2>1, <2>2, <2>3, <3>1, <3>2, <3>3
  <2>5. CASE loading[r.task.file] = NoTask
    <3> DEFINE q == [r EXCEPT !.step = "read"]
    <3>1. q \in RunsUpTo(asked) /\ q.task = r.task /\ q.step = "read"
      BY <1>5 DEF Steps
    <3>2. running' = (running \ {r}) \cup {q} /\ loading' = [loading EXCEPT ![r.task.file] = r.task.id]
      BY <1>6, <2>5 DEF Start, TaskGoes
    <3>3. LoadsAreOwned'
      <4> SUFFICES ASSUME NEW p \in running', LoadsItself(p) PROVE loading'[p.task.file] = p.task.id
        BY DEF LoadsAreOwned
      <4>1. CASE p = q
        BY <1>1, <2>1, <3>1, <3>2, <4>1
      <4>2. CASE p \in running
        <5>1. p.task.file \in Files /\ p.task.id \in 1..asked /\ loading[p.task.file] = p.task.id
          BY <4>2 DEF PreloadInv, QueueTyped, RunsUpTo, TasksUpTo, LoadsAreOwned
        <5>2. p.task.file # r.task.file
          BY <5>1, <2>5, <1>1 DEF NoTask
        <5> QED
          BY <5>1, <5>2, <3>2, <2>1
      <4> QED
        BY <3>2, <4>1, <4>2
    <3>4. loading' \in [Files -> 0..asked]
      BY <1>1, <2>1, <3>2
    <3> HIDE DEF q
    <3> QED
      BY <1>4, <2>2, <2>3, <3>1, <3>2, <3>3, <3>4
  <2> QED
    BY <2>4, <2>5
<1>7. CASE Joined(r)
  <2>1. TaskEnds(r) /\ UNCHANGED <<kept, remaining, fetched>> /\ kept \subseteq Files
    BY <1>7 DEF Joined, PreloadInv, QueueTyped
  <2> QED
    BY <2>1, <1>3
<1>8. CASE CacheAnswers(r)
  <2>1. CASE r.task.file \in kept \/ Size[r.task.file] > Largest \/ ~Affordable(r)
    <3>1. TaskEnds(r) /\ UNCHANGED <<kept, remaining, fetched>> /\ kept \subseteq Files
      BY <1>8, <2>1 DEF CacheAnswers, PreloadInv, QueueTyped
    <3> QED
      BY <3>1, <1>3
  <2>2. CASE ~(r.task.file \in kept \/ Size[r.task.file] > Largest \/ ~Affordable(r))
    <3> DEFINE q == [r EXCEPT !.step = "fetch"]
    <3>1. q \in RunsUpTo(asked) /\ q.task = r.task /\ q.step = "fetch"
      BY <1>5 DEF Steps
    <3>2. /\ running' = (running \ {r}) \cup {q}
          /\ remaining' = [remaining EXCEPT ![r.task.session] = @ - Size[r.task.file]]
          /\ fetched' = [fetched EXCEPT ![r.task.session] = @ + Size[r.task.file]]
          /\ UNCHANGED <<waiting, loading, kept>> /\ r.step = "read"
      BY <1>8, <2>2 DEF CacheAnswers, TaskGoes
    <3>3. Size[r.task.file] \in Nat /\ remaining[r.task.session] \in Nat /\ fetched[r.task.session] \in Nat
          /\ Size[r.task.file] <= remaining[r.task.session]
          /\ remaining \in [Sessions -> Nat] /\ fetched \in [Sessions -> Nat] /\ loading \in [Files -> 0..asked]
      BY <1>1, <2>2 DEF PreloadBounds, PreloadInv, QueueTyped, Affordable
    <3>4. remaining' \in [Sessions -> Nat] /\ fetched' \in [Sessions -> Nat] /\ loading' \in [Files -> 0..asked]
      <4>1. remaining[r.task.session] - Size[r.task.file] \in Nat
            /\ fetched[r.task.session] + Size[r.task.file] \in Nat
        BY <3>3
      <4>2. remaining' \in [Sessions -> Nat]
        BY <3>2, <3>3, <4>1
      <4>3. fetched' \in [Sessions -> Nat]
        BY <3>2, <3>3, <4>1
      <4> QED
        BY <3>2, <3>3, <4>2, <4>3
    <3>5. BudgetIsShared'
      <4> SUFFICES ASSUME NEW s \in Sessions PROVE remaining'[s] + fetched'[s] = Budget
        BY DEF BudgetIsShared
      <4>1. remaining[s] + fetched[s] = Budget /\ remaining[s] \in Nat /\ fetched[s] \in Nat
        BY <3>3 DEF BudgetIsShared, PreloadInv
      <4>2. CASE s = r.task.session
        <5>1. remaining'[s] = remaining[s] - Size[r.task.file] /\ fetched'[s] = fetched[s] + Size[r.task.file]
          BY <4>2, <3>2, <3>3
        <5> QED
          BY <5>1, <4>1, <3>3
      <4>3. CASE s # r.task.session
        BY <4>1, <4>3, <3>2, <3>3
      <4> QED
        BY <4>2, <4>3
    <3>6. LoadsAreOwned'
      BY <3>1, <3>2 DEF LoadsAreOwned, LoadsItself, PreloadInv
    <3> HIDE DEF q
    <3> QED
      BY <1>4, <3>1, <3>2, <3>4, <3>5, <3>6
  <2> QED
    BY <2>1, <2>2
<1>9. CASE Fetched(r)
  <2> DEFINE q == [r EXCEPT !.step = "save"]
  <2>1. q \in RunsUpTo(asked) /\ q.task = r.task /\ q.step = "save"
    BY <1>5 DEF Steps
  <2>2. running' = (running \ {r}) \cup {q} /\ UNCHANGED <<waiting, loading, kept, remaining, fetched>> /\ r.step = "fetch"
    BY <1>9 DEF Fetched, TaskGoes
  <2>3. LoadsAreOwned'
    BY <2>1, <2>2 DEF LoadsAreOwned, LoadsItself, PreloadInv
  <2>4. BudgetIsShared'
    BY <2>2 DEF BudgetIsShared, PreloadInv
  <2>5. remaining' \in [Sessions -> Nat] /\ fetched' \in [Sessions -> Nat] /\ loading' \in [Files -> 0..asked]
    BY <2>2 DEF PreloadInv, QueueTyped
  <2> HIDE DEF q
  <2> QED
    BY <1>4, <2>1, <2>2, <2>3, <2>4, <2>5
<1>10. CASE Saved(r)
  <2>1. TaskEnds(r) /\ UNCHANGED <<remaining, fetched>> /\ kept' \subseteq Files
    BY <1>1, <1>10 DEF Saved, PreloadInv, QueueTyped
  <2> QED
    BY <2>1, <1>3
<1>11. CASE TaskFails(r)
  <2>1. TaskEnds(r) /\ UNCHANGED <<kept, remaining, fetched>> /\ kept \subseteq Files
    BY <1>11 DEF TaskFails, PreloadInv, QueueTyped
  <2> QED
    BY <2>1, <1>3
<1> QED
  BY <1>6, <1>7, <1>8, <1>9, <1>10, <1>11

\* Every step of the queue keeps the invariant.
LEMMA PreloadNextInv ==
  ASSUME PreloadBounds, PreloadInv, [PreloadNext]_preloadVars PROVE PreloadInv'
<1>1. CASE TaskProgress
  BY <1>1, TaskKeeps DEF TaskProgress
<1>2. CASE \E page \in Pages, s \in Sessions : QueuePage(page, s)
  BY <1>2, QueueKeeps
<1>3. CASE UNCHANGED preloadVars
  <2>1. UNCHANGED waiting /\ UNCHANGED running /\ UNCHANGED loading /\ UNCHANGED kept
        /\ UNCHANGED remaining /\ UNCHANGED fetched /\ UNCHANGED asked
    BY <1>3 DEF preloadVars
  <2>2. QueueTyped'
    BY <2>1 DEF PreloadInv, QueueTyped
  <2>3. OnceEach' /\ LoadsAreOwned' /\ BudgetIsShared' /\ Cardinality(running') <= Concurrency
    BY <2>1 DEF PreloadInv, OnceEach, IdsOf, LoadsAreOwned, BudgetIsShared
  <2> QED
    BY <2>2, <2>3 DEF PreloadInv
<1> QED
  BY <1>1, <1>2, <1>3 DEF PreloadNext

\* What the invariant says of the budget, of the requests and of the types.
LEMMA PreloadInvKeepsLimits ==
  ASSUME PreloadBounds, PreloadInv PROVE PreloadsKeepTheirLimits /\ PreloadTypeOK
<1>1. \A s \in Sessions : fetched[s] <= Budget
  <2> SUFFICES ASSUME NEW s \in Sessions PROVE fetched[s] <= Budget
    OBVIOUS
  <2>1. remaining[s] \in Nat /\ fetched[s] \in Nat /\ remaining[s] + fetched[s] = Budget
    BY DEF PreloadInv, QueueTyped, BudgetIsShared
  <2> QED
    BY <2>1
<1>2. ASSUME NEW r \in running, NEW q \in running,
             {r.step, q.step} \subseteq {"fetch", "save"}, r.task.file = q.task.file
      PROVE  r = q
  <2>1. loading[r.task.file] = r.task.id /\ loading[q.task.file] = q.task.id
    BY <1>2 DEF PreloadInv, LoadsAreOwned, LoadsItself
  <2> QED
    BY <1>2, <2>1 DEF PreloadInv, OnceEach
<1>3. Cardinality(running) <= Concurrency
  BY DEF PreloadInv
<1>4. waiting \in Seq([id : 1..asked, file : Files, session : Sessions])
  BY DEF PreloadInv, QueueTyped, TasksUpTo
<1>5. \A r \in running : r.step \in {"start", "read", "fetch", "save", "joined"} /\ r.joins \in 0..asked
  BY DEF PreloadInv, QueueTyped, RunsUpTo, Steps
<1>6. loading \in [Files -> 0..asked] /\ kept \subseteq Files /\ remaining \in [Sessions -> Nat]
  BY DEF PreloadInv, QueueTyped
<1> QED
  BY <1>1, <1>2, <1>3, <1>4, <1>5, <1>6 DEF PreloadsKeepTheirLimits, PreloadTypeOK

-----------------------------------------------------------------------------
(* The sign-in page: the function that disabled a form is under way, or a dialog serves it. *)

SessionStates == {"none", "pending", "approved", "expired"}
Kinds == {"submit", "proof", "register", "poll", "start"}
FlowSteps == {"login", "code", "who", "timer", "request", "answer", "terms", "waiting", "lost", "failed", "me", "leave"}
Flows == [id : 1..2 * MaxSubmits + 2, kind : Kinds, step : FlowSteps, saw : SessionStates]

\* Only the poll waits for a timer, only the start of the page asks who it is, and a
\* submission leaves the next name to its approval.
FlowIsOfItsKind(f) ==
  /\ f.step \in {"timer", "request", "answer"} => f.kind = "poll"
  /\ f.kind \in {"submit", "proof", "register"} => f.id <= 2 * MaxSubmits
  /\ f.step = "who" => f.kind = "start"

PageTyped ==
  /\ session \in SessionStates
  /\ cancelling \in {"no", "sent", "served"} /\ asking \in {"none", "request", "dialog"}
  /\ submits \in 0..MaxSubmits
FlowsTyped == \A f \in flow : f \in Flows /\ FlowIsOfItsKind(f)
TermsAreWaitedFor == asking # "none" => Waiting # {}

SignInInv == PageTyped /\ FlowsTyped /\ TermsAreWaitedFor /\ ButtonIsGivenBack

\* The page starts, with a form nobody submitted.
LEMMA SignInInitInv == ASSUME SignInBounds, SignInInit PROVE SignInInv
<1> QED
  BY DEF SignInBounds, SignInInit, SignInInv, PageTyped, FlowsTyped, FlowIsOfItsKind, TermsAreWaitedFor,
    ButtonIsGivenBack, SessionStates, Kinds, FlowSteps, Flows, Flow, NoPoll

\* A function that goes on, or begins, is one of its kind.
LEMMA FlowsKeep ==
  ASSUME SignInBounds, SignInInv, SignInNext PROVE FlowsTyped'
<1> USE DEF SignInBounds, SignInInv, PageTyped, FlowsTyped, FlowIsOfItsKind, SessionStates, Kinds, FlowSteps, Flows
<1>1. \A f \in flow : \A step \in FlowSteps :
        step \notin {"timer", "request", "answer", "who"} =>
          [f EXCEPT !.step = step] \in Flows /\ FlowIsOfItsKind([f EXCEPT !.step = step])
  OBVIOUS
<1>2. \A f \in flow : f.kind \in {"submit", "proof"} =>
        /\ Flow(f.id + 1, "poll", "timer") \in Flows
        /\ FlowIsOfItsKind(Flow(f.id + 1, "poll", "timer"))
  BY DEF Flow
<1>3. ASSUME NEW f \in flow, Throws(f, TRUE) \/ Throws(f, FALSE) PROVE FlowsTyped'
  BY <1>1, <1>2, <1>3 DEF Throws, Ends, ShowApproval, Stopped, Rearmed, Goes, GivesUp
<1>4. CASE Submit("submit", "login") \/ Submit("register", "register")
  BY <1>4 DEF Submit, Flow
<1>5. CASE Cancel \/ CancelServed \/ Cancelled \/ Elsewhere \/ RefuseTerms
  BY <1>5 DEF Cancel, CancelServed, Cancelled, Elsewhere, RefuseTerms, Stopped
<1>6. CASE TermsAnswered \/ AcceptTerms
  BY <1>1, <1>6 DEF TermsAnswered, AcceptTerms, AllGo, AllEnter, Waiting
<1>7. ASSUME NEW f \in flow, FlowStep(f) PROVE FlowsTyped'
  <2>1. CASE LoggedIn(f)
    BY <1>1, <1>2, <2>1 DEF LoggedIn, ShowApproval, Stopped, Goes
  <2>2. CASE Registered(f) \/ CodeClosed(f) \/ WhoAmI(f) \/ AskTerms(f) \/ Enter(f)
    BY <1>1, <2>2 DEF Registered, CodeClosed, WhoAmI, AskTerms, Enter, Goes, Ends
  <2>3. CASE Proved(f)
    BY <1>1, <1>2, <2>3 DEF Proved, ShowApproval, Stopped, Goes
  <2>4. CASE PollTimer(f) \/ PollAnswered(f)
    <3>1. f.step \in {"timer", "request"} => f.kind = "poll"
      OBVIOUS
    <3>2. \A saw \in SessionStates : f.kind = "poll" =>
            /\ [f EXCEPT !.step = "answer", !.saw = saw] \in Flows
            /\ FlowIsOfItsKind([f EXCEPT !.step = "answer", !.saw = saw])
      OBVIOUS
    <3>3. f.kind = "poll" => /\ [f EXCEPT !.step = "request"] \in Flows
                             /\ FlowIsOfItsKind([f EXCEPT !.step = "request"])
      OBVIOUS
    <3>4. \A g \in flow : g \in Flows /\ FlowIsOfItsKind(g)
      BY DEF FlowsTyped
    <3> USE <2>4, <3>1, <3>2, <3>3, <3>4 DEF PollTimer, PollAnswered, Goes
    <3> HIDE DEF Flows, FlowIsOfItsKind
    <3>5. CASE PollTimer(f)
      BY <3>5
    <3>6. CASE PollAnswered(f)
      BY <3>6
    <3> QED
      BY <3>5, <3>6
  <2>5. CASE PollRead(f)
    <3>1. f.kind = "poll" /\ f.step = "answer"
      BY <2>5 DEF PollRead
    <3>2. /\ [f EXCEPT !.step = "timer"] \in Flows /\ FlowIsOfItsKind([f EXCEPT !.step = "timer"])
          /\ [f EXCEPT !.step = "terms"] \in Flows /\ FlowIsOfItsKind([f EXCEPT !.step = "terms"])
      BY <3>1
    <3>3. \A g \in flow' : g \in flow \/ g \in {[f EXCEPT !.step = "timer"], [f EXCEPT !.step = "terms"]}
      BY <2>5 DEF PollRead, Stopped, Rearmed, GivesUp, Goes
    <3> HIDE DEF Flows, FlowIsOfItsKind
    <3> QED
      BY <3>2, <3>3
  <2>6. CASE Rejected(f) \/ Unknown(f)
    <3>1. Throws(f, TRUE) \/ Throws(f, FALSE)
      BY <2>6 DEF Rejected, Unknown, Throws
    <3>2. f.step # "waiting" /\ asking' = asking
      BY <2>6 DEF Rejected, Unknown
    <3> QED
      BY <1>3, <3>1, <3>2
  <2> QED
    BY <1>7, <2>1, <2>2, <2>3, <2>4, <2>5, <2>6 DEF FlowStep
<1>8. ASSUME NEW f \in flow, FlowFails(f) PROVE FlowsTyped'
  BY <1>3, <1>8 DEF FlowFails
<1> QED
  BY <1>4, <1>5, <1>6, <1>7, <1>8 DEF SignInNext

\* The state of the page stays one of its states.
LEMMA PageKeeps ==
  ASSUME SignInBounds, SignInInv, SignInNext PROVE PageTyped'
<1> USE DEF SignInBounds, SignInInv, PageTyped, SessionStates
<1>1. CASE Submit("submit", "login") \/ Submit("register", "register")
  BY <1>1 DEF Submit, waits
<1>2. CASE Cancel \/ CancelServed \/ Cancelled \/ Elsewhere \/ RefuseTerms
  BY <1>2 DEF Cancel, CancelServed, Cancelled, Elsewhere, RefuseTerms, waits, Approve, Expire, Revoke
<1>3. CASE TermsAnswered \/ AcceptTerms
  BY <1>3 DEF TermsAnswered, AcceptTerms, AllGo, AllEnter, Looked, waits
<1>4. ASSUME NEW f \in flow, FlowStep(f) PROVE PageTyped'
  <2>1. CASE LoggedIn(f) \/ Registered(f) \/ CodeClosed(f) \/ WhoAmI(f)
    BY <2>1 DEF LoggedIn, Registered, CodeClosed, WhoAmI, Replaced, waits
  <2>2. CASE Proved(f) \/ PollTimer(f) \/ PollAnswered(f) \/ PollRead(f)
    BY <2>2 DEF Proved, PollTimer, PollAnswered, PollRead, Looked, waits
  <2>3. CASE AskTerms(f) \/ Enter(f) \/ Rejected(f) \/ Unknown(f)
    BY <2>3 DEF AskTerms, Enter, Rejected, Unknown, Looked, waits
  <2> QED
    BY <1>4, <2>1, <2>2, <2>3 DEF FlowStep
<1>5. ASSUME NEW f \in flow, FlowFails(f) PROVE PageTyped'
  BY <1>5 DEF FlowFails
<1> QED
  BY <1>1, <1>2, <1>3, <1>4, <1>5 DEF SignInNext

\* Who waits for the terms is there until they are answered.
LEMMA WaitingKeeps ==
  ASSUME SignInBounds, SignInInv, SignInNext PROVE TermsAreWaitedFor'
<1> USE DEF SignInInv, TermsAreWaitedFor, Waiting
<1>1. \A f \in flow : f \in Flows
  BY DEF FlowsTyped
<1>2. ASSUME NEW f \in flow, f.step # "waiting", Throws(f, TRUE) \/ Throws(f, FALSE), asking' = asking
      PROVE  TermsAreWaitedFor'
  BY <1>1, <1>2 DEF Throws, Ends, ShowApproval, Stopped, Rearmed, Goes, GivesUp
<1>3. CASE Submit("submit", "login") \/ Submit("register", "register")
  BY <1>3 DEF Submit
<1>4. CASE Cancel \/ CancelServed \/ Cancelled \/ Elsewhere \/ RefuseTerms
  BY <1>4 DEF Cancel, CancelServed, Cancelled, Elsewhere, RefuseTerms, Stopped
<1>5. CASE TermsAnswered \/ AcceptTerms
  BY <1>5 DEF TermsAnswered, AcceptTerms, AllGo, AllEnter
<1>6. ASSUME NEW f \in flow, FlowStep(f) PROVE TermsAreWaitedFor'
  <2>1. CASE LoggedIn(f) \/ Proved(f)
    BY <1>1, <2>1 DEF LoggedIn, Proved, ShowApproval, Stopped, Goes
  <2>2. CASE Registered(f) \/ CodeClosed(f) \/ WhoAmI(f) \/ Enter(f)
    BY <1>1, <2>2 DEF Registered, CodeClosed, WhoAmI, Enter, Goes, Ends
  <2>3. CASE AskTerms(f)
    <3>1. [f EXCEPT !.step = "waiting"].step = "waiting"
      BY <1>1 DEF Flows
    <3> QED
      BY <2>3, <3>1 DEF AskTerms, Goes
  <2>4. CASE PollTimer(f) \/ PollAnswered(f)
    BY <2>4 DEF PollTimer, PollAnswered, Goes
  <2>5. CASE PollRead(f)
    <3>1. f.step = "answer" /\ asking' = asking
      BY <2>5 DEF PollRead
    <3>2. \A g \in flow : g.step # "timer" /\ g # f => g \in flow'
      BY <2>5 DEF PollRead, Stopped, Rearmed, GivesUp, Goes
    <3> QED
      BY <3>1, <3>2
  <2>6. CASE Rejected(f) \/ Unknown(f)
    <3>1. Throws(f, TRUE) \/ Throws(f, FALSE)
      BY <2>6 DEF Rejected, Unknown, Throws
    <3>2. f.step # "waiting" /\ asking' = asking
      BY <2>6 DEF Rejected, Unknown
    <3> QED
      BY <1>2, <3>1, <3>2
  <2> QED
    BY <1>6, <2>1, <2>2, <2>3, <2>4, <2>5, <2>6 DEF FlowStep
<1>7. ASSUME NEW f \in flow, FlowFails(f) PROVE TermsAreWaitedFor'
  BY <1>2, <1>7 DEF FlowFails
<1> QED
  BY <1>3, <1>4, <1>5, <1>6, <1>7 DEF SignInNext

\* What serves a form goes on, or gives its button back.
LEMMA ButtonKeeps ==
  ASSUME SignInBounds, SignInInv, SignInNext PROVE ButtonIsGivenBack'
<1> DEFINE Logins == {f \in flow : f.kind \in {"submit", "proof", "poll"}}
           Registrations == {f \in flow : f.kind = "register"}
<1>1. /\ "login" \in disabled /\ ~left => dialog \/ refused \/ Logins # {}
      /\ "register" \in disabled /\ ~left => Registrations # {}
  BY DEF SignInInv, ButtonIsGivenBack
<1>2. ASSUME /\ "login" \in disabled' /\ ~left' =>
                  dialog' \/ refused' \/ \E f \in flow' : f.kind \in {"submit", "proof", "poll"}
             /\ "register" \in disabled' /\ ~left' => \E f \in flow' : f.kind = "register"
      PROVE  ButtonIsGivenBack'
  BY <1>2 DEF ButtonIsGivenBack
<1>3. \A f \in flow : \A step : [f EXCEPT !.step = step].kind = f.kind
  BY DEF SignInInv, FlowsTyped, Flows
<1>4. \A f \in flow : f.step = "timer" => f.kind = "poll"
  BY DEF SignInInv, FlowsTyped, FlowIsOfItsKind
<1>5. ASSUME NEW f \in flow, Throws(f, TRUE) \/ Throws(f, FALSE), UNCHANGED <<left, refused>>
      PROVE  ButtonIsGivenBack'
  <2>1. CASE f.kind \in {"submit", "register", "start"}
    BY <1>1, <1>2, <1>5, <2>1 DEF Throws, Ends, GiveBack
  <2>2. CASE f.kind = "proof"
    <3>1. dialog' = TRUE /\ UNCHANGED disabled /\ \A g \in Registrations : g \in flow'
      BY <1>4, <1>5, <2>2 DEF Throws, ShowApproval, Stopped
    <3> QED
      BY <1>1, <1>2, <1>5, <3>1
  <2>3. CASE f.kind = "poll"
    <3>1. \A g \in Registrations : g \in flow'
      BY <1>4, <1>5, <2>3 DEF Throws, Rearmed, Goes, GivesUp, Stopped
    <3>2. CASE GivesUp(f)
      BY <1>1, <1>2, <1>5, <3>1, <3>2 DEF GivesUp, GiveBack
    <3>3. CASE Rearmed(f) /\ UNCHANGED <<dialog, disabled>>
      BY <1>1, <1>2, <1>3, <1>5, <2>3, <3>1, <3>3 DEF Rearmed, Goes
    <3> QED
      BY <1>5, <2>3, <3>2, <3>3 DEF Throws
  <2> QED
    BY <1>5, <2>1, <2>2, <2>3 DEF Throws
<1>6. CASE Submit("submit", "login") \/ Submit("register", "register")
  <2>1. CASE Submit("submit", "login")
    <3>1. PICK g : g.kind = "submit" /\ flow' = flow \cup {g}
      BY <2>1 DEF Submit, Flow
    <3> QED
      BY <1>1, <1>2, <2>1, <3>1 DEF Submit, waits
  <2>2. CASE Submit("register", "register")
    <3>1. PICK g : g.kind = "register" /\ flow' = flow \cup {g}
      BY <2>2 DEF Submit, Flow
    <3> QED
      BY <1>1, <1>2, <2>2, <3>1 DEF Submit, waits
  <2> QED
    BY <1>6, <2>1, <2>2
<1>7. CASE Cancel
  <2>1. \A g \in Registrations : g \in flow'
    BY <1>4, <1>7 DEF Cancel, Stopped
  <2> QED
    BY <1>1, <1>2, <1>7, <2>1 DEF Cancel
<1>8. CASE CancelServed \/ Elsewhere
  BY <1>1, <1>2, <1>8 DEF CancelServed, Elsewhere, waits
<1>9. CASE Cancelled
  BY <1>1, <1>2, <1>9 DEF Cancelled, GiveBack
<1>10. CASE RefuseTerms
  BY <1>1, <1>2, <1>10 DEF RefuseTerms, Waiting, waits
<1>11. CASE TermsAnswered \/ AcceptTerms
  <2>1. UNCHANGED <<dialog, disabled, refused, left>>
    BY <1>11 DEF TermsAnswered, AcceptTerms, waits
  <2>2. \A f \in flow : \E g \in flow' : g.kind = f.kind
    <3>1. CASE UNCHANGED flow
      BY <3>1
    <3>2. ASSUME NEW step \in {"lost", "failed"}, AllGo(step)
          PROVE  \A f \in flow : \E g \in flow' : g.kind = f.kind
      <4> SUFFICES ASSUME NEW f \in flow PROVE \E g \in flow' : g.kind = f.kind
        OBVIOUS
      <4>1. CASE f \notin Waiting
        BY <3>2, <4>1 DEF AllGo
      <4>2. CASE f \in Waiting
        <5>1. [f EXCEPT !.step = step] \in flow'
          BY <3>2, <4>2 DEF AllGo
        <5> QED
          BY <1>3, <5>1
      <4> QED
        BY <4>1, <4>2
    <3>3. CASE AllEnter
      <4> SUFFICES ASSUME NEW f \in flow PROVE \E g \in flow' : g.kind = f.kind
        OBVIOUS
      <4>1. CASE f \notin Waiting
        BY <3>3, <4>1 DEF AllEnter
      <4>2. CASE f \in Waiting
        <5>1. [f EXCEPT !.step = IF f.kind \in {"register", "start"} THEN "leave" ELSE "me"] \in flow'
          BY <3>3, <4>2 DEF AllEnter
        <5> QED
          BY <1>3, <5>1
      <4> QED
        BY <4>1, <4>2
    <3> QED
      BY <1>11, <3>1, <3>2, <3>3 DEF TermsAnswered, AcceptTerms
  <2> QED
    BY <1>1, <1>2, <2>1, <2>2
<1>12. ASSUME NEW f \in flow, FlowStep(f) PROVE ButtonIsGivenBack'
  <2>1. CASE LoggedIn(f)
    <3>1. UNCHANGED <<disabled, refused, left>> /\ f.kind = "submit"
      BY <2>1 DEF LoggedIn
    <3>2. CASE ShowApproval(f)
      <4>1. dialog' = TRUE /\ \A g \in Registrations : g \in flow'
        BY <1>4, <3>1, <3>2 DEF ShowApproval, Stopped
      <4> QED
        BY <1>1, <1>2, <3>1, <4>1
    <3>3. CASE Goes(f, "terms") /\ UNCHANGED dialog
      BY <1>1, <1>2, <1>3, <3>1, <3>3 DEF Goes
    <3>4. CASE flow' = (flow \ {f}) \cup {[f EXCEPT !.kind = "proof"]} /\ UNCHANGED dialog
      <4>1. [f EXCEPT !.kind = "proof"].kind = "proof"
        BY DEF SignInInv, FlowsTyped, Flows
      <4> QED
        BY <1>1, <1>2, <3>1, <3>4, <4>1
    <3> QED
      BY <2>1, <3>2, <3>3, <3>4 DEF LoggedIn
  <2>2. CASE Registered(f) \/ CodeClosed(f) \/ AskTerms(f) \/ PollTimer(f)
    <3>1. UNCHANGED <<dialog, disabled, refused, left>>
      BY <2>2 DEF Registered, CodeClosed, AskTerms, PollTimer, waits
    <3>2. PICK step : Goes(f, step)
      BY <2>2 DEF Registered, CodeClosed, AskTerms, PollTimer
    <3>3. \A g \in flow : g \in flow' \/ (g = f /\ [f EXCEPT !.step = step] \in flow')
      BY <3>2 DEF Goes
    <3>4. \A g \in flow : \E h \in flow' : h.kind = g.kind
      BY <1>3, <3>3
    <3> QED
      BY <1>1, <1>2, <3>1, <3>4
  <2>3. CASE Proved(f)
    <3>1. UNCHANGED <<disabled, refused, left>> /\ f.kind = "proof"
      BY <2>3 DEF Proved
    <3>2. CASE ShowApproval(f)
      <4>1. dialog' = TRUE /\ \A g \in Registrations : g \in flow'
        BY <1>4, <3>1, <3>2 DEF ShowApproval, Stopped
      <4> QED
        BY <1>1, <1>2, <3>1, <4>1
    <3>3. CASE Goes(f, "terms") /\ UNCHANGED dialog
      BY <1>1, <1>2, <1>3, <3>1, <3>3 DEF Goes
    <3> QED
      BY <2>3, <3>2, <3>3 DEF Proved
  <2>4. CASE WhoAmI(f)
    <3>1. UNCHANGED <<dialog, disabled, refused, left>> /\ f.kind = "start"
      BY <2>4 DEF WhoAmI, waits, SignInInv, FlowsTyped, FlowIsOfItsKind
    <3>2. \A g \in flow : g # f => g \in flow'
      BY <2>4 DEF WhoAmI, Goes, Ends
    <3> QED
      BY <1>1, <1>2, <3>1, <3>2
  <2>5. CASE PollAnswered(f)
    <3>1. UNCHANGED <<dialog, disabled, refused, left>>
          /\ flow' = (flow \ {f}) \cup {[f EXCEPT !.step = "answer", !.saw = session]}
      BY <2>5 DEF PollAnswered, waits
    <3>2. [f EXCEPT !.step = "answer", !.saw = session].kind = f.kind
      BY DEF SignInInv, FlowsTyped, Flows
    <3> QED
      BY <1>1, <1>2, <3>1, <3>2
  <2>6. CASE PollRead(f)
    <3>1. UNCHANGED <<refused, left>> /\ f.kind = "poll"
      BY <2>6 DEF PollRead, SignInInv, FlowsTyped, FlowIsOfItsKind
    <3>2. \A g \in Registrations : g \in flow'
      BY <1>4, <2>6, <3>1 DEF PollRead, Stopped, Rearmed, Goes, GivesUp
    <3>3. CASE GivesUp(f)
      BY <1>1, <1>2, <3>1, <3>2, <3>3 DEF GivesUp, GiveBack
    <3>4. CASE Rearmed(f) /\ UNCHANGED <<dialog, disabled>>
      BY <1>1, <1>2, <1>3, <3>1, <3>2, <3>4 DEF Rearmed, Goes
    <3>5. CASE flow' = Stopped(flow \ {f}) \cup {[f EXCEPT !.step = "terms"]} /\ UNCHANGED disabled
      BY <1>1, <1>2, <1>3, <3>1, <3>2, <3>5
    <3> QED
      BY <2>6, <3>3, <3>4, <3>5 DEF PollRead
  <2>7. CASE Rejected(f) \/ Unknown(f)
    <3>1. Throws(f, TRUE) \/ Throws(f, FALSE)
      BY <2>7 DEF Rejected, Unknown, Throws
    <3> QED
      BY <1>5, <2>7, <3>1 DEF Rejected, Unknown
  <2>8. CASE Enter(f)
    BY <1>2, <2>8 DEF Enter
  <2> QED
    BY <1>12, <2>1, <2>2, <2>3, <2>4, <2>5, <2>6, <2>7, <2>8 DEF FlowStep
<1>13. ASSUME NEW f \in flow, FlowFails(f) PROVE ButtonIsGivenBack'
  BY <1>5, <1>13 DEF FlowFails
<1> QED
  BY <1>6, <1>7, <1>8, <1>9, <1>10, <1>11, <1>12, <1>13 DEF SignInNext

\* Every step of the sign-in page keeps the invariant.
LEMMA SignInNextInv ==
  ASSUME SignInBounds, SignInInv, [SignInNext]_signInVars PROVE SignInInv'
<1>1. CASE SignInNext
  BY <1>1, FlowsKeep, PageKeeps, WaitingKeeps, ButtonKeeps DEF SignInInv
<1>2. CASE UNCHANGED signInVars
  BY <1>2 DEF signInVars, waits, SignInInv, PageTyped, FlowsTyped, TermsAreWaitedFor, Waiting, ButtonIsGivenBack
<1> QED
  BY <1>1, <1>2

\* The invariant gives the types of the page.
LEMMA SignInInvIsTyped ==
  ASSUME SignInBounds, SignInInv PROVE SignInTypeOK
<1> QED
  BY DEF SignInInv, PageTyped, FlowsTyped, Flows, Kinds, SessionStates, TermsAreWaitedFor, SignInTypeOK

-----------------------------------------------------------------------------
(* The calls of a page: the handlers that compare the call after they waited act on the call    *)
(* they began with.                                                                            *)

Statuses == {"new", "ringing", "connecting", "accepted", "over"}
CallRecords == [status : Statuses, closing : BOOLEAN, timer : BOOLEAN, loss : BOOLEAN,
                stream : BOOLEAN, peers : SUBSET Users, up : SUBSET Users, accepted : SUBSET Users]
Underway == {"ringing", "connecting", "accepted"}

TaskOK(t) ==
  /\ t.c \in Calls /\ t.u \in Users \cup {Nobody}
  /\ t.at \in {"names", "dial", "capture", "negotiate"} => t.u \in Users

CallsTyped ==
  /\ call \in Calls \cup {None}
  /\ info \in [Calls -> CallRecords]
  /\ \A c \in Calls : info[c].up \subseteq info[c].peers
  /\ call # None => info[call].status \in Underway
  /\ \A t \in tasks : TaskOK(t)
  /\ ended \cup invited \subseteq Incoming

CallsInv == CallsTyped /\ CallsEndForTheirOwnReasons

\* Calls of the page.
LEMMA CallsInitInv == ASSUME CallPageAssumption, CallPageInit PROVE CallsInv
<1> QED
  BY DEF CallPageAssumption, CallPageInit, CallsInv, CallsTyped, CallRecords, Statuses, Fresh, Calls,
    CallsEndForTheirOwnReasons

Handlers == {"leaving", "config", "identity", "answer identity", "answer media", "failure"}
Sound(i) == i \in CallRecords /\ i.up \subseteq i.peers

\* A call that is ended leaves the page without one, or closes.
LEMMA EndKeeps ==
  ASSUME CallPageAssumption, CallsInv, NEW c, c = call, call # None, NEW i, Sound(i), i.status \in Underway, NEW cause, NEW by,
         cause \in {"timeout", "failure", "loss"} => by = c,
         NEW rest, \A t \in rest : TaskOK(t),
         EndCall(c, i, rest, cause, by), UNCHANGED invited
  PROVE  CallsInv'
<1>1. c \in Calls /\ info \in [Calls -> CallRecords]
  BY DEF CallsInv, CallsTyped
<1>2. Sound(Over) /\ Sound([i EXCEPT !.closing = TRUE, !.loss = FALSE])
      /\ [i EXCEPT !.closing = TRUE, !.loss = FALSE].status = i.status
  BY DEF Sound, Over, Fresh, CallRecords, Statuses
<1>3. PICK j : Sound(j) /\ info' = [info EXCEPT ![c] = j] /\ (call' # None => call' = call /\ j.status \in Underway)
  BY <1>2 DEF EndCall, Become
<1>4. /\ call' \in {call, None}
      /\ \A t \in tasks' : TaskOK(t)
  BY <1>1 DEF EndCall, Task, TaskOK
<1>5. ended' \subseteq Incoming
  BY DEF EndCall, CallsInv, CallsTyped
<1>6. strays' \cap {"timeout", "failure", "loss"} = {}
  BY DEF EndCall, Stray, CallsInv, CallsEndForTheirOwnReasons
<1>7. info' \in [Calls -> CallRecords] /\ info'[c] = j /\ \A d \in Calls : d # c => info'[d] = info[d]
  BY <1>1, <1>3 DEF Sound
<1>8. CallsTyped'
  BY <1>1, <1>3, <1>4, <1>5, <1>7 DEF CallsInv, CallsTyped, Sound
<1> QED
  BY <1>6, <1>8 DEF CallsInv, CallsEndForTheirOwnReasons

\* A call that changes is still a call of the page.
LEMMA BecomeKeeps ==
  ASSUME CallPageAssumption, CallsInv, NEW c \in Calls, NEW i, Sound(i), Become(c, i),
         call' = None \/ call' = c \/ call' = call,
         call' = c => i.status \in Underway,
         \A t \in tasks' : t \in tasks \/ TaskOK(t),
         ended' \cup invited' \subseteq Incoming,
         strays' \subseteq strays \cup {"accept"}
  PROVE  CallsInv'
<1>1. info' \in [Calls -> CallRecords] /\ info'[c] = i /\ \A d \in Calls : d # c => info'[d] = info[d]
  BY DEF Become, CallsInv, CallsTyped, Sound
<1>2. CallsTyped'
  BY <1>1 DEF CallsInv, CallsTyped, Sound
<1> QED
  BY <1>2 DEF CallsInv, CallsEndForTheirOwnReasons

\* Nothing of a call changes.
LEMMA CallsStay ==
  ASSUME CallPageAssumption, CallsInv, UNCHANGED info, call' = None \/ call' = call,
         \A t \in tasks' : t \in tasks \/ TaskOK(t),
         ended' \cup invited' \subseteq Incoming, strays' = strays
  PROVE  CallsInv'
<1> QED
  BY DEF CallsInv, CallsTyped, CallsEndForTheirOwnReasons

\* What is known of a call and of a task before a step.
LEMMA CallFacts ==
  ASSUME CallPageAssumption, CallsInv
  PROVE  /\ call \in Calls \cup {None} /\ None \notin Calls
         /\ \A c \in Calls : Sound(info[c]) /\ info[c].accepted \subseteq Users
         /\ call # None => call \in Calls /\ info[call].status \in Underway
         /\ \A t \in tasks : TaskOK(t)
         /\ ended \subseteq Incoming /\ invited \subseteq Incoming
<1> QED
  BY DEF CallPageAssumption, CallsInv, CallsTyped, Sound, CallRecords

\* The records a handler writes are records of calls.
LEMMA Records ==
  ASSUME NEW i, Sound(i)
  PROVE  /\ Sound(Silent(i)) /\ Silent(i).status = i.status
         /\ Sound(Connecting(i)) /\ Connecting(i).status = "connecting"
         /\ \A u : Sound(Without(i, u)) /\ Without(i, u).status = i.status
         /\ \A u \in Users :
              /\ Sound([i EXCEPT !.accepted = @ \cup {u}]) /\ [i EXCEPT !.accepted = @ \cup {u}].status = i.status
              /\ Sound([Connecting(i) EXCEPT !.peers = @ \cup {u}])
              /\ [Connecting(i) EXCEPT !.peers = @ \cup {u}].status = "connecting"
              /\ u \in i.peers => Sound([i EXCEPT !.up = @ \cup {u}, !.status = "accepted"])
         /\ Sound([i EXCEPT !.stream = TRUE]) /\ [i EXCEPT !.stream = TRUE].status = i.status
         /\ Sound([i EXCEPT !.stream = TRUE, !.status = "accepted"])
         /\ \A b \in BOOLEAN : Sound([i EXCEPT !.loss = b]) /\ [i EXCEPT !.loss = b].status = i.status
<1> USE DEF Sound, CallRecords, Statuses
<1>1. Sound(Silent(i)) /\ Silent(i).status = i.status
  BY DEF Silent
<1>2. Sound(Connecting(i)) /\ Connecting(i).status = "connecting"
  BY DEF Connecting, Silent
<1>3. \A u : Sound(Without(i, u)) /\ Without(i, u).status = i.status
  <2> SUFFICES ASSUME NEW u PROVE Sound(Without(i, u)) /\ Without(i, u).status = i.status
    OBVIOUS
  <2>1. i.peers \ {u} \in SUBSET Users /\ i.up \ {u} \in SUBSET Users /\ i.up \ {u} \subseteq i.peers \ {u}
    OBVIOUS
  <2> QED
    BY <2>1 DEF Without
<1>4. ASSUME NEW u \in Users
      PROVE  /\ Sound([i EXCEPT !.accepted = @ \cup {u}]) /\ [i EXCEPT !.accepted = @ \cup {u}].status = i.status
             /\ Sound([Connecting(i) EXCEPT !.peers = @ \cup {u}])
             /\ [Connecting(i) EXCEPT !.peers = @ \cup {u}].status = "connecting"
             /\ u \in i.peers => Sound([i EXCEPT !.up = @ \cup {u}, !.status = "accepted"])
  <2>1. i.accepted \cup {u} \in SUBSET Users /\ i.peers \cup {u} \in SUBSET Users /\ i.up \cup {u} \in SUBSET Users
    OBVIOUS
  <2>2. Sound([i EXCEPT !.accepted = @ \cup {u}]) /\ [i EXCEPT !.accepted = @ \cup {u}].status = i.status
    BY <2>1
  <2>3. Sound([Connecting(i) EXCEPT !.peers = @ \cup {u}])
        /\ [Connecting(i) EXCEPT !.peers = @ \cup {u}].status = "connecting"
    <3>1. Connecting(i).peers = i.peers /\ Connecting(i).up = i.up
      BY DEF Connecting, Silent
    <3> QED
      BY <1>2, <2>1, <3>1
  <2>4. u \in i.peers => Sound([i EXCEPT !.up = @ \cup {u}, !.status = "accepted"])
    BY <2>1
  <2> QED
    BY <2>2, <2>3, <2>4
<1>5. Sound([i EXCEPT !.stream = TRUE]) /\ [i EXCEPT !.stream = TRUE].status = i.status
      /\ Sound([i EXCEPT !.stream = TRUE, !.status = "accepted"])
  OBVIOUS
<1>6. \A b \in BOOLEAN : Sound([i EXCEPT !.loss = b]) /\ [i EXCEPT !.loss = b].status = i.status
  OBVIOUS
<1> HIDE DEF Sound, CallRecords, Statuses
<1> QED
  BY <1>1, <1>2, <1>3, <1>4, <1>5, <1>6

\* The connections an answered call opens one after the other are those of members.
LEMMA DialsAreTyped ==
  ASSUME CallPageAssumption, CallsInv, call # None, NEW c \in Calls, NEW seen, NEW next \in DialsNext(c, seen)
  PROVE  \A t \in next : TaskOK(t)
<1>1. call \in Calls /\ info[c].accepted \subseteq Users
  BY CallFacts
<1>2. \A u \in Users : TaskOK(Dial("dial", u, call, c, seen \cup {u}))
  BY <1>1 DEF Dial, TaskOK
<1> DEFINE others == info[c].accepted \ (seen \cup info[call].peers)
<1>3. next = {} \/ \E u \in others : next = {Dial("dial", u, call, c, seen \cup {u})}
  BY DEF DialsNext
<1>4. others \subseteq Users
  BY <1>1
<1> HIDE DEF others
<1>5. CASE next = {}
  BY <1>5
<1>6. ASSUME NEW u \in others, next = {Dial("dial", u, call, c, seen \cup {u})} PROVE \A t \in next : TaskOK(t)
  <2>1. TaskOK(Dial("dial", u, call, c, seen \cup {u}))
    BY <1>2, <1>4
  <2> QED
    BY <1>6, <2>1
<1> QED
  BY <1>3, <1>5, <1>6

LEMMA OnwardIsTyped ==
  ASSUME CallPageAssumption, CallsInv, call # None, NEW t \in tasks, NEW next \in Onward(t)
  PROVE  \A q \in (tasks \ {t}) \cup next : q \in tasks \/ TaskOK(q)
<1>1. CASE t.of \in Calls
  BY <1>1, DialsAreTyped DEF Onward
<1>2. CASE t.of \notin Calls
  BY <1>2 DEF Onward
<1> QED
  BY <1>1, <1>2

\* A hang-up ends the current call, unless it is already closing.
LEMMA HangUpKeeps ==
  ASSUME CallPageAssumption, CallsInv, NEW cause \in {"user", "connection", "identity"}, NEW by,
         NEW rest, \A t \in rest : TaskOK(t), HangUp(rest, cause, by), UNCHANGED invited
  PROVE  CallsInv'
<1>1. CASE UNCHANGED <<call, info, ended, strays>> /\ tasks' = rest
  <2>1. (\A t \in tasks' : TaskOK(t)) /\ ended' \cup invited' \subseteq Incoming
    BY <1>1, CallFacts
  <2> QED
    BY <1>1, <2>1, CallsStay
<1>2. CASE call # None /\ EndCall(call, info[call], rest, cause, by)
  <2>1. Sound(info[call]) /\ info[call].status \in Underway
    BY <1>2, CallFacts
  <2> QED
    BY <1>2, <2>1, EndKeeps
<1> QED
  BY <1>1, <1>2 DEF HangUp

\* The call that starts, or rings, is fresh.
LEMMA CreateKeeps ==
  ASSUME CallPageAssumption, CallsInv, NEW c \in Calls, Create(c), tasks' \subseteq tasks, UNCHANGED invited
  PROVE  CallsInv'
<1>1. Sound([Fresh EXCEPT !.status = "ringing", !.timer = TRUE])
      /\ [Fresh EXCEPT !.status = "ringing", !.timer = TRUE].status = "ringing"
  BY DEF Sound, CallRecords, Statuses, Fresh
<1> DEFINE i == [Fresh EXCEPT !.status = "ringing", !.timer = TRUE]
<1>2. Sound(i) /\ i.status = "ringing" /\ i.status \in Underway
  BY <1>1 DEF Underway
<1>3. Become(c, i) /\ call' = c /\ UNCHANGED <<ended, strays>>
  BY DEF Create
<1>4. (\A t \in tasks' : t \in tasks) /\ ended' \cup invited' \subseteq Incoming
  BY <1>3, CallFacts
<1> HIDE DEF i
<1> QED
  BY <1>2, <1>3, <1>4, BecomeKeeps

\* The user acts on the calls of the page.
LEMMA UserKeeps ==
  ASSUME CallPageAssumption, CallsInv,
         UserHangsUp \/ EnterFullscreen \/ \E c \in Calls : ClickCall(c) \/ Accept(c) \/ UserRejects(c)
  PROVE  CallsInv'
<1>1. CASE UserHangsUp
  BY <1>1, HangUpKeeps, CallFacts DEF UserHangsUp, steady
<1>2. CASE EnterFullscreen
  BY <1>2, CallsStay, CallFacts DEF EnterFullscreen
<1>3. ASSUME NEW c \in Calls, ClickCall(c) PROVE CallsInv'
  <2>1. CASE Create(c) /\ UNCHANGED tasks
    BY <1>3, <2>1, CreateKeeps DEF ClickCall, steady
  <2>2. CASE tasks' = tasks \cup {Task("config", Nobody, c)} /\ UNCHANGED <<call, info, ended, strays>>
    BY <1>3, <2>2, CallsStay, CallFacts DEF ClickCall, steady, Task, TaskOK
  <2> QED
    BY <1>3, <2>1, <2>2 DEF ClickCall
<1>4. ASSUME NEW c \in Calls, Accept(c) PROVE CallsInv'
  <2>1. Sound(Connecting(info[c])) /\ Connecting(info[c]).status \in Underway /\ call = c
    <3>1. Sound(info[c]) /\ call = c
      BY <1>4, CallFacts DEF Accept, Ringing
    <3> QED
      BY <3>1, Records DEF Underway
  <2>2. \A t \in tasks' : t \in tasks \/ TaskOK(t)
    <3>1. PICK at \in {"answer identity", "answer media"} : tasks' = tasks \cup {Task(at, Nobody, c)}
      BY <1>4 DEF Accept
    <3>2. TaskOK(Task(at, Nobody, c))
      BY <3>1 DEF Task, TaskOK
    <3> QED
      BY <3>1, <3>2
  <2>3. Become(c, Connecting(info[c])) /\ UNCHANGED <<call, ended, strays, invited>>
    BY <1>4 DEF Accept
  <2>4. ended' \cup invited' \subseteq Incoming
    BY <2>3, CallFacts
  <2> QED
    BY <2>1, <2>2, <2>3, <2>4, BecomeKeeps
<1>5. ASSUME NEW c \in Calls, UserRejects(c) PROVE CallsInv'
  <2>1. call = c /\ call # None
    BY <1>5, CallFacts DEF UserRejects, Ringing
  <2>2. Sound(info[c]) /\ info[c].status \in Underway
    BY <2>1, CallFacts
  <2> QED
    BY <1>5, <2>1, <2>2, EndKeeps, CallFacts DEF UserRejects, steady
<1> QED
  BY <1>1, <1>2, <1>3, <1>4, <1>5

\* What is heard of a call.
LEMMA HearKeeps ==
  ASSUME CallPageAssumption, CallsInv, NEW c \in Calls, NEW u \in Users,
         \/ HearInvite(c) \/ HearAccept(u, c) \/ HearReject(u, c) \/ HearHangup(u, c) \/ HearOffer(u, c)
         \/ HearFailure(u, c) \/ HearEndOfOther(u, c)
  PROVE  CallsInv'
<1>1. EndedBy(u, c) \subseteq Incoming
  BY DEF EndedBy
<1>2. Sound(info[c]) /\ info[c].accepted \subseteq Users /\ c # None
      /\ (call = c => info[c].status \in Underway)
  BY CallFacts
<1>3. CASE HearInvite(c)
  <2>1. \A t \in tasks' : t \in tasks \/ TaskOK(t)
    BY <1>3 DEF HearInvite, Task, TaskOK, CallPageAssumption
  <2>2. ended' \cup invited' \subseteq Incoming /\ UNCHANGED <<info, call, strays>>
    BY <1>3, CallFacts DEF HearInvite
  <2> QED
    BY <2>1, <2>2, CallsStay
<1>4. CASE HearAccept(u, c)
  <2> DEFINE i == [info[c] EXCEPT !.accepted = @ \cup {u}]
  <2>1. Sound(i) /\ i.status = info[c].status /\ Sound(Connecting(i)) /\ Connecting(i).status = "connecting"
    BY <1>2, Records
  <2>2. call = c /\ UNCHANGED <<call, ended, strays, invited>>
    BY <1>4 DEF HearAccept, HearSignal
  <2>3. \/ Become(c, i) /\ UNCHANGED tasks
        \/ Become(c, Connecting(i)) /\ tasks' = tasks \cup {Dial("dial", u, c, "accept", {})}
    BY <1>4 DEF HearAccept
  <2> HIDE DEF i
  <2>4. \A t \in tasks' : t \in tasks \/ TaskOK(t)
    BY <2>3 DEF Dial, TaskOK
  <2>5. PICK j : Become(c, j) /\ Sound(j) /\ j.status \in Underway
    BY <1>2, <2>1, <2>2, <2>3 DEF Underway
  <2>6. ended' \cup invited' \subseteq Incoming
    BY <2>2, CallFacts
  <2> QED
    BY <2>2, <2>4, <2>5, <2>6, BecomeKeeps
<1>5. CASE HearReject(u, c)
  <2>1. call = c /\ UNCHANGED invited
    BY <1>5 DEF HearReject, HearSignal
  <2>2. CASE IsGroup(c)
    BY <1>1, <1>2, <1>5, <2>1, <2>2, BecomeKeeps, CallFacts DEF HearReject, Loses
  <2>3. CASE ~IsGroup(c)
    BY <1>2, <1>5, <2>1, <2>3, EndKeeps, CallFacts DEF HearReject
  <2> QED
    BY <2>2, <2>3
<1>6. CASE HearHangup(u, c)
  <2>1. call = c /\ UNCHANGED invited
    BY <1>6 DEF HearHangup, HearSignal
  <2>2. PICK i : Sound(i) /\ i.status = info[c].status /\ (Loses(u, c, i) \/ EndCall(c, i, tasks, "signal", c))
    <3>1. Sound(Without(info[c], u)) /\ Without(info[c], u).status = info[c].status
      BY <1>2, Records
    <3> QED
      BY <1>2, <1>6, <3>1 DEF HearHangup
  <2>3. CASE Loses(u, c, i)
    BY <1>1, <1>2, <2>1, <2>2, <2>3, BecomeKeeps, CallFacts DEF Loses
  <2>4. CASE EndCall(c, i, tasks, "signal", c)
    BY <1>2, <2>1, <2>2, <2>4, EndKeeps, CallFacts
  <2> QED
    BY <2>2, <2>3, <2>4
<1>7. CASE HearOffer(u, c)
  <2> DEFINE i == [Connecting(info[c]) EXCEPT !.peers = @ \cup {u}]
  <2>1. Sound(i) /\ i.status = "connecting"
    BY <1>2, Records
  <2>2. call = c /\ Become(c, i) /\ UNCHANGED <<call, ended, strays, invited>>
    BY <1>7 DEF HearOffer, HearSignal
  <2>3. \A t \in tasks' : t \in tasks \/ TaskOK(t)
    BY <1>7 DEF HearOffer, Dial, TaskOK
  <2> HIDE DEF i
  <2>4. ended' \cup invited' \subseteq Incoming /\ i.status \in Underway
    BY <2>1, <2>2, CallFacts DEF Underway
  <2> QED
    BY <2>1, <2>2, <2>3, <2>4, BecomeKeeps
<1>8. CASE HearFailure(u, c)
  <2>1. \A t \in tasks' : t \in tasks \/ TaskOK(t)
    BY <1>8 DEF HearFailure, Task, TaskOK
  <2> QED
    BY <1>8, <2>1, CallsStay, CallFacts DEF HearFailure, HearSignal
<1>9. CASE HearEndOfOther(u, c)
  BY <1>1, <1>9, CallsStay, CallFacts DEF HearEndOfOther, HearSignal
<1> QED
  BY <1>3, <1>4, <1>5, <1>6, <1>7, <1>8, <1>9

\* Timers, connections, the socket, and the page that is loaded again.
LEMMA TimersKeep ==
  ASSUME CallPageAssumption, CallsInv,
         \/ SocketDrops \/ SocketReopens \/ Reload
         \/ \E c \in Calls : \/ InviteTimeout(c) \/ SignalLossTimeout(c)
                             \/ \E u \in Users : PeerUp(c, u) \/ PeerFails(c, u)
  PROVE  CallsInv'
<1>1. ASSUME NEW b \in BOOLEAN, info' = IF call = None THEN info ELSE [info EXCEPT ![call].loss = b],
             UNCHANGED <<call, tasks, ended, strays, invited>>
      PROVE  CallsInv'
  <2>1. CASE call = None
    BY <1>1, <2>1, CallsStay, CallFacts
  <2>2. CASE call # None
    <3>1. Sound([info[call] EXCEPT !.loss = b]) /\ [info[call] EXCEPT !.loss = b].status \in Underway /\ call \in Calls
      BY <2>2, Records, CallFacts
    <3>2. Become(call, [info[call] EXCEPT !.loss = b])
      BY <1>1, <2>2 DEF Become
    <3> QED
      BY <1>1, <3>1, <3>2, BecomeKeeps, CallFacts
  <2> QED
    BY <2>1, <2>2
<1>2. CASE SocketDrops \/ SocketReopens
  BY <1>1, <1>2 DEF SocketDrops, SocketReopens
<1>3. CASE Reload
  <2>1. Fresh \in CallRecords /\ Over \in CallRecords /\ Fresh.up = {} /\ Over.up = {}
    BY DEF Fresh, Over, CallRecords, Statuses
  <2>2. /\ call' = None /\ ended' = {} /\ tasks' = {} /\ strays' = {} /\ invited' = invited
        /\ info' = [c \in Calls |-> IF info[c] = Fresh THEN Fresh ELSE Over]
    BY <1>3 DEF Reload
  <2>3. info' \in [Calls -> CallRecords] /\ \A c \in Calls : info'[c].up \subseteq info'[c].peers
    BY <2>1, <2>2
  <2> QED
    BY <2>2, <2>3, CallFacts DEF CallsInv, CallsTyped, CallsEndForTheirOwnReasons
<1>4. ASSUME NEW c \in Calls, InviteTimeout(c) PROVE CallsInv'
  <2>1. Sound(Silent(info[c])) /\ Silent(info[c]).status = info[c].status /\ UNCHANGED invited /\ c # None
        /\ (call = c => info[c].status \in Underway)
    BY <1>4, Records, CallFacts DEF InviteTimeout, steady
  <2>2. CASE Ringing(c) /\ EndCall(c, Silent(info[c]), tasks, "timeout", c)
    BY <2>1, <2>2, EndKeeps, CallFacts DEF Ringing
  <2>3. CASE Become(c, Silent(info[c])) /\ UNCHANGED <<call, tasks, ended, strays>>
    BY <2>1, <2>3, BecomeKeeps, CallFacts
  <2> QED
    BY <1>4, <2>2, <2>3 DEF InviteTimeout
<1>5. ASSUME NEW c \in Calls, SignalLossTimeout(c) PROVE CallsInv'
  <2>1. Sound([info[c] EXCEPT !.loss = FALSE]) /\ [info[c] EXCEPT !.loss = FALSE].status = info[c].status
        /\ UNCHANGED invited /\ c # None /\ (call = c => info[c].status \in Underway)
    BY <1>5, Records, CallFacts DEF SignalLossTimeout, steady
  <2>2. CASE SameCall(c) /\ EndCall(call, [info[call] EXCEPT !.loss = FALSE], tasks, "loss", c)
    BY <2>1, <2>2, EndKeeps, CallFacts DEF SameCall
  <2>3. CASE Become(c, [info[c] EXCEPT !.loss = FALSE]) /\ UNCHANGED <<call, tasks, ended, strays>>
    BY <2>1, <2>3, BecomeKeeps, CallFacts
  <2> QED
    BY <1>5, <2>2, <2>3 DEF SignalLossTimeout
<1>6. ASSUME NEW c \in Calls, NEW u \in Users, PeerUp(c, u) PROVE CallsInv'
  <2> DEFINE i == [info[c] EXCEPT !.up = @ \cup {u}]
  <2>1. Sound(info[c]) /\ u \in info[c].peers /\ UNCHANGED <<call, tasks, ended, strays, invited>> /\ call \in Calls
    BY <1>6, CallFacts DEF PeerUp, steady
  <2>2. info \in [Calls -> CallRecords]
    BY DEF CallsInv, CallsTyped
  <2>3. Sound(i)
    <3>1. info[c].up \cup {u} \in SUBSET Users /\ info[c].up \cup {u} \subseteq info[c].peers
      BY <2>1 DEF Sound, CallRecords
    <3> QED
      BY <2>1, <3>1 DEF Sound, CallRecords
  <2>4. info' = [[info EXCEPT ![c] = i] EXCEPT ![call].status = "accepted"]
    BY <1>6, <2>1, <2>2 DEF PeerUp
  <2> DEFINE mid == [info EXCEPT ![c] = i]
  <2> HIDE DEF i
  <2>5. mid \in [Calls -> CallRecords] /\ \A d \in Calls : Sound(mid[d])
    BY <2>2, <2>3, CallFacts DEF Sound
  <2> HIDE DEF mid
  <2>6. Sound([mid[call] EXCEPT !.status = "accepted"]) /\ [mid[call] EXCEPT !.status = "accepted"].status = "accepted"
    BY <2>1, <2>5 DEF Sound, CallRecords, Statuses
  <2>7. info' = [mid EXCEPT ![call] = [mid[call] EXCEPT !.status = "accepted"]]
    BY <2>4 DEF mid
  <2>8. info' \in [Calls -> CallRecords] /\ (\A d \in Calls : Sound(info'[d])) /\ info'[call].status = "accepted"
    BY <2>1, <2>5, <2>6, <2>7 DEF Sound
  <2>9. CallsTyped'
    BY <2>1, <2>8, CallFacts DEF CallsTyped, Sound, Underway
  <2> QED
    BY <2>1, <2>9 DEF CallsInv, CallsEndForTheirOwnReasons
<1>7. ASSUME NEW c \in Calls, NEW u \in Users, PeerFails(c, u) PROVE CallsInv'
  <2>1. call # None /\ call \in Calls /\ UNCHANGED invited
    BY <1>7, CallFacts DEF PeerFails, steady
  <2>2. CASE HangUp(tasks, "connection", c)
    BY <2>1, <2>2, HangUpKeeps, CallFacts
  <2>3. CASE Become(call, Without(info[call], u)) /\ UNCHANGED <<call, tasks, ended, strays>>
    <3>1. Sound(Without(info[call], u)) /\ Without(info[call], u).status = info[call].status
          /\ info[call].status \in Underway
      BY <2>1, Records, CallFacts
    <3> QED
      BY <2>1, <2>3, <3>1, BecomeKeeps, CallFacts
  <2> QED
    BY <1>7, <2>2, <2>3 DEF PeerFails
<1> QED
  BY <1>2, <1>3, <1>4, <1>5, <1>6, <1>7

\* A handler that waited goes on: it acts on its own call, or on the one it finds.
LEMMA TasksKeep ==
  ASSUME CallPageAssumption, CallsInv, NEW t \in tasks, TaskResumes(t) PROVE CallsInv'
<1>1. TaskOK(t) /\ t.c \in Calls /\ Sound(info[t.c]) /\ t.c # None
  BY CallFacts DEF TaskOK
<1>2. ASSUME UNCHANGED <<call, info, strays>>, tasks' \subseteq (tasks \ {t}) \cup {Task(at, Nobody, t.c) : at \in Handlers},
             ended' \cup invited' \subseteq Incoming
      PROVE  CallsInv'
  <2>1. \A q \in tasks' : q \in tasks \/ TaskOK(q)
    <3>1. \A at \in Handlers : TaskOK(Task(at, Nobody, t.c))
      BY <1>1 DEF Task, TaskOK, Handlers
    <3> QED
      BY <1>2, <3>1
  <2> QED
    BY <1>2, <2>1, CallsStay
<1>3. ASSUME call # None, NEW i, Sound(i), i.status \in Underway, Become(call, i), UNCHANGED <<call, ended, invited>>,
             strays' \subseteq strays \cup {"accept"}, \A q \in tasks' : q \in tasks \/ TaskOK(q)
      PROVE  CallsInv'
  <2>1. call \in Calls /\ ended' \cup invited' \subseteq Incoming
    BY <1>3, CallFacts
  <2> QED
    BY <1>3, <2>1, BecomeKeeps
<1>4. ASSUME call # None, NEW i, Sound(i), i.status \in Underway, NEW cause \in {"media", "failure", "identity"},
             EndCall(call, i, tasks \ {t}, cause, t.c), cause = "failure" => t.c = call, UNCHANGED invited
      PROVE  CallsInv'
  <2>1. \A q \in tasks \ {t} : TaskOK(q)
    BY CallFacts
  <2> QED
    BY <1>4, <2>1, EndKeeps
<1>5. ended \cup invited \subseteq Incoming
      /\ (call # None => call \in Calls /\ Sound(info[call]) /\ info[call].status \in Underway
                         /\ info[call].accepted \subseteq Users)
  BY CallFacts
<1>6. CASE FullscreenLeft(t)
  <2>1. Sound(Over)
    BY DEF Sound, Over, Fresh, CallRecords, Statuses
  <2>2. Become(t.c, Over) /\ call' = (IF call = t.c THEN None ELSE call) /\ UNCHANGED <<invited, ended, strays>>
        /\ tasks' = tasks \ {t}
    BY <1>6 DEF FullscreenLeft
  <2> QED
    BY <1>1, <1>5, <2>1, <2>2, BecomeKeeps
<1>7. CASE ConfigLoaded(t)
  <2>1. UNCHANGED invited
    BY <1>7 DEF ConfigLoaded
  <2>2. CASE Create(t.c) /\ tasks' = tasks \ {t}
    BY <1>1, <2>1, <2>2, CreateKeeps
  <2>3. CASE UNCHANGED <<call, info, ended, strays>>
    <3>1. tasks' \subseteq (tasks \ {t}) \cup {Task(at, Nobody, t.c) : at \in Handlers}
      BY <1>7, <2>3 DEF ConfigLoaded, Handlers
    <3> QED
      BY <1>2, <1>5, <2>1, <2>3, <3>1
  <2> QED
    BY <1>7, <2>2, <2>3 DEF ConfigLoaded
<1>8. CASE IdentityLoaded(t)
  <2>1. CASE Create(t.c)
    BY <1>1, <1>8, <2>1, CreateKeeps DEF IdentityLoaded
  <2>2. CASE UNCHANGED <<call, info, ended, strays>>
    <3>1. tasks' \subseteq (tasks \ {t}) \cup {Task(at, Nobody, t.c) : at \in Handlers}
          /\ UNCHANGED invited
      BY <1>8 DEF IdentityLoaded
    <3> QED
      BY <1>2, <1>5, <2>2, <3>1
  <2> QED
    BY <1>8, <2>1, <2>2 DEF IdentityLoaded
<1>9. CASE Ring(t)
  <2> DEFINE i == Alerted([Fresh EXCEPT !.status = "ringing", !.accepted = {t.u}])
  <2>1. t.u \in Users
    BY <1>1, <1>9 DEF Ring, TaskOK
  <2>2. Sound(i) /\ i.status \in Underway
    BY <2>1 DEF Sound, CallRecords, Statuses, Fresh, Alerted, Underway
  <2>3. Become(t.c, i) /\ call' = t.c /\ tasks' = tasks \ {t} /\ UNCHANGED <<ended, strays, invited>>
    BY <1>9 DEF Ring, steady
  <2> HIDE DEF i
  <2> QED
    BY <1>1, <1>5, <2>2, <2>3, BecomeKeeps
<1>10. ASSUME RejectAnswered(t), UNCHANGED invited PROVE CallsInv'
  <2>1. CASE tasks' = tasks \ {t} /\ UNCHANGED <<call, info, ended, strays>>
    BY <1>2, <1>5, <1>10, <2>1
  <2>2. CASE call # None /\ EndCall(call, info[call], tasks \ {t}, "media", t.c)
    BY <1>4, <1>5, <1>10, <2>2
  <2> QED
    BY <1>10, <2>1, <2>2 DEF RejectAnswered
<1>11. CASE AnswerIdentity(t)
  <2>1. UNCHANGED invited
    BY <1>11 DEF AnswerIdentity
  <2>2. CASE RejectAnswered(t)
    BY <1>10, <2>1, <2>2
  <2>3. CASE tasks' = (tasks \ {t}) \cup {Task("answer media", Nobody, t.c)} /\ UNCHANGED <<call, info, ended, strays>>
    BY <1>2, <1>5, <2>1, <2>3 DEF Handlers
  <2> QED
    BY <1>11, <2>2, <2>3 DEF AnswerIdentity
<1>12. CASE AnswerMedia(t)
  <2>1. UNCHANGED invited
    BY <1>12 DEF AnswerMedia, steady
  <2>2. CASE RejectAnswered(t)
    BY <1>10, <2>1, <2>2
  <2> DEFINE i == [info[call] EXCEPT !.stream = TRUE, !.status = "accepted"]
  <2>3. CASE /\ call # None /\ Become(call, i)
             /\ strays' = strays \cup Stray("accept", t.c, call)
             /\ \E next \in DialsNext(call, {}) : tasks' = (tasks \ {t}) \cup next
             /\ UNCHANGED <<call, ended>>
    <3>1. info[call] \in CallRecords /\ Sound(info[call]) /\ info[call].accepted \subseteq Users
      BY <1>5, <2>3 DEF Sound
    <3>2. i.status = "accepted" /\ Sound(i)
      BY <3>1, Records DEF CallRecords
    <3>3. strays' \subseteq strays \cup {"accept"}
      BY <2>3 DEF Stray
    <3>4. \A q \in tasks' : q \in tasks \/ TaskOK(q)
      <4>1. PICK next \in DialsNext(call, {}) : tasks' = (tasks \ {t}) \cup next
        BY <2>3
      <4>2. \A q \in next : TaskOK(q)
        BY <1>5, <2>3, <4>1, DialsAreTyped
      <4> QED
        BY <4>1, <4>2
    <3> HIDE DEF i
    <3> QED
      BY <1>3, <2>1, <2>3, <3>2, <3>3, <3>4 DEF Underway
  <2> QED
    BY <1>12, <2>2, <2>3 DEF AnswerMedia
<1>13. CASE Dialled(t)
  <2>1. UNCHANGED invited /\ t.at = "dial" /\ t.u \in Users
    BY <1>1, <1>13 DEF Dialled, TaskOK
  <2>2. CASE Unidentified(t)
    <3>1. call # None
      BY <2>2 DEF Unidentified
    <3>2. PICK next \in Onward(t) : HangUp((tasks \ {t}) \cup next, "identity", call)
      BY <2>2 DEF Unidentified
    <3>3. \A q \in (tasks \ {t}) \cup next : TaskOK(q)
      BY <3>1, <3>2, OnwardIsTyped, CallFacts
    <3> QED
      BY <2>1, <3>2, <3>3, HangUpKeeps
  <2> DEFINE i == [Connecting(info[call]) EXCEPT !.peers = @ \cup {t.u}]
  <2>3. CASE /\ call # None /\ Become(call, i)
             /\ tasks' = (tasks \ {t}) \cup {Dial(Awaits(call, t.u), t.u, call, t.of, t.seen)}
             /\ UNCHANGED <<call, ended, strays>>
    <3>1. Sound(i) /\ i.status = "connecting"
      BY <1>5, <2>1, <2>3, Records
    <3>2. \A q \in tasks' : q \in tasks \/ TaskOK(q)
      BY <1>5, <2>1, <2>3 DEF Dial, TaskOK
    <3> HIDE DEF i
    <3> QED
      BY <1>3, <2>1, <2>3, <3>1, <3>2 DEF Underway
  <2>4. CASE tasks' = tasks \ {t} /\ UNCHANGED <<call, info, ended, strays>>
    BY <1>2, <1>5, <2>1, <2>4
  <2>5. CASE call # None /\ (\E next \in Onward(t) : tasks' = (tasks \ {t}) \cup next)
             /\ UNCHANGED <<call, info, ended, strays>>
    <3>1. \A q \in tasks' : q \in tasks \/ TaskOK(q)
      BY <2>5, OnwardIsTyped
    <3> QED
      BY <1>5, <2>1, <2>5, <3>1, CallsStay
  <2> HIDE DEF i
  <2>6. \/ Unidentified(t)
        \/ /\ call # None /\ Become(call, i)
           /\ tasks' = (tasks \ {t}) \cup {Dial(Awaits(call, t.u), t.u, call, t.of, t.seen)}
           /\ UNCHANGED <<call, ended, strays>>
        \/ tasks' = tasks \ {t} /\ UNCHANGED <<call, info, ended, strays>>
        \/ call # None /\ (\E next \in Onward(t) : tasks' = (tasks \ {t}) \cup next)
           /\ UNCHANGED <<call, info, ended, strays>>
    BY <1>13 DEF Dialled, i
  <2> QED
    BY <2>2, <2>3, <2>4, <2>5, <2>6
<1>14. ASSUME NEW i, MediaFails(t, i), call # None => Sound(i) /\ i.status \in Underway, UNCHANGED invited
       PROVE  CallsInv'
  <2>1. CASE call # None /\ Become(call, Without(i, t.u)) /\ tasks' = tasks \ {t} /\ UNCHANGED <<call, ended, strays>>
    <3>1. Sound(Without(i, t.u)) /\ Without(i, t.u).status \in Underway
      BY <1>14, <2>1, Records
    <3> QED
      BY <1>3, <1>14, <2>1, <3>1
  <2>2. CASE call # None /\ EndCall(call, i, tasks \ {t}, "media", t.c)
    BY <1>4, <1>14, <2>2
  <2>3. CASE tasks' = tasks \ {t} /\ UNCHANGED <<call, info, ended, strays>>
    BY <1>2, <1>5, <1>14, <2>3
  <2> QED
    BY <1>14, <2>1, <2>2, <2>3 DEF MediaFails
<1>15. CASE Captured(t)
  <2> DEFINE found == IF call = None THEN Fresh ELSE info[call]
  <2> DEFINE i == IF t.at = "capture" THEN [found EXCEPT !.stream = TRUE] ELSE found
  <2>1. UNCHANGED invited
    BY <1>15 DEF Captured, steady
  <2>2. call # None => Sound(found) /\ found.status \in Underway
    BY <1>5
  <2>3. call # None => Sound(i) /\ i.status \in Underway
    BY <2>2, Records
  <2>4. CASE /\ call # None /\ Become(call, i)
             /\ \E next \in Onward(t) : tasks' = (tasks \ {t}) \cup next
             /\ UNCHANGED <<call, ended, strays>>
    <3>1. \A q \in tasks' : q \in tasks \/ TaskOK(q)
      BY <2>4, OnwardIsTyped
    <3>2. Sound(i) /\ i.status \in Underway /\ strays' \subseteq strays \cup {"accept"}
      BY <2>3, <2>4
    <3> HIDE DEF i, found
    <3> QED
      BY <1>3, <2>1, <2>4, <3>1, <3>2
  <2>5. MediaFails(t, found) \/ MediaFails(t, i)
        \/ (/\ call # None /\ Become(call, i)
            /\ \E next \in Onward(t) : tasks' = (tasks \ {t}) \cup next
            /\ UNCHANGED <<call, ended, strays>>)
    BY <1>15 DEF Captured
  <2> HIDE DEF i, found
  <2>6. CASE MediaFails(t, found)
    BY <1>14, <2>1, <2>2, <2>6
  <2>7. CASE MediaFails(t, i)
    BY <1>14, <2>1, <2>3, <2>7
  <2> QED
    BY <2>4, <2>5, <2>6, <2>7
<1>16. CASE Failed(t)
  <2>1. UNCHANGED invited
    BY <1>16 DEF Failed, steady
  <2>2. CASE tasks' = tasks \ {t} /\ UNCHANGED <<call, info, ended, strays>>
    BY <1>2, <1>5, <2>1, <2>2
  <2>3. CASE SameCall(t.c) /\ Become(call, Without(info[call], t.u)) /\ tasks' = tasks \ {t}
             /\ UNCHANGED <<call, ended, strays>>
    <3>1. call # None /\ Sound(Without(info[call], t.u)) /\ Without(info[call], t.u).status \in Underway
      BY <1>1, <1>5, <2>3, Records DEF SameCall
    <3> QED
      BY <1>3, <2>1, <2>3, <3>1
  <2>4. CASE SameCall(t.c) /\ EndCall(call, info[call], tasks \ {t}, "failure", t.c)
    BY <1>1, <1>4, <1>5, <2>1, <2>4 DEF SameCall
  <2> QED
    BY <1>16, <2>2, <2>3, <2>4 DEF Failed
<1> QED
  BY <1>6, <1>7, <1>8, <1>9, <1>11, <1>12, <1>13, <1>15, <1>16 DEF TaskResumes

\* Every step of the page keeps the invariant.
LEMMA CallsNextInv ==
  ASSUME CallPageAssumption, CallsInv, [CallPageNext]_callPageVars PROVE CallsInv'
<1>1. CASE UNCHANGED callPageVars
  BY <1>1 DEF callPageVars, CallsInv, CallsTyped, CallsEndForTheirOwnReasons
<1>2. ASSUME NEW t \in tasks, TaskResumes(t) PROVE CallsInv'
  BY <1>2, TasksKeep
<1>3. CASE UserHangsUp \/ EnterFullscreen \/ SocketDrops \/ SocketReopens \/ Reload
  BY <1>3, UserKeeps, TimersKeep
<1>4. ASSUME NEW c \in Calls,
             ClickCall(c) \/ Accept(c) \/ UserRejects(c) \/ InviteTimeout(c) \/ SignalLossTimeout(c)
      PROVE  CallsInv'
  BY <1>4, UserKeeps, TimersKeep
<1>5. ASSUME NEW c \in Calls, HearInvite(c) PROVE CallsInv'
  <2>1. CallerOf[c] \in Users
    BY <1>5 DEF HearInvite, CallPageAssumption
  <2> QED
    BY <1>5, <2>1, HearKeeps
<1>6. ASSUME NEW c \in Calls, NEW u \in Users, PeerUp(c, u) \/ PeerFails(c, u) PROVE CallsInv'
  BY <1>6, TimersKeep
<1>7. ASSUME NEW c \in Calls, NEW u \in Users,
             \/ HearAccept(u, c) \/ HearReject(u, c) \/ HearHangup(u, c) \/ HearOffer(u, c)
             \/ HearFailure(u, c) \/ HearEndOfOther(u, c)
      PROVE  CallsInv'
  BY <1>7, HearKeeps
<1> QED
  BY <1>1, <1>2, <1>3, <1>4, <1>5, <1>6, <1>7 DEF CallPageNext

\* The invariant gives the types of the page.
LEMMA CallsInvIsTyped ==
  ASSUME CallPageAssumption, CallsInv PROVE CallPageTypeOK
<1> QED
  BY DEF CallsInv, CallsTyped, CallRecords, Underway, TaskOK, CallPageTypeOK
=============================================================================
