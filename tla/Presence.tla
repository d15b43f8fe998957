------------------------------ MODULE Presence ------------------------------
(***************************************************************************)
(* Presence (internal/ws/handlers.go, internal/ws/hub.go): a connection    *)
(* that registers is sent the list of its peers online; the first one of a *)
(* user announces to the peers that the user is online, and the last one   *)
(* to go that it is offline.  All of it happens in the goroutine of the    *)
(* connection, after the hub's lock was released, and nothing orders the   *)
(* goroutines of two connections.  Each of its loops runs over open rows,  *)
(* which hold the only connection to the database: one loop runs at a      *)
(* time, while the hub is free to change under it.                         *)
(*                                                                         *)
(* Events reach a client in the order they are queued: the view of a       *)
(* connection is what its client will show once it has read its queue.     *)
(* A queue past its watermark (Hub) drops any presence event.              *)
(***************************************************************************)
EXTENDS FiniteSets

CONSTANTS
    Conn, User,
    UserOf,      \* the user each connection authenticated as
    Peers        \* the users each user shares an accepted conversation with

PresenceAssumption ==
    /\ UserOf \in [Conn -> User]
    /\ Peers \in [User -> SUBSET User]
    /\ \A u \in User : u \notin Peers[u]

VARIABLES
    clients,     \* h.clients: the registered connections
    stage,       \* where the goroutine of ServeHTTP is
    edge,        \* what Register (first) or Unregister (last) returned to it
    todo,        \* the users its loop has yet to visit
    rows,        \* the goroutine, if any, whose open rows hold the database
    online,      \* the users sendPresenceState has found online
    view,        \* the users the client of a connection shows as online
    dropped,     \* the connections a presence event was dropped for
    told         \* the last presence a user had announced to each peer

presenceVars == <<clients, stage, edge, todo, rows, online, view, dropped, told>>

Stages == {"new", "state", "online", "serving", "left", "offline", "gone"}
ConnectionsOf(u) == {c \in clients : UserOf[c] = u}
IsOnline(u) == ConnectionsOf(u) # {}
PeersOf(c) == Peers[UserOf[c]]

PresenceTypeOK ==
    /\ clients \subseteq Conn /\ dropped \subseteq Conn
    /\ stage \in [Conn -> Stages] /\ edge \in [Conn -> BOOLEAN]
    /\ todo \in [Conn -> SUBSET User] /\ online \in [Conn -> SUBSET User]
    /\ view \in [Conn -> SUBSET User]
    /\ rows \subseteq Conn /\ \A c, d \in rows : c = d
    /\ told \in [User -> [User -> {"nothing", "online", "offline"}]]
    \* A connection is registered from its Register to its Unregister.
    /\ \A c \in Conn : c \in clients <=> stage[c] \in {"state", "online", "serving", "left"}

PresenceInit ==
    /\ clients = {} /\ dropped = {} /\ rows = {}
    /\ stage = [c \in Conn |-> "new"] /\ edge = [c \in Conn |-> FALSE]
    /\ todo = [c \in Conn |-> {}] /\ online = [c \in Conn |-> {}]
    /\ view = [c \in Conn |-> {}]
    /\ told = [u \in User |-> [v \in User |-> "nothing"]]

-----------------------------------------------------------------------------
Goto(c, to) == stage' = [stage EXCEPT ![c] = to]
Visit(c, users) == todo' = [todo EXCEPT ![c] = users]

\* One turn of a loop over the peers. The first one opens the rows, and rows that
\* were read to the end are closed.
Turn(c, u) ==
    /\ u \in todo[c] /\ rows \subseteq {c}
    /\ Visit(c, todo[c] \ {u})
    /\ rows' = IF todo[c] = {u} THEN {} ELSE {c}

\* SendEphemeralToUser: every connection of u shows what it is told, but for
\* those whose queue is past its watermark.
Tell(u, shown) ==
    \E full \in SUBSET ConnectionsOf(u) :
        /\ dropped' = dropped \cup full
        /\ view' = [c \in Conn |-> IF c \in ConnectionsOf(u) \ full THEN shown[c] ELSE view[c]]

\* What Register returns: whether the user had no connection.
First(c) == ~IsOnline(UserOf[c])

Register(c) ==
    /\ stage[c] = "new"
    /\ edge' = [edge EXCEPT ![c] = First(c)]
    /\ clients' = clients \cup {c}
    /\ Goto(c, "state") /\ Visit(c, PeersOf(c))
    /\ UNCHANGED <<rows, online, view, dropped, told>>

\* sendPresenceState asks the hub about one peer after the other, ...
LookAt(c, u) ==
    /\ stage[c] = "state" /\ Turn(c, u)
    /\ online' = [online EXCEPT ![c] = IF IsOnline(u) THEN @ \cup {u} ELSE @]
    /\ UNCHANGED <<clients, stage, edge, view, dropped, told>>

\* ... then sends the list to every connection of the user, which replaces what
\* each of them showed.
SendPresenceState(c) ==
    /\ stage[c] = "state" /\ todo[c] = {}
    /\ Tell(UserOf[c], [d \in Conn |-> online[c]])
    /\ Goto(c, "online") /\ Visit(c, IF edge[c] THEN PeersOf(c) ELSE {})
    /\ UNCHANGED <<clients, edge, rows, online, told>>

\* broadcastPresence, one recipient at a time.
Announce(c, u) ==
    /\ stage[c] \in {"online", "offline"} /\ Turn(c, u)
    /\ told' = [told EXCEPT ![UserOf[c]][u] = stage[c]]
    /\ Tell(u, [d \in Conn |-> IF stage[c] = "online" THEN view[d] \cup {UserOf[c]}
                                                    ELSE view[d] \ {UserOf[c]}])
    /\ UNCHANGED <<clients, stage, edge, online>>

Serve(c) ==
    /\ stage[c] = "online" /\ todo[c] = {}
    /\ Goto(c, "serving")
    /\ UNCHANGED <<clients, edge, todo, rows, online, view, dropped, told>>

ReadLoopReturns(c) ==
    /\ stage[c] = "serving"
    /\ Goto(c, "left")
    /\ UNCHANGED <<clients, edge, todo, rows, online, view, dropped, told>>

LastBefore(c) == ConnectionsOf(UserOf[c]) = {}      \* mutant: read before the removal

\* What Unregister returns: whether no connection of the user is left.
Last(c) == ConnectionsOf(UserOf[c]) \ {c} = {}


Unregistered(c) == {c}

Unregister(c) ==
    /\ stage[c] = "left"
    /\ clients' = clients \ Unregistered(c)
    /\ edge' = [edge EXCEPT ![c] = Last(c)]
    /\ Goto(c, "offline") /\ Visit(c, IF Last(c) THEN PeersOf(c) ELSE {})
    /\ UNCHANGED <<rows, online, view, dropped, told>>

Return(c) ==
    /\ stage[c] = "offline" /\ todo[c] = {}
    /\ Goto(c, "gone")
    /\ UNCHANGED <<clients, edge, todo, rows, online, view, dropped, told>>

Handler(c) ==
    \/ SendPresenceState(c) \/ Serve(c) \/ Unregister(c) \/ Return(c)
    \/ \E u \in User : LookAt(c, u) \/ Announce(c, u)

PresenceNext == \E c \in Conn : Register(c) \/ Handler(c) \/ ReadLoopReturns(c)

PresenceSpec == PresenceInit /\ [][PresenceNext]_presenceVars

-----------------------------------------------------------------------------
(* Properties *)

Idle == \A c \in Conn : stage[c] \in {"new", "serving", "gone"}

\* No ghost: once its connections are gone and their goroutines have returned,
\* the last thing a user's peers had announced is not that it is online.  The
\* goroutines are not ordered with each other, but one that saw its user come
\* online has announced it before it unregisters.
GhostsAreNotAnnounced ==
    Idle => \A u \in User : ~IsOnline(u) => \A v \in User : told[u][v] # "online"

\* A user who is online has been announced to every peer, whichever of its
\* connections saw it come online.  (The last announcement may still be that it
\* left: a connection that goes may be announced after the next one came.)
OnlineWasAnnounced ==
    Idle => \A u \in User : IsOnline(u) => \A v \in Peers[u] : told[u][v] # "nothing"
=============================================================================
