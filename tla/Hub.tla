-------------------------------- MODULE Hub --------------------------------
(***************************************************************************)
(* The WebSocket hub and the life of its connections (internal/ws/hub.go,  *)
(* internal/ws/handlers.go): registration, the bounded queues and what     *)
(* happens when they are full, the write loop and the read loop, kicks.    *)
(*                                                                         *)
(* Each connection has the goroutine of ServeHTTP, which ends as its read  *)
(* loop, and a write loop.  A send is one step: the hub's read lock keeps  *)
(* connections from being unregistered under it, and what it does to two   *)
(* connections commutes.  KickUser walks its list without the lock.        *)
(* Queues are their lengths, and the code of the close frame is left out.  *)
(***************************************************************************)
EXTENDS Integers, FiniteSets

CONSTANTS
    Conn, User,
    UserOf,          \* the user each connection authenticated as
    QueueSize,       \* clientQueueSize
    EphemeralLimit,  \* ephemeralQueueLimit
    CallQueueSize    \* callSignalQueueSize

HubAssumption ==
    /\ IsFiniteSet(Conn)
    /\ UserOf \in [Conn -> User]
    /\ QueueSize \in Nat /\ CallQueueSize \in Nat
    /\ EphemeralLimit \in 0 .. QueueSize

VARIABLES
    clients,     \* h.clients: the registered connections
    pc,          \* where the goroutine of ServeHTTP is
    writer,      \* the write loop
    open,        \* the connections whose socket is open
    queue, callQueue,   \* lengths of client.Send and client.Call
    closed,      \* the connections whose queues were closed
    kick,        \* the connections with a queued kick
    done, resync,      \* client.Done closed, and the reason for it
    missed,      \* the registered connections that were not given a durable event
    kicking      \* the connections a KickUser in progress has yet to visit

life == <<clients, pc, writer, open, closed>>
flags == <<kick, done, resync>>
queues == <<queue, callQueue>>
vars == <<life, flags, queues, missed, kicking>>

PC == {"new", "registered", "serving", "left", "unregistered", "returned"}
ConnectionsOf(u) == {c \in clients : UserOf[c] = u}

TypeOK ==
    /\ clients \subseteq Conn /\ open \subseteq Conn /\ closed \subseteq Conn
    /\ kick \subseteq Conn /\ done \subseteq Conn /\ resync \subseteq Conn
    /\ kicking \subseteq Conn
    /\ pc \in [Conn -> PC]
    /\ writer \in [Conn -> {"off", "running", "exited"}]
    /\ queue \in [Conn -> 0 .. QueueSize] /\ callQueue \in [Conn -> 0 .. CallQueueSize]
    /\ missed \subseteq Conn

Init ==
    /\ clients = {} /\ open = {} /\ closed = {}
    /\ kick = {} /\ done = {} /\ resync = {}
    /\ pc = [c \in Conn |-> "new"] /\ writer = [c \in Conn |-> "off"]
    /\ queue = [c \in Conn |-> 0] /\ callQueue = [c \in Conn |-> 0]
    /\ missed = {} /\ kicking = {}

-----------------------------------------------------------------------------
(* Sending *)

FullLate(c) == queue[c] > QueueSize     \* mutant: one event too many

Full(c) == queue[c] >= QueueSize

Longer(q, cs) == [c \in Conn |-> IF c \in cs THEN q[c] + 1 ELSE q[c]]

\* A typing indicator or a presence event: dropped past the watermark.
SendEphemeralToUser(u) ==
    /\ queue' = Longer(queue, {c \in ConnectionsOf(u) : queue[c] < EphemeralLimit})
    /\ UNCHANGED <<life, flags, callQueue, missed, kicking>>

\* A connection with no room for a durable event is closed, and its client asked
\* to come back.
OverflowSilent(cs) == resync' = resync /\ done' = done \cup cs   \* mutant: no resync
Overflow(cs) == resync' = resync \cup cs /\ done' = done \cup cs

SendToUser(u) ==
    LET full == {c \in ConnectionsOf(u) : Full(c)} IN
    /\ queue' = Longer(queue, ConnectionsOf(u) \ full)
    /\ Overflow(full)
    /\ missed' = missed \cup full
    /\ UNCHANGED <<life, kick, callQueue, kicking>>

\* A full call queue refuses the signal and closes nothing.
SendCallToUser(u) ==
    /\ callQueue' = Longer(callQueue, {c \in ConnectionsOf(u) : callQueue[c] < CallQueueSize})
    /\ UNCHANGED <<life, flags, queue, missed, kicking>>

\* KickUser takes its list under the lock, ...
KickUser(u) ==
    /\ kicking = {}
    /\ kicking' = ConnectionsOf(u)
    /\ UNCHANGED <<life, flags, queues, missed>>

\* ... and queues a kick for each connection, or closes one that has a kick
\* queued already.
Kick(c) ==
    /\ c \in kicking
    /\ kicking' = kicking \ {c}
    /\ \/ /\ c \notin kick
          /\ kick' = kick \cup {c}
          /\ UNCHANGED done
       \/ /\ c \in kick
          /\ done' = done \cup {c}
          /\ UNCHANGED kick
    /\ UNCHANGED <<life, resync, queues, missed>>

-----------------------------------------------------------------------------
(* The goroutine of ServeHTTP *)

Goto(c, to) == pc' = [pc EXCEPT ![c] = to]

Register(c) ==
    /\ pc[c] = "new"
    /\ clients' = clients \cup {c} /\ open' = open \cup {c}
    /\ Goto(c, "registered")
    /\ UNCHANGED <<writer, closed, flags, queues, missed, kicking>>

\* Presence was announced: the write loop starts, and the read loop.
Serve(c) ==
    /\ pc[c] = "registered"
    /\ Goto(c, "serving")
    /\ writer' = [writer EXCEPT ![c] = "running"]
    /\ UNCHANGED <<clients, open, closed, flags, queues, missed, kicking>>

\* The read loop ends when its client leaves, when the socket was closed, or at
\* the read deadline; it closes the socket.
ReadLoopReturns(c) ==
    /\ pc[c] = "serving"
    /\ Goto(c, "left")
    /\ open' = open \ {c}
    /\ UNCHANGED <<clients, writer, closed, flags, queues, missed, kicking>>

Unregistered(c) == {c}

Unregister(c) ==
    /\ pc[c] = "left"
    /\ clients' = clients \ Unregistered(c)
    /\ Goto(c, "unregistered")
    /\ UNCHANGED <<writer, open, closed, flags, queues, missed, kicking>>

CloseQueues(c) ==
    /\ pc[c] = "unregistered"
    /\ closed' = closed \cup {c}
    /\ Goto(c, "returned")
    /\ UNCHANGED <<clients, writer, open, flags, queues, missed, kicking>>

-----------------------------------------------------------------------------
(* The write loop *)

Exit(c) == writer' = [writer EXCEPT ![c] = "exited"]

\* A queued event is written; a write that fails ends the loop and leaves the
\* socket to the read deadline.
Write(c) ==
    /\ writer[c] = "running"
    /\ \/ queue[c] > 0 /\ queue' = [queue EXCEPT ![c] = @ - 1] /\ UNCHANGED callQueue
       \/ callQueue[c] > 0 /\ callQueue' = [callQueue EXCEPT ![c] = @ - 1] /\ UNCHANGED queue
    /\ \/ c \in open /\ UNCHANGED writer
       \/ Exit(c)
    /\ UNCHANGED <<clients, pc, open, closed, flags, missed, kicking>>

\* A ping failed, or an empty queue was closed.
WriteLoopReturns(c) ==
    /\ writer[c] = "running"
    /\ Exit(c)
    /\ UNCHANGED <<clients, pc, open, closed, flags, queues, missed, kicking>>

\* client.Done or client.Kick was selected: a close frame, then the socket.
WriteClose(c) ==
    /\ writer[c] = "running"
    /\ \/ c \in done /\ UNCHANGED kick
       \/ c \in kick /\ kick' = kick \ {c}
    /\ open' = open \ {c}
    /\ Exit(c)
    /\ UNCHANGED <<clients, pc, closed, done, resync, queues, missed, kicking>>

-----------------------------------------------------------------------------
Handler(c) == Serve(c) \/ Unregister(c) \/ CloseQueues(c)

Next ==
    \/ \E c \in Conn : \/ Register(c) \/ Handler(c) \/ ReadLoopReturns(c)
                       \/ Write(c) \/ WriteLoopReturns(c) \/ WriteClose(c) \/ Kick(c)
    \/ \E u \in User : \/ SendToUser(u) \/ SendEphemeralToUser(u)
                       \/ SendCallToUser(u) \/ KickUser(u)

Spec == Init /\ [][Next]_vars

\* A socket whose write loop ended is not pinged any more, so that no pong extends
\* its read deadline.
Deadline(c) == (c \notin open \/ writer[c] = "exited") /\ ReadLoopReturns(c)

\* Goroutines run; select picks among the ready cases at random, so that it
\* cannot pass over a close for ever.
Fairness ==
    \A c \in Conn : /\ WF_vars(Handler(c)) /\ WF_vars(Deadline(c)) /\ WF_vars(Kick(c))
                    /\ SF_vars(WriteClose(c))

FairSpec == Spec /\ Fairness

-----------------------------------------------------------------------------
(* Properties *)

\* No event is ever sent on a closed queue, which would crash the server: a
\* connection whose queues are closed is not registered, although kicks may
\* still reach it.
ClosedQueuesAreUnreachable == closed \cap clients = {}

\* Backpressure never loses a durable event in silence: a registered connection
\* that was not given one is marked for a resync and asked to close, and nothing
\* else (a presence event, a call signal, a kick) marks a connection.
MissedMeansResync ==
    \A c \in Conn : /\ c \in missed <=> c \in resync
                    /\ c \in resync => c \in done

\* What the goroutine of a connection has done is what the hub shows of it: this is
\* why a connection whose queues are closed is out of reach of every sender.
ProgressShows ==
    \A c \in Conn : /\ c \in clients <=> pc[c] \in {"registered", "serving", "left"}
                    /\ c \in closed <=> pc[c] = "returned"

HubInv == TypeOK /\ ProgressShows /\ MissedMeansResync

\* A connection that was asked to close, for a resync or by a kick, leaves the
\* hub, whatever has become of its write loop.
AskedToClose(c) == c \in done \/ c \in kick
Gone(c) == c \notin clients
AskedToCloseLeaves ==
    \A c \in Conn : AskedToClose(c) ~> Gone(c)
=============================================================================
