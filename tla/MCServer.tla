------------------------------ MODULE MCServer ------------------------------
(* Parts of the server that do not meet, side by side: a behaviour is one of  *)
(* a single part, named by server, and s1, s2, ... are the variables of that  *)
(* part. The receipts of call deliveries; the ledger of calls, as the side    *)
(* that sends the signals and as the side that receives them; the sessions;   *)
(* who is shown online.                                                       *)
(* The modules of the proofs are instantiated, so that what they say of each  *)
(* part can be said of the whole (SystemProofs).                              *)
EXTENDS Naturals, TLC
\* The constants of the cache, of the ledger by side, and of presence; those of the sessions.
CONSTANTS Cache, Ledger, Company, Login, Key, KeyOf, Keyed, Acting, MaxResets, None
VARIABLES server, s1, s2, s3, s4, s5, s6, s7, s8, s9, s10, s11, s12, s13
serverVars == <<server, s1, s2, s3, s4, s5, s6, s7, s8, s9, s10, s11, s12, s13>>

Sent == INSTANCE CallLedgerProofs WITH
  Req <- Ledger.sent.Req, Event <- Ledger.sent.Event, Call <- Ledger.sent.Call,
  Scope <- Ledger.sent.Scope, EventOf <- Ledger.sent.EventOf, CallOf <- Ledger.sent.CallOf,
  ScopeOf <- Ledger.sent.ScopeOf, SequenceOf <- Ledger.sent.SequenceOf,
  KindOf <- Ledger.sent.KindOf, OfClient <- Ledger.sent.OfClient, TTL <- Ledger.sent.TTL,
  Ahead <- Ledger.sent.Ahead, Tombstone <- Ledger.sent.Tombstone, Skew <- Ledger.sent.Skew,
  SweepInterval <- Ledger.sent.SweepInterval, Capacity <- Ledger.sent.Capacity,
  MaxStall <- Ledger.sent.MaxStall, MaxNow <- Ledger.sent.MaxNow, now <- s1, sent <- s2,
  read <- s3, verdict <- s4, seen <- s5, highest <- s6, touchedAt <- s7, terminated <- s8,
  sweptAt <- s9, evicted <- s10, place <- s11, decidedAt <- s12
Received == INSTANCE CallLedgerProofs WITH
  Req <- Ledger.received.Req, Event <- Ledger.received.Event, Call <- Ledger.received.Call,
  Scope <- Ledger.received.Scope, EventOf <- Ledger.received.EventOf,
  CallOf <- Ledger.received.CallOf, ScopeOf <- Ledger.received.ScopeOf,
  SequenceOf <- Ledger.received.SequenceOf, KindOf <- Ledger.received.KindOf,
  OfClient <- Ledger.received.OfClient, TTL <- Ledger.received.TTL,
  Ahead <- Ledger.received.Ahead, Tombstone <- Ledger.received.Tombstone,
  Skew <- Ledger.received.Skew, SweepInterval <- Ledger.received.SweepInterval,
  Capacity <- Ledger.received.Capacity, MaxStall <- Ledger.received.MaxStall,
  MaxNow <- Ledger.received.MaxNow, now <- s1, sent <- s2, read <- s3, verdict <- s4,
  seen <- s5, highest <- s6, touchedAt <- s7, terminated <- s8, sweptAt <- s9,
  evicted <- s10, place <- s11, decidedAt <- s12
Stalled == INSTANCE CallLedgerProofs WITH
  Req <- Ledger.stalled.Req, Event <- Ledger.stalled.Event, Call <- Ledger.stalled.Call,
  Scope <- Ledger.stalled.Scope, EventOf <- Ledger.stalled.EventOf,
  CallOf <- Ledger.stalled.CallOf, ScopeOf <- Ledger.stalled.ScopeOf,
  SequenceOf <- Ledger.stalled.SequenceOf, KindOf <- Ledger.stalled.KindOf,
  OfClient <- Ledger.stalled.OfClient, TTL <- Ledger.stalled.TTL,
  Ahead <- Ledger.stalled.Ahead, Tombstone <- Ledger.stalled.Tombstone,
  Skew <- Ledger.stalled.Skew, SweepInterval <- Ledger.stalled.SweepInterval,
  Capacity <- Ledger.stalled.Capacity, MaxStall <- Ledger.stalled.MaxStall,
  MaxNow <- Ledger.stalled.MaxNow, now <- s1, sent <- s2, read <- s3, verdict <- s4,
  seen <- s5, highest <- s6, touchedAt <- s7, terminated <- s8, sweptAt <- s9,
  evicted <- s10, place <- s11, decidedAt <- s12
Server == INSTANCE ServerProofs WITH
  pc <- s1, needed <- s2, found <- s3, target <- s4, session <- s5,
  device <- s6, reset <- s7, resets <- s8, outdated <- s9, guarded <- s10,
  Conn <- Company.Conn, User <- Company.User, UserOf <- Company.UserOf,
  Peers <- Company.Peers, clients <- s1, stage <- s2, edge <- s3, todo <- s4, rows <- s5,
  online <- s6, view <- s7, dropped <- s8, told <- s9,
  Req <- Cache.Req, EventKey <- Cache.Key, EventKeyOf <- Cache.KeyOf, NoEntry <- Cache.None,
  Empty <- Cache.Empty, InProgress <- Cache.InProgress, CacheFull <- Cache.CacheFull,
  Capacity <- Cache.Capacity, Retain <- Cache.Retain, SweepInterval <- Cache.SweepInterval,
  MaxNow <- Cache.MaxNow, now <- s1, sweptAt <- s2, slot <- s3, claimedAt <- s4,
  expiresAt <- s5, completed <- s6, closed <- s7, receipt <- s8, at <- s9, seen <- s10,
  entry <- s11, answer <- s12, lost <- s13

ServerInit ==
  \/ server = "cache" /\ Server!ReceiptInit
  \/ server = "sent" /\ Sent!Init /\ s13 = 0
  \/ server = "received" /\ Received!Init /\ s13 = 0
  \/ server = "stalled" /\ Stalled!Init /\ s13 = 0
  \/ server = "sessions" /\ Server!Init /\ s11 = 0 /\ s12 = 0 /\ s13 = 0
  \/ server = "presence" /\ Server!PresenceInit /\ s10 = 0 /\ s11 = 0 /\ s12 = 0 /\ s13 = 0

ServerNext ==
  \/ server = "cache" /\ Server!ReceiptNext /\ UNCHANGED server
  \/ server = "sent" /\ Sent!Next /\ UNCHANGED <<server, s13>>
  \/ server = "received" /\ Received!Next /\ UNCHANGED <<server, s13>>
  \/ server = "stalled" /\ Stalled!Next /\ UNCHANGED <<server, s13>>
  \/ server = "sessions" /\ Server!Next /\ UNCHANGED <<server, s11, s12, s13>>
  \/ server = "presence" /\ Server!PresenceNext /\ UNCHANGED <<server, s10, s11, s12, s13>>

ServerSpec == ServerInit /\ [][ServerNext]_serverVars

-----------------------------------------------------------------------------
ASSUME ServerAssumption ==
  /\ Server!ReceiptAssumption
  /\ Sent!LedgerAssumption /\ Received!LedgerAssumption /\ Stalled!LedgerAssumption
  /\ Sent!TombstoneLasts /\ Received!TombstoneLasts /\ Stalled!TombstoneLasts
  /\ Server!SessionsAssumption /\ Server!PresenceAssumption

\* The type invariant of the part.
ServerTypeOK ==
  /\ server = "cache" => Server!ReceiptTypeOK
  /\ server = "sent" => Sent!TypeOK
  /\ server = "received" => Received!TypeOK
  /\ server = "stalled" => Stalled!TypeOK
  /\ server = "sessions" => Server!TypeOK
  /\ server = "presence" => Server!PresenceTypeOK

\* Deliveries of one event: the cache keeps within its capacity and drops nobody in flight, a
\* follower is answered what its leader answered, and it is released when the leader is done.
FollowersGetTheAnswer ==
  server = "cache" => /\ Server!CapacityAndInFlight
                      /\ Server!AnswersAreTheLeaders
                      /\ Server!FollowersAreReleased

\* The same: a receipt is final, and an event delivered again has lost its record.
RedeliveryIsExplained == [][server = "cache" => Server!Final /\ Server!Explained]_serverVars

\* The ledger drops retries, refuses what is out of date, and refuses nothing without cause.
VerdictsAreRight ==
  /\ server = "sent" => Sent!RetriesAreDropped /\ Sent!OutdatedIsRefused /\ Sent!RefusalsAreJustified
  /\ server = "received" =>
       Received!RetriesAreDropped /\ Received!OutdatedIsRefused /\ Received!RefusalsAreJustified
  /\ server = "stalled" =>
       Stalled!RetriesAreDropped /\ Stalled!OutdatedIsRefused /\ Stalled!RefusalsAreJustified

\* What was in flight when the hangup was recorded is refused, if tombstones last (see
\* TombstoneLasts): those of the code do for the default lifetime of signals.
EndedStaysEnded ==
  /\ server = "sent" => Sent!EndedStaysEnded
  /\ server = "received" => Received!EndedStaysEnded
  /\ server = "stalled" => Stalled!EndedStaysEnded

\* Whatever statements of logins, proofs and revocations interleave, a session is bound to the
\* device of its own browser and does not outlive the revocation of that device; none is
\* approved unasked once a device is trusted.
SessionsFollowTheirDevice ==
  server = "sessions" => /\ Server!BoundToItsOwnBrowser
                         /\ Server!HeldSessionsFollowTheirDevice
                         /\ Server!NoFreeSessionOnceTrusted

\* Nobody is announced online who left, or shown online unannounced.
PresenceIsAnnounced ==
  server = "presence" => Server!GhostsAreNotAnnounced /\ Server!OnlineWasAnnounced

\* README.md: recovering the password revokes every session.
ResetRevokesEverySession == server = "sessions" => Server!ResetRevokesEverySession

-----------------------------------------------------------------------------
(* A small instance for TLC                                                *)
CONSTANTS d1, d2, d3, r1, r2, r3, r4, r5, ka, kb, nil, empty, inProgress, cacheFull, call, all,
  bea, offer, renewed, candidate, hangup, ana, ben, cyd

\* Two deliveries of one event and one of another; two logins from one browser and one from
\* another; two connections of one user and one of another. The first two do the same, as do
\* the offer and its retry below.
Source == [r \in {r1, r2, r3} |-> IF r = r3 THEN kb ELSE ka]
Symmetry == Permutations({r1, r2})
SmallCache ==
  [Req |-> {r1, r2, r3}, Key |-> {ka, kb}, KeyOf |-> Source, None |-> nil, Empty |-> empty,
   InProgress |-> inProgress, CacheFull |-> cacheFull, Capacity |-> 1, Retain |-> 1,
   SweepInterval |-> 2, MaxNow |-> 3]
\* A third user is never connected.
SmallCompany ==
  [Conn |-> {r1, r2, r3}, User |-> {ana, ben, cyd},
   UserOf |-> [w \in {r1, r2, r3} |-> IF w = r3 THEN ben ELSE ana],
   Peers |-> [u \in {ana, ben, cyd} |-> {ana, ben, cyd} \ {u}]]

\* The emitting side of a call: an offer, its retry, a newer offer, the hangup, and the local
\* teardown. The unit of time is 30 seconds.
SmallSent ==
  LET requests == {r1, r2, r3, r4, r5}  events == {offer, renewed, hangup} IN
  [Req |-> requests, Event |-> events, Call |-> {call}, Scope |-> {all, bea},
   EventOf |-> [r \in requests |-> CASE r = r3 -> renewed [] r = r4 -> hangup [] OTHER -> offer],
   CallOf |-> [e \in events |-> call],
   ScopeOf |-> [e \in events |-> IF e = hangup THEN all ELSE bea],
   SequenceOf |-> [e \in events |-> IF e = renewed THEN 2 ELSE 1],
   KindOf |-> [r \in requests |-> CASE r = r4 -> "terminal" [] r = r5 -> "teardown"
                                    [] OTHER -> "ordered"],
   OfClient |-> events, TTL |-> [e \in events |-> 1], Ahead |-> 0, Tombstone |-> 4, Skew |-> 1,
   SweepInterval |-> 1, Capacity |-> 2, MaxStall |-> 1, MaxNow |-> 3]
\* The receiving side: an offer, a candidate and a hangup. The clock of the peer is
\* MaxClockSkew ahead. The unit of time is 30 seconds.
SmallReceived ==
  LET requests == {d1, d2, d3}  events == {offer, candidate, hangup} IN
  [Req |-> requests, Event |-> events, Call |-> {call}, Scope |-> {all, bea},
   EventOf |-> [r \in requests |-> CASE r = d1 -> offer [] r = d2 -> candidate [] OTHER -> hangup],
   CallOf |-> [e \in events |-> call],
   ScopeOf |-> [e \in events |-> IF e = hangup THEN all ELSE bea],
   SequenceOf |-> [e \in events |-> IF e = candidate THEN 1 ELSE 2],
   KindOf |-> [r \in requests |-> CASE r = d1 -> "ordered" [] r = d2 -> "candidate"
                                    [] OTHER -> "terminal"],
   OfClient |-> {}, TTL |-> [e \in events |-> 1], Ahead |-> 1, Tombstone |-> 4, Skew |-> 1,
   SweepInterval |-> 1, Capacity |-> 2, MaxStall |-> 0, MaxNow |-> 5]
\* The same without the candidate; the unit is 15 seconds, and a reading may be one old.
SmallStalled ==
  [SmallReceived EXCEPT !.Req = {d1, d3}, !.EventOf = [r \in {d1, d3} |-> @[r]],
     !.KindOf = [r \in {d1, d3} |-> @[r]], !.TTL = [e \in {offer, candidate, hangup} |-> 2],
     !.Ahead = 2, !.Tombstone = 8, !.Skew = 2, !.MaxStall = 1, !.MaxNow = 8]
SmallLedgers == [sent |-> SmallSent, received |-> SmallReceived, stalled |-> SmallStalled]
=============================================================================
