------------------------------ MODULE MCCalls ------------------------------
(* Two questions on one pair of browsers. As a library: both sides offer at  *)
(* any time, over a path that keeps the order of one sender. As a call: ann  *)
(* calls bob, signals overtake each other, and the pages repair the          *)
(* connection or end the call.                                               *)
EXTENDS IceRecovery
CONSTANTS ann, bob
MCSides == {ann, bob}

\* The library runs within the bounds of the call.
ASSUME LibraryBounds == MaxOffers >= 3 /\ MaxFaults >= 1

VARIABLE mode
callsVars == <<pageVars, mode>>

Library == INSTANCE PeerLink WITH InOrder <- TRUE, MaxOffers <- 3, MaxCandidates <- 1, MaxFaults <- 1

CallsInit ==
  \/ mode = "call" /\ StartCall
  \/ mode = "library" /\ Library!Init /\ page = [s \in Sides |-> NoCall]

CallsNext ==
  \/ mode = "call" /\ NextCall /\ UNCHANGED mode
  \/ mode = "library" /\ Library!Next /\ UNCHANGED <<page, mode>>

CallsSpec ==
  /\ CallsInit /\ [][CallsNext]_callsVars
  /\ \A s \in Sides : WF_callsVars(mode = "call" /\ Progress(s) /\ UNCHANGED mode)

-----------------------------------------------------------------------------
(* Offers cross, overtake answers and are rolled back, and yet: no operation  *)
(* reaches a connection in a state that refuses it, an answer completes its    *)
(* own offer, early candidates are used, and when all is quiet both sides are  *)
(* stable on one offer. The last holds where the path keeps the order of one   *)
(* sender: see README for an offer that overtakes an answer.                   *)
NegotiationsAgree ==
  /\ NothingIsRefused /\ AnswersMeetTheirOffer /\ HeldCandidatesAreUsed
  /\ mode = "library" => QuietMeansAgreed
=============================================================================
