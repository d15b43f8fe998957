------------------------ MODULE MCGroupConversation ------------------------
(* One owner, one invited member and one user outside the group. *)
EXTENDS GroupConversation, TLC
CONSTANTS o, a, b, r1, r2
MCUsers == {o, a, b}
MCInvited == {a}
MCRequests == {r1, r2}
MCKinds == {"text", "file"}
Symmetry == Permutations(MCRequests)
=============================================================================
