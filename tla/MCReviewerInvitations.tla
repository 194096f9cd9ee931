----------------------- MODULE MCReviewerInvitations -----------------------
(***************************************************************************)
(* Instances of ReviewerInvitations for TLC.                               *)
(***************************************************************************)
EXTENDS InvitationScreens, TLC

SymAll ==
  Permutations(Invitation) \cup Permutations(Email) \cup
  Permutations(Key) \cup Permutations(Request)
=============================================================================
