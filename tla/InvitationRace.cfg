\* Two requests, two invitations of one address, clocks that differ.
SPECIFICATION Spec
CONSTANTS
  Invitation = {i1, i2}
  Email = {e1}
  Key = {k1, k2}
  Request = {r1, r2}
  NoEmail = NoEmail
  NoKey = NoKey
  NoInvitation = NoInvitation
  Lifetime = 1
  Horizon = 1
SYMMETRY SymAll
INVARIANTS
  MailEndsWithInvitation AnswersAreTrue InvitationPagesWork
PROPERTIES AcceptedInTime
