\* Two requests, two claims, two profiles whose address changes, clocks that differ.
SPECIFICATION Spec
CONSTANTS
  Claim = {c1, c2}
  Speaker = {s1, s2}
  Email = {e1, e2}
  Request = {r1, r2}
  NoSpeaker = NoSpeaker
  NoEmail = NoEmail
  NoClaim = NoClaim
  Lifetime = 1
  Horizon = 1
SYMMETRY SymAll
VIEW LiveState
INVARIANTS
  AcceptedClaimOwns MailEndsWithClaim ClaimPagesWork
PROPERTIES LinkedAtCurrentAddress
