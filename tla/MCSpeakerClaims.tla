-------------------------- MODULE MCSpeakerClaims --------------------------
(***************************************************************************)
(* Instances of SpeakerClaims for TLC.                                     *)
(***************************************************************************)
EXTENDS ClaimScreens, TLC

SymAll ==
  Permutations(Claim) \cup Permutations(Speaker) \cup Permutations(Email) \cup
  Permutations(Request)

(***************************************************************************)
(* What the rest of a behaviour and the properties depend on.  Of a claim    *)
(* that was revoked or has expired only that is left, of the message of a    *)
(* claim that has ended not when it was updated, and of a request that can   *)
(* change nothing any more, only that it has to end.                         *)
(***************************************************************************)
LiveClaim(c) ==
  IF claim[c].state \in {"revoked", "expired"} THEN [NoRow EXCEPT !.state = claim[c].state]
  ELSE claim[c]
LiveMessage(c) == IF Cancelable(c) \/ Pending(c) THEN message[c] ELSE [message[c] EXCEPT !.updated = 0]

\* Nobody gives up a profile or a role, and no claim's row is deleted.
CreatesNothing(q) ==
  /\ q.step \in {"speaker", "conflict", "insert"}
  /\ \/ speaker[q.speaker].owner # NoEmail
     \/ q.email \in members
     \/ \A c \in Claim : claim[c].state # "absent"
LinksNothing(q) ==
  \/ q.claim # NoClaim /\ ~ Pending(q.claim)
  \/ q.step \in {"accept", "account", "register"} /\ q.email \in members
  \/ q.step \in {"account", "register"} /\ q.email \in accounts

LiveRequest(r) ==
  IF CreatesNothing(request[r]) \/ LinksNothing(request[r])
  THEN [Idle EXCEPT !.step = "ended"]
  ELSE request[r]

LiveState ==
  <<speaker, [c \in Claim |-> LiveClaim(c)], [c \in Claim |-> LiveMessage(c)],
    accounts, members, [r \in Request |-> LiveRequest(r)]>>
=============================================================================
