---------------------------- MODULE ClaimScreens ----------------------------
(***************************************************************************)
(* The pages over speaker claims: the account panel of the organizers'     *)
(* roster (SpeakerAccountClaim, ConnectedSpeakerContentAdmin.tsx) and the   *)
(* page a claim's link opens (apps/web/src/ConnectedSpeakerClaim.tsx).      *)
(***************************************************************************)
EXTENDS SpeakerClaims

\* Mutant of projection: the claim as it is stored, overdue or not.
projectionOfRow(c, now) == claim[c].state

\* The state a page shows of a claim.
projection(c, now) == IF Pending(c) /\ claim[c].expires <= now THEN "expired" ELSE claim[c].state

\* The claims of a profile with a "Revoke" button, and whether there is one to create
\* a claim: only while none is pending.
active(s, now) == {c \in Claim : claim[c].speaker = s /\ projection(c, now) = "pending"}
SpeakerAccountClaim(s, now) == speaker[s].owner = NoEmail /\ active(s, now) = {}

ConnectedSpeakerClaim(c, now, signedIn) ==
  IF ~ Claimable(c, now) THEN {}
  ELSE CASE signedIn = claim[c].email -> {"accept"}
         [] signedIn = NoEmail        -> {"register", "sign in and accept"}
         [] OTHER                     -> {"sign out"}
-----------------------------------------------------------------------------
\* The clock has reached all that was written about the mail of the claim.
NotBehind(c, now) == message[c].updated <= now

\* The server does what the button says, for address e.
Takes(c, now, e, button) ==
  CASE button = "register" -> e \notin accounts /\ Acceptable(c, e, now, message[c].updated)
    [] button \in {"accept", "sign in and accept"} ->
         e \in accounts /\ Acceptable(c, e, now, message[c].updated)
    [] button = "revoke" ->
         Open(c, now) /\ OutboxAgrees(MessageAfter(c, "INVITATION_REVOKED", now), "INVITATION_REVOKED")

\* A create ends the claims of the profile that are overdue and inserts one.
Creates(s, now) ==
  /\ speaker[s].owner = NoEmail /\ speaker[s].contact \notin members
  /\ \A c \in Claim : Pending(c) /\ claim[c].speaker = s =>
       claim[c].expires <= now /\ OutboxAgrees(MessageAfter(c, "MESSAGE_EXPIRED", now), "MESSAGE_EXPIRED")

\* No profile is left without a way to its account: who opens the link of a claim
\* that can be used, and is no speaker yet, has a button that links the profile,
\* signed in or not; and when the link has run out, or the profile was given another
\* address since, the organizer has a button, one that revokes the claim or, when
\* none is pending, one that creates a new one, and it does so.
ClaimPagesWork ==
  \A now \in Times :
    /\ \A c \in Claim : Pending(c) /\ NotBehind(c, now) =>
         LET e == claim[c].email
         IN  /\ Claimable(c, now) /\ e \notin members => \A signedIn \in {NoEmail} \cup (accounts \cap {e}) :
                  \E button \in ConnectedSpeakerClaim(c, now, signedIn) : Takes(c, now, e, button)
             /\ c \in active(claim[c].speaker, now) => Takes(c, now, e, "revoke")
    /\ \A s \in Speaker :
         LET row == speaker[s]
             known == \A c \in Claim : Pending(c) /\ claim[c].speaker = s => NotBehind(c, now)
         IN  /\ row # NoProfile /\ row.owner = NoEmail /\ row.contact \notin members /\ known =>
                  active(s, now) # {} \/ Creates(s, now)
             /\ SpeakerAccountClaim(s, now) /\ row # NoProfile /\ row.contact \notin members /\ known =>
                  Creates(s, now)
             /\ row.owner # NoEmail => active(s, now) = {}
=============================================================================
