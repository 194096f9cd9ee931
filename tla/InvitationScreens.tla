------------------------- MODULE InvitationScreens -------------------------
(***************************************************************************)
(* The pages over reviewer invitations: the organizers' ledger             *)
(* (ReviewerInvitationPanel, apps/web/src/ConnectedReviewPages.tsx) and the *)
(* page an invitation's link opens (ConnectedReviewerInvitation.tsx).  The  *)
(* clock of a page is one more clock that is not synchronised.             *)
(***************************************************************************)
EXTENDS ReviewerInvitations

\* Mutant of projection: the row as it is stored, overdue or not.
projectionOfRow(i, now) ==
  [state  |-> invitation[i].state,
   outbox |-> IF message[i].state = "queued" /\ (message[i].code # "none" \/ ~ Pending(i))
              THEN "suppressed" ELSE message[i].state]

\* What the ledger says of an invitation and of its mail.
projection(i, now) ==
  LET state == IF Pending(i) /\ invitation[i].expires <= now THEN "expired" ELSE invitation[i].state
  IN  [state  |-> state,
       outbox |-> IF message[i].state = "queued" /\ (message[i].code # "none" \/ state # "pending")
                  THEN "suppressed" ELSE message[i].state]

\* The rows with a "Revoke" button; the form beside them invites any address.
ReviewerInvitationPanel(now) == {i \in Invitation : projection(i, now).state = "pending"}

\* The page of a link that can be used.  Who is signed in with another address is
\* told to sign out; who is not signed in chooses between a new account and signing
\* in, and is not told which of the two will do.
ConnectedReviewerInvitation(i, now, signedIn) ==
  IF ~ Open(i, now) THEN {}
  ELSE CASE signedIn = invitation[i].email -> {"accept"}
         [] signedIn = NoEmail             -> {"register", "sign in and accept"}
         [] OTHER                          -> {"sign out"}
-----------------------------------------------------------------------------
\* The clock has reached all that was written about the invitation.
NotBehind(i, now) == invitation[i].updated <= now /\ message[i].updated <= now

\* The server does what the button says.
Takes(i, now, e, button) ==
  CASE button = "register" -> e \notin accounts /\ Acceptable(i, e, now)
    [] button \in {"accept", "sign in and accept"} -> e \in accounts /\ Acceptable(i, e, now)
    [] button = "revoke" -> Open(i, now) /\ OutboxAgrees(MessageAfter(i, "INVITATION_REVOKED", now), "revoked")
    [] button = "create" ->
         /\ e \notin reviewers
         /\ \A j \in Invitation : Pending(j) /\ invitation[j].email = e =>
              /\ invitation[j].expires <= now
              /\ OutboxAgrees(MessageAfter(j, "MESSAGE_EXPIRED", now), "expired")

\* Nobody is locked out: whoever opens the link of an open invitation and is no
\* reviewer yet has a button that makes them one, signed in or not; and for who
\* cannot use the link, the remedy the page names is there: the ledger has a row to
\* revoke, which can be revoked, or none, and then a new one can be created.  What
\* the ledger calls pending is a mail that goes out or is out, what it says has
\* ended is none that waits to go out.
InvitationPagesWork ==
  \A i \in Invitation, now \in Times :
    invitation[i].state # "absent" /\ NotBehind(i, now) =>
      LET e == invitation[i].email
          row == projection(i, now)
      IN  /\ Open(i, now) /\ e \notin reviewers => \A signedIn \in {NoEmail} \cup (accounts \cap {e}) :
               \E button \in ConnectedReviewerInvitation(i, now, signedIn) : Takes(i, now, e, button)
          /\ i \in ReviewerInvitationPanel(now) => Takes(i, now, e, "revoke")
          /\ (\A j \in Invitation : invitation[j].email = e => NotBehind(j, now)) =>
               \/ \E j \in ReviewerInvitationPanel(now) : invitation[j].email = e
               \/ e \in reviewers \/ Takes(i, now, e, "create")
          /\ row.outbox = "suppressed" => row.state # "pending"
          /\ row.outbox = "queued" => row.state = "pending"
=============================================================================
