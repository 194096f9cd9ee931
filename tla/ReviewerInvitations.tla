------------------------ MODULE ReviewerInvitations ------------------------
(***************************************************************************)
(* Reviewer invitations of one event: event-invitation-routes.ts and the   *)
(* guards of migrations 0016, 0018 and 0023.  A request is a sequence of   *)
(* statements and batches; a batch commits whole or, when a trigger or a   *)
(* unique index rejects one of its rows, not at all.  Requests run against *)
(* each other and against the mail dispatcher, which leases, settles and   *)
(* expires the message of an invitation (see MessageOutbox).               *)
(*                                                                         *)
(* A token is known by the invitation it opens.  The clocks of the hosts   *)
(* are not synchronised: what a request reads off its clock is any instant, *)
(* though not one before its own last reading.                             *)
(***************************************************************************)
EXTENDS Naturals

CONSTANTS
  Invitation, Email, Key, Request,
  NoEmail, NoKey, NoInvitation,
  Lifetime,   \* expiresInDays
  Horizon     \* bound: the last instant

ASSUME InvitationAssumption ==
  /\ NoEmail \notin Email /\ NoKey \notin Key /\ NoInvitation \notin Invitation
  /\ Lifetime \in Nat \ {0}
  /\ Horizon \in Nat

VARIABLES
  invitation,  \* reviewer_invitations
  message,     \* message[i]: the outbox row of invitation i
  accounts,    \* e-mail addresses that have a user
  reviewers,   \* those whose user holds the reviewer role
  request

vars == <<invitation, message, accounts, reviewers, request>>
-----------------------------------------------------------------------------
Times == 0 .. Horizon
Later(t, u) == IF t <= u THEN u ELSE t

InvitationStates == {"absent", "pending", "accepted", "revoked", "expired"}
NoRow == [state |-> "absent", email |-> NoEmail, key |-> NoKey,
          expires |-> 0, updated |-> 0]

\* cancellation_code of the message when its invitation ends in a state.
CodeOf(state) ==
  CASE state = "accepted" -> "INVITATION_ACCEPTED"
    [] state = "revoked"  -> "INVITATION_REVOKED"
    [] state = "expired"  -> "MESSAGE_EXPIRED"

Codes == {"none", "INVITATION_ACCEPTED", "INVITATION_REVOKED", "MESSAGE_EXPIRED"}
MessageStates == {"queued", "leased", "settled"}

Steps == {"idle", "expire", "conflict", "insert", "replay", "pending", "reviewer",
          "revoke", "accept", "acceptFailed", "acceptRole",
          "account", "register", "registerFailed", "registerToken", "done"}
Answers == {"none", "created", "replayed", "key_conflict", "conflict",
            "revoked", "not_pending", "unavailable", "mismatch", "accepted",
            "role_conflict", "sign_in", "registered", "failed"}

Idle == [step |-> "idle", inv |-> NoInvitation, email |-> NoEmail, key |-> NoKey,
         now |-> 0, answer |-> "none"]

At(r, step) == request[r].step = step
Goto(r, step) == request' = [request EXCEPT ![r].step = step]
Answered(i, e, answer) ==
  [Idle EXCEPT !.step = "done", !.inv = i, !.email = e, !.answer = answer]
Answer(r, answer) ==
  request' = [request EXCEPT ![r] = Answered(@.inv, @.email, answer)]
Refused(answer) == Answered(NoInvitation, NoEmail, answer)
Refuse(r, answer) == request' = [request EXCEPT ![r] = Refused(answer)]

\* A request slot is free again once its answer has been given.
Free(r) == request[r].step \in {"idle", "done"}
-----------------------------------------------------------------------------
Pending(i) == invitation[i].state = "pending"
Open(i, now) == Pending(i) /\ invitation[i].expires > now
WithKey(k) == {i \in Invitation : invitation[i].key = k}

Cancelable(i) ==
  message[i].state \in {"queued", "leased"} /\ message[i].code = "none"

\* The row of i's message after a cancellation that writes updated_at = at.
MessageAfter(i, code, at) ==
  IF Cancelable(i) THEN [message[i] EXCEPT !.code = code, !.updated = at]
                   ELSE message[i]

\* reviewer_invitations_transition_guard: the message ends with its invitation.
OutboxAgrees(row, state) ==
  row.state = "settled" \/ row.code = CodeOf(state)

-----------------------------------------------------------------------------
(***************************************************************************)
(* POST .../reviewer-invitations                                           *)
(***************************************************************************)

BeginCreate(r, e, k) ==
  /\ Free(r)
  /\ \E now \in Times :
       request' = [request EXCEPT ![r] =
         IF WithKey(k) = {}
         THEN [Idle EXCEPT !.step = "expire", !.email = e, !.key = k, !.now = now]
         ELSE LET i == CHOOSE i \in WithKey(k) : TRUE
              IN  IF invitation[i].email = e THEN Answered(i, e, "replayed")
                                             ELSE Refused("key_conflict")]
  /\ UNCHANGED <<invitation, message, accounts, reviewers>>

\* Ends what is overdue for this address; invitation and message in one batch.
ExpireOverdue(r) ==
  LET now == request[r].now
      overdue == {i \in Invitation : /\ Pending(i)
                                     /\ invitation[i].email = request[r].email
                                     /\ invitation[i].expires <= now}
  IN  /\ At(r, "expire")
      /\ message' = [i \in Invitation |->
           IF i \in overdue
           THEN MessageAfter(i, "MESSAGE_EXPIRED", Later(message[i].updated, now))
           ELSE message[i]]
      /\ \A i \in overdue : OutboxAgrees(message'[i], "expired")
      /\ invitation' = [i \in Invitation |->
           IF i \in overdue
           THEN [invitation[i] EXCEPT !.state = "expired", !.updated = Later(@, now)]
           ELSE invitation[i]]
      /\ Goto(r, "conflict")
      /\ UNCHANGED <<accounts, reviewers>>

Taken(e) == e \in reviewers \/ \E i \in Invitation : Pending(i) /\ invitation[i].email = e

CheckConflict(r) ==
  /\ At(r, "conflict")
  /\ IF Taken(request[r].email) THEN Refuse(r, "conflict") ELSE Goto(r, "insert")
  /\ UNCHANGED <<invitation, message, accounts, reviewers>>

\* UNIQUE (event_id, idempotency_key), the pending-email index, the insert guard.
Insertable(e, k) == WithKey(k) = {} /\ ~ Taken(e)

InsertInvitation(r) ==
  LET e == request[r].email
      k == request[r].key
      now == request[r].now
  IN  /\ At(r, "insert")
      /\ \/ /\ Insertable(e, k)
            /\ \E i \in Invitation :
                 /\ invitation[i].state = "absent"
                 /\ invitation' = [invitation EXCEPT ![i] =
                      [state |-> "pending", email |-> e, key |-> k,
                       expires |-> now + Lifetime, updated |-> now]]
                 /\ message' = [message EXCEPT ![i] =
                      [state |-> "queued", code |-> "none", updated |-> now]]
                 /\ request' = [request EXCEPT ![r] = Answered(i, e, "created")]
         \/ /\ ~ Insertable(e, k)
            /\ Goto(r, "replay")
            /\ UNCHANGED <<invitation, message>>
      /\ UNCHANGED <<accounts, reviewers>>

\* The catch block: whatever holds the key now is the replay.
FindReplay(r) ==
  /\ At(r, "replay")
  /\ IF WithKey(request[r].key) = {}
     THEN Goto(r, "pending")
     ELSE LET i == CHOOSE i \in WithKey(request[r].key) : TRUE
          IN  request' = [request EXCEPT ![r] = Answered(i, @.email, "replayed")]
  /\ UNCHANGED <<invitation, message, accounts, reviewers>>

FindPending(r) ==
  /\ At(r, "pending")
  /\ IF \E i \in Invitation : Pending(i) /\ invitation[i].email = request[r].email
     THEN Refuse(r, "conflict") ELSE Goto(r, "reviewer")
  /\ UNCHANGED <<invitation, message, accounts, reviewers>>

FindReviewer(r) ==
  /\ At(r, "reviewer")
  /\ Refuse(r, IF request[r].email \in reviewers THEN "conflict" ELSE "failed")
  /\ UNCHANGED <<invitation, message, accounts, reviewers>>
-----------------------------------------------------------------------------
(***************************************************************************)
(* POST .../reviewer-invitations/:invitationId/revoke                      *)
(***************************************************************************)

BeginRevoke(r, i) ==
  /\ Free(r)
  /\ \E now \in Times :
       request' = [request EXCEPT ![r] =
         IF Open(i, now)
         THEN [Idle EXCEPT !.step = "revoke", !.inv = i, !.now = now]
         ELSE Refused("not_pending")]
  /\ UNCHANGED <<invitation, message, accounts, reviewers>>

\* Mutant of CommitRevoke: results[1].meta.changes is not looked at.
RevokeUnchecked(r) ==
  LET i == request[r].inv
      after == MessageAfter(i, "INVITATION_REVOKED",
                            Later(message[i].updated, request[r].now))
  IN  /\ At(r, "revoke")
      /\ message' = [message EXCEPT ![i] = after]
      /\ invitation' = IF Pending(i) /\ OutboxAgrees(after, "revoked")
           THEN [invitation EXCEPT ![i].state = "revoked",
                   ![i].updated = Later(@, request[r].now)]
           ELSE invitation
      /\ Answer(r, "revoked")
      /\ UNCHANGED <<accounts, reviewers>>

\* The invitation's update finds a row only while it is pending; the guard rejects
\* it, and the batch with it, when the expiry sweep came first to the message.
CommitRevoke(r) ==
  LET i == request[r].inv
      after == MessageAfter(i, "INVITATION_REVOKED",
                            Later(message[i].updated, request[r].now))
  IN  /\ At(r, "revoke")
      /\ \/ /\ Pending(i) /\ OutboxAgrees(after, "revoked")
            /\ message' = [message EXCEPT ![i] = after]
            /\ invitation' = [invitation EXCEPT ![i].state = "revoked",
                                ![i].updated = Later(@, request[r].now)]
            /\ Answer(r, "revoked")
         \/ /\ Pending(i) /\ ~ OutboxAgrees(after, "revoked")
            /\ Refuse(r, "failed")
            /\ UNCHANGED <<invitation, message>>
         \/ /\ ~ Pending(i)
            /\ message' = [message EXCEPT ![i] = after]
            /\ Refuse(r, "not_pending")
            /\ UNCHANGED invitation
      /\ UNCHANGED <<accounts, reviewers>>
-----------------------------------------------------------------------------
(***************************************************************************)
(* POST /reviewer-invitations/accept, by the account of address e          *)
(***************************************************************************)

BeginAccept(r, i, e) ==
  /\ Free(r)
  /\ e \in accounts
  /\ \E now \in Times :
       request' = [request EXCEPT ![r] =
         IF ~ Open(i, now) THEN Refused("unavailable")
         ELSE IF invitation[i].email # e THEN Refused("mismatch")
         ELSE [Idle EXCEPT !.step = "accept", !.inv = i, !.email = e, !.now = now]]
  /\ UNCHANGED <<invitation, message, accounts, reviewers>>

\* Mutant of Acceptable: no unixepoch(expires_at) > unixepoch(?) in the update.
AcceptableLate(i, e, now) ==
  /\ Pending(i)
  /\ now >= invitation[i].updated
  /\ Cancelable(i) => now >= message[i].updated
  /\ e \notin reviewers
  /\ OutboxAgrees(MessageAfter(i, "INVITATION_ACCEPTED", now), "accepted")

\* No statement of the batch is rejected: the receipt needs the accepted row, the
\* triggers a time that does not run backwards and a message canceled for this
\* reason, the membership index a new reviewer.
Acceptable(i, e, now) ==
  /\ Open(i, now)
  /\ now >= invitation[i].updated
  /\ Cancelable(i) => now >= message[i].updated
  /\ e \notin reviewers
  /\ OutboxAgrees(MessageAfter(i, "INVITATION_ACCEPTED", now), "accepted")

Accepted(i, e, now) ==
  /\ message' = [message EXCEPT ![i] = MessageAfter(i, "INVITATION_ACCEPTED", now)]
  /\ invitation' = [invitation EXCEPT ![i].state = "accepted", ![i].updated = now]
  /\ reviewers' = reviewers \cup {e}

\* Mutant of StampAndAccept: the statements are not a batch.
StampAndAcceptUnbatched(r, now) ==
  LET i == request[r].inv
      e == request[r].email
  IN  \/ /\ Acceptable(i, e, now)
         /\ Accepted(i, e, now)
         /\ Answer(r, "accepted")
      \/ /\ ~ Acceptable(i, e, now)
         /\ message' = [message EXCEPT ![i] = MessageAfter(i, "INVITATION_ACCEPTED", now)]
         /\ Goto(r, "acceptFailed")
         /\ UNCHANGED <<invitation, reviewers>>

StampAndAccept(r, now) ==
  LET i == request[r].inv
      e == request[r].email
  IN  \/ /\ Acceptable(i, e, now)
         /\ Accepted(i, e, now)
         /\ Answer(r, "accepted")
      \/ /\ ~ Acceptable(i, e, now)
         /\ Goto(r, "acceptFailed")
         /\ UNCHANGED <<invitation, message, reviewers>>

\* now is taken after the invitation was read and before the batch is run.
CommitAccept(r) ==
  /\ At(r, "accept")
  /\ \E now \in request[r].now .. Horizon : StampAndAccept(r, now)
  /\ UNCHANGED accounts

ExplainAccept(r) ==
  /\ At(r, "acceptFailed")
  /\ \E now \in Times :
       IF Open(request[r].inv, now) THEN Goto(r, "acceptRole") ELSE Refuse(r, "unavailable")
  /\ UNCHANGED <<invitation, message, accounts, reviewers>>

ExplainRole(r) ==
  /\ At(r, "acceptRole")
  /\ Refuse(r, IF request[r].email \in reviewers THEN "role_conflict" ELSE "failed")
  /\ UNCHANGED <<invitation, message, accounts, reviewers>>
-----------------------------------------------------------------------------
(***************************************************************************)
(* POST /reviewer-invitations/register                                     *)
(***************************************************************************)

BeginRegister(r, i) ==
  /\ Free(r)
  /\ \E now \in Times :
       request' = [request EXCEPT ![r] =
         IF Open(i, now)
         THEN [Idle EXCEPT !.step = "account", !.inv = i,
                 !.email = invitation[i].email, !.now = now]
         ELSE Refused("unavailable")]
  /\ UNCHANGED <<invitation, message, accounts, reviewers>>

CheckAccount(r) ==
  /\ At(r, "account")
  /\ IF request[r].email \in accounts THEN Refuse(r, "sign_in") ELSE Goto(r, "register")
  /\ UNCHANGED <<invitation, message, accounts, reviewers>>

StampAndRegister(r, now) ==
  LET i == request[r].inv
      e == request[r].email
  IN  \/ /\ e \notin accounts /\ Acceptable(i, e, now)
         /\ Accepted(i, e, now)
         /\ accounts' = accounts \cup {e}
         /\ Answer(r, "registered")
      \/ /\ e \in accounts \/ ~ Acceptable(i, e, now)
         /\ Goto(r, "registerFailed")
         /\ UNCHANGED <<invitation, message, accounts, reviewers>>

CommitRegister(r) ==
  /\ At(r, "register")
  /\ \E now \in request[r].now .. Horizon : StampAndRegister(r, now)

ExplainAccount(r) ==
  /\ At(r, "registerFailed")
  /\ IF request[r].email \in accounts THEN Refuse(r, "sign_in") ELSE Goto(r, "registerToken")
  /\ UNCHANGED <<invitation, message, accounts, reviewers>>

ExplainToken(r) ==
  /\ At(r, "registerToken")
  /\ \E now \in Times :
       Refuse(r, IF Open(request[r].inv, now) THEN "failed" ELSE "unavailable")
  /\ UNCHANGED <<invitation, message, accounts, reviewers>>
-----------------------------------------------------------------------------
(***************************************************************************)
(* The rest of the system: the dispatcher's statements on the message, an  *)
(* account or a reviewer role gained elsewhere.                            *)
(***************************************************************************)

LeaseMessage(i, now) ==
  /\ invitation[i].state # "absent"
  /\ message[i].state = "queued" /\ message[i].code = "none"
  /\ invitation[i].expires > now
  /\ message' = [message EXCEPT ![i].state = "leased", ![i].updated = now]
  /\ UNCHANGED <<invitation, accounts, reviewers, request>>

\* Recorded by the lease's owner, released or recovered.
SettleMessage(i, state) ==
  /\ message[i].state = "leased"
  /\ message' = [message EXCEPT ![i].state = state]
  /\ UNCHANGED <<invitation, accounts, reviewers, request>>

ExpireMessage(i, now) ==
  /\ message[i].state = "queued" /\ message[i].code = "none"
  /\ invitation[i].state # "absent"
  /\ invitation[i].expires <= now
  /\ message[i].updated <= now
  /\ message' = [message EXCEPT ![i].code = "MESSAGE_EXPIRED", ![i].updated = now]
  /\ UNCHANGED <<invitation, accounts, reviewers, request>>

OpenAccount(e) ==
  /\ e \notin accounts
  /\ accounts' = accounts \cup {e}
  /\ UNCHANGED <<invitation, message, reviewers, request>>

GrantRole(e) ==
  /\ e \in accounts \ reviewers
  /\ reviewers' = reviewers \cup {e}
  /\ UNCHANGED <<invitation, message, accounts, request>>
-----------------------------------------------------------------------------
Init ==
  /\ invitation = [i \in Invitation |-> NoRow]
  /\ message = [i \in Invitation |-> [state |-> "settled", code |-> "none", updated |-> 0]]
  /\ accounts = {}
  /\ reviewers = {}
  /\ request = [r \in Request |-> Idle]

Begin(r) ==
  \/ \E e \in Email, k \in Key : BeginCreate(r, e, k)
  \/ \E i \in Invitation : BeginRevoke(r, i)
  \/ \E i \in Invitation, e \in Email : BeginAccept(r, i, e)
  \/ \E i \in Invitation : BeginRegister(r, i)

Continue(r) ==
  \/ ExpireOverdue(r) \/ CheckConflict(r) \/ InsertInvitation(r)
  \/ FindReplay(r) \/ FindPending(r) \/ FindReviewer(r)
  \/ CommitRevoke(r)
  \/ CommitAccept(r) \/ ExplainAccept(r) \/ ExplainRole(r)
  \/ CheckAccount(r) \/ CommitRegister(r) \/ ExplainAccount(r) \/ ExplainToken(r)

Elsewhere ==
  \/ \E i \in Invitation, now \in Times : LeaseMessage(i, now)
  \/ \E i \in Invitation, s \in {"queued", "settled"} : SettleMessage(i, s)
  \/ \E i \in Invitation, now \in Times : ExpireMessage(i, now)
  \/ \E e \in Email : OpenAccount(e) \/ GrantRole(e)

Next ==
  \/ \E r \in Request : Begin(r) \/ Continue(r)
  \/ Elsewhere

Spec == Init /\ [][Next]_vars
-----------------------------------------------------------------------------
(***************************************************************************)
(* Properties.                                                             *)
(***************************************************************************)

TypeOK ==
  /\ invitation \in [Invitation -> [state : InvitationStates, email : Email \cup {NoEmail},
                                    key : Key \cup {NoKey}, expires : 0 .. Horizon + Lifetime,
                                    updated : Times]]
  /\ message \in [Invitation -> [state : MessageStates, code : Codes, updated : Times]]
  /\ accounts \subseteq Email
  /\ reviewers \subseteq accounts
  /\ request \in [Request -> [step : Steps, inv : Invitation \cup {NoInvitation},
                              email : Email \cup {NoEmail}, key : Key \cup {NoKey},
                              now : Times, answer : Answers]]

\* An invitation that has ended is not mailed: its message was sent, or it carries
\* the cancellation that goes with the end, whatever the dispatcher was doing.  And a
\* message is canceled as accepted or revoked only together with its invitation: no
\* request that loses a race cancels another's mail.
MailEndsWithInvitation ==
  \A i \in Invitation :
    /\ invitation[i].state \in {"accepted", "revoked", "expired"}
         => \/ message[i].state = "settled"
            \/ message[i].code = CodeOf(invitation[i].state)
    /\ message[i].code = "INVITATION_ACCEPTED" => invitation[i].state = "accepted"
    /\ message[i].code = "INVITATION_REVOKED"  => invitation[i].state = "revoked"

\* The rows and the requests keep their types, and an answer is true of the rows as
\* long as they stay: created and revoked invitations exist and are revoked, an
\* accepted one has its reviewer.
AnswersAreTrue ==
  /\ TypeOK
  /\ \A r \in Request :
       LET q == request[r]
       IN  /\ q.answer = "created" => invitation[q.inv].email = q.email
           /\ q.answer = "revoked" => invitation[q.inv].state = "revoked"
           /\ q.answer \in {"accepted", "registered"} =>
                /\ invitation[q.inv].state = "accepted"
                /\ invitation[q.inv].email = q.email
                /\ q.email \in reviewers

\* An invitation is accepted only while it is open at the time that is written, and
\* never after it has been revoked or has expired, although the token was looked up
\* in an earlier statement.
AcceptedInTime ==
  [][\A i \in Invitation :
       invitation[i].state # "accepted" /\ invitation'[i].state = "accepted"
         => /\ invitation[i].state = "pending"
            /\ invitation'[i].updated < invitation[i].expires]_vars
=============================================================================
