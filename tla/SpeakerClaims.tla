--------------------------- MODULE SpeakerClaims ---------------------------
(***************************************************************************)
(* Account claims of speaker profiles of one event: speaker-claim-routes.ts *)
(* and the guards of migrations 0017, 0018 and 0025.  Accepting a claim     *)
(* links the profile to an account, in one batch with the end of the claim, *)
(* its mail and the speaker role.  The profile's contact address may change *)
(* at any time, and the address decides who may accept.                     *)
(*                                                                          *)
(* Unlike the reviewer routes, a request stamps its writes with the later   *)
(* of its clock and the timestamps it read with the claim.  The clocks of    *)
(* the hosts are not synchronised: a request reads any instant, though none  *)
(* before its own last reading.                                             *)
(*                                                                          *)
(* The updated_at of a claim is left out, which nothing reads.  So is what a *)
(* request answers, and what only chooses the answer and changes nothing:    *)
(* the queries after a batch has failed, and the replay of a create whose    *)
(* idempotency key is taken.                                                 *)
(***************************************************************************)
EXTENDS Naturals

CONSTANTS
  Claim, Speaker, Email, Request,
  NoSpeaker, NoEmail, NoClaim,
  Lifetime,   \* expiresInDays
  Horizon     \* bound: the last instant

ASSUME ClaimAssumption ==
  /\ NoSpeaker \notin Speaker /\ NoEmail \notin Email /\ NoClaim \notin Claim
  /\ Lifetime \in Nat \ {0}
  /\ Horizon \in Nat

VARIABLES
  speaker,   \* speaker[s]: the account that owns profile s, and its contact address;
             \* a profile without an address does not exist yet
  claim,     \* speaker_claim_invitations
  message,   \* message[c]: the outbox row of claim c
  accounts,  \* addresses that have a user
  members,   \* those whose user holds the speaker role
  request

vars == <<speaker, claim, message, accounts, members, request>>
rows == <<speaker, claim, message, accounts, members>>
-----------------------------------------------------------------------------
Times == 0 .. Horizon
laterTimestamp(t, u) == IF t > u THEN t ELSE u

ClaimStates == {"absent", "pending", "accepted", "revoked", "expired"}
NoRow == [state |-> "absent", speaker |-> NoSpeaker, email |-> NoEmail,
          expires |-> 0]

NoProfile == [owner |-> NoEmail, contact |-> NoEmail]

Codes == {"none", "INVITATION_ACCEPTED", "INVITATION_REVOKED", "MESSAGE_EXPIRED"}
\* "settled" is delivered or failed: nothing here tells them apart.
MessageStates == {"queued", "leased", "settled"}

Steps == {"idle", "expire", "speaker", "conflict", "insert", "revoke", "accept",
          "account", "register"}

\* seen is outboxUpdatedAt, read with the claim.
Idle == [step |-> "idle", claim |-> NoClaim, speaker |-> NoSpeaker, email |-> NoEmail,
         now |-> 0, seen |-> 0]

At(r, step) == request[r].step = step
Start(r, what) == At(r, "idle") /\ request' = [request EXCEPT ![r] = what]
Goto(r, step) == request' = [request EXCEPT ![r].step = step]
End(r) == request' = [request EXCEPT ![r] = Idle]
-----------------------------------------------------------------------------
Pending(c) == claim[c].state = "pending"
Open(c, now) == Pending(c) /\ claim[c].expires > now

\* byToken: the claim is open and its profile still free and at that address.
Claimable(c, now) ==
  /\ Open(c, now)
  /\ speaker[claim[c].speaker] = [owner |-> NoEmail, contact |-> claim[c].email]

Cancelable(c) == message[c].state \in {"queued", "leased"} /\ message[c].code = "none"

MessageAfter(c, code, at) ==
  IF Cancelable(c) THEN [message[c] EXCEPT !.code = code, !.updated = at] ELSE message[c]

\* message_outbox_cancellation_update: canceled_at does not precede updated_at.
InTime(c, at) == Cancelable(c) => message[c].updated <= at

\* speakers_event_contact_email_normalized_unique.
Unused(e) == \A s \in Speaker : speaker[s].contact # e

\* Mutant of OutboxAgrees: the guard asks for a canceled message, whatever the code.
OutboxAgreesAnyCode(row, code) == row.state = "settled" \/ row.code # "none"

\* speaker_claim_transition_guard: the message ends with the claim.
OutboxAgrees(row, code) == row.state = "settled" \/ row.code = code
-----------------------------------------------------------------------------
(***************************************************************************)
(* POST .../speaker-claims                                                 *)
(***************************************************************************)

BeginCreate(r, s) ==
  /\ speaker[s] # NoProfile
  /\ \E now \in Times : Start(r, [Idle EXCEPT !.step = "expire", !.speaker = s, !.now = now])
  /\ UNCHANGED rows

ExpireOverdue(r) ==
  LET now == request[r].now
      overdue == {c \in Claim : /\ Pending(c)
                                /\ claim[c].speaker = request[r].speaker
                                /\ claim[c].expires <= now}
  IN  /\ At(r, "expire")
      /\ message' = [c \in Claim |->
           IF c \in overdue
           THEN MessageAfter(c, "MESSAGE_EXPIRED", laterTimestamp(message[c].updated, now))
           ELSE message[c]]
      /\ \A c \in overdue : OutboxAgrees(message'[c], "MESSAGE_EXPIRED")
      /\ claim' = [c \in Claim |->
           IF c \in overdue
           THEN [claim[c] EXCEPT !.state = "expired"]
           ELSE claim[c]]
      /\ Goto(r, "speaker")
      /\ UNCHANGED <<speaker, accounts, members>>

\* The address of the claim is the profile's contact address at this moment.
ReadSpeaker(r) ==
  LET row == speaker[request[r].speaker]
  IN  /\ At(r, "speaker")
      /\ IF row.owner = NoEmail
         THEN request' = [request EXCEPT ![r].step = "conflict", ![r].email = row.contact]
         ELSE End(r)
      /\ UNCHANGED rows

Taken(s, e) == e \in members \/ \E c \in Claim : Pending(c) /\ claim[c].speaker = s

CheckConflict(r) ==
  /\ At(r, "conflict")
  /\ IF Taken(request[r].speaker, request[r].email)
     THEN End(r) ELSE Goto(r, "insert")
  /\ UNCHANGED rows

\* speaker_claim_insert_guard and the unique indexes.
Insertable(s, e) ==
  /\ ~ Taken(s, e)
  /\ speaker[s] = [owner |-> NoEmail, contact |-> e]

\* The claims left bound how many are created: without one, nothing is inserted.
InsertClaim(r) ==
  LET q    == request[r]
      free == {c \in Claim : claim[c].state = "absent"}
  IN  /\ At(r, "insert")
      /\ \/ /\ Insertable(q.speaker, q.email)
            /\ \E c \in free :
                 /\ claim' = [claim EXCEPT ![c] =
                      [state |-> "pending", speaker |-> q.speaker, email |-> q.email,
                       expires |-> q.now + Lifetime]]
                 /\ message' = [message EXCEPT ![c] =
                      [state |-> "queued", code |-> "none", updated |-> q.now]]
         \/ /\ ~ Insertable(q.speaker, q.email) \/ free = {}
            /\ UNCHANGED <<claim, message>>
      /\ End(r)
      /\ UNCHANGED <<speaker, accounts, members>>
-----------------------------------------------------------------------------
(***************************************************************************)
(* POST .../speaker-claims/:claimId/revoke                                 *)
(***************************************************************************)

BeginRevoke(r, c) ==
  /\ \E now \in Times :
       /\ Open(c, now)
       /\ Start(r, [Idle EXCEPT !.step = "revoke", !.claim = c, !.now = now,
                                !.seen = message[c].updated])
  /\ UNCHANGED rows

\* The number of rows the update changed is not looked at: whatever the claim has
\* become is the answer, with status 200.
CommitRevoke(r) ==
  LET c  == request[r].claim
      at == laterTimestamp(request[r].now, request[r].seen)
      after == MessageAfter(c, "INVITATION_REVOKED", at)
      rejected == ~ InTime(c, at) \/ (Pending(c) /\ ~ OutboxAgrees(after, "INVITATION_REVOKED"))
  IN  /\ At(r, "revoke")
      /\ \/ /\ ~ rejected
            /\ message' = [message EXCEPT ![c] = after]
            /\ claim' = IF Pending(c)
                 THEN [claim EXCEPT ![c].state = "revoked"]
                 ELSE claim
         \/ rejected /\ UNCHANGED <<claim, message>>
      /\ End(r)
      /\ UNCHANGED <<speaker, accounts, members>>
-----------------------------------------------------------------------------
(***************************************************************************)
(* POST /speaker-claims/accept, by the account of address e                *)
(***************************************************************************)

BeginAccept(r, c, e) ==
  /\ e \in accounts
  /\ \E now \in Times :
       /\ Claimable(c, now) /\ claim[c].email = e
       /\ Start(r, [Idle EXCEPT !.step = "accept", !.claim = c, !.email = e, !.now = now,
                                !.seen = message[c].updated])
  /\ UNCHANGED rows

\* Mutant of Acceptable: the guard does not look at the profile again.
AcceptableForOld(c, e, now, seen) ==
  /\ Open(c, now)
  /\ InTime(c, laterTimestamp(now, seen))
  /\ e \notin members
  /\ \A d \in Claim : claim[d].state = "accepted" => claim[d].email # e
  /\ OutboxAgrees(MessageAfter(c, "INVITATION_ACCEPTED", laterTimestamp(now, seen)),
                  "INVITATION_ACCEPTED")

\* No statement of the batch is rejected: the triggers see the profile once more,
\* and an account has one receipt and one speaker role per event.
Acceptable(c, e, now, seen) ==
  /\ Claimable(c, now)
  /\ InTime(c, laterTimestamp(now, seen))
  /\ e \notin members
  /\ \A d \in Claim : claim[d].state = "accepted"
       => claim[d].email # e /\ claim[d].speaker # claim[c].speaker
  /\ OutboxAgrees(MessageAfter(c, "INVITATION_ACCEPTED", laterTimestamp(now, seen)),
                  "INVITATION_ACCEPTED")

Accepted(c, e, now, seen) ==
  /\ message' = [message EXCEPT ![c] =
       MessageAfter(c, "INVITATION_ACCEPTED", laterTimestamp(now, seen))]
  /\ claim' = [claim EXCEPT ![c].state = "accepted"]
  /\ members' = members \cup {e}
  /\ speaker' = [speaker EXCEPT ![claim[c].speaker].owner = e]

StampAndAccept(r, now) ==
  LET q == request[r]
  IN  \/ /\ Acceptable(q.claim, q.email, now, q.seen)
         /\ Accepted(q.claim, q.email, now, q.seen)
      \/ /\ ~ Acceptable(q.claim, q.email, now, q.seen)
         /\ UNCHANGED <<speaker, claim, message, members>>

CommitAccept(r) ==
  /\ At(r, "accept")
  /\ \E now \in request[r].now .. Horizon : StampAndAccept(r, now)
  /\ End(r)
  /\ UNCHANGED accounts
-----------------------------------------------------------------------------
(***************************************************************************)
(* POST /speaker-claims/register                                           *)
(***************************************************************************)

BeginRegister(r, c) ==
  /\ \E now \in Times :
       /\ Claimable(c, now)
       /\ Start(r, [Idle EXCEPT !.step = "account", !.claim = c, !.email = claim[c].email,
                                !.now = now, !.seen = message[c].updated])
  /\ UNCHANGED rows

CheckAccount(r) ==
  /\ At(r, "account")
  /\ IF request[r].email \in accounts THEN End(r) ELSE Goto(r, "register")
  /\ UNCHANGED rows

\* Mutant of StampAndRegister: the batch does not insert the user.
StampWithoutUser(r, now) ==
  LET q == request[r]
  IN  \/ /\ Acceptable(q.claim, q.email, now, q.seen)
         /\ Accepted(q.claim, q.email, now, q.seen)
         /\ UNCHANGED accounts
      \/ /\ ~ Acceptable(q.claim, q.email, now, q.seen)
         /\ UNCHANGED rows

StampAndRegister(r, now) ==
  LET q == request[r]
      ok == q.email \notin accounts /\ Acceptable(q.claim, q.email, now, q.seen)
  IN  \/ /\ ok
         /\ Accepted(q.claim, q.email, now, q.seen)
         /\ accounts' = accounts \cup {q.email}
      \/ ~ ok /\ UNCHANGED rows

CommitRegister(r) ==
  /\ At(r, "register")
  /\ \E now \in request[r].now .. Horizon : StampAndRegister(r, now)
  /\ End(r)
-----------------------------------------------------------------------------
(***************************************************************************)
(* The rest of the system.                                                 *)
(***************************************************************************)

\* The organizer, or the speaker, edits the profile.
ChangeContact(s, e) ==
  /\ speaker[s] # NoProfile
  /\ Unused(e)
  /\ speaker' = [speaker EXCEPT ![s].contact = e]
  /\ UNCHANGED <<claim, message, accounts, members, request>>

ProfileWithoutAccount(s, e) ==
  /\ speaker[s] = NoProfile
  /\ Unused(e)
  /\ speaker' = [speaker EXCEPT ![s].contact = e]
  /\ UNCHANGED <<claim, message, accounts, members, request>>

\* One row of a roster, which becomes a profile of its own or nothing.  The accounts
\* are read once, before the first row: one that was opened since is not seen, so
\* whether e has an account now says nothing.
IngestRow(s, e) == ProfileWithoutAccount(s, e)

\* A co-presenter named in a proposal; the submitter's word links no account.
AddCoPresenter(s, e) == ProfileWithoutAccount(s, e)

OpenAccount(e) ==
  /\ e \notin accounts
  /\ accounts' = accounts \cup {e}
  /\ UNCHANGED <<speaker, claim, message, members, request>>

ProfileOf(s, e) ==
  /\ speaker[s] = NoProfile
  /\ Unused(e)
  /\ speaker' = [speaker EXCEPT ![s] = [owner |-> e, contact |-> e]]

\* A new account for the call for papers: user, role and profile in one batch.  The
\* queries before it refuse no more than its unique indexes do.
RegisterByCfp(s, e) ==
  /\ e \notin accounts
  /\ ProfileOf(s, e)
  /\ accounts' = accounts \cup {e}
  /\ members' = members \cup {e}
  /\ UNCHANGED <<claim, message, request>>

\* An account joins the call for papers: with the profile it owns, or with a new one
\* unless its address is another profile's.
JoinByProposal(s, e) ==
  /\ e \in accounts \ members
  /\ members' = members \cup {e}
  /\ IF speaker[s].owner = e
     THEN UNCHANGED speaker
     ELSE (\A t \in Speaker : speaker[t].owner # e) /\ ProfileOf(s, e)
  /\ UNCHANGED <<claim, message, accounts, request>>

LeaseMessage(c, now) ==
  /\ claim[c].state # "absent"
  /\ message[c].state = "queued" /\ message[c].code = "none"
  /\ claim[c].expires > now
  /\ message' = [message EXCEPT ![c].state = "leased", ![c].updated = now]
  /\ UNCHANGED <<speaker, claim, accounts, members, request>>

SettleMessage(c, state) ==
  /\ message[c].state = "leased"
  /\ message' = [message EXCEPT ![c].state = state]
  /\ UNCHANGED <<speaker, claim, accounts, members, request>>

ExpireMessage(c, now) ==
  /\ message[c].state = "queued" /\ message[c].code = "none"
  /\ claim[c].state # "absent"
  /\ claim[c].expires <= now
  /\ message[c].updated <= now
  /\ message' = [message EXCEPT ![c].code = "MESSAGE_EXPIRED", ![c].updated = now]
  /\ UNCHANGED <<speaker, claim, accounts, members, request>>
-----------------------------------------------------------------------------
Init ==
  /\ speaker = [s \in Speaker |-> NoProfile]
  /\ claim = [c \in Claim |-> NoRow]
  /\ message = [c \in Claim |-> [state |-> "settled", code |-> "none", updated |-> 0]]
  /\ accounts = {}
  /\ members = {}
  /\ request = [r \in Request |-> Idle]

Begin(r) ==
  \/ \E s \in Speaker : BeginCreate(r, s)
  \/ \E c \in Claim : BeginRevoke(r, c)
  \/ \E c \in Claim, e \in Email : BeginAccept(r, c, e)
  \/ \E c \in Claim : BeginRegister(r, c)

Continue(r) ==
  \/ ExpireOverdue(r) \/ ReadSpeaker(r) \/ CheckConflict(r) \/ InsertClaim(r)
  \/ CommitRevoke(r) \/ CommitAccept(r) \/ CheckAccount(r) \/ CommitRegister(r)

Elsewhere ==
  \/ \E s \in Speaker, e \in Email :
       \/ ChangeContact(s, e)
       \/ IngestRow(s, e) \/ AddCoPresenter(s, e)
       \/ RegisterByCfp(s, e) \/ JoinByProposal(s, e)
  \/ \E e \in Email : OpenAccount(e)
  \/ \E c \in Claim, now \in Times : LeaseMessage(c, now)
  \/ \E c \in Claim, s \in {"queued", "settled"} : SettleMessage(c, s)
  \/ \E c \in Claim, now \in Times : ExpireMessage(c, now)

Next ==
  \/ \E r \in Request : Begin(r) \/ Continue(r)
  \/ Elsewhere

Spec == Init /\ [][Next]_vars
-----------------------------------------------------------------------------
(***************************************************************************)
(* Properties.                                                             *)
(***************************************************************************)

TypeOK ==
  /\ speaker \in [Speaker -> [owner : Email \cup {NoEmail}, contact : Email \cup {NoEmail}]]
  /\ claim \in [Claim -> [state : ClaimStates, speaker : Speaker \cup {NoSpeaker},
                          email : Email \cup {NoEmail}, expires : 0 .. Horizon + Lifetime]]
  /\ message \in [Claim -> [state : MessageStates, code : Codes, updated : Times]]
  /\ members \subseteq accounts /\ accounts \subseteq Email
  /\ request \in [Request -> [step : Steps, claim : Claim \cup {NoClaim},
                              speaker : Speaker \cup {NoSpeaker},
                              email : Email \cup {NoEmail}, now : Times, seen : Times]]

\* The rows and the requests keep their types; the account that accepted a claim owns
\* the profile and is a speaker, and nobody else's claim on it was accepted: no
\* interleaving of accepts, address changes and joins loses a link or gives the
\* profile away twice.
AcceptedClaimOwns ==
  /\ TypeOK
  /\ \A c \in Claim : claim[c].state = "accepted" =>
       /\ speaker[claim[c].speaker].owner = claim[c].email
       /\ claim[c].email \in members
       /\ \A d \in Claim : claim[d].speaker = claim[c].speaker
            => d = c \/ claim[d].state \in {"revoked", "expired"}

\* A claim that has ended is not mailed, and a mail canceled as accepted or revoked
\* is that of a claim which ended that way: the two rows never disagree, whichever
\* of the request and the dispatcher comes first.
MailEndsWithClaim ==
  \A c \in Claim :
    /\ claim[c].state \in {"accepted", "revoked", "expired"} => ~ Cancelable(c)
    /\ message[c].code = "INVITATION_ACCEPTED" => claim[c].state = "accepted"
    /\ message[c].code = "INVITATION_REVOKED" => claim[c].state = "revoked"
    /\ message[c].code = "MESSAGE_EXPIRED" => claim[c].state \in {"pending", "expired"}

\* An existing profile is linked only by the accept of a claim on it, for the address
\* the profile has at that moment, though the claim was read under an older one.
LinkedAtCurrentAddress ==
  [][\A s \in Speaker :
       speaker[s] # NoProfile /\ speaker[s].owner = NoEmail /\ speaker'[s].owner # NoEmail =>
         /\ speaker'[s].owner = speaker[s].contact
         /\ \E c \in Claim : /\ Pending(c) /\ claim'[c].state = "accepted"
                             /\ claim[c].speaker = s
                             /\ claim[c].email = speaker'[s].owner]_vars
=============================================================================
