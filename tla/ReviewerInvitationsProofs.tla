--------------------- MODULE ReviewerInvitationsProofs ---------------------
(***************************************************************************)
(* Proofs about ReviewerInvitations, for every set of invitations, users,  *)
(* keys and requests, and every lifetime.                                  *)
(*                                                                         *)
(* The inductive invariant has two halves.  Rows relates an invitation to  *)
(* the row of its mail (Agrees); what it adds to the checked invariant is  *)
(* that a mail is canceled under a pending invitation only as expired, and *)
(* not before the invitation's own time, and that a free slot is neither   *)
(* keyed nor mailed.  Requests says what a request that is between two of  *)
(* its statements still knows of rows that others write (Knows).           *)
(*                                                                         *)
(* What makes the halves fit is Grows: whatever a step does, an invitation *)
(* is only inserted or ended once, with its address untouched, and nobody  *)
(* loses an account or a role; what a request knows cannot become false.   *)
(***************************************************************************)
EXTENDS InvitationScreens, TLAPS

USE InvitationAssumption

Ended == {"accepted", "revoked", "expired"}

InvitationRow ==
  [state : InvitationStates, email : Email \cup {NoEmail}, key : Key \cup {NoKey},
   expires : 0 .. Horizon + Lifetime, updated : Times]
MessageRow == [state : MessageStates, code : Codes, updated : Times]
RequestRow ==
  [step : Steps, inv : Invitation \cup {NoInvitation}, email : Email \cup {NoEmail},
   key : Key \cup {NoKey}, now : Times, answer : Answers]

\* An invitation's row and its mail's row agree.
Agrees(row, mail) ==
  /\ row.state = "absent" =>
       row.key = NoKey /\ mail.state = "settled" /\ mail.code = "none"
  /\ row.state # "absent" => row.email \in Email /\ row.key \in Key
  /\ row.state = "pending" /\ mail.code # "none" =>
       mail.code = "MESSAGE_EXPIRED" /\ row.expires <= mail.updated
  /\ row.state \in Ended => mail.state = "settled" \/ mail.code = CodeOf(row.state)
  /\ mail.code = "INVITATION_ACCEPTED" => row.state = "accepted"
  /\ mail.code = "INVITATION_REVOKED" => row.state = "revoked"

Rows ==
  /\ invitation \in [Invitation -> InvitationRow]
  /\ message \in [Invitation -> MessageRow]
  /\ accounts \subseteq Email
  /\ reviewers \subseteq accounts
  /\ \A i \in Invitation : Agrees(invitation[i], message[i])

CreateSteps == {"expire", "conflict", "insert", "replay", "pending", "reviewer"}
AcceptSteps == {"accept", "acceptFailed", "acceptRole"}
RegisterSteps == {"account", "register", "registerFailed", "registerToken"}

\* The answers that say something of the rows.
Claims == {"created", "revoked", "accepted", "registered"}

\* The invitation a request works on has been created.
Holds(q) == q.inv \in Invitation /\ invitation[q.inv].state # "absent"

\* What request q, at its step or with its answer, knows of the rows.
Knows(q) ==
  /\ q.step \in CreateSteps => q.email \in Email /\ q.key \in Key
  /\ q.step = "revoke" => Holds(q)
  /\ q.step \in AcceptSteps \cup RegisterSteps => Holds(q) /\ invitation[q.inv].email = q.email
  /\ q.step \in AcceptSteps => q.email \in accounts
  /\ q.answer = "created" => Holds(q) /\ invitation[q.inv].email = q.email
  /\ q.answer = "revoked" => Holds(q) /\ invitation[q.inv].state = "revoked"
  /\ q.answer \in {"accepted", "registered"} =>
       /\ Holds(q)
       /\ invitation[q.inv].state = "accepted"
       /\ invitation[q.inv].email = q.email
       /\ q.email \in reviewers

Requests ==
  /\ request \in [Request -> RequestRow]
  /\ \A r \in Request : Knows(request[r])

IInv == Rows /\ Requests

\* What a step may do to the row of one invitation.
Evolves(old, new) ==
  \/ new = old
  \/ old.state = "absent" /\ new.state = "pending"
  \/ /\ old.state = "pending" /\ new.state \in Ended
     /\ new.email = old.email
     /\ new.state = "accepted" => new.updated < old.expires

Grows ==
  /\ \A i \in Invitation : Evolves(invitation[i], invitation'[i])
  /\ accounts \subseteq accounts'
  /\ reviewers \subseteq reviewers'

(***************************************************************************)
(* Rows and operators.                                                     *)
(***************************************************************************)

\* The later of two instants is one of them.
LEMMA LaterIsTime ==
    ASSUME NEW t \in Times, NEW u \in Times
    PROVE  Later(t, u) \in Times
BY DEF Later, Times

\* The first instant is one.
LEMMA FirstInstant == 0 \in Times
BY DEF Times

\* An answer is a request's row.
LEMMA AnsweredRow ==
    ASSUME NEW i \in Invitation \cup {NoInvitation}, NEW e \in Email \cup {NoEmail},
           NEW answer \in Answers
    PROVE  /\ Answered(i, e, answer) \in RequestRow
           /\ Answered(i, e, answer).step = "done"
           /\ Answered(i, e, answer).inv = i
           /\ Answered(i, e, answer).email = e
           /\ Answered(i, e, answer).answer = answer
BY FirstInstant DEF Answered, Idle, RequestRow, Steps

\* A cancellation leaves the state of the mail alone, writes its code on a mail that
\* is still to go out and has none, and nothing on another.
LEMMA Cancels ==
    ASSUME NEW i \in Invitation, message[i] \in MessageRow, NEW code \in Codes, NEW at \in Times
    PROVE  /\ MessageAfter(i, code, at) \in MessageRow
           /\ MessageAfter(i, code, at).state = message[i].state
           /\ Cancelable(i) => /\ MessageAfter(i, code, at).code = code
                               /\ MessageAfter(i, code, at).updated = at
           /\ ~ Cancelable(i) => MessageAfter(i, code, at) = message[i]
BY DEF MessageAfter, MessageRow, Cancelable

\* An invitation that a request finds under a key holds it.
LEMMA FoundByKey ==
    ASSUME NEW k \in Key, Rows, WithKey(k) # {},
           NEW i, i = (CHOOSE j \in WithKey(k) : TRUE)
    PROVE  i \in Invitation /\ invitation[i].state # "absent"
<1>1. i \in WithKey(k)
  OBVIOUS
<1>2. i \in Invitation /\ invitation[i].key = k
  BY <1>1 DEF WithKey
<1> QED BY <1>2 DEF Rows, Agrees

\* What a request knows stays true while the rows only grow.
LEMMA StillKnows ==
    ASSUME Rows, Grows, NEW q \in RequestRow, Knows(q)
    PROVE  Knows(q)'
<1>1. ASSUME Holds(q)
      PROVE  /\ Holds(q)'
             /\ invitation'[q.inv].email = invitation[q.inv].email
             /\ invitation[q.inv].state \in Ended =>
                  invitation'[q.inv].state = invitation[q.inv].state
  BY <1>1 DEF Holds, Grows, Evolves, Ended
<1>2. q.email \in accounts => q.email \in accounts'
  BY DEF Grows
<1>3. q.email \in reviewers => q.email \in reviewers'
  BY DEF Grows
<1> QED BY <1>1, <1>2, <1>3 DEF Knows, Ended

\* A request that goes on, or is answered, knowing what its new step needs, leaves
\* every request knowing what it must.
LEMMA OneRequest ==
    ASSUME IInv, Grows, NEW r \in Request, NEW q \in RequestRow, Knows(q)',
           request' = [request EXCEPT ![r] = q]
    PROVE  Requests'
<1>1. request' \in [Request -> RequestRow]
  BY DEF IInv, Requests
<1>2. ASSUME NEW s \in Request PROVE Knows(request[s])'
  <2>1. CASE s = r
    <3>1. request'[s] = q
      BY <2>1 DEF IInv, Requests
    <3> QED BY <3>1 DEF Knows, Holds
  <2>2. CASE s # r
    <3> DEFINE p == request[s]
    <3>1. request'[s] = p /\ p \in RequestRow /\ Knows(p)
      BY <2>2 DEF IInv, Requests
    <3> HIDE DEF p
    <3>2. Knows(p) => \A x \in RequestRow : x = p => Knows(x)'
      BY <3>1, StillKnows DEF IInv
    <3> QED BY <3>1, <3>2 DEF Knows, Holds
  <2> QED BY <2>1, <2>2
<1> QED BY <1>1, <1>2 DEF Requests

\* A step on the rows alone.
LEMMA OnlyRows ==
    ASSUME IInv, Rows', Grows, UNCHANGED request
    PROVE  IInv'
<1>1. ASSUME NEW s \in Request PROVE Knows(request[s])'
  <2> DEFINE p == request[s]
  <2>1. request'[s] = p /\ p \in RequestRow /\ Knows(p)
    BY DEF IInv, Requests
  <2> HIDE DEF p
  <2>2. \A x \in RequestRow : x = p => Knows(x)'
    BY <2>1, StillKnows DEF IInv
  <2> QED BY <2>1, <2>2 DEF Knows, Holds
<1> QED BY <1>1 DEF IInv, Requests

\* A step on one request alone.
LEMMA OnlyRequest ==
    ASSUME IInv, UNCHANGED <<invitation, message, accounts, reviewers>>,
           NEW r \in Request, NEW q \in RequestRow, Knows(q),
           request' = [request EXCEPT ![r] = q]
    PROVE  IInv' /\ Grows
<1>1. Rows' /\ Grows
  BY DEF IInv, Rows, Grows, Evolves
<1>2. Knows(q)'
  BY DEF Knows, Holds
<1> QED BY <1>1, <1>2, OneRequest DEF IInv

(***************************************************************************)
(* The steps of a request that write no row.                               *)
(***************************************************************************)

\* A refusal claims nothing.
LEMMA Refuses ==
    ASSUME IInv, UNCHANGED <<invitation, message, accounts, reviewers>>,
           NEW r \in Request,
           NEW answer \in Answers \ Claims,
           Refuse(r, answer)
    PROVE  IInv' /\ Grows
<1>1. Refused(answer) \in RequestRow /\ Knows(Refused(answer))
  BY AnsweredRow DEF Refused, Claims, Knows, CreateSteps, AcceptSteps, RegisterSteps
<1> QED BY <1>1, OnlyRequest DEF Refuse

\* A request that has not been answered goes on to a step that needs no more than it
\* knows.
LEMMA Goes ==
    ASSUME IInv, UNCHANGED <<invitation, message, accounts, reviewers>>,
           NEW r \in Request, NEW step \in Steps, Goto(r, step),
           \/ request[r].step \in CreateSteps /\ step \in CreateSteps
           \/ request[r].step \in AcceptSteps /\ step \in AcceptSteps
           \/ request[r].step \in RegisterSteps /\ step \in RegisterSteps
    PROVE  IInv' /\ Grows
<1> DEFINE q == [request[r] EXCEPT !.step = step]
<1>1. request[r] \in RequestRow /\ Knows(request[r])
  BY DEF IInv, Requests
<1>2. q \in RequestRow
  BY <1>1 DEF RequestRow
<1>3. Knows(q)
  BY <1>1 DEF RequestRow, Knows, Holds, CreateSteps, AcceptSteps, RegisterSteps
<1>4. request' = [request EXCEPT ![r] = q]
  BY DEF Goto, IInv, Requests
<1> QED BY <1>2, <1>3, <1>4, OnlyRequest

\* A request begins with what it has read.
LEMMA Begins ==
    ASSUME IInv, NEW r \in Request, Begin(r)
    PROVE  IInv' /\ Grows
<1>1. UNCHANGED <<invitation, message, accounts, reviewers>>
  BY DEF Begin, BeginCreate, BeginRevoke, BeginAccept, BeginRegister
<1> DEFINE Known(q) == q \in RequestRow /\ Knows(q)
<1>2. ASSUME NEW answer \in Answers \ Claims
      PROVE  Known(Refused(answer))
  BY AnsweredRow DEF Refused, Claims, Knows, CreateSteps, AcceptSteps, RegisterSteps
<1>3. ASSUME NEW e \in Email, NEW k \in Key, BeginCreate(r, e, k)
      PROVE  \E q : Known(q) /\ request' = [request EXCEPT ![r] = q]
  <2>1. PICK now \in Times : request' = [request EXCEPT ![r] =
         IF WithKey(k) = {}
         THEN [Idle EXCEPT !.step = "expire", !.email = e, !.key = k, !.now = now]
         ELSE LET i == CHOOSE i \in WithKey(k) : TRUE
              IN  IF invitation[i].email = e THEN Answered(i, e, "replayed")
                                             ELSE Refused("key_conflict")]
    BY <1>3 DEF BeginCreate
  <2>2. CASE WithKey(k) = {}
    <3>1. Known([Idle EXCEPT !.step = "expire", !.email = e, !.key = k, !.now = now])
      BY DEF Idle, RequestRow, Knows, Steps, Answers, CreateSteps, AcceptSteps, RegisterSteps
    <3> QED BY <2>1, <2>2, <3>1
  <2>3. CASE WithKey(k) # {}
    <3>1. PICK i : i = CHOOSE j \in WithKey(k) : TRUE
      OBVIOUS
    <3>2. i \in Invitation /\ invitation[i].state # "absent"
      BY <2>3, <3>1, FoundByKey DEF IInv
    <3>3. invitation[i].email = e => Known(Answered(i, e, "replayed"))
      BY <3>2, AnsweredRow DEF Answers, Knows, Holds, CreateSteps, AcceptSteps, RegisterSteps
    <3>4. Known(Refused("key_conflict"))
      BY <1>2 DEF Answers, Claims
    <3>5. request' = [request EXCEPT ![r] =
            IF invitation[i].email = e THEN Answered(i, e, "replayed") ELSE Refused("key_conflict")]
      BY <2>1, <2>3, <3>1
    <3> QED BY <3>3, <3>4, <3>5
  <2> QED BY <2>2, <2>3
<1>4. ASSUME NEW i \in Invitation, NEW now, Open(i, now)
      PROVE  invitation[i].state # "absent" /\ invitation[i].email \in Email
  BY <1>4 DEF Open, Pending, IInv, Rows, Agrees
<1>5. ASSUME NEW i \in Invitation, BeginRevoke(r, i)
      PROVE  \E q : Known(q) /\ request' = [request EXCEPT ![r] = q]
  <2>1. PICK now \in Times : request' = [request EXCEPT ![r] =
           IF Open(i, now)
           THEN [Idle EXCEPT !.step = "revoke", !.inv = i, !.now = now]
           ELSE Refused("not_pending")]
    BY <1>5 DEF BeginRevoke
  <2>2. Open(i, now) => Known([Idle EXCEPT !.step = "revoke", !.inv = i, !.now = now])
    BY <1>4 DEF Idle, RequestRow, Knows, Holds, Steps, Answers, CreateSteps, AcceptSteps,
                RegisterSteps
  <2>3. Known(Refused("not_pending"))
    BY <1>2 DEF Answers, Claims
  <2> QED BY <2>1, <2>2, <2>3
<1>6. ASSUME NEW i \in Invitation, NEW e \in Email, BeginAccept(r, i, e)
      PROVE  \E q : Known(q) /\ request' = [request EXCEPT ![r] = q]
  <2>1. e \in accounts
    BY <1>6 DEF BeginAccept
  <2>2. PICK now \in Times : request' = [request EXCEPT ![r] =
           IF ~ Open(i, now) THEN Refused("unavailable")
           ELSE IF invitation[i].email # e THEN Refused("mismatch")
           ELSE [Idle EXCEPT !.step = "accept", !.inv = i, !.email = e, !.now = now]]
    BY <1>6 DEF BeginAccept
  <2>3. Open(i, now) /\ invitation[i].email = e =>
          Known([Idle EXCEPT !.step = "accept", !.inv = i, !.email = e, !.now = now])
    BY <1>4, <2>1 DEF Idle, RequestRow, Knows, Holds, Steps, Answers, CreateSteps, AcceptSteps,
                      RegisterSteps
  <2>4. Known(Refused("unavailable")) /\ Known(Refused("mismatch"))
    BY <1>2 DEF Answers, Claims
  <2> QED BY <2>2, <2>3, <2>4
<1>7. ASSUME NEW i \in Invitation, BeginRegister(r, i)
      PROVE  \E q : Known(q) /\ request' = [request EXCEPT ![r] = q]
  <2>1. PICK now \in Times : request' = [request EXCEPT ![r] =
           IF Open(i, now)
           THEN [Idle EXCEPT !.step = "account", !.inv = i,
                   !.email = invitation[i].email, !.now = now]
           ELSE Refused("unavailable")]
    BY <1>7 DEF BeginRegister
  <2>2. Open(i, now) =>
          Known([Idle EXCEPT !.step = "account", !.inv = i,
                   !.email = invitation[i].email, !.now = now])
    BY <1>4 DEF Idle, RequestRow, Knows, Holds, Steps, Answers, CreateSteps, AcceptSteps,
                RegisterSteps
  <2>3. Known(Refused("unavailable"))
    BY <1>2 DEF Answers, Claims
  <2> QED BY <2>1, <2>2, <2>3
<1>8. PICK q : Known(q) /\ request' = [request EXCEPT ![r] = q]
  BY <1>3, <1>5, <1>6, <1>7 DEF Begin
<1> QED BY <1>1, <1>8, OnlyRequest

(***************************************************************************)
(* The steps that write rows.                                              *)
(***************************************************************************)

\* One row of each table, and the rest as it was.
LEMMA OneRow ==
    ASSUME Rows, NEW i \in Invitation, NEW row \in InvitationRow, NEW mail \in MessageRow,
           invitation' = [invitation EXCEPT ![i] = row],
           message' = [message EXCEPT ![i] = mail],
           Agrees(row, mail), Evolves(invitation[i], row)
    PROVE  /\ invitation' \in [Invitation -> InvitationRow]
           /\ message' \in [Invitation -> MessageRow]
           /\ \A j \in Invitation : /\ Agrees(invitation'[j], message'[j])
                                    /\ Evolves(invitation[j], invitation'[j])
<1>1. /\ invitation' \in [Invitation -> InvitationRow]
      /\ message' \in [Invitation -> MessageRow]
  BY DEF Rows
<1>2. ASSUME NEW j \in Invitation
      PROVE  /\ Agrees(invitation'[j], message'[j])
             /\ Evolves(invitation[j], invitation'[j])
  <2>1. CASE j = i
    BY <2>1 DEF Rows
  <2>2. CASE j # i
    <3>1. invitation'[j] = invitation[j] /\ message'[j] = message[j]
      BY <2>2 DEF Rows
    <3> QED BY <3>1 DEF Rows, Evolves
  <2> QED BY <2>1, <2>2
<1> QED BY <1>1, <1>2

\* An overdue invitation ends with its mail, and no other row is touched.
LEMMA Expires ==
    ASSUME IInv, NEW r \in Request, ExpireOverdue(r)
    PROVE  IInv' /\ Grows
<1> DEFINE now == request[r].now
           overdue == {i \in Invitation : /\ Pending(i)
                                          /\ invitation[i].email = request[r].email
                                          /\ invitation[i].expires <= now}
           ended(i) == [invitation[i] EXCEPT !.state = "expired", !.updated = Later(@, now)]
           canceled(i) == MessageAfter(i, "MESSAGE_EXPIRED", Later(message[i].updated, now))
<1>1. request[r] \in RequestRow /\ Knows(request[r]) /\ now \in Times
  BY DEF IInv, Requests, RequestRow
<1>2. /\ message' = [i \in Invitation |-> IF i \in overdue THEN canceled(i) ELSE message[i]]
      /\ \A i \in overdue : OutboxAgrees(message'[i], "expired")
      /\ invitation' = [i \in Invitation |-> IF i \in overdue THEN ended(i) ELSE invitation[i]]
      /\ Goto(r, "conflict") /\ At(r, "expire")
      /\ UNCHANGED <<accounts, reviewers>>
  BY DEF ExpireOverdue
<1>3. ASSUME NEW i \in Invitation
      PROVE  /\ invitation'[i] \in InvitationRow /\ message'[i] \in MessageRow
             /\ Agrees(invitation'[i], message'[i])
             /\ Evolves(invitation[i], invitation'[i])
  <2>1. invitation[i] \in InvitationRow /\ message[i] \in MessageRow
    BY DEF IInv, Rows
  <2>2. CASE i \notin overdue
    <3>1. invitation'[i] = invitation[i] /\ message'[i] = message[i]
      BY <1>2, <2>2
    <3> QED BY <2>1, <3>1 DEF IInv, Rows, Evolves
  <2>3. CASE i \in overdue
    <3> DEFINE at == Later(message[i].updated, now)
    <3>1. invitation'[i] = ended(i) /\ message'[i] = canceled(i)
      BY <1>2, <2>3
    <3>2. at \in Times /\ Later(invitation[i].updated, now) \in Times
      BY <1>1, <2>1, LaterIsTime DEF InvitationRow, MessageRow
    <3>3. ended(i) \in InvitationRow
      BY <2>1, <3>2 DEF InvitationRow, InvitationStates
    <3>4. canceled(i) \in MessageRow
      BY <2>1, <3>2, Cancels DEF Codes
    <3>5. invitation[i].state = "pending" /\ invitation[i].email \in Email /\ invitation[i].key \in Key
      BY <2>3 DEF IInv, Rows, Agrees, Pending
    <3>6. /\ ended(i).state = "expired"
          /\ ended(i).email = invitation[i].email
          /\ ended(i).key = invitation[i].key
      BY <2>1 DEF InvitationRow
    <3>7. canceled(i).state = "settled" \/ canceled(i).code = "MESSAGE_EXPIRED"
      BY <1>2, <2>3, <3>1 DEF OutboxAgrees, CodeOf
    <3>8. canceled(i).code \notin {"INVITATION_ACCEPTED", "INVITATION_REVOKED"}
      <4>1. message[i].code \notin {"INVITATION_ACCEPTED", "INVITATION_REVOKED"}
        BY <3>5 DEF IInv, Rows, Agrees
      <4> HIDE DEF at
      <4>2. MessageAfter(i, "MESSAGE_EXPIRED", at).code \in {"MESSAGE_EXPIRED", message[i].code}
        BY <2>1, <3>2, Cancels DEF Codes
      <4> QED BY <4>1, <4>2 DEF at
    <3> HIDE DEF ended, canceled
    <3>9. Agrees(ended(i), canceled(i))
      BY <3>5, <3>6, <3>7, <3>8 DEF Agrees, Ended, CodeOf
    <3>10. Evolves(invitation[i], ended(i))
      BY <3>5, <3>6 DEF Evolves, Ended
    <3> QED BY <3>1, <3>3, <3>4, <3>9, <3>10
  <2> QED BY <2>2, <2>3
<1>4. Rows' /\ Grows
  <2>1. invitation' \in [Invitation -> InvitationRow] /\ message' \in [Invitation -> MessageRow]
    BY <1>2, <1>3
  <2> QED BY <1>2, <1>3, <2>1 DEF IInv, Rows, Grows
<1>5. PICK q \in RequestRow : q = [request[r] EXCEPT !.step = "conflict"]
  BY <1>1 DEF RequestRow, Steps
<1>6. Knows(q)
  BY <1>1, <1>2, <1>5 DEF At, RequestRow, Knows, Holds, CreateSteps, AcceptSteps, RegisterSteps
<1>7. request' = [request EXCEPT ![r] = q]
  BY <1>2, <1>5 DEF Goto, IInv, Requests
<1>8. Knows(q)'
  BY <1>4, <1>6, StillKnows DEF IInv
<1> QED BY <1>4, <1>7, <1>8, OneRequest DEF IInv

\* An insert fills a free slot with an invitation and its mail.
LEMMA Inserts ==
    ASSUME IInv, NEW r \in Request, InsertInvitation(r)
    PROVE  IInv' /\ Grows
<1> DEFINE e == request[r].email
           k == request[r].key
           now == request[r].now
<1>1. request[r] \in RequestRow /\ e \in Email /\ k \in Key /\ now \in Times /\ At(r, "insert")
  BY DEF InsertInvitation, At, IInv, Requests, Knows, RequestRow, CreateSteps
<1>2. CASE Goto(r, "replay") /\ UNCHANGED <<invitation, message, accounts, reviewers>>
  BY <1>1, <1>2, Goes DEF At, CreateSteps, Steps
<1>3. ASSUME NEW i \in Invitation, invitation[i].state = "absent",
             invitation' = [invitation EXCEPT ![i] =
               [state |-> "pending", email |-> e, key |-> k,
                expires |-> now + Lifetime, updated |-> now]],
             message' = [message EXCEPT ![i] =
               [state |-> "queued", code |-> "none", updated |-> now]],
             request' = [request EXCEPT ![r] = Answered(i, e, "created")],
             UNCHANGED <<accounts, reviewers>>
      PROVE  IInv' /\ Grows
  <2> DEFINE row == [state |-> "pending", email |-> e, key |-> k,
                     expires |-> now + Lifetime, updated |-> now]
             mail == [state |-> "queued", code |-> "none", updated |-> now]
  <2>1. row \in InvitationRow /\ mail \in MessageRow
    BY <1>1 DEF InvitationRow, MessageRow, InvitationStates, MessageStates, Codes, Times
  <2>2. Agrees(row, mail) /\ Evolves(invitation[i], row)
    BY <1>1, <1>3 DEF Agrees, Evolves, Ended
  <2>3. Rows' /\ Grows
    <3> HIDE DEF row, mail
    <3>1. invitation' = [invitation EXCEPT ![i] = row] /\ message' = [message EXCEPT ![i] = mail]
      BY <1>3 DEF row, mail
    <3> QED BY <1>3, <2>1, <2>2, <3>1, OneRow DEF IInv, Rows, Grows
  <2>4. PICK q \in RequestRow : q = Answered(i, e, "created")
    BY <1>1, AnsweredRow DEF Answers
  <2>5. q.step = "done" /\ q.answer = "created" /\ q.inv = i /\ q.email = e
    BY <1>1, <2>4, AnsweredRow DEF Answers
  <2>6. invitation'[i].state = "pending" /\ invitation'[i].email = q.email
    BY <1>3, <2>5 DEF IInv, Rows
  <2>7. Knows(q)'
    BY <2>5, <2>6 DEF Knows, Holds, CreateSteps, AcceptSteps, RegisterSteps
  <2>8. request' = [request EXCEPT ![r] = q]
    BY <1>3, <2>4
  <2> QED BY <2>3, <2>7, <2>8, OneRequest DEF IInv
<1> QED BY <1>2, <1>3 DEF InsertInvitation

\* A cancellation for an end that the mail agrees with.
LEMMA MailAfterEnd ==
    ASSUME IInv, NEW i \in Invitation, Pending(i), NEW at \in Times,
           NEW state \in {"accepted", "revoked"},
           OutboxAgrees(MessageAfter(i, CodeOf(state), at), state),
           NEW row \in InvitationRow, row.state = state,
           row.email = invitation[i].email, row.key = invitation[i].key
    PROVE  /\ MessageAfter(i, CodeOf(state), at) \in MessageRow
           /\ Agrees(row, MessageAfter(i, CodeOf(state), at))
<1> DEFINE mail == MessageAfter(i, CodeOf(state), at)
<1>1. message[i] \in MessageRow /\ Agrees(invitation[i], message[i])
  BY DEF IInv, Rows
<1>2. CodeOf(state) \in {"INVITATION_ACCEPTED", "INVITATION_REVOKED"} /\ CodeOf(state) \in Codes
  BY DEF CodeOf, Codes
<1>3. mail \in MessageRow /\ mail.code \in {CodeOf(state), message[i].code}
  BY <1>1, <1>2, Cancels
<1>4. mail.state = "settled" \/ mail.code = CodeOf(state)
  BY DEF OutboxAgrees
<1>5. message[i].code \notin {"INVITATION_ACCEPTED", "INVITATION_REVOKED"}
  BY <1>1 DEF Agrees, Pending
<1>6. row.email \in Email /\ row.key \in Key
  BY <1>1 DEF Agrees, Pending
<1> HIDE DEF mail
<1>7. Agrees(row, mail)
  BY <1>3, <1>4, <1>5, <1>6 DEF Agrees, Ended, CodeOf
<1> QED BY <1>3, <1>7 DEF mail

\* A revocation ends the invitation and its mail, or writes nothing: the mail of an
\* invitation that has ended cannot be canceled again.
LEMMA Revokes ==
    ASSUME IInv, NEW r \in Request, CommitRevoke(r)
    PROVE  IInv' /\ Grows
<1> DEFINE now == request[r].now
<1>1. PICK i : i = request[r].inv
  OBVIOUS
<1>2. /\ request[r] \in RequestRow /\ now \in Times
      /\ i \in Invitation /\ invitation[i].state # "absent"
  BY <1>1 DEF CommitRevoke, At, IInv, Requests, Knows, Holds, RequestRow
<1>3. invitation[i] \in InvitationRow /\ message[i] \in MessageRow
  BY <1>2 DEF IInv, Rows
<1> DEFINE at == Later(message[i].updated, now)
           after == MessageAfter(i, "INVITATION_REVOKED", at)
<1>4. at \in Times /\ Later(invitation[i].updated, now) \in Times
  BY <1>2, <1>3, LaterIsTime DEF InvitationRow, MessageRow
<1>5. \/ /\ Pending(i) /\ OutboxAgrees(after, "revoked")
         /\ message' = [message EXCEPT ![i] = after]
         /\ invitation' = [invitation EXCEPT ![i].state = "revoked",
                             ![i].updated = Later(@, now)]
         /\ Answer(r, "revoked")
      \/ Refuse(r, "failed") /\ UNCHANGED <<invitation, message>>
      \/ /\ ~ Pending(i)
         /\ message' = [message EXCEPT ![i] = after]
         /\ Refuse(r, "not_pending")
         /\ UNCHANGED invitation
  BY <1>1 DEF CommitRevoke
<1>6. UNCHANGED <<accounts, reviewers>>
  BY DEF CommitRevoke
<1>7. CASE Refuse(r, "failed") /\ UNCHANGED <<invitation, message>>
  BY <1>6, <1>7, Refuses DEF Answers, Claims
<1>8. CASE /\ ~ Pending(i)
           /\ message' = [message EXCEPT ![i] = after]
           /\ Refuse(r, "not_pending")
           /\ UNCHANGED invitation
  <2>1. Agrees(invitation[i], message[i])
    BY <1>2 DEF IInv, Rows
  <2>2. ~ Cancelable(i)
    BY <1>2, <1>3, <1>8, <2>1
       DEF Agrees, Ended, CodeOf, Cancelable, Pending, InvitationRow, InvitationStates
  <2>3. after = message[i]
    BY <2>2 DEF MessageAfter
  <2>4. UNCHANGED message
    BY <1>8, <2>3 DEF IInv, Rows
  <2> QED BY <1>6, <1>8, <2>4, Refuses DEF Answers, Claims
<1>9. CASE /\ Pending(i) /\ OutboxAgrees(after, "revoked")
           /\ message' = [message EXCEPT ![i] = after]
           /\ invitation' = [invitation EXCEPT ![i].state = "revoked",
                               ![i].updated = Later(@, now)]
           /\ Answer(r, "revoked")
  <2> DEFINE row == [invitation[i] EXCEPT !.state = "revoked", !.updated = Later(@, now)]
  <2>1. /\ row \in InvitationRow /\ row.state = "revoked"
        /\ row.email = invitation[i].email /\ row.key = invitation[i].key
    BY <1>3, <1>4 DEF InvitationRow, InvitationStates
  <2>2. after \in MessageRow /\ Agrees(row, after)
    <3> HIDE DEF row
    <3> QED BY <1>2, <1>4, <1>9, <2>1, MailAfterEnd DEF CodeOf
  <2>3. Evolves(invitation[i], row)
    BY <1>9, <2>1 DEF Evolves, Ended, Pending
  <2>4. invitation' = [invitation EXCEPT ![i] = row] /\ message' = [message EXCEPT ![i] = after]
    BY <1>9 DEF IInv, Rows
  <2>5. Rows' /\ Grows
    <3> HIDE DEF row, after
    <3> QED BY <1>2, <1>6, <2>1, <2>2, <2>3, <2>4, OneRow DEF IInv, Rows, Grows
  <2>6. PICK q \in RequestRow : q = Answered(i, request[r].email, "revoked")
    BY <1>2, AnsweredRow DEF Answers, RequestRow
  <2>7. q.step = "done" /\ q.answer = "revoked" /\ q.inv = i
    BY <1>2, <2>6, AnsweredRow DEF Answers, RequestRow
  <2>8. invitation'[i].state = "revoked"
    BY <1>2, <2>1, <2>4 DEF IInv, Rows
  <2>9. Knows(q)'
    BY <1>2, <2>7, <2>8 DEF Knows, Holds, CreateSteps, AcceptSteps, RegisterSteps
  <2>10. request' = [request EXCEPT ![r] = q]
    BY <1>1, <1>9, <2>6 DEF Answer, IInv, Requests
  <2> QED BY <2>5, <2>9, <2>10, OneRequest DEF IInv
<1> QED BY <1>5, <1>7, <1>8, <1>9

\* An accepted invitation is open when it is accepted; its mail ends with it, and its
\* address becomes a reviewer's.
LEMMA Accepts ==
    ASSUME IInv, NEW r \in Request, NEW now \in Times,
           NEW i, i = request[r].inv, NEW e, e = request[r].email,
           Holds(request[r]), invitation[i].email = e,
           Acceptable(i, e, now), Accepted(i, e, now),
           accounts \subseteq accounts', accounts' \subseteq Email, e \in accounts',
           NEW answer \in {"accepted", "registered"}, Answer(r, answer)
    PROVE  IInv' /\ Grows
<1> DEFINE mail == MessageAfter(i, "INVITATION_ACCEPTED", now)
           row == [invitation[i] EXCEPT !.state = "accepted", !.updated = now]
<1>1. /\ request[r] \in RequestRow
      /\ i \in Invitation /\ invitation[i] \in InvitationRow /\ Pending(i)
  BY DEF IInv, Requests, Rows, Holds, Acceptable, Open
<1>2. /\ row \in InvitationRow /\ row.state = "accepted" /\ row.updated = now
      /\ row.email = e /\ row.key = invitation[i].key
  BY <1>1 DEF InvitationRow, InvitationStates
<1>3. now < invitation[i].expires
  BY <1>1 DEF Acceptable, Open, InvitationRow, Times
<1>4. OutboxAgrees(mail, "accepted")
  BY DEF Acceptable
<1>5. mail \in MessageRow /\ Agrees(row, mail)
  <2> HIDE DEF row
  <2> QED BY <1>1, <1>2, <1>4, MailAfterEnd DEF CodeOf
<1>6. Evolves(invitation[i], row)
  BY <1>1, <1>2, <1>3 DEF Evolves, Ended, Pending
<1>7. invitation' = [invitation EXCEPT ![i] = row] /\ message' = [message EXCEPT ![i] = mail]
  BY DEF Accepted, IInv, Rows
<1>8. reviewers' = reviewers \cup {e}
  BY DEF Accepted
<1>9. Rows' /\ Grows
  <2> HIDE DEF row, mail
  <2> QED BY <1>1, <1>2, <1>5, <1>6, <1>7, <1>8, OneRow DEF IInv, Rows, Grows
<1>10. PICK q \in RequestRow : q = Answered(i, e, answer)
  BY <1>1, AnsweredRow DEF Answers, RequestRow
<1>11. q.step = "done" /\ q.answer = answer /\ q.inv = i /\ q.email = e
  BY <1>1, <1>10, AnsweredRow DEF Answers, RequestRow
<1>12. invitation'[i].state = "accepted" /\ invitation'[i].email = e /\ e \in reviewers'
  BY <1>1, <1>2, <1>7, <1>8 DEF IInv, Rows
<1>13. Knows(q)'
  BY <1>1, <1>11, <1>12 DEF Knows, Holds, CreateSteps, AcceptSteps, RegisterSteps
<1>14. request' = [request EXCEPT ![r] = q]
  BY <1>10 DEF Answer, IInv, Requests
<1> QED BY <1>9, <1>13, <1>14, OneRequest DEF IInv

\* Accepting with an account that is there.
LEMMA AcceptCommits ==
    ASSUME IInv, NEW r \in Request, CommitAccept(r)
    PROVE  IInv' /\ Grows
<1>1. PICK now \in request[r].now .. Horizon : StampAndAccept(r, now)
  BY DEF CommitAccept
<1>2. At(r, "accept") /\ UNCHANGED accounts
  BY DEF CommitAccept
<1>3. PICK i, e : i = request[r].inv /\ e = request[r].email
  OBVIOUS
<1>4. /\ Holds(request[r]) /\ invitation[i].email = e /\ e \in accounts
      /\ request[r] \in RequestRow
  BY <1>2, <1>3 DEF At, IInv, Requests, Knows, AcceptSteps
<1>5. now \in Times
  BY <1>4 DEF RequestRow, Times
<1>6. CASE Acceptable(i, e, now) /\ Accepted(i, e, now) /\ Answer(r, "accepted")
  BY <1>2, <1>3, <1>4, <1>5, <1>6, Accepts DEF IInv, Rows
<1>7. CASE Goto(r, "acceptFailed") /\ UNCHANGED <<invitation, message, reviewers>>
  BY <1>2, <1>7, Goes DEF At, AcceptSteps, Steps
<1> QED BY <1>1, <1>3, <1>6, <1>7 DEF StampAndAccept

\* Accepting with an account that is opened in the same batch.
LEMMA RegisterCommits ==
    ASSUME IInv, NEW r \in Request, CommitRegister(r)
    PROVE  IInv' /\ Grows
<1>1. PICK now \in request[r].now .. Horizon : StampAndRegister(r, now)
  BY DEF CommitRegister
<1>2. At(r, "register")
  BY DEF CommitRegister
<1>3. PICK i, e : i = request[r].inv /\ e = request[r].email
  OBVIOUS
<1>4. /\ Holds(request[r]) /\ invitation[i].email = e
      /\ request[r] \in RequestRow
  BY <1>2, <1>3 DEF At, IInv, Requests, Knows, RegisterSteps
<1>5. now \in Times
  BY <1>4 DEF RequestRow, Times
<1>6. e \in Email
  BY <1>3, <1>4 DEF Holds, IInv, Rows, Agrees
<1>7. CASE /\ Acceptable(i, e, now) /\ Accepted(i, e, now) /\ Answer(r, "registered")
           /\ accounts' = accounts \cup {e}
  BY <1>3, <1>4, <1>5, <1>6, <1>7, Accepts DEF IInv, Rows
<1>8. CASE Goto(r, "registerFailed") /\ UNCHANGED <<invitation, message, accounts, reviewers>>
  BY <1>2, <1>8, Goes DEF At, RegisterSteps, Steps
<1> QED BY <1>1, <1>3, <1>7, <1>8 DEF StampAndRegister

(***************************************************************************)
(* The steps outside of requests, and every step.                          *)
(***************************************************************************)

\* The dispatcher writes a mail that the invitation still agrees with.
LEMMA Mails ==
    ASSUME IInv, NEW i \in Invitation, NEW now \in Times, NEW s \in {"queued", "settled"},
           LeaseMessage(i, now) \/ SettleMessage(i, s) \/ ExpireMessage(i, now)
    PROVE  IInv' /\ Grows
<1>1. invitation[i] \in InvitationRow /\ message[i] \in MessageRow
  BY DEF IInv, Rows
<1>2. Agrees(invitation[i], message[i])
  BY DEF IInv, Rows
<1>3. UNCHANGED <<invitation, accounts, reviewers, request>>
  BY DEF LeaseMessage, SettleMessage, ExpireMessage
<1>4. ASSUME NEW mail \in MessageRow, message' = [message EXCEPT ![i] = mail],
             Agrees(invitation[i], mail)
      PROVE  IInv' /\ Grows
  <2>1. invitation' = [invitation EXCEPT ![i] = invitation[i]] /\ Evolves(invitation[i], invitation[i])
    BY <1>3 DEF IInv, Rows, Evolves
  <2>2. Rows' /\ Grows
    BY <1>1, <1>3, <1>4, <2>1, OneRow DEF IInv, Rows, Grows
  <2> QED BY <1>3, <2>2, OnlyRows
<1>5. CASE LeaseMessage(i, now)
  <2> DEFINE mail == [message[i] EXCEPT !.state = "leased", !.updated = now]
  <2>1. /\ mail \in MessageRow /\ mail.state = "leased" /\ mail.code = message[i].code
        /\ message[i].code = "none" /\ message[i].state = "queued"
    BY <1>1, <1>5 DEF LeaseMessage, MessageRow, MessageStates
  <2>2. message' = [message EXCEPT ![i] = mail]
    BY <1>5 DEF LeaseMessage, IInv, Rows
  <2> HIDE DEF mail
  <2>3. Agrees(invitation[i], mail)
    BY <1>1, <1>2, <2>1 DEF Agrees, Ended, CodeOf
  <2> QED BY <1>4, <2>1, <2>2, <2>3
<1>6. CASE SettleMessage(i, s)
  <2> DEFINE mail == [message[i] EXCEPT !.state = s]
  <2>1. /\ mail \in MessageRow /\ mail.state = s /\ mail.code = message[i].code
        /\ mail.updated = message[i].updated /\ message[i].state = "leased"
    BY <1>1, <1>6 DEF SettleMessage, MessageRow, MessageStates
  <2>2. message' = [message EXCEPT ![i] = mail]
    BY <1>6 DEF SettleMessage, IInv, Rows
  <2> HIDE DEF mail
  <2>3. Agrees(invitation[i], mail)
    BY <1>1, <1>2, <2>1 DEF Agrees
  <2> QED BY <1>4, <2>1, <2>2, <2>3
<1>7. CASE ExpireMessage(i, now)
  <2> DEFINE mail == [message[i] EXCEPT !.code = "MESSAGE_EXPIRED", !.updated = now]
  <2>1. /\ mail \in MessageRow /\ mail.state = "queued" /\ mail.code = "MESSAGE_EXPIRED"
        /\ mail.updated = now /\ invitation[i].expires <= now /\ message[i].code = "none"
        /\ message[i].state = "queued"
    BY <1>1, <1>7 DEF ExpireMessage, MessageRow, Codes
  <2>2. message' = [message EXCEPT ![i] = mail]
    BY <1>7 DEF ExpireMessage, IInv, Rows
  <2> HIDE DEF mail
  <2>3. Agrees(invitation[i], mail)
    BY <1>2, <2>1 DEF Agrees, Ended, CodeOf
  <2> QED BY <1>4, <2>1, <2>2, <2>3
<1> QED BY <1>5, <1>6, <1>7

\* A request goes on.
LEMMA Continues ==
    ASSUME IInv, NEW r \in Request, Continue(r)
    PROVE  IInv' /\ Grows
<1>1. CASE CheckConflict(r) \/ FindPending(r) \/ FindReviewer(r)
  BY <1>1, Goes, Refuses
     DEF CheckConflict, FindPending, FindReviewer, At, CreateSteps, Steps, Answers, Claims
<1>2. CASE ExplainAccept(r) \/ ExplainRole(r)
  BY <1>2, Goes, Refuses DEF ExplainAccept, ExplainRole, At, AcceptSteps, Steps, Answers, Claims
<1>3. CASE CheckAccount(r) \/ ExplainAccount(r) \/ ExplainToken(r)
  BY <1>3, Goes, Refuses
     DEF CheckAccount, ExplainAccount, ExplainToken, At, RegisterSteps, Steps, Answers, Claims
<1>4. CASE FindReplay(r)
  <2>1. At(r, "replay") /\ UNCHANGED <<invitation, message, accounts, reviewers>>
    BY <1>4 DEF FindReplay
  <2>2. request[r] \in RequestRow /\ Knows(request[r])
    BY DEF IInv, Requests
  <2>3. request[r].key \in Key
    BY <2>1, <2>2 DEF At, Knows, CreateSteps
  <2>4. CASE WithKey(request[r].key) = {}
    BY <1>4, <2>1, <2>4, Goes DEF FindReplay, At, CreateSteps, Steps
  <2>5. CASE WithKey(request[r].key) # {}
    <3>1. PICK i : i = CHOOSE j \in WithKey(request[r].key) : TRUE
      OBVIOUS
    <3>2. request' = [request EXCEPT ![r] = Answered(i, request[r].email, "replayed")]
      BY <1>4, <2>5, <3>1 DEF FindReplay, IInv, Requests
    <3>3. i \in Invitation /\ request[r].email \in Email \cup {NoEmail}
      BY <2>2, <2>3, <2>5, <3>1, FoundByKey DEF IInv, RequestRow
    <3>4. PICK q \in RequestRow : q = Answered(i, request[r].email, "replayed")
      BY <3>3, AnsweredRow DEF Answers
    <3>5. Knows(q)
      BY <3>3, <3>4, AnsweredRow DEF Answers, Knows, CreateSteps, AcceptSteps, RegisterSteps
    <3>6. request' = [request EXCEPT ![r] = q]
      BY <3>2, <3>4
    <3> QED BY <2>1, <3>5, <3>6, OnlyRequest
  <2> QED BY <2>4, <2>5
<1> QED BY <1>1, <1>2, <1>3, <1>4, Expires, Inserts, Revokes, AcceptCommits, RegisterCommits
        DEF Continue

\* The invariant holds of an empty event, and every step keeps it while the rows grow.
LEMMA InvInit == Init => IInv
<1> SUFFICES ASSUME Init PROVE IInv
  OBVIOUS
<1>1. NoRow \in InvitationRow /\ NoRow.state = "absent" /\ NoRow.key = NoKey
  BY FirstInstant DEF NoRow, InvitationRow, InvitationStates
<1>2. ASSUME NEW i \in Invitation
      PROVE  /\ invitation[i] = NoRow
             /\ message[i] = [state |-> "settled", code |-> "none", updated |-> 0]
  BY DEF Init
<1>3. Agrees(NoRow, [state |-> "settled", code |-> "none", updated |-> 0])
  BY <1>1 DEF Agrees, Ended
<1>4. Rows
  BY <1>1, <1>2, <1>3, FirstInstant DEF Init, Rows, MessageRow, MessageStates, Codes
<1>5. Idle \in RequestRow /\ Knows(Idle)
  BY FirstInstant DEF Idle, RequestRow, Steps, Answers, Knows, CreateSteps, AcceptSteps, RegisterSteps
<1>6. Requests
  BY <1>5 DEF Init, Requests
<1> QED BY <1>4, <1>6 DEF IInv

LEMMA InvNext ==
    ASSUME IInv, [Next]_vars
    PROVE  IInv' /\ Grows
<1>1. CASE \E r \in Request : Begin(r) \/ Continue(r)
  BY <1>1, Begins, Continues
<1>2. CASE \E i \in Invitation, now \in Times : LeaseMessage(i, now) \/ ExpireMessage(i, now)
  BY <1>2, Mails
<1>3. CASE \E i \in Invitation, s \in {"queued", "settled"} : SettleMessage(i, s)
  BY <1>3, FirstInstant, Mails
<1>4. CASE \E e \in Email : OpenAccount(e) \/ GrantRole(e)
  <2>1. Rows' /\ Grows /\ UNCHANGED request
    BY <1>4 DEF OpenAccount, GrantRole, IInv, Rows, Grows, Evolves
  <2> QED BY <2>1, OnlyRows
<1>5. CASE UNCHANGED vars
  <2>1. Rows' /\ Grows /\ UNCHANGED request
    BY <1>5 DEF vars, IInv, Rows, Grows, Evolves
  <2> QED BY <2>1, OnlyRows
<1> QED BY <1>1, <1>2, <1>3, <1>4, <1>5 DEF Next, Elsewhere

LEMMA Inductive == Spec => []IInv
<1>1. IInv /\ [Next]_vars => IInv'
  BY InvNext
<1> QED BY <1>1, InvInit, PTL DEF Spec

(***************************************************************************)
(* The properties.                                                         *)
(***************************************************************************)

\* Every variable keeps its type, and a reviewer has an account.
THEOREM TypeCorrect == Spec => []TypeOK
<1>1. IInv => TypeOK
  BY DEF IInv, Rows, Requests, TypeOK, InvitationRow, MessageRow, RequestRow
<1> QED BY <1>1, Inductive, PTL

\* An invitation and its mail end together, whichever of the requests, the dispatcher
\* and the expiry sweep is first to either row.
THEOREM MailEnds == Spec => []MailEndsWithInvitation
<1>1. IInv => MailEndsWithInvitation
  BY DEF IInv, Rows, Agrees, Ended, MailEndsWithInvitation
<1> QED BY <1>1, Inductive, PTL

\* What a request was told about an invitation stays true of it.
THEOREM Truthful == Spec => []AnswersAreTrue
<1>1. IInv => TypeOK
  BY DEF IInv, Rows, Requests, TypeOK, InvitationRow, MessageRow, RequestRow
<1>2. IInv => AnswersAreTrue
  BY <1>1 DEF IInv, Requests, Knows, Holds, AnswersAreTrue
<1> QED BY <1>2, Inductive, PTL

\* No invitation is accepted that is not open at the time that is written.
THEOREM InTime == Spec => AcceptedInTime
<1> DEFINE Timely ==
      \A i \in Invitation :
        invitation[i].state # "accepted" /\ invitation'[i].state = "accepted"
          => /\ invitation[i].state = "pending"
             /\ invitation'[i].updated < invitation[i].expires
<1>1. Grows => Timely
  BY DEF Grows, Evolves
<1>2. IInv /\ [Next]_vars => [Timely]_vars
  BY <1>1, InvNext
<1> QED BY <1>2, Inductive, PTL DEF Spec, AcceptedInTime

(***************************************************************************)
(* The pages.                                                              *)
(***************************************************************************)

\* Whatever clock is not behind what was written, the mail of an open invitation can
\* end with it, in either way.
LEMMA OpenMail ==
    ASSUME Rows, NEW i \in Invitation, NEW now \in Times, Open(i, now), NotBehind(i, now)
    PROVE  /\ OutboxAgrees(MessageAfter(i, "INVITATION_ACCEPTED", now), "accepted")
           /\ OutboxAgrees(MessageAfter(i, "INVITATION_REVOKED", now), "revoked")
           /\ message[i].state \in {"queued", "leased"} => message[i].code = "none"
           /\ invitation[i].updated <= now /\ message[i].updated <= now
<1>1. invitation[i] \in InvitationRow /\ message[i] \in MessageRow
  BY DEF Rows
<1>2. Agrees(invitation[i], message[i])
  BY DEF Rows
<1>3. message[i].code = "none"
  BY <1>1, <1>2 DEF Agrees, Open, Pending, NotBehind, InvitationRow, MessageRow, Times
<1>4. \/ message[i].state = "settled"
      \/ Cancelable(i)
  BY <1>1, <1>3 DEF Cancelable, MessageRow, MessageStates
<1>5. ASSUME NEW state \in {"accepted", "revoked"}
      PROVE  OutboxAgrees(MessageAfter(i, CodeOf(state), now), state)
  <2>1. CodeOf(state) \in Codes
    BY DEF CodeOf, Codes
  <2> QED BY <1>1, <1>4, <2>1, Cancels DEF OutboxAgrees
<1> QED BY <1>3, <1>5 DEF CodeOf, NotBehind

\* The mail of an overdue invitation can end with it.
LEMMA OverdueMail ==
    ASSUME Rows, NEW i \in Invitation, NEW now \in Times, Pending(i)
    PROVE  OutboxAgrees(MessageAfter(i, "MESSAGE_EXPIRED", now), "expired")
<1>1. message[i] \in MessageRow /\ Agrees(invitation[i], message[i])
  BY DEF Rows
<1>2. \/ message[i].state = "settled"
      \/ Cancelable(i)
      \/ message[i].code = "MESSAGE_EXPIRED" /\ ~ Cancelable(i)
  BY <1>1 DEF Agrees, Pending, Cancelable, MessageRow, MessageStates
<1> QED BY <1>1, <1>2, Cancels DEF OutboxAgrees, CodeOf, Codes

\* Each page has a button that works for who needs one, and the ledger tells the
\* truth about the mail.
THEOREM PagesWork == Spec => []InvitationPagesWork
<1>1. ASSUME Rows, NEW i \in Invitation, NEW now \in Times,
             invitation[i].state # "absent", NotBehind(i, now)
      PROVE  LET e == invitation[i].email
                 row == projection(i, now)
             IN  /\ Open(i, now) /\ e \notin reviewers => \A signedIn \in {NoEmail} \cup (accounts \cap {e}) :
                      \E button \in ConnectedReviewerInvitation(i, now, signedIn) : Takes(i, now, e, button)
                 /\ i \in ReviewerInvitationPanel(now) => Takes(i, now, e, "revoke")
                 /\ (\A j \in Invitation : invitation[j].email = e => NotBehind(j, now)) =>
                      \/ \E j \in ReviewerInvitationPanel(now) : invitation[j].email = e
                      \/ e \in reviewers \/ Takes(i, now, e, "create")
                 /\ row.outbox = "suppressed" => row.state # "pending"
                 /\ row.outbox = "queued" => row.state = "pending"
  <2> DEFINE e == invitation[i].email
  <2>1. e \in Email /\ e # NoEmail
    <3>1. Agrees(invitation[i], message[i])
      BY <1>1 DEF Rows
    <3> QED BY <1>1, <3>1 DEF Agrees
  <2>2. invitation[i] \in InvitationRow /\ message[i] \in MessageRow
    BY <1>1 DEF Rows
  <2>3. ASSUME Open(i, now), e \notin reviewers PROVE Acceptable(i, e, now)
    BY <1>1, <2>3, OpenMail DEF Acceptable
  <2>4. ASSUME Open(i, now), e \notin reviewers, NEW signedIn \in {NoEmail} \cup (accounts \cap {e})
        PROVE  \E button \in ConnectedReviewerInvitation(i, now, signedIn) : Takes(i, now, e, button)
    <3>1. CASE signedIn = e
      <4>1. e \in accounts
        BY <2>1, <2>4, <3>1
      <4>2. "accept" \in ConnectedReviewerInvitation(i, now, signedIn)
        BY <2>1, <2>4, <3>1 DEF ConnectedReviewerInvitation
      <4>3. Takes(i, now, e, "accept")
        BY <2>3, <2>4, <4>1 DEF Takes
      <4> QED BY <4>2, <4>3
    <3>2. CASE signedIn = NoEmail
      <4>1. ConnectedReviewerInvitation(i, now, signedIn) = {"register", "sign in and accept"}
        BY <2>1, <2>4, <3>2 DEF ConnectedReviewerInvitation
      <4>2. e \in accounts => Takes(i, now, e, "sign in and accept")
        BY <2>3, <2>4 DEF Takes
      <4>3. e \notin accounts => Takes(i, now, e, "register")
        BY <2>3, <2>4 DEF Takes
      <4> QED BY <4>1, <4>2, <4>3
    <3> QED BY <2>4, <3>1, <3>2
  <2>5. ASSUME NEW j \in ReviewerInvitationPanel(now)
        PROVE  j \in Invitation /\ Open(j, now)
    <3>1. j \in Invitation /\ projection(j, now).state = "pending"
      BY <2>5 DEF ReviewerInvitationPanel
    <3>2. invitation[j] \in InvitationRow
      BY <1>1, <3>1 DEF Rows
    <3>3. projection(j, now).state =
            IF Pending(j) /\ invitation[j].expires <= now THEN "expired" ELSE invitation[j].state
      BY DEF projection
    <3> QED BY <3>1, <3>2, <3>3 DEF Open, Pending, InvitationRow, Times
  <2>6. i \in ReviewerInvitationPanel(now) => Takes(i, now, e, "revoke")
    BY <1>1, <2>5, OpenMail DEF Takes
  <2>7. ASSUME \A j \in ReviewerInvitationPanel(now) : invitation[j].email # e,
               e \notin reviewers
        PROVE  Takes(i, now, e, "create")
    <3>1. ASSUME NEW j \in Invitation, Pending(j), invitation[j].email = e
          PROVE  /\ invitation[j].expires <= now
                 /\ OutboxAgrees(MessageAfter(j, "MESSAGE_EXPIRED", now), "expired")
      <4>1. ~ (invitation[j].expires <= now) => j \in ReviewerInvitationPanel(now)
        BY <3>1 DEF ReviewerInvitationPanel, projection, Pending
      <4> QED BY <1>1, <2>7, <3>1, <4>1, OverdueMail
    <3> QED BY <2>7, <3>1 DEF Takes
  <2>8. ASSUME projection(i, now).outbox = "suppressed" PROVE projection(i, now).state # "pending"
    <3>1. SUFFICES ASSUME projection(i, now).state = "pending" PROVE FALSE
      OBVIOUS
    <3>2. Open(i, now)
      BY <2>5, <3>1 DEF ReviewerInvitationPanel
    <3>3. message[i].state = "queued" => message[i].code = "none"
      BY <1>1, <3>2, OpenMail
    <3> QED BY <2>2, <2>8, <3>1, <3>3 DEF projection, MessageRow, MessageStates
  <2>9. projection(i, now).outbox = "queued" => projection(i, now).state = "pending"
    BY DEF projection
  <2> QED BY <2>4, <2>6, <2>7, <2>8, <2>9
<1>2. IInv => InvitationPagesWork
  BY <1>1 DEF IInv, InvitationPagesWork
<1> QED BY <1>2, Inductive, PTL
=============================================================================
