------------------------ MODULE SpeakerClaimsProofs ------------------------
(***************************************************************************)
(* Proofs about SpeakerClaims, for every set of claims, profiles, users    *)
(* and requests, and every lifetime.                                       *)
(*                                                                         *)
(* The inductive invariant relates three tables.  Agrees: a claim and the  *)
(* row of its mail.  Fits: a claim and the profile it is about, which has  *)
(* no owner while the claim is pending and the claim's own account after   *)
(* it was accepted.  OneLive: of the claims on a profile, one at most is   *)
(* pending or accepted.  That is what makes the owner unique: the batch of *)
(* an accept is rejected because of an accepted claim it can see, and      *)
(* OneLive says that there is none it cannot see.  Knows is what a request *)
(* between two statements still knows of the rows; Grows, what every step  *)
(* leaves of them.                                                         *)
(***************************************************************************)
EXTENDS ClaimScreens, TLAPS

USE ClaimAssumption

Ended == {"accepted", "revoked", "expired"}

ProfileRow == [owner : Email \cup {NoEmail}, contact : Email \cup {NoEmail}]
ClaimRow ==
  [state : ClaimStates, speaker : Speaker \cup {NoSpeaker},
   email : Email \cup {NoEmail}, expires : 0 .. Horizon + Lifetime]
MessageRow == [state : MessageStates, code : Codes, updated : Times]
RequestRow ==
  [step : Steps, claim : Claim \cup {NoClaim}, speaker : Speaker \cup {NoSpeaker},
   email : Email \cup {NoEmail}, now : Times, seen : Times]

\* A claim's row and its mail's row agree.
Agrees(row, mail) ==
  /\ row.state = "absent" =>
       row.speaker = NoSpeaker /\ mail.state = "settled" /\ mail.code = "none"
  /\ row.state # "absent" => row.speaker \in Speaker /\ row.email \in Email
  /\ row.state = "pending" /\ mail.code # "none" =>
       /\ mail.code = "MESSAGE_EXPIRED" /\ mail.state = "queued"
       /\ row.expires <= mail.updated
  /\ row.state \in Ended => mail.state = "settled" \/ mail.code # "none"
  /\ mail.code = "INVITATION_ACCEPTED" => row.state = "accepted"
  /\ mail.code = "INVITATION_REVOKED" => row.state = "revoked"
  /\ mail.code = "MESSAGE_EXPIRED" => row.state \in {"pending", "expired"}

\* A claim's row and the row of its profile do.
Fits(row, profile) ==
  /\ profile.contact # NoEmail
  /\ row.state = "pending" => profile.owner = NoEmail
  /\ row.state = "accepted" => profile.owner = row.email

Live(c) == claim[c].state \in {"pending", "accepted"}
OneLive ==
  \A c, d \in Claim : Live(c) /\ Live(d) /\ claim[c].speaker = claim[d].speaker => c = d

Typed ==
  /\ speaker \in [Speaker -> ProfileRow]
  /\ claim \in [Claim -> ClaimRow]
  /\ message \in [Claim -> MessageRow]
  /\ members \subseteq accounts /\ accounts \subseteq Email

Rows ==
  /\ Typed
  /\ \A s \in Speaker : speaker[s].contact = NoEmail => speaker[s].owner = NoEmail
  /\ \A c \in Claim : Agrees(claim[c], message[c])
  /\ \A c \in Claim : claim[c].state # "absent" => Fits(claim[c], speaker[claim[c].speaker])
  /\ \A c \in Claim : claim[c].state = "accepted" => claim[c].email \in members
  /\ OneLive

CreateSteps == {"expire", "speaker", "conflict", "insert"}
AcceptSteps == {"accept", "account", "register"}

\* The claim a request works on has been created.
Holds(q) == q.claim \in Claim /\ claim[q.claim].state # "absent"

\* What request q knows of the rows at its step.
Knows(q) ==
  /\ q.step \in CreateSteps => q.speaker \in Speaker /\ speaker[q.speaker].contact # NoEmail
  /\ q.step = "revoke" => Holds(q)
  /\ q.step \in AcceptSteps => Holds(q) /\ claim[q.claim].email = q.email
  /\ q.step = "accept" => q.email \in accounts

Requests ==
  /\ request \in [Request -> RequestRow]
  /\ \A r \in Request : Knows(request[r])

IInv == Rows /\ Requests

\* What a step may do to the row of one claim.
Evolves(old, new) ==
  \/ new = old
  \/ old.state = "absent" /\ new.state = "pending"
  \/ /\ old.state = "pending" /\ new.state \in Ended
     /\ new.email = old.email /\ new.speaker = old.speaker

\* A profile that gets an owner gets it by the accept of a claim on it.
Linked(s) ==
  /\ speaker'[s].owner = speaker[s].contact
  /\ \E c \in Claim : /\ Pending(c) /\ claim'[c].state = "accepted"
                      /\ claim[c].speaker = s
                      /\ claim[c].email = speaker'[s].owner

Grows ==
  /\ \A c \in Claim : Evolves(claim[c], claim'[c])
  /\ \A s \in Speaker :
       /\ speaker[s].contact # NoEmail => speaker'[s].contact # NoEmail
       /\ speaker[s] # NoProfile /\ speaker[s].owner = NoEmail /\ speaker'[s].owner # NoEmail
            => Linked(s)
  /\ accounts \subseteq accounts'
  /\ members \subseteq members'

(***************************************************************************)
(* Rows and operators.                                                     *)
(***************************************************************************)

\* The later of two instants is one of them, and no earlier than either.
LEMMA LaterIsTime ==
    ASSUME NEW t \in Times, NEW u \in Times
    PROVE  /\ laterTimestamp(t, u) \in Times
           /\ t <= laterTimestamp(t, u) /\ u <= laterTimestamp(t, u)
BY DEF laterTimestamp, Times

\* The first instant is one.
LEMMA FirstInstant == 0 \in Times
BY DEF Times

\* A free slot is a request's row.
LEMMA IdleRow == Idle \in RequestRow /\ Idle.step = "idle"
BY FirstInstant DEF Idle, RequestRow, Steps

\* A cancellation leaves the state of the mail alone, writes its code on a mail that
\* is still to go out and has none, and nothing on another.
LEMMA Cancels ==
    ASSUME NEW c \in Claim, message[c] \in MessageRow, NEW code \in Codes, NEW at \in Times
    PROVE  /\ MessageAfter(c, code, at) \in MessageRow
           /\ MessageAfter(c, code, at).state = message[c].state
           /\ Cancelable(c) => /\ MessageAfter(c, code, at).code = code
                               /\ MessageAfter(c, code, at).updated = at
           /\ ~ Cancelable(c) => MessageAfter(c, code, at) = message[c]
BY DEF MessageAfter, MessageRow, Cancelable

\* A profile exists when it has an address.
LEMMA Exists ==
    ASSUME Rows, NEW s \in Speaker
    PROVE  speaker[s] = NoProfile <=> speaker[s].contact = NoEmail
<1>1. speaker[s] \in ProfileRow /\ (speaker[s].contact = NoEmail => speaker[s].owner = NoEmail)
  BY DEF Rows, Typed
<1> QED BY <1>1 DEF ProfileRow, NoProfile

\* What a request knows stays true while the rows only grow.
LEMMA StillKnows ==
    ASSUME Rows, Grows, NEW q \in RequestRow, Knows(q)
    PROVE  Knows(q)'
<1>1. ASSUME Holds(q)
      PROVE  Holds(q)' /\ claim'[q.claim].email = claim[q.claim].email
  BY <1>1 DEF Holds, Grows, Evolves, Ended
<1>2. q.email \in accounts => q.email \in accounts'
  BY DEF Grows
<1>3. ASSUME q.speaker \in Speaker, speaker[q.speaker].contact # NoEmail
      PROVE  speaker'[q.speaker].contact # NoEmail
  BY <1>3 DEF Grows
<1> QED BY <1>1, <1>2, <1>3 DEF Knows, AcceptSteps

\* The requests that a step does not touch keep what they know.
LEMMA Others ==
    ASSUME IInv, Grows, NEW s \in Request, request'[s] = request[s]
    PROVE  Knows(request[s])'
<1> DEFINE p == request[s]
<1>1. request'[s] = p /\ p \in RequestRow /\ Knows(p)
  BY DEF IInv, Requests
<1> HIDE DEF p
<1>2. \A x \in RequestRow : x = p => Knows(x)'
  BY <1>1, StillKnows DEF IInv
<1> QED BY <1>1, <1>2 DEF Knows, Holds

\* A step of one request that leaves it knowing what its new step needs.
LEMMA OneRequest ==
    ASSUME IInv, Rows', Grows, NEW r \in Request, NEW q \in RequestRow, Knows(q)',
           request' = [request EXCEPT ![r] = q]
    PROVE  IInv'
<1>1. request' \in [Request -> RequestRow]
  BY DEF IInv, Requests
<1>2. ASSUME NEW s \in Request PROVE Knows(request[s])'
  <2>1. CASE s = r
    <3>1. request'[s] = q
      BY <2>1 DEF IInv, Requests
    <3> QED BY <3>1 DEF Knows, Holds
  <2>2. CASE s # r
    <3>1. request'[s] = request[s]
      BY <2>2 DEF IInv, Requests
    <3> QED BY <3>1, Others
  <2> QED BY <2>1, <2>2
<1> QED BY <1>1, <1>2 DEF IInv, Requests

\* A step that ends a request.
LEMMA OneEnd ==
    ASSUME IInv, Rows', Grows, NEW r \in Request, End(r)
    PROVE  IInv'
<1>1. PICK q \in RequestRow : q = Idle
  BY IdleRow
<1>2. Knows(q)'
  BY <1>1, IdleRow DEF Knows, CreateSteps, AcceptSteps
<1> QED BY <1>1, <1>2, OneRequest DEF End

\* A step on the rows alone.
LEMMA OnlyRows ==
    ASSUME IInv, Rows', Grows, UNCHANGED request
    PROVE  IInv'
BY Others DEF IInv, Requests

\* A step that leaves the rows alone.
LEMMA SameRows ==
    ASSUME Rows, UNCHANGED rows
    PROVE  Rows' /\ Grows
<1>1. Rows'
  BY DEF rows, Rows, Typed, OneLive, Live
<1>2. Grows
  BY DEF rows, Grows, Evolves
<1> QED BY <1>1, <1>2

LEMMA OnlyRequest ==
    ASSUME IInv, UNCHANGED rows, NEW r \in Request, NEW q \in RequestRow, Knows(q),
           request' = [request EXCEPT ![r] = q]
    PROVE  IInv' /\ Grows
<1>1. Rows' /\ Grows
  BY SameRows DEF IInv
<1>2. Knows(q)'
  BY DEF rows, Knows, Holds
<1> QED BY <1>1, <1>2, OneRequest

(***************************************************************************)
(* The steps of a request that write no row.                               *)
(***************************************************************************)

\* A request ends.
LEMMA Ends ==
    ASSUME IInv, UNCHANGED rows, NEW r \in Request, End(r)
    PROVE  IInv' /\ Grows
BY SameRows, OneEnd DEF IInv

\* A request goes on to a step that needs no more than it knows.
LEMMA Goes ==
    ASSUME IInv, UNCHANGED rows, NEW r \in Request, NEW step \in Steps, Goto(r, step),
           \/ request[r].step \in CreateSteps /\ step \in CreateSteps
           \/ request[r].step \in AcceptSteps /\ step \in AcceptSteps \ {"accept"}
    PROVE  IInv' /\ Grows
<1>1. request[r] \in RequestRow /\ Knows(request[r])
  BY DEF IInv, Requests
<1>2. PICK q \in RequestRow : q = [request[r] EXCEPT !.step = step]
  BY <1>1 DEF RequestRow
<1>3. Knows(q)
  BY <1>1, <1>2 DEF RequestRow, Knows, Holds, CreateSteps, AcceptSteps
<1>4. request' = [request EXCEPT ![r] = q]
  BY <1>2 DEF Goto, IInv, Requests
<1> QED BY <1>3, <1>4, OnlyRequest

\* A request begins with what it has read.
LEMMA Begins ==
    ASSUME IInv, NEW r \in Request, Begin(r)
    PROVE  IInv' /\ Grows
<1>1. UNCHANGED rows
  BY DEF Begin, BeginCreate, BeginRevoke, BeginAccept, BeginRegister
<1> DEFINE Known(q) == q \in RequestRow /\ Knows(q)
<1>2. ASSUME NEW s \in Speaker, BeginCreate(r, s)
      PROVE  \E q : Known(q) /\ request' = [request EXCEPT ![r] = q]
  <2>1. PICK now \in Times :
          request' = [request EXCEPT ![r] =
                        [Idle EXCEPT !.step = "expire", !.speaker = s, !.now = now]]
    BY <1>2 DEF BeginCreate, Start
  <2>2. speaker[s].contact # NoEmail
    BY <1>2, Exists DEF BeginCreate, IInv
  <2>3. Known([Idle EXCEPT !.step = "expire", !.speaker = s, !.now = now])
    BY <2>2, FirstInstant DEF Idle, RequestRow, Knows, Steps, CreateSteps, AcceptSteps
  <2> QED BY <2>1, <2>3
<1>3. ASSUME NEW c \in Claim, Pending(c)
      PROVE  /\ claim[c].state # "absent" /\ claim[c].email \in Email
             /\ message[c].updated \in Times
  <2>1. Agrees(claim[c], message[c]) /\ message[c] \in MessageRow
    BY DEF IInv, Rows, Typed
  <2> QED BY <1>3, <2>1 DEF Agrees, Pending, MessageRow
<1>4. ASSUME NEW c \in Claim, BeginRevoke(r, c)
      PROVE  \E q : Known(q) /\ request' = [request EXCEPT ![r] = q]
  <2>1. PICK now \in Times :
          /\ Open(c, now)
          /\ request' = [request EXCEPT ![r] =
               [Idle EXCEPT !.step = "revoke", !.claim = c, !.now = now,
                            !.seen = message[c].updated]]
    BY <1>4 DEF BeginRevoke, Start
  <2>2. Known([Idle EXCEPT !.step = "revoke", !.claim = c, !.now = now,
                           !.seen = message[c].updated])
    BY <1>3, <2>1 DEF Open, Idle, RequestRow, Knows, Holds, Steps, CreateSteps, AcceptSteps
  <2> QED BY <2>1, <2>2
<1>5. ASSUME NEW c \in Claim, NEW e \in Email, BeginAccept(r, c, e)
      PROVE  \E q : Known(q) /\ request' = [request EXCEPT ![r] = q]
  <2>1. PICK now \in Times :
          /\ Claimable(c, now) /\ claim[c].email = e /\ e \in accounts
          /\ request' = [request EXCEPT ![r] =
               [Idle EXCEPT !.step = "accept", !.claim = c, !.email = e, !.now = now,
                            !.seen = message[c].updated]]
    BY <1>5 DEF BeginAccept, Start
  <2>2. Known([Idle EXCEPT !.step = "accept", !.claim = c, !.email = e, !.now = now,
                           !.seen = message[c].updated])
    BY <1>3, <2>1
       DEF Claimable, Open, Idle, RequestRow, Knows, Holds, Steps, CreateSteps, AcceptSteps
  <2> QED BY <2>1, <2>2
<1>6. ASSUME NEW c \in Claim, BeginRegister(r, c)
      PROVE  \E q : Known(q) /\ request' = [request EXCEPT ![r] = q]
  <2>1. PICK now \in Times :
          /\ Claimable(c, now)
          /\ request' = [request EXCEPT ![r] =
               [Idle EXCEPT !.step = "account", !.claim = c, !.email = claim[c].email,
                            !.now = now, !.seen = message[c].updated]]
    BY <1>6 DEF BeginRegister, Start
  <2>2. Known([Idle EXCEPT !.step = "account", !.claim = c, !.email = claim[c].email,
                           !.now = now, !.seen = message[c].updated])
    BY <1>3, <2>1
       DEF Claimable, Open, Idle, RequestRow, Knows, Holds, Steps, CreateSteps, AcceptSteps
  <2> QED BY <2>1, <2>2
<1>7. PICK q : Known(q) /\ request' = [request EXCEPT ![r] = q]
  BY <1>2, <1>4, <1>5, <1>6 DEF Begin
<1> QED BY <1>1, <1>7, OnlyRequest

\* A create reads the address of its profile.
LEMMA Reads ==
    ASSUME IInv, NEW r \in Request, ReadSpeaker(r)
    PROVE  IInv' /\ Grows
<1>1. At(r, "speaker") /\ UNCHANGED rows
  BY DEF ReadSpeaker
<1>2. request[r] \in RequestRow /\ Knows(request[r])
  BY DEF IInv, Requests
<1> DEFINE row == speaker[request[r].speaker]
<1>3. request[r].speaker \in Speaker /\ row \in ProfileRow
  BY <1>1, <1>2 DEF At, Knows, CreateSteps, IInv, Rows, Typed
<1>4. CASE request' = [request EXCEPT ![r].step = "conflict", ![r].email = row.contact]
  <2>1. PICK q \in RequestRow : q = [request[r] EXCEPT !.step = "conflict", !.email = row.contact]
    BY <1>2, <1>3 DEF RequestRow, ProfileRow, Steps
  <2>2. Knows(q)
    BY <1>1, <1>2, <2>1 DEF At, RequestRow, Knows, CreateSteps, AcceptSteps
  <2>3. request' = [request EXCEPT ![r] = q]
    BY <1>4, <2>1 DEF IInv, Requests
  <2> QED BY <1>1, <2>2, <2>3, OnlyRequest
<1>5. CASE End(r)
  BY <1>1, <1>5, Ends
<1> QED BY <1>4, <1>5 DEF ReadSpeaker

(***************************************************************************)
(* The steps that write claims.                                            *)
(***************************************************************************)

\* Claims that end without being accepted, with their mail, break nothing else.
LEMMA ClaimsEnd ==
    ASSUME Rows, UNCHANGED <<speaker, accounts, members>>,
           claim' \in [Claim -> ClaimRow], message' \in [Claim -> MessageRow],
           \A c \in Claim : Agrees(claim'[c], message'[c]),
           \A c \in Claim :
             \/ claim'[c] = claim[c]
             \/ /\ claim[c].state = "pending" /\ claim'[c].state \in Ended \ {"accepted"}
                /\ claim'[c].email = claim[c].email /\ claim'[c].speaker = claim[c].speaker
    PROVE  Rows' /\ Grows
<1>1. Typed'
  BY DEF Rows, Typed
<1>2. \A c \in Claim : claim'[c].state # "absent" => Fits(claim'[c], speaker'[claim'[c].speaker])
  BY DEF Rows, Fits, Ended
<1>3. \A c \in Claim : claim'[c].state = "accepted" => claim'[c].email \in members'
  BY DEF Rows, Ended
<1>4. OneLive'
  <2>1. ASSUME NEW c \in Claim, Live(c)' PROVE Live(c) /\ claim'[c] = claim[c]
    BY <2>1 DEF Live, Ended
  <2> QED BY <2>1 DEF Rows, OneLive
<1>5. Grows
  BY DEF Grows, Evolves, Ended
<1> QED BY <1>1, <1>2, <1>3, <1>4, <1>5 DEF Rows

\* A pending claim that ends, and the mail that ends with it.
LEMMA MailAfterEnd ==
    ASSUME Rows, NEW c \in Claim, Pending(c), NEW at \in Times,
           NEW state, NEW code, NEW row \in ClaimRow,
           row.state = state, row.email = claim[c].email, row.speaker = claim[c].speaker,
           \/ state = "accepted" /\ code = "INVITATION_ACCEPTED"
           \/ state = "revoked" /\ code = "INVITATION_REVOKED"
           \/ state = "expired" /\ code = "MESSAGE_EXPIRED",
           OutboxAgrees(MessageAfter(c, code, at), code)
    PROVE  /\ MessageAfter(c, code, at) \in MessageRow
           /\ Agrees(row, MessageAfter(c, code, at))
<1> DEFINE mail == MessageAfter(c, code, at)
<1>1. message[c] \in MessageRow /\ Agrees(claim[c], message[c])
  BY DEF Rows, Typed
<1>2. code \in Codes
  BY DEF Codes
<1>3. mail \in MessageRow /\ mail.state = message[c].state
  BY <1>1, <1>2, Cancels
<1>4. mail.state = "settled" \/ mail.code = code
  BY DEF OutboxAgrees
<1>5. mail.code = code \/ (mail.code = "none" /\ mail.state = "settled")
  <2>1. CASE Cancelable(c)
    BY <1>1, <1>2, <2>1, Cancels
  <2>2. CASE ~ Cancelable(c)
    <3>1. mail = message[c]
      BY <1>1, <1>2, <2>2, Cancels
    <3> HIDE DEF mail
    <3> QED BY <1>1, <1>4, <2>2, <3>1 DEF Agrees, Pending, Cancelable, MessageRow, MessageStates
  <2> QED BY <2>1, <2>2
<1>6. row.speaker \in Speaker /\ row.email \in Email
  BY <1>1 DEF Agrees, Pending
<1> HIDE DEF mail
<1>7. Agrees(row, mail)
  BY <1>3, <1>5, <1>6 DEF Agrees, Ended
<1> QED BY <1>3, <1>7 DEF mail

\* The overdue claims of a profile end with their mail.
LEMMA Expires ==
    ASSUME IInv, NEW r \in Request, ExpireOverdue(r)
    PROVE  IInv' /\ Grows
<1> DEFINE now == request[r].now
           overdue == {c \in Claim : /\ Pending(c)
                                     /\ claim[c].speaker = request[r].speaker
                                     /\ claim[c].expires <= now}
           ended(c) == [claim[c] EXCEPT !.state = "expired"]
           canceled(c) == MessageAfter(c, "MESSAGE_EXPIRED", laterTimestamp(message[c].updated, now))
<1>1. request[r] \in RequestRow /\ Knows(request[r]) /\ now \in Times
  BY DEF IInv, Requests, RequestRow
<1>2. /\ message' = [c \in Claim |-> IF c \in overdue THEN canceled(c) ELSE message[c]]
      /\ \A c \in overdue : OutboxAgrees(message'[c], "MESSAGE_EXPIRED")
      /\ claim' = [c \in Claim |-> IF c \in overdue THEN ended(c) ELSE claim[c]]
      /\ Goto(r, "speaker") /\ At(r, "expire")
      /\ UNCHANGED <<speaker, accounts, members>>
  BY DEF ExpireOverdue
<1>3. ASSUME NEW c \in Claim
      PROVE  /\ claim'[c] \in ClaimRow /\ message'[c] \in MessageRow
             /\ Agrees(claim'[c], message'[c])
             /\ \/ claim'[c] = claim[c]
                \/ /\ claim[c].state = "pending" /\ claim'[c].state \in Ended \ {"accepted"}
                   /\ claim'[c].email = claim[c].email /\ claim'[c].speaker = claim[c].speaker
  <2>1. claim[c] \in ClaimRow /\ message[c] \in MessageRow
    BY DEF IInv, Rows, Typed
  <2>2. CASE c \notin overdue
    <3>1. claim'[c] = claim[c] /\ message'[c] = message[c]
      BY <1>2, <2>2
    <3> QED BY <2>1, <3>1 DEF IInv, Rows
  <2>3. CASE c \in overdue
    <3>1. claim'[c] = ended(c) /\ message'[c] = canceled(c)
      BY <1>2, <2>3
    <3>2. laterTimestamp(message[c].updated, now) \in Times
      BY <1>1, <2>1, LaterIsTime DEF MessageRow
    <3>3. /\ ended(c) \in ClaimRow /\ ended(c).state = "expired"
          /\ ended(c).email = claim[c].email /\ ended(c).speaker = claim[c].speaker
      BY <2>1 DEF ClaimRow, ClaimStates
    <3>4. Pending(c) /\ OutboxAgrees(canceled(c), "MESSAGE_EXPIRED")
      BY <1>2, <2>3, <3>1
    <3>5. canceled(c) \in MessageRow /\ Agrees(ended(c), canceled(c))
      <4> HIDE DEF ended
      <4> QED BY <3>2, <3>3, <3>4, MailAfterEnd DEF IInv
    <3> HIDE DEF ended, canceled
    <3> QED BY <3>1, <3>3, <3>4, <3>5 DEF Pending, Ended
  <2> QED BY <2>2, <2>3
<1>4. Rows' /\ Grows
  <2>1. claim' \in [Claim -> ClaimRow] /\ message' \in [Claim -> MessageRow]
    BY <1>2, <1>3
  <2> QED BY <1>2, <1>3, <2>1, ClaimsEnd DEF IInv
<1>5. PICK q \in RequestRow : q = [request[r] EXCEPT !.step = "speaker"]
  BY <1>1 DEF RequestRow, Steps
<1>6. Knows(q)
  BY <1>1, <1>2, <1>5 DEF At, RequestRow, Knows, Holds, CreateSteps, AcceptSteps
<1>7. request' = [request EXCEPT ![r] = q]
  BY <1>2, <1>5 DEF Goto, IInv, Requests
<1>8. Knows(q)'
  BY <1>4, <1>6, StillKnows DEF IInv
<1> QED BY <1>4, <1>7, <1>8, OneRequest DEF IInv

\* A claim is inserted on a profile that has no owner and no other live claim.
LEMMA Inserts ==
    ASSUME IInv, NEW r \in Request, InsertClaim(r)
    PROVE  IInv' /\ Grows
<1>1. PICK q : q = request[r]
  OBVIOUS
<1>2. /\ q \in RequestRow /\ q.speaker \in Speaker /\ speaker[q.speaker].contact # NoEmail
      /\ End(r) /\ UNCHANGED <<speaker, accounts, members>>
  BY <1>1 DEF InsertClaim, At, IInv, Requests, Knows, CreateSteps
<1>3. CASE UNCHANGED <<claim, message>>
  BY <1>2, <1>3, Ends DEF rows
<1>4. ASSUME Insertable(q.speaker, q.email), NEW c \in Claim, claim[c].state = "absent",
             claim' = [claim EXCEPT ![c] =
               [state |-> "pending", speaker |-> q.speaker, email |-> q.email,
                expires |-> q.now + Lifetime]],
             message' = [message EXCEPT ![c] =
               [state |-> "queued", code |-> "none", updated |-> q.now]]
      PROVE  Rows' /\ Grows
  <2> DEFINE row == [state |-> "pending", speaker |-> q.speaker, email |-> q.email,
                     expires |-> q.now + Lifetime]
             mail == [state |-> "queued", code |-> "none", updated |-> q.now]
  <2>1. q.email \in Email /\ q.now \in Times
    BY <1>2, <1>4 DEF Insertable, RequestRow
  <2>2. row \in ClaimRow /\ mail \in MessageRow /\ Agrees(row, mail)
    BY <1>2, <2>1
       DEF ClaimRow, MessageRow, ClaimStates, MessageStates, Codes, Times, Agrees, Ended
  <2>3. Fits(row, speaker[q.speaker])
    BY <1>2, <1>4 DEF Fits, Insertable
  <2>4. /\ row.state = "pending" /\ row.speaker = q.speaker
        /\ claim' = [claim EXCEPT ![c] = row] /\ message' = [message EXCEPT ![c] = mail]
    BY <1>4
  <2> HIDE DEF row, mail
  <2>5. /\ claim'[c] = row /\ message'[c] = mail
        /\ \A d \in Claim \ {c} : claim'[d] = claim[d] /\ message'[d] = message[d]
        /\ claim' \in [Claim -> ClaimRow] /\ message' \in [Claim -> MessageRow]
    BY <2>2, <2>4 DEF IInv, Rows, Typed
  <2>6. Typed'
    BY <1>2, <2>5 DEF IInv, Rows, Typed
  <2>7. ASSUME NEW d \in Claim
        PROVE  /\ Agrees(claim'[d], message'[d])
               /\ claim'[d].state # "absent" => Fits(claim'[d], speaker'[claim'[d].speaker])
               /\ claim'[d].state = "accepted" => claim'[d].email \in members'
               /\ Evolves(claim[d], claim'[d])
    <3>1. CASE d = c
      BY <1>2, <1>4, <2>2, <2>3, <2>4, <2>5, <3>1 DEF Evolves
    <3>2. CASE d # c
      BY <1>2, <2>5, <3>2 DEF IInv, Rows, Evolves
    <3> QED BY <3>1, <3>2
  <2>8. ASSUME NEW d \in Claim \ {c}, Live(d), claim[d].speaker = q.speaker PROVE FALSE
    <3>1. claim[d].state # "pending"
      BY <1>4, <2>8 DEF Insertable, Taken, Pending
    <3>2. claim[d].state = "accepted" /\ claim[d].email \in Email
      BY <2>8, <3>1 DEF Live, IInv, Rows, Agrees
    <3>3. speaker[q.speaker].owner = claim[d].email
      BY <2>8, <3>2 DEF IInv, Rows, Fits
    <3> QED BY <1>4, <3>2, <3>3 DEF Insertable
  <2>9. OneLive'
    <3>1. ASSUME NEW d \in Claim \ {c}, Live(d)' PROVE Live(d)
      BY <2>5, <3>1 DEF Live
    <3> QED BY <2>4, <2>5, <2>8, <3>1 DEF IInv, Rows, OneLive
  <2>10. Rows'
    BY <1>2, <2>6, <2>7, <2>9 DEF IInv, Rows
  <2>11. Grows
    BY <1>2, <2>7 DEF Grows
  <2> QED BY <2>10, <2>11
<1>5. CASE Rows' /\ Grows
  BY <1>2, <1>5, OneEnd
<1> QED BY <1>1, <1>3, <1>4, <1>5 DEF InsertClaim

\* A revocation ends the claim and its mail, or writes nothing.
LEMMA Revokes ==
    ASSUME IInv, NEW r \in Request, CommitRevoke(r)
    PROVE  IInv' /\ Grows
<1>1. PICK c : c = request[r].claim
  OBVIOUS
<1>2. PICK at : at = laterTimestamp(request[r].now, request[r].seen)
  OBVIOUS
<1> DEFINE after == MessageAfter(c, "INVITATION_REVOKED", at)
           row == [claim[c] EXCEPT !.state = "revoked"]
<1>3. /\ c \in Claim /\ claim[c].state # "absent" /\ at \in Times
      /\ claim[c] \in ClaimRow /\ message[c] \in MessageRow
      /\ Agrees(claim[c], message[c])
  <2>1. request[r] \in RequestRow /\ Knows(request[r])
    BY DEF IInv, Requests
  <2>2. c \in Claim /\ claim[c].state # "absent"
    BY <1>1, <2>1 DEF CommitRevoke, At, Knows, Holds
  <2> QED BY <1>2, <2>1, <2>2, LaterIsTime DEF RequestRow, IInv, Rows, Typed
<1>4. End(r) /\ UNCHANGED <<speaker, accounts, members>>
  BY DEF CommitRevoke
<1>5. \/ UNCHANGED <<claim, message>>
      \/ /\ ~ Pending(c) /\ UNCHANGED claim
         /\ message' = [message EXCEPT ![c] = after]
      \/ /\ Pending(c) /\ OutboxAgrees(after, "INVITATION_REVOKED")
         /\ message' = [message EXCEPT ![c] = after]
         /\ claim' = [claim EXCEPT ![c].state = "revoked"]
  BY <1>1, <1>2 DEF CommitRevoke
<1>6. CASE UNCHANGED <<claim, message>>
  BY <1>4, <1>6, Ends DEF rows
<1>7. CASE /\ ~ Pending(c) /\ UNCHANGED claim
           /\ message' = [message EXCEPT ![c] = after]
  <2>1. ~ Cancelable(c)
    BY <1>3, <1>7 DEF Agrees, Ended, Cancelable, Pending, ClaimRow, ClaimStates
  <2>2. after = message[c]
    BY <2>1 DEF MessageAfter
  <2>3. UNCHANGED message
    BY <1>7, <2>2 DEF IInv, Rows, Typed
  <2> QED BY <1>4, <1>7, <2>3, Ends DEF rows
<1>8. CASE /\ Pending(c) /\ OutboxAgrees(after, "INVITATION_REVOKED")
           /\ message' = [message EXCEPT ![c] = after]
           /\ claim' = [claim EXCEPT ![c].state = "revoked"]
  <2>1. /\ row \in ClaimRow /\ row.state = "revoked"
        /\ row.email = claim[c].email /\ row.speaker = claim[c].speaker
    BY <1>3 DEF ClaimRow, ClaimStates
  <2>2. claim' = [claim EXCEPT ![c] = row]
    BY <1>8 DEF IInv, Rows, Typed
  <2> HIDE DEF row
  <2>3. after \in MessageRow /\ Agrees(row, after)
    BY <1>3, <1>8, <2>1, MailAfterEnd DEF IInv
  <2> HIDE DEF after
  <2>4. claim' \in [Claim -> ClaimRow] /\ message' \in [Claim -> MessageRow]
    BY <1>8, <2>1, <2>2, <2>3 DEF IInv, Rows, Typed
  <2>5. ASSUME NEW d \in Claim
        PROVE  /\ Agrees(claim'[d], message'[d])
               /\ \/ claim'[d] = claim[d]
                  \/ /\ claim[d].state = "pending" /\ claim'[d].state \in Ended \ {"accepted"}
                     /\ claim'[d].email = claim[d].email /\ claim'[d].speaker = claim[d].speaker
    <3>1. CASE d = c
      <4>1. claim'[d] = row /\ message'[d] = after
        BY <1>3, <1>8, <2>2, <3>1 DEF IInv, Rows, Typed
      <4> QED BY <1>8, <2>1, <2>3, <3>1, <4>1 DEF Ended, Pending
    <3>2. CASE d # c
      <4>1. claim'[d] = claim[d] /\ message'[d] = message[d]
        BY <1>8, <2>2, <3>2 DEF IInv, Rows, Typed
      <4> QED BY <4>1 DEF IInv, Rows
    <3> QED BY <3>1, <3>2
  <2>6. Rows' /\ Grows
    BY <1>4, <2>4, <2>5, ClaimsEnd DEF IInv
  <2> QED BY <1>4, <2>6, OneEnd
<1> QED BY <1>5, <1>6, <1>7, <1>8

\* An accepted claim was open and its profile free; now the profile is its account's,
\* and of the other claims on the profile none is live.
LEMMA AcceptedRows ==
    ASSUME IInv, NEW c \in Claim, NEW now \in Times, NEW seen \in Times,
           NEW e \in Email, claim[c].email = e,
           Acceptable(c, e, now, seen), Accepted(c, e, now, seen),
           accounts \subseteq accounts', accounts' \subseteq Email, e \in accounts'
    PROVE  Rows' /\ Grows
<1> DEFINE at == laterTimestamp(now, seen)
           mail == MessageAfter(c, "INVITATION_ACCEPTED", at)
           row == [claim[c] EXCEPT !.state = "accepted"]
<1>1. PICK s : s = claim[c].speaker
  OBVIOUS
<1>2. /\ claim[c] \in ClaimRow /\ message[c] \in MessageRow /\ Agrees(claim[c], message[c])
      /\ Pending(c) /\ s \in Speaker
      /\ speaker[s] \in ProfileRow /\ speaker[s] = [owner |-> NoEmail, contact |-> e]
      /\ at \in Times
  <2>1. claim[c] \in ClaimRow /\ message[c] \in MessageRow /\ Agrees(claim[c], message[c])
    BY DEF IInv, Rows, Typed
  <2>2. Pending(c) /\ speaker[s] = [owner |-> NoEmail, contact |-> e]
    BY <1>1 DEF Acceptable, Claimable, Open
  <2>3. s \in Speaker
    BY <1>1, <2>1, <2>2 DEF Agrees, Pending
  <2>4. speaker[s] \in ProfileRow
    BY <2>3 DEF IInv, Rows, Typed
  <2> QED BY <2>1, <2>2, <2>3, <2>4, LaterIsTime
<1>3. /\ row \in ClaimRow /\ row.state = "accepted"
      /\ row.email = e /\ row.speaker = s
  BY <1>1, <1>2 DEF ClaimRow, ClaimStates
<1>4. /\ claim' = [claim EXCEPT ![c] = row] /\ message' = [message EXCEPT ![c] = mail]
      /\ speaker' = [speaker EXCEPT ![s].owner = e] /\ members' = members \cup {e}
  BY <1>1 DEF Accepted, IInv, Rows, Typed
<1>5. mail \in MessageRow /\ Agrees(row, mail)
  <2>1. OutboxAgrees(mail, "INVITATION_ACCEPTED")
    BY DEF Acceptable
  <2> HIDE DEF row, at
  <2> QED BY <1>1, <1>2, <1>3, <2>1, MailAfterEnd DEF IInv
<1> HIDE DEF row, mail
<1>6. /\ claim'[c] = row /\ message'[c] = mail
      /\ \A d \in Claim \ {c} : claim'[d] = claim[d] /\ message'[d] = message[d]
      /\ claim' \in [Claim -> ClaimRow] /\ message' \in [Claim -> MessageRow]
  BY <1>3, <1>4, <1>5 DEF IInv, Rows, Typed
<1>7. /\ speaker'[s] = [owner |-> e, contact |-> e]
      /\ \A t \in Speaker \ {s} : speaker'[t] = speaker[t]
      /\ speaker' \in [Speaker -> ProfileRow]
  BY <1>2, <1>4 DEF IInv, Rows, Typed, ProfileRow
<1>8. Typed'
  BY <1>4, <1>6, <1>7 DEF IInv, Rows, Typed
<1>9. e # NoEmail
  OBVIOUS
<1>10. \A t \in Speaker : speaker'[t].contact = NoEmail => speaker'[t].owner = NoEmail
  BY <1>7, <1>9 DEF IInv, Rows
<1>11. ASSUME NEW d \in Claim \ {c}, claim[d].speaker = s PROVE ~ Live(d)
  BY <1>1, <1>2, <1>11 DEF IInv, Rows, OneLive, Live, Pending
<1>12. ASSUME NEW d \in Claim
       PROVE  /\ Agrees(claim'[d], message'[d])
              /\ claim'[d].state # "absent" => Fits(claim'[d], speaker'[claim'[d].speaker])
              /\ claim'[d].state = "accepted" => claim'[d].email \in members'
              /\ Evolves(claim[d], claim'[d])
  <2>1. CASE d = c
    <3>1. Fits(row, speaker'[s])
      BY <1>3, <1>7, <1>9 DEF Fits
    <3> QED BY <1>1, <1>2, <1>3, <1>4, <1>5, <1>6, <2>1, <3>1 DEF Evolves, Ended, Pending
  <2>2. CASE d # c
    <3>1. claim'[d] = claim[d] /\ message'[d] = message[d]
      BY <1>6, <2>2
    <3>2. Agrees(claim[d], message[d]) /\ claim[d] \in ClaimRow
      BY DEF IInv, Rows, Typed
    <3>3. claim[d].state # "absent" => claim[d].speaker \in Speaker /\ Fits(claim[d], speaker[claim[d].speaker])
      BY <3>2 DEF Agrees, IInv, Rows
    <3>4. CASE claim[d].speaker = s
      BY <1>7, <1>9, <1>11, <2>2, <3>1, <3>2, <3>4 DEF Fits, Live, Evolves
    <3>5. CASE claim[d].speaker # s
      BY <1>4, <1>7, <3>1, <3>2, <3>3, <3>5 DEF Evolves, IInv, Rows
    <3> QED BY <3>4, <3>5
  <2> QED BY <2>1, <2>2
<1>13. OneLive'
  <2>1. ASSUME NEW d \in Claim, Live(d)' PROVE Live(d) /\ claim'[d].speaker = claim[d].speaker
    BY <1>1, <1>2, <1>3, <1>6, <2>1 DEF Live, Pending
  <2> QED BY <2>1 DEF IInv, Rows, OneLive
<1>14. Rows'
  BY <1>8, <1>10, <1>12, <1>13 DEF Rows
<1>15. Linked(s)
  BY <1>1, <1>2, <1>3, <1>6, <1>7 DEF Linked
<1>16. Grows
  BY <1>4, <1>7, <1>9, <1>12, <1>15 DEF Grows
<1> QED BY <1>14, <1>16

LEMMA AcceptCommits ==
    ASSUME IInv, NEW r \in Request, CommitAccept(r)
    PROVE  IInv' /\ Grows
<1>1. PICK now \in request[r].now .. Horizon : StampAndAccept(r, now)
  BY DEF CommitAccept
<1>2. At(r, "accept") /\ End(r) /\ UNCHANGED accounts
  BY DEF CommitAccept
<1>3. PICK c, e, seen : c = request[r].claim /\ e = request[r].email /\ seen = request[r].seen
  OBVIOUS
<1>4. /\ c \in Claim /\ claim[c].email = e /\ e \in accounts
      /\ request[r] \in RequestRow
  BY <1>2, <1>3 DEF At, IInv, Requests, Knows, Holds, AcceptSteps
<1>5. now \in Times /\ seen \in Times
  BY <1>3, <1>4 DEF RequestRow, Times
<1>6. CASE Acceptable(c, e, now, seen) /\ Accepted(c, e, now, seen)
  <2>1. Rows' /\ Grows
    BY <1>2, <1>4, <1>5, <1>6, AcceptedRows DEF IInv, Rows, Typed
  <2> QED BY <1>2, <2>1, OneEnd
<1>7. CASE UNCHANGED <<speaker, claim, message, members>>
  BY <1>2, <1>7, Ends DEF rows
<1> QED BY <1>1, <1>3, <1>6, <1>7 DEF StampAndAccept

LEMMA RegisterCommits ==
    ASSUME IInv, NEW r \in Request, CommitRegister(r)
    PROVE  IInv' /\ Grows
<1>1. PICK now \in request[r].now .. Horizon : StampAndRegister(r, now)
  BY DEF CommitRegister
<1>2. At(r, "register") /\ End(r)
  BY DEF CommitRegister
<1>3. PICK c, e, seen : c = request[r].claim /\ e = request[r].email /\ seen = request[r].seen
  OBVIOUS
<1>4. /\ c \in Claim /\ claim[c].state # "absent" /\ claim[c].email = e
      /\ request[r] \in RequestRow
  BY <1>2, <1>3 DEF At, IInv, Requests, Knows, Holds, AcceptSteps
<1>5. now \in Times /\ seen \in Times /\ e \in Email
  BY <1>3, <1>4 DEF RequestRow, Times, IInv, Rows, Agrees
<1>6. CASE /\ Acceptable(c, e, now, seen) /\ Accepted(c, e, now, seen)
           /\ accounts' = accounts \cup {e}
  <2>1. Rows' /\ Grows
    BY <1>4, <1>5, <1>6, AcceptedRows DEF IInv, Rows, Typed
  <2> QED BY <1>2, <2>1, OneEnd
<1>7. CASE UNCHANGED rows
  BY <1>2, <1>7, Ends
<1> QED BY <1>1, <1>3, <1>6, <1>7 DEF StampAndRegister

(***************************************************************************)
(* The rest of the system, and every step.                                 *)
(***************************************************************************)

\* A profile that is added, or given another address, keeps the owner it has; nobody
\* has claimed one that did not exist.
LEMMA OneProfile ==
    ASSUME Rows, NEW s \in Speaker, NEW row \in ProfileRow, row.contact # NoEmail,
           speaker' = [speaker EXCEPT ![s] = row],
           row.owner = speaker[s].owner \/ speaker[s] = NoProfile,
           UNCHANGED <<claim, message>>,
           accounts \subseteq accounts', members \subseteq members',
           members' \subseteq accounts', accounts' \subseteq Email
    PROVE  Rows' /\ Grows
<1>1. /\ speaker'[s] = row
      /\ \A t \in Speaker \ {s} : speaker'[t] = speaker[t]
      /\ speaker' \in [Speaker -> ProfileRow]
  BY DEF Rows, Typed
<1>2. Typed'
  BY <1>1 DEF Rows, Typed
<1>3. \A t \in Speaker : speaker'[t].contact = NoEmail => speaker'[t].owner = NoEmail
  BY <1>1 DEF Rows
<1>4. ASSUME NEW c \in Claim, claim[c].state # "absent"
      PROVE  Fits(claim[c], speaker'[claim[c].speaker])
  <2>1. claim[c].speaker \in Speaker /\ Fits(claim[c], speaker[claim[c].speaker])
    BY <1>4 DEF Rows, Agrees
  <2>2. CASE claim[c].speaker = s
    <3>1. row.owner = speaker[s].owner
      BY <2>1, <2>2 DEF Fits, NoProfile
    <3> QED BY <1>1, <2>1, <2>2, <3>1 DEF Fits
  <2>3. CASE claim[c].speaker # s
    BY <1>1, <2>1, <2>3
  <2> QED BY <2>2, <2>3
<1>5. OneLive'
  BY DEF Rows, OneLive, Live
<1>6. Rows'
  BY <1>2, <1>3, <1>4, <1>5 DEF Rows
<1>7. Grows
  BY <1>1 DEF Grows, Evolves
<1> QED BY <1>6, <1>7

\* Whatever else happens to profiles and accounts.
LEMMA Profiles ==
    ASSUME IInv, NEW s \in Speaker, NEW e \in Email,
           \/ ChangeContact(s, e) \/ ProfileWithoutAccount(s, e)
           \/ RegisterByCfp(s, e) \/ JoinByProposal(s, e)
    PROVE  IInv' /\ Grows
<1>1. e # NoEmail /\ speaker[s] \in ProfileRow
  BY DEF IInv, Rows, Typed
<1>2. UNCHANGED <<claim, message, request>>
  BY DEF ChangeContact, ProfileWithoutAccount, RegisterByCfp, JoinByProposal
<1>3. /\ accounts \subseteq accounts' /\ members \subseteq members'
      /\ members' \subseteq accounts' /\ accounts' \subseteq Email
  BY DEF ChangeContact, ProfileWithoutAccount, RegisterByCfp, JoinByProposal, IInv, Rows, Typed
<1>4. ASSUME NEW row \in ProfileRow, row.contact = e,
             speaker' = [speaker EXCEPT ![s] = row],
             row.owner = speaker[s].owner \/ speaker[s] = NoProfile
      PROVE  Rows' /\ Grows
  BY <1>1, <1>2, <1>3, <1>4, OneProfile DEF IInv
<1>5. CASE speaker' = [speaker EXCEPT ![s].contact = e]
  <2>1. PICK row \in ProfileRow : row = [speaker[s] EXCEPT !.contact = e]
    BY <1>1 DEF ProfileRow
  <2>2. row.contact = e /\ row.owner = speaker[s].owner
    BY <1>1, <2>1 DEF ProfileRow
  <2>3. speaker' = [speaker EXCEPT ![s] = row]
    BY <1>5, <2>1 DEF IInv, Rows, Typed
  <2>4. Rows' /\ Grows
    BY <1>4, <2>2, <2>3
  <2> QED BY <1>2, <2>4, OnlyRows
<1>6. CASE ProfileOf(s, e)
  <2>1. PICK row \in ProfileRow : row = [owner |-> e, contact |-> e]
    BY DEF ProfileRow
  <2>2. row.contact = e /\ speaker' = [speaker EXCEPT ![s] = row] /\ speaker[s] = NoProfile
    BY <1>6, <2>1 DEF ProfileOf
  <2>3. Rows' /\ Grows
    BY <1>4, <2>2
  <2> QED BY <1>2, <2>3, OnlyRows
<1>7. CASE UNCHANGED speaker
  <2>1. Rows'
    BY <1>2, <1>3, <1>7 DEF IInv, Rows, Typed, OneLive, Live
  <2>2. Grows
    BY <1>2, <1>3, <1>7 DEF Grows, Evolves
  <2> QED BY <1>2, <2>1, <2>2, OnlyRows
<1> QED BY <1>5, <1>6, <1>7
        DEF ChangeContact, ProfileWithoutAccount, RegisterByCfp, JoinByProposal

\* An account is opened elsewhere.
LEMMA Opens ==
    ASSUME IInv, NEW e \in Email, OpenAccount(e)
    PROVE  IInv' /\ Grows
<1>1. Rows'
  BY DEF OpenAccount, IInv, Rows, Typed, OneLive, Live
<1>2. Grows /\ UNCHANGED request
  BY DEF OpenAccount, Grows, Evolves
<1> QED BY <1>1, <1>2, OnlyRows

\* The dispatcher writes a mail that the claim still agrees with.
LEMMA Mails ==
    ASSUME IInv, NEW c \in Claim, NEW now \in Times, NEW s \in {"queued", "settled"},
           LeaseMessage(c, now) \/ SettleMessage(c, s) \/ ExpireMessage(c, now)
    PROVE  IInv' /\ Grows
<1>1. /\ claim[c] \in ClaimRow /\ message[c] \in MessageRow /\ Agrees(claim[c], message[c])
  BY DEF IInv, Rows, Typed
<1>2. UNCHANGED <<speaker, claim, accounts, members, request>>
  BY DEF LeaseMessage, SettleMessage, ExpireMessage
<1>3. ASSUME NEW mail \in MessageRow, message' = [message EXCEPT ![c] = mail],
             Agrees(claim[c], mail)
      PROVE  IInv' /\ Grows
  <2>1. message' \in [Claim -> MessageRow] /\ claim' \in [Claim -> ClaimRow]
    BY <1>2, <1>3 DEF IInv, Rows, Typed
  <2>2. \A d \in Claim : Agrees(claim'[d], message'[d])
    BY <1>2, <1>3 DEF IInv, Rows, Typed
  <2>3. Rows' /\ Grows
    BY <1>2, <2>1, <2>2, ClaimsEnd DEF IInv
  <2> QED BY <1>2, <2>3, OnlyRows
<1>4. CASE LeaseMessage(c, now)
  <2> DEFINE mail == [message[c] EXCEPT !.state = "leased", !.updated = now]
  <2>1. /\ mail \in MessageRow /\ mail.state = "leased" /\ mail.code = "none"
        /\ message[c].code = "none" /\ message[c].state = "queued"
    BY <1>1, <1>4 DEF LeaseMessage, MessageRow, MessageStates
  <2>2. message' = [message EXCEPT ![c] = mail]
    BY <1>4 DEF LeaseMessage, IInv, Rows, Typed
  <2> HIDE DEF mail
  <2>3. Agrees(claim[c], mail)
    BY <1>1, <2>1 DEF Agrees, Ended
  <2> QED BY <1>3, <2>1, <2>2, <2>3
<1>5. CASE SettleMessage(c, s)
  <2> DEFINE mail == [message[c] EXCEPT !.state = s]
  <2>1. /\ mail \in MessageRow /\ mail.state = s /\ mail.code = message[c].code
        /\ mail.updated = message[c].updated /\ message[c].state = "leased"
    BY <1>1, <1>5 DEF SettleMessage, MessageRow, MessageStates
  <2>2. message' = [message EXCEPT ![c] = mail]
    BY <1>5 DEF SettleMessage, IInv, Rows, Typed
  <2> HIDE DEF mail
  <2>3. Agrees(claim[c], mail)
    BY <1>1, <2>1 DEF Agrees
  <2> QED BY <1>3, <2>1, <2>2, <2>3
<1>6. CASE ExpireMessage(c, now)
  <2> DEFINE mail == [message[c] EXCEPT !.code = "MESSAGE_EXPIRED", !.updated = now]
  <2>1. /\ mail \in MessageRow /\ mail.state = "queued" /\ mail.code = "MESSAGE_EXPIRED"
        /\ mail.updated = now /\ claim[c].expires <= now
        /\ message[c].code = "none" /\ message[c].state = "queued"
    BY <1>1, <1>6 DEF ExpireMessage, MessageRow, Codes
  <2>2. message' = [message EXCEPT ![c] = mail]
    BY <1>6 DEF ExpireMessage, IInv, Rows, Typed
  <2>3. claim[c].state \in {"pending"}
    BY <1>1, <1>6, <2>1 DEF ExpireMessage, Agrees, Ended, ClaimRow, ClaimStates
  <2> HIDE DEF mail
  <2>4. Agrees(claim[c], mail)
    BY <1>1, <2>1, <2>3 DEF Agrees, Ended
  <2> QED BY <1>3, <2>1, <2>2, <2>4
<1> QED BY <1>4, <1>5, <1>6

\* The invariant holds of an empty event, and every step keeps it while the rows grow.
LEMMA InvInit == Init => IInv
<1> SUFFICES ASSUME Init PROVE IInv
  OBVIOUS
<1>1. /\ NoRow \in ClaimRow /\ NoRow.state = "absent" /\ NoRow.speaker = NoSpeaker
      /\ NoProfile \in ProfileRow /\ NoProfile.owner = NoEmail
  BY DEF NoRow, ClaimRow, ClaimStates, NoProfile, ProfileRow
<1>2. Typed
  BY <1>1, FirstInstant DEF Init, Typed, MessageRow, MessageStates, Codes
<1>3. ASSUME NEW c \in Claim
      PROVE  /\ claim[c].state = "absent" /\ claim[c].speaker = NoSpeaker
             /\ message[c].state = "settled" /\ message[c].code = "none"
  BY <1>1 DEF Init
<1>4. ASSUME NEW c \in Claim PROVE Agrees(claim[c], message[c])
  BY <1>3 DEF Agrees, Ended
<1>5. \A s \in Speaker : speaker[s].owner = NoEmail
  BY <1>1 DEF Init
<1>6. OneLive
  BY <1>3 DEF OneLive, Live
<1>7. Rows
  BY <1>2, <1>3, <1>4, <1>5, <1>6 DEF Rows
<1>8. Requests
  BY IdleRow DEF Init, Requests, Knows, CreateSteps, AcceptSteps
<1> QED BY <1>7, <1>8 DEF IInv

LEMMA InvNext ==
    ASSUME IInv, [Next]_vars
    PROVE  IInv' /\ Grows
<1>1. ASSUME NEW r \in Request, Continue(r) PROVE IInv' /\ Grows
  <2>1. CASE CheckConflict(r)
    BY <2>1, Ends, Goes DEF CheckConflict, At, CreateSteps, Steps
  <2>2. CASE CheckAccount(r)
    BY <2>2, Ends, Goes DEF CheckAccount, At, AcceptSteps, Steps
  <2> QED BY <1>1, <2>1, <2>2, Expires, Reads, Inserts, Revokes, AcceptCommits, RegisterCommits
          DEF Continue
<1>2. CASE \E s \in Speaker, e \in Email :
             \/ ChangeContact(s, e)
             \/ IngestRow(s, e) \/ AddCoPresenter(s, e)
             \/ RegisterByCfp(s, e) \/ JoinByProposal(s, e)
  BY <1>2, Profiles DEF IngestRow, AddCoPresenter
<1>3. CASE \E c \in Claim, now \in Times : LeaseMessage(c, now) \/ ExpireMessage(c, now)
  BY <1>3, Mails
<1>4. CASE \E c \in Claim, s \in {"queued", "settled"} : SettleMessage(c, s)
  BY <1>4, FirstInstant, Mails
<1>5. CASE UNCHANGED vars
  <2>1. UNCHANGED rows /\ UNCHANGED request
    BY <1>5 DEF vars, rows
  <2> QED BY <2>1, SameRows, OnlyRows DEF IInv
<1> QED BY <1>1, <1>2, <1>3, <1>4, <1>5, Begins, Opens DEF Next, Elsewhere

LEMMA Inductive == Spec => []IInv
<1>1. IInv /\ [Next]_vars => IInv'
  BY InvNext
<1> QED BY <1>1, InvInit, PTL DEF Spec

(***************************************************************************)
(* The properties.                                                         *)
(***************************************************************************)

LEMMA Types == IInv => TypeOK
BY DEF IInv, Rows, Typed, Requests, TypeOK, ProfileRow, ClaimRow, MessageRow, RequestRow

\* Every variable keeps its type, and a speaker has an account.
THEOREM TypeCorrect == Spec => []TypeOK
BY Types, Inductive, PTL

\* The account that accepted a claim owns the profile, and no other claim on it is or
\* will be accepted.
THEOREM AcceptedOwns == Spec => []AcceptedClaimOwns
<1>1. ASSUME IInv, NEW c \in Claim, claim[c].state = "accepted"
      PROVE  /\ speaker[claim[c].speaker].owner = claim[c].email
             /\ claim[c].email \in members
             /\ \A d \in Claim : claim[d].speaker = claim[c].speaker
                  => d = c \/ claim[d].state \in {"revoked", "expired"}
  <2>1. /\ speaker[claim[c].speaker].owner = claim[c].email
        /\ claim[c].email \in members
        /\ claim[c].speaker \in Speaker
    BY <1>1 DEF IInv, Rows, Fits, Agrees
  <2>2. ASSUME NEW d \in Claim, claim[d].speaker = claim[c].speaker, d # c
        PROVE  claim[d].state \in {"revoked", "expired"}
    <3>1. ~ Live(d)
      BY <1>1, <2>2 DEF IInv, Rows, OneLive, Live
    <3>2. claim[d].state # "absent"
      BY <1>1, <2>1, <2>2 DEF IInv, Rows, Agrees
    <3>3. claim[d] \in ClaimRow
      BY <1>1 DEF IInv, Rows, Typed
    <3> QED BY <3>1, <3>2, <3>3 DEF Live, ClaimRow, ClaimStates
  <2> QED BY <2>1, <2>2
<1>2. IInv => AcceptedClaimOwns
  BY <1>1, Types DEF AcceptedClaimOwns
<1> QED BY <1>2, Inductive, PTL

\* A claim and its mail end together, whichever of the requests, the dispatcher and
\* the expiry sweep is first to either row.
THEOREM MailEnds == Spec => []MailEndsWithClaim
<1>1. ASSUME IInv, NEW c \in Claim
      PROVE  /\ claim[c].state \in {"accepted", "revoked", "expired"} => ~ Cancelable(c)
             /\ message[c].code = "INVITATION_ACCEPTED" => claim[c].state = "accepted"
             /\ message[c].code = "INVITATION_REVOKED" => claim[c].state = "revoked"
             /\ message[c].code = "MESSAGE_EXPIRED" => claim[c].state \in {"pending", "expired"}
  <2>1. Agrees(claim[c], message[c])
    BY <1>1 DEF IInv, Rows
  <2> QED BY <2>1 DEF Agrees, Ended, Cancelable
<1>2. IInv => MailEndsWithClaim
  BY <1>1 DEF MailEndsWithClaim
<1> QED BY <1>2, Inductive, PTL

\* A profile that exists is linked by the accept of a pending claim only, for the
\* address it has at that moment.
THEOREM Linking == Spec => LinkedAtCurrentAddress
<1> DEFINE ByAccept ==
      \A s \in Speaker :
        speaker[s] # NoProfile /\ speaker[s].owner = NoEmail /\ speaker'[s].owner # NoEmail =>
          /\ speaker'[s].owner = speaker[s].contact
          /\ \E c \in Claim : /\ Pending(c) /\ claim'[c].state = "accepted"
                              /\ claim[c].speaker = s
                              /\ claim[c].email = speaker'[s].owner
<1>1. Grows => ByAccept
  BY DEF Grows, Linked
<1>2. IInv /\ [Next]_vars => [ByAccept]_vars
  BY <1>1, InvNext
<1> QED BY <1>2, Inductive, PTL DEF Spec, LinkedAtCurrentAddress

(***************************************************************************)
(* The pages.                                                              *)
(***************************************************************************)

\* Whatever clock is not behind what was written about it, the mail of a pending
\* claim can end with it: in every way while it is open, as expired at any time.
LEMMA PendingMail ==
    ASSUME Rows, NEW c \in Claim, NEW now \in Times, Pending(c)
    PROVE  /\ OutboxAgrees(MessageAfter(c, "MESSAGE_EXPIRED", now), "MESSAGE_EXPIRED")
           /\ claim[c].expires > now /\ message[c].updated <= now =>
                \A code \in Codes, at \in Times : OutboxAgrees(MessageAfter(c, code, at), code)
<1>1. /\ claim[c] \in ClaimRow /\ message[c] \in MessageRow /\ Agrees(claim[c], message[c])
  BY DEF Rows, Typed
<1>2. \/ message[c].state = "settled"
      \/ Cancelable(c)
      \/ message[c].code = "MESSAGE_EXPIRED" /\ ~ Cancelable(c)
  BY <1>1 DEF Agrees, Pending, Cancelable, MessageRow, MessageStates
<1>3. OutboxAgrees(MessageAfter(c, "MESSAGE_EXPIRED", now), "MESSAGE_EXPIRED")
  BY <1>1, <1>2, Cancels DEF OutboxAgrees, Codes
<1>4. ASSUME claim[c].expires > now, message[c].updated <= now
      PROVE  message[c].state = "settled" \/ Cancelable(c)
  <2>1. ~ (claim[c].expires <= message[c].updated)
    BY <1>1, <1>4 DEF ClaimRow, MessageRow, Times
  <2> QED BY <1>1, <2>1 DEF Agrees, Pending, Cancelable, MessageRow, MessageStates
<1>5. ASSUME message[c].state = "settled" \/ Cancelable(c), NEW code \in Codes, NEW at \in Times
      PROVE  OutboxAgrees(MessageAfter(c, code, at), code)
  BY <1>1, <1>5, Cancels DEF OutboxAgrees
<1> QED BY <1>3, <1>4, <1>5

\* Who opens the link of a claim that can be used has a button that links the profile,
\* and when none can be used the organizer has one that makes room for another.
THEOREM PagesWork == Spec => []ClaimPagesWork
<1>1. ASSUME Rows, NEW now \in Times, NEW c \in Claim, Pending(c), NotBehind(c, now)
      PROVE  LET e == claim[c].email
             IN  /\ Claimable(c, now) /\ e \notin members => \A signedIn \in {NoEmail} \cup (accounts \cap {e}) :
                      \E button \in ConnectedSpeakerClaim(c, now, signedIn) : Takes(c, now, e, button)
                 /\ c \in active(claim[c].speaker, now) => Takes(c, now, e, "revoke")
  <2> DEFINE e == claim[c].email
  <2>1. /\ claim[c] \in ClaimRow /\ message[c] \in MessageRow /\ Agrees(claim[c], message[c])
    BY <1>1 DEF Rows, Typed
  <2>2. e \in Email /\ e # NoEmail
    BY <1>1, <2>1 DEF Agrees, Pending
  <2>3. ASSUME Claimable(c, now), e \notin members
        PROVE  Acceptable(c, e, now, message[c].updated)
    <3> DEFINE at == laterTimestamp(now, message[c].updated)
    <3>1. message[c].updated \in Times /\ message[c].updated <= now /\ Open(c, now)
      BY <1>1, <2>1, <2>3 DEF NotBehind, MessageRow, Claimable
    <3>2. at \in Times /\ InTime(c, at)
      BY <3>1, LaterIsTime DEF InTime
    <3>3. ASSUME NEW d \in Claim, claim[d].state = "accepted"
          PROVE  claim[d].email # e /\ claim[d].speaker # claim[c].speaker
      <4>1. claim[d].email # e
        BY <1>1, <2>3, <3>3 DEF Rows
      <4>2. d # c /\ Live(d) /\ Live(c)
        BY <1>1, <3>3 DEF Live, Pending
      <4>3. claim[d].speaker # claim[c].speaker
        BY <1>1, <4>2 DEF Rows, OneLive
      <4> QED BY <4>1, <4>3
    <3>4. OutboxAgrees(MessageAfter(c, "INVITATION_ACCEPTED", at), "INVITATION_ACCEPTED")
      <4> HIDE DEF at
      <4> QED BY <1>1, <3>1, <3>2, PendingMail DEF Open, Codes
    <3> QED BY <2>3, <3>2, <3>3, <3>4 DEF Acceptable
  <2>4. ASSUME Claimable(c, now), e \notin members, NEW signedIn \in {NoEmail} \cup (accounts \cap {e})
        PROVE  \E button \in ConnectedSpeakerClaim(c, now, signedIn) : Takes(c, now, e, button)
    <3>1. CASE signedIn = e
      <4>1. e \in accounts
        BY <2>2, <2>4, <3>1
      <4>2. "accept" \in ConnectedSpeakerClaim(c, now, signedIn)
        BY <2>2, <2>4, <3>1 DEF ConnectedSpeakerClaim
      <4>3. Takes(c, now, e, "accept")
        BY <2>3, <2>4, <4>1 DEF Takes
      <4> QED BY <4>2, <4>3
    <3>2. CASE signedIn = NoEmail
      <4>1. ConnectedSpeakerClaim(c, now, signedIn) = {"register", "sign in and accept"}
        BY <2>2, <2>4, <3>2 DEF ConnectedSpeakerClaim
      <4>2. e \in accounts => Takes(c, now, e, "sign in and accept")
        BY <2>3, <2>4 DEF Takes
      <4>3. e \notin accounts => Takes(c, now, e, "register")
        BY <2>3, <2>4 DEF Takes
      <4> QED BY <4>1, <4>2, <4>3
    <3> QED BY <2>4, <3>1, <3>2
  <2>5. ASSUME c \in active(claim[c].speaker, now) PROVE Takes(c, now, e, "revoke")
    <3>1. projection(c, now) = "pending"
      BY <2>5 DEF active
    <3>2. Open(c, now)
      BY <1>1, <2>1, <3>1 DEF projection, Open, ClaimRow, Times
    <3>3. OutboxAgrees(MessageAfter(c, "INVITATION_REVOKED", now), "INVITATION_REVOKED")
      BY <1>1, <3>2, PendingMail DEF Open, NotBehind, Codes
    <3> QED BY <3>2, <3>3 DEF Takes
  <2> QED BY <2>4, <2>5
<1>2. ASSUME Rows, NEW now \in Times, NEW s \in Speaker
      PROVE  LET row == speaker[s]
                 known == \A c \in Claim : Pending(c) /\ claim[c].speaker = s => NotBehind(c, now)
             IN  /\ row # NoProfile /\ row.owner = NoEmail /\ row.contact \notin members /\ known =>
                      active(s, now) # {} \/ Creates(s, now)
                 /\ SpeakerAccountClaim(s, now) /\ row # NoProfile /\ row.contact \notin members /\ known =>
                      Creates(s, now)
                 /\ row.owner # NoEmail => active(s, now) = {}
  <2>1. ASSUME speaker[s].owner = NoEmail, speaker[s].contact \notin members, active(s, now) = {}
        PROVE  Creates(s, now)
    <3>1. ASSUME NEW c \in Claim, Pending(c), claim[c].speaker = s
          PROVE  /\ claim[c].expires <= now
                 /\ OutboxAgrees(MessageAfter(c, "MESSAGE_EXPIRED", now), "MESSAGE_EXPIRED")
      <4>1. c \notin active(s, now)
        BY <2>1
      <4>2. claim[c].expires <= now
        BY <3>1, <4>1 DEF active, projection, Pending
      <4> QED BY <1>2, <3>1, <4>2, PendingMail
    <3> QED BY <2>1, <3>1 DEF Creates
  <2>2. ASSUME NEW c \in active(s, now) PROVE speaker[s].owner = NoEmail
    <3>1. c \in Claim /\ claim[c].speaker = s /\ claim[c].state = "pending"
      BY <2>2 DEF active, projection, Pending
    <3> QED BY <1>2, <3>1 DEF Rows, Fits
  <2> QED BY <2>1, <2>2 DEF SpeakerAccountClaim
<1>3. IInv => ClaimPagesWork
  BY <1>1, <1>2 DEF IInv, ClaimPagesWork
<1> QED BY <1>3, Inductive, PTL
=============================================================================
