---------------------------- MODULE CallForPapers ----------------------------
(***************************************************************************)
(* The call for papers seen from one proposal                              *)
(* (apps/api/src/features/cfp/cfp-routes.ts): the organizer opens and      *)
(* closes the form, the owner creates, edits and submits the proposal and  *)
(* adds or removes a co-presenter.                                         *)
(*                                                                         *)
(* Every handler reads the proposal and the form, decides, and writes with *)
(* one statement or one batch.  Each is therefore two operators: XRead,    *)
(* what its queries must have found, and XWrite, what its batch does to    *)
(* the tables as they are by then.  A handler either runs at once, or is   *)
(* overtaken between the two: `request' holds the one request in flight    *)
(* with what it has read, while any number of other requests run at once.  *)
(***************************************************************************)

CONSTANT Reviewer
    \* accounts of the event's reviewers; any of them may come to own the
    \* co-presenter's speaker profile

ASSUME CfpAssumption == Reviewer \cap {"absent", "unclaimed", "removed"} = {}

VARIABLES
    open,       \* the form is published and now is between opens_at and closes_at
    proposal,   \* the proposals row, and its proposal_answers rows
    presenter,  \* the co-presenter's proposal_presenters row
    request     \* the overtaken request, with what it has read

cfpVars == <<open, proposal, presenter>>

(***************************************************************************)
(* What the owner filled in.  A blank answer to a required field is        *)
(* allowed in a draft only.  The row's title and abstract repeat two of    *)
(* the answers.                                                            *)
(***************************************************************************)
Content == {"blank", "full"}

Status == {"none", "draft", "submitted", "in_review", "decided"}

\* The co-presenter has not joined, has joined under a profile nobody owns,
\* has joined and the profile belongs to an account, or was removed.
CoPresenter == {"absent", "unclaimed", "removed"} \cup Reviewer

Idle == [kind |-> "idle"]

CfpTypeOK ==
    /\ open \in BOOLEAN
    /\ proposal \in [status : Status, row : Content, answers : Content]
    /\ presenter \in CoPresenter

CfpInit ==
    /\ open = TRUE
    /\ proposal = [status |-> "none", row |-> "blank", answers |-> "blank"]
    /\ presenter = "absent"

Editable == proposal.status \in {"draft", "submitted"}

Presents == presenter \notin {"absent", "removed"}

(***************************************************************************)
(* The form.  A save carries the revision it was read at and its batch     *)
(* changes nothing when that revision is gone, so it runs as one step.     *)
(* The deadline passing has the effect of a save that closes the form.     *)
(***************************************************************************)
SaveForm ==
    /\ open' = ~open
    /\ UNCHANGED <<proposal, presenter>>

(***************************************************************************)
(* The owner's handlers.                                                   *)
(***************************************************************************)

\* validateValues with requireComplete: the values a write may carry.
Valid(content, requireComplete) == requireComplete => content = "full"

CreateRead(content) == proposal.status = "none" /\ open /\ Valid(content, FALSE)

\* POST proposals.  The draft key is unique, so an insert that comes second fails
\* and is answered with the proposal it lost to: it runs at once.
CreateProposal(content) ==
    /\ CreateRead(content)
    /\ proposal' = [status |-> "draft", row |-> content, answers |-> content]
    /\ UNCHANGED <<open, presenter>>

SaveRead(content) ==
    /\ Editable
    /\ open
    /\ Valid(content, proposal.status = "submitted")

\* Mutant: the status is tested by the handler alone.
SaveUnlocked(content) ==
    /\ proposal' = [proposal EXCEPT !.row = content, !.answers = content]
    /\ UNCHANGED <<open, presenter>>

SaveWrite(content) ==
    /\ proposal' = IF Editable
                   THEN [proposal EXCEPT !.row = content, !.answers = content]
                   ELSE proposal
    /\ UNCHANGED <<open, presenter>>

\* The values are the answers as they were read; the batch writes title and
\* abstract from them and leaves the answers alone.
SubmitRead(content) ==
    /\ Editable
    /\ open
    /\ content = proposal.answers
    /\ Valid(content, TRUE)

SubmitWrite(content) ==
    /\ proposal' = IF Editable
                   THEN [proposal EXCEPT !.status = "submitted", !.row = content]
                   ELSE proposal
    /\ UNCHANGED <<open, presenter>>

\* One co-presenter, who joins once (a bound): the limit of twenty presenters
\* and the refusal of a known speaker are left out.
JoinRead == Editable /\ open /\ presenter = "absent"

JoinWrite ==
    /\ presenter' = IF Editable /\ presenter = "absent" THEN "unclaimed" ELSE presenter
    /\ UNCHANGED <<open, proposal>>

LeaveRead == Editable /\ open /\ Presents

LeaveWrite ==
    /\ presenter' = IF Editable /\ Presents THEN "removed" ELSE presenter
    /\ UNCHANGED <<open, proposal>>

\* An account accepts the claim of the co-presenter's profile (the claims
\* component): the profile changes, the proposal's presenters do not.
ClaimProfile(account) ==
    /\ presenter = "unclaimed"
    /\ presenter' = account
    /\ UNCHANGED <<open, proposal>>

\* proposal_presenters joined with speakers: this account presents the proposal.
IsPresenter(account) == presenter = account

OwnerStep ==
    \/ \E content \in Content :
        \/ CreateProposal(content)
        \/ SaveRead(content) /\ SaveWrite(content)
        \/ SubmitRead(content) /\ SubmitWrite(content)
    \/ JoinRead /\ JoinWrite
    \/ LeaveRead /\ LeaveWrite

(***************************************************************************)
(* The overtaken request: it arrives with what it read, and writes later.  *)
(***************************************************************************)
OwnerRequests ==
    [kind : {"save", "submit"}, content : Content] \cup [kind : {"join", "leave"}]

OwnerReads(q) ==
    CASE q.kind = "save"   -> SaveRead(q.content)
      [] q.kind = "submit" -> SubmitRead(q.content)
      [] q.kind = "join"   -> JoinRead
      [] q.kind = "leave"  -> LeaveRead

OwnerWrites ==
    \/ request.kind = "save"   /\ SaveWrite(request.content)
    \/ request.kind = "submit" /\ SubmitWrite(request.content)
    \/ request.kind = "join"   /\ JoinWrite
    \/ request.kind = "leave"  /\ LeaveWrite

\* What the program does to the owner's proposal, its requests at once.
CfpStep ==
    \/ SaveForm
    \/ OwnerStep
    \/ \E account \in Reviewer : ClaimProfile(account)
=============================================================================
