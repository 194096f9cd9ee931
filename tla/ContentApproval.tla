-------------------------- MODULE ContentApproval --------------------------
(***************************************************************************)
(* From acceptance to approval: the tasks, profiles, agreements and        *)
(* deliverables of an event, and the approval of its sessions.             *)
(*                                                                         *)
(* Approval is checked once, by a trigger, when an organizer approves, and *)
(* afterwards kept honest by seven more triggers, each of which looks at   *)
(* one of the rows the check depended on (migration 0006).  The module     *)
(* has one action per operation of speaker-content-service.ts, with the    *)
(* triggers the operation fires as part of it.                             *)
(*                                                                         *)
(* Every operation reads a row, then writes it WHERE revision = the one    *)
(* the caller saw; a write that comes too late matches no row and changes  *)
(* nothing.  So an operation is one step, taken when its write matches.    *)
(* What the texts say, due dates, comments and the pictures decide nothing *)
(* here and are left out, and with them the edits of a session's content.  *)
(***************************************************************************)

CONSTANTS
    Session,     \* the program sessions the event may come to have
    Speaker,     \* the speaker profiles of the event
    Presenter,   \* the pairs <<session, speaker>> of session_presenters
    Primary,     \* session |-> its presenter of role 'primary'
    TaskKey,     \* the keys of speaker tasks
    DefaultTask, \* the keys an acceptance opens for each presenter
    Release,     \* the key of the task that stands for the signed agreement
    Addressed,   \* the presenters organizers give further tasks (a bound)
    Drafting,    \* the speakers who go on writing proposals (a bound)
    Described,   \* the speakers whose profile is written when they come
    Request,     \* the rows deliverable_requests may come to have
    SessionOf    \* request |-> its session

Task == {t \in Session \X Speaker \X TaskKey : <<t[1], t[2]>> \in Presenter}

ASSUME ProgramAssumption ==
    /\ Presenter \subseteq Session \X Speaker
    /\ Primary \in [Session -> Speaker]
    /\ \A s \in Session : <<s, Primary[s]>> \in Presenter
    /\ DefaultTask \subseteq TaskKey
    /\ Release \in DefaultTask
    /\ Addressed \subseteq Presenter
    /\ Drafting \subseteq Speaker
    /\ Described \subseteq Speaker
    /\ SessionOf \in [Request -> Session]

VARIABLES
    accepted,     \* the sessions with a row in acceptances
    approved,     \* the sessions of approval_status 'approved'
    deliverables, \* session |-> its deliverables_status
    confirmed,    \* the speakers of workflow_status 'confirmed'
    ready,        \* the speakers of profile_status 'ready'
    signed,       \* the speakers of agreement_status 'signed'
    published,    \* the speakers of public_visibility 'published'
    complete,     \* the speakers whose name, address, title, company and bio are there
    task,         \* task |-> its state, "none" while it has no row
    request       \* request |-> its row, and what became of its versions

speakerVars == <<confirmed, ready, signed, published, complete>>
vars == <<accepted, approved, deliverables, speakerVars, task, request>>

TaskState == {"none", "open", "complete", "waived"}
Outcome == {"approved", "changes_requested"}

\* latest: the latest review of the latest version; older: there is a version
\* before the latest.  No other review is ever looked at.
RequestRow == [state : {"absent", "active", "inactive"}, required : BOOLEAN,
               latest : {"none", "unreviewed"} \union Outcome, older : BOOLEAN]

TypeOK ==
    /\ accepted \subseteq Session
    /\ approved \subseteq accepted
    /\ deliverables \in [Session -> {"missing", "submitted", "ready"}]
    /\ confirmed \subseteq Speaker
    /\ ready \subseteq Speaker
    /\ signed \subseteq Speaker
    /\ published \subseteq Speaker
    /\ complete \subseteq Speaker
    /\ task \in [Task -> TaskState]
    /\ request \in [Request -> RequestRow]

\* The speakers of an event begin as the CFP and the roster import make them: the
\* status is 'incomplete' whether or not the texts came with them.
Init ==
    /\ accepted = {}
    /\ approved = {}
    /\ deliverables = [s \in Session |-> "missing"]
    /\ confirmed = {}
    /\ ready = {}
    /\ signed = {}
    /\ published = {}
    /\ complete = Described
    /\ task = [t \in Task |-> "none"]
    /\ request = [q \in Request |-> [state |-> "absent", required |-> FALSE,
                                     latest |-> "none", older |-> FALSE]]

PresentersOf(s) == {p \in Speaker : <<s, p>> \in Presenter}
SessionsOf(p) == {s \in Session : <<s, p>> \in Presenter}

Needed(s) == {q \in Request : /\ SessionOf[q] = s
                              /\ request[q].state = "active"
                              /\ request[q].required}

\* The view session_deliverable_readiness.
Readiness(s) ==
    IF \E q \in Needed(s) : request[q].latest = "none" THEN "missing"
    ELSE IF \E q \in Needed(s) : request[q].latest # "approved" THEN "submitted"
    ELSE "ready"

(***************************************************************************)
(* The check of an approval.                                               *)
(***************************************************************************)
DeliverablesApproved(s) == \A q \in Needed(s) : request[q].latest = "approved"
TasksClosed(s) == \A t \in Task : t[1] = s => task[t] # "open"
PresentersReady(s) == PresentersOf(s) \subseteq confirmed \intersect ready \intersect signed
PrimaryPublic(s) == Primary[s] \in published

Gates(s) == DeliverablesApproved(s) /\ TasksClosed(s) /\ PresentersReady(s) /\ PrimaryPublic(s)

(***************************************************************************)
(* Acceptance: the session, its presenters and their default tasks come    *)
(* into being in one batch, and every presenter counts as confirmed.       *)
(***************************************************************************)
Accept(s) ==
    /\ s \notin accepted
    /\ accepted' = accepted \union {s}
    /\ task' = [t \in Task |-> IF t[1] = s /\ t[3] \in DefaultTask THEN "open" ELSE task[t]]
    /\ confirmed' = confirmed \union PresentersOf(s)
    /\ UNCHANGED <<approved, deliverables, ready, signed, published, complete, request>>

(***************************************************************************)
(* Writes of a speaker's row, and the trigger after them: a loss takes     *)
(* the approval of the sessions the speaker now holds back.                *)
(***************************************************************************)
With(set, p, in) == IF in THEN set \union {p} ELSE set \ {p}

Lost(p) == p \in (confirmed \ confirmed') \union (ready \ ready')
                 \union (signed \ signed') \union (published \ published')

\* Mutant of HeldBack: a primary speaker who becomes private holds nothing back.
HeldBackInPerson(p) ==
    {s \in SessionsOf(p) : Lost(p) /\ p \notin confirmed' \intersect ready' \intersect signed'}

HeldBack(p) ==
    {s \in SessionsOf(p) : Lost(p) /\ \/ p \notin confirmed' \intersect ready' \intersect signed'
                                      \/ p = Primary[s] /\ p \notin published'}

\* What a speaker changes of their own profile leaves its visibility as it is.
OwnProfile(p, isReady) ==
    /\ complete' = With(complete, p, isReady)
    /\ ready' = With(ready, p, isReady)
    /\ UNCHANGED <<confirmed, signed, published>>
    /\ approved' = approved \ HeldBack(p)
    /\ UNCHANGED <<accepted, deliverables, task, request>>

\* A headshot has the profile that is stored judged anew; the object itself and the
\* races of its upload are PrivateUploads'.
Headshot(p) == OwnProfile(p, p \in complete)

OrganizerProfile(p, isReady, isPublic) ==
    /\ isPublic => isReady
    /\ complete' = With(complete, p, isReady)
    /\ ready' = With(ready, p, isReady)
    /\ published' = With(published, p, isPublic)
    /\ UNCHANGED <<confirmed, signed>>
    /\ approved' = approved \ HeldBack(p)
    /\ UNCHANGED <<accepted, deliverables, task, request>>

\* An earlier profile comes back with its visibility, its readiness judged anew
\* with today's address; every profile may have been the speaker's before.
RestoreProfile(p, isReady, isPublic) ==
    /\ complete' = With(complete, p, isReady)
    /\ ready' = With(ready, p, isReady)
    /\ published' = With(published, p, isPublic)
    /\ published' \intersect {p} \subseteq ready'
    /\ UNCHANGED <<confirmed, signed>>
    /\ approved' = approved \ HeldBack(p)
    /\ UNCHANGED <<accepted, deliverables, task, request>>

MayShow(p, isPublic) ==
    /\ isPublic # (p \in published)
    /\ isPublic => p \in ready

Visibility(p, isPublic) ==
    /\ MayShow(p, isPublic)
    /\ published' = With(published, p, isPublic)
    /\ UNCHANGED <<confirmed, ready, signed, complete>>
    /\ approved' = approved \ HeldBack(p)
    /\ UNCHANGED <<accepted, deliverables, task, request>>

Workflow(p, isConfirmed) ==
    /\ isConfirmed # (p \in confirmed)
    /\ confirmed' = With(confirmed, p, isConfirmed)
    /\ UNCHANGED <<ready, signed, published, complete>>
    /\ approved' = approved \ HeldBack(p)
    /\ UNCHANGED <<accepted, deliverables, task, request>>

\* Saving a proposal writes its answer for the bio into the profile of its author
\* as well, and neither judges the profile anew nor fires the trigger.
ProposalBio(p, isBlank) ==
    /\ p \in Drafting
    /\ complete' \in IF isBlank THEN {complete \ {p}} ELSE {complete, complete \union {p}}
    /\ UNCHANGED <<accepted, approved, deliverables, confirmed, ready, signed, published,
                   task, request>>

(***************************************************************************)
(* Tasks.  A release task that is complete or waived, in any session,      *)
(* stands for the speaker's signature: the batch that changes one writes   *)
(* the agreement too.                                                      *)
(***************************************************************************)
\* Mutant of Released: a waived release does not stand for the signature.
ReleasedByCompletion(p) ==
    \E t \in Task : t[2] = p /\ t[3] = Release /\ task[t] = "complete"

Released(p) ==
    \E t \in Task : t[2] = p /\ t[3] = Release /\ task[t] \in {"complete", "waived"}

MaySet(t, state) == task[t] \notin {"none", state}

\* Mutant of SetTask: only the task that changes decides about the agreement.
SetTaskAlone(t, state) ==
    /\ MaySet(t, state)
    /\ task' = [task EXCEPT ![t] = state]
    /\ signed' = IF t[3] = Release THEN With(signed, t[2], state # "open") ELSE signed
    /\ UNCHANGED <<confirmed, ready, published, complete>>
    /\ approved' = (approved \ {s \in {t[1]} : state = "open"}) \ HeldBack(t[2])
    /\ UNCHANGED <<accepted, deliverables, request>>

SetTask(t, state) ==
    /\ MaySet(t, state)
    /\ task' = [task EXCEPT ![t] = state]
    /\ signed' = IF t[3] = Release THEN With(signed, t[2], Released(t[2])') ELSE signed
    /\ UNCHANGED <<confirmed, ready, published, complete>>
    /\ approved' = (approved \ {s \in {t[1]} : state = "open"}) \ HeldBack(t[2])
    /\ UNCHANGED <<accepted, deliverables, request>>

MaySetOwn(t) == task[t] # "waived"

SpeakerTask(t) ==
    /\ MaySetOwn(t)
    /\ \E state \in {"open", "complete"} : SetTask(t, state)

OrganizerTask(t) == \E state \in {"open", "waived"} : SetTask(t, state)

\* One batch of inserts for the targets that have no such task yet.
AddTasks(targets, key) ==
    /\ targets # {}
    /\ \A x \in targets : x[1] \in accepted /\ task[<<x[1], x[2], key>>] = "none"
    /\ task' = [t \in Task |-> IF <<t[1], t[2]>> \in targets /\ t[3] = key
                               THEN "open" ELSE task[t]]
    /\ approved' = approved \ {x[1] : x \in targets}
    /\ UNCHANGED <<accepted, deliverables, speakerVars, request>>

(***************************************************************************)
(* Requests for deliverables, their versions and the reviews of them.      *)
(* After each of these writes a trigger copies the view into the session   *)
(* and, when the write calls for it, takes the approval back.              *)
(***************************************************************************)
Refresh(s, demotes) ==
    /\ deliverables' = [deliverables EXCEPT ![s] = Readiness(s)']
    /\ approved' = IF demotes THEN approved \ {s} ELSE approved
    /\ UNCHANGED <<accepted, speakerVars, task>>

CreateRequest(q, required) ==
    /\ SessionOf[q] \in accepted
    /\ request[q].state = "absent"
    /\ request' = [request EXCEPT ![q] = [state |-> "active", required |-> required,
                                          latest |-> "none", older |-> FALSE]]
    /\ Refresh(SessionOf[q], required)

\* Any edit of a request that stays needed counts, whatever it changes.
UpdateRequest(q, state, required) ==
    /\ request[q].state # "absent"
    /\ request' = [request EXCEPT ![q] = [state |-> state, required |-> required,
                                          latest |-> request[q].latest,
                                          older |-> request[q].older]]
    /\ Refresh(SessionOf[q], state = "active" /\ required)

MayUpload(q) == request[q].state = "active"

Upload(q) ==
    /\ MayUpload(q)
    /\ request' = [request EXCEPT ![q] = [state |-> "active", required |-> request[q].required,
                                          latest |-> "unreviewed",
                                          older |-> request[q].latest # "none"]]
    /\ Refresh(SessionOf[q], TRUE)

MayReview(q) == request[q].latest # "none"

ReviewLatest(q, outcome) ==
    /\ MayReview(q)
    /\ request' = [request EXCEPT ![q] = [state |-> request[q].state,
                                          required |-> request[q].required,
                                          latest |-> outcome,
                                          older |-> request[q].older]]
    /\ Refresh(SessionOf[q], outcome = "changes_requested")

\* The form names a version, which need not be the latest one any more.
ReviewOlder(q, outcome) ==
    /\ request[q].older
    /\ UNCHANGED request
    /\ Refresh(SessionOf[q], outcome = "changes_requested")

(***************************************************************************)
(* The approval itself.                                                    *)
(***************************************************************************)
\* Mutant of Approve: nobody asks whether the session was accepted.
ApproveUnaccepted(s) ==
    /\ s \in Session \ approved
    /\ Gates(s)
    /\ approved' = approved \union {s}
    /\ UNCHANGED <<accepted, deliverables, speakerVars, task, request>>

MayApprove(s) == s \in accepted \ approved /\ Gates(s)

Approve(s) ==
    /\ MayApprove(s)
    /\ approved' = approved \union {s}
    /\ UNCHANGED <<accepted, deliverables, speakerVars, task, request>>

Unapprove(s) ==
    /\ s \in approved
    /\ approved' = approved \ {s}
    /\ UNCHANGED <<accepted, deliverables, speakerVars, task, request>>

SpeakerStep(p) ==
    \E yes \in BOOLEAN :
        \/ OwnProfile(p, yes)
        \/ Headshot(p)
        \/ \E public \in BOOLEAN : OrganizerProfile(p, yes, public) \/ RestoreProfile(p, yes, public)
        \/ Visibility(p, yes)
        \/ Workflow(p, yes)
        \/ ProposalBio(p, yes)

RequestStep(q) ==
    \/ \E required \in BOOLEAN :
          \/ CreateRequest(q, required)
          \/ \E state \in {"active", "inactive"} : UpdateRequest(q, state, required)
    \/ Upload(q)
    \/ \E outcome \in Outcome : ReviewLatest(q, outcome) \/ ReviewOlder(q, outcome)

Next ==
    \/ \E s \in Session : Accept(s) \/ Approve(s) \/ Unapprove(s)
    \/ \E p \in Speaker : SpeakerStep(p)
    \/ \E t \in Task : SpeakerTask(t) \/ OrganizerTask(t)
    \/ \E targets \in SUBSET Addressed, key \in TaskKey : AddTasks(targets, key)
    \/ \E q \in Request : RequestStep(q)

Spec == Init /\ [][Next]_vars

(***************************************************************************)
(* Properties.                                                             *)
(***************************************************************************)

\* What the check demanded of a session when it was approved holds as long as it
\* is approved: no write of a task, profile, agreement, visibility, request,
\* version or review slips past the triggers that take an approval back.
ApprovedMeetsGates == \A s \in approved : Gates(s)

\* The stored status agrees with the view once a session has had a request,
\* whatever is requested, uploaded and reviewed, in whatever order.
DeliverablesCurrent ==
    \A q \in Request : request[q].state # "absent" =>
        deliverables[SessionOf[q]] = Readiness(SessionOf[q])

\* A speaker's agreement is signed exactly while some release task of theirs is
\* complete or waived, in whichever of their sessions.
AgreementFollowsRelease == \A p \in Speaker : p \in signed <=> Released(p)

\* What is stored as a copy is what it is a copy of.
StatusesFollow == DeliverablesCurrent /\ AgreementFollowsRelease

\* program-readiness-service.ts:275: "Primary presenters must be confirmed,
\* complete, signed, and public", co-presenters complete and signed.  Of an approved
\* session that should be true of the profiles themselves, not of a status alone.
ApprovedProfilesComplete == \A s \in approved : PresentersOf(s) \subseteq complete
=============================================================================
