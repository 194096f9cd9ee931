---------------------------- MODULE ContentPages ----------------------------
(***************************************************************************)
(* What the organizers and the speakers of an event are told about the     *)
(* rows of ContentApproval: the content page with the causes that hold an  *)
(* approval back, the speaker roster, a speaker's own workspace, the two   *)
(* reminders an organizer can send, and the archive of deliverables.       *)
(*                                                                         *)
(* Each is a reading of its own: the causes are worked out in TypeScript   *)
(* while the approval is checked by a trigger, the roster and the reminder *)
(* look at the stored status where the trigger looks at the reviews.  A    *)
(* page is one read transaction, so an operator stands for it; wording,    *)
(* order, due dates and headshots are left out, and a reminder's message   *)
(* is what MessageOutbox does with any other.                              *)
(***************************************************************************)
EXTENDS ContentApproval

(***************************************************************************)
(* The organizers' content page.                                           *)
(***************************************************************************)
OpenTasks == {t \in Task : task[t] = "open"}
Unapproved(q) == request[q].latest # "approved"

\* Mutant of unmetGates: any version of a deliverable will do.
unmetGatesOnUpload(s) ==
    {cause \in {"deliverables", "tasks", "presenters", "primary"} :
        \/ cause = "deliverables" /\ \E q \in Needed(s) : request[q].latest = "none"
        \/ cause = "tasks" /\ \E t \in OpenTasks : t[1] = s
        \/ cause = "presenters" /\ \E p \in PresentersOf(s) :
                                      p \notin confirmed \intersect ready \intersect signed
        \/ cause = "primary" /\ Primary[s] \notin published}

unmetGates(s) ==
    {cause \in {"deliverables", "tasks", "presenters", "primary"} :
        \/ cause = "deliverables" /\ \E q \in Needed(s) : Unapproved(q)
        \/ cause = "tasks" /\ \E t \in OpenTasks : t[1] = s
        \/ cause = "presenters" /\ \E p \in PresentersOf(s) :
                                      p \notin confirmed \intersect ready \intersect signed
        \/ cause = "primary" /\ Primary[s] \notin published}

\* The sessions the page lists, each with its causes.
OrganizerContent == [s \in accepted |-> unmetGates(s)]

\* Optional deliverables are archived too, as soon as their latest version is approved.
approvedCurrentDeliverables ==
    {q \in Request : request[q].state = "active" /\ request[q].latest = "approved"}

(***************************************************************************)
(* The roster: one row for each speaker.                                   *)
(***************************************************************************)
SpeakerSessions(p) == SessionsOf(p) \intersect accepted

RosterReadiness(p) ==
    [profileReady |-> p \in ready,
     agreementReady |-> p \in signed,
     requiredTasksReady |->
         ~ \E t \in OpenTasks : t[2] = p /\ t[1] \in SpeakerSessions(p),
     deliverablesReady |-> \A s \in SpeakerSessions(p) : deliverables[s] = "ready"]

(***************************************************************************)
(* A speaker's own workspace: the sessions they present, their own tasks,  *)
(* and the requests, which the presenters of a session share.              *)
(***************************************************************************)
SpeakerState(p) ==
    [sessions |-> SpeakerSessions(p),
     tasks |-> {t \in Task : t[2] = p /\ task[t] # "none"},
     requests |-> {q \in Request : SessionOf[q] \in SpeakerSessions(p) /\ request[q].state # "absent"}]

Workspace(p) ==
    LET state == SpeakerState(p)
    IN  [sessions |-> state.sessions,
         tasks |-> {t \in state.tasks : t[1] \in state.sessions},
         requests |-> {q \in state.requests : request[q].state = "active"}]

\* What is left to do there before a session can be approved; an upload that waits
\* for its review is not in the speaker's hands.
Left(p) ==
    {t \in Workspace(p).tasks : task[t] = "open"}
    \union {q \in Workspace(p).requests :
               request[q].required /\ request[q].latest \in {"none", "changes_requested"}}

(***************************************************************************)
(* Reminders to speakers with an account.  Each names what the speaker     *)
(* still owes; one that would name nothing is refused.                     *)
(***************************************************************************)
TaskReminder(p) == {t \in OpenTasks : t[2] = p}

ReadinessReminder(p) ==
    {<<"participation", q>> : q \in {p} \ confirmed}
    \union {<<"profile", q>> : q \in {p} \ ready}
    \union {<<"release", q>> : q \in {p} \ signed}
    \union {<<"task", t>> : t \in TaskReminder(p)}
    \union {<<"deliverables", s>> : s \in {u \in SpeakerSessions(p) : deliverables[u] # "ready"}}

Remindable(p) == {template \in {"speaker.readiness-reminder", "speaker.task-reminder"} :
    IF template = "speaker.task-reminder" THEN TaskReminder(p) # {} ELSE ReadinessReminder(p) # {}}

(***************************************************************************)
(* Property.                                                               *)
(***************************************************************************)

Requested(s) == \E q \in Request : SessionOf[q] = s /\ request[q].state # "absent"

\* Nobody is told two things.  An approval is refused exactly when the page names a
\* cause, no approved session has one, and its deliverables are in the archive; for
\* every cause but the visibility of a profile, which only organizers set, some
\* presenter can be reminded; and a speaker all of whose sessions are approved, and
\* were asked for deliverables, is shown as ready, reminded of nothing and has
\* nothing left to do.
WorkspacesAgree ==
    /\ \A s \in accepted : OrganizerContent[s] = {} <=> Gates(s)
    /\ \A s \in approved : OrganizerContent[s] = {} /\ Needed(s) \subseteq approvedCurrentDeliverables
    /\ \A s \in accepted : OrganizerContent[s] \subseteq {"primary"} \/
          \E p \in PresentersOf(s) : Remindable(p) # {}
    /\ \A p \in Speaker :
          /\ RosterReadiness(p).requiredTasksReady <=> "speaker.task-reminder" \notin Remindable(p)
          /\ Left(p) # {} => Remindable(p) # {}
          /\ LET done == /\ Workspace(p).sessions # {}
                         /\ \A s \in Workspace(p).sessions : s \in approved /\ Requested(s)
             IN  done => /\ Remindable(p) = {} /\ Left(p) = {}
                         /\ \A column \in DOMAIN RosterReadiness(p) : RosterReadiness(p)[column]
=============================================================================
