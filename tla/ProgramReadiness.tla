-------------------------- MODULE ProgramReadiness --------------------------
(***************************************************************************)
(* The readiness page: for each accepted session, what still keeps it from *)
(* the public.  It is a third reading of the rows that the agenda's counts *)
(* and the public program read, written a third time in another language   *)
(* (TypeScript over five queries instead of SQL); the module says whether  *)
(* the three agree.                                                        *)
(*                                                                         *)
(* A blocker is the kind and whom it is about; the words, the order of the *)
(* list and the links are left out.  The five queries of a page are not a  *)
(* transaction: the module takes a page whose queries saw one state.       *)
(***************************************************************************)
EXTENDS ProgramAgenda

Missing(s, p) ==
    \/ p \notin confirmed \intersect ready \intersect signed
    \/ p = Primary[s] /\ p \notin published

\* Every placement counts here, the public's and the organizers' drafts.
ConflictsOf(s) ==
    {t \in Session \ {s} : \E a, b \in placements : a.session = s /\ b.session = t /\ Clash(a, b)}

DeliverablesReady(s) == Readiness(s) = "ready" /\ DeliverablesApproved(s)

\* Mutant of PublishReady: what the sessions' approvals already looked at.
PublishReadyOnApproval(s) == s \in approved /\ Placed(s)

PublishReady(s) ==
    /\ PresentersReady(s)
    /\ PrimaryPublic(s)
    /\ TasksClosed(s)
    /\ DeliverablesReady(s)
    /\ Placed(s)
    /\ s \in approved
    /\ ConflictsOf(s) = {}

\* The sessions the stage "published" counts.
PublishedStage ==
    {s \in accepted : PublishReady(s) /\ publication[s] = "published" /\ public}

SpeakerBlockers(s) ==
    {<<"speaker_profile_incomplete", p>> : p \in {q \in PresentersOf(s) : Missing(s, q)}}
    \union {<<"speaker_tasks_incomplete", t[2]>> : t \in {u \in Task : u[1] = s /\ task[u] = "open"}}

DeliverableBlockers(s) ==
    {<<IF request[q].latest = "none" THEN "deliverable_missing" ELSE "deliverable_unapproved", q>> :
        q \in {r \in Needed(s) : request[r].latest # "approved"}}

ScheduleBlockers(s) ==
    {<<"content_approval_pending", t>> : t \in {s} \ approved}
    \union {<<"session_unscheduled", t>> : t \in {u \in {s} : ~Placed(u)}}
    \union {<<"speaker_conflict", t>> : t \in ConflictsOf(s)}

Blockers(s) ==
    SpeakerBlockers(s) \union DeliverableBlockers(s) \union ScheduleBlockers(s)
    \union {<<"publication_pending", t>> : t \in {u \in {s} : PublishReady(u) /\ u \notin PublishedStage}}

\* The three readings agree: a session nothing blocks is one the stage counts and
\* one the public sees, and while no speaker is in two places the public sees what
\* the agenda counts, no more and no less.
ViewsAgree ==
    /\ \A s \in accepted : Blockers(s) = {} <=> s \in PublishedStage
    /\ PublishedStage \subseteq Program
    /\ Program \subseteq AgendaPublic
    /\ NoSpeakerConflict => Program = AgendaPublic /\ Program = PublishedStage
=============================================================================
