----------------------------- MODULE ReviewPages -----------------------------
(***************************************************************************)
(* What the organizers, the reviewers and the owner are shown of a         *)
(* proposal: a dozen pages, each with a query of its own over the tables   *)
(* of Decisions (apps/api/src/features/review/review-routes.ts and         *)
(* review-results.ts, reviewer-reminders.ts, decisions/decision-service.ts *)
(* and cfp/cfp-routes.ts).                                                 *)
(***************************************************************************)
EXTENDS Decisions, FiniteSets

ASSUME FewReviewers == IsFiniteSet(Reviewer)

(***************************************************************************)
(* The organizers' pages about reviews.                                    *)
(***************************************************************************)

\* GET review-rounds: the row of the named round.
listRounds == [open |-> window, poolSize |-> Cardinality(pool), hasActivePlan |-> plan > 0]

\* GET reviewer-progress: the tasks of the reviewers; for the named round, those
\* of its pool's members.
reviewerProgress == {s \in Seats : Standing(RowOf(s))}

roundProgress ==
    {s \in Seats : Standing(RowOf(s)) /\ RowOf(s).round = "named" /\ s[1] \in pool}

\* The load by which the automatic assignment orders the pool.
activeLoad(r) ==
    Cardinality({s \in Seats : s[1] = r /\ RowOf(s).round = "named" /\ Standing(RowOf(s))})

\* GET progress: declared conflicts are not asked for.
assigned == {s \in Seats : RowOf(s).stage \in {"pending", "accepted"}}

\* The proposal is listed with its counts, and exported.
resultsListed == UnderReview \/ Seats # {}

completed == {s \in Seats : RowOf(s).revision > 0}

\* The export's columns by version of the plan, and the versions it has scores of.
csvColumns == 1..plan

csvScores == {RowOf(s).plan : s \in completed} \ {0}

\* GET reviews of the proposal: the status of each assignment.
assignmentStatus(row) ==
    IF row.stage = "revoked" THEN "revoked"
    ELSE IF row.revision > 0 THEN "completed" ELSE "pending"

\* Its counts.
detailProgress ==
    [assigned  |-> Cardinality(assigned),
     submitted |-> Cardinality(completed),
     revoked   |-> Cardinality({s \in Seats : RowOf(s).stage = "revoked"})]

(***************************************************************************)
(* The reviewer's pages, and the reminder he is sent.                      *)
(***************************************************************************)

\* GET review/assignments.
reviewQueue(r) == {s \in Seats : s[1] = r /\ Active(RowOf(s))}

\* GET review/assignments/:id.
correctionAllowed(r, k) ==
    LET row == rows[r][k] IN
    /\ row.revision > 0
    /\ row.stage = "accepted"
    /\ ~row.conflict
    /\ IF row.round = "named" THEN window ELSE UnderReview

\* enqueueReviewerReminder, for one round or for all.
pendingReviews(r, rounds) ==
    {s \in Seats : /\ s[1] = r
                   /\ Active(RowOf(s)) /\ RowOf(s).stage # "withdrawn"
                   /\ RowOf(s).round \in rounds
                   /\ RowOf(s).revision = 0
                   /\ ~RowOf(s).conflict}

reminderEligible(r, rounds) == pendingReviews(r, rounds) # {}

(***************************************************************************)
(* The decision pages and the owner's.                                     *)
(***************************************************************************)

\* GET decisions: a decision is listed with the session made of it.
handoff == IF session # NoSession THEN "materialized" ELSE "not_applicable"

\* GET cfp/proposals and the owner's proposals: the answers, not the row's title
\* and abstract.
proposalProjection ==
    [status |-> proposal.status, decision |-> decision, values |-> proposal.answers]

\* GET speaker/workspace: the session is looked up from the acceptance, its
\* presenters from the session.
ownerWorkspace ==
    [status |-> proposal.status, decision |-> decision,
     acceptedSession |-> IF session # NoSession THEN {session} ELSE {}]

(***************************************************************************)
(* Properties.                                                             *)
(***************************************************************************)

\* The pages tell the same story with different queries.  It rests on what other
\* requests keep up: whoever has a task in the named round is in its pool, a
\* declared conflict also declines or recuses, a scorecard stays on a row that
\* counts and in a version the export knows, the session is there from the
\* decision on and has the proposal's presenters.  Who is reminded has exactly
\* the tasks that progress counts as open.  And a correction is offered when, and
\* only when, it would be taken, except to a reviewer who has come to present the
\* proposal.
PagesAgree ==
    /\ assigned = reviewerProgress
    /\ roundProgress = {s \in assigned : RowOf(s).round = "named"}
    /\ completed \subseteq reviewerProgress
    /\ completed = {s \in Seats : assignmentStatus(RowOf(s)) = "completed"}
    /\ csvScores \subseteq csvColumns
    /\ detailProgress.submitted <= detailProgress.assigned
    /\ \A r \in Reviewer :
        /\ pendingReviews(r, Round) = {s \in reviewerProgress \ completed : s[1] = r}
        /\ pendingReviews(r, {"named"}) = {s \in roundProgress \ completed : s[1] = r}
        /\ pendingReviews(r, Round) \subseteq reviewQueue(r)
        /\ activeLoad(r) = Cardinality({s \in roundProgress : s[1] = r})
        /\ reminderEligible(r, Round) => resultsListed
        /\ activeLoad(r) > 0 => listRounds.poolSize > 0
    /\ (handoff = "materialized") = (ownerWorkspace.acceptedSession # {})
    /\ (proposalProjection.decision = "accept") = (handoff = "materialized")
    /\ \A s \in Seats :
        LET r == s[1]
            k == s[2]
        IN  (correctionAllowed(r, k) /\ ~IsPresenter(r))
              = (RowOf(s).revision > 0 /\ ScoreRead(r, k, RowOf(s).revision))
=============================================================================
