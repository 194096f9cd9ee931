--------------------------- MODULE ReviewWorkflow ---------------------------
(***************************************************************************)
(* The review of one proposal                                              *)
(* (apps/api/src/features/review/review-routes.ts, with the triggers of    *)
(* migrations 0003, 0012, 0013 and 0019 to 0021).  An organizer assigns    *)
(* reviewers by hand, to the default round or to the named one, or lets    *)
(* the named round's pool be assigned automatically; a reviewer answers    *)
(* the invitation, recuses, declares a conflict, scores, and corrects the  *)
(* scorecard.                                                              *)
(*                                                                         *)
(* The handlers that look at tables other than the one they write          *)
(* (assigning, scoring) are split in XRead and XWrite as in CallForPapers. *)
(* The others repeat at the write every condition they read, so running    *)
(* them at once leaves nothing out.                                        *)
(***************************************************************************)
EXTENDS CallForPapers, Integers, Sequences

CONSTANTS
    MaxRetries,     \* bound: assignment rows of one reviewer
    MaxRevision,    \* bound: revisions of one scorecard
    MaxPlan         \* bound: versions of the named round's evaluation plan

ASSUME ReviewAssumption ==
    /\ MaxRetries \in Nat /\ MaxRevision \in Nat /\ MaxPlan \in Nat

VARIABLES
    rows,       \* the review_assignments rows of each reviewer, by retry number
    window,     \* the named round's window admits now
    pool,       \* review_round_reviewers of the named round
    plan        \* the active version of the named round's evaluation plan, 0: none

reviewVars == <<rows, window, pool, plan>>

Round == {"default", "named"}

(***************************************************************************)
(* stage is the state of the row and the last of its                       *)
(* review_assignment_actions in one: the answer on a revoked row is read   *)
(* nowhere, and an invitation declined and an assignment recused are told  *)
(* apart only in what is shown.  conflict: reviewer_conflicts names this   *)
(* row.  revision 0: no scorecard yet.  plan: the version of the round's   *)
(* evaluation plan that the scorecard is filled in for, 0 without one (the *)
(* default round gets none here: a bound).                                 *)
(***************************************************************************)
Row == [round : Round, stage : {"pending", "accepted", "withdrawn", "revoked"},
        conflict : BOOLEAN, revision : 0..MaxRevision, plan : 0..MaxPlan]

ReviewTypeOK ==
    /\ DOMAIN rows = Reviewer
    /\ \A r \in Reviewer :
        /\ DOMAIN rows[r] \in {1..n : n \in 0..MaxRetries}
        /\ \A k \in DOMAIN rows[r] : rows[r][k] \in Row
    /\ window \in BOOLEAN
    /\ pool \in SUBSET Reviewer
    /\ plan \in 0..MaxPlan

ReviewInit ==
    /\ rows = [r \in Reviewer |-> <<>>]
    /\ window = TRUE
    /\ pool = {}
    /\ plan = 0

Active(row) == row.stage # "revoked"

\* Not declined, recused or conflicted: the row counts as somebody's task.
Standing(row) == row.stage \in {"pending", "accepted"} /\ ~row.conflict

HasActive(r, round) == \E k \in DOMAIN rows[r] : Active(rows[r][k]) /\ rows[r][k].round = round

HasConflict(r) == \E k \in DOMAIN rows[r] : rows[r][k].conflict

UnderReview == proposal.status \in {"submitted", "in_review"}

\* Mutant: a decided proposal takes assignments to any round.
ReviewableInAnyRound(round) == UnderReview \/ (proposal.status = "decided" /\ window)

\* What a scorecard or an assignment of that round needs of the proposal: after
\* the decision only the open named round goes on.
Reviewable(round) == UnderReview \/ (proposal.status = "decided" /\ round = "named" /\ window)

nextAssignmentRetry(r) == Len(rows[r]) + 1

activeEvaluationPlan(round) == IF round = "named" THEN plan ELSE 0

(***************************************************************************)
(* Assigning.                                                              *)
(***************************************************************************)

\* Mutant: without the unique index on the retry number.
InsertAnyRetry(r, round, retry, version) ==
    /\ version = activeEvaluationPlan(round)
    /\ retry <= MaxRetries
    /\ ~HasActive(r, round)
    /\ Reviewable(round)
    /\ ~IsPresenter(r)
    /\ ~HasConflict(r)
    /\ round = "named" => r \in pool

\* The unique indexes and the triggers of review_assignments on the tables as
\* they are at the insert.
MayInsert(r, round, retry, version) ==
    /\ version = activeEvaluationPlan(round)
    /\ retry = nextAssignmentRetry(r) /\ retry <= MaxRetries
    /\ ~HasActive(r, round)
    /\ Reviewable(round)
    /\ ~IsPresenter(r)
    /\ ~HasConflict(r)
    /\ round = "named" => r \in pool

Insert(r, round, version) ==
    /\ rows' = [rows EXCEPT ![r] = Append(@,
            [round |-> round, stage |-> "pending", conflict |-> FALSE, revision |-> 0,
             plan |-> version])]
    /\ proposal' = IF proposal.status = "submitted"
                   THEN [proposal EXCEPT !.status = "in_review"]
                   ELSE proposal
    /\ UNCHANGED <<open, presenter, window, pool, plan>>

\* POST assignments: the last row of this reviewer in this round is not active
\* (an active one is answered as a replay or a conflict, without a write).
AssignRead(r, round, retry, version) ==
    /\ ~HasActive(r, round)
    /\ UnderReview \/ (proposal.status = "decided" /\ round = "named")
    /\ ~IsPresenter(r)
    /\ ~HasConflict(r)
    /\ retry = nextAssignmentRetry(r)
    /\ version = activeEvaluationPlan(round)
    /\ round = "named" => window /\ r \in pool

AssignWrite(r, round, retry, version) ==
    IF MayInsert(r, round, retry, version)
    THEN Insert(r, round, version)
    ELSE UNCHANGED <<cfpVars, reviewVars>>

\* POST assignments/auto: the proposal has nobody standing in the named round.
\* The plan, the blockers and the retry numbers are read once, before the
\* first insert.
AutoRead(version) ==
    /\ version = activeEvaluationPlan("named")
    /\ window
    /\ proposal.status \in {"submitted", "in_review", "decided"}
    /\ \A r \in Reviewer : \A k \in DOMAIN rows[r] :
            rows[r][k].round = "named" => ~Standing(rows[r][k])

Unblocked == {r \in pool : ~IsPresenter(r) /\ ~HasConflict(r) /\ ~HasActive(r, "named")}

\* One reviewer after the other (the order by load is left open) until an insert
\* succeeds; a failed one is skipped.
AutoWrite(r, retry, version) ==
    IF MayInsert(r, "named", retry, version)
    THEN Insert(r, "named", version)
    ELSE UNCHANGED <<cfpVars, reviewVars>>

\* Mutant: the update does not ask for the scorecard.
RevokeScored(r, k) ==
    /\ Active(rows[r][k])
    /\ rows' = [rows EXCEPT ![r][k].stage = "revoked"]
    /\ UNCHANGED <<cfpVars, window, pool, plan>>

MayRevoke(row) == Active(row) /\ row.revision = 0

\* POST revoke.
Revoke(r, k) ==
    /\ MayRevoke(rows[r][k])
    /\ rows' = [rows EXCEPT ![r][k].stage = "revoked"]
    /\ UNCHANGED <<cfpVars, window, pool, plan>>

(***************************************************************************)
(* The reviewer's answers.                                                 *)
(***************************************************************************)

\* The review_assignment_actions trigger: an active row without a scorecard.
MayAct(row) == Active(row) /\ row.revision = 0

MayAnswer(row) == MayAct(row) /\ row.stage = "pending"
MayRecuse(row) == MayAct(row) /\ row.stage = "accepted"
MayDeclare(r, row) == MayAct(row) /\ ~HasConflict(r)

Accept(r, k) ==
    /\ MayAnswer(rows[r][k])
    /\ rows' = [rows EXCEPT ![r][k].stage = "accepted"]
    /\ UNCHANGED <<cfpVars, window, pool, plan>>

Decline(r, k) ==
    /\ MayAnswer(rows[r][k])
    /\ rows' = [rows EXCEPT ![r][k].stage = "withdrawn"]
    /\ UNCHANGED <<cfpVars, window, pool, plan>>

Recuse(r, k) ==
    /\ MayRecuse(rows[r][k])
    /\ rows' = [rows EXCEPT ![r][k].stage = "withdrawn"]
    /\ UNCHANGED <<cfpVars, window, pool, plan>>

\* POST conflict: the batch also declines or recuses a row that is not withdrawn
\* yet.  A reviewer has one conflict per proposal.
DeclareConflict(r, k) ==
    /\ MayDeclare(r, rows[r][k])
    /\ rows' = [rows EXCEPT ![r][k].stage = "withdrawn", ![r][k].conflict = TRUE]
    /\ UNCHANGED <<cfpVars, window, pool, plan>>

(***************************************************************************)
(* Scorecards.  `base' is the revision the reviewer has seen: 0 for the    *)
(* first scorecard, the last one for a correction.                         *)
(***************************************************************************)
ScoreRead(r, k, base) ==
    LET row == rows[r][k] IN
    /\ base = row.revision
    /\ row.round = "named" => window
    /\ base = 0 => UnderReview \/ (proposal.status = "decided" /\ row.round = "named")
    /\ base > 0 /\ row.round = "default" => UnderReview
    /\ ~IsPresenter(r)
    /\ row.stage = "accepted"
    /\ ~row.conflict

\* Mutant: the trigger as it was before migration 0020, for proposals under review.
FirstAcceptedUndecided(r, k) ==
    LET row == rows[r][k] IN
    /\ row.revision = 0
    /\ UnderReview
    /\ row.stage = "accepted"
    /\ ~row.conflict
    /\ ~IsPresenter(r)

\* reviews_valid_assignment_insert and the unique index on the assignment.
FirstAccepted(r, k) ==
    LET row == rows[r][k] IN
    /\ row.revision = 0
    /\ Reviewable(row.round)
    /\ row.stage = "accepted"
    /\ ~row.conflict
    /\ ~IsPresenter(r)

\* review_corrections_valid_insert.
CorrectionAccepted(r, k, base) ==
    LET row == rows[r][k] IN
    /\ base = row.revision
    /\ ~row.conflict
    /\ ~IsPresenter(r)
    /\ row.stage = "accepted"
    /\ IF row.round = "default" THEN UnderReview ELSE window

ScoreWrite(r, k, base) ==
    /\ rows' = IF /\ IF base = 0 THEN FirstAccepted(r, k) ELSE CorrectionAccepted(r, k, base)
                  /\ base < MaxRevision
               THEN [rows EXCEPT ![r][k].revision = base + 1]
               ELSE rows
    /\ UNCHANGED <<cfpVars, window, pool, plan>>

(***************************************************************************)
(* The named round.  PUT pool is a sequence of statements, each by itself: *)
(* the additions, then the removals, which a trigger refuses while the     *)
(* member has an active row in the round.                                  *)
(***************************************************************************)
PatchRound ==
    /\ window' = ~window
    /\ UNCHANGED <<cfpVars, rows, pool, plan>>

AddToPool(r) ==
    /\ r \notin pool
    /\ pool' = pool \cup {r}
    /\ UNCHANGED <<cfpVars, rows, window, plan>>

\* Mutant: without the trigger on the deletion.
RemoveAnyMember(r) ==
    /\ r \in pool
    /\ pool' = pool \ {r}
    /\ UNCHANGED <<cfpVars, rows, window, plan>>

RemoveFromPool(r) ==
    /\ r \in pool /\ ~HasActive(r, "named")
    /\ pool' = pool \ {r}
    /\ UNCHANGED <<cfpVars, rows, window, plan>>

(***************************************************************************)
(* The evaluation plan.                                                    *)
(***************************************************************************)

\* PUT review-plan with a plan that differs from the active one: a version is
\* added and activated in one batch.  Its number is unique, so of two at once the
\* second changes nothing and is answered with the first or with a conflict.
createEvaluationPlanVersion ==
    /\ plan < MaxPlan
    /\ plan' = plan + 1
    /\ UNCHANGED <<cfpVars, rows, window, pool>>

(***************************************************************************)
(* An assignment by its reviewer and its number.                           *)
(***************************************************************************)
Seats == UNION {{r} \X DOMAIN rows[r] : r \in Reviewer}

RowOf(seat) == rows[seat[1]][seat[2]]
=============================================================================
