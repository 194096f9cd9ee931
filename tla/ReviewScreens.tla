---------------------------- MODULE ReviewScreens ----------------------------
(***************************************************************************)
(* The screens of the web application over the pages of ReviewPages        *)
(* (apps/web/src/ConnectedReviewPages.tsx, ConnectedCfpPages.tsx and       *)
(* ConnectedSpeakerPortal.tsx).  A screen decides by itself, from what the *)
(* last page it loaded says, which buttons it shows; the handler behind a  *)
(* button decides again, from other columns.  The operators are what a     *)
(* screen offers right after it has loaded, and what it then sends.        *)
(***************************************************************************)
EXTENDS ReviewPages

(***************************************************************************)
(* The reviewer's screens.                                                 *)
(***************************************************************************)

\* The queue's "completed of all".
ReviewerQueue(r) ==
    [completed |-> Cardinality({s \in reviewQueue(r) : assignmentStatus(RowOf(s)) = "completed"}),
     all       |-> Cardinality(reviewQueue(r))]

\* What the workspace opens by itself: the first that is not completed, or else
\* the first.
ReviewerWorkspace(r) ==
    LET unfinished == {s \in reviewQueue(r) : assignmentStatus(RowOf(s)) = "pending"}
    IN  IF unfinished # {} THEN unfinished ELSE reviewQueue(r)

\* The buttons beside an assignment.
ReviewerLifecycleControls(row) ==
    IF row.revision > 0 THEN {}
    ELSE CASE row.stage = "pending"  -> {"accept", "decline"}
           [] row.stage = "accepted" -> {"recuse", "conflict"}
           [] OTHER                  -> {}

\* Each sends its request to the server, which takes it now.
act(r, k, button) ==
    CASE button \in {"accept", "decline"} -> MayAnswer(rows[r][k])
      [] button = "recuse"               -> MayRecuse(rows[r][k])
      [] button = "conflict"             -> MayDeclare(r, rows[r][k])

\* The form is there once the invitation is accepted; of a scorecard that is
\* there, when the page allows corrections.
ReviewerScorecard(r, k) ==
    /\ rows[r][k].stage = "accepted"
    /\ rows[r][k].revision > 0 => correctionAllowed(r, k)

\* What the form sends: a correction names the revision that the page showed.
submitScorecard(r, k) ==
    LET base == rows[r][k].revision IN ScoreRead(r, k, base) /\ ScoreWrite(r, k, base)

(***************************************************************************)
(* The organizers' screens.                                                *)
(***************************************************************************)

\* The auto-distribute button of the round's card; to add somebody to the pool it
\* offers whoever is not in it, to remove whoever is.
RoundCard == listRounds.open /\ listRounds.poolSize > 0

\* The plan the form starts from.
EvaluationPlanManager == activeEvaluationPlan("named")

\* The reminder button of a reviewer's line, by the counts of the line.
ReviewerProgressPanel(r, progress) ==
    LET line == {s \in progress : s[1] = r}
    IN  Cardinality(line) > Cardinality(line \cap completed)

\* The proposal can be selected in the list, and has a detail.
OrganizerReviewWorkspace == resultsListed

\* The rounds that the assignment form of the detail lets choose.
OrganizerReviewDetail ==
    IF OrganizerReviewWorkspace
    THEN (IF decision = "none" THEN {"default"} ELSE {})
         \cup (IF listRounds.open THEN {"named"} ELSE {})
    ELSE {}

\* The revoke button in the detail's history.
revoke(row) == OrganizerReviewWorkspace /\ assignmentStatus(row) = "pending"

\* The detail's decision form.
DecisionPanel == OrganizerReviewWorkspace /\ decision = "none"

\* The ledger's line: what it says of the session.
DecisionLedger == IF decision = "none" THEN {} ELSE {handoff}

(***************************************************************************)
(* The owner's screens.                                                    *)
(***************************************************************************)

\* The speaker portal's link to the proposal.
ProposalHistory ==
    CASE open /\ proposalProjection.status \in {"draft", "submitted"} -> "edit"
      [] open /\ proposalProjection.status \in {"in_review", "decided"} -> "none"
      [] ~open -> "view"

\* Whom the link, or the list in the wizard, brings back to the wizard.
resumeProposal == open /\ proposalProjection.status \in {"draft", "submitted"}

\* The server takes the wizard's save now.
MayPersist(content) ==
    IF proposal.status = "none" THEN CreateRead(content) ELSE SaveRead(content)

\* The wizard's save: a draft it has is updated, else one is created.
persistDraft(content) ==
    IF proposal.status = "none"
    THEN CreateProposal(content)
    ELSE SaveRead(content) /\ SaveWrite(content)

\* Its submission asks for the required fields, saves, and then submits what it
\* has saved, which the server reads again: this is the first of its requests.
submitProposal(content) == content = "full" /\ persistDraft(content)

(***************************************************************************)
(* Properties.                                                             *)
(***************************************************************************)

\* The buttons of a reviewer's screen: each is taken, except that a conflict is
\* declared once per proposal; and but for a conflict on an invitation, what would
\* be taken has its button.  A first scorecard is refused only because the round
\* is closed or the reviewer has come to present the proposal, so nobody is left
\* before a form that can never be sent.
ReviewerIsOffered ==
    \A s \in Seats :
        LET r == s[1]
            k == s[2]
            row == RowOf(s)
            offered == ReviewerLifecycleControls(row)
            taken == ScoreRead(r, k, row.revision)
        IN  /\ \A button \in offered : act(r, k, button) \/ (button = "conflict" /\ HasConflict(r))
            /\ \A button \in {"accept", "decline", "recuse"} : act(r, k, button) => button \in offered
            /\ taken => ReviewerScorecard(r, k)
            /\ ReviewerScorecard(r, k) =>
                \/ taken
                \/ IsPresenter(r)
                \/ row.round = "named" /\ ~window

\* Who is reminded finds work: the reminder's query, the line that offers it and
\* the queue that he opens agree.
ReminderIsTrue ==
    \A r \in Reviewer :
        /\ ReviewerProgressPanel(r, reviewerProgress) = reminderEligible(r, Round)
        /\ ReviewerProgressPanel(r, roundProgress) = reminderEligible(r, {"named"})
        /\ reminderEligible(r, Round) =>
            /\ ReviewerQueue(r).completed < ReviewerQueue(r).all
            /\ \A s \in ReviewerWorkspace(r) : RowOf(s).revision = 0

\* The organizers can reach what the server would take: a decision, an assignment
\* to either round, a distribution, a revocation.  Only a
\* proposal that its decision takes off the list, for want of any assignment, can
\* no longer be assigned by hand; it leaves nothing to revoke behind.
OrganizerIsOffered ==
    /\ DecisionPanel = DecideRead(proposal.row)
    /\ (DecisionLedger = {"materialized"}) = (decision = "accept")
    /\ listRounds.hasActivePlan = (EvaluationPlanManager > 0)
    /\ \A r \in Reviewer :
        /\ \A round \in Round :
            AssignRead(r, round, nextAssignmentRetry(r), activeEvaluationPlan(round))
                /\ OrganizerReviewWorkspace => round \in OrganizerReviewDetail
        /\ (AutoRead(plan) /\ r \in Unblocked) => RoundCard
        /\ \A k \in DOMAIN rows[r] : revoke(rows[r][k]) = MayRevoke(rows[r][k])

\* The owner is sent to the wizard exactly when it can save what he has, and what he
\* has filled in completely.
OwnerIsOffered ==
    /\ proposal.status # "none" =>
        /\ resumeProposal = \E content \in Content : MayPersist(content)
        /\ resumeProposal = (ProposalHistory = "edit")
    /\ (resumeProposal \/ (proposal.status = "none" /\ open)) = MayPersist("full")

\* Pages, screens and handlers agree: the pages tell one story, and a screen that
\* has just loaded offers what the server takes, though it decides from other
\* columns than the handler.
ScreensOffer ==
    /\ PagesAgree
    /\ ReviewerIsOffered
    /\ ReminderIsTrue
    /\ OrganizerIsOffered
    /\ OwnerIsOffered

\* What a form sends right after it has loaded, and the server takes, is not lost on
\* the tables' own conditions, which are not the handler's: the scorecard or the
\* correction is recorded, also in the named round after the decision; the draft has
\* what was filled in, and the second request of a submission is taken; the assignment
\* is made, and so is one when the pool is distributed and somebody in it is not
\* blocked; the decision stands.
FormsAreSaved ==
    [][/\ \A r \in Reviewer :
            /\ \A k \in DOMAIN rows[r] :
                submitScorecard(r, k) /\ rows[r][k].revision < MaxRevision
                    => rows'[r][k].revision = rows[r][k].revision + 1
            /\ \A round \in Round :
                AssignNow(r, round) /\ nextAssignmentRetry(r) <= MaxRetries => HasActive(r, round)'
            /\ AutoAssignNow(r) /\ nextAssignmentRetry(r) <= MaxRetries => HasActive(r, "named")'
       /\ \A content \in Content :
            /\ persistDraft(content) => proposal'.answers = content
            /\ submitProposal(content) => SubmitRead(content)'
       /\ \A verdict \in Verdict : DecideNow(verdict) => decision' = verdict]_vars
=============================================================================
