------------------------------ MODULE Decisions ------------------------------
(***************************************************************************)
(* The decision on a proposal and the session an acceptance materializes   *)
(* (apps/api/src/features/decisions/decision-service.ts and acceptance.ts),*)
(* composed with the call for papers and the review workflow: the owner,   *)
(* the organizers and the reviewers act on one proposal, and one request   *)
(* of any of them may be overtaken by others between its queries and its   *)
(* batch, or die there.                                                    *)
(***************************************************************************)
EXTENDS ReviewWorkflow

VARIABLES
    decision,   \* the decisions row of the proposal
    session     \* the program session of the proposal, with its acceptance

decisionVars == <<decision, session>>

vars == <<cfpVars, reviewVars, decisionVars, request>>

\* A waitlist decision is stored as a rejection is: no acceptance follows.
Verdict == {"accept", "reject"}

NoSession == [row |-> "none", coPresents |-> FALSE]

(***************************************************************************)
(* recordDecision.  The title and abstract of the session are those that   *)
(* decisionSource read, its presenters those that the batch finds.         *)
(***************************************************************************)
DecideRead(row) ==
    /\ decision = "none"
    /\ UnderReview
    /\ row = proposal.row

\* The batch revokes every active row that has no scorecard.
RevokeUnscored ==
    rows' = [r \in Reviewer |-> [k \in DOMAIN rows[r] |->
                IF Active(rows[r][k]) /\ rows[r][k].revision = 0
                THEN [rows[r][k] EXCEPT !.stage = "revoked"]
                ELSE rows[r][k]]]

\* The session, its acceptance and each of its presenters are inserted unless
\* they are there.
acceptanceStatements(row) ==
    session' = [row |-> IF session = NoSession THEN row ELSE session.row,
                coPresents |-> session.coPresents \/ Presents]

\* The same decision is sent again, or has lost to itself: an acceptance repeats
\* its batch, with the proposal as it is now.
materializeAcceptance(verdict) ==
    IF verdict = decision /\ decision = "accept"
    THEN acceptanceStatements(proposal.row)
    ELSE UNCHANGED session

\* A proposal has one decision: the loser of a race is answered as a replay of
\* the same decision or as a conflict.
DecideWrite(verdict, row) ==
    /\ UNCHANGED <<open, presenter, window, pool, plan>>
    /\ IF decision = "none" /\ proposal.status \in {"submitted", "in_review", "decided"}
       THEN /\ decision' = verdict
            /\ proposal' = [proposal EXCEPT !.status = "decided"]
            /\ RevokeUnscored
            /\ IF verdict = "accept" THEN acceptanceStatements(row) ELSE UNCHANGED session
       ELSE /\ UNCHANGED <<proposal, rows, decision>>
            /\ materializeAcceptance(verdict)

\* The request for a decision that is there.
DecideAgain(verdict) ==
    /\ decision = verdict
    /\ materializeAcceptance(verdict)
    /\ UNCHANGED <<cfpVars, reviewVars, decision, request>>

(***************************************************************************)
(* Requests that run at once.                                              *)
(***************************************************************************)
AssignNow(r, round) ==
    LET retry == nextAssignmentRetry(r) IN
    /\ AssignRead(r, round, retry, activeEvaluationPlan(round))
    /\ AssignWrite(r, round, retry, activeEvaluationPlan(round))
    /\ UNCHANGED <<decisionVars, request>>

AutoAssignNow(r) ==
    /\ AutoRead(plan) /\ r \in Unblocked /\ AutoWrite(r, nextAssignmentRetry(r), plan)
    /\ UNCHANGED <<decisionVars, request>>

ScoreNow(r, k) ==
    LET base == rows[r][k].revision IN
    /\ ScoreRead(r, k, base) /\ ScoreWrite(r, k, base)
    /\ UNCHANGED <<decisionVars, request>>

DecideNow(verdict) ==
    /\ DecideRead(proposal.row) /\ DecideWrite(verdict, proposal.row)
    /\ UNCHANGED request

OwnerNow == CfpStep /\ UNCHANGED <<reviewVars, decisionVars, request>>

SeatNow(r, k) ==
    /\ \/ Revoke(r, k)
       \/ Accept(r, k) \/ Decline(r, k) \/ Recuse(r, k)
       \/ DeclareConflict(r, k)
    /\ UNCHANGED <<decisionVars, request>>

RoundNow ==
    /\ \/ PatchRound
       \/ createEvaluationPlanVersion
       \/ \E r \in Reviewer : AddToPool(r) \/ RemoveFromPool(r)
    /\ UNCHANGED <<decisionVars, request>>

(***************************************************************************)
(* The overtaken request.                                                  *)
(***************************************************************************)
Enter(q) ==
    /\ request = Idle
    /\ request' = q
    /\ UNCHANGED <<cfpVars, reviewVars, decisionVars>>

OwnerEnters == \E q \in OwnerRequests : OwnerReads(q) /\ Enter(q)

AssignEnters(r, round) ==
    LET retry == nextAssignmentRetry(r)
        version == activeEvaluationPlan(round)
    IN  /\ AssignRead(r, round, retry, version)
        /\ Enter([kind |-> "assign", reviewer |-> r, round |-> round, retry |-> retry,
                  plan |-> version])

AutoAssignEnters ==
    /\ AutoRead(plan) /\ Unblocked # {}
    /\ Enter([kind |-> "auto", left |-> Unblocked, plan |-> plan,
              retries |-> [r \in Reviewer |-> nextAssignmentRetry(r)]])

ScoreEnters(r, k) ==
    LET base == rows[r][k].revision IN
    /\ ScoreRead(r, k, base)
    /\ Enter([kind |-> "score", reviewer |-> r, row |-> k, base |-> base])

DecideEnters(verdict) ==
    /\ DecideRead(proposal.row)
    /\ Enter([kind |-> "decide", verdict |-> verdict, row |-> proposal.row])

OwnerFinishes ==
    /\ OwnerWrites
    /\ request' = Idle
    /\ UNCHANGED <<reviewVars, decisionVars>>

AssignFinishes ==
    /\ request.kind = "assign"
    /\ AssignWrite(request.reviewer, request.round, request.retry, request.plan)
    /\ request' = Idle
    /\ UNCHANGED decisionVars

\* One insert of the automatic assignment: the last, if it succeeds.
AutoAssignTries(r) ==
    /\ request.kind = "auto" /\ r \in request.left
    /\ AutoWrite(r, request.retries[r], request.plan)
    /\ request' = IF \/ MayInsert(r, "named", request.retries[r], request.plan)
                     \/ request.left = {r}
                  THEN Idle
                  ELSE [request EXCEPT !.left = @ \ {r}]
    /\ UNCHANGED decisionVars

ScoreFinishes ==
    /\ request.kind = "score"
    /\ ScoreWrite(request.reviewer, request.row, request.base)
    /\ request' = Idle
    /\ UNCHANGED decisionVars

DecideFinishes ==
    /\ request.kind = "decide"
    /\ DecideWrite(request.verdict, request.row)
    /\ request' = Idle

\* The process dies, or a query of the request fails, before the batch.
Dies ==
    /\ request # Idle
    /\ request' = Idle
    /\ UNCHANGED <<cfpVars, reviewVars, decisionVars>>

Init ==
    /\ CfpInit
    /\ ReviewInit
    /\ decision = "none"
    /\ session = NoSession
    /\ request = Idle

Next ==
    \/ OwnerNow \/ OwnerEnters \/ OwnerFinishes
    \/ \E r \in Reviewer :
        \/ \E round \in Round : AssignNow(r, round) \/ AssignEnters(r, round)
        \/ AutoAssignNow(r) \/ AutoAssignTries(r)
        \/ \E k \in DOMAIN rows[r] : SeatNow(r, k) \/ ScoreNow(r, k) \/ ScoreEnters(r, k)
    \/ AssignFinishes
    \/ AutoAssignEnters
    \/ ScoreFinishes
    \/ RoundNow
    \/ \E verdict \in Verdict : DecideNow(verdict) \/ DecideEnters(verdict) \/ DecideAgain(verdict)
    \/ DecideFinishes
    \/ Dies

Spec == Init /\ [][Next]_vars

(***************************************************************************)
(* Properties.                                                             *)
(***************************************************************************)

\* Requests hold what their handler reads and nothing else.
Request ==
    {Idle} \cup OwnerRequests
    \cup [kind : {"assign"}, reviewer : Reviewer, round : Round, retry : 1..MaxRetries + 1,
          plan : 0..MaxPlan]
    \cup [kind : {"auto"}, left : SUBSET Reviewer, plan : 0..MaxPlan,
          retries : [Reviewer -> 1..MaxRetries + 1]]
    \cup [kind : {"score"}, reviewer : Reviewer, row : 1..MaxRetries, base : 0..MaxRevision]
    \cup [kind : {"decide"}, verdict : Verdict, row : Content]

\* The tables and the request in flight stay within their types: in particular a
\* request that finishes late finds the rows it has read.
SubmissionsTypeOK ==
    /\ CfpTypeOK
    /\ ReviewTypeOK
    /\ decision \in Verdict \cup {"none"}
    /\ session \in {NoSession} \cup [row : Content, coPresents : BOOLEAN]
    /\ request \in Request

\* What the reviewers and the organizers look at stands still: from the first
\* assignment on, nothing the owner has in flight changes the title, the answers
\* or who presents the proposal, however late it is written.
DossierFrozen ==
    [][proposal.status \in {"in_review", "decided"} =>
        /\ proposal'.row = proposal.row
        /\ proposal'.answers = proposal.answers
        /\ Presents' = Presents]_vars

\* A scorecard is written on an accepted assignment without a conflict, by
\* somebody who does not present the proposal, even if he came to own the
\* co-presenter's profile after he opened the form; and no revocation, decision,
\* recusal or declared conflict that races with it takes the assignment away
\* from under a scorecard that is there.  It is filled in for the evaluation plan
\* that was active when the assignment was made, however early that was read and
\* whatever becomes active later.
ScorecardsStand ==
    [][\A r \in Reviewer :
        /\ \A k \in DOMAIN rows[r] :
            LET before == rows[r][k]
                after == rows'[r][k]
            IN  /\ after.revision > 0 => after.stage = "accepted" /\ ~after.conflict
                /\ after.revision # before.revision => ~IsPresenter(r)
                /\ after.plan = before.plan
        /\ \A k \in DOMAIN rows'[r] \ DOMAIN rows[r] :
                rows'[r][k].plan = activeEvaluationPlan(rows'[r][k].round)]_vars

\* After the decision the only open tasks are those of the named round: an
\* assignment to the default round that was read before the decision and is
\* written after it leaves nobody with a scorecard he cannot send.
DecisionClosesDefaultRound ==
    proposal.status = "decided" =>
        \A r \in Reviewer : \A k \in DOMAIN rows[r] :
            Active(rows[r][k]) /\ rows[r][k].revision = 0 => rows[r][k].round = "named"

\* An accepted proposal has its session, a proposal that is not accepted has
\* none, and the session is presented by those who present the proposal, also
\* when the co-presenter joined or left while the decision was on its way.
AcceptanceWhole ==
    /\ (decision = "accept") = (session # NoSession)
    /\ (decision # "none") = (proposal.status = "decided")
    /\ session # NoSession => session.coPresents = Presents

\* What a decision leaves behind, whichever request was on its way when it came: no
\* scorecard that cannot be sent, and the session that belongs to it.
DecisionIsWhole == DecisionClosesDefaultRound /\ AcceptanceWhole
=============================================================================
