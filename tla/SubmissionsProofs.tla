-------------------------- MODULE SubmissionsProofs --------------------------
(***************************************************************************)
(* What the owner, the organizers and the reviewers of a proposal can rely *)
(* on, for any number of reviewers, assignments, revisions and versions of *)
(* the plan, one request of any of them being overtaken by others.         *)
(*                                                                         *)
(* A handler's write decides by the tables as they are by then, so the     *)
(* invariant says almost nothing of the request in flight: that it names   *)
(* rows that are there, and carries values of the right type.  The rest    *)
(* is about the tables: what an assignment's stage, conflict, scorecard,   *)
(* round and plan have to do with each other, with the pool and with the   *)
(* proposal.                                                               *)
(***************************************************************************)
EXTENDS ReviewScreens, TLAPS, SequenceTheorems, FiniteSetTheorems

Typed ==
    /\ CfpTypeOK
    /\ rows \in [Reviewer -> Seq(Row)]
    /\ \A r \in Reviewer : Len(rows[r]) <= MaxRetries
    /\ window \in BOOLEAN
    /\ pool \in SUBSET Reviewer
    /\ plan \in 0..MaxPlan
    /\ decision \in Verdict \cup {"none"}
    /\ session \in {NoSession} \cup [row : Content, coPresents : BOOLEAN]
    /\ request \in Request

\* A scorecard in flight is for an assignment that is there.
NamesRow(q) == q.kind = "score" => q.row \in DOMAIN rows[q.reviewer]

\* An assignment of reviewer r.
Sound(r, row) ==
    /\ row.revision > 0 => row.stage = "accepted" /\ ~row.conflict
    /\ row.conflict => row.stage \in {"withdrawn", "revoked"}
    /\ Active(row) /\ row.round = "named" => r \in pool
    /\ row.plan <= plan
    /\ proposal.status = "decided" /\ Active(row) /\ row.revision = 0 => row.round = "named"
    /\ proposal.status \in {"in_review", "decided"}

IInv ==
    /\ Typed
    /\ NamesRow(request)
    /\ \A r \in Reviewer : \A k \in DOMAIN rows[r] : Sound(r, rows[r][k])
    /\ AcceptanceWhole

\* What no step does.
Steady ==
    /\ proposal.status \in {"in_review", "decided"} =>
        /\ proposal'.row = proposal.row
        /\ proposal'.answers = proposal.answers
        /\ Presents' = Presents
    /\ \A r \in Reviewer : \A k \in DOMAIN rows[r] :
        /\ k \in DOMAIN rows'[r]
        /\ rows'[r][k].revision # rows[r][k].revision => ~IsPresenter(r)
        /\ rows'[r][k].plan = rows[r][k].plan
    /\ \A r \in Reviewer : \A k \in DOMAIN rows'[r] \ DOMAIN rows[r] :
        rows'[r][k].plan = activeEvaluationPlan(rows'[r][k].round)

-----------------------------------------------------------------------------
(***************************************************************************)
(* Requests and statements.                                                *)
(***************************************************************************)

\* What a request in flight carries.
LEMMA Carries ==
  ASSUME NEW q \in Request
  PROVE  /\ q.kind \in {"save", "submit"} => q.content \in Content
         /\ q.kind = "assign" =>
              /\ q.reviewer \in Reviewer /\ q.round \in Round
              /\ q.retry \in 1..MaxRetries + 1 /\ q.plan \in 0..MaxPlan
         /\ q.kind = "auto" =>
              /\ q = [kind |-> "auto", left |-> q.left, plan |-> q.plan, retries |-> q.retries]
              /\ q.left \in SUBSET Reviewer /\ q.plan \in 0..MaxPlan
              /\ q.retries \in [Reviewer -> 1..MaxRetries + 1]
         /\ q.kind = "score" =>
              /\ q.reviewer \in Reviewer /\ q.row \in 1..MaxRetries /\ q.base \in 0..MaxRevision
         /\ q.kind = "decide" => q.verdict \in Verdict /\ q.row \in Content
<1>1. CASE q \in {Idle} \cup OwnerRequests
  BY <1>1 DEF Idle, OwnerRequests
<1>2. CASE q \in [kind : {"assign"}, reviewer : Reviewer, round : Round,
                  retry : 1..MaxRetries + 1, plan : 0..MaxPlan]
  BY <1>2
<1>3. CASE q \in [kind : {"auto"}, left : SUBSET Reviewer, plan : 0..MaxPlan,
                  retries : [Reviewer -> 1..MaxRetries + 1]]
  BY <1>3
<1>4. CASE q \in [kind : {"score"}, reviewer : Reviewer, row : 1..MaxRetries,
                  base : 0..MaxRevision]
  BY <1>4
<1>5. CASE q \in [kind : {"decide"}, verdict : Verdict, row : Content]
  BY <1>5
<1>6. QED
  BY <1>1, <1>2, <1>3, <1>4, <1>5 DEF Request

\* The assignments of a reviewer are numbered from 1, and each is a row.
LEMMA Numbered ==
  ASSUME Typed, NEW r \in Reviewer
  PROVE  /\ rows[r] \in Seq(Row)
         /\ Len(rows[r]) \in 0..MaxRetries
         /\ DOMAIN rows[r] = 1..Len(rows[r])
         /\ \A k \in DOMAIN rows[r] : rows[r][k] \in Row /\ k \in 1..MaxRetries
         /\ nextAssignmentRetry(r) \in 1..MaxRetries + 1
<1>1. rows[r] \in Seq(Row) /\ Len(rows[r]) <= MaxRetries /\ MaxRetries \in Nat
  BY ReviewAssumption DEF Typed
<1>2. Len(rows[r]) \in Nat /\ DOMAIN rows[r] = 1..Len(rows[r])
  BY <1>1, LenProperties
<1>3. \A k \in 1..Len(rows[r]) : rows[r][k] \in Row
  BY <1>1, ElementOfSeq
<1>4. QED
  BY <1>1, <1>2, <1>3 DEF nextAssignmentRetry

\* A sequence of assignments with one of them changed is one of the same length.
LEMMA Edited ==
  ASSUME NEW s \in Seq(Row), NEW k \in DOMAIN s, NEW new \in Row
  PROVE  /\ [s EXCEPT ![k] = new] \in Seq(Row)
         /\ Len([s EXCEPT ![k] = new]) = Len(s)
         /\ DOMAIN [s EXCEPT ![k] = new] = DOMAIN s
<1>1. k \in 1..Len(s)
  BY LenProperties
<1>2. QED
  BY <1>1, ExceptSeq

-----------------------------------------------------------------------------
(***************************************************************************)
(* What the owner, the form and the claims do.                             *)
(***************************************************************************)

\* A write of the owner's, whenever it comes, leaves a proposal alone that is no
\* longer his to edit, and neither decides it nor takes it back.
OwnerWrote ==
    /\ CfpTypeOK'
    /\ proposal'.status = "decided" <=> proposal.status = "decided"
    /\ proposal.status \in {"in_review", "decided"} =>
        /\ proposal' = proposal
        /\ Presents' = Presents

LEMMA OwnerWritesAlone ==
  ASSUME CfpTypeOK, request \in Request, OwnerWrites
  PROVE  OwnerWrote
<1> USE DEF CfpTypeOK, OwnerWrote, Editable, Presents, Content, Status, CoPresenter
<1>1. request.kind \in {"save", "submit"} => request.content \in Content
  BY Carries
<1>2. CASE request.kind = "save" /\ SaveWrite(request.content)
  BY <1>1, <1>2 DEF SaveWrite
<1>3. CASE request.kind = "submit" /\ SubmitWrite(request.content)
  BY <1>1, <1>3 DEF SubmitWrite
<1>4. CASE request.kind = "join" /\ JoinWrite
  BY <1>4 DEF JoinWrite
<1>5. CASE request.kind = "leave" /\ LeaveWrite
  BY <1>5 DEF LeaveWrite
<1>6. QED
  BY <1>2, <1>3, <1>4, <1>5 DEF OwnerWrites

LEMMA OwnerStepsAlone ==
  ASSUME CfpTypeOK, CfpStep
  PROVE  OwnerWrote
<1> USE DEF CfpTypeOK, OwnerWrote, Editable, Presents, Content, Status, CoPresenter
<1>1. CASE SaveForm
  BY <1>1 DEF SaveForm
<1>2. ASSUME NEW content \in Content, CreateProposal(content) PROVE OwnerWrote
  BY <1>2 DEF CreateProposal, CreateRead
<1>3. ASSUME NEW content \in Content, SaveWrite(content) PROVE OwnerWrote
  BY <1>3 DEF SaveWrite
<1>4. ASSUME NEW content \in Content, SubmitWrite(content) PROVE OwnerWrote
  BY <1>4 DEF SubmitWrite
<1>5. CASE JoinWrite
  BY <1>5 DEF JoinWrite
<1>6. CASE LeaveWrite
  BY <1>6 DEF LeaveWrite
<1>7. ASSUME NEW account \in Reviewer, ClaimProfile(account) PROVE OwnerWrote
  BY <1>7, CfpAssumption DEF ClaimProfile
<1>8. QED
  BY <1>1, <1>2, <1>3, <1>4, <1>5, <1>6, <1>7 DEF CfpStep, OwnerStep

\* The tables of the reviewers and of the decision stay as they are, and so does
\* the request, or it ends.
Aside == UNCHANGED <<reviewVars, decisionVars>> /\ request' \in {request, Idle}

LEMMA OwnerInv ==
  ASSUME IInv, OwnerWrote, Aside
  PROVE  IInv' /\ Steady
<1> USE DEF IInv, OwnerWrote, Aside, reviewVars, decisionVars
<1>1. Typed'
  BY DEF Typed, Request
<1>2. NamesRow(request)'
  BY DEF NamesRow, Idle
<1>3. ASSUME NEW r \in Reviewer, NEW k \in DOMAIN rows[r] PROVE Sound(r, rows[r][k])'
  BY <1>3 DEF Sound, Active
<1>4. AcceptanceWhole'
  BY DEF AcceptanceWhole, Typed
<1>5. Steady
  BY DEF Steady
<1>6. QED
  BY <1>1, <1>2, <1>3, <1>4, <1>5

-----------------------------------------------------------------------------
(***************************************************************************)
(* What an organizer does to the round, and requests without a write.      *)
(***************************************************************************)

\* A request comes, goes on or ends, and no table changes.
LEMMA NoTable ==
  ASSUME IInv, UNCHANGED <<cfpVars, reviewVars, decisionVars>>,
         request' \in Request, NamesRow(request')
  PROVE  IInv' /\ Steady
<1> USE DEF IInv, cfpVars, reviewVars, decisionVars
<1>1. Typed'
  BY DEF Typed, CfpTypeOK
<1>2. NamesRow(request)'
  BY DEF NamesRow
<1>3. ASSUME NEW r \in Reviewer, NEW k \in DOMAIN rows[r] PROVE Sound(r, rows[r][k])'
  BY <1>3 DEF Sound, Active
<1>4. AcceptanceWhole'
  BY DEF AcceptanceWhole, Presents
<1>5. Steady
  BY DEF Steady, Presents
<1>6. QED
  BY <1>1, <1>2, <1>3, <1>4, <1>5

LEMMA RoundInv ==
  ASSUME IInv, RoundNow
  PROVE  IInv' /\ Steady
<1> USE DEF IInv, RoundNow, PatchRound, createEvaluationPlanVersion, AddToPool, RemoveFromPool,
            cfpVars, decisionVars
<1>1. plan \in 0..MaxPlan /\ pool \in SUBSET Reviewer /\ window \in BOOLEAN
  BY DEF Typed
<1>2. plan' \in 0..MaxPlan /\ plan <= plan'
  BY <1>1, ReviewAssumption
<1>3. pool' \in SUBSET Reviewer /\ window' \in BOOLEAN
  BY <1>1
<1>4. Typed'
  BY <1>2, <1>3 DEF Typed, CfpTypeOK
<1>5. NamesRow(request)'
  BY DEF NamesRow
<1>6. ASSUME NEW r \in Reviewer, NEW k \in DOMAIN rows[r] PROVE Sound(r, rows[r][k])'
  <2>1. Sound(r, rows[r][k]) /\ rows[r][k] \in Row
    BY Numbered
  <2>2. rows[r][k].plan \in 0..MaxPlan
    BY <2>1 DEF Row
  <2>3. rows[r][k].plan <= plan'
    BY <1>1, <1>2, <2>1, <2>2, ReviewAssumption DEF Sound
  <2>4. Active(rows[r][k]) /\ rows[r][k].round = "named" => r \in pool'
    BY <2>1 DEF Sound, HasActive
  <2>5. QED
    BY <2>1, <2>3, <2>4 DEF Sound, Active
<1>7. AcceptanceWhole'
  BY DEF AcceptanceWhole, Presents
<1>8. Steady
  BY DEF Steady, Presents
<1>9. QED
  BY <1>4, <1>5, <1>6, <1>7, <1>8

-----------------------------------------------------------------------------
(***************************************************************************)
(* What the reviewers and the organizers do to one assignment.             *)
(***************************************************************************)

\* The assignment k of r becomes `new', and nothing else changes; the request in
\* flight goes on or ends.
Becomes(r, k, new) ==
    /\ rows' = [rows EXCEPT ![r] = [rows[r] EXCEPT ![k] = new]]
    /\ UNCHANGED <<cfpVars, window, pool, plan, decisionVars>>
    /\ request' \in {request, Idle}

LEMMA OneRow ==
  ASSUME IInv, NEW r \in Reviewer, NEW k \in DOMAIN rows[r], NEW new \in Row,
         Becomes(r, k, new), Sound(r, new),
         new.plan = rows[r][k].plan,
         new.revision # rows[r][k].revision => ~IsPresenter(r)
  PROVE  IInv' /\ Steady
<1> USE DEF IInv, Becomes, cfpVars, decisionVars
<1>1. rows \in [Reviewer -> Seq(Row)] /\ rows[r] \in Seq(Row)
  BY DEF Typed
<1> DEFINE edited == [rows[r] EXCEPT ![k] = new]
<1>2. edited \in Seq(Row) /\ Len(edited) = Len(rows[r]) /\ DOMAIN edited = DOMAIN rows[r]
  BY <1>1, Edited
<1>3. edited[k] = new /\ \A j \in DOMAIN rows[r] \ {k} : edited[j] = rows[r][j]
  BY <1>1
<1> HIDE DEF edited
<1>4. rows' = [rows EXCEPT ![r] = edited]
  BY DEF edited
<1>5. /\ rows'[r] = edited
      /\ \A q \in Reviewer \ {r} : rows'[q] = rows[q]
      /\ rows' \in [Reviewer -> Seq(Row)]
  BY <1>1, <1>2, <1>4
<1>6. Typed'
  BY <1>2, <1>5 DEF Typed, Request, CfpTypeOK
<1>7. \A q \in Reviewer : DOMAIN rows'[q] = DOMAIN rows[q]
  BY <1>2, <1>5
<1>8. NamesRow(request)'
  BY <1>7, Carries DEF NamesRow, Idle, Typed
<1>9. ASSUME NEW q \in Reviewer, NEW j \in DOMAIN rows'[q] PROVE Sound(q, rows[q][j])'
  <2>1. CASE q = r /\ j = k
    BY <1>3, <1>5, <2>1 DEF Sound, Active
  <2>2. CASE ~(q = r /\ j = k)
    <3>1. rows'[q][j] = rows[q][j] /\ j \in DOMAIN rows[q]
      BY <1>3, <1>5, <1>7, <1>9, <2>2
    <3>2. Sound(q, rows[q][j])
      BY <3>1
    <3>3. QED
      BY <3>1, <3>2 DEF Sound, Active
  <2>3. QED
    BY <2>1, <2>2
<1>10. AcceptanceWhole'
  BY DEF AcceptanceWhole, Presents
<1>11. Steady
  <2>1. ASSUME NEW q \in Reviewer, NEW j \in DOMAIN rows[q]
        PROVE  /\ rows'[q][j].revision # rows[q][j].revision => ~IsPresenter(q)
               /\ rows'[q][j].plan = rows[q][j].plan
    BY <1>3, <1>5, <2>1
  <2>2. QED
    BY <1>7, <2>1 DEF Steady, Presents
<1>12. QED
  BY <1>6, <1>8, <1>9, <1>10, <1>11

\* An answer of the reviewer or a revocation: no scorecard is there, and the
\* assignment does not become open again.
LEMMA SeatInv ==
  ASSUME IInv, NEW r \in Reviewer, NEW k \in DOMAIN rows[r], SeatNow(r, k)
  PROVE  IInv' /\ Steady
<1> DEFINE row == rows[r][k]
<1>1. row \in Row /\ Sound(r, row)
  BY Numbered DEF IInv
<1>2. rows \in [Reviewer -> Seq(Row)] /\ rows[r] \in Seq(Row)
  BY DEF IInv, Typed
<1>3. ASSUME NEW stage \in {"accepted", "withdrawn", "revoked"},
             rows' = [rows EXCEPT ![r][k].stage = stage],
             UNCHANGED <<cfpVars, window, pool, plan, decisionVars, request>>,
             Active(row), row.revision = 0, ~row.conflict \/ stage = "revoked"
      PROVE  IInv' /\ Steady
  <2> DEFINE new == [row EXCEPT !.stage = stage]
  <2>1. /\ new \in Row
        /\ new.stage = stage /\ new.round = row.round /\ new.conflict = row.conflict
        /\ new.revision = row.revision /\ new.plan = row.plan
    BY <1>1, <1>3 DEF Row
  <2>2. Becomes(r, k, new)
    BY <1>2, <1>3 DEF Becomes
  <2> HIDE DEF new
  <2>3. Sound(r, new)
    BY <1>1, <1>3, <2>1 DEF Sound, Active
  <2>4. QED
    BY <2>1, <2>2, <2>3, OneRow
<1>4. CASE Revoke(r, k)
  BY <1>3, <1>4 DEF Revoke, MayRevoke, SeatNow, cfpVars, decisionVars
<1>5. CASE Accept(r, k)
  BY <1>1, <1>3, <1>5 DEF Accept, MayAnswer, MayAct, Sound, SeatNow, cfpVars, decisionVars
<1>6. CASE Decline(r, k)
  BY <1>1, <1>3, <1>6 DEF Decline, MayAnswer, MayAct, Sound, SeatNow, cfpVars, decisionVars
<1>7. CASE Recuse(r, k)
  BY <1>1, <1>3, <1>7 DEF Recuse, MayRecuse, MayAct, Sound, SeatNow, cfpVars, decisionVars
<1>8. CASE DeclareConflict(r, k)
  <2> DEFINE new == [row EXCEPT !.stage = "withdrawn", !.conflict = TRUE]
  <2>1. /\ new \in Row
        /\ new.stage = "withdrawn" /\ new.round = row.round /\ new.conflict
        /\ new.revision = row.revision /\ new.plan = row.plan
    BY <1>1 DEF Row
  <2>2. Becomes(r, k, new)
    BY <1>2, <1>8 DEF DeclareConflict, SeatNow, Becomes
  <2> HIDE DEF new
  <2>3. Sound(r, new)
    BY <1>1, <1>8, <2>1 DEF DeclareConflict, MayDeclare, MayAct, Sound, Active
  <2>4. QED
    BY <2>1, <2>2, <2>3, OneRow
<1>9. QED
  BY <1>4, <1>5, <1>6, <1>7, <1>8 DEF SeatNow

\* A scorecard, sent at once or written late.
LEMMA ScoreInv ==
  ASSUME IInv, NEW r \in Reviewer, NEW k \in DOMAIN rows[r], NEW base \in 0..MaxRevision,
         ScoreWrite(r, k, base), UNCHANGED decisionVars, request' \in {request, Idle}
  PROVE  IInv' /\ Steady
<1> DEFINE row == rows[r][k]
<1>1. row \in Row /\ Sound(r, row)
  BY Numbered DEF IInv
<1>2. rows \in [Reviewer -> Seq(Row)] /\ rows[r] \in Seq(Row)
  BY DEF IInv, Typed
<1>3. CASE rows' = rows
  <2>1. UNCHANGED <<cfpVars, reviewVars, decisionVars>>
    BY <1>3 DEF ScoreWrite, reviewVars
  <2>2. request' \in Request /\ NamesRow(request')
    BY DEF IInv, Typed, NamesRow, Request, Idle
  <2>3. QED
    BY <2>1, <2>2, NoTable
<1>4. CASE rows' # rows
  <2> DEFINE new == [row EXCEPT !.revision = base + 1]
  <2>1. /\ IF base = 0 THEN FirstAccepted(r, k) ELSE CorrectionAccepted(r, k, base)
        /\ base < MaxRevision
        /\ rows' = [rows EXCEPT ![r][k].revision = base + 1]
    BY <1>4 DEF ScoreWrite
  <2>2. row.stage = "accepted" /\ ~row.conflict /\ ~IsPresenter(r)
    BY <2>1 DEF FirstAccepted, CorrectionAccepted
  <2>3. base + 1 \in 0..MaxRevision /\ base + 1 > 0
    BY <2>1, ReviewAssumption
  <2>4. /\ new \in Row
        /\ new.stage = row.stage /\ new.round = row.round /\ new.conflict = row.conflict
        /\ new.revision = base + 1 /\ new.plan = row.plan
    BY <1>1, <2>3 DEF Row
  <2>5. Becomes(r, k, new)
    BY <1>2, <2>1 DEF ScoreWrite, Becomes
  <2> HIDE DEF new
  <2>6. Sound(r, new)
    BY <1>1, <2>2, <2>3, <2>4 DEF Sound, Active
  <2>7. QED
    BY <2>2, <2>4, <2>5, <2>6, OneRow
<1>5. QED
  BY <1>3, <1>4

-----------------------------------------------------------------------------
(***************************************************************************)
(* A new assignment.                                                       *)
(***************************************************************************)

LEMMA InsertInv ==
  ASSUME IInv, NEW r \in Reviewer, NEW round \in Round, NEW retry, NEW version \in 0..MaxPlan,
         MayInsert(r, round, retry, version), Insert(r, round, version),
         UNCHANGED decisionVars, request' \in Request,
         request'.kind = "score" => request' = request
  PROVE  IInv' /\ Steady
<1> USE DEF IInv, Insert, decisionVars
<1> DEFINE new == [round |-> round, stage |-> "pending", conflict |-> FALSE, revision |-> 0,
                   plan |-> version]
<1>1. new \in Row
  BY ReviewAssumption DEF Row
<1>2. rows \in [Reviewer -> Seq(Row)] /\ rows[r] \in Seq(Row) /\ Len(rows[r]) \in Nat
  BY Numbered DEF Typed
<1>3. /\ rows' = [rows EXCEPT ![r] = Append(rows[r], new)]
      /\ Append(rows[r], new) \in Seq(Row)
      /\ Len(Append(rows[r], new)) = Len(rows[r]) + 1
      /\ \A k \in 1..Len(rows[r]) : Append(rows[r], new)[k] = rows[r][k]
      /\ Append(rows[r], new)[Len(rows[r]) + 1] = new
  BY <1>1, <1>2, AppendProperties
<1>4. /\ new.round = round /\ new.stage = "pending" /\ ~new.conflict
      /\ new.revision = 0 /\ new.plan = version
  OBVIOUS
<1> HIDE DEF new
<1>5. /\ rows' \in [Reviewer -> Seq(Row)]
      /\ rows'[r] = Append(rows[r], new)
      /\ \A q \in Reviewer \ {r} : rows'[q] = rows[q]
  BY <1>2, <1>3
<1>6. /\ version = activeEvaluationPlan(round)
      /\ Len(rows[r]) + 1 <= MaxRetries
      /\ Reviewable(round)
      /\ round = "named" => r \in pool
  BY DEF MayInsert, nextAssignmentRetry
<1>7. DOMAIN rows[r] = 1..Len(rows[r]) /\ DOMAIN rows'[r] = 1..Len(rows[r]) + 1
  BY <1>2, <1>3, <1>5, LenProperties
<1>8. proposal' \in [status : Status, row : Content, answers : Content]
  BY DEF Typed, CfpTypeOK, Status
<1>9. /\ proposal'.row = proposal.row /\ proposal'.answers = proposal.answers
      /\ proposal'.status = "decided" <=> proposal.status = "decided"
      /\ proposal'.status \in {"in_review", "decided"}
  BY <1>6 DEF Typed, CfpTypeOK, Reviewable, UnderReview
<1>10. Typed'
  BY <1>3, <1>5, <1>6, <1>8 DEF Typed, CfpTypeOK
<1>11. ASSUME NEW q \in Reviewer, NEW k \in DOMAIN rows'[q]
       PROVE  \/ k \in DOMAIN rows[q] /\ rows'[q][k] = rows[q][k]
              \/ q = r /\ k \notin DOMAIN rows[q] /\ rows'[q][k] = new
  BY <1>2, <1>3, <1>5, <1>7, <1>11
<1>12. \A q \in Reviewer : DOMAIN rows[q] \subseteq DOMAIN rows'[q]
  BY <1>2, <1>5, <1>7
<1>13. NamesRow(request)'
  BY <1>12, Carries DEF NamesRow, Typed
<1>14. Sound(r, new)'
  <2>1. version <= plan
    BY <1>6 DEF activeEvaluationPlan, Typed
  <2>2. proposal.status = "decided" => round = "named"
    BY <1>6 DEF Reviewable, UnderReview
  <2>3. QED
    BY <1>4, <1>6, <1>9, <2>1, <2>2 DEF Sound, Active
<1>15. ASSUME NEW q \in Reviewer, NEW k \in DOMAIN rows'[q] PROVE Sound(q, rows[q][k])'
  <2>1. CASE k \in DOMAIN rows[q] /\ rows'[q][k] = rows[q][k]
    <3>1. Sound(q, rows[q][k])
      BY <2>1
    <3>2. QED
      BY <1>9, <2>1, <3>1 DEF Sound, Active
  <2>2. CASE q = r /\ rows'[q][k] = new
    BY <1>14, <2>2 DEF Sound, Active
  <2>3. QED
    BY <1>11, <1>15, <2>1, <2>2
<1>16. AcceptanceWhole'
  BY <1>9 DEF AcceptanceWhole, Presents
<1>17. Steady
  BY <1>4, <1>6, <1>9, <1>11, <1>12, <1>7 DEF Steady, Presents, activeEvaluationPlan
<1>18. QED
  BY <1>10, <1>13, <1>15, <1>16, <1>17

-----------------------------------------------------------------------------
(***************************************************************************)
(* The decision.                                                           *)
(***************************************************************************)

\* The batch of an acceptance makes the session, or leaves the one that is there:
\* its presenters are those of the proposal.
LEMMA AcceptanceMakes ==
  ASSUME Typed, AcceptanceWhole, NEW row \in Content, acceptanceStatements(row)
  PROVE  /\ session' \in [row : Content, coPresents : BOOLEAN]
         /\ session' # NoSession
         /\ session'.coPresents = Presents
         /\ session # NoSession => session' = session
<1>1. session \in {NoSession} \cup [row : Content, coPresents : BOOLEAN] /\ Presents \in BOOLEAN
  BY DEF Typed, Presents
<1>2. CASE session = NoSession
  <2>1. session' = [row |-> row, coPresents |-> Presents]
    BY <1>1, <1>2 DEF acceptanceStatements, NoSession
  <2>2. QED
    BY <1>1, <1>2, <2>1 DEF Content, NoSession
<1>3. CASE session # NoSession
  <2>1. session \in [row : Content, coPresents : BOOLEAN] /\ session.coPresents = Presents
    BY <1>1, <1>3 DEF AcceptanceWhole
  <2>2. session' = [row |-> session.row, coPresents |-> session.coPresents]
    BY <1>1, <1>3, <2>1 DEF acceptanceStatements
  <2>3. session' = session
    BY <2>1, <2>2
  <2>4. QED
    BY <1>3, <2>1, <2>3
<1>4. QED
  BY <1>2, <1>3

\* The same decision once more, whatever the proposal says by now.
LEMMA MaterializeInv ==
  ASSUME IInv, NEW verdict \in Verdict, materializeAcceptance(verdict),
         UNCHANGED <<cfpVars, reviewVars, decision>>, request' \in {request, Idle}
  PROVE  IInv' /\ Steady
<1>1. session' = session
  <2>1. CASE verdict = decision /\ decision = "accept"
    <3>1. session # NoSession
      BY <2>1 DEF IInv, AcceptanceWhole
    <3>2. proposal.row \in Content
      BY DEF IInv, Typed, CfpTypeOK
    <3>3. QED
      BY <2>1, <3>1, <3>2, AcceptanceMakes DEF IInv, materializeAcceptance
  <2>2. QED
    BY <2>1 DEF materializeAcceptance
<1>2. request' \in Request /\ NamesRow(request')
  BY DEF IInv, Typed, NamesRow, Request, Idle
<1>3. QED
  BY <1>1, <1>2, NoTable DEF decisionVars

\* What the decision makes of an assignment.
Closed(row) ==
    IF Active(row) /\ row.revision = 0 THEN [row EXCEPT !.stage = "revoked"] ELSE row

LEMMA ClosedRow ==
  ASSUME NEW row \in Row
  PROVE  /\ Closed(row) \in Row
         /\ Closed(row).stage \in {row.stage, "revoked"}
         /\ Closed(row).round = row.round /\ Closed(row).conflict = row.conflict
         /\ Closed(row).revision = row.revision /\ Closed(row).plan = row.plan
         /\ row.revision > 0 => Closed(row) = row
         /\ row.revision = 0 => ~Active(Closed(row))
BY DEF Closed, Row, Active

LEMMA Revoked ==
  ASSUME Typed, RevokeUnscored
  PROVE  /\ rows' \in [Reviewer -> Seq(Row)]
         /\ \A r \in Reviewer :
              /\ DOMAIN rows'[r] = DOMAIN rows[r]
              /\ Len(rows'[r]) = Len(rows[r])
              /\ \A k \in DOMAIN rows[r] : rows'[r][k] = Closed(rows[r][k])
<1> DEFINE revoked(r) == [k \in DOMAIN rows[r] |-> Closed(rows[r][k])]
<1>1. rows' = [r \in Reviewer |-> revoked(r)]
  BY DEF RevokeUnscored, Closed
<1>2. ASSUME NEW r \in Reviewer
      PROVE  /\ revoked(r) \in Seq(Row)
             /\ Len(revoked(r)) = Len(rows[r])
             /\ DOMAIN revoked(r) = DOMAIN rows[r]
  <2>1. DOMAIN rows[r] = 1..Len(rows[r]) /\ Len(rows[r]) \in Nat
    BY Numbered
  <2>2. \A k \in DOMAIN rows[r] : Closed(rows[r][k]) \in Row
    BY Numbered, ClosedRow
  <2>3. revoked(r) \in [1..Len(rows[r]) -> Row]
    BY <2>1, <2>2
  <2>4. QED
    BY <2>1, <2>3, LenProperties
<1>3. QED
  BY <1>1, <1>2

LEMMA DecideInv ==
  ASSUME IInv, NEW verdict \in Verdict, NEW row \in Content,
         DecideWrite(verdict, row), request' \in {request, Idle}
  PROVE  IInv' /\ Steady
<1>1. CASE ~(decision = "none" /\ proposal.status \in {"submitted", "in_review", "decided"})
  <2>1. UNCHANGED <<cfpVars, reviewVars, decision>> /\ materializeAcceptance(verdict)
    BY <1>1 DEF DecideWrite, cfpVars, reviewVars
  <2>2. QED
    BY <2>1, MaterializeInv
<1>2. CASE decision = "none" /\ proposal.status \in {"submitted", "in_review", "decided"}
  <2>1. /\ UNCHANGED <<open, presenter, window, pool, plan>>
        /\ decision' = verdict
        /\ proposal' = [proposal EXCEPT !.status = "decided"]
        /\ RevokeUnscored
        /\ IF verdict = "accept" THEN acceptanceStatements(row) ELSE UNCHANGED session
    BY <1>2 DEF DecideWrite
  <2>2. Typed /\ AcceptanceWhole /\ session = NoSession
    BY <1>2 DEF IInv, AcceptanceWhole
  <2>3. /\ proposal' \in [status : Status, row : Content, answers : Content]
        /\ proposal'.row = proposal.row /\ proposal'.answers = proposal.answers
        /\ proposal'.status = "decided"
    BY <2>1, <2>2 DEF Typed, CfpTypeOK, Status
  <2>4. session' \in {NoSession} \cup [row : Content, coPresents : BOOLEAN]
    BY <2>1, <2>2, AcceptanceMakes DEF Typed
  <2>5. AcceptanceWhole'
    <3>1. CASE verdict = "accept"
      BY <2>1, <2>2, <2>3, <3>1, AcceptanceMakes DEF AcceptanceWhole, Presents
    <3>2. CASE verdict = "reject"
      BY <2>1, <2>2, <2>3, <3>2 DEF AcceptanceWhole, Presents
    <3>3. QED
      BY <3>1, <3>2 DEF Verdict
  <2>6. /\ rows' \in [Reviewer -> Seq(Row)]
        /\ \A r \in Reviewer :
              /\ DOMAIN rows'[r] = DOMAIN rows[r]
              /\ Len(rows'[r]) = Len(rows[r])
              /\ \A k \in DOMAIN rows[r] : rows'[r][k] = Closed(rows[r][k])
    BY <2>1, <2>2, Revoked
  <2>7. request' \in Request
    BY <2>2 DEF Typed, Request
  <2>8. Typed'
    BY <2>1, <2>2, <2>3, <2>4, <2>6, <2>7 DEF Typed, CfpTypeOK
  <2>9. NamesRow(request)'
    BY <2>2, <2>6, Carries DEF IInv, NamesRow, Idle, Typed
  <2>10. ASSUME NEW r \in Reviewer, NEW k \in DOMAIN rows'[r]
         PROVE  /\ Sound(r, rows[r][k])'
                /\ rows'[r][k].revision = rows[r][k].revision
                /\ rows'[r][k].plan = rows[r][k].plan
    <3>1. k \in DOMAIN rows[r] /\ rows'[r][k] = Closed(rows[r][k])
      BY <2>6, <2>10
    <3>2. rows[r][k] \in Row /\ Sound(r, rows[r][k])
      BY <2>2, <3>1, Numbered DEF IInv
    <3>3. rows[r][k].revision \in Nat
      BY <3>2, ReviewAssumption DEF Row
    <3>4. /\ rows'[r][k].stage \in {rows[r][k].stage, "revoked"}
          /\ rows'[r][k].round = rows[r][k].round /\ rows'[r][k].conflict = rows[r][k].conflict
          /\ rows'[r][k].revision = rows[r][k].revision /\ rows'[r][k].plan = rows[r][k].plan
          /\ rows[r][k].revision > 0 => rows'[r][k] = rows[r][k]
          /\ rows[r][k].revision = 0 => rows'[r][k].stage = "revoked"
      BY <3>1, <3>2, ClosedRow DEF Active
    <3>5. QED
      BY <2>1, <3>2, <3>3, <3>4 DEF Sound, Active
  <2>11. Steady
    BY <2>1, <2>3, <2>6, <2>10 DEF Steady, Presents
  <2>12. QED
    BY <2>5, <2>8, <2>9, <2>10, <2>11 DEF IInv
<1>3. QED
  BY <1>1, <1>2

-----------------------------------------------------------------------------
(***************************************************************************)
(* The requests: at once, and overtaken.                                   *)
(***************************************************************************)

LEMMA Versions ==
  ASSUME Typed
  PROVE  plan \in 0..MaxPlan /\ \A round \in Round : activeEvaluationPlan(round) \in 0..MaxPlan
BY ReviewAssumption DEF Typed, activeEvaluationPlan

LEMMA AssignInv ==
  ASSUME IInv, NEW r \in Reviewer, NEW round \in Round, NEW retry, NEW version \in 0..MaxPlan,
         AssignWrite(r, round, retry, version), UNCHANGED decisionVars,
         request' \in {request, Idle}
  PROVE  IInv' /\ Steady
<1>1. request' \in Request /\ NamesRow(request') /\ (request'.kind = "score" => request' = request)
  BY DEF IInv, Typed, NamesRow, Request, Idle
<1>2. CASE MayInsert(r, round, retry, version)
  BY <1>1, <1>2, InsertInv DEF AssignWrite
<1>3. CASE ~MayInsert(r, round, retry, version)
  BY <1>1, <1>3, NoTable DEF AssignWrite
<1>4. QED
  BY <1>2, <1>3

\* The automatic assignment tries one reviewer after the other, with the version
\* and the numbers it has read.
LEMMA AutoInv ==
  ASSUME IInv, NEW r \in Reviewer, AutoAssignTries(r)
  PROVE  IInv' /\ Steady
<1>1. /\ request.kind = "auto"
      /\ request = [kind |-> "auto", left |-> request.left, plan |-> request.plan,
                    retries |-> request.retries]
      /\ request.left \in SUBSET Reviewer /\ request.plan \in 0..MaxPlan
      /\ request.retries \in [Reviewer -> 1..MaxRetries + 1]
  BY Carries DEF IInv, Typed, AutoAssignTries
<1>2. request' \in Request /\ request'.kind # "score"
  <2>1. CASE request' = Idle
    BY <2>1 DEF Request, Idle
  <2>2. CASE request' = [request EXCEPT !.left = @ \ {r}]
    <3>1. request' = [kind |-> "auto", left |-> request.left \ {r}, plan |-> request.plan,
                      retries |-> request.retries]
      BY <1>1, <2>2
    <3>2. QED
      BY <1>1, <3>1 DEF Request
  <2>3. QED
    BY <2>1, <2>2 DEF AutoAssignTries
<1>3. UNCHANGED decisionVars /\ AutoWrite(r, request.retries[r], request.plan) /\ "named" \in Round
  BY DEF AutoAssignTries, Round
<1>4. CASE MayInsert(r, "named", request.retries[r], request.plan)
  BY <1>1, <1>2, <1>3, <1>4, InsertInv DEF AutoWrite
<1>5. CASE ~MayInsert(r, "named", request.retries[r], request.plan)
  <2>1. UNCHANGED <<cfpVars, reviewVars, decisionVars>>
    BY <1>3, <1>5 DEF AutoWrite
  <2>2. NamesRow(request')
    BY <1>2 DEF NamesRow
  <2>3. QED
    BY <1>2, <2>1, <2>2, NoTable
<1>6. QED
  BY <1>4, <1>5

\* Whatever arrives, what it has read is in the tables.
LEMMA EnterInv ==
  ASSUME IInv,
         \/ OwnerEnters
         \/ \E r \in Reviewer, round \in Round : AssignEnters(r, round)
         \/ AutoAssignEnters
         \/ \E r \in Reviewer : \E k \in DOMAIN rows[r] : ScoreEnters(r, k)
         \/ \E verdict \in Verdict : DecideEnters(verdict)
  PROVE  IInv' /\ Steady
<1> USE DEF IInv
<1>1. ASSUME NEW q \in Request, NamesRow(q), Enter(q) PROVE IInv' /\ Steady
  BY <1>1, NoTable DEF Enter
<1>2. CASE OwnerEnters
  BY <1>1, <1>2 DEF OwnerEnters, OwnerRequests, Request, NamesRow
<1>3. ASSUME NEW r \in Reviewer, NEW round \in Round, AssignEnters(r, round)
      PROVE  IInv' /\ Steady
  <2> DEFINE q == [kind |-> "assign", reviewer |-> r, round |-> round,
                   retry |-> nextAssignmentRetry(r), plan |-> activeEvaluationPlan(round)]
  <2>1. q \in Request
    BY Numbered, Versions DEF Request
  <2>2. QED
    BY <1>1, <1>3, <2>1 DEF AssignEnters, NamesRow
<1>4. CASE AutoAssignEnters
  <2> DEFINE q == [kind |-> "auto", left |-> Unblocked, plan |-> plan,
                   retries |-> [r \in Reviewer |-> nextAssignmentRetry(r)]]
  <2>1. Unblocked \in SUBSET Reviewer
    BY DEF Unblocked, Typed
  <2>2. [r \in Reviewer |-> nextAssignmentRetry(r)] \in [Reviewer -> 1..MaxRetries + 1]
    BY Numbered
  <2>3. q \in Request
    BY <2>1, <2>2, Versions DEF Request
  <2>4. QED
    BY <1>1, <1>4, <2>3 DEF AutoAssignEnters, NamesRow
<1>5. ASSUME NEW r \in Reviewer, NEW k \in DOMAIN rows[r], ScoreEnters(r, k)
      PROVE  IInv' /\ Steady
  <2> DEFINE q == [kind |-> "score", reviewer |-> r, row |-> k, base |-> rows[r][k].revision]
  <2>1. k \in 1..MaxRetries /\ rows[r][k].revision \in 0..MaxRevision
    BY Numbered DEF Row
  <2>2. q \in Request /\ NamesRow(q)
    BY <2>1 DEF Request, NamesRow
  <2>3. QED
    BY <1>1, <1>5, <2>2 DEF ScoreEnters
<1>6. ASSUME NEW verdict \in Verdict, DecideEnters(verdict) PROVE IInv' /\ Steady
  <2> DEFINE q == [kind |-> "decide", verdict |-> verdict, row |-> proposal.row]
  <2>1. q \in Request /\ NamesRow(q)
    BY DEF Request, NamesRow, Typed, CfpTypeOK
  <2>2. QED
    BY <1>1, <1>6, <2>1 DEF DecideEnters
<1>7. QED
  BY <1>2, <1>3, <1>4, <1>5, <1>6

\* A request that runs at once.
LEMMA NowInv ==
  ASSUME IInv,
         \/ OwnerNow
         \/ \E r \in Reviewer, round \in Round : AssignNow(r, round)
         \/ \E r \in Reviewer : AutoAssignNow(r)
         \/ \E r \in Reviewer : \E k \in DOMAIN rows[r] : SeatNow(r, k) \/ ScoreNow(r, k)
         \/ RoundNow
         \/ \E verdict \in Verdict : DecideNow(verdict) \/ DecideAgain(verdict)
  PROVE  IInv' /\ Steady
<1>1. CASE OwnerNow
  BY <1>1, OwnerStepsAlone, OwnerInv DEF OwnerNow, Aside, IInv, Typed
<1>2. ASSUME NEW r \in Reviewer, NEW round \in Round, AssignNow(r, round) PROVE IInv' /\ Steady
  BY <1>2, AssignInv, Versions DEF AssignNow, IInv
<1>3. ASSUME NEW r \in Reviewer, AutoAssignNow(r) PROVE IInv' /\ Steady
  BY <1>3, AssignInv, Versions DEF AutoAssignNow, AutoWrite, AssignWrite, IInv, Round
<1>4. ASSUME NEW r \in Reviewer, NEW k \in DOMAIN rows[r], SeatNow(r, k) PROVE IInv' /\ Steady
  BY <1>4, SeatInv
<1>5. ASSUME NEW r \in Reviewer, NEW k \in DOMAIN rows[r], ScoreNow(r, k) PROVE IInv' /\ Steady
  <2>1. rows[r][k].revision \in 0..MaxRevision
    BY Numbered DEF IInv, Row
  <2>2. QED
    BY <1>5, <2>1, ScoreInv DEF ScoreNow
<1>6. CASE RoundNow
  BY <1>6, RoundInv
<1>7. ASSUME NEW verdict \in Verdict, DecideNow(verdict) PROVE IInv' /\ Steady
  BY <1>7, DecideInv DEF DecideNow, IInv, Typed, CfpTypeOK
<1>8. ASSUME NEW verdict \in Verdict, DecideAgain(verdict) PROVE IInv' /\ Steady
  BY <1>8, MaterializeInv DEF DecideAgain
<1>9. QED
  BY <1>1, <1>2, <1>3, <1>4, <1>5, <1>6, <1>7, <1>8

\* The overtaken request writes, or dies.
LEMMA LateInv ==
  ASSUME IInv, OwnerFinishes \/ AssignFinishes \/ ScoreFinishes \/ DecideFinishes \/ Dies
  PROVE  IInv' /\ Steady
<1>1. Typed /\ request \in Request /\ NamesRow(request)
  BY DEF IInv, Typed
<1>2. CASE OwnerFinishes
  BY <1>1, <1>2, OwnerWritesAlone, OwnerInv DEF OwnerFinishes, Aside, Typed
<1>3. CASE AssignFinishes
  BY <1>1, <1>3, Carries, AssignInv DEF AssignFinishes
<1>4. CASE ScoreFinishes
  <2>1. /\ request.reviewer \in Reviewer /\ request.base \in 0..MaxRevision
        /\ request.row \in DOMAIN rows[request.reviewer]
    BY <1>1, <1>4, Carries DEF ScoreFinishes, NamesRow
  <2>2. QED
    BY <1>4, <2>1, ScoreInv DEF ScoreFinishes
<1>5. CASE DecideFinishes
  BY <1>1, <1>5, Carries, DecideInv DEF DecideFinishes
<1>6. CASE Dies
  BY <1>1, <1>6, NoTable DEF Dies, Request, Idle, NamesRow
<1>7. QED
  BY <1>2, <1>3, <1>4, <1>5, <1>6

-----------------------------------------------------------------------------
(***************************************************************************)
(* Theorems.                                                               *)
(***************************************************************************)

LEMMA InitInv == Init => IInv
<1> SUFFICES ASSUME Init PROVE IInv
  OBVIOUS
<1> USE DEF Init, CfpInit, ReviewInit
<1>1. <<>> \in Seq(Row) /\ Len(<<>>) = 0 /\ DOMAIN <<>> = {}
  OBVIOUS
<1>2. Typed
  BY <1>1, ReviewAssumption DEF Typed, CfpTypeOK, Status, Content, CoPresenter, Request
<1>3. QED
  BY <1>1, <1>2 DEF IInv, NamesRow, Idle, AcceptanceWhole

LEMMA NextInv == IInv /\ [Next]_vars => IInv' /\ Steady
<1> SUFFICES ASSUME IInv, [Next]_vars PROVE IInv' /\ Steady
  OBVIOUS
<1>1. CASE UNCHANGED vars
  BY <1>1, NoTable DEF vars, IInv, Typed, NamesRow
<1>2. CASE Next
  BY <1>2, NowInv, LateInv, EnterInv, AutoInv DEF Next
<1>3. QED
  BY <1>1, <1>2

LEMMA Inductive == Spec => []IInv
BY InitInv, NextInv, PTL DEF Spec

\* For any number of reviewers, assignments, revisions and plans, the tables and
\* the request in flight keep their types: a scorecard that finishes late finds
\* the assignment it was opened for.
THEOREM TypeCorrect == Spec => []SubmissionsTypeOK
<1>1. IInv => SubmissionsTypeOK
  <2> SUFFICES ASSUME Typed PROVE SubmissionsTypeOK
    BY DEF IInv
  <2>1. ASSUME NEW r \in Reviewer
        PROVE  /\ DOMAIN rows[r] \in {1..n : n \in 0..MaxRetries}
               /\ \A k \in DOMAIN rows[r] : rows[r][k] \in Row
    BY Numbered
  <2>2. DOMAIN rows = Reviewer
    BY DEF Typed
  <2>3. QED
    BY <2>1, <2>2 DEF SubmissionsTypeOK, Typed, ReviewTypeOK
<1>2. QED
  BY <1>1, Inductive, PTL

\* After the decision every open task is one of the named round, and the session is
\* there exactly for an accepted proposal and is presented by those who present the
\* proposal, whoever assigns, joins, leaves or decides meanwhile.
THEOREM DecisionStaysWhole == Spec => []DecisionIsWhole
<1>1. IInv => DecisionClosesDefaultRound
  BY DEF IInv, Sound, DecisionClosesDefaultRound
<1>2. IInv => DecisionIsWhole
  BY <1>1 DEF IInv, DecisionIsWhole
<1>3. QED
  BY <1>2, Inductive, PTL

\* From the first assignment on, no write of the owner's, however late, changes
\* the title, the answers or who presents the proposal.
THEOREM DossierStays == Spec => DossierFrozen
<1>1. IInv /\ [Next]_vars =>
        [proposal.status \in {"in_review", "decided"} =>
            /\ proposal'.row = proposal.row
            /\ proposal'.answers = proposal.answers
            /\ Presents' = Presents]_vars
  BY NextInv DEF Steady
<1>2. QED
  BY <1>1, Inductive, PTL DEF Spec, DossierFrozen

\* A scorecard is written on an accepted assignment without a conflict by somebody
\* who does not present the proposal, is not taken away again, and is filled in
\* for the plan that was active when the assignment was made.
THEOREM ScorecardsStay == Spec => ScorecardsStand
<1> DEFINE Stand ==
      \A r \in Reviewer :
        /\ \A k \in DOMAIN rows[r] :
            LET before == rows[r][k]
                after == rows'[r][k]
            IN  /\ after.revision > 0 => after.stage = "accepted" /\ ~after.conflict
                /\ after.revision # before.revision => ~IsPresenter(r)
                /\ after.plan = before.plan
        /\ \A k \in DOMAIN rows'[r] \ DOMAIN rows[r] :
                rows'[r][k].plan = activeEvaluationPlan(rows'[r][k].round)
<1>1. IInv /\ [Next]_vars => [Stand]_vars
  <2> SUFFICES ASSUME IInv, [Next]_vars PROVE Stand
    OBVIOUS
  <2>1. IInv' /\ Steady
    BY NextInv
  <2>2. ASSUME NEW r \in Reviewer, NEW k \in DOMAIN rows[r]
        PROVE  rows'[r][k].revision > 0 => rows'[r][k].stage = "accepted" /\ ~rows'[r][k].conflict
    <3>1. k \in DOMAIN rows'[r]
      BY <2>1 DEF Steady
    <3>2. Sound(r, rows[r][k])'
      BY <2>1, <3>1 DEF IInv
    <3>3. QED
      BY <3>2 DEF Sound
  <2>3. QED
    BY <2>1, <2>2 DEF Steady
<1>2. QED
  BY <1>1, Inductive, PTL DEF Spec, ScorecardsStand

-----------------------------------------------------------------------------
(***************************************************************************)
(* The pages.                                                              *)
(***************************************************************************)

LEMMA SeatFacts ==
  ASSUME IInv
  PROVE  /\ IsFiniteSet(Seats)
         /\ \A s \in Seats :
              /\ s[1] \in Reviewer /\ s[2] \in DOMAIN rows[s[1]]
              /\ RowOf(s) = rows[s[1]][s[2]]
              /\ RowOf(s) \in Row
              /\ Sound(s[1], RowOf(s))
<1>1. ASSUME NEW s \in Seats
      PROVE  s[1] \in Reviewer /\ s[2] \in DOMAIN rows[s[1]]
  BY <1>1 DEF Seats
<1>2. Seats \subseteq Reviewer \X (1..MaxRetries)
  BY Numbered DEF Seats, IInv
<1>3. IsFiniteSet(Reviewer \X (1..MaxRetries))
  <2>1. IsFiniteSet(1..MaxRetries)
    BY ReviewAssumption, FS_Interval
  <2>2. QED
    BY <2>1, FewReviewers, FS_Product
<1>4. IsFiniteSet(Seats)
  BY <1>2, <1>3, FS_Subset
<1>5. QED
  BY <1>1, <1>4, Numbered DEF RowOf, IInv

\* What a page's query for the open tasks has to do with the counts of the others.
LEMMA RowFacts ==
  ASSUME IInv, NEW s \in Seats
  PROVE  LET row == RowOf(s) IN
         /\ row.stage \in {"pending", "accepted", "withdrawn", "revoked"}
         /\ row.round \in Round
         /\ row.revision \in Nat /\ row.plan \in 0..plan
         /\ row.conflict \in BOOLEAN
         /\ row.revision > 0 => row.stage = "accepted" /\ ~row.conflict
         /\ row.conflict => row.stage \in {"withdrawn", "revoked"}
         /\ row.stage # "revoked" /\ row.round = "named" => s[1] \in pool
<1>1. RowOf(s) \in Row /\ Sound(s[1], RowOf(s))
  BY SeatFacts
<1>2. plan \in 0..MaxPlan
  BY DEF IInv, Typed
<1>3. QED
  BY <1>1, <1>2, ReviewAssumption DEF Row, Sound, Active

LEMMA PagesAgreeNow ==
  ASSUME IInv
  PROVE  PagesAgree
<1>1. assigned = reviewerProgress
  BY RowFacts DEF assigned, reviewerProgress, Standing
<1>2. roundProgress = {s \in assigned : RowOf(s).round = "named"}
  BY RowFacts DEF assigned, roundProgress, Standing
<1>3. completed \subseteq reviewerProgress
  BY RowFacts DEF completed, reviewerProgress, Standing
<1>4. completed = {s \in Seats : assignmentStatus(RowOf(s)) = "completed"}
  BY RowFacts DEF completed, assignmentStatus
<1>5. csvScores \subseteq csvColumns
  <2> SUFFICES ASSUME NEW s \in completed, RowOf(s).plan # 0
               PROVE  RowOf(s).plan \in 1..plan
    BY DEF csvScores, csvColumns
  <2>1. s \in Seats
    BY DEF completed
  <2>2. RowOf(s).plan \in 0..plan /\ plan \in 0..MaxPlan
    BY <2>1, RowFacts DEF IInv, Typed
  <2>3. QED
    BY <2>2, ReviewAssumption
<1>6. detailProgress.submitted <= detailProgress.assigned
  <2>1. completed \in SUBSET assigned /\ IsFiniteSet(assigned)
    BY <1>1, <1>3, SeatFacts, FS_Subset DEF assigned
  <2>2. Cardinality(completed) <= Cardinality(assigned)
    BY <2>1, FS_Subset
  <2>3. QED
    BY <2>2 DEF detailProgress
<1>7. ASSUME NEW r \in Reviewer
      PROVE  /\ pendingReviews(r, Round) = {s \in reviewerProgress \ completed : s[1] = r}
             /\ pendingReviews(r, {"named"}) = {s \in roundProgress \ completed : s[1] = r}
             /\ pendingReviews(r, Round) \subseteq reviewQueue(r)
  BY RowFacts
  DEF pendingReviews, reviewerProgress, roundProgress, completed, reviewQueue, Standing, Active
<1>8. ASSUME NEW r \in Reviewer
      PROVE  /\ activeLoad(r) = Cardinality({s \in roundProgress : s[1] = r})
             /\ activeLoad(r) > 0 => listRounds.poolSize > 0
  <2> DEFINE load == {s \in Seats : s[1] = r /\ RowOf(s).round = "named" /\ Standing(RowOf(s))}
  <2>1. load = {s \in roundProgress : s[1] = r}
    BY RowFacts DEF roundProgress, Standing
  <2>2. ASSUME activeLoad(r) > 0 PROVE listRounds.poolSize > 0
    <3>1. load # {}
      BY <2>2, FS_EmptySet DEF activeLoad
    <3>2. PICK s \in load : TRUE
      BY <3>1
    <3>3. s[1] \in pool
      BY <3>2, <2>1 DEF roundProgress
    <3>4. IsFiniteSet(pool)
      BY FewReviewers, FS_Subset DEF IInv, Typed
    <3>5. Cardinality(pool) \in Nat /\ Cardinality(pool) # 0
      BY <3>3, <3>4, FS_CardinalityType, FS_EmptySet
    <3>6. QED
      BY <3>5 DEF listRounds
  <2>3. QED
    BY <2>1, <2>2 DEF activeLoad
<1>9. \A r \in Reviewer : reminderEligible(r, Round) => resultsListed
  BY DEF reminderEligible, resultsListed, pendingReviews
<1>10. /\ (handoff = "materialized") = (ownerWorkspace.acceptedSession # {})
       /\ (proposalProjection.decision = "accept") = (handoff = "materialized")
  BY DEF handoff, ownerWorkspace, proposalProjection, IInv, AcceptanceWhole
<1>11. ASSUME NEW s \in Seats
       PROVE  (correctionAllowed(s[1], s[2]) /\ ~IsPresenter(s[1]))
                = (RowOf(s).revision > 0 /\ ScoreRead(s[1], s[2], RowOf(s).revision))
  <2>1. RowOf(s) = rows[s[1]][s[2]]
    BY DEF RowOf
  <2>2. RowOf(s).revision \in Nat /\ RowOf(s).round \in {"default", "named"}
    BY RowFacts DEF Round
  <2>3. (correctionAllowed(s[1], s[2]) /\ ~IsPresenter(s[1]))
          <=> (RowOf(s).revision > 0 /\ ScoreRead(s[1], s[2], RowOf(s).revision))
    BY <2>1, <2>2 DEF correctionAllowed, ScoreRead
  <2>4. QED
    BY <2>3 DEF correctionAllowed, ScoreRead
<1>12. QED
  BY <1>1, <1>2, <1>3, <1>4, <1>5, <1>6, <1>7, <1>8, <1>9, <1>10, <1>11 DEF PagesAgree

\* A line of the progress page offers the reminder when somebody's task is open.
LEMMA LineOffers ==
  ASSUME IInv, NEW r \in Reviewer, NEW progress \in SUBSET Seats
  PROVE  ReviewerProgressPanel(r, progress)
           <=> {s \in progress \ completed : s[1] = r} # {}
<1> DEFINE line == {s \in progress : s[1] = r}
<1>1. IsFiniteSet(line) /\ IsFiniteSet(line \cap completed)
  BY SeatFacts, FS_Subset
<1>2. line \cap completed \in SUBSET line
  OBVIOUS
<1>3. /\ Cardinality(line) \in Nat /\ Cardinality(line \cap completed) \in Nat
      /\ Cardinality(line \cap completed) <= Cardinality(line)
      /\ Cardinality(line) = Cardinality(line \cap completed) => line = line \cap completed
  BY <1>1, <1>2, FS_Subset, FS_CardinalityType
<1>4. ReviewerProgressPanel(r, progress)
        <=> Cardinality(line) > Cardinality(line \cap completed)
  BY DEF ReviewerProgressPanel
<1>5. Cardinality(line) > Cardinality(line \cap completed) <=> line # line \cap completed
  BY <1>3
<1>6. QED
  BY <1>4, <1>5

LEMMA ReminderIsTrueNow ==
  ASSUME IInv
  PROVE  ReminderIsTrue
<1> SUFFICES ASSUME NEW r \in Reviewer
             PROVE  /\ ReviewerProgressPanel(r, reviewerProgress) = reminderEligible(r, Round)
                    /\ ReviewerProgressPanel(r, roundProgress) = reminderEligible(r, {"named"})
                    /\ reminderEligible(r, Round) =>
                        /\ ReviewerQueue(r).completed < ReviewerQueue(r).all
                        /\ \A s \in ReviewerWorkspace(r) : RowOf(s).revision = 0
  BY DEF ReminderIsTrue
<1>1. /\ pendingReviews(r, Round) = {s \in reviewerProgress \ completed : s[1] = r}
      /\ pendingReviews(r, {"named"}) = {s \in roundProgress \ completed : s[1] = r}
      /\ pendingReviews(r, Round) \subseteq reviewQueue(r)
  BY PagesAgreeNow DEF PagesAgree
<1>2. reviewerProgress \in SUBSET Seats /\ roundProgress \in SUBSET Seats
  BY DEF reviewerProgress, roundProgress
<1>3. ReviewerProgressPanel(r, reviewerProgress) = reminderEligible(r, Round)
  <2>1. ReviewerProgressPanel(r, reviewerProgress) <=> reminderEligible(r, Round)
    BY <1>1, <1>2, LineOffers DEF reminderEligible
  <2>2. QED
    BY <2>1 DEF ReviewerProgressPanel, reminderEligible
<1>4. ReviewerProgressPanel(r, roundProgress) = reminderEligible(r, {"named"})
  <2>1. ReviewerProgressPanel(r, roundProgress) <=> reminderEligible(r, {"named"})
    BY <1>1, <1>2, LineOffers DEF reminderEligible
  <2>2. QED
    BY <2>1 DEF ReviewerProgressPanel, reminderEligible
<1>5. ASSUME reminderEligible(r, Round)
      PROVE  /\ ReviewerQueue(r).completed < ReviewerQueue(r).all
             /\ \A s \in ReviewerWorkspace(r) : RowOf(s).revision = 0
  <2> DEFINE queue == reviewQueue(r)
             done == {s \in queue : assignmentStatus(RowOf(s)) = "completed"}
             unfinished == {s \in queue : assignmentStatus(RowOf(s)) = "pending"}
  <2>1. PICK s \in pendingReviews(r, Round) : TRUE
    BY <1>5 DEF reminderEligible
  <2>2. s \in queue /\ s \in unfinished /\ s \notin done
    BY <1>1, <2>1 DEF pendingReviews, Active, assignmentStatus
  <2>3. queue \in SUBSET Seats /\ done \in SUBSET queue
    BY DEF reviewQueue
  <2>4. IsFiniteSet(queue) /\ IsFiniteSet(done)
    BY <2>3, SeatFacts, FS_Subset
  <2>5. /\ Cardinality(done) \in Nat /\ Cardinality(queue) \in Nat
        /\ Cardinality(done) <= Cardinality(queue)
        /\ Cardinality(queue) = Cardinality(done) => queue = done
    BY <2>3, <2>4, FS_Subset, FS_CardinalityType
  <2>6. Cardinality(done) < Cardinality(queue)
    BY <2>2, <2>5
  <2>7. ASSUME NEW u \in unfinished PROVE RowOf(u).revision = 0
    <3>1. RowOf(u).revision \in Nat
      BY <2>3, RowFacts
    <3>2. QED
      BY <3>1 DEF assignmentStatus
  <2>8. ReviewerWorkspace(r) = unfinished
    BY <2>2 DEF ReviewerWorkspace
  <2>9. QED
    BY <2>6, <2>7, <2>8 DEF ReviewerQueue
<1>6. QED
  BY <1>3, <1>4, <1>5

\* The buttons of a reviewer's screen, against what the handlers and triggers ask for.
LEMMA ReviewerIsOfferedNow ==
  ASSUME IInv
  PROVE  ReviewerIsOffered
<1> SUFFICES ASSUME NEW s \in Seats
             PROVE  LET r == s[1]
                        k == s[2]
                        row == RowOf(s)
                        offered == ReviewerLifecycleControls(row)
                        taken == ScoreRead(r, k, row.revision)
                    IN  /\ \A button \in offered : act(r, k, button) \/ (button = "conflict" /\ HasConflict(r))
                        /\ \A button \in {"accept", "decline", "recuse"} : act(r, k, button) => button \in offered
                        /\ taken => ReviewerScorecard(r, k)
                        /\ ReviewerScorecard(r, k) =>
                            \/ taken
                            \/ IsPresenter(r)
                            \/ row.round = "named" /\ ~window
  BY DEF ReviewerIsOffered
<1> DEFINE r == s[1]
           k == s[2]
           row == RowOf(s)
<1>1. /\ r \in Reviewer /\ k \in DOMAIN rows[r] /\ row = rows[r][k]
      /\ Sound(r, row)
      /\ row.stage \in {"pending", "accepted", "withdrawn", "revoked"}
      /\ row.round \in {"default", "named"}
      /\ row.revision \in Nat
      /\ row.revision > 0 => row.stage = "accepted" /\ ~row.conflict
      /\ row.conflict => row.stage \in {"withdrawn", "revoked"}
  BY SeatFacts, RowFacts DEF Round
<1> HIDE DEF r, k, row
<1>2. ReviewerLifecycleControls(row) =
        IF row.revision > 0 THEN {}
        ELSE IF row.stage = "pending" THEN {"accept", "decline"}
        ELSE IF row.stage = "accepted" THEN {"recuse", "conflict"} ELSE {}
  BY <1>1 DEF ReviewerLifecycleControls
<1>3. /\ act(r, k, "accept") <=> MayAnswer(row)
      /\ act(r, k, "decline") <=> MayAnswer(row)
      /\ act(r, k, "recuse") <=> MayRecuse(row)
      /\ act(r, k, "conflict") <=> MayDeclare(r, row)
  BY <1>1 DEF act
<1>4. ASSUME NEW button \in ReviewerLifecycleControls(row)
      PROVE  act(r, k, button) \/ (button = "conflict" /\ HasConflict(r))
  <2>1. row.revision = 0
    BY <1>1, <1>2, <1>4
  <2>2. CASE row.stage = "pending"
    <3>1. MayAnswer(row)
      BY <2>1, <2>2 DEF MayAnswer, MayAct, Active
    <3>2. button \in {"accept", "decline"}
      BY <1>2, <1>4, <2>1, <2>2
    <3>3. QED
      BY <1>3, <3>1, <3>2
  <2>3. CASE row.stage = "accepted"
    <3>1. MayRecuse(row) /\ (MayDeclare(r, row) \/ HasConflict(r))
      BY <2>1, <2>3 DEF MayRecuse, MayDeclare, MayAct, Active
    <3>2. button \in {"recuse", "conflict"}
      BY <1>2, <1>4, <2>1, <2>3
    <3>3. QED
      BY <1>3, <3>1, <3>2
  <2>4. QED
    BY <1>2, <1>4, <2>1, <2>2, <2>3
<1>5. ASSUME NEW button \in {"accept", "decline", "recuse"}, act(r, k, button)
      PROVE  button \in ReviewerLifecycleControls(row)
  <2>1. CASE button \in {"accept", "decline"}
    <3>1. row.revision = 0 /\ row.stage = "pending"
      BY <1>3, <1>5, <2>1 DEF MayAnswer, MayAct
    <3>2. QED
      BY <1>2, <2>1, <3>1
  <2>2. CASE button = "recuse"
    <3>1. row.revision = 0 /\ row.stage = "accepted"
      BY <1>3, <1>5, <2>2 DEF MayRecuse, MayAct
    <3>2. QED
      BY <1>2, <2>2, <3>1
  <2>3. QED
    BY <2>1, <2>2
<1>6. ScoreRead(r, k, row.revision) => ReviewerScorecard(r, k)
  BY <1>1 DEF ScoreRead, ReviewerScorecard, correctionAllowed
<1>7. ReviewerScorecard(r, k) =>
        ScoreRead(r, k, row.revision) \/ IsPresenter(r) \/ (row.round = "named" /\ ~window)
  <2> SUFFICES ASSUME ReviewerScorecard(r, k), ~IsPresenter(r), row.round = "named" => window
               PROVE  ScoreRead(r, k, row.revision)
    OBVIOUS
  <2>1. row.stage = "accepted" /\ ~row.conflict
    BY <1>1 DEF ReviewerScorecard
  <2>2. proposal.status \in {"none", "draft", "submitted", "in_review", "decided"}
    BY DEF IInv, Typed, CfpTypeOK, Status
  <2>3. proposal.status \in {"in_review", "decided"}
    BY <1>1 DEF Sound
  <2>4. CASE row.revision = 0
    BY <1>1, <2>1, <2>3, <2>4 DEF ScoreRead, UnderReview, Sound, Active
  <2>5. CASE row.revision > 0
    BY <1>1, <2>1, <2>5 DEF ScoreRead, UnderReview, ReviewerScorecard, correctionAllowed
  <2>6. QED
    BY <1>1, <2>4, <2>5
<1>8. QED
  BY <1>4, <1>5, <1>6, <1>7 DEF r, k, row

\* What the organizers' screens offer, against what the handlers ask for: no
\* assignment is there before the proposal is under way, so what is listed for its
\* assignments alone is decided, or can be.
LEMMA OrganizerIsOfferedNow ==
  ASSUME IInv
  PROVE  OrganizerIsOffered
<1>1. Seats # {} => proposal.status \in {"in_review", "decided"}
  BY SeatFacts DEF Sound
<1>2. DecisionPanel = DecideRead(proposal.row)
  <2>1. (decision # "none") <=> (proposal.status = "decided")
    BY DEF IInv, AcceptanceWhole
  <2>2. DecisionPanel <=> DecideRead(proposal.row)
    BY <1>1, <2>1
    DEF DecisionPanel, OrganizerReviewWorkspace, resultsListed, DecideRead, UnderReview
  <2>3. QED
    BY <2>2 DEF DecisionPanel, DecideRead
<1>3. (DecisionLedger = {"materialized"}) = (decision = "accept")
  <2>1. (decision = "accept") <=> (session # NoSession)
    BY DEF IInv, AcceptanceWhole
  <2>2. QED
    BY <2>1 DEF DecisionLedger, handoff
<1>4. listRounds.hasActivePlan = (EvaluationPlanManager > 0)
  BY DEF listRounds, EvaluationPlanManager, activeEvaluationPlan
<1>5. ASSUME NEW r \in Reviewer, NEW round \in Round,
             AssignRead(r, round, nextAssignmentRetry(r), activeEvaluationPlan(round)),
             OrganizerReviewWorkspace
      PROVE  round \in OrganizerReviewDetail
  <2>1. CASE round = "default"
    <3>1. UnderReview
      BY <1>5, <2>1 DEF AssignRead
    <3>2. decision = "none"
      BY <3>1 DEF UnderReview, IInv, AcceptanceWhole
    <3>3. QED
      BY <1>5, <2>1, <3>2 DEF OrganizerReviewDetail
  <2>2. CASE round = "named"
    BY <1>5, <2>2 DEF AssignRead, OrganizerReviewDetail, listRounds
  <2>3. QED
    BY <2>1, <2>2 DEF Round
<1>6. ASSUME NEW r \in Reviewer, AutoRead(plan), r \in Unblocked
      PROVE  RoundCard
  <2>1. IsFiniteSet(pool) /\ r \in pool
    BY <1>6, FewReviewers, FS_Subset DEF IInv, Typed, Unblocked
  <2>2. Cardinality(pool) \in Nat /\ Cardinality(pool) # 0
    BY <2>1, FS_CardinalityType, FS_EmptySet
  <2>3. QED
    BY <1>6, <2>2 DEF AutoRead, RoundCard, listRounds
<1>7. ASSUME NEW r \in Reviewer, NEW k \in DOMAIN rows[r]
      PROVE  revoke(rows[r][k]) = MayRevoke(rows[r][k])
  <2>1. OrganizerReviewWorkspace
    <3>1. <<r, k>> \in Seats
      BY DEF Seats
    <3>2. QED
      BY <3>1 DEF OrganizerReviewWorkspace, resultsListed
  <2>2. rows[r][k].revision \in Nat
    BY <1>7, Numbered, ReviewAssumption DEF IInv, Row
  <2>3. assignmentStatus(rows[r][k]) = "pending" <=> MayRevoke(rows[r][k])
    BY <2>2 DEF assignmentStatus, MayRevoke, Active
  <2>4. QED
    BY <2>1, <2>3 DEF revoke, MayRevoke
<1>8. QED
  BY <1>2, <1>3, <1>4, <1>5, <1>6, <1>7 DEF OrganizerIsOffered

\* The owner's link and list, against what the save asks for.
LEMMA OwnerIsOfferedNow ==
  ASSUME IInv
  PROVE  OwnerIsOffered
<1>1. open \in BOOLEAN /\ proposal.status \in {"none", "draft", "submitted", "in_review", "decided"}
  BY DEF IInv, Typed, CfpTypeOK, Status
<1>2. proposalProjection.status = proposal.status
  BY DEF proposalProjection
<1>3. resumeProposal <=> open /\ Editable
  BY <1>2 DEF resumeProposal, Editable
<1>4. MayPersist("full") <=> open /\ (proposal.status = "none" \/ Editable)
  BY <1>1 DEF MayPersist, CreateRead, SaveRead, Valid, Editable
<1>5. ASSUME proposal.status # "none"
      PROVE  /\ resumeProposal = \E content \in Content : MayPersist(content)
             /\ resumeProposal = (ProposalHistory = "edit")
  <2>1. \A content \in Content : MayPersist(content) => open /\ Editable
    BY <1>5 DEF MayPersist, SaveRead
  <2>2. "full" \in Content
    BY DEF Content
  <2>3. resumeProposal <=> \E content \in Content : MayPersist(content)
    BY <1>3, <1>4, <2>1, <2>2
  <2>4. (ProposalHistory = "edit") <=> resumeProposal
    BY <1>1, <1>2, <1>5 DEF ProposalHistory, resumeProposal
  <2>5. resumeProposal \in BOOLEAN
    BY DEF resumeProposal
  <2>6. QED
    BY <2>3, <2>4, <2>5
<1>6. (resumeProposal \/ (proposal.status = "none" /\ open)) = MayPersist("full")
  <2>1. (resumeProposal \/ (proposal.status = "none" /\ open)) <=> MayPersist("full")
    BY <1>3, <1>4
  <2>2. MayPersist("full") \in BOOLEAN
    BY DEF MayPersist, CreateRead, SaveRead
  <2>3. QED
    BY <2>1, <2>2
<1>7. QED
  BY <1>5, <1>6 DEF OwnerIsOffered

\* The pages tell one story, and every screen that has just loaded offers what the
\* handler behind the button takes, for any number of reviewers, assignments,
\* revisions and plans, whatever request is still in flight.
THEOREM ScreensAreTrue == Spec => []ScreensOffer
<1>1. IInv => ScreensOffer
  BY PagesAgreeNow, ReminderIsTrueNow, ReviewerIsOfferedNow, OrganizerIsOfferedNow,
     OwnerIsOfferedNow DEF ScreensOffer
<1>2. QED
  BY <1>1, Inductive, PTL

-----------------------------------------------------------------------------
(***************************************************************************)
(* What the handler took, the tables take too.                             *)
(***************************************************************************)

\* An insert that meets the indexes and triggers leaves an open task behind.
LEMMA Inserted ==
  ASSUME Typed, NEW r \in Reviewer, NEW round \in Round, NEW version \in 0..MaxPlan,
         Insert(r, round, version)
  PROVE  HasActive(r, round)'
<1> DEFINE new == [round |-> round, stage |-> "pending", conflict |-> FALSE, revision |-> 0,
                   plan |-> version]
<1>1. new \in Row
  BY ReviewAssumption DEF Row
<1>2. rows \in [Reviewer -> Seq(Row)] /\ rows[r] \in Seq(Row) /\ Len(rows[r]) \in Nat
  BY Numbered DEF Typed
<1>3. rows'[r] = Append(rows[r], new)
  BY <1>2 DEF Insert
<1>4. /\ Append(rows[r], new) \in Seq(Row)
      /\ Len(Append(rows[r], new)) = Len(rows[r]) + 1
      /\ Append(rows[r], new)[Len(rows[r]) + 1] = new
  BY <1>1, <1>2, AppendProperties
<1>5. Len(rows[r]) + 1 \in DOMAIN rows'[r]
  BY <1>2, <1>3, <1>4, LenProperties
<1>6. Active(new) /\ new.round = round
  BY DEF Active
<1> HIDE DEF new
<1>7. rows'[r][Len(rows[r]) + 1] = new
  BY <1>3, <1>4
<1>8. QED
  BY <1>5, <1>6, <1>7 DEF HasActive, Active

\* A scorecard or a correction that the handler takes is recorded.
LEMMA ScorecardIsSaved ==
  ASSUME IInv, NEW r \in Reviewer, NEW k \in DOMAIN rows[r],
         submitScorecard(r, k), rows[r][k].revision < MaxRevision
  PROVE  rows'[r][k].revision = rows[r][k].revision + 1
<1> DEFINE base == rows[r][k].revision
<1>1. /\ rows \in [Reviewer -> Seq(Row)] /\ rows[r] \in Seq(Row)
      /\ rows[r][k] \in Row /\ base \in Nat
      /\ rows[r][k].round \in {"default", "named"}
  <2>1. rows \in [Reviewer -> Seq(Row)] /\ rows[r] \in Seq(Row) /\ rows[r][k] \in Row
    BY Numbered DEF IInv, Typed
  <2>2. base \in Nat /\ rows[r][k].round \in {"default", "named"}
    BY <2>1, ReviewAssumption DEF Row, Round
  <2>3. QED
    BY <2>1, <2>2
<1>2. ScoreRead(r, k, base) /\ ScoreWrite(r, k, base)
  BY DEF submitScorecard
<1>3. IF base = 0 THEN FirstAccepted(r, k) ELSE CorrectionAccepted(r, k, base)
  BY <1>1, <1>2 DEF ScoreRead, FirstAccepted, CorrectionAccepted, Reviewable
<1>4. rows' = [rows EXCEPT ![r][k].revision = base + 1]
  BY <1>2, <1>3 DEF ScoreWrite
<1>5. rows'[r][k].revision = base + 1
  BY <1>1, <1>4 DEF Row
<1>6. QED
  BY <1>5

\* What a form that has just loaded sends, and the server takes, is saved: no
\* trigger, unique index or condition of the batch refuses silently what the
\* handler has let through.
THEOREM FormsSave == Spec => FormsAreSaved
<1> DEFINE Saved ==
      /\ \A r \in Reviewer :
            /\ \A k \in DOMAIN rows[r] :
                submitScorecard(r, k) /\ rows[r][k].revision < MaxRevision
                    => rows'[r][k].revision = rows[r][k].revision + 1
            /\ \A round \in Round :
                AssignNow(r, round) /\ nextAssignmentRetry(r) <= MaxRetries => HasActive(r, round)'
            /\ AutoAssignNow(r) /\ nextAssignmentRetry(r) <= MaxRetries => HasActive(r, "named")'
      /\ \A content \in Content :
            /\ persistDraft(content) => proposal'.answers = content
            /\ submitProposal(content) => SubmitRead(content)'
      /\ \A verdict \in Verdict : DecideNow(verdict) => decision' = verdict
<1>1. ASSUME IInv PROVE Saved
  <2>1. Typed
    BY <1>1 DEF IInv
  <2>2. ASSUME NEW r \in Reviewer, NEW round \in Round, AssignNow(r, round),
               nextAssignmentRetry(r) <= MaxRetries
        PROVE  HasActive(r, round)'
    <3>1. MayInsert(r, round, nextAssignmentRetry(r), activeEvaluationPlan(round))
      BY <2>2 DEF AssignNow, AssignRead, MayInsert, Reviewable
    <3>2. Insert(r, round, activeEvaluationPlan(round))
      BY <2>2, <3>1 DEF AssignNow, AssignWrite
    <3>3. QED
      BY <2>1, <3>2, Inserted, Versions
  <2>3. ASSUME NEW r \in Reviewer, AutoAssignNow(r), nextAssignmentRetry(r) <= MaxRetries
        PROVE  HasActive(r, "named")'
    <3>1. MayInsert(r, "named", nextAssignmentRetry(r), plan)
      BY <2>3 DEF AutoAssignNow, AutoRead, Unblocked, MayInsert, Reviewable, UnderReview
    <3>2. Insert(r, "named", plan)
      BY <2>3, <3>1 DEF AutoAssignNow, AutoWrite
    <3>3. QED
      BY <2>1, <3>2, Inserted, Versions DEF Round
  <2>4. ASSUME NEW content \in Content, persistDraft(content)
        PROVE  /\ proposal'.answers = content /\ open /\ open' = open
               /\ proposal'.status \in {"draft", "submitted"}
    <3>1. proposal \in [status : Status, row : Content, answers : Content]
      BY <2>1 DEF Typed, CfpTypeOK
    <3>2. CASE proposal.status = "none"
      BY <2>4, <3>2 DEF persistDraft, CreateProposal, CreateRead
    <3>3. CASE proposal.status # "none"
      <4>1. Editable /\ open /\ SaveWrite(content)
        BY <2>4, <3>3 DEF persistDraft, SaveRead
      <4>2. proposal' = [proposal EXCEPT !.row = content, !.answers = content] /\ open' = open
        BY <4>1 DEF SaveWrite
      <4>3. proposal'.answers = content /\ proposal'.status = proposal.status
        BY <3>1, <4>2
      <4>4. QED
        BY <4>1, <4>2, <4>3 DEF Editable
    <3>4. QED
      BY <3>2, <3>3
  <2>5. ASSUME NEW content \in Content, submitProposal(content) PROVE SubmitRead(content)'
    BY <2>4, <2>5 DEF submitProposal, SubmitRead, Editable, Valid
  <2>6. ASSUME NEW verdict \in Verdict, DecideNow(verdict) PROVE decision' = verdict
    BY <2>6 DEF DecideNow, DecideRead, DecideWrite, UnderReview
  <2>7. QED
    BY <1>1, <2>2, <2>3, <2>4, <2>5, <2>6, ScorecardIsSaved
<1>2. QED
  BY <1>1, Inductive, PTL DEF Spec, FormsAreSaved
=============================================================================
