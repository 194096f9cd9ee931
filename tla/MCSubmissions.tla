---------------------------- MODULE MCSubmissions ----------------------------
(***************************************************************************)
(* One proposal on a small instance for TLC.                               *)
(***************************************************************************)
EXTENDS ReviewScreens

CONSTANT r1

(***************************************************************************)
(* States that differ only in what no handler and no page asks for any     *)
(* more are the same to TLC: whether the form is open once the proposal    *)
(* can no longer be edited, its text once it is decided, and the plan of   *)
(* an assignment that can no longer get a scorecard.                       *)
(***************************************************************************)
LiveRow(row) ==
    IF row.stage \in {"withdrawn", "revoked"}
    THEN <<row.round, row.stage, row.conflict, row.revision>>
    ELSE row

LiveState ==
    LET decided == proposal.status = "decided" IN
    << open \/ proposal.status \in {"in_review", "decided"},
       IF decided THEN {} ELSE {proposal},
       presenter,
       [r \in Reviewer |-> [k \in DOMAIN rows[r] |-> LiveRow(rows[r][k])]],
       window, pool, plan, decision, session = NoSession, session.coPresents, request >>
=============================================================================
