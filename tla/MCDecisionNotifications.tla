---------------------- MODULE MCDecisionNotifications ----------------------
(***************************************************************************)
(* Instances of DecisionNotifications for TLC.                             *)
(***************************************************************************)
EXTENDS DecisionNotifications

\* All intents rank alike.
OneRank == [m \in Message |-> 3]
=============================================================================
