-------------------------- MODULE MCMessageOutbox --------------------------
(***************************************************************************)
(* Instances of MessageOutbox and OutboxCancellation for TLC.              *)
(***************************************************************************)
EXTENDS OutboxCancellation, TLC

\* All intents rank alike.
OneRank == [m \in Message |-> 3]

SymWorkersTokens == Permutations(Worker) \cup Permutations(Token)
SymAll == SymWorkersTokens \cup Permutations(Message)
=============================================================================
