---------------------------- MODULE MCFileStore ----------------------------
(***************************************************************************)
(* Instances of FileStore for TLC.                                         *)
(***************************************************************************)
EXTENDS FileStore, TLC

SymAll == Permutations(Key) \cup Permutations(Write) \cup Permutations(Proc)
=============================================================================
