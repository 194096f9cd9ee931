-------------------------- MODULE MCProfileEditor --------------------------
(* The profile and its two forms, for TLC. *)
EXTENDS ProfileEditor
=============================================================================
