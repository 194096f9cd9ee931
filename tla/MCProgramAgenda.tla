-------------------------- MODULE MCProgramAgenda --------------------------
(***************************************************************************)
(* Two sessions of one speaker, one day of two slots and two rooms.        *)
(***************************************************************************)
EXTENDS AgendaScreens, TLC

CONSTANTS s1, s2, p1, r1, r2, release

MCPresenter == {<<s1, p1>>, <<s2, p1>>}
MCPrimary == [s \in {s1, s2} |-> p1]
MCSessionOf == [q \in {} |-> s1]
MCWindow == {[opens |-> 0, closes |-> 2, slot |-> 1], [opens |-> 1, closes |-> 2, slot |-> 1]}
MCSymmetry == Permutations({r1, r2}) \union Permutations({s1, s2})
=============================================================================
