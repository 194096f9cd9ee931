-------------------------- MODULE MCPrivateUploads --------------------------
(***************************************************************************)
(* Instances of PrivateUploads for TLC.                                    *)
(***************************************************************************)
EXTENDS PrivateUploads, TLC

SymAll ==
  Permutations(Object) \cup Permutations(Key) \cup Permutations(File) \cup
  Permutations(Upload)

(***************************************************************************)
(* What the rest of a behaviour and the properties depend on: a call that    *)
(* is over matters by its answer, and not at all once no property speaks of   *)
(* it.                                                                      *)
(***************************************************************************)
Remembered(q) ==
  \/ q.kind = "version" /\ q.answer \in {"done", "replayed"}
  \/ q.kind \in {"download", "archive"} /\ q.answer = "error"

Outcome(q) == [q EXCEPT !.read = 0, !.previous = NoObject, !.canonical = 0]

LiveUpload(p) ==
  IF ~ At(p, "done") THEN upload[p]
  ELSE IF Remembered(upload[p]) THEN Outcome(upload[p])
  ELSE Idle

LiveState ==
  <<stored, drawn, profile, active, versions, [p \in Upload |-> LiveUpload(p)], faults>>
=============================================================================
