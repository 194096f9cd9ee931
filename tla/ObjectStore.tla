---------------------------- MODULE ObjectStore ----------------------------
(***************************************************************************)
(* What the callers of a private file store rely on, with no files: a key  *)
(* has an object or none, an object is what one write stored, a put or a   *)
(* delete takes effect at once and is answered for only after a crash can  *)
(* no longer undo it, and a failing read passes for a missing object.      *)
(* FileStore implements it with two files to an object and a directory to  *)
(* sync.                                                                   *)
(***************************************************************************)
CONSTANTS Key, Write, Proc, NoKey, NoWrite

VARIABLES
  object,  \* object[k]: the write whose bytes k has, or none
  fate,    \* fate[k]: what a crash may make of object[k]
  call     \* call[p]: the call of p

\* previous is what the key had when the call began, and read what the call saw of it.
Idle == [op |-> "none", step |-> "idle", key |-> NoKey, write |-> NoWrite,
         previous |-> NoWrite, read |-> NoWrite, answer |-> "none"]

Init ==
  /\ object = [k \in Key |-> NoWrite]
  /\ fate = [k \in Key |-> {NoWrite}]
  /\ call = [p \in Proc |-> Idle]

\* Nothing is between what is visible and what is sure to last.
Persist ==
  /\ fate' = [k \in Key |-> {object[k]}]
  /\ UNCHANGED object

\* A failing read is taken for no object.
Begin(p, op, k, w) ==
  /\ UNCHANGED <<object, fate>>
  /\ \E read \in {object[k], NoWrite} :
       call' = [call EXCEPT ![p] = [op |-> op, step |-> "begun", key |-> k, write |-> w,
                                    previous |-> object[k], read |-> read, answer |-> "none"]]

\* A delete is the write of nothing.
Effect(p) ==
  /\ call[p].step = "begun" /\ call[p].op \in {"put", "delete"}
  /\ object' = [object EXCEPT ![call[p].key] = call[p].write]
  /\ fate' = [fate EXCEPT ![call[p].key] = @ \cup {call[p].write}]
  /\ call' = [call EXCEPT ![p].step = "effective"]

End(p, answer) == call' = [call EXCEPT ![p].step = "done", ![p].answer = answer]

Answered(p) ==
  \/ call[p].op = "put" /\ End(p, "written")
  \/ call[p].op = "delete" /\ End(p, "deleted")

\* What took effect lasts, and only then the call is answered.
Settle(p) ==
  /\ call[p].step = "effective"
  /\ Persist
  /\ call' = [call EXCEPT ![p].step = "settled"] \/ Answered(p)

AnswerSettled(p) ==
  /\ call[p].step = "settled"
  /\ UNCHANGED <<object, fate>>
  /\ Answered(p)

\* A get finds what it saw, or nothing: if it saw nothing, or if what it saw is gone
\* for good.
AnswerGet(p) ==
  /\ call[p].step = "begun" /\ call[p].op = "get"
  /\ UNCHANGED <<object, fate>>
  /\ \/ call[p].read # NoWrite /\ End(p, "found")
     \/ (call[p].read # NoWrite => call[p].read \notin fate[call[p].key]) /\ End(p, "absent")

\* A get whose second read fails answers as if it had seen nothing.
Misread(p) ==
  /\ call[p].step = "begun" /\ call[p].op = "get" /\ call[p].read # NoWrite
  /\ UNCHANGED <<object, fate>>
  /\ call' = [call EXCEPT ![p] =
       [call[p] EXCEPT !.read = NoWrite, !.step = "done", !.answer = "absent"]]

\* A write that fails may have taken effect, and may yet be lost.
Fail(p) ==
  /\ call[p].step \in {"begun", "effective", "settled"} /\ call[p].op \in {"put", "delete"}
  /\ UNCHANGED <<object, fate>>
  /\ End(p, "error")

Crash ==
  /\ \E survivors \in [Key -> Write \cup {NoWrite}] :
       /\ \A k \in Key : survivors[k] \in fate[k]
       /\ object' = survivors
       /\ fate' = [k \in Key |-> {survivors[k]}]
  /\ call' = [p \in Proc |-> Idle]

Next ==
  \/ \E p \in Proc :
       \/ /\ call[p].step \in {"idle", "done"}
          /\ \E k \in Key : \/ \E w \in Write : Begin(p, "put", k, w)
                            \/ \E op \in {"delete", "get"} : Begin(p, op, k, NoWrite)
       \/ Effect(p) \/ Settle(p) \/ AnswerSettled(p) \/ AnswerGet(p) \/ Misread(p)
       \/ Fail(p)
  \/ Persist /\ UNCHANGED call
  \/ Crash

Spec == Init /\ [][Next]_<<object, fate, call>>
=============================================================================
