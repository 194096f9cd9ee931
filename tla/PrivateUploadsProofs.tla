------------------------ MODULE PrivateUploadsProofs ------------------------
(***************************************************************************)
(* What PrivateUploads promises, for any number of objects, keys, files,   *)
(* calls, edits and faults: a row names an object that is stored, versions *)
(* are numbered in order, an answered version is kept, a refused upload    *)
(* leaves nothing, and a download finds what its row named.                *)
(*                                                                         *)
(* The argument is about who may still name an object.  Until an upload    *)
(* writes its row, its object is its own: no row, no other call and no     *)
(* headshot to be replaced names it (Own).  So whatever is removed, by a   *)
(* cleanup or a replacement, is named by no row when it is decided on,     *)
(* and no row comes to name it before the removal is done.                 *)
(***************************************************************************)
EXTENDS PrivateUploads, TLAPS

CallRow ==
  [kind : Uploads \cup {"none", "download", "archive"},
   step : Steps, key : Key \cup {NoKey}, file : File \cup {NoFile},
   read : Nat, previous : Object \cup {NoObject}, canonical : Nat,
   object : Object \cup {NoObject},
   answer : Refusals \cup {"none", "done", "replayed", "unread"}]
VersionRow == [key : Key, file : File, object : Object, number : Nat]

\* A version names the object, or has the key and the file.
InVersions(o) == \E i \in DOMAIN versions : versions[i].object = o
Recorded(k, f) == \E i \in DOMAIN versions : versions[i].key = k /\ versions[i].file = f

Rows ==
  /\ ReferencedIsStored
  /\ \A i \in DOMAIN versions : versions[i].number = i
  /\ \A i, j \in DOMAIN versions : versions[i].key = versions[j].key => i = j
  /\ ~ InVersions(profile.headshot)

\* The object of the call is stored, and its row is still to be written.
Unwritten(c) == c.step \in {"head", "profile", "update", "insert"}

\* What kind of call takes which step, and with what in hand.
Shape(c) ==
  /\ c.step \in {"put", "head", "verify", "check", "cleanup"} => c.kind \in Uploads
  /\ c.step \in {"profile", "update", "replace"} => c.kind = "headshot"
  /\ c.step \in {"source", "insert", "canonical"} => c.kind = "version"
  /\ c.step = "plan" => c.kind = "archive"
  /\ c.step = "open" => c.kind \in {"archive", "download"}
  /\ c.kind = "version" => c.key \in Key /\ c.file \in File
  /\ c.step \in {"source", "put"} => c.object = NoObject
  /\ c.step \in Steps \ {"idle", "source", "put", "done"} => c.object \in Object
  /\ c.kind = "download" => c.object \in Object
  /\ c.step = "replace" => c.answer = "done" /\ c.previous \in Object
  /\ c.kind = "archive" => c.answer # "error"
  /\ c.previous # NoObject => c.previous # c.object

\* What the call knows of the files and of the rows.
Facts(c) ==
  /\ c.object \in drawn \cup {NoObject} /\ c.previous \in drawn \cup {NoObject}
  /\ Unwritten(c) => c.object \in stored /\ ~ Referenced(c.object)
  /\ c.step = "cleanup" => ~ Referenced(c.object)
  /\ c.step = "replace" => ~ Referenced(c.previous)
  /\ ~ InVersions(c.previous)
  /\ c.kind = "headshot" => ~ InVersions(c.object)
  /\ c.kind = "version" /\ c.canonical # 0 =>
       c.canonical \in DOMAIN versions /\ versions[c.canonical].key = c.key
  /\ c.kind = "version" /\ (c.step = "verify" \/ c.answer \in {"done", "replayed"}) =>
       Recorded(c.key, c.file)
  /\ c.step \in {"plan", "open"} /\ c.kind = "archive" => InVersions(c.object)
  /\ c.kind = "download" /\ c.answer = "error" => ~ Referenced(c.object)

\* While nothing has failed, a version that was rejected is not recorded.
Knows(c) ==
  /\ Facts(c)
  /\ c.kind = "version" /\ c.step \in {"canonical", "check"} /\ faults = 0 =>
       ~ InVersions(c.object)

\* The object of an upload that has not written its row is no other call's.
Own ==
  \A p, q \in Upload : Unwritten(upload[p]) =>
    /\ upload[q].previous # upload[p].object
    /\ p # q => upload[q].object # upload[p].object

Typed ==
  /\ stored \subseteq drawn /\ drawn \subseteq Object
  /\ profile \in [headshot : Object \cup {NoObject}, revision : Nat]
  /\ active \in BOOLEAN
  /\ versions \in Seq(VersionRow)
  /\ faults \in 0 .. Faults

Calls ==
  /\ upload \in [Upload -> CallRow]
  /\ \A p \in Upload : Shape(upload[p]) /\ Knows(upload[p])
  /\ Own

IInv == Typed /\ Rows /\ Calls
-----------------------------------------------------------------------------
(***************************************************************************)
(* Frames.                                                                 *)
(***************************************************************************)

\* A call that moves on changes its step and its answer.
Same(c, d) ==
  /\ c.kind = d.kind /\ c.key = d.key /\ c.file = d.file /\ c.read = d.read
  /\ c.previous = d.previous /\ c.canonical = d.canonical /\ c.object = d.object

LEMMA Goes ==
    ASSUME upload \in [Upload -> CallRow], NEW p \in Upload, NEW step \in Steps, Goto(p, step)
    PROVE  \E c \in CallRow : /\ upload' = [upload EXCEPT ![p] = c]
                              /\ Same(c, upload[p])
                              /\ c.step = step /\ c.answer = upload[p].answer
<1>1. PICK c : c = [upload[p] EXCEPT !.step = step]
  OBVIOUS
<1>2. upload[p] \in CallRow
  OBVIOUS
<1>3. c \in CallRow /\ Same(c, upload[p]) /\ c.step = step /\ c.answer = upload[p].answer
  BY <1>1, <1>2 DEF CallRow, Same
<1>4. upload' = [upload EXCEPT ![p] = c]
  BY <1>1 DEF Goto
<1> QED BY <1>3, <1>4

LEMMA Answers ==
    ASSUME upload \in [Upload -> CallRow], NEW p \in Upload, NEW step \in Steps,
           NEW answer \in Refusals \cup {"none", "done", "replayed", "unread"},
           Answer(p, answer, step)
    PROVE  \E c \in CallRow : /\ upload' = [upload EXCEPT ![p] = c]
                              /\ Same(c, upload[p])
                              /\ c.step = step /\ c.answer = answer
<1>1. PICK c : c = [upload[p] EXCEPT !.step = step, !.answer = answer]
  OBVIOUS
<1>2. upload[p] \in CallRow
  OBVIOUS
<1>3. c \in CallRow /\ Same(c, upload[p]) /\ c.step = step /\ c.answer = answer
  BY <1>1, <1>2 DEF CallRow, Same
<1>4. upload' = [upload EXCEPT ![p] = c]
  BY <1>1 DEF Answer
<1> QED BY <1>3, <1>4

\* The call of p becomes c, the rows stay, and no object goes that a row names or an
\* upload has yet to name.
LEMMA OneCall ==
    ASSUME IInv, NEW p \in Upload, NEW c \in CallRow, upload' = [upload EXCEPT ![p] = c],
           UNCHANGED <<drawn, profile, versions, active>>,
           faults' \in 0 .. Faults, faults' = 0 => faults = 0,
           stored' \subseteq stored,
           \A o \in stored \ stored' :
             /\ ~ Referenced(o)
             /\ \A q \in Upload : Unwritten(upload[q]) => upload[q].object # o,
           Shape(c), Facts(c), faults' = 0 => Knows(c),
           Unwritten(c) => Unwritten(upload[p]) /\ c.object = upload[p].object,
           c.object \in {upload[p].object, NoObject} \/ Referenced(c.object),
           c.previous \in {upload[p].previous, NoObject, profile.headshot}
    PROVE  IInv'
<1>1. Typed'
  BY DEF IInv, Typed
<1>2. Rows'
  <2>1. ReferencedIsStored'
    BY DEF IInv, Rows, Typed, ReferencedIsStored, Referenced, VersionRow
  <2> QED BY <2>1 DEF IInv, Rows, InVersions
<1>3. upload' \in [Upload -> CallRow] /\ upload'[p] = c
      /\ \A q \in Upload \ {p} : upload'[q] = upload[q]
  BY DEF IInv, Calls
<1>4. ASSUME NEW d \in CallRow, Facts(d), Unwritten(d) => d.object \in stored',
             faults' = 0 => Knows(d)
      PROVE  Knows(d)'
  BY <1>4 DEF Facts, Knows, Unwritten, Referenced, InVersions, Recorded
<1>5. ASSUME NEW q \in Upload, Unwritten(upload[q]) PROVE upload[q].object \in stored'
  BY <1>5 DEF IInv, Calls, Knows, Facts
<1>6. \A q \in Upload : Shape(upload'[q])
  BY <1>3 DEF IInv, Calls
<1>7. ASSUME NEW q \in Upload PROVE Knows(upload[q])'
  <2>1. PICK d \in CallRow : d = upload'[q]
    BY <1>3
  <2>2. Facts(d) /\ (faults' = 0 => Knows(d)) /\ (Unwritten(d) => d.object \in stored')
    BY <1>3, <1>5, <2>1 DEF IInv, Calls, Knows, Facts
  <2>3. Knows(d)'
    BY <1>4, <2>2
  <2> QED BY <2>1, <2>3 DEF Knows, Facts
<1>8. Own'
  <2> SUFFICES ASSUME NEW q \in Upload, NEW r \in Upload, Unwritten(upload'[q])
               PROVE  /\ upload'[r].previous # upload'[q].object
                      /\ q # r => upload'[r].object # upload'[q].object
    BY DEF Own, Unwritten
  <2>1. Unwritten(upload[q]) /\ upload'[q].object = upload[q].object
    BY <1>3
  <2>2. upload[q].object \in Object /\ ~ Referenced(upload[q].object)
    BY <2>1 DEF IInv, Calls, Shape, Knows, Facts, Unwritten, Steps
  <2>3. CASE r = p
    BY <1>3, <2>1, <2>2, <2>3, UploadAssumption DEF IInv, Calls, Own, Referenced
  <2>4. CASE r # p
    BY <1>3, <2>1, <2>4 DEF IInv, Calls, Own
  <2> QED BY <2>3, <2>4
<1> QED BY <1>1, <1>2, <1>3, <1>6, <1>7, <1>8 DEF IInv, Calls

\* Files and rows stay: a read, an answer, an error.
LEMMA Moves ==
    ASSUME IInv, NEW p \in Upload, NEW c \in CallRow, upload' = [upload EXCEPT ![p] = c],
           Same(c, upload[p]), UNCHANGED <<files, rows>>, (UNCHANGED faults) \/ Fault,
           Shape(c), Knows(c), Unwritten(c) => Unwritten(upload[p])
    PROVE  IInv'
<1>1. faults' \in 0 .. Faults /\ (faults' = 0 => faults = 0)
  BY UploadAssumption DEF Fault, IInv, Typed
<1>2. /\ c.object = upload[p].object /\ c.previous = upload[p].previous
      /\ UNCHANGED <<stored, drawn, profile, active, versions>>
  BY DEF Same, files, rows
<1> QED BY <1>1, <1>2, OneCall DEF Knows

\* A call begins, on what the rows name.
LEMMA Begins ==
    ASSUME IInv, NEW p \in Upload, NEW c \in CallRow, upload' = [upload EXCEPT ![p] = c],
           UNCHANGED <<files, rows>>, (UNCHANGED faults) \/ Fault,
           Shape(c), Knows(c), ~ Unwritten(c),
           c.object = NoObject \/ Referenced(c.object),
           c.previous \in {NoObject, profile.headshot}
    PROVE  IInv'
<1>1. faults' \in 0 .. Faults /\ (faults' = 0 => faults = 0)
  BY UploadAssumption DEF Fault, IInv, Typed
<1>2. UNCHANGED <<stored, drawn, profile, active, versions>>
  BY DEF files, rows
<1> QED BY <1>1, <1>2, OneCall DEF Knows

\* What is known of the call of p, and of a row's object.
LEMMA Now ==
    ASSUME IInv, NEW p \in Upload
    PROVE  upload[p] \in CallRow /\ Shape(upload[p]) /\ Knows(upload[p])
BY DEF IInv, Calls

LEMMA RowObjects ==
    ASSUME IInv
    PROVE  /\ ~ InVersions(NoObject)
           /\ \A i \in DOMAIN versions :
                versions[i] \in VersionRow /\ versions[i].object \in stored
           /\ \A o \in Object : Referenced(o) => o \in stored
           /\ \A k : Canonical(k) # 0 =>
                Canonical(k) \in DOMAIN versions /\ versions[Canonical(k)].key = k
           /\ \A k : Canonical(k) \in Nat
<1>1. \A i \in DOMAIN versions : versions[i] \in VersionRow /\ i \in Nat
  BY DEF IInv, Typed
<1>2. \A i \in DOMAIN versions : versions[i].object \in stored
  BY DEF IInv, Rows, ReferencedIsStored
<1>3. ~ InVersions(NoObject)
  BY <1>1, UploadAssumption DEF InVersions, VersionRow
<1>4. \A o \in Object : Referenced(o) => o \in stored
  BY UploadAssumption DEF IInv, Rows, ReferencedIsStored, Referenced
<1>5. ASSUME NEW k, Canonical(k) # 0
      PROVE  Canonical(k) \in VersionsOf(k)
  BY <1>5 DEF Canonical
<1>6. ASSUME NEW k PROVE Canonical(k) \in Nat
  <2>1. CASE Canonical(k) = 0
    BY <2>1
  <2>2. CASE Canonical(k) # 0
    BY <1>1, <1>5, <2>2 DEF VersionsOf
  <2> QED BY <2>1, <2>2
<1> QED BY <1>1, <1>2, <1>3, <1>4, <1>5, <1>6 DEF VersionsOf

(***************************************************************************)
(* Steps that leave files and rows alone.                                  *)
(***************************************************************************)

LEMMA BeginHeadshotInv ==
    ASSUME IInv, NEW p \in Upload, BeginHeadshot(p)
    PROVE  IInv'
<1>1. PICK c : c = [Idle EXCEPT !.kind = "headshot", !.step = "put", !.read = profile.revision,
                                !.previous = profile.headshot]
  OBVIOUS
<1>2. profile.revision \in Nat /\ profile.headshot \in Object \cup {NoObject}
  BY DEF IInv, Typed
<1>3. /\ c \in CallRow /\ c.kind = "headshot" /\ c.step = "put" /\ c.object = NoObject
      /\ c.previous = profile.headshot /\ c.answer = "none"
  BY <1>1, <1>2 DEF Idle, CallRow, Uploads, Steps
<1>4. Shape(c)
  BY <1>3 DEF Shape, Uploads
<1>5. profile.headshot \in drawn \cup {NoObject}
  BY DEF IInv, Rows, Typed, ReferencedIsStored
<1>6. Knows(c)
  BY <1>3, <1>5, RowObjects DEF Knows, Facts, Unwritten, IInv, Rows
<1> QED BY <1>1, <1>3, <1>4, <1>6, Begins DEF BeginHeadshot, Unwritten

LEMMA BeginVersionInv ==
    ASSUME IInv, NEW p \in Upload, NEW k \in Key, NEW f \in File, BeginVersion(p, k, f)
    PROVE  IInv'
<1>1. PICK c : c = [Idle EXCEPT !.kind = "version", !.step = "source", !.key = k, !.file = f,
                                !.canonical = Canonical(k)]
  OBVIOUS
<1>2. Canonical(k) \in Nat
  BY RowObjects
<1>3. /\ c \in CallRow /\ c.kind = "version" /\ c.step = "source" /\ c.object = NoObject
      /\ c.previous = NoObject /\ c.answer = "none" /\ c.key = k /\ c.file = f
      /\ c.canonical = Canonical(k)
  BY <1>1, <1>2 DEF Idle, CallRow, Uploads, Steps
<1>4. Shape(c)
  BY <1>3 DEF Shape, Uploads
<1>5. Knows(c)
  BY <1>3, RowObjects DEF Knows, Facts, Unwritten
<1> QED BY <1>1, <1>3, <1>4, <1>5, Begins DEF BeginVersion, Unwritten

\* A replay is answered with the version of the key, which has the file.
LEMMA ReplayAnswers ==
    ASSUME NEW p \in Upload, NEW i \in DOMAIN versions, versions[i].key = upload[p].key
    PROVE  /\ Replay(p, i) \in {"replayed", "conflict"}
           /\ Replay(p, i) = "replayed" => Recorded(upload[p].key, upload[p].file)
BY DEF Replay, Recorded

LEMMA ReadSourceInv ==
    ASSUME IInv, NEW p \in Upload, ReadSource(p)
    PROVE  IInv'
<1>1. upload[p] \in CallRow /\ Shape(upload[p]) /\ Knows(upload[p])
  BY Now
<1>2. /\ upload[p].step = "source" /\ upload[p].kind = "version"
      /\ upload[p].object = NoObject /\ UNCHANGED <<files, rows, faults>>
  BY <1>1 DEF ReadSource, At, Shape
<1>3. ASSUME NEW answer \in {"missing", "replayed", "conflict"}, Answer(p, answer, "done"),
             answer = "replayed" => Recorded(upload[p].key, upload[p].file)
      PROVE  IInv'
  <2>1. PICK c \in CallRow : /\ upload' = [upload EXCEPT ![p] = c]
                             /\ Same(c, upload[p])
                             /\ c.step = "done" /\ c.answer = answer
    BY <1>3, Answers DEF Refusals, Steps, IInv, Calls
  <2>2. Shape(c) /\ Knows(c) /\ ~ Unwritten(c)
    BY <1>1, <1>2, <1>3, <2>1 DEF Shape, Knows, Facts, Same, Unwritten
  <2> QED BY <1>2, <2>1, <2>2, Moves
<1>4. CASE ~ active
  BY <1>3, <1>4 DEF ReadSource
<1>5. CASE active /\ upload[p].canonical # 0
  <2>1. /\ upload[p].canonical \in DOMAIN versions
        /\ versions[upload[p].canonical].key = upload[p].key
    BY <1>1, <1>2, <1>5 DEF Knows, Facts
  <2> QED BY <1>3, <1>5, <2>1, ReplayAnswers DEF ReadSource
<1>6. CASE active /\ upload[p].canonical = 0
  <2>1. PICK c : c = [upload[p] EXCEPT !.step = "put", !.read = Len(versions) + 1]
    OBVIOUS
  <2>2. Len(versions) + 1 \in Nat
    BY DEF IInv, Typed
  <2>3. /\ c \in CallRow /\ c.step = "put" /\ c.kind = "version" /\ c.object = NoObject
        /\ c.key = upload[p].key /\ c.file = upload[p].file /\ c.answer = upload[p].answer
        /\ c.previous = upload[p].previous /\ c.canonical = 0
    BY <1>1, <1>2, <1>6, <2>1, <2>2 DEF CallRow, Steps
  <2>4. upload' = [upload EXCEPT ![p] = c]
    BY <1>6, <2>1 DEF ReadSource, IInv, Calls
  <2>5. Shape(c)
    BY <1>1, <1>2, <2>3 DEF Shape, Uploads
  <2>6. Knows(c) /\ ~ Unwritten(c)
    BY <1>1, <1>2, <2>3 DEF Knows, Facts, Unwritten
  <2>7. /\ UNCHANGED <<stored, drawn, profile, active, versions>>
        /\ faults' \in 0 .. Faults /\ (faults' = 0 => faults = 0)
    BY <1>2 DEF files, rows, IInv, Typed
  <2> QED BY <2>3, <2>4, <2>5, <2>6, <2>7, OneCall DEF Knows
<1> QED BY <1>4, <1>5, <1>6

LEMMA RejectInv ==
    ASSUME IInv, NEW p \in Upload, Reject(p)
    PROVE  IInv'
<1>1. upload[p] \in CallRow /\ Shape(upload[p]) /\ Knows(upload[p])
  BY Now
<1>2. PICK c \in CallRow : /\ upload' = [upload EXCEPT ![p] = c]
                           /\ Same(c, upload[p])
                           /\ c.step = "done" /\ c.answer = "error"
  BY Answers DEF Reject, Refusals, Steps, IInv, Calls
<1>3. Shape(c) /\ Knows(c) /\ ~ Unwritten(c)
  BY <1>1, <1>2 DEF Reject, At, Shape, Knows, Facts, Same, Unwritten, Uploads
<1> QED BY <1>2, <1>3, Moves DEF Reject

LEMMA InspectFailsInv ==
    ASSUME IInv, NEW p \in Upload, InspectFails(p)
    PROVE  IInv'
<1>1. upload[p] \in CallRow /\ Shape(upload[p]) /\ Knows(upload[p])
  BY Now
<1>2. PICK c \in CallRow : /\ upload' = [upload EXCEPT ![p] = c]
                           /\ Same(c, upload[p])
                           /\ c.step = "cleanup" /\ c.answer = "error"
  BY Answers DEF InspectFails, Refusals, Steps, IInv, Calls
<1>3. Shape(c) /\ Knows(c) /\ ~ Unwritten(c)
  BY <1>1, <1>2 DEF InspectFails, At, Shape, Knows, Facts, Same, Unwritten, Uploads, Steps
<1> QED BY <1>2, <1>3, Moves DEF InspectFails

LEMMA InspectInv ==
    ASSUME IInv, NEW p \in Upload, Inspect(p)
    PROVE  IInv'
<1>1. upload[p] \in CallRow /\ Shape(upload[p]) /\ Knows(upload[p])
  BY Now
<1>2. Finalize(p) \in {"profile", "insert"}
      /\ (Finalize(p) = "profile" <=> upload[p].kind = "headshot")
  BY DEF Finalize
<1>3. PICK c \in CallRow : /\ upload' = [upload EXCEPT ![p] = c]
                           /\ Same(c, upload[p])
                           /\ c.step = Finalize(p) /\ c.answer = upload[p].answer
  BY <1>2, Goes DEF Inspect, Steps, IInv, Calls
<1>4. Unwritten(upload[p]) /\ upload[p].step = "head"
  BY DEF Inspect, At, Unwritten
<1>5. Shape(c)
  BY <1>1, <1>2, <1>3, <1>4 DEF Shape, Same, Uploads, Steps
<1>6. Knows(c)
  BY <1>1, <1>2, <1>3, <1>4 DEF Knows, Facts, Same, Unwritten
<1> QED BY <1>3, <1>4, <1>5, <1>6, Moves DEF Inspect

LEMMA CheckInv ==
    ASSUME IInv, NEW p \in Upload, Check(p) \/ CheckFails(p)
    PROVE  IInv'
<1>1. upload[p] \in CallRow /\ Shape(upload[p]) /\ Knows(upload[p]) /\ upload[p].step = "check"
  BY Now DEF Check, CheckFails, At
<1>2. PICK step \in {"done", "cleanup"} :
        Goto(p, step) /\ (step = "cleanup" => ~ Referenced(upload[p].object))
  BY DEF Check, CheckFails
<1>3. PICK c \in CallRow : /\ upload' = [upload EXCEPT ![p] = c]
                           /\ Same(c, upload[p])
                           /\ c.step = step /\ c.answer = upload[p].answer
  BY <1>2, Goes DEF Steps, IInv, Calls
<1>4. Shape(c)
  BY <1>1, <1>2, <1>3 DEF Shape, Same, Uploads, Steps
<1>5. Knows(c) /\ ~ Unwritten(c)
  BY <1>1, <1>2, <1>3 DEF Knows, Facts, Same, Unwritten
<1> QED BY <1>3, <1>4, <1>5, Moves DEF Check, CheckFails

LEMMA ReadProfileInv ==
    ASSUME IInv, NEW p \in Upload, ReadProfile(p)
    PROVE  IInv'
<1>1. /\ upload[p] \in CallRow /\ Shape(upload[p]) /\ Knows(upload[p])
      /\ upload[p].step = "profile" /\ Unwritten(upload[p])
  BY Now DEF ReadProfile, At, Unwritten
<1>2. PICK step \in {"update", "check"}, answer \in {"conflict", upload[p].answer},
           c \in CallRow : /\ upload' = [upload EXCEPT ![p] = c]
                           /\ Same(c, upload[p])
                           /\ c.step = step /\ c.answer = answer
  <2>1. CASE Goto(p, "update")
    BY <2>1, Goes DEF Steps, IInv, Calls
  <2>2. CASE Answer(p, "conflict", "check")
    BY <2>2, Answers DEF Refusals, Steps, IInv, Calls
  <2> QED BY <2>1, <2>2 DEF ReadProfile
<1>3. Shape(c)
  BY <1>1, <1>2 DEF Shape, Same, Uploads, Steps
<1>4. Knows(c)
  BY <1>1, <1>2 DEF Knows, Facts, Shape, Same, Unwritten
<1> QED BY <1>1, <1>2, <1>3, <1>4, Moves DEF ReadProfile

\* An upload whose headshot is on the profile replaces another object than its own,
\* which no row names.
LEMMA VerifyHeadshotInv ==
    ASSUME IInv, NEW p \in Upload, VerifyHeadshot(p)
    PROVE  IInv'
<1>1. /\ upload[p] \in CallRow /\ Shape(upload[p]) /\ Knows(upload[p])
      /\ upload[p].step = "verify" /\ upload[p].kind = "headshot"
      /\ upload[p].object \in Object
  BY Now DEF VerifyHeadshot, At, Shape, Steps
<1>2. CASE profile = [headshot |-> upload[p].object, revision |-> upload[p].read + 1]
  <2>1. profile.headshot = upload[p].object
    BY <1>2
  <2>2. PICK step \in {"done", "replace"} :
          /\ Answer(p, "done", step)
          /\ step = "replace" => upload[p].previous # NoObject
    BY <1>2 DEF VerifyHeadshot
  <2>3. step = "replace" => ~ Referenced(upload[p].previous) /\ upload[p].previous \in Object
    BY <1>1, <2>1, <2>2 DEF Shape, Knows, Facts, Referenced, InVersions, CallRow
  <2>4. PICK c \in CallRow : /\ upload' = [upload EXCEPT ![p] = c]
                             /\ Same(c, upload[p])
                             /\ c.step = step /\ c.answer = "done"
    BY <2>2, Answers DEF Steps, IInv, Calls
  <2>5. Shape(c)
    BY <1>1, <2>3, <2>4 DEF Shape, Same, Uploads, Steps
  <2>6. Knows(c) /\ ~ Unwritten(c)
    BY <1>1, <2>3, <2>4 DEF Knows, Facts, Same, Unwritten
  <2> QED BY <2>4, <2>5, <2>6, Moves DEF VerifyHeadshot
<1>3. CASE Answer(p, "conflict", "check")
  <2>1. PICK c \in CallRow : /\ upload' = [upload EXCEPT ![p] = c]
                             /\ Same(c, upload[p])
                             /\ c.step = "check" /\ c.answer = "conflict"
    BY <1>3, Answers DEF Refusals, Steps, IInv, Calls
  <2>2. Shape(c)
    BY <1>1, <2>1 DEF Shape, Same, Uploads, Steps
  <2>3. Knows(c) /\ ~ Unwritten(c)
    BY <1>1, <2>1 DEF Knows, Facts, Same, Unwritten
  <2> QED BY <2>1, <2>2, <2>3, Moves DEF VerifyHeadshot
<1> QED BY <1>2, <1>3 DEF VerifyHeadshot

LEMMA FindCanonicalInv ==
    ASSUME IInv, NEW p \in Upload, FindCanonical(p)
    PROVE  IInv'
<1>1. /\ upload[p] \in CallRow /\ Shape(upload[p]) /\ Knows(upload[p])
      /\ upload[p].step = "canonical" /\ upload[p].kind = "version"
  BY Now DEF FindCanonical, At, Shape
<1>2. PICK answer \in {"error", "replayed", "conflict"} :
        /\ Answer(p, answer, "check")
        /\ answer = "replayed" => Recorded(upload[p].key, upload[p].file)
  <2>1. CASE Canonical(upload[p].key) = 0
    BY <2>1 DEF FindCanonical
  <2>2. CASE Canonical(upload[p].key) # 0
    <3>1. /\ Canonical(upload[p].key) \in DOMAIN versions
          /\ versions[Canonical(upload[p].key)].key = upload[p].key
      BY <2>2, RowObjects
    <3>2. Answer(p, Replay(p, Canonical(upload[p].key)), "check")
      BY <2>2 DEF FindCanonical
    <3> QED BY <3>1, <3>2, ReplayAnswers
  <2> QED BY <2>1, <2>2
<1>3. PICK c \in CallRow : /\ upload' = [upload EXCEPT ![p] = c]
                           /\ Same(c, upload[p])
                           /\ c.step = "check" /\ c.answer = answer
  BY <1>2, Answers DEF Refusals, Steps, IInv, Calls
<1>4. Shape(c)
  BY <1>1, <1>2, <1>3 DEF Shape, Same, Uploads, Steps
<1>5. Knows(c) /\ ~ Unwritten(c)
  BY <1>1, <1>2, <1>3 DEF Knows, Facts, Same, Unwritten
<1> QED BY <1>3, <1>4, <1>5, Moves DEF FindCanonical

LEMMA VerifyVersionInv ==
    ASSUME IInv, NEW p \in Upload, VerifyVersion(p)
    PROVE  IInv'
<1>1. upload[p] \in CallRow /\ Shape(upload[p]) /\ Knows(upload[p])
  BY Now
<1>2. PICK c \in CallRow : /\ upload' = [upload EXCEPT ![p] = c]
                           /\ Same(c, upload[p])
                           /\ c.step = "done" /\ c.answer = "done"
  BY Answers DEF VerifyVersion, Refusals, Steps, IInv, Calls
<1>3. Shape(c) /\ Knows(c) /\ ~ Unwritten(c)
  BY <1>1, <1>2 DEF VerifyVersion, At, Shape, Knows, Facts, Same, Unwritten, Uploads
<1> QED BY <1>2, <1>3, Moves DEF VerifyVersion

\* A failed read of an upload that is perhaps recorded is a fault.
LEMMA ReadFailsInv ==
    ASSUME IInv, NEW p \in Upload, ReadFails(p)
    PROVE  IInv'
<1>1. /\ upload[p] \in CallRow /\ Shape(upload[p]) /\ Knows(upload[p])
      /\ upload[p].step \in {"profile", "verify", "canonical"}
  BY Now DEF ReadFails
<1>2. PICK c \in CallRow : /\ upload' = [upload EXCEPT ![p] = c]
                           /\ Same(c, upload[p])
                           /\ c.step = "check" /\ c.answer = "error"
  BY Answers DEF ReadFails, Refusals, Steps, IInv, Calls
<1>3. Shape(c) /\ c.kind \in Uploads /\ c.object \in Object
  BY <1>1, <1>2 DEF Shape, Same, Uploads, Steps
<1>4. faults' # 0 /\ faults' \in 0 .. Faults
  BY UploadAssumption DEF ReadFails, Fault, IInv, Typed
<1>5. Facts(c)
  BY <1>1, <1>2, <1>3 DEF Shape, Knows, Facts, Same, Unwritten, Uploads
<1>6. UNCHANGED <<stored, drawn, profile, active, versions>>
  BY DEF ReadFails, files, rows
<1> QED BY <1>2, <1>3, <1>4, <1>5, <1>6, OneCall DEF Same, Unwritten

\* A call that reads names the object of a row.
LEMMA DownloadInv ==
    ASSUME IInv, NEW p \in Upload, BeginDownload(p) \/ BeginArchive(p)
    PROVE  IInv'
<1>1. PICK kind \in {"download", "archive"}, step \in {"open", "plan"}, o \in Object :
        /\ Download(p, kind, step, o)
        /\ kind = "download" <=> step = "open"
        /\ Referenced(o) /\ o \in drawn
        /\ kind = "archive" => InVersions(o)
  <2>1. CASE BeginDownload(p)
    BY <2>1 DEF BeginDownload, IInv, Typed
  <2>2. CASE BeginArchive(p)
    <3>1. Len(versions) \in DOMAIN versions
      BY <2>2 DEF BeginArchive, IInv, Typed
    <3>2. versions[Len(versions)].object \in stored /\ InVersions(versions[Len(versions)].object)
      BY <3>1, RowObjects DEF InVersions
    <3>3. Referenced(versions[Len(versions)].object)
      BY <3>1 DEF Referenced
    <3> QED BY <2>2, <3>2, <3>3 DEF BeginArchive, IInv, Typed
  <2> QED BY <2>1, <2>2
<1>2. PICK c : c = [Idle EXCEPT !.kind = kind, !.step = step, !.object = o]
  OBVIOUS
<1>3. /\ c \in CallRow /\ c.kind = kind /\ c.step = step /\ c.object = o
      /\ c.previous = NoObject /\ c.answer = "none"
  BY <1>1, <1>2 DEF Idle, CallRow, Uploads, Steps
<1>4. upload' = [upload EXCEPT ![p] = c] /\ UNCHANGED <<files, rows, faults>>
  BY <1>1, <1>2 DEF Download, BeginDownload, BeginArchive
<1>5. Shape(c)
  BY <1>1, <1>3, UploadAssumption DEF Shape, Uploads, Steps
<1>6. Knows(c) /\ ~ Unwritten(c)
  BY <1>1, <1>3, RowObjects DEF Knows, Facts, Unwritten
<1> QED BY <1>1, <1>3, <1>4, <1>5, <1>6, Begins

\* The archive's object is there; a download that fails was of a replaced headshot.
LEMMA ReadsInv ==
    ASSUME IInv, NEW p \in Upload, VerifyObject(p) \/ Open(p)
    PROVE  IInv'
<1>1. /\ upload[p] \in CallRow /\ Shape(upload[p]) /\ Knows(upload[p])
      /\ upload[p].step \in {"plan", "open"}
      /\ upload[p].object \in Object /\ upload[p].kind \in {"archive", "download"}
      /\ VerifyObject(p) => upload[p].kind = "archive"
      /\ UNCHANGED <<files, rows, faults>>
  BY Now DEF VerifyObject, Open, At, Shape, Steps
<1>2. upload[p].object \notin stored => /\ upload[p].kind = "download"
                                        /\ ~ Referenced(upload[p].object)
  BY <1>1, RowObjects DEF Knows, Facts, InVersions
<1>3. CASE Goto(p, "open")
  <2>1. PICK c \in CallRow : /\ upload' = [upload EXCEPT ![p] = c]
                             /\ Same(c, upload[p])
                             /\ c.step = "open" /\ c.answer = upload[p].answer
    BY <1>3, Goes DEF Steps, IInv, Calls
  <2>2. Shape(c)
    BY <1>1, <2>1 DEF Shape, Same, Uploads, Steps
  <2>3. Knows(c) /\ ~ Unwritten(c)
    BY <1>1, <2>1 DEF Knows, Facts, Shape, Same, Unwritten, Uploads
  <2> QED BY <1>1, <2>1, <2>2, <2>3, Moves
<1>4. ASSUME NEW answer \in {"done", "error"}, Answer(p, answer, "done"),
             answer = "error" => upload[p].object \notin stored
      PROVE  IInv'
  <2>1. PICK c \in CallRow : /\ upload' = [upload EXCEPT ![p] = c]
                             /\ Same(c, upload[p])
                             /\ c.step = "done" /\ c.answer = answer
    BY <1>4, Answers DEF Refusals, Steps, IInv, Calls
  <2>2. Shape(c)
    BY <1>1, <1>2, <1>4, <2>1 DEF Shape, Same, Uploads, Steps
  <2>3. Knows(c) /\ ~ Unwritten(c)
    BY <1>1, <1>2, <1>4, <2>1 DEF Knows, Facts, Same, Unwritten
  <2> QED BY <1>1, <2>1, <2>2, <2>3, Moves
<1>5. CASE VerifyObject(p)
  BY <1>3, <1>4, <1>5, <1>2, <1>1 DEF VerifyObject
<1>6. CASE Open(p)
  <2>1. CASE upload[p].object \in stored
    BY <1>4, <1>6, <2>1 DEF Open
  <2>2. CASE upload[p].object \notin stored
    BY <1>4, <1>6, <2>2 DEF Open
  <2> QED BY <2>1, <2>2
<1> QED BY <1>5, <1>6

\* A read that fails by itself says nothing of the object.
LEMMA UnreadInv ==
    ASSUME IInv, NEW p \in Upload, Unread(p)
    PROVE  IInv'
<1>1. /\ upload[p] \in CallRow /\ Shape(upload[p]) /\ Knows(upload[p])
      /\ upload[p].object \in Object /\ upload[p].kind \in {"archive", "download"}
      /\ UNCHANGED <<files, rows>> /\ Fault
  BY Now DEF Unread, Shape, Steps
<1>2. PICK c \in CallRow : /\ upload' = [upload EXCEPT ![p] = c]
                           /\ Same(c, upload[p])
                           /\ c.step = "done" /\ c.answer = "unread"
  BY Answers DEF Unread, Steps, IInv, Calls
<1>3. Shape(c)
  BY <1>1, <1>2 DEF Shape, Same, Uploads, Steps
<1>4. Knows(c) /\ ~ Unwritten(c)
  BY <1>1, <1>2 DEF Knows, Facts, Same, Unwritten
<1> QED BY <1>1, <1>2, <1>3, <1>4, Moves

LEMMA CrashInv ==
    ASSUME IInv, NEW p \in Upload, Crash(p)
    PROVE  IInv'
<1>1. PICK c : c = Idle
  OBVIOUS
<1>2. /\ c \in CallRow /\ c.kind = "none" /\ c.step = "idle" /\ c.object = NoObject
      /\ c.previous = NoObject /\ c.answer = "none"
  BY <1>1 DEF Idle, CallRow, Steps
<1>3. Shape(c)
  BY <1>2 DEF Shape, Uploads
<1>4. Knows(c) /\ ~ Unwritten(c)
  BY <1>2, RowObjects DEF Knows, Facts, Unwritten
<1> QED BY <1>1, <1>2, <1>3, <1>4, Begins DEF Crash

(***************************************************************************)
(* Steps that write files.                                                 *)
(***************************************************************************)

\* A new object is nobody's but the call's that put it.
LEMMA PutInv ==
    ASSUME IInv, NEW p \in Upload, Put(p) \/ PutFails(p)
    PROVE  IInv'
<1>1. /\ upload[p] \in CallRow /\ Shape(upload[p]) /\ Knows(upload[p])
      /\ upload[p].step = "put" /\ upload[p].kind \in Uploads
  BY Now DEF Put, PutFails, At, Shape
<1>2. PICK o \in Object \ drawn, c \in CallRow :
        /\ drawn' = drawn \cup {o} /\ stored' \in {stored, stored \cup {o}}
        /\ upload' = [upload EXCEPT ![p] = c]
        /\ c.object = o /\ c.kind = upload[p].kind /\ c.key = upload[p].key
        /\ c.file = upload[p].file /\ c.previous = upload[p].previous
        /\ c.canonical = upload[p].canonical
        /\ \/ /\ c.step = "head" /\ o \in stored' /\ c.answer = upload[p].answer
           \/ c.step = "done" /\ c.answer = "error"
  <2>1. CASE Put(p)
    <3>1. PICK o \in Object \ drawn :
            /\ drawn' = drawn \cup {o} /\ stored' = stored \cup {o}
            /\ upload' = [upload EXCEPT ![p].step = "head", ![p].object = o]
      BY <2>1 DEF Put
    <3>2. PICK c : c = [upload[p] EXCEPT !.step = "head", !.object = o]
      OBVIOUS
    <3>3. upload' = [upload EXCEPT ![p] = c]
      BY <3>1, <3>2 DEF IInv, Calls
    <3>4. /\ c \in CallRow /\ c.object = o /\ c.kind = upload[p].kind /\ c.key = upload[p].key
          /\ c.file = upload[p].file /\ c.previous = upload[p].previous
          /\ c.canonical = upload[p].canonical /\ c.step = "head" /\ c.answer = upload[p].answer
      BY <1>1, <3>2 DEF CallRow, Steps
    <3> QED BY <3>1, <3>3, <3>4
  <2>2. CASE PutFails(p)
    <3>1. PICK o \in Object \ drawn :
            /\ drawn' = drawn \cup {o} /\ stored' \in {stored, stored \cup {o}}
            /\ upload' = [upload EXCEPT ![p].step = "done", ![p].object = o, ![p].answer = "error"]
      BY <2>2 DEF PutFails
    <3>2. PICK c : c = [upload[p] EXCEPT !.step = "done", !.object = o, !.answer = "error"]
      OBVIOUS
    <3>3. upload' = [upload EXCEPT ![p] = c]
      BY <3>1, <3>2 DEF IInv, Calls
    <3>4. /\ c \in CallRow /\ c.object = o /\ c.kind = upload[p].kind /\ c.key = upload[p].key
          /\ c.file = upload[p].file /\ c.previous = upload[p].previous
          /\ c.canonical = upload[p].canonical /\ c.step = "done" /\ c.answer = "error"
      BY <1>1, <3>2 DEF CallRow, Steps, Refusals
    <3> QED BY <3>1, <3>3, <3>4
  <2> QED BY <2>1, <2>2
<1>3. /\ UNCHANGED <<profile, active, versions>>
      /\ faults' \in 0 .. Faults /\ (faults' = 0 => faults = 0)
  <2>1. UNCHANGED rows /\ ((UNCHANGED faults) \/ Fault)
    BY DEF Put, PutFails
  <2> QED BY <2>1, UploadAssumption DEF rows, Fault, IInv, Typed
<1>4. ~ Referenced(o) /\ \A q \in Upload : upload[q].object # o /\ upload[q].previous # o
  <2>1. ~ Referenced(o)
    BY RowObjects DEF IInv, Typed
  <2> QED BY <2>1, UploadAssumption DEF IInv, Calls, Knows, Facts
<1>5. Typed' /\ Rows'
  BY <1>2, <1>3 DEF IInv, Typed, Rows, ReferencedIsStored, InVersions
<1>6. upload' \in [Upload -> CallRow] /\ upload'[p] = c
      /\ \A q \in Upload \ {p} : upload'[q] = upload[q]
  BY <1>2 DEF IInv, Calls
<1>7. Shape(c)
  BY <1>1, <1>2, <1>4 DEF Shape, Uploads, Steps
<1>8. ~ InVersions(o) /\ o \notin {NoObject}
  BY <1>4, UploadAssumption DEF Referenced, InVersions
<1>9. Knows(c)'
  BY <1>1, <1>2, <1>3, <1>4, <1>8
  DEF Knows, Facts, Unwritten, Referenced, InVersions, Recorded, Shape, Uploads
<1>10. ASSUME NEW d \in CallRow, Knows(d) PROVE Knows(d)'
  BY <1>2, <1>3, <1>10 DEF Knows, Facts, Unwritten, Referenced, InVersions, Recorded
<1>11. ASSUME NEW q \in Upload PROVE Shape(upload'[q]) /\ Knows(upload[q])'
  <2>1. PICK d \in CallRow : d = upload'[q]
    BY <1>6
  <2>2. Shape(d) /\ Knows(d)'
    BY <1>6, <1>7, <1>9, <1>10, <2>1 DEF IInv, Calls
  <2> QED BY <2>1, <2>2 DEF Knows, Facts
<1>12. Own'
  <2> SUFFICES ASSUME NEW q \in Upload, NEW r \in Upload, Unwritten(upload'[q])
               PROVE  /\ upload'[r].previous # upload'[q].object
                      /\ q # r => upload'[r].object # upload'[q].object
    BY DEF Own, Unwritten
  <2>1. CASE q = p
    BY <1>2, <1>4, <1>6, <2>1
  <2>2. CASE q # p
    <3>1. upload'[q] = upload[q] /\ Unwritten(upload[q])
      BY <1>6, <2>2
    <3> QED BY <1>2, <1>4, <1>6, <3>1 DEF IInv, Calls, Own
  <2> QED BY <2>1, <2>2
<1> QED BY <1>5, <1>6, <1>11, <1>12 DEF IInv, Calls

\* What a call removes at its end is named by no row and by no upload to come.
LEMMA RemovalInv ==
    ASSUME IInv, NEW p \in Upload, Cleanup(p) \/ CleanupFails(p) \/ Replace(p) \/ ReplaceFails(p)
    PROVE  IInv'
<1>1. /\ upload[p] \in CallRow /\ Shape(upload[p]) /\ Knows(upload[p])
      /\ upload[p].step \in {"cleanup", "replace"} /\ ~ Unwritten(upload[p])
  BY Now DEF Cleanup, CleanupFails, Replace, ReplaceFails, At, Unwritten
<1>2. PICK gone \in {upload[p].object, upload[p].previous} :
        ~ Referenced(gone) /\ stored' \in {stored, stored \ {gone}}
  BY <1>1 DEF Cleanup, CleanupFails, Replace, ReplaceFails, At, Knows, Facts
<1>3. PICK answer \in {upload[p].answer, "error"},
           c \in CallRow : /\ upload' = [upload EXCEPT ![p] = c]
                           /\ Same(c, upload[p])
                           /\ c.step = "done" /\ c.answer = answer
  <2>1. CASE Goto(p, "done")
    BY <2>1, Goes DEF Steps, IInv, Calls
  <2>2. CASE Answer(p, "error", "done")
    BY <2>2, Answers DEF Refusals, Steps, IInv, Calls
  <2> QED BY <2>1, <2>2 DEF Cleanup, CleanupFails, Replace, ReplaceFails
<1>4. \A q \in Upload : Unwritten(upload[q]) => upload[q].object # gone
  BY <1>1, <1>2 DEF IInv, Calls, Own
<1>5. /\ UNCHANGED <<drawn, profile, active, versions>>
      /\ faults' \in 0 .. Faults /\ (faults' = 0 => faults = 0)
  BY UploadAssumption
  DEF Cleanup, CleanupFails, Replace, ReplaceFails, rows, Fault, IInv, Typed
<1>6. Shape(c)
  BY <1>1, <1>3 DEF Shape, Same, Uploads, Steps
<1>7. Knows(c) /\ ~ Unwritten(c)
  BY <1>1, <1>3 DEF Knows, Facts, Same, Shape, Unwritten, Uploads
<1> QED BY <1>2, <1>3, <1>4, <1>5, <1>6, <1>7, OneCall DEF Knows, Same

(***************************************************************************)
(* Steps that write rows.                                                  *)
(***************************************************************************)

\* The profile takes the object of an upload, which nobody else names.
LEMMA HeadshotWritten ==
    ASSUME IInv, NEW p \in Upload, NEW c \in CallRow, upload' = [upload EXCEPT ![p] = c],
           At(p, "update"), Same(c, upload[p]), c.step \in {"verify", "check"}, Shape(c),
           profile' = NewHeadshot(p),
           UNCHANGED <<files, active, versions>>, (UNCHANGED faults) \/ Fault
    PROVE  IInv'
<1>1. /\ upload[p] \in CallRow /\ Shape(upload[p]) /\ Knows(upload[p])
      /\ upload[p].kind = "headshot" /\ Unwritten(upload[p])
  BY Now DEF At, Shape, Unwritten
<1>2. PICK o \in Object : /\ o = upload[p].object /\ o \in stored /\ ~ Referenced(o)
  BY <1>1 DEF Shape, Knows, Facts, Unwritten, Steps
<1>3. /\ UNCHANGED <<stored, drawn, active, versions>>
      /\ faults' \in 0 .. Faults /\ (faults' = 0 => faults = 0)
  BY UploadAssumption DEF files, Fault, IInv, Typed
<1>4. profile'.headshot = o /\ Typed'
  BY <1>2, <1>3 DEF NewHeadshot, IInv, Typed
<1>5. Rows'
  BY <1>2, <1>3, <1>4 DEF IInv, Rows, ReferencedIsStored, InVersions, Referenced
<1>6. upload' \in [Upload -> CallRow] /\ upload'[p] = c
      /\ \A q \in Upload \ {p} : upload'[q] = upload[q]
  BY DEF IInv, Calls
<1>7. ASSUME NEW x, x # o, ~ Referenced(x) PROVE ~ Referenced(x)'
  BY <1>3, <1>4, <1>7 DEF Referenced
<1>8. ASSUME NEW q \in Upload, q # p
      PROVE  /\ upload[q].previous # o
             /\ upload[q].object # o
  BY <1>1, <1>2, <1>8 DEF IInv, Calls, Own
<1>9. ASSUME NEW d \in CallRow, Knows(d), d.object # o, d.previous # o PROVE Knows(d)'
  BY <1>3, <1>7, <1>9 DEF Knows, Facts, Unwritten, InVersions, Recorded
<1>10. Knows(c)'
  BY <1>1, <1>3 DEF Knows, Facts, Unwritten, InVersions, Recorded, Same
<1>11. ASSUME NEW q \in Upload PROVE Shape(upload'[q]) /\ Knows(upload[q])'
  <2>1. PICK d \in CallRow : d = upload'[q]
    BY <1>6
  <2>2. Shape(d) /\ Knows(d)'
    BY <1>6, <1>8, <1>9, <1>10, <2>1 DEF IInv, Calls
  <2> QED BY <2>1, <2>2 DEF Knows, Facts
<1>12. Own'
  BY <1>6 DEF IInv, Calls, Own, Same, Unwritten
<1> QED BY <1>4, <1>5, <1>6, <1>11, <1>12 DEF IInv, Calls

LEMMA UpdateProfileInv ==
    ASSUME IInv, NEW p \in Upload, UpdateProfile(p) \/ UpdateFails(p)
    PROVE  IInv'
<1>1. /\ upload[p] \in CallRow /\ Shape(upload[p]) /\ Knows(upload[p])
      /\ At(p, "update") /\ upload[p].kind = "headshot"
  BY Now DEF UpdateProfile, UpdateFails, At, Shape
<1>2. PICK step \in {"verify", "check"}, answer \in {upload[p].answer, "conflict", "error"},
           c \in CallRow : /\ upload' = [upload EXCEPT ![p] = c]
                           /\ Same(c, upload[p])
                           /\ c.step = step /\ c.answer = answer
  <2>1. CASE Goto(p, "verify")
    BY <2>1, Goes DEF Steps, IInv, Calls
  <2>2. CASE Answer(p, "conflict", "check")
    BY <2>2, Answers DEF Refusals, Steps, IInv, Calls
  <2>3. CASE Answer(p, "error", "check")
    BY <2>3, Answers DEF Refusals, Steps, IInv, Calls
  <2> QED BY <2>1, <2>2, <2>3 DEF UpdateProfile, UpdateFails
<1>3. Shape(c)
  BY <1>1, <1>2 DEF Shape, Same, Uploads, Steps, At
<1>4. UNCHANGED <<files, active, versions>> /\ ((UNCHANGED faults) \/ Fault)
  BY DEF UpdateProfile, UpdateFails
<1>5. CASE profile' = NewHeadshot(p)
  BY <1>1, <1>2, <1>3, <1>4, <1>5, HeadshotWritten
<1>6. CASE UNCHANGED profile
  <2>1. Knows(c) /\ ~ Unwritten(c)
    BY <1>1, <1>2 DEF Knows, Facts, Same, Unwritten, At
  <2> QED BY <1>2, <1>3, <1>4, <1>6, <2>1, Moves DEF rows
<1> QED BY <1>5, <1>6 DEF UpdateProfile, UpdateFails

\* A version takes the object of an upload, with the next number and a new key.
LEMMA VersionWritten ==
    ASSUME IInv, NEW p \in Upload, NEW c \in CallRow, upload' = [upload EXCEPT ![p] = c],
           At(p, "insert"), Same(c, upload[p]), Shape(c), Insertable(p),
           c.step = "verify" \/ (c.step = "canonical" /\ faults' # 0),
           versions' = Append(versions, NewVersion(p)),
           UNCHANGED <<files, active, profile>>, (UNCHANGED faults) \/ Fault
    PROVE  IInv'
<1>1. /\ upload[p] \in CallRow /\ Shape(upload[p]) /\ Knows(upload[p])
      /\ upload[p].kind = "version" /\ Unwritten(upload[p])
      /\ upload[p].key \in Key /\ upload[p].file \in File
  BY Now DEF At, Shape, Unwritten
<1>2. PICK o \in Object, k \in Key, f \in File :
        /\ o = upload[p].object /\ k = upload[p].key /\ f = upload[p].file
        /\ o \in stored /\ ~ Referenced(o)
  BY <1>1 DEF At, Shape, Knows, Facts, Unwritten, Steps
<1>3. /\ UNCHANGED <<stored, drawn, active, profile>>
      /\ faults' \in 0 .. Faults /\ (faults' = 0 => faults = 0)
  BY UploadAssumption DEF files, Fault, IInv, Typed
<1>4. PICK new \in VersionRow :
        /\ versions' = Append(versions, new)
        /\ new.number = Len(versions) + 1 /\ new.key = k /\ new.file = f /\ new.object = o
  BY <1>2 DEF Insertable, NewVersion, VersionRow, IInv, Typed
<1>5. /\ versions' \in Seq(VersionRow) /\ Len(versions') = Len(versions) + 1
      /\ DOMAIN versions = 1 .. Len(versions) /\ Len(versions) \in Nat
      /\ DOMAIN versions' = 1 .. (Len(versions) + 1)
      /\ versions'[Len(versions) + 1] = new
      /\ \A i \in DOMAIN versions : i \in DOMAIN versions' /\ versions'[i] = versions[i]
  BY <1>4 DEF IInv, Typed
<1>6. \A i \in DOMAIN versions' :
        (i \in DOMAIN versions /\ versions'[i] = versions[i])
          \/ (i = Len(versions) + 1 /\ versions'[i] = new)
  BY <1>5
<1>7. ASSUME NEW x PROVE InVersions(x)' <=> InVersions(x) \/ x = o
  BY <1>4, <1>5, <1>6 DEF InVersions
<1>8. \A i \in DOMAIN versions : versions[i].key # k
  BY <1>2 DEF Insertable, VersionsOf
<1>9. Typed'
  BY <1>3, <1>5 DEF IInv, Typed
<1>10. Rows'
  <2>1. ReferencedIsStored'
    BY <1>2, <1>3, <1>4, <1>6 DEF IInv, Rows, ReferencedIsStored
  <2>2. \A i \in DOMAIN versions' : versions'[i].number = i
    BY <1>4, <1>6 DEF IInv, Rows
  <2>3. \A i, j \in DOMAIN versions' : versions'[i].key = versions'[j].key => i = j
    BY <1>4, <1>6, <1>8 DEF IInv, Rows
  <2>4. ~ InVersions(profile.headshot)'
    BY <1>2, <1>3, <1>4, <1>5, <1>6 DEF IInv, Rows, InVersions, Referenced
  <2> QED BY <2>1, <2>2, <2>3, <2>4 DEF Rows
<1>11. upload' \in [Upload -> CallRow] /\ upload'[p] = c
      /\ \A q \in Upload \ {p} : upload'[q] = upload[q]
  BY DEF IInv, Calls
<1>12. ASSUME NEW x, x # o, ~ Referenced(x) PROVE ~ Referenced(x)'
  BY <1>3, <1>7, <1>12 DEF Referenced, InVersions
<1>13. ASSUME NEW q \in Upload
      PROVE  /\ upload[q].previous # o
             /\ q # p => upload[q].object # o
  BY <1>1, <1>2 DEF IInv, Calls, Own
<1>14. \A l, g : Recorded(l, g) => Recorded(l, g)'
  BY <1>5 DEF Recorded
<1>15. Recorded(k, f)'
  BY <1>4, <1>5 DEF Recorded
<1>16. ASSUME NEW d \in CallRow, Knows(d), d.object # o, d.previous # o PROVE Knows(d)'
  BY <1>3, <1>5, <1>7, <1>12, <1>14, <1>16 DEF Knows, Facts, Unwritten
<1>17. Knows(c)'
  <2>1. ~ InVersions(c.previous)'
    BY <1>1, <1>7, <1>13 DEF Knows, Facts, Same
  <2>2. /\ c.object = o /\ c.kind = "version" /\ c.key = k /\ c.file = f
        /\ ~ Unwritten(c) /\ c.step \in {"verify", "canonical"}
    BY <1>1, <1>2 DEF Same, Unwritten
  <2>3. c.canonical # 0 =>
          c.canonical \in DOMAIN versions' /\ versions'[c.canonical].key = c.key
    BY <1>1, <1>5 DEF Knows, Facts, Same
  <2>4. c.object \in drawn' \cup {NoObject} /\ c.previous \in drawn' \cup {NoObject}
    BY <1>1, <1>3 DEF Knows, Facts, Same
  <2>5. c.step = "canonical" => faults' # 0
    OBVIOUS
  <2> QED BY <1>15, <2>1, <2>2, <2>3, <2>4, <2>5 DEF Knows, Facts, Unwritten
<1>18. ASSUME NEW q \in Upload PROVE Shape(upload'[q]) /\ Knows(upload[q])'
  <2>1. PICK d \in CallRow : d = upload'[q]
    BY <1>11
  <2>2. Shape(d) /\ Knows(d)'
    BY <1>11, <1>13, <1>16, <1>17, <2>1 DEF IInv, Calls
  <2> QED BY <2>1, <2>2 DEF Knows, Facts
<1>19. Own'
  <2>1. ~ Unwritten(c)
    BY DEF Unwritten
  <2> QED BY <1>11, <2>1 DEF IInv, Calls, Own, Same, Unwritten
<1> QED BY <1>9, <1>10, <1>11, <1>18, <1>19 DEF IInv, Calls

LEMMA InsertInv ==
    ASSUME IInv, NEW p \in Upload, Insert(p) \/ InsertFails(p)
    PROVE  IInv'
<1>1. /\ upload[p] \in CallRow /\ Shape(upload[p]) /\ Knows(upload[p])
      /\ At(p, "insert") /\ upload[p].kind = "version" /\ Unwritten(upload[p])
  BY Now DEF Insert, InsertFails, At, Shape, Unwritten
<1>2. PICK step \in {"verify", "canonical"},
           c \in CallRow : /\ upload' = [upload EXCEPT ![p] = c]
                           /\ Same(c, upload[p]) /\ Goto(p, step)
                           /\ c.step = step /\ c.answer = upload[p].answer
  <2>1. PICK step \in {"verify", "canonical"} : Goto(p, step)
    BY DEF Insert, InsertFails
  <2> QED BY <2>1, Goes DEF Steps, IInv, Calls
<1>3. Shape(c)
  BY <1>1, <1>2 DEF Shape, Same, Uploads, Steps, At
<1>4. UNCHANGED <<files, active, profile>> /\ ((UNCHANGED faults) \/ Fault)
  BY DEF Insert, InsertFails
<1>5. CASE /\ Insertable(p) /\ versions' = Append(versions, NewVersion(p))
           /\ c.step = "verify" \/ (c.step = "canonical" /\ faults' # 0)
  BY <1>1, <1>2, <1>3, <1>4, <1>5, VersionWritten
<1>6. CASE (UNCHANGED versions) /\ c.step = "canonical"
  <2>1. Knows(c) /\ ~ Unwritten(c)
    BY <1>1, <1>2, <1>6 DEF Knows, Facts, Same, Unwritten, At, Referenced, InVersions
  <2> QED BY <1>2, <1>3, <1>4, <1>6, <2>1, Moves DEF rows
<1>7. CASE Insert(p)
  <2>1. upload'[p].step = c.step
    BY <1>2 DEF IInv, Calls
  <2>2. \A s \in {"verify", "canonical"} : Goto(p, s) => upload'[p].step = s
    BY <1>1 DEF Goto, CallRow, IInv, Calls
  <2> QED BY <1>5, <1>6, <1>7, <2>1, <2>2 DEF Insert
<1>8. CASE InsertFails(p)
  <2>1. upload'[p].step = c.step
    BY <1>2 DEF IInv, Calls
  <2>2. Goto(p, "canonical") => upload'[p].step = "canonical"
    BY <1>1 DEF Goto, CallRow, IInv, Calls
  <2>3. faults' # 0
    BY <1>8, UploadAssumption DEF InsertFails, Fault, IInv, Typed
  <2> QED BY <1>5, <1>6, <1>8, <2>1, <2>2, <2>3 DEF InsertFails
<1> QED BY <1>7, <1>8

\* What others do to the profile's revision and to the request is nothing to a call.
LEMMA OthersInv ==
    ASSUME IInv, EditProfile \/ ToggleRequest \/ UNCHANGED vars
    PROVE  IInv'
<1>1. /\ UNCHANGED <<stored, drawn, versions, upload, faults>>
      /\ profile'.headshot = profile.headshot /\ active' \in BOOLEAN
      /\ profile' \in [headshot : Object \cup {NoObject}, revision : Nat]
  <2>1. CASE EditProfile
    BY <2>1 DEF EditProfile, files, IInv, Typed
  <2>2. CASE ToggleRequest
    <3>1. active' = ~ active
      BY <2>2 DEF ToggleRequest
    <3>2. active' \in BOOLEAN
      BY <3>1
    <3> QED BY <2>2, <3>2 DEF ToggleRequest, files, IInv, Typed
  <2>3. CASE UNCHANGED vars
    BY <2>3 DEF vars, IInv, Typed
  <2> QED BY <2>1, <2>2, <2>3
<1>2. Typed' /\ Rows'
  BY <1>1 DEF IInv, Typed, Rows, ReferencedIsStored, InVersions
<1>3. Calls'
  BY <1>1 DEF IInv, Calls, Own, Knows, Facts, Unwritten, Referenced, InVersions, Recorded
<1> QED BY <1>2, <1>3 DEF IInv
-----------------------------------------------------------------------------
(***************************************************************************)
(* The specification.                                                      *)
(***************************************************************************)

LEMMA InvInit == Init => IInv
<1> SUFFICES ASSUME Init PROVE IInv
  OBVIOUS
<1>1. PICK c : c = Idle
  OBVIOUS
<1>2. /\ c \in CallRow /\ c.kind = "none" /\ c.step = "idle" /\ c.object = NoObject
      /\ c.previous = NoObject /\ c.answer = "none"
  BY <1>1 DEF Idle, CallRow, Steps
<1>3. Typed /\ Rows
  BY UploadAssumption DEF Init, Typed, Rows, ReferencedIsStored, InVersions
<1>4. Shape(c) /\ Knows(c)
  BY <1>2 DEF Init, Shape, Knows, Facts, Unwritten, Referenced, InVersions, Uploads, Steps
<1>5. upload \in [Upload -> CallRow] /\ \A p \in Upload : upload[p] = c
  BY <1>1, <1>2 DEF Init
<1>6. Own
  BY <1>2, <1>5 DEF Own, Unwritten
<1> QED BY <1>3, <1>4, <1>5, <1>6 DEF IInv, Calls

LEMMA InvNext ==
    ASSUME IInv, [Next]_vars
    PROVE  IInv'
<1>1. CASE \E p \in Upload :
             Store(p) \/ Headshot(p) \/ Version(p) \/ ReadFails(p) \/ Read(p) \/ Crash(p)
  <2>1. PICK p \in Upload :
          Store(p) \/ Headshot(p) \/ Version(p) \/ ReadFails(p) \/ Read(p) \/ Crash(p)
    BY <1>1
  <2>2. CASE Store(p)
    BY <2>2, RejectInv, PutInv, InspectInv, InspectFailsInv, CheckInv, RemovalInv DEF Store
  <2>3. CASE Headshot(p)
    BY <2>3, BeginHeadshotInv, ReadProfileInv, UpdateProfileInv, VerifyHeadshotInv, RemovalInv
    DEF Headshot
  <2>4. CASE Version(p)
    BY <2>4, BeginVersionInv, ReadSourceInv, InsertInv, FindCanonicalInv, VerifyVersionInv
    DEF Version
  <2>5. CASE ReadFails(p)
    BY <2>5, ReadFailsInv
  <2>6. CASE Read(p)
    BY <2>6, DownloadInv, ReadsInv, UnreadInv DEF Read
  <2>7. CASE Crash(p)
    BY <2>7, CrashInv
  <2> QED BY <2>1, <2>2, <2>3, <2>4, <2>5, <2>6, <2>7
<1>2. CASE EditProfile \/ ToggleRequest \/ UNCHANGED vars
  BY <1>2, OthersInv
<1> QED BY <1>1, <1>2 DEF Next

LEMMA Inductive == Spec => []IInv
<1>1. IInv /\ [Next]_vars => IInv'
  BY InvNext
<1> QED BY <1>1, InvInit, PTL DEF Spec

\* No call touches another's.
LEMMA Touches ==
    ASSUME upload \in [Upload -> CallRow], NEW q \in Upload, NEW p \in Upload \ {q},
           Store(q) \/ Headshot(q) \/ Version(q) \/ ReadFails(q) \/ Read(q) \/ Crash(q)
    PROVE  upload'[p] = upload[p]
<1>1. CASE Store(q)
  BY <1>1 DEF Store, Reject, Put, PutFails, Inspect, InspectFails, Check, CheckFails, Cleanup,
              CleanupFails, Goto, Answer
<1>2. CASE Headshot(q)
  BY <1>2 DEF Headshot, BeginHeadshot, ReadProfile, UpdateProfile, UpdateFails, VerifyHeadshot,
              Replace, ReplaceFails, Goto, Answer
<1>3. CASE Version(q)
  BY <1>3 DEF Version, BeginVersion, ReadSource, Insert, InsertFails, FindCanonical,
              VerifyVersion, Goto, Answer
<1>4. CASE ReadFails(q)
  BY <1>4 DEF ReadFails, Answer
<1>5. CASE Read(q)
  BY <1>5 DEF Read, BeginDownload, BeginArchive, Download, VerifyObject, Open, Unread,
              Goto, Answer
<1>6. CASE Crash(q)
  BY <1>6 DEF Crash
<1> QED BY <1>1, <1>2, <1>3, <1>4, <1>5, <1>6

\* While nothing has failed, an upload with an object of its own is refused, or ends as a
\* replay, by its check or by its cleanup.
LEMMA RefusedAfterCheck ==
    ASSUME IInv, Next, NEW p \in Upload, NEW c \in CallRow, c = upload'[p],
           faults' = 0, ~ Free(p), c.step = "done", c.kind \in Uploads, c.object # NoObject,
           c.answer \in Refusals \cup {"replayed"}
    PROVE  /\ Same(c, upload[p])
           /\ \/ Check(p) /\ Referenced(c.object)
              \/ Cleanup(p)
<1>1. upload[p] \in CallRow /\ Shape(upload[p]) /\ upload \in [Upload -> CallRow]
  BY Now DEF IInv, Calls
<1>2. ~ Fault
  BY UploadAssumption DEF Fault, IInv, Typed
<1>3. upload[p].step # "done" /\ upload[p] # c
  BY DEF Free
<1>4. ASSUME NEW step \in Steps, Goto(p, step)
      PROVE  step = "done" /\ Same(c, upload[p]) /\ c.answer = upload[p].answer
  BY <1>1, <1>4, Goes
<1>5. ASSUME NEW step \in Steps, NEW answer \in Refusals \cup {"none", "done", "replayed"},
             Answer(p, answer, step)
      PROVE  step = "done" /\ Same(c, upload[p]) /\ c.answer = answer
  BY <1>1, <1>5, Answers
<1>6. Store(p) \/ Headshot(p) \/ Version(p) \/ ReadFails(p) \/ Read(p) \/ Crash(p)
  <2>1. \E q \in Upload :
          Store(q) \/ Headshot(q) \/ Version(q) \/ ReadFails(q) \/ Read(q) \/ Crash(q)
    BY <1>3 DEF Next, EditProfile, ToggleRequest
  <2> QED BY <1>1, <1>3, <2>1, Touches
<1>7. CASE Store(p)
  <2>1. ~ Reject(p)
    BY <1>1, <1>5 DEF Reject, At, Shape, Same, Refusals, Steps
  <2>2. ~ Put(p)
    <3>1. ASSUME NEW o, upload' = [upload EXCEPT ![p].step = "head", ![p].object = o]
          PROVE  FALSE
      BY <1>1, <3>1 DEF CallRow
    <3> QED BY <3>1 DEF Put
  <2>3. ~ Inspect(p)
    BY <1>4 DEF Inspect, Finalize, Steps
  <2>4. Check(p) => Same(c, upload[p]) /\ Referenced(c.object)
    BY <1>4 DEF Check, Steps, Same
  <2>5. Cleanup(p) => Same(c, upload[p])
    BY <1>4 DEF Cleanup, Steps
  <2> QED BY <1>2, <1>7, <2>1, <2>2, <2>3, <2>4, <2>5
          DEF Store, PutFails, InspectFails, CheckFails, CleanupFails
<1>8. CASE Headshot(p)
  <2>1. ~ BeginHeadshot(p)
    BY DEF BeginHeadshot
  <2>2. ~ ReadProfile(p)
    BY <1>4, <1>5 DEF ReadProfile, Refusals, Steps
  <2>3. ~ UpdateProfile(p)
    BY <1>4, <1>5 DEF UpdateProfile, Refusals, Steps
  <2>4. ~ VerifyHeadshot(p)
    <3>1. VerifyHeadshot(p) =>
            Answer(p, "conflict", "check") \/ \E step \in Steps : Answer(p, "done", step)
      BY DEF VerifyHeadshot, Steps
    <3> QED BY <3>1, <1>5 DEF Refusals, Steps
  <2>5. ~ Replace(p)
    BY <1>1, <1>4 DEF Replace, At, Shape, Refusals, Steps
  <2> QED BY <1>2, <1>8, <2>1, <2>2, <2>3, <2>4, <2>5 DEF Headshot, UpdateFails, ReplaceFails
<1>9. CASE Version(p)
  <2>1. ~ \E k \in Key, f \in File : BeginVersion(p, k, f)
    BY DEF BeginVersion
  <2>2. ~ ReadSource(p)
    <3>1. ASSUME ReadSource(p), NEW n, upload' = [upload EXCEPT ![p].step = "put", ![p].read = n]
          PROVE  FALSE
      BY <1>1, <3>1 DEF CallRow
    <3>2. ASSUME ReadSource(p), NEW answer \in {"missing", "replayed", "conflict"},
                 Answer(p, answer, "done")
          PROVE  FALSE
      BY <1>1, <1>5, <3>2 DEF ReadSource, At, Shape, Same, Refusals, Steps
    <3>3. \A i : Replay(p, i) \in {"replayed", "conflict"}
      BY DEF Replay
    <3> QED BY <3>1, <3>2, <3>3 DEF ReadSource
  <2>3. ~ Insert(p)
    BY <1>4 DEF Insert, Steps
  <2>4. ~ FindCanonical(p)
    <3>1. \A i : Replay(p, i) \in {"replayed", "conflict"}
      BY DEF Replay
    <3>2. FindCanonical(p) => \E answer \in {"error", "replayed", "conflict"} :
                                Answer(p, answer, "check")
      BY <3>1 DEF FindCanonical
    <3> QED BY <1>5, <3>2 DEF Refusals, Steps
  <2>5. ~ VerifyVersion(p)
    BY <1>5 DEF VerifyVersion, Refusals, Steps
  <2> QED BY <1>2, <1>9, <2>1, <2>2, <2>3, <2>4, <2>5 DEF Version, InsertFails
<1>10. CASE ReadFails(p) \/ Crash(p)
  BY <1>2, <1>10 DEF ReadFails, Crash
<1>11. CASE Read(p)
  <2>1. ~ BeginDownload(p) /\ ~ BeginArchive(p)
    BY DEF BeginDownload, BeginArchive
  <2>2. ~ VerifyObject(p)
    BY <1>1, <1>4, <1>5 DEF VerifyObject, At, Shape, Same, Uploads, Refusals, Steps
  <2>3. ~ Open(p)
    <3>1. Open(p) => Answer(p, "done", "done") \/ Answer(p, "error", "done")
      BY DEF Open
    <3> QED BY <1>1, <1>5, <3>1 DEF Open, At, Shape, Same, Uploads, Refusals, Steps
  <2>4. ~ Unread(p)
    BY <1>2 DEF Unread
  <2> QED BY <1>11, <2>1, <2>2, <2>3, <2>4 DEF Read
<1> QED BY <1>6, <1>7, <1>8, <1>9, <1>10, <1>11

LEMMA CleanStep ==
    ASSUME IInv, [Next]_vars, NEW p \in Upload, NEW c \in CallRow, c = upload'[p],
           faults' = 0, ~ Free(p), c.step = "done", c.kind \in Uploads, c.object # NoObject,
           c.answer \in Refusals \cup {"replayed"}
    PROVE  /\ c.object \in stored' => c.object = profile'.headshot
           /\ \A i \in DOMAIN versions' : versions'[i].object # c.object
<1>1. Next
  BY DEF vars, Free
<1>2. /\ Same(c, upload[p])
      /\ \/ Check(p) /\ Referenced(c.object)
         \/ Cleanup(p)
  BY <1>1, RefusedAfterCheck
<1>3. Shape(upload[p]) /\ Knows(upload[p]) /\ UNCHANGED <<profile, versions, faults>>
  BY <1>2, Now DEF Check, Cleanup, rows
<1>4. CASE Check(p) /\ Referenced(c.object)
  <2>1. ~ InVersions(c.object)
    BY <1>2, <1>3, <1>4 DEF Check, At, Knows, Facts, Same, Uploads
  <2> QED BY <1>3, <1>4, <2>1 DEF Referenced, InVersions
<1>5. CASE Cleanup(p)
  <2>1. stored' = stored \ {c.object} /\ ~ Referenced(c.object)
    BY <1>2, <1>3, <1>5 DEF Cleanup, At, Knows, Facts, Same
  <2> QED BY <1>3, <2>1 DEF Referenced
<1> QED BY <1>2, <1>4, <1>5

LEMMA Types == IInv => TypeOK
BY DEF IInv, Typed, Calls, TypeOK, CallRow, VersionRow

\* Files, rows and calls keep their types.
THEOREM TypeCorrect == Spec => []TypeOK
BY Inductive, Types, PTL

\* A row never names an object that is not stored, for any number of overlapping
\* uploads, edits, lost answers and crashes: storePrivateFile's cleanup and
\* uploadHeadshot's removal of the replaced headshot take nothing a row names.
THEOREM RowsHaveObjects == Spec => []ReferencedIsStored
<1>1. IInv => ReferencedIsStored
  BY DEF IInv, Rows
<1> QED BY <1>1, Inductive, PTL

\* The versions of a request are numbered in the order they came, one for each
\* idempotency key: what the insert trigger and the unique indexes are for.
THEOREM VersionsNumbered == Spec => []VersionsInOrder
<1>1. IInv => VersionsInOrder
  BY Types DEF IInv, Rows, VersionsInOrder
<1> QED BY <1>1, Inductive, PTL

\* A version an upload was answered with is kept, under its key and with its file, also
\* when finalizeDeliverableVersion answered with another call's insert.
THEOREM AnswersKept == Spec => []AnsweredIsKept
<1>1. IInv => AnsweredIsKept
  <2> SUFFICES ASSUME IInv, NEW p \in Upload, upload[p].kind = "version",
                      upload[p].answer \in {"done", "replayed"}
               PROVE  Recorded(upload[p].key, upload[p].file)
    BY DEF AnsweredIsKept, Recorded
  <2> QED BY Now DEF Knows, Facts
<1> QED BY <1>1, Inductive, PTL

\* An archive finds every object it has listed, and a download the object of its row,
\* unless that was a headshot replaced since or the read itself failed.
THEOREM ReadsFind == Spec => []DownloadsFind
<1>1. IInv => DownloadsFind
  <2> SUFFICES ASSUME IInv, NEW p \in Upload
               PROVE  /\ upload[p].kind = "archive" => upload[p].answer # "error"
                      /\ upload[p].kind = "download" /\ upload[p].answer = "error"
                           => ~ Referenced(upload[p].object)
    BY DEF DownloadsFind
  <2> QED BY Now DEF Shape, Knows, Facts
<1> QED BY <1>1, Inductive, PTL

\* While nothing fails, an upload that ends refused or as a replay leaves no object
\* behind, but for a headshot that is on the profile, and its version is not recorded.
THEOREM RefusalsLeaveNothing == Spec => RefusedLeavesNothing
<1>1. IInv /\ [Next]_vars =>
        [\A p \in Upload : faults' = 0 /\ EndsRefused(p) => LeavesNothing(p)]_vars
  <2> SUFFICES ASSUME IInv, [Next]_vars, NEW p \in Upload, faults' = 0, EndsRefused(p)
               PROVE  LeavesNothing(p)
    OBVIOUS
  <2>1. PICK c \in CallRow : c = upload'[p]
    BY InvNext DEF IInv, Calls
  <2> QED BY <2>1, CleanStep DEF EndsRefused, LeavesNothing
<1> QED BY <1>1, Inductive, PTL DEF Spec, RefusedLeavesNothing
=============================================================================
