--------------------------- MODULE PrivateUploads ---------------------------
(***************************************************************************)
(* Uploads of headshots and deliverables: an object is put into the private *)
(* file store, a row that names it is written, and whatever fails in between *)
(* has to leave neither a row without its object nor, if it can be helped,  *)
(* an object without a row (private-file-storage.ts and the two upload      *)
(* handlers of speaker-content-handlers.ts).  Downloads and the archive of   *)
(* the deliverables read a row first and its object later.                  *)
(*                                                                          *)
(* The store is what FileStore shows it to be for keys that are put once.    *)
(* A request for a deliverable and a profile stand for any number of them.   *)
(* The handler's three attempts at a version are one: the trigger rejects a  *)
(* stale number before any unique index is looked at, with a message that    *)
(* the handler's test for another attempt does not recognise.               *)
(***************************************************************************)
EXTENDS Naturals, Sequences

CONSTANTS
  Object,     \* object keys: each put draws a new one, so they bound the puts
  Key,        \* idempotency keys
  File,       \* what is uploaded
  Upload,     \* upload calls in flight
  NoObject, NoKey, NoFile,
  MaxRevision,  \* bound: other edits of the profile stop at this revision
  Faults        \* bound: statements and calls that fail, processes that die

ASSUME UploadAssumption ==
  /\ NoObject \notin Object /\ NoKey \notin Key /\ NoFile \notin File
  /\ MaxRevision \in Nat \ {0}
  /\ Faults \in Nat

VARIABLES
  stored,    \* the objects in the file store
  drawn,     \* the object keys that have been drawn
  profile,   \* speakers: the headshot's object key and the revision
  active,    \* whether the deliverable request is active
  versions,  \* deliverable_versions of the request, in the order of their insertion
  upload,    \* upload[p]: the call of p
  faults

vars == <<stored, drawn, profile, active, versions, upload, faults>>
files == <<stored, drawn>>
rows == <<profile, active, versions>>
-----------------------------------------------------------------------------
Uploads == {"headshot", "version"}
\* What an upload is refused with; a download or an archive fails with "error", if the
\* object is not there, or else with "unread".
Refusals == {"conflict", "missing", "error"}

Steps == {"idle", "source", "put", "head", "profile", "update", "verify", "replace",
          "insert", "canonical", "check", "cleanup", "plan", "open", "done"}

\* read is the revision, or the next version number, read at the start; previous is
\* the headshot to replace; canonical the version that already has the key.
Idle == [kind |-> "none", step |-> "idle", key |-> NoKey, file |-> NoFile, read |-> 0,
         previous |-> NoObject, canonical |-> 0, object |-> NoObject, answer |-> "none"]

At(p, step) == upload[p].step = step
Free(p) == upload[p].step \in {"idle", "done"}
Goto(p, step) == upload' = [upload EXCEPT ![p].step = step]
\* The answer is settled, and the step that follows is the way to it.
Answer(p, answer, step) ==
  upload' = [upload EXCEPT ![p].step = step, ![p].answer = answer]
Fault == faults < Faults /\ faults' = faults + 1

\* privateFileIsReferenced.
Referenced(o) ==
  \/ profile.headshot = o
  \/ \E i \in DOMAIN versions : versions[i].object = o

VersionsOf(k) == {i \in DOMAIN versions : versions[i].key = k}
Canonical(k) == IF VersionsOf(k) = {} THEN 0 ELSE CHOOSE i \in VersionsOf(k) : TRUE

\* A key that is used again has to come with the same file.
Replay(p, i) == IF versions[i].file = upload[p].file THEN "replayed" ELSE "conflict"
-----------------------------------------------------------------------------
\* speakerForUpload, for the speaker or for an organizer.
BeginHeadshot(p) ==
  /\ Free(p)
  /\ upload' = [upload EXCEPT ![p] =
       [Idle EXCEPT !.kind = "headshot", !.step = "put", !.read = profile.revision,
                    !.previous = profile.headshot]]
  /\ UNCHANGED <<files, rows, faults>>

\* uploadSource, first statement: is there a version with this key?
BeginVersion(p, k, f) ==
  /\ Free(p)
  /\ upload' = [upload EXCEPT ![p] =
       [Idle EXCEPT !.kind = "version", !.step = "source", !.key = k, !.file = f,
                    !.canonical = Canonical(k)]]
  /\ UNCHANGED <<files, rows, faults>>

\* Mutant of ReadSource: a key that is known is a replay, whatever the file.
ReadSourceOnce(p) ==
  /\ At(p, "source")
  /\ IF ~ active THEN Answer(p, "missing", "done")
     ELSE IF upload[p].canonical # 0 THEN Answer(p, "replayed", "done")
     ELSE upload' = [upload EXCEPT ![p].step = "put", ![p].read = Len(versions) + 1]
  /\ UNCHANGED <<files, rows, faults>>

\* Second statement: the active request and the next number.
ReadSource(p) ==
  /\ At(p, "source")
  /\ IF ~ active THEN Answer(p, "missing", "done")
     ELSE IF upload[p].canonical # 0 THEN Answer(p, Replay(p, upload[p].canonical), "done")
     ELSE upload' = [upload EXCEPT ![p].step = "put", ![p].read = Len(versions) + 1]
  /\ UNCHANGED <<files, rows, faults>>
-----------------------------------------------------------------------------
(***************************************************************************)
(* storePrivateFile                                                        *)
(***************************************************************************)

Finalize(p) == IF upload[p].kind = "headshot" THEN "profile" ELSE "insert"

\* validatePrivateUpload: too large, or not of a type it may have, by name or content.
Reject(p) ==
  /\ At(p, "put")
  /\ Answer(p, "error", "done")
  /\ UNCHANGED <<files, rows, faults>>

\* createPrivateObjectKey, and the put under it.
Put(p) ==
  /\ At(p, "put")
  /\ \E o \in Object \ drawn :
       /\ drawn' = drawn \cup {o}
       /\ stored' = stored \cup {o}
       /\ upload' = [upload EXCEPT ![p].step = "head", ![p].object = o]
  /\ UNCHANGED <<rows, faults>>

\* A put that throws is not cleaned up, although it may have stored the object.
PutFails(p) ==
  /\ At(p, "put")
  /\ Fault
  /\ \E o \in Object \ drawn :
       /\ drawn' = drawn \cup {o}
       /\ stored' \in {stored, stored \cup {o}}
       /\ upload' = [upload EXCEPT ![p].step = "done", ![p].object = o, ![p].answer = "error"]
  /\ UNCHANGED rows

\* head finds what put has stored.
Inspect(p) ==
  /\ At(p, "head")
  /\ Goto(p, Finalize(p))
  /\ UNCHANGED <<files, rows, faults>>

\* It throws, or the object is not what was put.
InspectFails(p) ==
  /\ At(p, "head")
  /\ Fault
  /\ Answer(p, "error", "cleanup")
  /\ UNCHANGED <<files, rows>>

\* Mutant of Check: whatever failed, the object goes.
CheckNothing(p) ==
  /\ At(p, "check")
  /\ Goto(p, "cleanup")
  /\ UNCHANGED <<files, rows, faults>>

\* Finalizing failed: the object stays if a row names it after all.
Check(p) ==
  /\ At(p, "check")
  /\ Goto(p, IF Referenced(upload[p].object) THEN "done" ELSE "cleanup")
  /\ UNCHANGED <<files, rows, faults>>

\* The object stays too when that cannot be told.
CheckFails(p) ==
  /\ At(p, "check")
  /\ Fault
  /\ Goto(p, "done")
  /\ UNCHANGED <<files, rows>>

Cleanup(p) ==
  /\ At(p, "cleanup")
  /\ stored' = stored \ {upload[p].object}
  /\ Goto(p, "done")
  /\ UNCHANGED <<drawn, rows, faults>>

\* An AggregateError hides what the first error was.
CleanupFails(p) ==
  /\ At(p, "cleanup")
  /\ Fault
  /\ stored' \in {stored, stored \ {upload[p].object}}
  /\ Answer(p, "error", "done")
  /\ UNCHANGED <<drawn, rows>>
-----------------------------------------------------------------------------
(***************************************************************************)
(* finalizeHeadshot and the end of uploadHeadshot                          *)
(***************************************************************************)

ReadProfile(p) ==
  /\ At(p, "profile")
  /\ IF profile.revision = upload[p].read THEN Goto(p, "update")
                                          ELSE Answer(p, "conflict", "check")
  /\ UNCHANGED <<files, rows, faults>>

NewHeadshot(p) == [headshot |-> upload[p].object, revision |-> profile.revision + 1]

\* Only a speaker's own upload looks at the number of rows it has changed.
UpdateProfile(p) ==
  /\ At(p, "update")
  /\ \/ /\ profile.revision = upload[p].read
        /\ profile' = NewHeadshot(p)
        /\ Goto(p, "verify")
     \/ /\ profile.revision # upload[p].read
        /\ Answer(p, "conflict", "check") \/ Goto(p, "verify")
        /\ UNCHANGED profile
  /\ UNCHANGED <<files, active, versions, faults>>

\* The statement or its answer is lost.
UpdateFails(p) ==
  /\ At(p, "update")
  /\ Fault
  /\ \/ profile.revision = upload[p].read /\ profile' = NewHeadshot(p)
     \/ UNCHANGED profile
  /\ Answer(p, "error", "check")
  /\ UNCHANGED <<files, active, versions>>

\* Somebody else's edit right after the update is a conflict too, though it is done.
VerifyHeadshot(p) ==
  /\ At(p, "verify") /\ upload[p].kind = "headshot"
  /\ IF profile = [headshot |-> upload[p].object, revision |-> upload[p].read + 1]
     THEN Answer(p, "done", IF upload[p].previous = NoObject THEN "done" ELSE "replace")
     ELSE Answer(p, "conflict", "check")
  /\ UNCHANGED <<files, rows, faults>>

\* Mutant of Replace: the new object is removed instead of the old one.
ReplaceNew(p) ==
  /\ At(p, "replace")
  /\ stored' = stored \ {upload[p].object}
  /\ Goto(p, "done")
  /\ UNCHANGED <<drawn, rows, faults>>

Replace(p) ==
  /\ At(p, "replace")
  /\ stored' = stored \ {upload[p].previous}
  /\ Goto(p, "done")
  /\ UNCHANGED <<drawn, rows, faults>>

\* A failed removal is logged and no more.
ReplaceFails(p) ==
  /\ At(p, "replace")
  /\ Fault
  /\ stored' \in {stored, stored \ {upload[p].previous}}
  /\ Goto(p, "done")
  /\ UNCHANGED <<drawn, rows>>
-----------------------------------------------------------------------------
(***************************************************************************)
(* finalizeDeliverableVersion                                              *)
(***************************************************************************)

NewVersion(p) ==
  [number |-> upload[p].read, key |-> upload[p].key, file |-> upload[p].file,
   object |-> upload[p].object]

\* Mutant of Insertable: the number is not checked against the versions there are.
InsertableAtAnyNumber(p) == active /\ VersionsOf(upload[p].key) = {}

\* deliverable_versions_valid_insert and the unique indexes.
Insertable(p) ==
  /\ active
  /\ upload[p].read = Len(versions) + 1
  /\ VersionsOf(upload[p].key) = {}

Insert(p) ==
  /\ At(p, "insert")
  /\ \/ /\ Insertable(p)
        /\ versions' = Append(versions, NewVersion(p))
        /\ Goto(p, "verify")
     \/ /\ ~ Insertable(p)
        /\ Goto(p, "canonical")
        /\ UNCHANGED versions
  /\ UNCHANGED <<files, profile, active, faults>>

InsertFails(p) ==
  /\ At(p, "insert")
  /\ Fault
  /\ \/ Insertable(p) /\ versions' = Append(versions, NewVersion(p))
     \/ UNCHANGED versions
  /\ Goto(p, "canonical")
  /\ UNCHANGED <<files, profile, active>>

\* Mutant of FindCanonical: a replay is answered at once.
FindCanonicalAndAnswer(p) ==
  LET i == Canonical(upload[p].key)
  IN  /\ At(p, "canonical")
      /\ IF i = 0 THEN Answer(p, "error", "check") ELSE Answer(p, Replay(p, i), "done")
      /\ UNCHANGED <<files, rows, faults>>

\* The catch block: a version with this key answers for the one that was rejected,
\* which may be the same one, when only the answer of its insert was lost.
FindCanonical(p) ==
  LET i == Canonical(upload[p].key)
  IN  /\ At(p, "canonical")
      /\ Answer(p, IF i = 0 THEN "error" ELSE Replay(p, i), "check")
      /\ UNCHANGED <<files, rows, faults>>

VerifyVersion(p) ==
  /\ At(p, "verify") /\ upload[p].kind = "version"
  /\ Answer(p, "done", "done")
  /\ UNCHANGED <<files, rows, faults>>

\* A query of the finalizer throws.
ReadFails(p) ==
  /\ upload[p].step \in {"profile", "verify", "canonical"}
  /\ Fault
  /\ Answer(p, "error", "check")
  /\ UNCHANGED <<files, rows>>
-----------------------------------------------------------------------------
(***************************************************************************)
(* Downloads                                                               *)
(***************************************************************************)

Download(p, kind, step, o) ==
  upload' = [upload EXCEPT ![p] = [Idle EXCEPT !.kind = kind, !.step = step, !.object = o]]

\* headshotFile and authorizedDeliverableFile: the row of a headshot or a version.
BeginDownload(p) ==
  /\ Free(p)
  /\ \E o \in drawn : Referenced(o) /\ Download(p, "download", "open", o)
  /\ UNCHANGED <<files, rows, faults>>

\* The archive takes the last version of an active request, if that is approved;
\* a plan that is refused for its size reads nothing.
BeginArchive(p) ==
  /\ Free(p)
  /\ active /\ versions # <<>>
  /\ Download(p, "archive", "plan", versions[Len(versions)].object)
  /\ UNCHANGED <<files, rows, faults>>

\* All its objects are looked at before the first byte is sent.
VerifyObject(p) ==
  /\ At(p, "plan")
  /\ IF upload[p].object \in stored THEN Goto(p, "open") ELSE Answer(p, "error", "done")
  /\ UNCHANGED <<files, rows, faults>>

\* The object is there, and is what its row says, or the download fails; an archive
\* of which a part was sent already breaks off.
Open(p) ==
  /\ At(p, "open")
  /\ Answer(p, IF upload[p].object \in stored THEN "done" ELSE "error", "done")
  /\ UNCHANGED <<files, rows, faults>>
\* The store does not give the object although it may be there: its file store answers
\* an I/O error as it answers a missing object.
Unread(p) ==
  /\ upload[p].step \in {"plan", "open"}
  /\ Fault
  /\ Answer(p, "unread", "done")
  /\ UNCHANGED <<files, rows>>
-----------------------------------------------------------------------------
\* The process dies; its call is never answered.
Crash(p) ==
  /\ ~ Free(p)
  /\ Fault
  /\ upload' = [upload EXCEPT ![p] = Idle]
  /\ UNCHANGED <<files, rows>>

\* Any other write of the profile: the speaker, an organizer, a restore.
EditProfile ==
  /\ profile.revision < MaxRevision
  /\ profile' = [profile EXCEPT !.revision = @ + 1]
  /\ UNCHANGED <<files, active, versions, upload, faults>>

\* An organizer deactivates the request, or activates it again.
ToggleRequest ==
  /\ active' = ~ active
  /\ UNCHANGED <<files, profile, versions, upload, faults>>
-----------------------------------------------------------------------------
Init ==
  /\ stored = {} /\ drawn = {}
  /\ profile = [headshot |-> NoObject, revision |-> 1]
  /\ active = TRUE
  /\ versions = <<>>
  /\ upload = [p \in Upload |-> Idle]
  /\ faults = 0

Store(p) ==
  \/ Reject(p) \/ Put(p) \/ PutFails(p) \/ Inspect(p) \/ InspectFails(p)
  \/ Check(p) \/ CheckFails(p) \/ Cleanup(p) \/ CleanupFails(p)

Headshot(p) ==
  \/ BeginHeadshot(p) \/ ReadProfile(p) \/ UpdateProfile(p) \/ UpdateFails(p)
  \/ VerifyHeadshot(p) \/ Replace(p) \/ ReplaceFails(p)

Version(p) ==
  \/ \E k \in Key, f \in File : BeginVersion(p, k, f)
  \/ ReadSource(p) \/ Insert(p) \/ InsertFails(p) \/ FindCanonical(p) \/ VerifyVersion(p)

Read(p) ==
  BeginDownload(p) \/ BeginArchive(p) \/ VerifyObject(p) \/ Open(p) \/ Unread(p)

Next ==
  \/ \E p \in Upload :
       Store(p) \/ Headshot(p) \/ Version(p) \/ ReadFails(p) \/ Read(p) \/ Crash(p)
  \/ EditProfile
  \/ ToggleRequest

Spec == Init /\ [][Next]_vars
-----------------------------------------------------------------------------
(***************************************************************************)
(* Properties.                                                             *)
(***************************************************************************)

TypeOK ==
  /\ stored \subseteq drawn /\ drawn \subseteq Object
  /\ profile \in [headshot : Object \cup {NoObject}, revision : Nat]
  /\ active \in BOOLEAN
  /\ versions \in Seq([key : Key, file : File, object : Object, number : Nat])
  /\ upload \in [Upload -> [kind : Uploads \cup {"none", "download", "archive"},
                            step : Steps, key : Key \cup {NoKey}, file : File \cup {NoFile},
                            read : Nat, previous : Object \cup {NoObject}, canonical : Nat,
                            object : Object \cup {NoObject},
                            answer : Refusals \cup {"none", "done", "replayed", "unread"}]]
  /\ faults \in 0 .. Faults

\* A row never names an object that is not stored: neither the cleanup of a failed
\* upload nor the removal of a replaced headshot takes an object that a row names,
\* with lost answers, crashes and overlapping uploads of the same profile.
ReferencedIsStored ==
  /\ profile.headshot # NoObject => profile.headshot \in stored
  /\ \A i \in DOMAIN versions : versions[i].object \in stored

\* The rows and the calls keep their types, and the versions of a request are
\* numbered in the order they came, one for each idempotency key, whatever the
\* uploads had read when they began.
VersionsInOrder ==
  /\ TypeOK
  /\ \A i, j \in DOMAIN versions :
       /\ versions[i].number = i
       /\ versions[i].key = versions[j].key => i = j

\* What was answered with a version is there for good, under the caller's key and
\* with the caller's file, though the answer may be that of another call's insert.
AnsweredIsKept ==
  \A p \in Upload :
    upload[p].kind = "version" /\ upload[p].answer \in {"done", "replayed"}
      => \E i \in DOMAIN versions :
           versions[i].key = upload[p].key /\ versions[i].file = upload[p].file

\* An upload with an object of its own ends refused or as a replay, with no row that
\* names the object but, perhaps, the profile.
EndsRefused(p) ==
  /\ ~ Free(p) /\ upload'[p].step = "done"
  /\ upload'[p].kind \in Uploads /\ upload'[p].object # NoObject
  /\ upload'[p].answer \in Refusals \cup {"replayed"}
LeavesNothing(p) ==
  /\ upload'[p].object \in stored' => upload'[p].object = profile'.headshot
  /\ \A i \in DOMAIN versions' : versions'[i].object # upload'[p].object

\* While nothing has failed, an upload that ends refused, or as a replay, leaves no
\* object of its own behind, and a version it was for has not been recorded.  The one
\* object it may leave is the headshot, of an update that somebody else's edit made a
\* conflict although it was done.
RefusedLeavesNothing ==
  [][\A p \in Upload : faults' = 0 /\ EndsRefused(p) => LeavesNothing(p)]_vars

\* An archive whose list was made finds every object in it, looked at or sent, however
\* long that takes; and so does a download, but of a headshot replaced since its row
\* was read.  No removal of an upload's leftovers comes between; what fails besides
\* fails by an error of the read itself.
DownloadsFind ==
  \A p \in Upload :
    /\ upload[p].kind = "archive" => upload[p].answer # "error"
    /\ upload[p].kind = "download" /\ upload[p].answer = "error"
         => ~ Referenced(upload[p].object)
=============================================================================
