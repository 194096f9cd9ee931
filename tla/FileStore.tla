----------------------------- MODULE FileStore -----------------------------
(***************************************************************************)
(* The private file store of a self-hosted instance: filesystem-file-store. *)
(* An object is two files, the bytes of one write and a sidecar that names   *)
(* the write, each renamed into place; a rename or an unlink is visible at   *)
(* once, and sure to survive a lost host only after the directory is synced. *)
(*                                                                          *)
(* A file that is written, synced and not yet renamed has a name nobody      *)
(* reads, so it is left out, and the bytes of a write are the write.  A head  *)
(* is the first read of a get, and changes nothing.                          *)
(***************************************************************************)
EXTENDS Naturals

CONSTANTS
  Key,
  Write,       \* write ids: each is used once, so they bound the number of puts
  Proc,        \* calls in flight
  NoKey, NoWrite,
  Faults       \* bound: crashes and I/O errors

ASSUME FileStoreAssumption ==
  /\ NoKey \notin Key /\ NoWrite \notin Write
  /\ Faults \in Nat

VARIABLES
  sidecar,  \* sidecar[k]: the write named by the sidecar of k
  data,     \* the writes whose data file is there
  maybe,    \* maybe[k]: what a crash may make of sidecar[k]
  kept,     \* the writes whose data file is on the disk
  used,     \* used[w]: the key that write w was drawn for
  call,     \* call[p]: the call of p
  faults

vars == <<sidecar, data, maybe, kept, used, call, faults>>
disk == <<sidecar, data, maybe, kept>>
-----------------------------------------------------------------------------
Steps == {"idle", "data", "syncData", "sidecar", "syncSidecar", "reclaim",
          "unlink", "syncUnlink", "remove", "open", "done"}
Answers == {"none", "written", "deleted", "found", "absent", "error"}

\* write is the call's own, previous the write that the sidecar named when the call
\* began, and read what the call took it to name.
Idle == [op |-> "none", step |-> "idle", key |-> NoKey, write |-> NoWrite,
         previous |-> NoWrite, read |-> NoWrite, answer |-> "none"]

At(p, step) == call[p].step = step
Goto(p, step) == call' = [call EXCEPT ![p].step = step]
Answer(p, answer) == call' = [call EXCEPT ![p].step = "done", ![p].answer = answer]

\* fsync of the directory: what is visible is on the disk.
Sync ==
  /\ maybe' = [k \in Key |-> {sidecar[k]}]
  /\ kept' = data
  /\ UNCHANGED <<sidecar, data>>

Fault == faults < Faults /\ faults' = faults + 1

\* Any error of reading a sidecar is caught and read as no sidecar.
readSidecar(k, read) ==
  \/ read = sidecar[k] /\ UNCHANGED faults
  \/ read = NoWrite /\ sidecar[k] # NoWrite /\ Fault

\* Every operation starts with the sidecar.
Begin(p, op, k, w, step) ==
  /\ call[p].step \in {"idle", "done"}
  /\ \E read \in {sidecar[k], NoWrite} :
       /\ readSidecar(k, read)
       /\ call' = [call EXCEPT ![p] =
            [op |-> op, step |-> step, key |-> k, write |-> w,
             previous |-> sidecar[k], read |-> read, answer |-> "none"]]
  /\ UNCHANGED disk

SetSidecar(k, w) ==
  /\ sidecar' = [sidecar EXCEPT ![k] = w]
  /\ maybe' = [maybe EXCEPT ![k] = @ \cup {w}]
  /\ UNCHANGED <<data, kept>>

\* rm with force: what is not there is not missed.
RemoveData(w) ==
  /\ data' = data \ {w}
  /\ UNCHANGED <<sidecar, maybe, kept>>
-----------------------------------------------------------------------------
BeginPut(p, k, w) ==
  /\ used[w] = NoKey
  /\ used' = [used EXCEPT ![w] = k]
  /\ Begin(p, "put", k, w, "data")

\* Mutant of WriteData: the data file is named for the write that was read.
WriteUnderOldName(p) ==
  /\ At(p, "data")
  /\ data' = data \cup {call[p].read}
  /\ Goto(p, "syncData")
  /\ UNCHANGED <<sidecar, maybe, kept, used, faults>>

WriteData(p) ==
  /\ At(p, "data")
  /\ data' = data \cup {call[p].write}
  /\ Goto(p, "syncData")
  /\ UNCHANGED <<sidecar, maybe, kept, used, faults>>

\* Mutant of SyncData: the directory is not synced before the sidecar is renamed.
SkipSyncData(p) ==
  /\ At(p, "syncData")
  /\ Goto(p, "sidecar")
  /\ UNCHANGED <<disk, used, faults>>

SyncData(p) ==
  /\ At(p, "syncData")
  /\ Sync
  /\ Goto(p, "sidecar")
  /\ UNCHANGED <<used, faults>>

PublishSidecar(p) ==
  /\ At(p, "sidecar")
  /\ SetSidecar(call[p].key, call[p].write)
  /\ Goto(p, "syncSidecar")
  /\ UNCHANGED <<used, faults>>

\* Mutant of SyncSidecar: a put answers without a sync.
SkipSyncSidecar(p) ==
  /\ At(p, "syncSidecar")
  /\ IF call[p].read = NoWrite THEN Answer(p, "written") ELSE Goto(p, "reclaim")
  /\ UNCHANGED <<disk, used, faults>>

SyncSidecar(p) ==
  /\ At(p, "syncSidecar")
  /\ Sync
  /\ IF call[p].read = NoWrite THEN Answer(p, "written") ELSE Goto(p, "reclaim")
  /\ UNCHANGED <<used, faults>>

\* The put removes the data file of the sidecar it read at its start, if it read one.
Reclaim(p) ==
  /\ At(p, "reclaim")
  /\ RemoveData(call[p].read)
  /\ Answer(p, "written")
  /\ UNCHANGED <<used, faults>>

\* An error of that removal is dropped.
ReclaimFails(p) ==
  /\ At(p, "reclaim")
  /\ Fault
  /\ Answer(p, "written")
  /\ UNCHANGED <<disk, used>>
-----------------------------------------------------------------------------
BeginDelete(p, k) == Begin(p, "delete", k, NoWrite, "unlink") /\ UNCHANGED used

\* Mutant of Unlink: the bytes go first.
UnlinkData(p) ==
  /\ At(p, "unlink")
  /\ RemoveData(call[p].read)
  /\ Goto(p, "syncUnlink")
  /\ UNCHANGED <<used, faults>>

Unlink(p) ==
  /\ At(p, "unlink")
  /\ SetSidecar(call[p].key, NoWrite)
  /\ Goto(p, "syncUnlink")
  /\ UNCHANGED <<used, faults>>

SyncUnlink(p) ==
  /\ At(p, "syncUnlink")
  /\ Sync
  /\ IF call[p].read = NoWrite THEN Answer(p, "deleted") ELSE Goto(p, "remove")
  /\ UNCHANGED <<used, faults>>

Remove(p) ==
  /\ At(p, "remove")
  /\ RemoveData(call[p].read)
  /\ Answer(p, "deleted")
  /\ UNCHANGED <<used, faults>>
-----------------------------------------------------------------------------
BeginGet(p, k) == Begin(p, "get", k, NoWrite, "open") /\ UNCHANGED used

\* A sidecar that names no write, or one whose data file is gone, is no object.
Open(p) ==
  /\ At(p, "open")
  /\ Answer(p, IF call[p].read \in data THEN "found" ELSE "absent")
  /\ UNCHANGED <<disk, used, faults>>

\* Any error of opening the data file is caught too, and the get ends as if it had
\* read no sidecar.
OpenFails(p) ==
  /\ At(p, "open") /\ call[p].read # NoWrite
  /\ Fault
  /\ call' = [call EXCEPT ![p] =
       [call[p] EXCEPT !.read = NoWrite, !.step = "done", !.answer = "absent"]]
  /\ UNCHANGED <<disk, used>>
-----------------------------------------------------------------------------
\* An I/O error of a write, a sync or a removal ends the call where it is.
Error(p) ==
  /\ call[p].step \notin {"idle", "open", "reclaim", "done"}
  /\ Fault
  /\ Answer(p, "error")
  /\ UNCHANGED <<disk, used>>

\* The host is lost, and every call with it: of the changes since the last sync any
\* may have reached the disk, each entry for itself.
Crash ==
  /\ Fault
  /\ \E s \in [Key -> Write \cup {NoWrite}], d \in SUBSET (data \cup kept) :
       /\ \A k \in Key : s[k] \in maybe[k]
       /\ data \cap kept \subseteq d
       /\ sidecar' = s
       /\ maybe' = [k \in Key |-> {s[k]}]
       /\ data' = d /\ kept' = d
  /\ call' = [p \in Proc |-> Idle]
  /\ UNCHANGED used
-----------------------------------------------------------------------------
Init ==
  /\ sidecar = [k \in Key |-> NoWrite]
  /\ data = {}
  /\ maybe = [k \in Key |-> {NoWrite}]
  /\ kept = {}
  /\ used = [w \in Write |-> NoKey]
  /\ call = [p \in Proc |-> Idle]
  /\ faults = 0

Put(p) ==
  \/ \E k \in Key, w \in Write : BeginPut(p, k, w)
  \/ WriteData(p) \/ SyncData(p) \/ PublishSidecar(p) \/ SyncSidecar(p)
  \/ Reclaim(p) \/ ReclaimFails(p)

Delete(p) ==
  \/ \E k \in Key : BeginDelete(p, k)
  \/ Unlink(p) \/ SyncUnlink(p) \/ Remove(p)

Get(p) ==
  \/ \E k \in Key : BeginGet(p, k)
  \/ Open(p) \/ OpenFails(p)

Next ==
  \/ \E p \in Proc : Put(p) \/ Delete(p) \/ Get(p) \/ Error(p)
  \/ Crash

Spec == Init /\ [][Next]_vars
-----------------------------------------------------------------------------
(***************************************************************************)
(* Properties.                                                             *)
(***************************************************************************)

\* Files and calls keep their types.
TypeOK ==
  /\ sidecar \in [Key -> Write \cup {NoWrite}]
  /\ data \subseteq Write /\ kept \subseteq Write
  /\ used \in [Write -> Key \cup {NoKey}]
  /\ maybe \in [Key -> SUBSET (Write \cup {NoWrite})]
  /\ call \in [Proc ->
       [op: {"none", "put", "get", "delete"}, step: Steps, key: Key \cup {NoKey},
        write: Write \cup {NoWrite}, previous: Write \cup {NoWrite},
        read: Write \cup {NoWrite}, answer: Answers]]
  /\ faults \in 0 .. Faults

\* A sidecar names bytes that are there, and a crash at any moment, with the disk
\* it leaves, does not change that: no order of puts, deletes, errors and lost
\* hosts makes an object that can be listed and not be read.
NoTornObject == \A k \in Key : sidecar[k] # NoWrite => sidecar[k] \in data

\* What a put or a delete has answered for is final: a crash does not bring the
\* object it replaced or removed back.
AnsweredIsDurable ==
  \A p \in Proc :
    call[p].answer \in {"written", "deleted"} /\ call[p].previous # NoWrite
      => call[p].previous \notin maybe[call[p].key]

\* A get that read a sidecar and answers that there is no object does so when the key
\* is gone: without an error of its own two reads, which the code answers alike, no
\* order of other calls, errors and lost hosts makes "absent" the answer for an object
\* that is there.  Of keys that are put once, as storePrivateFile puts them; an
\* overwrite reclaims what a get under way has yet to open.
GetFindsTheObject ==
  \A p \in Proc :
    call[p].answer = "absent" /\ call[p].read # NoWrite
      => \/ sidecar[call[p].key] = NoWrite
         \/ \E w \in Write : used[w] = call[p].key /\ w # call[p].read

\* What calls answer is true, and stays so.
AnswersAreTrue == AnsweredIsDurable /\ GetFindsTheObject

\* A call is begun until its sidecar is renamed or unlinked, effective until that is
\* synced, settled until it is answered.
StateOf ==
  [step \in Steps |->
     CASE step \in {"data", "syncData", "sidecar", "unlink", "open"} -> "begun"
       [] step \in {"syncSidecar", "syncUnlink"} -> "effective"
       [] step \in {"reclaim", "remove"} -> "settled"
       [] step \in {"idle", "done"} -> step]

\* The calls as their callers see them.
Calls == [p \in Proc |-> [call[p] EXCEPT !.step = StateOf[@]]]

Store == INSTANCE ObjectStore WITH object <- sidecar, fate <- maybe, call <- Calls

\* Two files and a directory to sync make one object, which is replaced at once, is
\* answered for when a crash cannot undo it any more, and is found missing while it
\* may still be there only by a get with a failing read: every step of the files is a
\* step of ObjectStore.
ImplementsStore == Store!Spec
=============================================================================
