-------------------------- MODULE FileStoreProofs --------------------------
(***************************************************************************)
(* What the file store keeps, for any number of keys, calls and faults: no   *)
(* sidecar names bytes that are gone, now or after a crash, and no crash     *)
(* undoes an answer.                                                         *)
(*                                                                          *)
(* The invariant says what the module's comment argues: a write id is drawn  *)
(* for one key and published once, so what a call reclaims is named by no    *)
(* sidecar, visible or on the disk, and never will be.  With it each step of *)
(* the files is a step of ObjectStore: a rename takes effect, a sync settles, *)
(* and what a get does not find, when it has read a sidecar, is in no sidecar *)
(* that may survive.                                                         *)
(***************************************************************************)
EXTENDS FileStore, TLAPS

\* The put of p has drawn its write and not published it.
Unpublished(p) == call[p].step \in {"data", "syncData", "sidecar"}

\* The calls of p after their sync, and the gets that read a sidecar and found no
\* bytes: the write it named is out of reach.
Settled(p) ==
  \/ call[p].step \in {"reclaim", "remove"}
  \/ call[p].answer \in {"written", "deleted"}
  \/ call[p].answer = "absent" /\ call[p].read # NoWrite

\* A sidecar is one of those a crash may leave, and each of them names bytes that
\* are there and will still be.
SafeData ==
  \A k \in Key :
    /\ sidecar[k] \in maybe[k]
    /\ maybe[k] \ {NoWrite} \subseteq data \cap kept

\* A write belongs to the key it was drawn for.
OwnKey ==
  /\ \A k \in Key, w \in Write : w \in maybe[k] => used[w] = k
  /\ \A p \in Proc : call[p].previous # NoWrite =>
       call[p].key \in Key /\ used[call[p].previous] = call[p].key
  /\ \A p \in Proc : Unpublished(p) => /\ call[p].write \in Write
                                       /\ call[p].key \in Key
                                       /\ used[call[p].write] = call[p].key

\* A write that is not published is named nowhere.
Fresh ==
  \A p \in Proc : Unpublished(p) =>
    /\ \A k \in Key : call[p].write \notin maybe[k]
    /\ \A q \in Proc : call[q].previous # call[p].write
    /\ \A q \in Proc : Unpublished(q) /\ q # p => call[q].write # call[p].write

\* The bytes of a put are there before its sidecar, and on the disk.
BytesFirst ==
  \A p \in Proc :
    /\ call[p].step \in {"syncData", "sidecar"} => call[p].write \in data
    /\ call[p].step = "sidecar" => call[p].write \in kept

\* What a call replaced is not visible once the call's change is, and not on the
\* disk once that is synced.
Replaced ==
  \A p \in Proc : call[p].previous # NoWrite =>
    /\ call[p].step \in {"syncSidecar", "syncUnlink"}
         => \A k \in Key : sidecar[k] # call[p].previous
    /\ Settled(p) => \A k \in Key : call[p].previous \notin maybe[k]

\* A call under way works on a key.
KeyKnown == \A p \in Proc : call[p].step \notin {"idle"} => call[p].key \in Key

\* What a call read is what there was, or nothing.
TrueReads == \A p \in Proc : call[p].read \in {call[p].previous, NoWrite}

IInv ==
  TypeOK /\ SafeData /\ OwnKey /\ Fresh /\ BytesFirst /\ Replaced /\ KeyKnown /\ TrueReads
-----------------------------------------------------------------------------
CallType ==
  [op: {"none", "put", "get", "delete"}, step: Steps, key: Key \cup {NoKey},
   write: Write \cup {NoWrite}, previous: Write \cup {NoWrite},
   read: Write \cup {NoWrite}, answer: Answers]

\* A call that moves on, with the disk as it is, keeps its fields.
LEMMA GotoFields ==
  ASSUME TypeOK, NEW p \in Proc, NEW step \in Steps, Goto(p, step)
  PROVE  /\ call' \in [Proc -> CallType]
         /\ \A q \in Proc :
              /\ call'[q].key = call[q].key /\ call'[q].write = call[q].write
              /\ call'[q].previous = call[q].previous /\ call'[q].read = call[q].read
              /\ call'[q].answer = call[q].answer
              /\ call'[q].step = IF q = p THEN step ELSE call[q].step
BY DEF TypeOK, Goto, CallType

\* The same of a call that ends.
LEMMA AnswerFields ==
  ASSUME TypeOK, NEW p \in Proc, NEW answer \in Answers, Answer(p, answer)
  PROVE  /\ call' \in [Proc -> CallType]
         /\ \A q \in Proc :
              /\ call'[q].key = call[q].key /\ call'[q].write = call[q].write
              /\ call'[q].previous = call[q].previous /\ call'[q].read = call[q].read
              /\ call'[q].answer = IF q = p THEN answer ELSE call[q].answer
              /\ call'[q].step = IF q = p THEN "done" ELSE call[q].step
<1> DEFINE ended == [call EXCEPT ![p].step = "done"]
<1>1. /\ ended \in [Proc -> CallType]
      /\ \A q \in Proc :
           /\ ended[q].key = call[q].key /\ ended[q].write = call[q].write
           /\ ended[q].previous = call[q].previous /\ ended[q].answer = call[q].answer
           /\ ended[q].read = call[q].read
           /\ ended[q].step = IF q = p THEN "done" ELSE call[q].step
  BY DEF TypeOK, CallType, Steps
<1>2. call' = [ended EXCEPT ![p].answer = answer] BY DEF Answer
<1> HIDE DEF ended
<1> QED BY <1>1, <1>2 DEF CallType
-----------------------------------------------------------------------------
LEMMA InitInv == ASSUME Init PROVE IInv
BY FileStoreAssumption
DEF Init, IInv, TypeOK, SafeData, OwnKey, Fresh, BytesFirst, Replaced, KeyKnown, TrueReads,
    Unpublished, Settled, Idle, Steps, Answers

\* An error is one of the bounded many.
LEMMA FaultCounted == ASSUME TypeOK, Fault PROVE faults' \in 0 .. Faults
BY FileStoreAssumption DEF TypeOK, Fault

\* What a call reads at its start, with an error of the read or without.
LEMMA ReadFields ==
  ASSUME TypeOK, NEW k \in Key, NEW read \in {sidecar[k], NoWrite}, readSidecar(k, read)
  PROVE  faults' \in 0 .. Faults /\ read \in Write \cup {NoWrite}
BY FaultCounted DEF TypeOK, readSidecar

LEMMA BeginPutInv ==
  ASSUME IInv, NEW p \in Proc, NEW k \in Key, NEW w \in Write, BeginPut(p, k, w)
  PROVE  IInv'
<1>a. PICK read \in {sidecar[k], NoWrite} :
        /\ readSidecar(k, read)
        /\ call' = [call EXCEPT ![p] =
             [op |-> "put", step |-> "data", key |-> k, write |-> w,
              previous |-> sidecar[k], read |-> read, answer |-> "none"]]
  BY DEF BeginPut, Begin
<1> DEFINE new == [op |-> "put", step |-> "data", key |-> k, write |-> w,
                   previous |-> sidecar[k], read |-> read, answer |-> "none"]
<1>1. /\ call' = [call EXCEPT ![p] = new]
      /\ used' = [used EXCEPT ![w] = k] /\ used[w] = NoKey
      /\ UNCHANGED <<sidecar, data, maybe, kept>>
  BY <1>a DEF BeginPut, Begin, disk
<1>b. faults' \in 0 .. Faults /\ read \in Write \cup {NoWrite}
  BY <1>a, ReadFields DEF IInv
<1>2. TypeOK' BY <1>1, <1>b DEF IInv, TypeOK, Steps, Answers
<1>3. sidecar[k] \in maybe[k] /\ sidecar[k] \in Write \cup {NoWrite}
  BY DEF IInv, SafeData, TypeOK
<1>4. \A q \in Proc : call'[q] = IF q = p THEN new ELSE call[q]
  BY <1>1 DEF IInv, TypeOK
<1>5. \A v \in Write : used'[v] = IF v = w THEN k ELSE used[v] BY <1>1 DEF IInv, TypeOK
<1>6. \A l \in Key : w \notin maybe[l]
  BY <1>1, FileStoreAssumption DEF IInv, OwnKey
<1>7. \A q \in Proc : call[q].previous # w
  BY <1>1, FileStoreAssumption DEF IInv, OwnKey, TypeOK
<1>8. \A q \in Proc : Unpublished(q) => call[q].write # w
  BY <1>1, FileStoreAssumption DEF IInv, OwnKey, TypeOK
<1>9. w # NoWrite /\ new.step = "data" /\ new.answer = "none" /\ new.key = k
      /\ new.write = w /\ new.previous = sidecar[k] /\ new.read \in {new.previous, NoWrite}
  BY FileStoreAssumption
<1> HIDE DEF new
<1>10. SafeData' BY <1>1 DEF IInv, SafeData
<1>11. OwnKey'
  <2>1. \A l \in Key, v \in Write : v \in maybe'[l] => used'[v] = l
    BY <1>1, <1>5, <1>6 DEF IInv, OwnKey
  <2>2. \A q \in Proc : call'[q].previous # NoWrite =>
          call'[q].key \in Key /\ used'[call'[q].previous] = call'[q].key
    BY <1>3, <1>4, <1>5, <1>6, <1>7, <1>9 DEF IInv, OwnKey, TypeOK
  <2>3. \A q \in Proc : Unpublished(q)' => /\ call'[q].write \in Write
                                           /\ call'[q].key \in Key
                                           /\ used'[call'[q].write] = call'[q].key
    BY <1>4, <1>5, <1>8, <1>9 DEF IInv, OwnKey, Unpublished
  <2> QED BY <2>1, <2>2, <2>3 DEF OwnKey
<1>12. Fresh'
  BY <1>1, <1>3, <1>4, <1>6, <1>7, <1>8, <1>9 DEF IInv, Fresh, Unpublished
<1>13. BytesFirst' BY <1>1, <1>4, <1>9 DEF IInv, BytesFirst
<1>14. Replaced' BY <1>1, <1>4, <1>9 DEF IInv, Replaced, Settled
<1>15. KeyKnown' BY <1>4, <1>9 DEF IInv, KeyKnown
<1>16. TrueReads' BY <1>4, <1>9 DEF IInv, TrueReads
<1> QED BY <1>2, <1>10, <1>11, <1>12, <1>13, <1>14, <1>15, <1>16 DEF IInv

\* A call that reads the sidecar and draws no write.
LEMMA BeginOtherInv ==
  ASSUME IInv, NEW p \in Proc, NEW k \in Key, BeginDelete(p, k) \/ BeginGet(p, k)
  PROVE  IInv'
<1>1. PICK op \in {"delete", "get"}, step \in {"unlink", "open"},
           read \in {sidecar[k], NoWrite} :
        /\ readSidecar(k, read)
        /\ call' = [call EXCEPT ![p] =
             [op |-> op, step |-> step, key |-> k, write |-> NoWrite,
              previous |-> sidecar[k], read |-> read, answer |-> "none"]]
        /\ UNCHANGED <<sidecar, data, maybe, kept, used>>
  <2>1. CASE BeginDelete(p, k)
    BY <2>1 DEF BeginDelete, Begin, disk
  <2>2. CASE BeginGet(p, k)
    BY <2>2 DEF BeginGet, Begin, disk
  <2> QED BY <2>1, <2>2
<1> DEFINE new == [op |-> op, step |-> step, key |-> k, write |-> NoWrite,
                   previous |-> sidecar[k], read |-> read, answer |-> "none"]
<1>b. faults' \in 0 .. Faults /\ read \in Write \cup {NoWrite}
  BY <1>1, ReadFields DEF IInv
<1>2. TypeOK' BY <1>1, <1>b DEF IInv, TypeOK, Steps, Answers
<1>3. sidecar[k] \in maybe[k] /\ sidecar[k] \in Write \cup {NoWrite}
  BY DEF IInv, SafeData, TypeOK
<1>4. \A q \in Proc : call'[q] = IF q = p THEN new ELSE call[q]
  BY <1>1 DEF IInv, TypeOK
<1>9. /\ new.step \in {"unlink", "open"} /\ new.answer = "none" /\ new.key = k
      /\ new.previous = sidecar[k] /\ new.read \in {new.previous, NoWrite}
  OBVIOUS
<1> HIDE DEF new
<1>10. SafeData' BY <1>1 DEF IInv, SafeData
<1>11. OwnKey'
  <2>1. \A q \in Proc : call'[q].previous # NoWrite =>
          call'[q].key \in Key /\ used'[call'[q].previous] = call'[q].key
    BY <1>1, <1>3, <1>4, <1>9 DEF IInv, OwnKey, TypeOK
  <2>2. \A q \in Proc : Unpublished(q)' => /\ call'[q].write \in Write
                                           /\ call'[q].key \in Key
                                           /\ used'[call'[q].write] = call'[q].key
    BY <1>1, <1>4, <1>9 DEF IInv, OwnKey, Unpublished
  <2> QED BY <1>1, <2>1, <2>2 DEF IInv, OwnKey
<1>12. Fresh'
  BY <1>1, <1>3, <1>4, <1>9 DEF IInv, Fresh, Unpublished
<1>13. BytesFirst' BY <1>1, <1>4, <1>9 DEF IInv, BytesFirst
<1>14. Replaced' BY <1>1, <1>4, <1>9 DEF IInv, Replaced, Settled
<1>15. KeyKnown' BY <1>4, <1>9 DEF IInv, KeyKnown
<1>16. TrueReads' BY <1>4, <1>9 DEF IInv, TrueReads
<1> QED BY <1>2, <1>10, <1>11, <1>12, <1>13, <1>14, <1>15, <1>16 DEF IInv

\* Only the step and the answer of p change.
Moved(p, step, answer) ==
  /\ call' \in [Proc -> CallType]
  /\ \A q \in Proc :
       /\ call'[q].key = call[q].key /\ call'[q].write = call[q].write
       /\ call'[q].previous = call[q].previous /\ call'[q].read = call[q].read
       /\ call'[q].answer = IF q = p THEN answer ELSE call[q].answer
       /\ call'[q].step = IF q = p THEN step ELSE call[q].step

LEMMA GotoMoves ==
  ASSUME TypeOK, NEW p \in Proc, NEW step \in Steps, Goto(p, step)
  PROVE  Moved(p, step, call[p].answer)
BY GotoFields DEF Moved

LEMMA AnswerMoves ==
  ASSUME TypeOK, NEW p \in Proc, NEW answer \in Answers, Answer(p, answer)
  PROVE  Moved(p, "done", answer)
BY AnswerFields DEF Moved

LEMMA WriteDataInv ==
  ASSUME IInv, NEW p \in Proc, WriteData(p)
  PROVE  IInv'
<1>1. /\ At(p, "data") /\ Moved(p, "syncData", call[p].answer)
      /\ call[p].write \in Write /\ data' = data \cup {call[p].write}
      /\ UNCHANGED <<sidecar, maybe, kept, used, faults>>
  BY GotoMoves DEF WriteData, IInv, OwnKey, Unpublished, At, Steps
<1>2. TypeOK' BY <1>1 DEF IInv, TypeOK, Moved, CallType
<1>3. SafeData' BY <1>1 DEF IInv, SafeData
<1>4. OwnKey' BY <1>1 DEF IInv, OwnKey, Unpublished, Moved, At
<1>5. Fresh' BY <1>1 DEF IInv, Fresh, Unpublished, Moved, At
<1>6. BytesFirst' BY <1>1 DEF IInv, BytesFirst, Moved, At
<1>7. Replaced' BY <1>1 DEF IInv, Replaced, Settled, Moved, At
<1>8. KeyKnown' BY <1>1 DEF IInv, KeyKnown, Moved, At
<1>9. TrueReads' BY <1>1 DEF IInv, TrueReads, Moved
<1> QED BY <1>2, <1>3, <1>4, <1>5, <1>6, <1>7, <1>8, <1>9 DEF IInv

LEMMA SyncDataInv ==
  ASSUME IInv, NEW p \in Proc, SyncData(p)
  PROVE  IInv'
<1>1. /\ At(p, "syncData") /\ Moved(p, "sidecar", call[p].answer) /\ Sync
      /\ UNCHANGED <<used, faults>>
  BY GotoMoves DEF SyncData, IInv, Steps
<1>2. TypeOK' BY <1>1 DEF IInv, TypeOK, Moved, CallType, Sync
<1>3. SafeData' BY <1>1 DEF IInv, SafeData, Sync, TypeOK
<1>4. OwnKey' BY <1>1 DEF IInv, OwnKey, Unpublished, Moved, At, Sync, SafeData
<1>5. Fresh' BY <1>1 DEF IInv, Fresh, Unpublished, Moved, At, Sync, SafeData
<1>6. BytesFirst' BY <1>1 DEF IInv, BytesFirst, Moved, At, Sync
<1>7. Replaced' BY <1>1 DEF IInv, Replaced, Settled, Moved, At, Sync, SafeData
<1>8. KeyKnown' BY <1>1 DEF IInv, KeyKnown, Moved, At
<1>9. TrueReads' BY <1>1 DEF IInv, TrueReads, Moved
<1> QED BY <1>2, <1>3, <1>4, <1>5, <1>6, <1>7, <1>8, <1>9 DEF IInv

LEMMA PublishSidecarInv ==
  ASSUME IInv, NEW p \in Proc, PublishSidecar(p)
  PROVE  IInv'
<1>1. /\ At(p, "sidecar") /\ Moved(p, "syncSidecar", call[p].answer)
      /\ call[p].write \in Write /\ call[p].key \in Key /\ used[call[p].write] = call[p].key
      /\ sidecar' = [sidecar EXCEPT ![call[p].key] = call[p].write]
      /\ maybe' = [maybe EXCEPT ![call[p].key] = @ \cup {call[p].write}]
      /\ UNCHANGED <<data, kept, used, faults>>
  BY GotoMoves DEF PublishSidecar, SetSidecar, IInv, OwnKey, Unpublished, At, Steps
<1>2. TypeOK' BY <1>1 DEF IInv, TypeOK, Moved, CallType
<1>3. SafeData' BY <1>1 DEF IInv, SafeData, TypeOK, BytesFirst, At
<1>4. OwnKey' BY <1>1 DEF IInv, OwnKey, Unpublished, Moved, At, TypeOK
<1>5. Fresh' BY <1>1 DEF IInv, Fresh, Unpublished, Moved, At, TypeOK
<1>6. BytesFirst' BY <1>1 DEF IInv, BytesFirst, Moved, At
<1>7. Replaced' 
  <2>1. \A q \in Proc : call[q].previous # call[p].write
    BY <1>1 DEF IInv, Fresh, Unpublished, At
  <2>2. call[p].previous # NoWrite => \A k \in Key : sidecar'[k] # call[p].previous
    BY <1>1, <2>1 DEF IInv, OwnKey, SafeData, TypeOK
  <2> QED BY <1>1, <2>1, <2>2 DEF IInv, Replaced, Settled, Moved, At, TypeOK
<1>8. KeyKnown' BY <1>1 DEF IInv, KeyKnown, Moved, At
<1>9. TrueReads' BY <1>1 DEF IInv, TrueReads, Moved
<1> QED BY <1>2, <1>3, <1>4, <1>5, <1>6, <1>7, <1>8, <1>9 DEF IInv

\* A step that moves p on after a sync, to an answer or to what it replaced.
LEMMA SyncSidecarInv ==
  ASSUME IInv, NEW p \in Proc, SyncSidecar(p)
  PROVE  IInv'
<1>1. PICK step \in {"reclaim", "done"}, answer \in Answers :
        /\ At(p, "syncSidecar") /\ Moved(p, step, answer) /\ Sync
        /\ UNCHANGED <<used, faults>>
  <2>1. CASE call[p].read = NoWrite
    BY <2>1, AnswerMoves DEF SyncSidecar, IInv, Answers
  <2>2. CASE call[p].read # NoWrite
    <3>1. call[p].answer \in Answers BY DEF IInv, TypeOK
    <3> QED BY <2>2, <3>1, GotoMoves DEF SyncSidecar, IInv, Steps
  <2> QED BY <2>1, <2>2
<1>2. TypeOK' BY <1>1 DEF IInv, TypeOK, Moved, CallType, Sync
<1>3. SafeData' BY <1>1 DEF IInv, SafeData, Sync, TypeOK
<1>4. OwnKey' BY <1>1 DEF IInv, OwnKey, Unpublished, Moved, At, Sync, SafeData
<1>5. Fresh' BY <1>1 DEF IInv, Fresh, Unpublished, Moved, At, Sync, SafeData
<1>6. BytesFirst' BY <1>1 DEF IInv, BytesFirst, Moved, At, Sync
<1>7. Replaced'
  <2>1. call[p].previous # NoWrite => \A k \in Key : sidecar[k] # call[p].previous
    BY <1>1 DEF IInv, Replaced, At
  <2>2. \A q \in Proc, k \in Key :
          /\ sidecar'[k] = sidecar[k] /\ maybe'[k] = {sidecar[k]}
          /\ sidecar[k] \in maybe[k]
    BY <1>1 DEF Sync, IInv, SafeData
  <2> QED BY <1>1, <2>1, <2>2 DEF IInv, Replaced, Settled, Moved, At
<1>8. KeyKnown' BY <1>1 DEF IInv, KeyKnown, Moved, At
<1>9. TrueReads' BY <1>1 DEF IInv, TrueReads, Moved
<1> QED BY <1>2, <1>3, <1>4, <1>5, <1>6, <1>7, <1>8, <1>9 DEF IInv

LEMMA SyncUnlinkInv ==
  ASSUME IInv, NEW p \in Proc, SyncUnlink(p)
  PROVE  IInv'
<1>1. PICK step \in {"remove", "done"}, answer \in Answers :
        /\ At(p, "syncUnlink") /\ Moved(p, step, answer) /\ Sync
        /\ UNCHANGED <<used, faults>>
  <2>1. CASE call[p].read = NoWrite
    BY <2>1, AnswerMoves DEF SyncUnlink, IInv, Answers
  <2>2. CASE call[p].read # NoWrite
    <3>1. call[p].answer \in Answers BY DEF IInv, TypeOK
    <3> QED BY <2>2, <3>1, GotoMoves DEF SyncUnlink, IInv, Steps
  <2> QED BY <2>1, <2>2
<1>2. TypeOK' BY <1>1 DEF IInv, TypeOK, Moved, CallType, Sync, Steps
<1>3. SafeData' BY <1>1 DEF IInv, SafeData, Sync, TypeOK
<1>4. OwnKey' BY <1>1 DEF IInv, OwnKey, Unpublished, Moved, At, Sync, SafeData
<1>5. Fresh' BY <1>1 DEF IInv, Fresh, Unpublished, Moved, At, Sync, SafeData
<1>6. BytesFirst' BY <1>1 DEF IInv, BytesFirst, Moved, At, Sync
<1>7. Replaced'
  <2>1. call[p].previous # NoWrite => \A k \in Key : sidecar[k] # call[p].previous
    BY <1>1 DEF IInv, Replaced, At
  <2>2. \A q \in Proc, k \in Key :
          /\ sidecar'[k] = sidecar[k] /\ maybe'[k] = {sidecar[k]}
          /\ sidecar[k] \in maybe[k]
    BY <1>1 DEF Sync, IInv, SafeData
  <2> QED BY <1>1, <2>1, <2>2 DEF IInv, Replaced, Settled, Moved, At
<1>8. KeyKnown' BY <1>1 DEF IInv, KeyKnown, Moved, At
<1>9. TrueReads' BY <1>1 DEF IInv, TrueReads, Moved
<1> QED BY <1>2, <1>3, <1>4, <1>5, <1>6, <1>7, <1>8, <1>9 DEF IInv

\* The data file a call removes is named by no sidecar a crash may leave, and is no
\* file another put has written and not published.
LEMMA RemovalInv ==
  ASSUME IInv, NEW p \in Proc, NEW answer \in Answers,
         At(p, "reclaim") \/ At(p, "remove"), Moved(p, "done", answer),
         data' = data \/ data' = data \ {call[p].read},
         UNCHANGED <<sidecar, maybe, kept, used>>, faults' \in 0 .. Faults
  PROVE  IInv'
<1>1. \A k \in Key : call[p].read \notin maybe[k] \ {NoWrite}
  BY DEF IInv, Replaced, Settled, At, TrueReads
<1>2. TypeOK' BY DEF IInv, TypeOK, Moved, CallType, Steps
<1>3. SafeData' BY <1>1 DEF IInv, SafeData
<1>4. OwnKey' BY DEF IInv, OwnKey, Unpublished, Moved, At
<1>5. Fresh' BY DEF IInv, Fresh, Unpublished, Moved, At
<1>6. BytesFirst'
  <2>1. \A q \in Proc : Unpublished(q) => call[q].write # call[p].read
    BY FileStoreAssumption DEF IInv, Fresh, OwnKey, TrueReads
  <2> QED BY <2>1 DEF IInv, BytesFirst, Unpublished, Moved, At
<1>7. Replaced' BY DEF IInv, Replaced, Settled, Moved, At
<1>8. KeyKnown' BY DEF IInv, KeyKnown, Moved, At
<1>9. TrueReads' BY DEF IInv, TrueReads, Moved
<1> QED BY <1>2, <1>3, <1>4, <1>5, <1>6, <1>7, <1>8, <1>9 DEF IInv

LEMMA ReclaimInv ==
  ASSUME IInv, NEW p \in Proc, Reclaim(p) \/ ReclaimFails(p) \/ Remove(p)
  PROVE  IInv'
<1>1. PICK answer \in {"written", "deleted"} : Moved(p, "done", answer)
  BY AnswerMoves DEF Reclaim, ReclaimFails, Remove, IInv, Answers
<1>2. faults' \in 0 .. Faults
  BY FaultCounted DEF Reclaim, ReclaimFails, Remove, IInv, TypeOK
<1> QED BY <1>1, <1>2, RemovalInv DEF Reclaim, ReclaimFails, Remove, RemoveData, disk, Answers

LEMMA UnlinkInv ==
  ASSUME IInv, NEW p \in Proc, Unlink(p)
  PROVE  IInv'
<1>1. /\ At(p, "unlink") /\ Moved(p, "syncUnlink", call[p].answer)
      /\ call[p].key \in Key
      /\ sidecar' = [sidecar EXCEPT ![call[p].key] = NoWrite]
      /\ maybe' = [maybe EXCEPT ![call[p].key] = @ \cup {NoWrite}]
      /\ UNCHANGED <<data, kept, used, faults>>
  BY GotoMoves DEF Unlink, SetSidecar, IInv, KeyKnown, At, Steps
<1>2. TypeOK' BY <1>1 DEF IInv, TypeOK, Moved, CallType
<1>3. SafeData' BY <1>1 DEF IInv, SafeData, TypeOK
<1>4. OwnKey' BY <1>1, FileStoreAssumption DEF IInv, OwnKey, Unpublished, Moved, At, TypeOK
<1>5. Fresh' BY <1>1, FileStoreAssumption DEF IInv, Fresh, OwnKey, Unpublished, Moved, At, TypeOK
<1>6. BytesFirst' BY <1>1 DEF IInv, BytesFirst, Moved, At
<1>7. Replaced'
  <2>1. call[p].previous # NoWrite => \A k \in Key : sidecar'[k] # call[p].previous
    BY <1>1 DEF IInv, OwnKey, SafeData, TypeOK
  <2> QED BY <1>1, <2>1 DEF IInv, Replaced, Settled, Moved, At, TypeOK
<1>8. KeyKnown' BY <1>1 DEF IInv, KeyKnown, Moved, At
<1>9. TrueReads' BY <1>1 DEF IInv, TrueReads, Moved
<1> QED BY <1>2, <1>3, <1>4, <1>5, <1>6, <1>7, <1>8, <1>9 DEF IInv

\* A call that ends without a change: a get whose reads succeed, or an error.
LEMMA EndInv ==
  ASSUME IInv, NEW p \in Proc, Open(p) \/ Error(p)
  PROVE  IInv'
<1>1. PICK answer \in {"found", "absent", "error"} :
        /\ call[p].step \notin {"idle", "done"} /\ Moved(p, "done", answer)
        /\ UNCHANGED <<sidecar, data, maybe, kept, used>>
  BY AnswerMoves DEF Open, Error, disk, IInv, Answers, At
<1>2. faults' \in 0 .. Faults BY FaultCounted DEF Open, Error, IInv, TypeOK
<1>3. TypeOK' BY <1>1, <1>2 DEF IInv, TypeOK, Moved, CallType, Answers
<1>4. SafeData' BY <1>1 DEF IInv, SafeData
<1>5. OwnKey' BY <1>1 DEF IInv, OwnKey, Unpublished, Moved
<1>6. Fresh' BY <1>1 DEF IInv, Fresh, Unpublished, Moved
<1>7. BytesFirst' BY <1>1 DEF IInv, BytesFirst, Moved
<1>8. Replaced'
  <2>1. answer = "absent" => call[p].read \notin data
    <3>1. CASE Open(p)
      <4>1. Moved(p, "done", IF call[p].read \in data THEN "found" ELSE "absent")
        BY <3>1, AnswerMoves DEF Open, IInv, Answers
      <4> QED BY <1>1, <4>1 DEF Moved
    <3>2. CASE Error(p)
      <4>1. Moved(p, "done", "error") BY <3>2, AnswerMoves DEF Error, IInv, Answers
      <4> QED BY <1>1, <4>1 DEF Moved
    <3> QED BY <3>1, <3>2
  <2>2. answer = "absent" /\ call[p].read # NoWrite =>
          \A k \in Key : call[p].previous \notin maybe[k]
    BY <2>1 DEF IInv, SafeData, TrueReads
  <2> QED BY <1>1, <2>2 DEF IInv, Replaced, Settled, Moved
<1>9. KeyKnown' BY <1>1 DEF IInv, KeyKnown, Moved
<1>10. TrueReads' BY <1>1 DEF IInv, TrueReads, Moved
<1> QED BY <1>3, <1>4, <1>5, <1>6, <1>7, <1>8, <1>9, <1>10 DEF IInv

\* A get whose second read fails: it counts as one that read no sidecar.
LEMMA OpenFailsInv ==
  ASSUME IInv, NEW p \in Proc, OpenFails(p)
  PROVE  IInv'
<1> DEFINE new == [call[p] EXCEPT !.read = NoWrite, !.step = "done", !.answer = "absent"]
<1>1. At(p, "open") /\ UNCHANGED <<sidecar, data, maybe, kept, used>> /\ faults' \in 0 .. Faults
  BY FaultCounted DEF OpenFails, disk, IInv
<1>2. call' = [call EXCEPT ![p] = new]
  BY DEF OpenFails
<1>3. /\ new \in CallType /\ new.step = "done" /\ new.answer = "absent" /\ new.read = NoWrite
      /\ new.key = call[p].key /\ new.write = call[p].write /\ new.previous = call[p].previous
  BY DEF IInv, TypeOK, CallType, Steps, Answers
<1> HIDE DEF new
<1>4. \A q \in Proc : call'[q] = IF q = p THEN new ELSE call[q]
  BY <1>2 DEF IInv, TypeOK
<1>5. TypeOK' BY <1>1, <1>2, <1>3 DEF IInv, TypeOK, CallType
<1>6. SafeData' BY <1>1 DEF IInv, SafeData
<1>7. OwnKey' BY <1>1, <1>3, <1>4 DEF IInv, OwnKey, Unpublished
<1>8. Fresh' BY <1>1, <1>3, <1>4 DEF IInv, Fresh, Unpublished
<1>9. BytesFirst' BY <1>1, <1>3, <1>4 DEF IInv, BytesFirst
<1>10. Replaced' BY <1>1, <1>3, <1>4 DEF IInv, Replaced, Settled
<1>11. KeyKnown' BY <1>1, <1>3, <1>4 DEF IInv, KeyKnown, At
<1>12. TrueReads' BY <1>3, <1>4 DEF IInv, TrueReads
<1> QED BY <1>5, <1>6, <1>7, <1>8, <1>9, <1>10, <1>11, <1>12 DEF IInv

LEMMA CrashInv ==
  ASSUME IInv, Crash
  PROVE  IInv'
<1>1. PICK s \in [Key -> Write \cup {NoWrite}], d \in SUBSET (data \cup kept) :
        /\ \A k \in Key : s[k] \in maybe[k]
        /\ data \cap kept \subseteq d
        /\ sidecar' = s /\ maybe' = [k \in Key |-> {s[k]}]
        /\ data' = d /\ kept' = d
  BY Zenon DEF Crash
<1>2. call' = [q \in Proc |-> Idle] /\ used' = used /\ faults' \in 0 .. Faults
  BY FaultCounted DEF Crash, IInv
<1>3. /\ Idle \in CallType /\ Idle.step = "idle" /\ Idle.previous = NoWrite
      /\ Idle.read = NoWrite
  BY DEF Idle, CallType, Steps, Answers
<1>4. TypeOK' BY <1>1, <1>2, <1>3 DEF IInv, TypeOK, CallType
<1>5. SafeData' BY <1>1 DEF IInv, SafeData
<1>6. OwnKey' BY <1>1, <1>2, <1>3 DEF IInv, OwnKey, Unpublished
<1>7. Fresh' BY <1>1, <1>2, <1>3 DEF Fresh, Unpublished
<1>8. BytesFirst' BY <1>2, <1>3 DEF BytesFirst
<1>9. Replaced' BY <1>2, <1>3 DEF Replaced
<1>10. KeyKnown' BY <1>2, <1>3 DEF KeyKnown
<1>11. TrueReads' BY <1>2, <1>3 DEF TrueReads
<1> QED BY <1>4, <1>5, <1>6, <1>7, <1>8, <1>9, <1>10, <1>11 DEF IInv

LEMMA StutterInv ==
  ASSUME IInv, UNCHANGED vars
  PROVE  IInv'
BY DEF vars, IInv, TypeOK, SafeData, OwnKey, Fresh, BytesFirst, Replaced, KeyKnown, TrueReads,
       Unpublished, Settled
-----------------------------------------------------------------------------
LEMMA StepInv ==
  ASSUME IInv, [Next]_vars
  PROVE  IInv'
<1>1. CASE UNCHANGED vars BY <1>1, StutterInv
<1>2. CASE Crash BY <1>2, CrashInv
<1>3. CASE \E p \in Proc : Put(p) \/ Delete(p) \/ Get(p) \/ Error(p)
  <2>1. PICK p \in Proc : Put(p) \/ Delete(p) \/ Get(p) \/ Error(p) BY <1>3
  <2>2. CASE Put(p)
    BY <2>2, BeginPutInv, WriteDataInv, SyncDataInv, PublishSidecarInv, SyncSidecarInv, ReclaimInv
    DEF Put
  <2>3. CASE Delete(p) BY <2>3, BeginOtherInv, UnlinkInv, SyncUnlinkInv, ReclaimInv DEF Delete
  <2>4. CASE Get(p) BY <2>4, BeginOtherInv, EndInv, OpenFailsInv DEF Get
  <2>5. CASE Error(p) BY <2>5, EndInv
  <2> QED BY <2>1, <2>2, <2>3, <2>4, <2>5
<1> QED BY <1>1, <1>2, <1>3 DEF Next

\* The invariant holds of every behaviour of the store.
THEOREM Invariant == Spec => []IInv
<1>1. Init => IInv BY InitInv
<1>2. IInv /\ [Next]_vars => IInv' BY StepInv
<1> QED BY <1>1, <1>2, PTL DEF Spec

\* Type correctness.
THEOREM TypeCorrect == Spec => []TypeOK
<1>1. IInv => TypeOK BY DEF IInv
<1> QED BY <1>1, Invariant, PTL

\* For any number of writers, deleters, crashes and errors, a sidecar names bytes
\* that are there: filesystem-file-store's "never a mixture".
THEOREM NeverTorn == Spec => []NoTornObject
<1>1. IInv => NoTornObject BY DEF IInv, SafeData, NoTornObject
<1> QED BY <1>1, Invariant, PTL

\* No crash brings back what an answered put replaced or an answered delete removed.
LEMMA AnswersLast == Spec => []AnsweredIsDurable
<1>1. IInv => AnsweredIsDurable
  <2> SUFFICES ASSUME IInv, NEW p \in Proc, call[p].answer \in {"written", "deleted"},
                      call[p].previous # NoWrite
               PROVE  call[p].previous \notin maybe[call[p].key]
    BY DEF AnsweredIsDurable
  <2> QED BY DEF IInv, OwnKey, Replaced, Settled
<1> QED BY <1>1, Invariant, PTL

\* A get that read a sidecar answers "absent" only if the key is gone or another write
\* was drawn for it: under keys that are put once, as storePrivateFile puts them, an
\* object that is there is never reported missing but by an error of the get's reads.
LEMMA GetsFind == Spec => []GetFindsTheObject
<1>1. IInv => GetFindsTheObject
  <2> SUFFICES ASSUME IInv, NEW p \in Proc, call[p].answer = "absent",
                      call[p].read # NoWrite, sidecar[call[p].key] # NoWrite
               PROVE  \E w \in Write : used[w] = call[p].key /\ w # call[p].read
    BY DEF GetFindsTheObject
  <2>1. call[p].read = call[p].previous BY DEF IInv, TrueReads
  <2>2. call[p].key \in Key BY <2>1 DEF IInv, OwnKey
  <2>3. sidecar[call[p].key] \in Write /\ sidecar[call[p].key] \in maybe[call[p].key]
    BY <2>2 DEF IInv, TypeOK, SafeData
  <2>4. call[p].read \notin maybe[call[p].key] BY <2>1, <2>2 DEF IInv, Replaced, Settled
  <2>5. used[sidecar[call[p].key]] = call[p].key BY <2>2, <2>3 DEF IInv, OwnKey
  <2> QED BY <2>3, <2>4, <2>5
<1> QED BY <1>1, Invariant, PTL

\* What calls answer is true, and stays so.
THEOREM AnswersStayTrue == Spec => []AnswersAreTrue
BY AnswersLast, GetsFind, PTL DEF AnswersAreTrue
-----------------------------------------------------------------------------
\* The operation of a call says which steps it goes through.
StepsOfOp ==
  \A p \in Proc :
    /\ call[p].step \in {"data", "syncData", "sidecar", "syncSidecar", "reclaim"} => call[p].op = "put"
    /\ call[p].step \in {"unlink", "syncUnlink", "remove"} =>
         call[p].op = "delete" /\ call[p].write = NoWrite
    /\ call[p].step = "open" => call[p].op = "get"

LEMMA StepsOfOpInit == Init => StepsOfOp
BY DEF Init, Idle, StepsOfOp

LEMMA StepsOfOpNext == TypeOK /\ StepsOfOp /\ [Next]_vars => StepsOfOp'
<1> SUFFICES ASSUME TypeOK, StepsOfOp, [Next]_vars PROVE StepsOfOp'
  OBVIOUS
<1>1. ASSUME NEW p \in Proc, NEW k \in Key, NEW w \in Write, BeginPut(p, k, w)
      PROVE  StepsOfOp'
  BY <1>1 DEF BeginPut, Begin, StepsOfOp, TypeOK
<1>2. ASSUME NEW p \in Proc, NEW k \in Key, BeginDelete(p, k) \/ BeginGet(p, k)
      PROVE  StepsOfOp'
  BY <1>2 DEF BeginDelete, BeginGet, Begin, StepsOfOp, TypeOK
<1>3. ASSUME NEW p \in Proc, WriteData(p) \/ SyncData(p) \/ PublishSidecar(p)
      PROVE  StepsOfOp'
  BY <1>3 DEF WriteData, SyncData, PublishSidecar, At, Goto, StepsOfOp, TypeOK
<1>4. ASSUME NEW p \in Proc, SyncSidecar(p) \/ Reclaim(p) \/ ReclaimFails(p)
      PROVE  StepsOfOp'
  BY <1>4 DEF SyncSidecar, Reclaim, ReclaimFails, At, Goto, Answer, StepsOfOp, TypeOK
<1>5. ASSUME NEW p \in Proc, Unlink(p) \/ SyncUnlink(p) \/ Remove(p)
      PROVE  StepsOfOp'
  BY <1>5 DEF Unlink, SyncUnlink, Remove, At, Goto, Answer, StepsOfOp, TypeOK
<1>6. ASSUME NEW p \in Proc, Open(p) \/ Error(p)
      PROVE  StepsOfOp'
  BY <1>6 DEF Open, Error, At, Answer, StepsOfOp, TypeOK
<1>9. ASSUME NEW p \in Proc, OpenFails(p)
      PROVE  StepsOfOp'
  <2> DEFINE new == [call[p] EXCEPT !.read = NoWrite, !.step = "done", !.answer = "absent"]
  <2>1. call' = [call EXCEPT ![p] = new] /\ new.step = "done"
    BY <1>9 DEF OpenFails, TypeOK
  <2> HIDE DEF new
  <2>2. \A q \in Proc : call'[q] = IF q = p THEN new ELSE call[q]
    BY <2>1 DEF TypeOK
  <2> QED BY <2>1, <2>2 DEF StepsOfOp
<1>7. CASE Crash
  BY <1>7 DEF Crash, Idle, StepsOfOp
<1>8. CASE UNCHANGED vars
  BY <1>8 DEF vars, StepsOfOp
<1> QED BY <1>1, <1>2, <1>3, <1>4, <1>5, <1>6, <1>7, <1>8, <1>9 DEF Next, Put, Delete, Get

(***************************************************************************)
(* The files implement ObjectStore: each step is one of it, or none.       *)
(***************************************************************************)
LEMMA CallSeen ==
  ASSUME TypeOK, NEW p \in Proc
  PROVE  /\ Calls[p].op = call[p].op /\ Calls[p].key = call[p].key
         /\ Calls[p].write = call[p].write /\ Calls[p].previous = call[p].previous
         /\ Calls[p].read = call[p].read
         /\ Calls[p].answer = call[p].answer /\ Calls[p].step = StateOf[call[p].step]
BY DEF Calls, TypeOK

LEMMA GotoSeen ==
  ASSUME TypeOK, NEW p \in Proc, NEW step \in Steps, Goto(p, step)
  PROVE  Calls' = [Calls EXCEPT ![p].step = StateOf[step]]
BY DEF Goto, Calls, TypeOK

LEMMA GotoUnseen ==
  ASSUME TypeOK, NEW p \in Proc, NEW step \in Steps, Goto(p, step),
         StateOf[step] = StateOf[call[p].step]
  PROVE  Calls' = Calls
<1>1. ASSUME NEW q \in Proc
      PROVE  [call'[q] EXCEPT !.step = StateOf[call'[q].step]]
               = [call[q] EXCEPT !.step = StateOf[call[q].step]]
  <2>1. CASE q = p
    <3>1. call'[q] = [call[p] EXCEPT !.step = step]
      BY <2>1 DEF Goto, TypeOK
    <3>2. call[p] = [op |-> call[p].op, step |-> call[p].step, key |-> call[p].key,
                     write |-> call[p].write, previous |-> call[p].previous,
                     read |-> call[p].read, answer |-> call[p].answer]
      BY DEF TypeOK
    <3> QED BY <2>1, <3>1, <3>2
  <2>2. CASE q # p
    BY <2>2 DEF Goto, TypeOK
  <2> QED BY <2>1, <2>2
<1> QED BY <1>1 DEF Calls

LEMMA AnswerSeen ==
  ASSUME TypeOK, NEW p \in Proc, NEW answer \in Answers, Answer(p, answer)
  PROVE  Store!End(p, answer)
<1>1. StateOf["done"] = "done"
  BY DEF StateOf, Steps
<1> QED BY <1>1 DEF Store!End, Answer, Calls, TypeOK

LEMMA BeginSeen ==
  ASSUME TypeOK, NEW p \in Proc, NEW op, NEW k \in Key, NEW w \in Write \cup {NoWrite},
         NEW step \in {"data", "unlink", "open"}, Begin(p, op, k, w, step)
  PROVE  Calls[p].step \in {"idle", "done"} /\ Store!Begin(p, op, k, w)
<1>1. StateOf[step] = "begun" /\ StateOf["idle"] = "idle" /\ StateOf["done"] = "done"
  BY DEF StateOf, Steps
<1>2. Calls[p].step \in {"idle", "done"}
  BY <1>1, CallSeen DEF Begin
<1>a. PICK read \in {sidecar[k], NoWrite} :
        call' = [call EXCEPT ![p] =
          [op |-> op, step |-> step, key |-> k, write |-> w,
           previous |-> sidecar[k], read |-> read, answer |-> "none"]]
  BY DEF Begin
<1> DEFINE new == [op |-> op, step |-> step, key |-> k, write |-> w, previous |-> sidecar[k],
                   read |-> read, answer |-> "none"]
           seen == [op |-> op, step |-> "begun", key |-> k, write |-> w, previous |-> sidecar[k],
                    read |-> read, answer |-> "none"]
<1>3. [new EXCEPT !.step = StateOf[new.step]] = seen
  BY <1>1
<1>4. call' = [call EXCEPT ![p] = new]
  BY <1>a
<1> HIDE DEF new, seen
<1>5. Calls' = [Calls EXCEPT ![p] = seen]
  BY <1>3, <1>4 DEF Calls, TypeOK
<1> QED BY <1>2, <1>5 DEF Store!Begin, Begin, disk, seen

\* A sync makes what is visible last.
LEMMA SyncPersists == ASSUME Sync PROVE Store!Persist
BY DEF Sync, Store!Persist

LEMMA PutRefines ==
  ASSUME IInv, StepsOfOp, NEW p \in Proc, Put(p)
  PROVE  [Store!Next]_<<sidecar, maybe, Calls>>
<1>1. TypeOK
  BY DEF IInv
<1>2. /\ Calls[p].op = call[p].op /\ Calls[p].key = call[p].key
      /\ Calls[p].write = call[p].write /\ Calls[p].step = StateOf[call[p].step]
  BY <1>1, CallSeen
<1>3. /\ StateOf["data"] = "begun" /\ StateOf["syncData"] = "begun" /\ StateOf["sidecar"] = "begun"
      /\ StateOf["syncSidecar"] = "effective" /\ StateOf["reclaim"] = "settled"
  BY DEF StateOf, Steps
<1>4. ASSUME NEW k \in Key, NEW w \in Write, BeginPut(p, k, w)
      PROVE  Store!Next
  BY <1>1, <1>4, BeginSeen DEF BeginPut, Store!Next
<1>5. CASE WriteData(p)
  <2>1. Calls' = Calls
    BY <1>1, <1>3, <1>5, GotoUnseen DEF WriteData, At, Steps
  <2> QED BY <1>5, <2>1 DEF WriteData
<1>6. CASE SyncData(p)
  <2>1. Calls' = Calls
    BY <1>1, <1>3, <1>6, GotoUnseen DEF SyncData, At, Steps
  <2> QED BY <1>6, <2>1, SyncPersists DEF SyncData, Store!Next
<1>7. CASE PublishSidecar(p)
  <2>1. Calls' = [Calls EXCEPT ![p].step = "effective"]
    BY <1>1, <1>3, <1>7, GotoSeen DEF PublishSidecar, Steps
  <2>2. Calls[p].step = "begun" /\ Calls[p].op = "put"
    BY <1>2, <1>3, <1>7 DEF PublishSidecar, At, StepsOfOp
  <2>3. Store!Effect(p)
    BY <1>2, <1>7, <2>1, <2>2 DEF PublishSidecar, SetSidecar, Store!Effect
  <2> QED BY <2>3 DEF Store!Next
<1>8. CASE SyncSidecar(p)
  <2>1. Calls[p].step = "effective" /\ Calls[p].op = "put"
    BY <1>2, <1>3, <1>8 DEF SyncSidecar, At, StepsOfOp
  <2>2. Store!Persist
    BY <1>8, SyncPersists DEF SyncSidecar
  <2>3. CASE Answer(p, "written")
    <3>1. Store!End(p, "written")
      BY <1>1, <2>3, AnswerSeen DEF Answers
    <3> QED BY <2>1, <2>2, <3>1 DEF Store!Settle, Store!Answered, Store!Next
  <2>4. CASE Goto(p, "reclaim")
    <3>1. Calls' = [Calls EXCEPT ![p].step = "settled"]
      BY <1>1, <1>3, <2>4, GotoSeen DEF Steps
    <3> QED BY <2>1, <2>2, <3>1 DEF Store!Settle, Store!Next
  <2> QED BY <1>8, <2>3, <2>4 DEF SyncSidecar
<1>9. CASE Reclaim(p) \/ ReclaimFails(p)
  <2>1. Calls[p].step = "settled" /\ Calls[p].op = "put"
    BY <1>2, <1>3, <1>9 DEF Reclaim, ReclaimFails, At, StepsOfOp
  <2>2. Store!End(p, "written")
    BY <1>1, <1>9, AnswerSeen DEF Reclaim, ReclaimFails, Answers
  <2>3. UNCHANGED <<sidecar, maybe>>
    BY <1>9 DEF Reclaim, ReclaimFails, RemoveData, disk
  <2> QED BY <2>1, <2>2, <2>3 DEF Store!AnswerSettled, Store!Answered, Store!Next
<1> QED BY <1>4, <1>5, <1>6, <1>7, <1>8, <1>9 DEF Put

LEMMA DeleteRefines ==
  ASSUME IInv, StepsOfOp, NEW p \in Proc, Delete(p)
  PROVE  Store!Next
<1>1. TypeOK
  BY DEF IInv
<1>2. /\ Calls[p].op = call[p].op /\ Calls[p].key = call[p].key
      /\ Calls[p].write = call[p].write /\ Calls[p].step = StateOf[call[p].step]
  BY <1>1, CallSeen
<1>3. /\ StateOf["unlink"] = "begun" /\ StateOf["syncUnlink"] = "effective"
      /\ StateOf["remove"] = "settled"
  BY DEF StateOf, Steps
<1>4. ASSUME NEW k \in Key, BeginDelete(p, k)
      PROVE  Store!Next
  BY <1>1, <1>4, BeginSeen DEF BeginDelete, Store!Next
<1>5. CASE Unlink(p)
  <2>1. Calls' = [Calls EXCEPT ![p].step = "effective"]
    BY <1>1, <1>3, <1>5, GotoSeen DEF Unlink, Steps
  <2>2. Calls[p].step = "begun" /\ Calls[p].op = "delete" /\ Calls[p].write = NoWrite
    BY <1>2, <1>3, <1>5 DEF Unlink, At, StepsOfOp
  <2>3. Store!Effect(p)
    BY <1>2, <1>5, <2>1, <2>2 DEF Unlink, SetSidecar, Store!Effect
  <2> QED BY <2>3 DEF Store!Next
<1>6. CASE SyncUnlink(p)
  <2>1. Calls[p].step = "effective" /\ Calls[p].op = "delete"
    BY <1>2, <1>3, <1>6 DEF SyncUnlink, At, StepsOfOp
  <2>2. Store!Persist
    BY <1>6, SyncPersists DEF SyncUnlink
  <2>3. CASE Answer(p, "deleted")
    <3>1. Store!End(p, "deleted")
      BY <1>1, <2>3, AnswerSeen DEF Answers
    <3> QED BY <2>1, <2>2, <3>1 DEF Store!Settle, Store!Answered, Store!Next
  <2>4. CASE Goto(p, "remove")
    <3>1. Calls' = [Calls EXCEPT ![p].step = "settled"]
      BY <1>1, <1>3, <2>4, GotoSeen DEF Steps
    <3> QED BY <2>1, <2>2, <3>1 DEF Store!Settle, Store!Next
  <2> QED BY <1>6, <2>3, <2>4 DEF SyncUnlink
<1>7. CASE Remove(p)
  <2>1. Calls[p].step = "settled" /\ Calls[p].op = "delete"
    BY <1>2, <1>3, <1>7 DEF Remove, At, StepsOfOp
  <2>2. Store!End(p, "deleted")
    BY <1>1, <1>7, AnswerSeen DEF Remove, Answers
  <2>3. UNCHANGED <<sidecar, maybe>>
    BY <1>7 DEF Remove, RemoveData
  <2> QED BY <2>1, <2>2, <2>3 DEF Store!AnswerSettled, Store!Answered, Store!Next
<1> QED BY <1>4, <1>5, <1>6, <1>7 DEF Delete

\* A call whose steps are those of S.
CallIn(S) ==
  [op: {"none", "put", "get", "delete"}, step: S, key: Key \cup {NoKey},
   write: Write \cup {NoWrite}, previous: Write \cup {NoWrite},
   read: Write \cup {NoWrite}, answer: Answers]

\* A call in which a read has failed and that has ended, field by field.
LEMMA MisreadFields ==
  ASSUME NEW S, NEW c \in CallIn(S)
  PROVE  [c EXCEPT !.read = NoWrite, !.step = "done", !.answer = "absent"]
           = [op |-> c.op, step |-> "done", key |-> c.key, write |-> c.write,
              previous |-> c.previous, read |-> NoWrite, answer |-> "absent"]
<1> DEFINE read == [c EXCEPT !.read = NoWrite]
           done == [read EXCEPT !.step = "done"]
           answered == [done EXCEPT !.answer = "absent"]
<1>1. /\ read \in CallIn(S) /\ read.op = c.op /\ read.key = c.key /\ read.write = c.write
      /\ read.previous = c.previous /\ read.read = NoWrite
  BY DEF CallIn
<1> HIDE DEF read
<1>2. /\ done \in CallIn(S \cup {"done"}) /\ done.op = c.op /\ done.key = c.key
      /\ done.write = c.write /\ done.previous = c.previous /\ done.read = NoWrite
      /\ done.step = "done"
  BY <1>1 DEF CallIn
<1> HIDE DEF done
<1>3. /\ answered \in CallIn(S \cup {"done"}) /\ answered.op = c.op /\ answered.key = c.key
      /\ answered.write = c.write /\ answered.previous = c.previous
      /\ answered.read = NoWrite /\ answered.step = "done" /\ answered.answer = "absent"
  BY <1>2 DEF CallIn, Answers
<1> HIDE DEF answered
<1>4. answered = [op |-> c.op, step |-> "done", key |-> c.key, write |-> c.write,
                  previous |-> c.previous, read |-> NoWrite, answer |-> "absent"]
  BY <1>3 DEF CallIn
<1> USE DEF read, done, answered
<1>5. [c EXCEPT !.read = NoWrite, !.step = "done", !.answer = "absent"] = answered
  OBVIOUS
<1> HIDE DEF read, done, answered
<1> QED BY <1>4, <1>5

\* A failing second read, as the caller sees it.
LEMMA OpenFailsSeen ==
  ASSUME TypeOK, NEW p \in Proc, OpenFails(p)
  PROVE  Calls' = [Calls EXCEPT ![p] =
           [Calls[p] EXCEPT !.read = NoWrite, !.step = "done", !.answer = "absent"]]
<1> DEFINE c == call[p]
           new == [op |-> c.op, step |-> "done", key |-> c.key, write |-> c.write,
                   previous |-> c.previous, read |-> NoWrite, answer |-> "absent"]
<1>1. [c EXCEPT !.read = NoWrite, !.step = "done", !.answer = "absent"] = new
  <2>1. c \in CallIn(Steps)
    BY DEF TypeOK, CallIn
  <2> HIDE DEF c
  <2> QED BY <2>1, MisreadFields
<1>2. [Calls[p] EXCEPT !.read = NoWrite, !.step = "done", !.answer = "absent"] = new
  <2>1. Calls[p] \in CallIn({StateOf[c.step]})
    BY DEF Calls, TypeOK, CallIn
  <2>2. /\ Calls[p].op = c.op /\ Calls[p].key = c.key /\ Calls[p].write = c.write
        /\ Calls[p].previous = c.previous
    BY CallSeen
  <2> QED BY <2>1, <2>2, MisreadFields
<1>3. StateOf["done"] = "done"
  BY DEF StateOf, Steps
<1>4. [new EXCEPT !.step = StateOf[new.step]] = new
  BY <1>3
<1>5. call' = [call EXCEPT ![p] = new]
  BY <1>1 DEF OpenFails
<1> HIDE DEF new, c
<1>6. \A q \in Proc : call'[q] = IF q = p THEN new ELSE call[q]
  BY <1>5 DEF TypeOK
<1>7. \A q \in Proc : [call'[q] EXCEPT !.step = StateOf[call'[q].step]]
        = IF q = p THEN new ELSE [call[q] EXCEPT !.step = StateOf[call[q].step]]
  BY <1>4, <1>6
<1>8. Calls' = [Calls EXCEPT ![p] = new]
  BY <1>7 DEF Calls
<1> QED BY <1>2, <1>8

\* A get that reads a sidecar and finds no bytes finds them gone for good: every sidecar
\* that may survive names bytes that are there.
LEMMA GetRefines ==
  ASSUME IInv, StepsOfOp, NEW p \in Proc, Get(p)
  PROVE  Store!Next
<1>1. TypeOK
  BY DEF IInv
<1>2. /\ Calls[p].op = call[p].op /\ Calls[p].key = call[p].key
      /\ Calls[p].read = call[p].read /\ Calls[p].step = StateOf[call[p].step]
  BY <1>1, CallSeen
<1>3. ASSUME NEW k \in Key, BeginGet(p, k)
      PROVE  Store!Next
  BY <1>1, <1>3, BeginSeen DEF BeginGet, Store!Next
<1>4. CASE Open(p)
  <2>1. Calls[p].step = "begun" /\ Calls[p].op = "get" /\ call[p].key \in Key
    <3>1. StateOf["open"] = "begun"
      BY DEF StateOf, Steps
    <3> QED BY <1>2, <1>4, <3>1 DEF Open, At, StepsOfOp, IInv, KeyKnown
  <2>2. UNCHANGED <<sidecar, maybe>>
    BY <1>4 DEF Open, disk
  <2>3. CASE call[p].read \in data
    <3>1. Store!End(p, "found")
      BY <1>1, <1>4, <2>3, AnswerSeen DEF Open, Answers
    <3>2. call[p].read # NoWrite
      BY <1>1, <2>3, FileStoreAssumption DEF TypeOK
    <3> QED BY <1>2, <2>1, <2>2, <3>1, <3>2 DEF Store!AnswerGet, Store!Next
  <2>4. CASE call[p].read \notin data
    <3>1. Store!End(p, "absent")
      BY <1>1, <1>4, <2>4, AnswerSeen DEF Open, Answers
    <3>2. call[p].read # NoWrite => call[p].read \notin maybe[call[p].key]
      BY <2>1, <2>4 DEF IInv, SafeData
    <3> QED BY <1>2, <2>1, <2>2, <3>1, <3>2 DEF Store!AnswerGet, Store!Next
  <2> QED BY <2>3, <2>4
<1>5. CASE OpenFails(p)
  <2>1. Calls[p].step = "begun" /\ Calls[p].op = "get" /\ Calls[p].read # NoWrite
    <3>1. StateOf["open"] = "begun"
      BY DEF StateOf, Steps
    <3> QED BY <1>2, <1>5, <3>1 DEF OpenFails, At, StepsOfOp
  <2>2. UNCHANGED <<sidecar, maybe>>
    BY <1>5 DEF OpenFails, disk
  <2>3. Calls' = [Calls EXCEPT ![p] =
          [Calls[p] EXCEPT !.read = NoWrite, !.step = "done", !.answer = "absent"]]
    BY <1>1, <1>5, OpenFailsSeen
  <2> QED BY <2>1, <2>2, <2>3 DEF Store!Misread, Store!Next
<1> QED BY <1>3, <1>4, <1>5 DEF Get

LEMMA ErrorRefines ==
  ASSUME IInv, StepsOfOp, NEW p \in Proc, Error(p)
  PROVE  Store!Next
<1>1. TypeOK
  BY DEF IInv
<1>2. Calls[p].op = call[p].op /\ Calls[p].step = StateOf[call[p].step]
  BY <1>1, CallSeen
<1>3. call[p].step \in {"data", "syncData", "sidecar", "syncSidecar", "unlink", "syncUnlink", "remove"}
  BY <1>1 DEF Error, TypeOK, Steps
<1>4. \A step \in {"data", "syncData", "sidecar", "syncSidecar", "unlink", "syncUnlink", "remove"} :
        StateOf[step] \in {"begun", "effective", "settled"}
  BY DEF StateOf, Steps
<1>5. Calls[p].step \in {"begun", "effective", "settled"}
  BY <1>2, <1>3, <1>4
<1>6. Calls[p].op \in {"put", "delete"}
  BY <1>2, <1>3 DEF StepsOfOp
<1>7. Store!End(p, "error") /\ UNCHANGED <<sidecar, maybe>>
  BY <1>1, AnswerSeen DEF Error, Answers, disk
<1> QED BY <1>5, <1>6, <1>7 DEF Store!Fail, Store!Next

LEMMA CrashRefines == ASSUME Crash PROVE Store!Crash
<1>1. StateOf["idle"] = "idle"
  BY DEF StateOf, Steps
<1>2. [Idle EXCEPT !.step = StateOf[Idle.step]] = Store!Idle
  BY <1>1 DEF Idle, Store!Idle
<1>3. Calls' = [p \in Proc |-> Store!Idle]
  BY <1>2 DEF Crash, Calls
<1> QED BY <1>3 DEF Crash, Store!Crash

LEMMA InitRefines == Init => Store!Init
<1> SUFFICES ASSUME Init PROVE Store!Init
  OBVIOUS
<1>1. StateOf["idle"] = "idle"
  BY DEF StateOf, Steps
<1>2. [Idle EXCEPT !.step = StateOf[Idle.step]] = Store!Idle
  BY <1>1 DEF Idle, Store!Idle
<1>3. Calls = [p \in Proc |-> Store!Idle]
  BY <1>2 DEF Init, Calls
<1> QED BY <1>3 DEF Init, Store!Init

LEMMA StepRefines == IInv /\ StepsOfOp /\ [Next]_vars => [Store!Next]_<<sidecar, maybe, Calls>>
<1> SUFFICES ASSUME IInv, StepsOfOp, [Next]_vars PROVE [Store!Next]_<<sidecar, maybe, Calls>>
  OBVIOUS
<1>1. CASE Crash
  BY <1>1, CrashRefines DEF Store!Next
<1>2. CASE UNCHANGED vars
  BY <1>2 DEF vars, Calls
<1>3. ASSUME NEW p \in Proc, Put(p) \/ Delete(p) \/ Get(p) \/ Error(p)
      PROVE  [Store!Next]_<<sidecar, maybe, Calls>>
  BY <1>3, PutRefines, DeleteRefines, GetRefines, ErrorRefines
<1> QED BY <1>1, <1>2, <1>3 DEF Next

\* Two files and a directory to sync implement one object that is replaced at once
\* and lasts once a call is answered.
THEOREM Refinement == Spec => ImplementsStore
<1>1. Spec => []StepsOfOp
  <2>1. Init => StepsOfOp
    BY StepsOfOpInit
  <2>2. IInv => TypeOK
    BY DEF IInv
  <2> QED BY <2>1, <2>2, StepsOfOpNext, Invariant, PTL DEF Spec
<1> QED BY <1>1, InitRefines, StepRefines, Invariant, PTL DEF Spec, ImplementsStore, Store!Spec
=============================================================================
