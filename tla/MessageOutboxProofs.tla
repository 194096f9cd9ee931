------------------------ MODULE MessageOutboxProofs ------------------------
(***************************************************************************)
(* Proofs about MessageOutbox and OutboxCancellation, for every number of  *)
(* messages, dispatchers and attempts and for every choice of the timings. *)
(***************************************************************************)
EXTENDS OutboxCancellation, TLAPS

\* The CHECK constraint on the shape of a row: exactly the leased rows carry a
\* token and each of them has used an attempt.  No UPDATE ever fails on it.
RowShape ==
  \A m \in Message :
    /\ outbox[m].state = "leased" <=> outbox[m].token # NoToken
    /\ outbox[m].state \in {"leased", "delivered", "failed"}
         => outbox[m].attempts >= 1

\* A token names one lease: two runs never hold the same one, and a row that
\* carries a run's token is the row that run leased.
TokenNamesOneLease ==
  /\ \A v, w \in Worker :
       worker[v].token = worker[w].token /\ worker[v].token # NoToken => v = w
  /\ \A w \in Worker, m \in Message :
       worker[w].token = outbox[m].token /\ worker[w].token # NoToken
         => m = worker[w].msg

\* A run holds a message and a token exactly in the phases in which it works on
\* a row it leased; it comes out of a provider call with a result; and a row it
\* is about to give back as canceled stays canceled as long as it owns it.
RunShape ==
  \A w \in Worker :
    /\ worker[w].phase \in Holding <=> worker[w].msg # NoMessage
    /\ worker[w].phase \in Holding <=> worker[w].token # NoToken
    /\ worker[w].phase = "record" => worker[w].result # "none"
    /\ worker[w].phase = "release" /\ Owns(w) => Canceled(outbox[worker[w].msg])

\* The inductive invariant.  TypeOK alone is not inductive: that attempt_count
\* stays within its range rests on QueuedHasBudget at the lease, and that on the
\* count read before a send still being the row's (AttemptsReadAreCurrent).
OutboxInv ==
  /\ TypeOK
  /\ RowShape
  /\ QueuedHasBudget
  /\ RunShape
  /\ TokenNamesOneLease
  /\ AttemptsReadAreCurrent
-----------------------------------------------------------------------------
(***************************************************************************)
(* Lemmas on the operators.                                                *)
(***************************************************************************)

LEMMA AfterType == ASSUME NEW t \in Times, NEW d \in Nat PROVE After(t, d) \in Times
  BY OutboxAssumption DEF After, Times

LEMMA LaterType == ASSUME NEW t \in Times, NEW u \in Times PROVE Later(t, u) \in Times
  BY OutboxAssumption DEF Later, Times

LEMMA RefundedType ==
  ASSUME NEW n \in 0 .. MaxAttempts
  PROVE  /\ Refunded(n) \in 0 .. MaxAttempts
         /\ n >= 1 => Refunded(n) = n - 1 /\ Refunded(n) < MaxAttempts
  BY OutboxAssumption DEF Refunded

LEMMA AbsentRowType == AbsentRow \in Rows
  BY OutboxAssumption DEF AbsentRow, Rows, RowStates, Times, Never, CancellationCodes

LEMMA RunAtType ==
  ASSUME NEW phase \in Phases, NEW now \in Times, NEW batch \in SUBSET Message
  PROVE  RunAt(phase, now, batch) \in Runs
<1>1. 0 \in 0 .. MaxAttempts
  BY OutboxAssumption
<1>2. QED
  BY <1>1 DEF RunAt, Runs, Results

LEMMA NoRunType == NoRun \in Runs
<1>1. "idle" \in Phases /\ 0 \in Times /\ {} \in SUBSET Message
  BY OutboxAssumption DEF Phases, Times
<1>2. QED
  BY <1>1, RunAtType DEF NoRun

\* A run that goes on to the rest of its batch has let go of message and token.
LEMMA RunOnType ==
  ASSUME NEW now \in Times, NEW rest \in SUBSET Message
  PROVE  /\ RunOn(now, rest) \in Runs
         /\ RunOn(now, rest).phase \in {"idle", "lease"}
         /\ RunOn(now, rest).msg = NoMessage
         /\ RunOn(now, rest).token = NoToken
         /\ RunOn(now, rest).now \in {0, now}
<1>1. CASE rest = {}
  BY <1>1, NoRunType DEF RunOn, NoRun, RunAt
<1>2. CASE rest # {}
  BY <1>2, RunAtType DEF RunOn, RunAt, Phases
<1>3. QED
  BY <1>1, <1>2
-----------------------------------------------------------------------------
(***************************************************************************)
(* The inductive invariant.                                                *)
(***************************************************************************)

LEMMA InitInv == Init => OutboxInv
<1> SUFFICES ASSUME Init PROVE OutboxInv
  OBVIOUS
<1>1. TypeOK
  <2>1. 0 \in Times
    BY OutboxAssumption DEF Times
  <2>2. \A w \in Worker : worker[w].now <= clock
    BY DEF Init, NoRun, RunAt
  <2>3. QED
    BY <2>1, <2>2, AbsentRowType, NoRunType DEF Init, TypeOK, Histories
<1>2. RowShape /\ QueuedHasBudget
  BY DEF Init, RowShape, QueuedHasBudget, AbsentRow
<1>3. RunShape /\ TokenNamesOneLease /\ AttemptsReadAreCurrent
  BY DEF Init, RunShape, TokenNamesOneLease, AttemptsReadAreCurrent, Holding, NoRun, RunAt
<1>4. QED
  BY <1>1, <1>2, <1>3 DEF OutboxInv

\* What a step other than a lease may do to a row: it keeps the lease and all
\* that depends on it, or it leaves the row well-formed and without a lease.
RowFits(m) ==
  /\ outbox'[m].state = "leased" <=> outbox'[m].token # NoToken
  /\ outbox'[m].state \in {"leased", "delivered", "failed"}
       => outbox'[m].attempts >= 1
  /\ outbox'[m].state = "queued" => outbox'[m].attempts < MaxAttempts
  /\ outbox'[m].token # NoToken =>
       /\ outbox'[m].token = outbox[m].token
       /\ outbox'[m].attempts = outbox[m].attempts
       /\ Canceled(outbox[m]) => Canceled(outbox'[m])

\* ... and to a run: it never takes a token or changes the one it holds.
RunFits(w) ==
  /\ worker'[w].now <= clock'
  /\ worker'[w].phase \in Holding <=> worker'[w].msg # NoMessage
  /\ worker'[w].phase \in Holding <=> worker'[w].token # NoToken
  /\ worker'[w].phase = "record" => worker'[w].result # "none"
  /\ worker'[w].token # NoToken =>
       /\ worker'[w].token = worker[w].token
       /\ worker'[w].msg = worker[w].msg
  /\ worker'[w].phase \in {"send", "record"} /\ Owns(w)
       => worker'[w].attempts = outbox[worker[w].msg].attempts
  /\ worker'[w].phase = "release" /\ Owns(w) => Canceled(outbox[worker[w].msg])

TypesFit ==
  /\ clock' \in Times
  /\ outbox' \in [Message -> Rows]
  /\ worker' \in [Worker -> Runs]
  /\ history' \in [Message -> Histories]

\* Every step that fits preserves the invariant.
LEMMA StepInv ==
  ASSUME OutboxInv, TypesFit,
         \A m \in Message : RowFits(m), \A w \in Worker : RunFits(w)
  PROVE  OutboxInv'
<1>1. TypeOK'
  BY DEF TypesFit, RunFits, TypeOK
<1>2. RowShape' /\ QueuedHasBudget'
  BY DEF RowFits, RowShape, QueuedHasBudget
<1>3. ASSUME NEW w \in Worker, Owns(w)'
      PROVE  Owns(w) /\ worker'[w].msg \in Message /\ worker'[w].msg = worker[w].msg
  <2>1. worker'[w].msg \in Message
    BY <1>3 DEF Owns, TypesFit, Runs
  <2>2. outbox'[worker'[w].msg].token # NoToken
    BY <1>3, <2>1 DEF RowFits, Owns
  <2>3. outbox'[worker'[w].msg].token = outbox[worker'[w].msg].token
    BY <2>1, <2>2 DEF RowFits
  <2>4. worker'[w].token = worker[w].token /\ worker'[w].msg = worker[w].msg
    BY <1>3, <2>2 DEF RunFits, Owns
  <2>5. outbox[worker[w].msg].state = "leased"
    BY <2>1, <2>2, <2>3, <2>4 DEF OutboxInv, RowShape
  <2>6. QED
    BY <1>3, <2>1, <2>3, <2>4, <2>5 DEF Owns
<1>4. RunShape'
  <2> SUFFICES ASSUME NEW w \in Worker
               PROVE  (/\ worker[w].phase \in Holding <=> worker[w].msg # NoMessage
                       /\ worker[w].phase \in Holding <=> worker[w].token # NoToken
                       /\ worker[w].phase = "record" => worker[w].result # "none"
                       /\ worker[w].phase = "release" /\ Owns(w)
                            => Canceled(outbox[worker[w].msg]))'
    BY DEF RunShape
  <2>1. ASSUME worker'[w].phase = "release", Owns(w)'
        PROVE  Canceled(outbox'[worker'[w].msg])
    <3>1. Canceled(outbox[worker[w].msg])
      BY <1>3, <2>1 DEF RunFits
    <3>2. outbox'[worker'[w].msg].token # NoToken
      BY <1>3, <2>1 DEF RowFits, Owns
    <3>3. QED
      BY <1>3, <2>1, <3>1, <3>2 DEF RowFits
  <2>2. QED
    BY <2>1 DEF RunFits, Canceled
<1>5. TokenNamesOneLease'
  <2>1. ASSUME NEW v \in Worker, NEW w \in Worker,
               worker'[v].token = worker'[w].token, worker'[v].token # NoToken
        PROVE  v = w
    BY <2>1 DEF RunFits, OutboxInv, TokenNamesOneLease
  <2>2. ASSUME NEW w \in Worker, NEW m \in Message,
               worker'[w].token = outbox'[m].token, worker'[w].token # NoToken
        PROVE  m = worker'[w].msg
    BY <2>2 DEF RunFits, RowFits, OutboxInv, TokenNamesOneLease
  <2>3. QED
    BY <2>1, <2>2 DEF TokenNamesOneLease
<1>6. AttemptsReadAreCurrent'
  <2> SUFFICES ASSUME NEW w \in Worker, worker'[w].phase \in {"send", "record"},
                      Owns(w)'
               PROVE  worker'[w].attempts = outbox'[worker'[w].msg].attempts
    BY DEF AttemptsReadAreCurrent
  <2>1. outbox'[worker'[w].msg].token # NoToken
    BY <1>3 DEF RowFits, Owns
  <2>2. QED
    BY <1>3, <2>1 DEF RunFits, RowFits
<1>7. QED
  BY <1>1, <1>2, <1>4, <1>5, <1>6 DEF OutboxInv

\* What a step leaves alone fits.
LEMMA SameRowFits ==
  ASSUME OutboxInv, NEW m \in Message, outbox'[m] = outbox[m]
  PROVE  RowFits(m)
  BY DEF OutboxInv, RowShape, QueuedHasBudget, RowFits

LEMMA SameRunFits ==
  ASSUME OutboxInv, clock' \in Times, clock' >= clock,
         NEW w \in Worker, worker'[w] = worker[w]
  PROVE  RunFits(w)
<1>1. worker[w].now \in Nat /\ clock \in Nat /\ clock' \in Nat
  BY OutboxAssumption DEF OutboxInv, TypeOK, Runs, Times
<1>2. worker'[w].now <= clock'
  BY <1>1 DEF OutboxInv, TypeOK
<1>3. QED
  BY <1>2 DEF OutboxInv, RunShape, AttemptsReadAreCurrent, RunFits
-----------------------------------------------------------------------------
(***************************************************************************)
(* The steps of the environment.                                           *)
(***************************************************************************)

\* Whoever inserts a row, at whatever instant it counts from.
LEMMA InsertInv ==
  ASSUME OutboxInv, NEW m \in Message, NEW now \in Times, NEW expires \in 0 .. Never,
         outbox' = [outbox EXCEPT ![m] = QueuedRow(now, expires)],
         UNCHANGED <<clock, worker, history>>
  PROVE  OutboxInv'
<1>1. QueuedRow(now, expires) \in Rows
  BY OutboxAssumption DEF Rows, RowStates, Times, QueuedRow
<1>2. TypesFit
  BY <1>1 DEF TypesFit, OutboxInv, TypeOK
<1>3. ASSUME NEW n \in Message PROVE RowFits(n)
  <2>1. CASE n = m
    BY <2>1, OutboxAssumption DEF OutboxInv, TypeOK, RowFits, QueuedRow
  <2>2. CASE n # m
    BY <2>2, SameRowFits DEF OutboxInv, TypeOK
  <2>3. QED
    BY <2>1, <2>2
<1>4. ASSUME NEW w \in Worker PROVE RunFits(w)
  BY SameRunFits, OutboxAssumption DEF OutboxInv, TypeOK, Times
<1>5. QED
  BY <1>2, <1>3, <1>4, StepInv

LEMMA EnqueueInv ==
  ASSUME OutboxInv, NEW m \in Message, Enqueue(m)
  PROVE  OutboxInv'
<1>1. PICK expires \in {After(clock, Lifetime), Never} :
        outbox' = [outbox EXCEPT ![m] = QueuedRow(clock, expires)]
  BY DEF Enqueue
<1>2. clock \in Times /\ After(clock, Lifetime) \in Times
  BY AfterType, OutboxAssumption DEF OutboxInv, TypeOK
<1>3. expires \in 0 .. Never
  BY <1>2, OutboxAssumption DEF Times, Never
<1>4. QED
  BY <1>1, <1>2, <1>3, InsertInv DEF Enqueue

LEMMA CancelInv ==
  ASSUME OutboxInv, NEW m \in Message, NEW code \in CancellationCodes, Cancel(m, code)
  PROVE  OutboxInv'
<1> DEFINE row == [outbox[m] EXCEPT !.cancellation = code,
                                    !.updated = Later(outbox[m].updated, clock)]
<1>1. outbox' = [outbox EXCEPT ![m] = row]
  BY DEF Cancel, OutboxInv, TypeOK
<1>2. outbox[m] \in Rows /\ outbox[m].updated \in Times /\ clock \in Times
  BY DEF OutboxInv, TypeOK, Rows
<1>3. row \in Rows
  BY <1>2, LaterType DEF Rows
<1>4. UNCHANGED <<clock, worker, history>>
  BY DEF Cancel
<1>5. TypesFit
  BY <1>1, <1>3, <1>4 DEF TypesFit, OutboxInv, TypeOK
<1>6. ASSUME NEW n \in Message PROVE RowFits(n)
  <2>1. CASE n = m
    BY <1>1, <1>2, <2>1
    DEF OutboxInv, TypeOK, RowShape, QueuedHasBudget, RowFits, Canceled,
        CancellationCodes, Rows
  <2>2. CASE n # m
    BY <1>1, <2>2, SameRowFits DEF OutboxInv, TypeOK
  <2>3. QED
    BY <2>1, <2>2
<1>7. ASSUME NEW w \in Worker PROVE RunFits(w)
  BY <1>2, <1>4, SameRunFits, OutboxAssumption DEF Times
<1>8. QED
  BY <1>5, <1>6, <1>7, StepInv

LEMMA PurgeInv ==
  ASSUME OutboxInv, NEW m \in Message, Purge(m)
  PROVE  OutboxInv'
<1>1. outbox' = [outbox EXCEPT ![m] = AbsentRow] /\ UNCHANGED <<clock, worker>>
  BY DEF Purge
<1>2. history' \in [Message -> Histories]
  BY DEF Purge, OutboxInv, TypeOK, Histories
<1>3. TypesFit
  BY <1>1, <1>2, AbsentRowType DEF TypesFit, OutboxInv, TypeOK
<1>4. ASSUME NEW n \in Message PROVE RowFits(n)
  <2>1. CASE n = m
    BY <1>1, <2>1 DEF OutboxInv, TypeOK, RowFits, AbsentRow
  <2>2. CASE n # m
    BY <1>1, <2>2, SameRowFits DEF OutboxInv, TypeOK
  <2>3. QED
    BY <2>1, <2>2
<1>5. ASSUME NEW w \in Worker PROVE RunFits(w)
  BY <1>1, SameRunFits, OutboxAssumption DEF OutboxInv, TypeOK, Times
<1>6. QED
  BY <1>3, <1>4, <1>5, StepInv

LEMMA TickInv ==
  ASSUME OutboxInv, Tick
  PROVE  OutboxInv'
<1>1. clock' \in Times /\ clock' >= clock
  BY OutboxAssumption DEF Tick, OutboxInv, TypeOK, Times
<1>2. UNCHANGED <<outbox, worker, history>>
  BY DEF Tick
<1>3. TypesFit
  BY <1>1, <1>2 DEF TypesFit, OutboxInv, TypeOK
<1>4. \A n \in Message : RowFits(n)
  BY <1>2, SameRowFits
<1>5. \A w \in Worker : RunFits(w)
  BY <1>1, <1>2, SameRunFits
<1>6. QED
  BY <1>3, <1>4, <1>5, StepInv
-----------------------------------------------------------------------------
(***************************************************************************)
(* The steps of a run that leave every row alone.                          *)
(***************************************************************************)

\* It is enough that the one run that moves fits.
LEMMA RunMovesInv ==
  ASSUME OutboxInv, NEW w \in Worker, NEW run \in Runs,
         worker' = [worker EXCEPT ![w] = run], UNCHANGED <<clock, outbox>>,
         history' \in [Message -> Histories], RunFits(w)
  PROVE  OutboxInv'
<1>1. clock \in Times /\ clock >= clock
  BY OutboxAssumption DEF OutboxInv, TypeOK, Times
<1>2. TypesFit
  BY DEF TypesFit, OutboxInv, TypeOK
<1>3. \A n \in Message : RowFits(n)
  BY SameRowFits
<1>4. ASSUME NEW v \in Worker PROVE RunFits(v)
  <2>1. CASE v # w
    BY <1>1, <2>1, SameRunFits DEF OutboxInv, TypeOK
  <2>2. QED
    BY <2>1
<1>5. QED
  BY <1>2, <1>3, <1>4, StepInv

\* A run that goes on to another candidate, or ends, always fits.
LEMMA RunOnFits ==
  ASSUME OutboxInv, NEW w \in Worker, NEW rest \in SUBSET Message,
         worker'[w] = RunOn(worker[w].now, rest), clock' = clock
  PROVE  RunOn(worker[w].now, rest) \in Runs /\ RunFits(w)
<1>1. worker[w].now \in Times /\ clock \in Times /\ worker[w].now <= clock
  BY DEF OutboxInv, TypeOK, Runs
<1>2. RunOn(worker[w].now, rest) \in Runs
  BY <1>1, RunOnType
<1>3. RunOn(worker[w].now, rest).now <= clock
  BY <1>1, RunOnType, OutboxAssumption DEF Times
<1>4. QED
  BY <1>1, <1>2, <1>3, RunOnType DEF RunFits, Holding

LEMMA RunOnInv ==
  ASSUME OutboxInv, NEW w \in Worker, NEW rest \in SUBSET Message,
         worker' = [worker EXCEPT ![w] = RunOn(worker[w].now, rest)],
         UNCHANGED <<clock, outbox, history>>
  PROVE  OutboxInv'
<1>1. worker'[w] = RunOn(worker[w].now, rest)
  BY DEF OutboxInv, TypeOK
<1>2. RunOn(worker[w].now, rest) \in Runs /\ RunFits(w)
  BY <1>1, RunOnFits
<1>3. history' \in [Message -> Histories]
  BY DEF OutboxInv, TypeOK
<1>4. QED
  BY <1>2, <1>3, RunMovesInv

\* A run that ends before its time: RunOn with nothing left to do.
LEMMA RunEndsInv ==
  ASSUME OutboxInv, NEW w \in Worker, worker' = [worker EXCEPT ![w] = NoRun],
         UNCHANGED <<clock, outbox, history>>
  PROVE  OutboxInv'
<1>1. RunOn(worker[w].now, {}) = NoRun
  BY DEF RunOn
<1>2. worker' = [worker EXCEPT ![w] = RunOn(worker[w].now, {})]
  BY <1>1
<1>3. {} \in SUBSET Message
  OBVIOUS
<1>4. QED
  BY <1>2, <1>3, RunOnInv

\* A run that begins may be told an instant that has passed.
LEMMA BeginsInv ==
  ASSUME OutboxInv, NEW w \in Worker, NEW now \in Times, now <= clock,
         worker' = [worker EXCEPT ![w] = RunAt("recover", now, {})],
         UNCHANGED <<clock, outbox, history>>
  PROVE  OutboxInv'
<1> DEFINE run == RunAt("recover", now, {})
<1>1. run \in Runs
  <2>1. "recover" \in Phases /\ {} \in SUBSET Message
    BY DEF Phases
  <2>2. QED
    BY <2>1, RunAtType
<1>2. worker'[w] = run
  BY DEF OutboxInv, TypeOK
<1>3. RunFits(w)
  BY <1>2 DEF RunAt, RunFits, Holding
<1>4. QED
  BY <1>1, <1>3, RunMovesInv DEF OutboxInv, TypeOK

LEMMA StartRunInv ==
  ASSUME OutboxInv, NEW w \in Worker, StartRun(w)
  PROVE  OutboxInv'
<1>1. clock \in Times /\ clock <= clock
  BY OutboxAssumption DEF OutboxInv, TypeOK, Times
<1>2. QED
  BY <1>1, BeginsInv DEF StartRun

LEMMA SelectBatchInv ==
  ASSUME OutboxInv, NEW w \in Worker, SelectBatch(w)
  PROVE  OutboxInv'
<1>1. PICK batch \in SUBSET Candidates(worker[w].now) :
        worker' = [worker EXCEPT ![w] = RunOn(worker[w].now, batch)]
  BY Zenon DEF SelectBatch
<1>2. batch \in SUBSET Message
  BY DEF Candidates
<1>3. QED
  BY <1>1, <1>2, RunOnInv DEF SelectBatch

LEMMA SkipCandidateInv ==
  ASSUME OutboxInv, NEW w \in Worker, NEW m \in Message, SkipCandidate(w, m)
  PROVE  OutboxInv'
<1>1. worker[w].batch \ {m} \in SUBSET Message
  BY DEF OutboxInv, TypeOK, Runs
<1>2. worker' = [worker EXCEPT ![w] = RunOn(worker[w].now, worker[w].batch \ {m})]
  BY DEF SkipCandidate, OutboxInv, TypeOK
<1>3. QED
  BY <1>1, <1>2, RunOnInv DEF SkipCandidate

LEMMA ReadRowInv ==
  ASSUME OutboxInv, NEW w \in Worker, ReadRow(w)
  PROVE  OutboxInv'
<1> DEFINE run == worker[w]
           row == outbox[run.msg]
           sending == [run EXCEPT !.phase = "send", !.attempts = row.attempts]
           releasing == [run EXCEPT !.phase = "release"]
<1>1. run \in Runs /\ run.phase = "read" /\ run.msg \in Message /\ run.token # NoToken
  BY DEF ReadRow, OutboxInv, TypeOK, RunShape, Holding, Runs
<1>2. row \in Rows /\ row.attempts \in 0 .. MaxAttempts
  BY <1>1 DEF OutboxInv, TypeOK, Rows
<1>3. UNCHANGED <<clock, outbox, history>>
  BY DEF ReadRow
<1>4. run.batch \in SUBSET Message
  BY <1>1 DEF Runs
<1>5. CASE row.state = "absent"
  <2>1. worker' = [worker EXCEPT ![w] = RunOn(run.now, run.batch)]
    BY <1>5 DEF ReadRow
  <2>2. QED
    BY <1>3, <1>4, <2>1, RunOnInv
<1>6. CASE row.state # "absent" /\ Canceled(row)
  <2>1. worker' = [worker EXCEPT ![w] = releasing] /\ worker'[w] = releasing
    BY <1>6 DEF ReadRow, OutboxInv, TypeOK
  <2>2. releasing \in Runs
    BY <1>1 DEF Runs, Phases
  <2>3. /\ releasing.phase = "release"
        /\ releasing.now = run.now /\ releasing.msg = run.msg
        /\ releasing.token = run.token
    BY <1>1 DEF Runs
  <2>4. run.now <= clock /\ run.msg # NoMessage
    BY <1>1, OutboxAssumption DEF OutboxInv, TypeOK
  <2>5. RunFits(w)
    BY <1>1, <1>3, <1>6, <2>1, <2>3, <2>4 DEF RunFits, Holding
  <2>6. QED
    BY <1>3, <2>1, <2>2, <2>5, RunMovesInv DEF OutboxInv, TypeOK
<1>7. CASE row.state # "absent" /\ ~ Canceled(row)
  <2>1. worker' = [worker EXCEPT ![w] = sending] /\ worker'[w] = sending
    BY <1>7 DEF ReadRow, OutboxInv, TypeOK
  <2>2. sending \in Runs
    BY <1>1, <1>2 DEF Runs, Phases
  <2>3. /\ sending.phase = "send" /\ sending.attempts = row.attempts
        /\ sending.now = run.now /\ sending.msg = run.msg /\ sending.token = run.token
    BY <1>1 DEF Runs
  <2>4. run.now <= clock /\ run.msg # NoMessage
    BY <1>1, OutboxAssumption DEF OutboxInv, TypeOK
  <2>5. RunFits(w)
    BY <1>1, <1>3, <2>1, <2>3, <2>4 DEF RunFits, Holding
  <2>6. QED
    BY <1>3, <2>1, <2>2, <2>5, RunMovesInv DEF OutboxInv, TypeOK
<1>8. QED
  BY <1>5, <1>6, <1>7

LEMMA SendInv ==
  ASSUME OutboxInv, NEW w \in Worker, NEW result \in Results \ {"none"},
         NEW accepted \in BOOLEAN, Send(w, result, accepted)
  PROVE  OutboxInv'
<1> DEFINE run == [worker[w] EXCEPT !.phase = "record", !.result = result]
<1>1. worker' = [worker EXCEPT ![w] = run] /\ worker'[w] = run
  BY DEF Send, OutboxInv, TypeOK
<1>2. worker[w] \in Runs /\ worker[w].phase = "send" /\ worker[w].msg \in Message
  BY DEF Send, OutboxInv, TypeOK, RunShape, Holding, Runs
<1>3. run \in Runs
  BY <1>2 DEF Runs, Phases
<1>4. UNCHANGED <<clock, outbox>>
  BY DEF Send
<1>5. history' \in [Message -> Histories]
  <2> DEFINE past == history[worker[w].msg]
             count == IF accepted /\ past.accepts < 2 THEN past.accepts + 1
                                                       ELSE past.accepts
             excuse == past.excused \/ (accepted /\ result # "ok")
  <2>1. past.accepts \in 0 .. 2 /\ past.excused \in BOOLEAN
    BY <1>2 DEF OutboxInv, TypeOK, Histories
  <2>2. count \in 0 .. 2 /\ excuse \in BOOLEAN
    BY <2>1
  <2>3. [accepts |-> count, excused |-> excuse] \in Histories
    BY <2>2 DEF Histories
  <2>4. history' = [history EXCEPT ![worker[w].msg] =
                      [accepts |-> count, excused |-> excuse]]
    BY <1>2 DEF Send, OutboxInv, TypeOK
  <2>5. QED
    BY <2>3, <2>4 DEF OutboxInv, TypeOK
<1>6. RunFits(w)
  BY <1>1, <1>2, <1>4
  DEF OutboxInv, TypeOK, RunShape, AttemptsReadAreCurrent, RunFits, Holding, Runs
<1>7. QED
  BY <1>1, <1>3, <1>4, <1>5, <1>6, RunMovesInv
-----------------------------------------------------------------------------
(***************************************************************************)
(* The sweeps.                                                             *)
(***************************************************************************)

\* Moving on from one sweep to the next.
LEMMA SweepRunFits ==
  ASSUME OutboxInv, NEW w \in Worker, clock' = clock,
         worker[w].phase \in {"recover", "exhaust", "expire"},
         NEW next \in {"exhaust", "expire", "select"},
         worker' = [worker EXCEPT ![w].phase = next]
  PROVE  /\ worker' \in [Worker -> Runs]
         /\ \A v \in Worker : RunFits(v)
<1> DEFINE run == [worker[w] EXCEPT !.phase = next]
<1>1. worker' = [worker EXCEPT ![w] = run] /\ worker'[w] = run
  BY DEF OutboxInv, TypeOK
<1>2. run \in Runs
  BY DEF OutboxInv, TypeOK, Runs, Phases
<1>3. ASSUME NEW v \in Worker PROVE RunFits(v)
  <2>1. CASE v = w
    BY <1>1, <2>1 DEF OutboxInv, TypeOK, RunShape, RunFits, Holding, Runs
  <2>2. CASE v # w
    BY <1>1, <2>2, SameRunFits, OutboxAssumption DEF OutboxInv, TypeOK, Times
  <2>3. QED
    BY <2>1, <2>2
<1>4. QED
  BY <1>1, <1>2, <1>3 DEF OutboxInv, TypeOK

LEMMA ReleasedType ==
  ASSUME NEW row \in Rows, NEW state \in RowStates, NEW attempts \in 0 .. MaxAttempts,
         NEW nextAttempt \in Times, NEW updated \in Times
  PROVE  /\ Released(row, state, attempts, nextAttempt, updated) \in Rows
         /\ Released(row, state, attempts, nextAttempt, updated).state = state
         /\ Released(row, state, attempts, nextAttempt, updated).attempts = attempts
         /\ Released(row, state, attempts, nextAttempt, updated).token = NoToken
         /\ Released(row, state, attempts, nextAttempt, updated).cancellation
              = row.cancellation
<1>1. 0 \in Times
  BY OutboxAssumption DEF Times
<1>2. QED
  BY <1>1 DEF Released, Rows

LEMMA RecoverExpiredLeasesInv ==
  ASSUME OutboxInv, NEW w \in Worker, RecoverExpiredLeases(w)
  PROVE  OutboxInv'
<1> DEFINE now == worker[w].now
           recovered == {m \in Overdue(w) : outbox[m].attempts < MaxAttempts}
           wait(m) == After(now, Backoff(outbox[m].attempts))
           row(m) == Released(outbox[m], "queued", outbox[m].attempts, wait(m), now)
<1>1. now \in Times
  BY DEF OutboxInv, TypeOK, Runs
<1>2. ASSUME NEW m \in recovered
      PROVE  /\ m \in Message
             /\ row(m) \in Rows
             /\ row(m).state = "queued"
             /\ row(m).attempts < MaxAttempts
             /\ row(m).token = NoToken
  <2>1. m \in Message /\ outbox[m] \in Rows /\ outbox[m].state = "leased"
    BY DEF Overdue, OutboxInv, TypeOK
  <2>2. outbox[m].attempts \in 1 .. MaxAttempts
    BY <2>1, OutboxAssumption DEF OutboxInv, RowShape, Rows
  <2>3. wait(m) \in Times
    BY <1>1, <2>2, AfterType, BackoffAssumption
  <2>4. "queued" \in RowStates /\ outbox[m].attempts \in 0 .. MaxAttempts
    BY <2>1 DEF RowStates, Rows
  <2>5. QED
    BY <1>1, <2>1, <2>3, <2>4, ReleasedType
<1>3. outbox' = [m \in Message |-> IF m \in recovered THEN row(m) ELSE outbox[m]]
  BY DEF RecoverExpiredLeases
<1>4. history' \in [Message -> Histories]
  BY DEF RecoverExpiredLeases, OutboxInv, TypeOK, Histories
<1>5. outbox' \in [Message -> Rows]
  BY <1>2, <1>3 DEF OutboxInv, TypeOK
<1>6. worker' \in [Worker -> Runs] /\ \A v \in Worker : RunFits(v)
  BY SweepRunFits DEF RecoverExpiredLeases
<1>7. TypesFit
  BY <1>4, <1>5, <1>6 DEF TypesFit, RecoverExpiredLeases, OutboxInv, TypeOK
<1>8. ASSUME NEW m \in Message PROVE RowFits(m)
  <2>1. CASE m \in recovered
    BY <1>2, <1>3, <2>1 DEF RowFits
  <2>2. CASE m \notin recovered
    BY <1>3, <2>2, SameRowFits
  <2>3. QED
    BY <2>1, <2>2
<1>9. QED
  BY <1>6, <1>7, <1>8, StepInv

LEMMA FailExhaustedLeasesInv ==
  ASSUME OutboxInv, NEW w \in Worker, FailExhaustedLeases(w)
  PROVE  OutboxInv'
<1> DEFINE now == worker[w].now
           exhausted == {m \in Overdue(w) : outbox[m].attempts >= MaxAttempts}
           row(m) == Released(outbox[m], "failed", outbox[m].attempts,
                              outbox[m].nextAttempt, now)
<1>1. now \in Times
  BY DEF OutboxInv, TypeOK, Runs
<1>2. ASSUME NEW m \in exhausted
      PROVE  /\ m \in Message
             /\ row(m) \in Rows
             /\ row(m).state = "failed"
             /\ row(m).attempts >= 1
             /\ row(m).token = NoToken
  <2>1. m \in Message /\ outbox[m] \in Rows /\ outbox[m].state = "leased"
    BY DEF Overdue, OutboxInv, TypeOK
  <2>2. outbox[m].attempts >= 1
    BY <2>1 DEF OutboxInv, RowShape
  <2>3. /\ "failed" \in RowStates
        /\ outbox[m].attempts \in 0 .. MaxAttempts
        /\ outbox[m].nextAttempt \in Times
    BY <2>1 DEF RowStates, Rows
  <2>4. QED
    BY <1>1, <2>1, <2>2, <2>3, ReleasedType
<1>3. outbox' = [m \in Message |-> IF m \in exhausted THEN row(m) ELSE outbox[m]]
  BY DEF FailExhaustedLeases
<1>4. history' \in [Message -> Histories]
  BY DEF FailExhaustedLeases, OutboxInv, TypeOK, Histories
<1>5. outbox' \in [Message -> Rows]
  BY <1>2, <1>3 DEF OutboxInv, TypeOK
<1>6. worker' \in [Worker -> Runs] /\ \A v \in Worker : RunFits(v)
  BY SweepRunFits DEF FailExhaustedLeases
<1>7. TypesFit
  BY <1>4, <1>5, <1>6 DEF TypesFit, FailExhaustedLeases, OutboxInv, TypeOK
<1>8. ASSUME NEW m \in Message PROVE RowFits(m)
  <2>1. CASE m \in exhausted
    BY <1>2, <1>3, <2>1 DEF RowFits
  <2>2. CASE m \notin exhausted
    BY <1>3, <2>2, SameRowFits
  <2>3. QED
    BY <2>1, <2>2
<1>9. QED
  BY <1>6, <1>7, <1>8, StepInv

LEMMA CancelExpiredInv ==
  ASSUME OutboxInv, NEW w \in Worker, CancelExpired(w)
  PROVE  OutboxInv'
<1> DEFINE now == worker[w].now
           row(m) == [outbox[m] EXCEPT !.cancellation = "MESSAGE_EXPIRED",
                                       !.updated = now]
<1>1. now \in Times
  BY DEF OutboxInv, TypeOK, Runs
<1>2. ASSUME NEW m \in Outlived(w)
      PROVE  /\ m \in Message
             /\ row(m) \in Rows
             /\ row(m).state = "queued"
             /\ row(m).attempts < MaxAttempts
             /\ row(m).token = NoToken
  BY <1>1 DEF Outlived, OutboxInv, TypeOK, RowShape, QueuedHasBudget, Rows,
              CancellationCodes
<1>3. outbox' = [m \in Message |-> IF m \in Outlived(w) THEN row(m) ELSE outbox[m]]
  BY DEF CancelExpired
<1>4. outbox' \in [Message -> Rows]
  BY <1>2, <1>3 DEF OutboxInv, TypeOK
<1>5. worker' \in [Worker -> Runs] /\ \A v \in Worker : RunFits(v)
  BY SweepRunFits DEF CancelExpired
<1>6. TypesFit
  BY <1>4, <1>5 DEF TypesFit, CancelExpired, OutboxInv, TypeOK
<1>7. ASSUME NEW m \in Message PROVE RowFits(m)
  <2>1. CASE m \in Outlived(w)
    BY <1>2, <1>3, <2>1 DEF RowFits
  <2>2. CASE m \notin Outlived(w)
    BY <1>3, <2>2, SameRowFits
  <2>3. QED
    BY <2>1, <2>2
<1>8. QED
  BY <1>5, <1>6, <1>7, StepInv

LEMMA CancelExpiredAbortsInv ==
  ASSUME OutboxInv, NEW w \in Worker, CancelExpiredAborts(w)
  PROVE  OutboxInv'
  BY RunEndsInv DEF CancelExpiredAborts

LEMMA CrashInv ==
  ASSUME OutboxInv, NEW w \in Worker, Crash(w)
  PROVE  OutboxInv'
  BY RunEndsInv DEF Crash
-----------------------------------------------------------------------------
(***************************************************************************)
(* The end of a visit.                                                     *)
(***************************************************************************)

\* What holds of a run that still owns the lease of its message.
LEMMA OwnerFacts ==
  ASSUME OutboxInv, NEW w \in Worker, worker[w].phase \in Holding
  PROVE  /\ worker[w].msg \in Message
         /\ worker[w].now \in Times
         /\ worker[w].attempts \in 0 .. MaxAttempts
         /\ outbox[worker[w].msg] \in Rows
         /\ outbox[worker[w].msg].attempts \in 0 .. MaxAttempts
         /\ outbox[worker[w].msg].nextAttempt \in Times
         /\ outbox[worker[w].msg].updated \in Times
         /\ Owns(w) => outbox[worker[w].msg].attempts >= 1
         /\ Owns(w) /\ worker[w].phase \in {"send", "record"}
              => worker[w].attempts = outbox[worker[w].msg].attempts
<1>1. worker[w] \in Runs /\ worker[w].msg \in Message
  BY DEF OutboxInv, TypeOK, RunShape, Runs
<1>2. outbox[worker[w].msg] \in Rows
  BY <1>1 DEF OutboxInv, TypeOK
<1>3. Owns(w) => outbox[worker[w].msg].attempts >= 1
  BY <1>1 DEF Owns, OutboxInv, RowShape
<1>4. QED
  BY <1>1, <1>2, <1>3 DEF OutboxInv, AttemptsReadAreCurrent, Runs, Rows

\* A run that ends its visit leaves a well-formed row without a lease.
LEMMA SettleInv ==
  ASSUME OutboxInv, NEW w \in Worker, worker[w].phase \in Holding,
         NEW state \in {"queued", "delivered", "failed"},
         NEW attempts, NEW nextAttempt, NEW updated,
         Settle(w, state, attempts, nextAttempt, updated),
         Owns(w) => /\ attempts \in 0 .. MaxAttempts
                    /\ nextAttempt \in Times
                    /\ updated \in Times
                    /\ state = "queued" => attempts < MaxAttempts
                    /\ state # "queued" => attempts >= 1
  PROVE  OutboxInv'
<1> DEFINE m == worker[w].msg
           row == Released(outbox[m], state, attempts, nextAttempt, updated)
<1>1. m \in Message /\ outbox[m] \in Rows /\ worker[w].batch \in SUBSET Message
  BY OwnerFacts DEF OutboxInv, TypeOK, Runs
<1>2. worker' = [worker EXCEPT ![w] = RunOn(worker[w].now, worker[w].batch)]
  BY DEF Settle, OutboxInv, TypeOK
<1>3. worker'[w] = RunOn(worker[w].now, worker[w].batch)
  BY <1>2 DEF OutboxInv, TypeOK
<1>4. UNCHANGED <<clock, history>>
  BY DEF Settle
<1>5. RunOn(worker[w].now, worker[w].batch) \in Runs /\ RunFits(w)
  BY <1>1, <1>3, <1>4, RunOnFits
<1>6. CASE ~ Owns(w)
  BY <1>1, <1>2, <1>6, RunOnInv DEF Settle
<1>7. CASE Owns(w)
  <2>1. outbox' = [outbox EXCEPT ![m] = row]
    BY <1>7 DEF Settle, OutboxInv, TypeOK
  <2>2. /\ row \in Rows
        /\ row.state = state
        /\ row.attempts = attempts
        /\ row.token = NoToken
    <3>1. state \in RowStates
      BY DEF RowStates
    <3>2. QED
      BY <1>1, <1>7, <3>1, ReleasedType
  <2>3. TypesFit
    BY <1>2, <1>4, <1>5, <2>1, <2>2 DEF TypesFit, OutboxInv, TypeOK
  <2>4. ASSUME NEW n \in Message PROVE RowFits(n)
    <3>1. CASE n = m
      <4>1. outbox'[n] = row
        BY <1>1, <2>1, <3>1 DEF OutboxInv, TypeOK
      <4>2. QED
        BY <1>7, <2>2, <4>1 DEF RowFits
    <3>2. CASE n # m
      BY <2>1, <3>2, SameRowFits DEF OutboxInv, TypeOK
    <3>3. QED
      BY <3>1, <3>2
  <2>5. ASSUME NEW v \in Worker PROVE RunFits(v)
    <3>1. CASE v # w
      BY <1>2, <1>4, <3>1, SameRunFits, OutboxAssumption DEF OutboxInv, TypeOK, Times
    <3>2. QED
      BY <1>5, <3>1
  <2>6. QED
    BY <2>3, <2>4, <2>5, StepInv
<1>8. QED
  BY <1>6, <1>7

LEMMA ReleaseCanceledInv ==
  ASSUME OutboxInv, NEW w \in Worker, ReleaseCanceled(w)
  PROVE  OutboxInv'
<1> DEFINE row == outbox[worker[w].msg]
<1>1. worker[w].phase \in Holding
  BY DEF ReleaseCanceled, Holding
<1>2. Owns(w) => /\ Refunded(row.attempts) \in 0 .. MaxAttempts
                 /\ Refunded(row.attempts) < MaxAttempts
                 /\ row.nextAttempt \in Times
                 /\ Later(row.updated, worker[w].now) \in Times
  BY <1>1, OwnerFacts, RefundedType, LaterType
<1>3. QED
  BY <1>1, <1>2, SettleInv DEF ReleaseCanceled

LEMMA RecordDeliveredInv ==
  ASSUME OutboxInv, NEW w \in Worker, RecordDelivered(w)
  PROVE  OutboxInv'
<1>1. worker[w].phase \in Holding
  BY DEF RecordDelivered, Holding
<1>2. QED
  BY <1>1, OwnerFacts, SettleInv DEF RecordDelivered

LEMMA RecordQuotaInv ==
  ASSUME OutboxInv, NEW w \in Worker, RecordQuota(w)
  PROVE  OutboxInv'
<1> DEFINE row == outbox[worker[w].msg]
<1>1. worker[w].phase \in Holding
  BY DEF RecordQuota, Holding
<1>2. Owns(w) => /\ Refunded(row.attempts) \in 0 .. MaxAttempts
                 /\ Refunded(row.attempts) < MaxAttempts
                 /\ After(worker[w].now, QuotaDelay) \in Times
                 /\ worker[w].now \in Times
  BY <1>1, OwnerFacts, RefundedType, AfterType, OutboxAssumption
<1>3. QED
  BY <1>1, <1>2, SettleInv DEF RecordQuota

LEMMA RecordRetryInv ==
  ASSUME OutboxInv, NEW w \in Worker, RecordRetry(w)
  PROVE  OutboxInv'
<1> DEFINE row == outbox[worker[w].msg]
<1>1. worker[w].phase \in Holding /\ worker[w].phase \in {"send", "record"}
  BY DEF RecordRetry, Holding
<1>2. ASSUME Owns(w)
      PROVE  /\ row.attempts \in 0 .. MaxAttempts
             /\ row.attempts < MaxAttempts
             /\ After(worker[w].now, Backoff(worker[w].attempts)) \in Times
             /\ worker[w].now \in Times
  <2>1. worker[w].attempts \in 1 .. MaxAttempts /\ worker[w].attempts < MaxAttempts
    BY <1>1, <1>2, OwnerFacts, OutboxAssumption DEF RecordRetry
  <2>2. Backoff(worker[w].attempts) \in Nat
    BY <2>1, BackoffAssumption
  <2>3. QED
    BY <1>1, <1>2, <2>1, <2>2, OwnerFacts, AfterType
<1>3. QED
  BY <1>1, <1>2, SettleInv DEF RecordRetry

LEMMA RecordFailedInv ==
  ASSUME OutboxInv, NEW w \in Worker, RecordFailed(w)
  PROVE  OutboxInv'
<1>1. worker[w].phase \in Holding
  BY DEF RecordFailed, Holding
<1>2. QED
  BY <1>1, OwnerFacts, SettleInv DEF RecordFailed
-----------------------------------------------------------------------------
(***************************************************************************)
(* The lease.                                                              *)
(***************************************************************************)

\* The one step that hands out a token.  Every part of the invariant that is
\* about the message or the run is checked anew; the rest rests on Fresh.
LEMMA LeaseCandidateInv ==
  ASSUME OutboxInv, NEW w \in Worker, NEW m \in Message, NEW t \in Token,
         LeaseCandidate(w, m, t)
  PROVE  OutboxInv'
<1> DEFINE row == Leased(outbox[m], t, worker[w].now)
           run == [worker[w] EXCEPT !.phase = "read", !.batch = worker[w].batch \ {m},
                                    !.msg = m, !.token = t]
<1>1. worker[w] \in Runs /\ worker[w].now \in Times /\ outbox[m] \in Rows
  BY DEF OutboxInv, TypeOK, Runs
<1>2. t # NoToken /\ m # NoMessage
  BY OutboxAssumption
<1>3. outbox' = [outbox EXCEPT ![m] = row] /\ outbox'[m] = row
  BY DEF LeaseCandidate, OutboxInv, TypeOK
<1>4. worker' = [worker EXCEPT ![w] = run] /\ worker'[w] = run
  BY DEF LeaseCandidate, OutboxInv, TypeOK
<1>5. UNCHANGED <<clock, history>>
  BY DEF LeaseCandidate
<1>6. outbox[m].state = "queued" /\ ~ Canceled(outbox[m])
  BY DEF LeaseCandidate, Leasable
<1>7. /\ \A n \in Message : outbox[n].token # t
      /\ \A v \in Worker : worker[v].token # t
  BY DEF LeaseCandidate, Fresh
<1>8. row \in Rows /\ row.attempts >= 1
  <2>1. outbox[m].attempts \in 0 .. MaxAttempts /\ outbox[m].attempts < MaxAttempts
    BY <1>1, <1>6 DEF OutboxInv, QueuedHasBudget, Rows
  <2>2. outbox[m].attempts + 1 \in 0 .. MaxAttempts /\ outbox[m].attempts + 1 >= 1
    BY <2>1, OutboxAssumption
  <2>3. After(worker[w].now, LeaseTime) \in Times
    BY <1>1, AfterType, OutboxAssumption
  <2>4. QED
    BY <1>1, <2>2, <2>3 DEF Leased, Rows, RowStates
<1>9. run \in Runs /\ run.phase = "read" /\ run.now = worker[w].now
      /\ run.msg = m /\ run.token = t
  BY <1>1 DEF Runs, Phases
<1>10. row.state = "leased" /\ row.token = t
  BY DEF Leased
<1>11. TypeOK'
  <2>1. outbox' \in [Message -> Rows] /\ worker' \in [Worker -> Runs]
    BY <1>3, <1>4, <1>8, <1>9 DEF OutboxInv, TypeOK
  <2>2. \A v \in Worker : worker'[v].now <= clock'
    BY <1>4, <1>5, <1>9 DEF OutboxInv, TypeOK
  <2>3. QED
    BY <1>5, <2>1, <2>2 DEF OutboxInv, TypeOK
<1>12. RowShape' /\ QueuedHasBudget'
  <2>1. \A n \in Message \ {m} : outbox'[n] = outbox[n]
    BY <1>3 DEF OutboxInv, TypeOK
  <2>2. QED
    BY <1>2, <1>3, <1>8, <1>10, <2>1 DEF OutboxInv, RowShape, QueuedHasBudget
<1>13. ASSUME NEW v \in Worker, v # w
       PROVE  /\ worker'[v] = worker[v]
              /\ Owns(v)' => /\ Owns(v)
                             /\ outbox'[worker[v].msg] = outbox[worker[v].msg]
  <2>1. worker'[v] = worker[v]
    BY <1>4, <1>13 DEF OutboxInv, TypeOK
  <2>2. ASSUME Owns(v)' PROVE worker[v].msg \in Message /\ worker[v].msg # m
    <3>1. worker[v].msg \in Message
      BY <2>1, <2>2 DEF Owns, OutboxInv, TypeOK, Runs
    <3>2. outbox'[worker[v].msg].token # t
      BY <1>7, <2>1, <2>2 DEF Owns
    <3>3. QED
      BY <1>3, <1>10, <3>1, <3>2
  <2>3. QED
    BY <1>3, <2>1, <2>2 DEF Owns, OutboxInv, TypeOK
<1>14. RunShape' /\ AttemptsReadAreCurrent'
  <2>1. ASSUME NEW v \in Worker
        PROVE  /\ worker'[v].phase \in Holding <=> worker'[v].msg # NoMessage
               /\ worker'[v].phase \in Holding <=> worker'[v].token # NoToken
               /\ worker'[v].phase = "record" => worker'[v].result # "none"
               /\ worker'[v].phase = "release" /\ Owns(v)'
                    => Canceled(outbox'[worker'[v].msg])
               /\ worker'[v].phase \in {"send", "record"} /\ Owns(v)'
                    => worker'[v].attempts = outbox'[worker'[v].msg].attempts
    <3>1. CASE v = w
      BY <1>2, <1>4, <1>9, <3>1 DEF Holding
    <3>2. CASE v # w
      BY <1>13, <3>2 DEF OutboxInv, RunShape, AttemptsReadAreCurrent
    <3>3. QED
      BY <3>1, <3>2
  <2>2. QED
    BY <2>1 DEF RunShape, AttemptsReadAreCurrent, Canceled
<1>15. TokenNamesOneLease'
  <2>1. \A v \in Worker \ {w} : worker'[v] = worker[v]
    BY <1>13
  <2>2. \A n \in Message \ {m} : outbox'[n] = outbox[n]
    BY <1>3 DEF OutboxInv, TypeOK
  <2>3. ASSUME NEW u \in Worker, NEW v \in Worker,
               worker'[u].token = worker'[v].token, worker'[u].token # NoToken
        PROVE  u = v
    BY <1>4, <1>7, <1>9, <2>1, <2>3 DEF OutboxInv, TokenNamesOneLease
  <2>4. ASSUME NEW v \in Worker, NEW n \in Message,
               worker'[v].token = outbox'[n].token, worker'[v].token # NoToken
        PROVE  n = worker'[v].msg
    BY <1>3, <1>4, <1>7, <1>9, <1>10, <2>1, <2>2, <2>4
    DEF OutboxInv, TokenNamesOneLease
  <2>5. QED
    BY <2>3, <2>4 DEF TokenNamesOneLease
<1>16. QED
  BY <1>11, <1>12, <1>14, <1>15 DEF OutboxInv
-----------------------------------------------------------------------------
LEMMA StutterInv ==
  ASSUME OutboxInv, UNCHANGED vars
  PROVE  OutboxInv'
<1>1. clock' \in Times /\ clock' >= clock
  BY OutboxAssumption DEF vars, OutboxInv, TypeOK, Times
<1>2. TypesFit
  BY DEF vars, TypesFit, OutboxInv, TypeOK
<1>3. QED
  BY <1>1, <1>2, SameRowFits, SameRunFits, StepInv DEF vars

LEMMA NextInv == OutboxInv /\ [Next]_vars => OutboxInv'
<1> SUFFICES ASSUME OutboxInv, [Next]_vars PROVE OutboxInv'
  OBVIOUS
<1>1. CASE Environment
  BY <1>1, EnqueueInv, CancelInv, PurgeInv, TickInv DEF Environment
<1>2. ASSUME NEW w \in Worker, Dispatch(w) PROVE OutboxInv'
  <2>1. CASE StartRun(w)
    BY <2>1, StartRunInv
  <2>2. CASE Sweep(w)
    BY <2>2, RecoverExpiredLeasesInv, FailExhaustedLeasesInv, CancelExpiredInv,
       CancelExpiredAbortsInv DEF Sweep
  <2>3. CASE SelectBatch(w)
    BY <2>3, SelectBatchInv
  <2>4. CASE Visit(w)
    BY <2>4, LeaseCandidateInv, SkipCandidateInv, ReadRowInv, ReleaseCanceledInv
    DEF Visit
  <2>5. CASE \E result \in Results \ {"none"}, accepted \in BOOLEAN :
               Send(w, result, accepted)
    BY <2>5, SendInv
  <2>6. CASE Record(w)
    BY <2>6, RecordDeliveredInv, RecordQuotaInv, RecordRetryInv, RecordFailedInv
    DEF Record
  <2>7. QED
    BY <1>2, <2>1, <2>2, <2>3, <2>4, <2>5, <2>6 DEF Dispatch
<1>3. CASE \E w \in Worker : Crash(w)
  BY <1>3, CrashInv
<1>4. CASE UNCHANGED vars
  BY <1>4, StutterInv
<1>5. QED
  BY <1>1, <1>2, <1>3, <1>4 DEF Next

LEMMA Invariance == Spec => []OutboxInv
  BY InitInv, NextInv, PTL DEF Spec

\* Every row, run and history stays within its type whatever the dispatchers do.
THEOREM TypeCorrect == Spec => []TypeOK
<1>1. OutboxInv => TypeOK
  BY DEF OutboxInv
<1>2. QED
  BY <1>1, Invariance, PTL

\* No interleaving of sweeps, refunds and leases leaves a queued row without
\* budget, so no message is stranded in the queue.
THEOREM NoStrandedMessage == Spec => []QueuedHasBudget
<1>1. OutboxInv => QueuedHasBudget
  BY DEF OutboxInv
<1>2. QED
  BY <1>1, Invariance, PTL

\* The attempt count a run carries through the send is the row's for as long as
\* the run owns the lease.
THEOREM RetryDecisionIsCurrent == Spec => []AttemptsReadAreCurrent
<1>1. OutboxInv => AttemptsReadAreCurrent
  BY DEF OutboxInv
<1>2. QED
  BY <1>1, Invariance, PTL
-----------------------------------------------------------------------------
(***************************************************************************)
(* What the provider accepts: a delivered row was accepted, and a message  *)
(* is accepted twice only with a cause.                                    *)
(***************************************************************************)

\* The strengthening.  A message nothing has happened to that would excuse a
\* second send was not accepted before its row is leased, and whoever works on
\* it still owns the lease and has seen at most its own acceptance.
RowHistory(m) ==
  /\ outbox[m].state = "delivered" => history[m].accepts >= 1
  /\ ~ history[m].excused =>
       /\ history[m].accepts <= 1
       /\ outbox[m].state \in {"absent", "queued"} => history[m].accepts = 0

Accepted(w) == worker[w].phase = "record" /\ worker[w].result = "ok"

RunHistory(w) ==
  /\ Accepted(w) => history[worker[w].msg].accepts >= 1
  /\ worker[w].phase \in Holding /\ ~ history[worker[w].msg].excused =>
       /\ Owns(w)
       /\ Accepted(w) \/ history[worker[w].msg].accepts = 0

HistoryInv ==
  /\ \A m \in Message : RowHistory(m)
  /\ \A w \in Worker : RunHistory(w)

\* The whole inductive invariant.
FullInv == OutboxInv /\ HistoryInv
-----------------------------------------------------------------------------
(***************************************************************************)
(* What a step that leaves things alone preserves.                         *)
(***************************************************************************)

\* An acceptance is never forgotten, nor is a cause.
Remembers(m) ==
  /\ history'[m].accepts = history[m].accepts
  /\ history[m].excused => history'[m].excused

LEMMA RowKept ==
  ASSUME FullInv, NEW m \in Message, Remembers(m),
         outbox'[m].state \in {"delivered", "absent", "queued"}
           => outbox'[m].state = outbox[m].state \/ history'[m].excused,
         outbox'[m].state = "delivered" => outbox[m].state = "delivered"
  PROVE  RowHistory(m)'
  BY DEF FullInv, HistoryInv, RowHistory, Remembers

\* A run is disturbed only by a step that ends its lease, and such a step leaves
\* a cause behind.
LEMMA RunKept ==
  ASSUME FullInv, NEW w \in Worker, worker'[w] = worker[w],
         worker[w].msg \in Message =>
           /\ Remembers(worker[w].msg)
           /\ Owns(w) => \/ /\ outbox'[worker[w].msg].state = "leased"
                            /\ outbox'[worker[w].msg].token = worker[w].token
                         \/ history'[worker[w].msg].excused
  PROVE  RunHistory(w)'
<1>1. worker[w].phase \in Holding => worker[w].msg \in Message
  BY DEF FullInv, OutboxInv, TypeOK, RunShape, Runs
<1>2. Accepted(w) => worker[w].phase \in Holding
  BY DEF Accepted, Holding
<1>3. CASE worker[w].phase \in Holding
  BY <1>1, <1>3, OutboxAssumption
  DEF FullInv, HistoryInv, RunHistory, Remembers, Owns, Accepted
<1>4. CASE worker[w].phase \notin Holding
  BY <1>2, <1>4 DEF RunHistory, Accepted
<1>5. QED
  BY <1>3, <1>4

\* A run that holds nothing has nothing to account for.
LEMMA RunFree ==
  ASSUME NEW w \in Worker, worker'[w].phase \notin Holding
  PROVE  RunHistory(w)'
  BY DEF RunHistory, Accepted, Holding

LEMMA RunOnFree ==
  ASSUME FullInv, NEW w \in Worker, NEW rest \in SUBSET Message,
         worker'[w] = RunOn(worker[w].now, rest)
  PROVE  RunHistory(w)'
<1>1. worker[w].now \in Times
  BY DEF FullInv, OutboxInv, TypeOK, Runs
<1>2. worker'[w].phase \in {"idle", "lease"}
  BY <1>1, RunOnType
<1>3. QED
  BY <1>2, RunFree DEF Holding

\* Steps that touch no row and no history.
LEMMA RowsKept ==
  ASSUME FullInv, UNCHANGED <<outbox, history>>
  PROVE  \A m \in Message : RowHistory(m)'
  BY RowKept DEF Remembers

LEMMA RunMovesHistory ==
  ASSUME FullInv, NEW w \in Worker, UNCHANGED <<outbox, history>>,
         \A v \in Worker \ {w} : worker'[v] = worker[v], RunHistory(w)'
  PROVE  HistoryInv'
<1>1. \A m \in Message : RowHistory(m)'
  BY RowsKept
<1>2. ASSUME NEW v \in Worker PROVE RunHistory(v)'
  <2>1. CASE v # w
    <3>1. worker'[v] = worker[v]
      BY <2>1
    <3>2. \A m \in Message : Remembers(m)
      BY DEF Remembers
    <3>3. Owns(v) => /\ outbox'[worker[v].msg].state = "leased"
                     /\ outbox'[worker[v].msg].token = worker[v].token
      BY DEF Owns
    <3>4. QED
      BY <3>1, <3>2, <3>3, RunKept
  <2>2. QED
    BY <2>1
<1>3. QED
  BY <1>1, <1>2 DEF HistoryInv

LEMMA RunOnHistory ==
  ASSUME FullInv, NEW w \in Worker, NEW rest \in SUBSET Message,
         worker' = [worker EXCEPT ![w] = RunOn(worker[w].now, rest)],
         UNCHANGED <<outbox, history>>
  PROVE  HistoryInv'
<1>1. worker'[w] = RunOn(worker[w].now, rest)
  BY DEF FullInv, OutboxInv, TypeOK
<1>2. \A v \in Worker \ {w} : worker'[v] = worker[v]
  BY DEF FullInv, OutboxInv, TypeOK
<1>3. QED
  BY <1>1, <1>2, RunOnFree, RunMovesHistory

LEMMA RunEndsHistory ==
  ASSUME FullInv, NEW w \in Worker, worker' = [worker EXCEPT ![w] = NoRun],
         UNCHANGED <<outbox, history>>
  PROVE  HistoryInv'
<1>1. RunOn(worker[w].now, {}) = NoRun /\ {} \in SUBSET Message
  BY DEF RunOn
<1>2. worker' = [worker EXCEPT ![w] = RunOn(worker[w].now, {})]
  BY <1>1
<1>3. QED
  BY <1>1, <1>2, RunOnHistory
-----------------------------------------------------------------------------
(***************************************************************************)
(* The steps.                                                              *)
(***************************************************************************)

LEMMA InitHistory == Init => HistoryInv
  BY DEF Init, HistoryInv, RowHistory, RunHistory, Accepted, Holding, AbsentRow,
         NoRun, RunAt

\* A step outside the dispatchers touches one row and none with a lease.
LEMMA InsertHistory ==
  ASSUME FullInv, NEW m \in Message, NEW now, NEW expires,
         outbox[m].state = "absent",
         outbox' = [outbox EXCEPT ![m] = QueuedRow(now, expires)],
         UNCHANGED <<worker, history>>
  PROVE  HistoryInv'
<1>1. outbox'[m].state = "queued" /\ \A n \in Message \ {m} : outbox'[n] = outbox[n]
  BY DEF QueuedRow, FullInv, OutboxInv, TypeOK
<1>2. \A n \in Message : Remembers(n)
  BY DEF Remembers
<1>3. ASSUME NEW n \in Message PROVE RowHistory(n)'
  <2>1. CASE n = m
    BY <1>1, <2>1 DEF FullInv, HistoryInv, RowHistory
  <2>2. CASE n # m
    BY <1>1, <1>2, <2>2, RowKept
  <2>3. QED
    BY <2>1, <2>2
<1>4. ASSUME NEW w \in Worker PROVE RunHistory(w)'
  <2>1. worker[w].msg \in Message /\ Owns(w) => worker[w].msg # m
    BY DEF Owns
  <2>2. QED
    BY <1>1, <1>2, <2>1, RunKept DEF Owns
<1>5. QED
  BY <1>3, <1>4 DEF HistoryInv

LEMMA EnqueueHistory ==
  ASSUME FullInv, NEW m \in Message, Enqueue(m)
  PROVE  HistoryInv'
<1>1. PICK expires \in {After(clock, Lifetime), Never} :
        outbox' = [outbox EXCEPT ![m] = QueuedRow(clock, expires)]
  BY DEF Enqueue
<1>2. QED
  BY <1>1, InsertHistory DEF Enqueue

LEMMA CancelHistory ==
  ASSUME FullInv, NEW m \in Message, NEW code \in CancellationCodes, Cancel(m, code)
  PROVE  HistoryInv'
<1>1. UNCHANGED <<worker, history>>
  BY DEF Cancel
<1>2. \A n \in Message : /\ outbox'[n].state = outbox[n].state
                         /\ outbox'[n].token = outbox[n].token
  BY DEF Cancel, FullInv, OutboxInv, TypeOK, Rows
<1>3. \A n \in Message : Remembers(n)
  BY <1>1 DEF Remembers
<1>4. \A n \in Message : RowHistory(n)'
  BY <1>2, <1>3, RowKept
<1>5. ASSUME NEW w \in Worker PROVE RunHistory(w)'
  BY <1>1, <1>2, <1>3, RunKept DEF Owns
<1>6. QED
  BY <1>4, <1>5 DEF HistoryInv

LEMMA PurgeHistory ==
  ASSUME FullInv, NEW m \in Message, Purge(m)
  PROVE  HistoryInv'
<1>1. worker' = worker /\ outbox[m].state # "leased"
  BY DEF Purge
<1>2. /\ outbox'[m].state = "absent"
      /\ \A n \in Message \ {m} : outbox'[n] = outbox[n]
  BY DEF Purge, AbsentRow, FullInv, OutboxInv, TypeOK
<1>3. history'[m].excused /\ \A n \in Message : Remembers(n)
  BY DEF Purge, Remembers, FullInv, OutboxInv, TypeOK, Histories
<1>4. \A n \in Message : RowHistory(n)'
  BY <1>2, <1>3, RowKept
<1>5. ASSUME NEW w \in Worker PROVE RunHistory(w)'
  BY <1>1, <1>2, <1>3, RunKept DEF Owns
<1>6. QED
  BY <1>4, <1>5 DEF HistoryInv

\* A sweep ends leases without their owners: that is a cause for each of them.
LEMMA SweepHistory ==
  ASSUME FullInv, NEW w \in Worker, NEW next \in {"exhaust", "expire", "select"},
         worker[w].phase \in {"recover", "exhaust", "expire"},
         worker' = [worker EXCEPT ![w].phase = next],
         \A m \in Message :
           /\ Remembers(m)
           /\ \/ outbox'[m] = outbox[m]
              \/ history'[m].excused /\ outbox'[m].state \in {"queued", "failed"}
              \/ outbox[m].state = "queued" /\ outbox'[m].state = "queued"
  PROVE  HistoryInv'
<1>1. \A m \in Message : RowHistory(m)'
  BY RowKept
<1>2. ASSUME NEW v \in Worker PROVE RunHistory(v)'
  <2>1. CASE v = w
    <3>1. worker'[v].phase \notin Holding
      BY <2>1 DEF Holding, FullInv, OutboxInv, TypeOK, Runs
    <3>2. QED
      BY <3>1, RunFree
  <2>2. CASE v # w
    <3>1. worker'[v] = worker[v]
      BY <2>2 DEF FullInv, OutboxInv, TypeOK
    <3>2. QED
      BY <3>1, RunKept DEF Owns
  <2>3. QED
    BY <2>1, <2>2
<1>3. QED
  BY <1>1, <1>2 DEF HistoryInv

LEMMA RecoverHistory ==
  ASSUME FullInv, NEW w \in Worker, RecoverExpiredLeases(w)
  PROVE  HistoryInv'
<1>1. ASSUME NEW m \in Message
      PROVE  /\ Remembers(m)
             /\ \/ outbox'[m] = outbox[m]
                \/ history'[m].excused /\ outbox'[m].state \in {"queued", "failed"}
  BY DEF RecoverExpiredLeases, Released, Remembers, FullInv, OutboxInv, TypeOK, Histories
<1>2. QED
  BY <1>1, SweepHistory DEF RecoverExpiredLeases

LEMMA FailExhaustedHistory ==
  ASSUME FullInv, NEW w \in Worker, FailExhaustedLeases(w)
  PROVE  HistoryInv'
<1>1. ASSUME NEW m \in Message
      PROVE  /\ Remembers(m)
             /\ \/ outbox'[m] = outbox[m]
                \/ history'[m].excused /\ outbox'[m].state \in {"queued", "failed"}
  BY DEF FailExhaustedLeases, Released, Remembers, FullInv, OutboxInv, TypeOK, Histories
<1>2. QED
  BY <1>1, SweepHistory DEF FailExhaustedLeases

LEMMA CancelExpiredHistory ==
  ASSUME FullInv, NEW w \in Worker, CancelExpired(w)
  PROVE  HistoryInv'
<1>1. ASSUME NEW m \in Message
      PROVE  /\ Remembers(m)
             /\ \/ outbox'[m] = outbox[m]
                \/ outbox[m].state = "queued" /\ outbox'[m].state = "queued"
  <2>1. outbox[m] \in Rows
    BY DEF FullInv, OutboxInv, TypeOK
  <2>2. QED
    BY <2>1 DEF CancelExpired, Outlived, Remembers, Rows
<1>2. QED
  BY <1>1, SweepHistory DEF CancelExpired

\* A lease is taken from a queued row, so nobody else still owns one.
LEMMA LeaseHistory ==
  ASSUME FullInv, NEW w \in Worker, NEW m \in Message, NEW t \in Token,
         LeaseCandidate(w, m, t)
  PROVE  HistoryInv'
<1>1. outbox[m].state = "queued" /\ UNCHANGED history
  BY DEF LeaseCandidate, Leasable
<1>2. /\ outbox'[m].state = "leased" /\ outbox'[m].token = t
      /\ \A n \in Message \ {m} : outbox'[n] = outbox[n]
  BY DEF LeaseCandidate, Leased, FullInv, OutboxInv, TypeOK
<1>3. /\ worker'[w].phase = "read" /\ worker'[w].msg = m /\ worker'[w].token = t
      /\ \A v \in Worker \ {w} : worker'[v] = worker[v]
  BY DEF LeaseCandidate, FullInv, OutboxInv, TypeOK, Runs
<1>4. \A n \in Message : Remembers(n)
  BY <1>1 DEF Remembers
<1>5. \A n \in Message : RowHistory(n)'
  BY <1>2, <1>4, RowKept
<1>6. ASSUME NEW v \in Worker PROVE RunHistory(v)'
  <2>1. CASE v = w
    <3>1. history'[m].excused \/ history'[m].accepts = 0
      BY <1>1 DEF FullInv, HistoryInv, RowHistory
    <3>2. QED
      BY <1>2, <1>3, <2>1, <3>1, OutboxAssumption DEF RunHistory, Accepted, Owns
  <2>2. CASE v # w
    <3>1. Owns(v) => worker[v].msg # m
      BY <1>1 DEF Owns
    <3>2. QED
      BY <1>2, <1>3, <1>4, <2>2, <3>1, RunKept DEF Owns
  <2>3. QED
    BY <2>1, <2>2
<1>7. QED
  BY <1>5, <1>6 DEF HistoryInv

LEMMA SkipHistory ==
  ASSUME FullInv, NEW w \in Worker, NEW m \in Message, SkipCandidate(w, m)
  PROVE  HistoryInv'
<1>1. worker[w].batch \ {m} \in SUBSET Message
  BY DEF FullInv, OutboxInv, TypeOK, Runs
<1>2. worker' = [worker EXCEPT ![w] = RunOn(worker[w].now, worker[w].batch \ {m})]
  BY DEF SkipCandidate, FullInv, OutboxInv, TypeOK
<1>3. QED
  BY <1>1, <1>2, RunOnHistory DEF SkipCandidate

LEMMA SelectHistory ==
  ASSUME FullInv, NEW w \in Worker, SelectBatch(w)
  PROVE  HistoryInv'
<1>1. PICK batch \in SUBSET Candidates(worker[w].now) :
        worker' = [worker EXCEPT ![w] = RunOn(worker[w].now, batch)]
  BY Zenon DEF SelectBatch
<1>2. batch \in SUBSET Message
  BY DEF Candidates
<1>3. QED
  BY <1>1, <1>2, RunOnHistory DEF SelectBatch

LEMMA BeginsHistory ==
  ASSUME FullInv, NEW w \in Worker, NEW now,
         worker' = [worker EXCEPT ![w] = RunAt("recover", now, {})],
         UNCHANGED <<outbox, history>>
  PROVE  HistoryInv'
<1>1. worker'[w] = RunAt("recover", now, {})
      /\ \A v \in Worker \ {w} : worker'[v] = worker[v]
  BY DEF FullInv, OutboxInv, TypeOK
<1>2. worker'[w].phase \notin Holding
  BY <1>1 DEF RunAt, Holding
<1>3. QED
  BY <1>1, <1>2, RunFree, RunMovesHistory

LEMMA StartHistory ==
  ASSUME FullInv, NEW w \in Worker, StartRun(w)
  PROVE  HistoryInv'
BY BeginsHistory DEF StartRun

LEMMA ReadHistory ==
  ASSUME FullInv, NEW w \in Worker, ReadRow(w)
  PROVE  HistoryInv'
<1> DEFINE run == worker[w]
           row == outbox[run.msg]
<1>1. run \in Runs /\ run.phase = "read" /\ run.batch \in SUBSET Message
  BY DEF ReadRow, FullInv, OutboxInv, TypeOK, Runs
<1>2. UNCHANGED <<outbox, history>>
  BY DEF ReadRow
<1>3. CASE row.state = "absent"
  <2>1. worker' = [worker EXCEPT ![w] = RunOn(run.now, run.batch)]
    BY <1>3 DEF ReadRow
  <2>2. QED
    BY <1>1, <1>2, <2>1, RunOnHistory
<1>4. CASE row.state # "absent"
  <2>1. /\ worker'[w].phase \in {"send", "release"}
        /\ worker'[w].msg = run.msg
        /\ worker'[w].token = run.token
        /\ \A v \in Worker \ {w} : worker'[v] = worker[v]
    BY <1>1, <1>4 DEF ReadRow, FullInv, OutboxInv, TypeOK, Runs
  <2>2. RunHistory(w)'
    BY <1>1, <1>2, <2>1
    DEF FullInv, HistoryInv, RunHistory, Accepted, Owns, Holding
  <2>3. QED
    BY <1>2, <2>1, <2>2, RunMovesHistory
<1>5. QED
  BY <1>3, <1>4

\* Only one run owns the lease of a message, so an acceptance without a cause is
\* the first one.
LEMMA SendHistory ==
  ASSUME FullInv, NEW w \in Worker, NEW result \in Results \ {"none"},
         NEW accepted \in BOOLEAN, Send(w, result, accepted)
  PROVE  HistoryInv'
<1> DEFINE m == worker[w].msg
<1>1. worker[w] \in Runs /\ worker[w].phase = "send" /\ m \in Message
  BY DEF Send, FullInv, OutboxInv, TypeOK, RunShape, Holding, Runs
<1>2. outbox' = outbox
  BY DEF Send
<1>3. /\ worker'[w].phase = "record" /\ worker'[w].result = result
      /\ worker'[w].msg = m /\ worker'[w].token = worker[w].token
      /\ \A v \in Worker \ {w} : worker'[v] = worker[v]
  BY <1>1 DEF Send, FullInv, OutboxInv, TypeOK, Runs
<1>4. /\ history'[m].accepts = IF accepted /\ history[m].accepts < 2
                              THEN history[m].accepts + 1 ELSE history[m].accepts
      /\ history'[m].excused
           = (history[m].excused \/ (accepted /\ result # "ok"))
      /\ \A n \in Message \ {m} : history'[n] = history[n]
  BY <1>1 DEF Send, FullInv, OutboxInv, TypeOK
<1>5. history[m].accepts \in 0 .. 2
  BY <1>1 DEF FullInv, OutboxInv, TypeOK, Histories
<1>6. result = "ok" => accepted
  BY DEF Send
<1>7. history[m].excused \/ (Owns(w) /\ history[m].accepts = 0)
  BY <1>1 DEF FullInv, HistoryInv, RunHistory, Holding, Accepted
<1>8. ASSUME NEW n \in Message PROVE RowHistory(n)'
  <2>1. CASE n = m
    <3>1. Owns(w) => outbox[m].state = "leased"
      BY DEF Owns
    <3>2. outbox[m].state = "delivered" => history'[m].accepts >= 1
      BY <1>1, <1>4, <1>5 DEF FullInv, HistoryInv, RowHistory
    <3>3. ASSUME ~ history'[m].excused
          PROVE  history'[m].accepts <= 1 /\ outbox[m].state = "leased"
      <4>1. ~ history[m].excused
        BY <1>4, <3>3
      <4>2. Owns(w) /\ history[m].accepts = 0
        BY <1>7, <4>1
      <4>3. history'[m].accepts <= 1
        BY <1>4, <4>2
      <4>4. QED
        BY <3>1, <4>2, <4>3
    <3>4. QED
      BY <1>2, <2>1, <3>2, <3>3 DEF RowHistory
  <2>2. CASE n # m
    BY <1>2, <1>4, <2>2 DEF FullInv, HistoryInv, RowHistory
  <2>3. QED
    BY <2>1, <2>2
<1>9. ASSUME NEW v \in Worker PROVE RunHistory(v)'
  <2>1. CASE v = w
    <3>1. result = "ok" => history'[m].accepts >= 1
      BY <1>4, <1>5, <1>6
    <3>2. ~ history'[m].excused
            => Owns(w) /\ (result = "ok" \/ history'[m].accepts = 0)
      BY <1>4, <1>5, <1>7
    <3>3. Owns(w) = Owns(w)'
      BY <1>2, <1>3 DEF Owns
    <3>4. QED
      BY <1>3, <2>1, <3>1, <3>2, <3>3 DEF RunHistory, Accepted
  <2>2. CASE v # w /\ worker[v].msg # m
    <3>1. worker[v].msg \in Message => Remembers(worker[v].msg)
      BY <1>4, <2>2 DEF Remembers
    <3>2. worker'[v] = worker[v]
      BY <1>3, <2>2
    <3>3. QED
      BY <1>2, <3>1, <3>2, RunKept DEF Owns
  <2>3. CASE v # w /\ worker[v].msg = m
    <3>1. worker'[v] = worker[v]
      BY <1>3, <2>3
    <3>2. Accepted(v) => history'[m].accepts >= 1
      BY <1>4, <1>5, <2>3 DEF FullInv, HistoryInv, RunHistory
    <3>3. ~ (Owns(v) /\ Owns(w))
      BY <1>1, <2>3, OutboxAssumption
      DEF Owns, FullInv, OutboxInv, RowShape, TokenNamesOneLease
    <3>4. worker[v].phase \in Holding => history'[m].excused
      BY <1>4, <1>7, <2>3, <3>3 DEF FullInv, HistoryInv, RunHistory
    <3>5. QED
      BY <2>3, <3>1, <3>2, <3>4 DEF RunHistory, Accepted
  <2>4. QED
    BY <2>1, <2>2, <2>3
<1>10. QED
  BY <1>8, <1>9 DEF HistoryInv

\* A run that ends its visit: its row changes only if it owned the lease, and
\* then no other run does.
LEMMA SettleHistory ==
  ASSUME FullInv, NEW w \in Worker, worker[w].phase \in Holding,
         NEW state \in {"queued", "delivered", "failed"},
         NEW attempts, NEW nextAttempt, NEW updated,
         Settle(w, state, attempts, nextAttempt, updated),
         state = "delivered" <=> Accepted(w)
  PROVE  HistoryInv'
<1> DEFINE m == worker[w].msg
<1>1. m \in Message /\ worker[w].batch \in SUBSET Message
  BY OwnerFacts DEF FullInv, OutboxInv, TypeOK, Runs
<1>2. worker' = [worker EXCEPT ![w] = RunOn(worker[w].now, worker[w].batch)]
  BY DEF Settle, FullInv, OutboxInv, TypeOK
<1>3. worker'[w] = RunOn(worker[w].now, worker[w].batch)
      /\ \A v \in Worker \ {w} : worker'[v] = worker[v]
  BY <1>2 DEF FullInv, OutboxInv, TypeOK
<1>4. history' = history
  BY DEF Settle
<1>5. CASE ~ Owns(w)
  <2>1. outbox' = outbox
    BY <1>5 DEF Settle
  <2>2. QED
    BY <1>1, <1>2, <1>4, <2>1, RunOnHistory
<1>6. CASE Owns(w)
  <2>1. /\ outbox'[m].state = state
        /\ \A n \in Message \ {m} : outbox'[n] = outbox[n]
    BY <1>1, <1>6 DEF Settle, Released, FullInv, OutboxInv, TypeOK
  <2>2. \A n \in Message : Remembers(n)
    BY <1>4 DEF Remembers
  <2>3. ASSUME NEW n \in Message PROVE RowHistory(n)'
    <3>1. CASE n = m
      BY <1>4, <2>1, <3>1 DEF FullInv, HistoryInv, RowHistory, RunHistory
    <3>2. CASE n # m
      BY <2>1, <2>2, <3>2, RowKept
    <3>3. QED
      BY <3>1, <3>2
  <2>4. ASSUME NEW v \in Worker PROVE RunHistory(v)'
    <3>1. CASE v = w
      BY <1>1, <1>3, <3>1, RunOnFree
    <3>2. CASE v # w
      <4>1. Owns(v) => worker[v].msg # m
        BY <1>1, <1>6, <3>2, OutboxAssumption
        DEF Owns, FullInv, OutboxInv, RowShape, TokenNamesOneLease
      <4>2. QED
        BY <1>3, <2>1, <2>2, <3>2, <4>1, RunKept DEF Owns
    <3>3. QED
      BY <3>1, <3>2
  <2>5. QED
    BY <2>3, <2>4 DEF HistoryInv
<1>7. QED
  BY <1>5, <1>6

LEMMA RecordHistory ==
  ASSUME FullInv, NEW w \in Worker, Record(w) \/ ReleaseCanceled(w)
  PROVE  HistoryInv'
<1>1. worker[w].phase \in Holding
  BY DEF Record, ReleaseCanceled, RecordDelivered, RecordQuota, RecordRetry,
         RecordFailed, Holding
<1>2. CASE ReleaseCanceled(w)
  <2>1. ~ Accepted(w)
    BY <1>2 DEF ReleaseCanceled, Accepted
  <2>2. QED
    BY <1>1, <1>2, <2>1, SettleHistory DEF ReleaseCanceled
<1>3. CASE RecordDelivered(w)
  <2>1. Accepted(w)
    BY <1>3 DEF RecordDelivered, Accepted
  <2>2. QED
    BY <1>1, <1>3, <2>1, SettleHistory DEF RecordDelivered
<1>4. CASE RecordQuota(w)
  <2>1. ~ Accepted(w)
    BY <1>4 DEF RecordQuota, Accepted
  <2>2. QED
    BY <1>1, <1>4, <2>1, SettleHistory DEF RecordQuota
<1>5. CASE RecordRetry(w)
  <2>1. ~ Accepted(w)
    BY <1>5 DEF RecordRetry, Accepted
  <2>2. QED
    BY <1>1, <1>5, <2>1, SettleHistory DEF RecordRetry
<1>6. CASE RecordFailed(w)
  <2>1. ~ Accepted(w)
    BY <1>6 DEF RecordFailed, Accepted
  <2>2. QED
    BY <1>1, <1>6, <2>1, SettleHistory DEF RecordFailed
<1>7. QED
  BY <1>2, <1>3, <1>4, <1>5, <1>6 DEF Record

LEMMA NextHistory == FullInv /\ [Next]_vars => HistoryInv'
<1> SUFFICES ASSUME FullInv, [Next]_vars PROVE HistoryInv'
  OBVIOUS
<1>1. CASE UNCHANGED <<outbox, worker, history>>
  BY <1>1 DEF FullInv, HistoryInv, RowHistory, RunHistory, Accepted, Owns
<1>2. CASE Environment
  BY <1>1, <1>2, EnqueueHistory, CancelHistory, PurgeHistory DEF Environment, Tick
<1>3. ASSUME NEW w \in Worker, Dispatch(w) PROVE HistoryInv'
  <2>1. CASE StartRun(w)
    BY <2>1, StartHistory
  <2>2. CASE Sweep(w)
    BY <2>2, RecoverHistory, FailExhaustedHistory, CancelExpiredHistory,
       RunEndsHistory DEF Sweep, CancelExpiredAborts
  <2>3. CASE SelectBatch(w)
    BY <2>3, SelectHistory
  <2>4. CASE Visit(w)
    BY <2>4, LeaseHistory, SkipHistory, ReadHistory, RecordHistory DEF Visit
  <2>5. CASE \E result \in Results \ {"none"}, accepted \in BOOLEAN :
               Send(w, result, accepted)
    BY <2>5, SendHistory
  <2>6. CASE Record(w)
    BY <2>6, RecordHistory
  <2>7. QED
    BY <1>3, <2>1, <2>2, <2>3, <2>4, <2>5, <2>6 DEF Dispatch
<1>4. CASE \E w \in Worker : Crash(w)
  BY <1>4, RunEndsHistory DEF Crash
<1>5. QED
  BY <1>1, <1>2, <1>3, <1>4 DEF Next, vars

LEMMA FullInvariance == Spec => []FullInv
<1>1. Init => FullInv
  BY InitInv, InitHistory DEF FullInv
<1>2. FullInv /\ [Next]_vars => FullInv'
  BY NextInv, NextHistory DEF FullInv
<1>3. QED
  BY <1>1, <1>2, PTL DEF Spec

\* A row never says delivered for a message the provider did not accept.
THEOREM DeliveredIsTrue == Spec => []DeliveredWasAccepted
<1>1. FullInv => DeliveredWasAccepted
  BY DEF FullInv, HistoryInv, RowHistory, DeliveredWasAccepted
<1>2. QED
  BY <1>1, FullInvariance, PTL

\* However many dispatchers race, crash and stall: no second acceptance without
\* an ambiguous answer, a lease that ran out, or a purge.
THEOREM AtMostOnceWithoutCause == Spec => []DuplicateHasCause
<1>1. FullInv => DuplicateHasCause
  BY DEF FullInv, OutboxInv, TypeOK, Histories, HistoryInv, RowHistory,
         DuplicateHasCause
<1>2. QED
  BY <1>1, FullInvariance, PTL

-----------------------------------------------------------------------------
(***************************************************************************)
(* The steps: how a lease ends, what is sent after a cancellation, and     *)
(* that every step is one the delivery lifecycle allows.                   *)
(***************************************************************************)

\* Of all the steps of a run that owns a lease, only the statement that ends its
\* visit touches a row: its own.
LEMMA SettleStep ==
  ASSUME OutboxInv, NEW w \in Worker, worker[w].phase \in Holding,
         NEW state, NEW attempts, NEW nextAttempt, NEW updated,
         Settle(w, state, attempts, nextAttempt, updated)
  PROVE  \/ outbox' = outbox
         \/ /\ Owns(w)
            /\ worker[w].msg \in Message
            /\ outbox' = [outbox EXCEPT ![worker[w].msg] =
                 Released(outbox[worker[w].msg], state, attempts, nextAttempt, updated)]
<1>1. worker[w].msg \in Message
  BY OwnerFacts
<1>2. QED
  BY <1>1 DEF Settle

LEMMA VisitEnds ==
  ASSUME OutboxInv, NEW w \in Worker, Record(w) \/ ReleaseCanceled(w)
  PROVE  /\ worker[w].phase \in {"release", "record"}
         /\ worker'[w].phase \in {"idle", "lease"}
         /\ \A v \in Worker \ {w} : worker'[v] = worker[v]
         /\ \/ outbox' = outbox
            \/ /\ Owns(w)
               /\ worker[w].msg \in Message
               /\ \A m \in Message \ {worker[w].msg} : outbox'[m] = outbox[m]
<1>1. worker[w].phase \in {"release", "record"}
  BY DEF Record, ReleaseCanceled, RecordDelivered, RecordQuota, RecordRetry, RecordFailed
<1>2. PICK state, attempts, nextAttempt, updated :
        Settle(w, state, attempts, nextAttempt, updated)
  BY Zenon
  DEF Record, ReleaseCanceled, RecordDelivered, RecordQuota, RecordRetry, RecordFailed
<1>3. worker[w].now \in Times /\ worker[w].batch \in SUBSET Message
  BY DEF OutboxInv, TypeOK, Runs
<1>4. worker' = [worker EXCEPT ![w] = RunOn(worker[w].now, worker[w].batch)]
  BY <1>2 DEF Settle, OutboxInv, TypeOK
<1>5. /\ worker'[w].phase \in {"idle", "lease"}
      /\ \A v \in Worker \ {w} : worker'[v] = worker[v]
  BY <1>3, <1>4, RunOnType DEF OutboxInv, TypeOK
<1>6. worker[w].msg \in Message
  BY <1>1, OwnerFacts DEF Holding
<1>7. \/ outbox' = outbox
      \/ /\ Owns(w)
         /\ \A m \in Message \ {worker[w].msg} : outbox'[m] = outbox[m]
  BY <1>2, <1>6 DEF Settle, OutboxInv, TypeOK
<1>8. QED
  BY <1>1, <1>5, <1>6, <1>7
-----------------------------------------------------------------------------
(***************************************************************************)
(* How a lease ends.                                                       *)
(***************************************************************************)

LEMMA LeaseEndStep ==
  ASSUME OutboxInv, [Next]_vars, NEW m \in Message,
         outbox[m].state = "leased", outbox'[m].token # outbox[m].token
  PROVE  LeaseEnds(m)
<1>1. CASE Environment
  <2>1. CASE \E n \in Message : Enqueue(n)
    BY <2>1 DEF Enqueue, OutboxInv, TypeOK
  <2>2. CASE \E n \in Message, code \in CancellationCodes : Cancel(n, code)
    BY <2>2 DEF Cancel, OutboxInv, TypeOK, Rows
  <2>3. CASE \E n \in Message : Purge(n)
    BY <2>3 DEF Purge, OutboxInv, TypeOK
  <2>4. QED
    BY <1>1, <2>1, <2>2, <2>3 DEF Environment, Tick
<1>2. ASSUME NEW w \in Worker, Sweep(w) PROVE LeaseEnds(m)
  <2>1. CASE RecoverExpiredLeases(w)
    BY <2>1 DEF RecoverExpiredLeases, Overdue, LeaseEnds
  <2>2. CASE FailExhaustedLeases(w)
    BY <2>2 DEF FailExhaustedLeases, Overdue, LeaseEnds
  <2>3. CASE CancelExpired(w)
    BY <2>3 DEF CancelExpired, Outlived
  <2>4. QED
    BY <1>2, <2>1, <2>2, <2>3 DEF Sweep, CancelExpiredAborts
<1>3. ASSUME NEW w \in Worker, Record(w) \/ ReleaseCanceled(w) PROVE LeaseEnds(m)
  <2>1. worker[w].phase \in {"release", "record"}
    BY <1>3, VisitEnds
  <2>2. Owns(w) /\ worker[w].msg = m
    BY <1>3, VisitEnds
  <2>3. QED
    BY <2>1, <2>2 DEF Owns, LeaseEnds
<1>4. ASSUME NEW w \in Worker, NEW n \in Message, NEW t \in Token,
             LeaseCandidate(w, n, t)
      PROVE  LeaseEnds(m)
  BY <1>4 DEF LeaseCandidate, Leasable, OutboxInv, TypeOK
<1>5. ASSUME outbox' = outbox PROVE LeaseEnds(m)
  BY <1>5
<1>6. ASSUME NEW w \in Worker, Dispatch(w) PROVE LeaseEnds(m)
  BY <1>2, <1>3, <1>4, <1>5, <1>6
  DEF Dispatch, Visit, StartRun, SelectBatch, SkipCandidate, ReadRow, Send
<1>7. QED
  BY <1>1, <1>5, <1>6 DEF Next, Crash, vars

\* A worker that has lost its lease changes nothing, whatever it still believes:
\* a lease ends by its owner's statement or by a sweep after it ran out.
THEOREM StaleWorkersAreHarmless == Spec => StaleWorkerRecordsNothing
<1>1. OutboxInv /\ [Next]_vars
        => [\A m \in Message :
              outbox[m].state = "leased" /\ outbox'[m].token # outbox[m].token
                => LeaseEnds(m)]_vars
  BY LeaseEndStep
<1>2. QED
  BY <1>1, Invariance, PTL DEF Spec, StaleWorkerRecordsNothing
-----------------------------------------------------------------------------
(***************************************************************************)
(* What is sent after a cancellation.                                      *)
(***************************************************************************)

\* A run that is to call the provider was so before the step, or has just read a row
\* that is not canceled.
LEMMA SendStartStep ==
  ASSUME OutboxInv, [Next]_vars, NEW w \in Worker,
         worker'[w] # worker[w], worker'[w].phase = "send"
  PROVE  ~ Canceled(outbox[worker'[w].msg]) /\ outbox' = outbox
<1>1. ASSUME NEW v \in Worker, ReadRow(v)
      PROVE  ~ Canceled(outbox[worker'[w].msg]) /\ outbox' = outbox
  <2>1. w = v
    BY <1>1 DEF ReadRow, OutboxInv, TypeOK
  <2>2. worker[w] \in Runs /\ worker[w].now \in Times /\ worker[w].batch \in SUBSET Message
    BY DEF OutboxInv, TypeOK, Runs
  <2>3. RunOn(worker[w].now, worker[w].batch).phase # "send"
    BY <2>2, RunOnType
  <2>4. ~ Canceled(outbox[worker[w].msg]) /\ worker'[w].msg = worker[w].msg
    BY <1>1, <2>1, <2>2, <2>3 DEF ReadRow, OutboxInv, TypeOK, Runs
  <2>5. QED
    BY <1>1, <2>4 DEF ReadRow
<1>2. ASSUME NEW v \in Worker, NEW rest \in SUBSET Message,
             worker' = [worker EXCEPT ![v] = RunOn(worker[v].now, rest)]
      PROVE  FALSE
  <2>1. worker[v].now \in Times
    BY DEF OutboxInv, TypeOK, Runs
  <2>2. RunOn(worker[v].now, rest).phase # "send"
    BY <2>1, RunOnType
  <2>3. QED
    BY <1>2, <2>2 DEF OutboxInv, TypeOK
<1>3. ASSUME NEW v \in Worker, Dispatch(v), ~ ReadRow(v) PROVE FALSE
  <2>1. CASE StartRun(v)
    BY <2>1 DEF StartRun, RunAt, OutboxInv, TypeOK
  <2>2. CASE Sweep(v)
    <3>1. CASE CancelExpiredAborts(v)
      BY <3>1 DEF CancelExpiredAborts, NoRun, RunAt, OutboxInv, TypeOK
    <3>2. CASE \E next \in {"exhaust", "expire", "select"} :
                 worker' = [worker EXCEPT ![v].phase = next]
      BY <3>2 DEF OutboxInv, TypeOK, Runs
    <3>3. QED
      BY <2>2, <3>1, <3>2
      DEF Sweep, RecoverExpiredLeases, FailExhaustedLeases, CancelExpired
  <2>3. CASE SelectBatch(v)
    <3>1. PICK batch \in SUBSET Candidates(worker[v].now) :
            worker' = [worker EXCEPT ![v] = RunOn(worker[v].now, batch)]
      BY <2>3, Zenon DEF SelectBatch
    <3>2. batch \in SUBSET Message
      BY DEF Candidates
    <3>3. QED
      BY <1>2, <3>1, <3>2
  <2>4. CASE \E m \in Message, t \in Token : LeaseCandidate(v, m, t)
    BY <2>4 DEF LeaseCandidate, OutboxInv, TypeOK, Runs
  <2>5. ASSUME NEW m \in Message, SkipCandidate(v, m) PROVE FALSE
    <3>1. worker[v].batch \ {m} \in SUBSET Message
      BY DEF OutboxInv, TypeOK, Runs
    <3>2. worker' = [worker EXCEPT ![v] = RunOn(worker[v].now, worker[v].batch \ {m})]
      BY <2>5 DEF SkipCandidate, OutboxInv, TypeOK
    <3>3. QED
      BY <1>2, <3>1, <3>2
  <2>6. CASE Record(v) \/ ReleaseCanceled(v)
    BY <2>6, VisitEnds
  <2>7. CASE \E result \in Results \ {"none"}, accepted \in BOOLEAN :
               Send(v, result, accepted)
    BY <2>7 DEF Send, OutboxInv, TypeOK, Runs
  <2>8. QED
    BY <1>3, <2>1, <2>2, <2>3, <2>4, <2>5, <2>6, <2>7 DEF Dispatch, Visit
<1>4. ASSUME NEW v \in Worker, Crash(v) PROVE FALSE
  BY <1>4 DEF Crash, NoRun, RunAt, OutboxInv, TypeOK
<1>5. worker' = worker => FALSE
  OBVIOUS
<1>6. QED
  BY <1>1, <1>3, <1>4, <1>5 DEF Next, Environment, Enqueue, Cancel, Purge, Tick, vars

\* A run that is about to call with a canceled message was overtaken.
OvertakenKnown ==
  \A w \in Worker :
    worker[w].phase = "send" /\ Canceled(outbox[worker[w].msg]) => w \in overtaken

LEMMA OvertakenStep ==
  OutboxInv /\ OvertakenKnown /\ [WatchNext]_watched => OvertakenKnown'
<1> SUFFICES ASSUME OutboxInv, OvertakenKnown, [WatchNext]_watched, NEW w \in Worker,
                    worker'[w].phase = "send", Canceled(outbox'[worker'[w].msg])
             PROVE  w \in overtaken'
  BY DEF OvertakenKnown, Canceled
<1>1. CASE UNCHANGED watched
  BY <1>1 DEF watched, vars, OvertakenKnown, Canceled
<1>2. CASE WatchNext
  <2>1. worker'[w] = worker[w]
    BY <1>2, SendStartStep DEF WatchNext
  <2>2. w \in overtaken \/ NewlyCanceled(worker[w].msg)
    BY <2>1 DEF OvertakenKnown, NewlyCanceled
  <2>3. QED
    BY <1>2, <2>1, <2>2 DEF WatchNext, StillToCall
<1>3. QED
  BY <1>1, <1>2

\* The history variable is no part of the outbox: what holds of it holds here.
LEMMA WatchImplements == WatchSpec => Spec
<1>1. WatchInit => Init
  BY DEF WatchInit
<1>2. [WatchNext]_watched => [Next]_vars
  BY DEF WatchNext, watched
<1>3. QED
  BY <1>1, <1>2, PTL DEF WatchSpec, Spec

\* After a cancellation the provider accepts the message only in a call that the
\* cancellation came too late for, made by the owner of the lease or with a cause.
THEOREM CancellationsStopSends == WatchSpec => LateSendWasOvertaken
<1>1. WatchInit => OvertakenKnown
  BY DEF WatchInit, Init, NoRun, RunAt, OvertakenKnown
<1>2. FullInv => OutboxInv
  BY DEF FullInv
<1>3. FullInv /\ OvertakenKnown
        => [\A w \in Worker, result \in Results :
              Send(w, result, TRUE) /\ Canceled(outbox[worker[w].msg])
                => /\ w \in overtaken
                   /\ Owns(w) \/ history[worker[w].msg].excused]_watched
  BY DEF FullInv, HistoryInv, RunHistory, OvertakenKnown, Send, Holding
<1>4. QED
  BY <1>1, <1>2, <1>3, OvertakenStep, WatchImplements, FullInvariance, PTL
  DEF WatchSpec, LateSendWasOvertaken
-----------------------------------------------------------------------------
(***************************************************************************)
(* Every step is a step of the lifecycle or leaves it unchanged.           *)
(***************************************************************************)

\* What the lifecycle sees of a row.
View(row) == [state |-> row.state, attempts |-> row.attempts, canceled |-> Canceled(row)]

Views == [m \in Message |-> View(outbox[m])]

LEMMA ViewsSame ==
  ASSUME outbox' = outbox
  PROVE  Views' = Views
  BY DEF Views, View, Canceled

LEMMA ViewOfOne ==
  ASSUME OutboxInv, NEW m \in Message, NEW row,
         outbox' = [outbox EXCEPT ![m] = row]
  PROVE  Views' = [Views EXCEPT ![m] = View(row)]
  BY DEF Views, View, Canceled, OutboxInv, TypeOK

\* A step that rewrites the state of some rows and leaves the others alone.
LEMMA ViewsOfMany ==
  ASSUME NEW S \in SUBSET Message, NEW state,
         \A m \in S : /\ outbox'[m].state = state
                     /\ outbox'[m].attempts = outbox[m].attempts
                     /\ outbox'[m].cancellation = outbox[m].cancellation,
         \A m \in Message \ S : outbox'[m] = outbox[m]
  PROVE  Views' = [m \in Message |->
           IF m \in S THEN [Views[m] EXCEPT !.state = state] ELSE Views[m]]
<1>1. ASSUME NEW m \in Message
      PROVE  View(outbox[m])' = IF m \in S THEN [Views[m] EXCEPT !.state = state]
                                          ELSE Views[m]
  BY DEF Views, View, Canceled
<1>2. QED
  BY <1>1 DEF Views

LEMMA InitRefines == Init => Lifecycle!Init
<1> SUFFICES ASSUME Init PROVE Lifecycle!Init
  OBVIOUS
<1>1. View(AbsentRow) = [state |-> "absent", attempts |-> 0, canceled |-> FALSE]
  BY DEF View, AbsentRow, Canceled
<1>2. \A m \in Message : View(outbox[m]) = View(AbsentRow)
  BY DEF Init
<1>3. QED
  BY <1>1, <1>2 DEF Lifecycle!Init, Lifecycle!Absent, View

\* The lifecycle's next-state relation over the views.
LEMMA EnqueueRefines ==
  ASSUME OutboxInv, NEW m \in Message, Enqueue(m)
  PROVE  Lifecycle!Enqueue(m)
<1>1. PICK expires : outbox' = [outbox EXCEPT ![m] = QueuedRow(clock, expires)]
  BY Zenon DEF Enqueue
<1>2. View(QueuedRow(clock, expires))
        = [state |-> "queued", attempts |-> 0, canceled |-> FALSE]
  BY DEF View, QueuedRow, Canceled
<1>3. Views' = [Views EXCEPT ![m] = [state |-> "queued", attempts |-> 0, canceled |-> FALSE]]
  BY <1>1, <1>2, ViewOfOne
<1>4. Views[m].state = "absent"
  BY DEF Enqueue, Views, View
<1>5. QED
  BY <1>3, <1>4 DEF Lifecycle!Enqueue, Lifecycle!Absent, Views, View

LEMMA CancelRefines ==
  ASSUME OutboxInv, NEW m \in Message, NEW code \in CancellationCodes, Cancel(m, code)
  PROVE  Lifecycle!Cancel({m})
<1>1. code # "none"
  BY DEF CancellationCodes
<1>2. /\ outbox'[m].state = outbox[m].state
      /\ outbox'[m].attempts = outbox[m].attempts
      /\ Canceled(outbox'[m])
      /\ \A n \in Message \ {m} : outbox'[n] = outbox[n]
  BY <1>1 DEF Cancel, Canceled, OutboxInv, TypeOK, Rows
<1>3. ASSUME NEW n \in Message
      PROVE  View(outbox[n])' = IF n \in {m} THEN [Views[n] EXCEPT !.canceled = TRUE]
                                            ELSE Views[n]
  BY <1>2 DEF Views, View, Canceled
<1>4. Views' = [n \in Message |-> IF n \in {m} THEN [Views[n] EXCEPT !.canceled = TRUE]
                                             ELSE Views[n]]
  BY <1>3 DEF Views
<1>5. Views[m].state \in {"queued", "leased"} /\ ~ Views[m].canceled
  BY DEF Cancel, Views, View
<1>6. QED
  BY <1>4, <1>5 DEF Lifecycle!Cancel, Views, View

LEMMA CancelExpiredRefines ==
  ASSUME OutboxInv, NEW w \in Worker, CancelExpired(w)
  PROVE  Lifecycle!Cancel(Outlived(w))
<1>1. \A m \in Outlived(w) : /\ outbox'[m].state = outbox[m].state
                            /\ outbox'[m].attempts = outbox[m].attempts
                            /\ Canceled(outbox'[m])
  BY DEF CancelExpired, Outlived, Canceled, OutboxInv, TypeOK, Rows
<1>2. \A m \in Message \ Outlived(w) : outbox'[m] = outbox[m]
  BY DEF CancelExpired
<1>3. ASSUME NEW n \in Message
      PROVE  View(outbox[n])' = IF n \in Outlived(w)
                                THEN [Views[n] EXCEPT !.canceled = TRUE] ELSE Views[n]
  BY <1>1, <1>2 DEF Views, View, Canceled
<1>4. Views' = [n \in Message |->
        IF n \in Outlived(w) THEN [Views[n] EXCEPT !.canceled = TRUE] ELSE Views[n]]
  BY <1>3 DEF Views
<1>5. \A m \in Outlived(w) : Views[m].state = "queued" /\ ~ Views[m].canceled
  BY DEF Outlived, Views, View
<1>6. QED
  BY <1>4, <1>5 DEF Lifecycle!Cancel, Views, View

LEMMA PurgeRefines ==
  ASSUME OutboxInv, NEW m \in Message, Purge(m)
  PROVE  Lifecycle!Purge(m)
<1>1. outbox' = [outbox EXCEPT ![m] = AbsentRow]
  BY DEF Purge
<1>2. View(AbsentRow) = [state |-> "absent", attempts |-> 0, canceled |-> FALSE]
  BY DEF View, AbsentRow, Canceled
<1>3. Views' = [Views EXCEPT ![m] = [state |-> "absent", attempts |-> 0, canceled |-> FALSE]]
  BY <1>1, <1>2, ViewOfOne
<1>4. outbox[m].state \in RowStates
  BY DEF OutboxInv, TypeOK, Rows
<1>5. \/ Views[m].state \in {"delivered", "failed"}
      \/ Views[m].state = "queued" /\ Views[m].canceled
  BY <1>4 DEF Purge, Views, View, RowStates
<1>6. QED
  BY <1>3, <1>5 DEF Lifecycle!Purge, Lifecycle!Absent, Views, View

LEMMA RecoverRefines ==
  ASSUME OutboxInv, NEW w \in Worker, RecoverExpiredLeases(w)
  PROVE  \E S \in SUBSET Message : Lifecycle!Requeue(S)
<1> DEFINE S == {m \in Overdue(w) : outbox[m].attempts < MaxAttempts}
<1>1. S \in SUBSET Message
  BY DEF Overdue
<1>2. \A m \in S : /\ outbox'[m].state = "queued"
                  /\ outbox'[m].attempts = outbox[m].attempts
                  /\ outbox'[m].cancellation = outbox[m].cancellation
  BY <1>1 DEF RecoverExpiredLeases, Released
<1>3. \A m \in Message \ S : outbox'[m] = outbox[m]
  BY DEF RecoverExpiredLeases
<1>4. Views' = [m \in Message |->
        IF m \in S THEN [Views[m] EXCEPT !.state = "queued"] ELSE Views[m]]
  BY <1>1, <1>2, <1>3, ViewsOfMany
<1>5. \A m \in S : Views[m].state = "leased" /\ Views[m].attempts < MaxAttempts
  BY DEF Overdue, Views, View
<1>6. Lifecycle!Requeue(S)
  BY <1>4, <1>5 DEF Lifecycle!Requeue, Views, View
<1> HIDE DEF S
<1>7. QED
  BY <1>1, <1>6 DEF Lifecycle!Requeue

LEMMA FailExhaustedRefines ==
  ASSUME OutboxInv, NEW w \in Worker, FailExhaustedLeases(w)
  PROVE  \E S \in SUBSET Message : Lifecycle!Fail(S)
<1> DEFINE S == {m \in Overdue(w) : outbox[m].attempts >= MaxAttempts}
<1>1. S \in SUBSET Message
  BY DEF Overdue
<1>2. \A m \in S : /\ outbox'[m].state = "failed"
                  /\ outbox'[m].attempts = outbox[m].attempts
                  /\ outbox'[m].cancellation = outbox[m].cancellation
  BY <1>1 DEF FailExhaustedLeases, Released
<1>3. \A m \in Message \ S : outbox'[m] = outbox[m]
  BY DEF FailExhaustedLeases
<1>4. Views' = [m \in Message |->
        IF m \in S THEN [Views[m] EXCEPT !.state = "failed"] ELSE Views[m]]
  BY <1>1, <1>2, <1>3, ViewsOfMany
<1>5. \A m \in S : Views[m].state = "leased"
  BY DEF Overdue, Views, View
<1>6. Lifecycle!Fail(S)
  BY <1>4, <1>5 DEF Lifecycle!Fail, Views, View
<1> HIDE DEF S
<1>7. QED
  BY <1>1, <1>6 DEF Lifecycle!Fail

LEMMA LeaseRefines ==
  ASSUME OutboxInv, NEW w \in Worker, NEW m \in Message, NEW t \in Token,
         LeaseCandidate(w, m, t)
  PROVE  Lifecycle!Lease(m)
<1> DEFINE row == Leased(outbox[m], t, worker[w].now)
<1>1. outbox' = [outbox EXCEPT ![m] = row]
  BY DEF LeaseCandidate, OutboxInv, TypeOK
<1>2. Views[m].state = "queued" /\ ~ Views[m].canceled /\ Views[m].attempts < MaxAttempts
  BY DEF LeaseCandidate, Leasable, OutboxInv, QueuedHasBudget, Views, View
<1>3. View(row) = [state |-> "leased", attempts |-> Views[m].attempts + 1,
                   canceled |-> FALSE]
  BY <1>2 DEF View, Leased, Canceled, Views
<1>4. Views' = [Views EXCEPT ![m] = View(row)]
  BY <1>1, ViewOfOne
<1>5. QED
  BY <1>2, <1>3, <1>4 DEF Lifecycle!Lease, Views, View

\* A run that ends its visit does to the view of its row what it does to the row.
LEMMA ViewSettled ==
  ASSUME OutboxInv, NEW w \in Worker, worker[w].phase \in Holding,
         NEW state, NEW attempts, NEW nextAttempt, NEW updated,
         Settle(w, state, attempts, nextAttempt, updated)
  PROVE  \/ Views' = Views
         \/ /\ Owns(w)
            /\ worker[w].msg \in Message
            /\ Views[worker[w].msg].state = "leased"
            /\ Views' = [Views EXCEPT ![worker[w].msg] =
                 [state |-> state, attempts |-> attempts,
                  canceled |-> Views[worker[w].msg].canceled]]
<1> DEFINE m == worker[w].msg
           row == Released(outbox[m], state, attempts, nextAttempt, updated)
<1>1. CASE outbox' = outbox
  BY <1>1, ViewsSame
<1>2. CASE outbox' # outbox
  <2>1. Owns(w) /\ m \in Message /\ outbox' = [outbox EXCEPT ![m] = row]
    BY <1>2, SettleStep
  <2>2. Views' = [Views EXCEPT ![m] = View(row)]
    BY <2>1, ViewOfOne
  <2>3. View(row) = [state |-> state, attempts |-> attempts, canceled |-> Views[m].canceled]
    BY <2>1 DEF View, Released, Canceled, Views
  <2>4. Views[m].state = "leased"
    BY <2>1 DEF Owns, Views, View
  <2>5. QED
    BY <2>1, <2>2, <2>3, <2>4
<1>3. QED
  BY <1>1, <1>2

LEMMA DeliveredRefines ==
  ASSUME OutboxInv, NEW w \in Worker, RecordDelivered(w)
  PROVE  Views' = Views \/ \E m \in Message : Lifecycle!Deliver(m)
<1> DEFINE m == worker[w].msg
<1>1. worker[w].phase \in Holding
  BY DEF RecordDelivered, Holding
<1>2. CASE Views' = Views
  BY <1>2
<1>3. CASE Views' # Views
  <2>1. /\ m \in Message /\ Views[m].state = "leased"
        /\ Views' = [Views EXCEPT ![m] = [state |-> "delivered",
                        attempts |-> outbox[m].attempts, canceled |-> Views[m].canceled]]
    BY <1>1, <1>3, ViewSettled DEF RecordDelivered
  <2>2. Views' = [Views EXCEPT ![m].state = "delivered"]
    BY <2>1 DEF Views, View
  <2>3. Lifecycle!Deliver(m)
    BY <2>1, <2>2 DEF Lifecycle!Deliver, Views, View
  <2>4. \E n \in Message : Lifecycle!Deliver(n)
    BY <2>1, <2>3 DEF Lifecycle!Deliver
  <2>5. QED
    BY <2>4
<1>4. QED
  BY <1>2, <1>3

LEMMA RefundRefines ==
  ASSUME OutboxInv, NEW w \in Worker, RecordQuota(w) \/ ReleaseCanceled(w)
  PROVE  Views' = Views \/ \E m \in Message : Lifecycle!Refund(m)
<1> DEFINE m == worker[w].msg
<1>1. worker[w].phase \in Holding
  BY DEF RecordQuota, ReleaseCanceled, Holding
<1>2. CASE Views' = Views
  BY <1>2
<1>3. CASE Views' # Views
  <2>1. /\ m \in Message /\ Owns(w) /\ Views[m].state = "leased"
        /\ Views' = [Views EXCEPT ![m] = [state |-> "queued",
             attempts |-> Refunded(outbox[m].attempts), canceled |-> Views[m].canceled]]
    BY <1>1, <1>3, ViewSettled DEF RecordQuota, ReleaseCanceled
  <2>2. Refunded(outbox[m].attempts) = Views[m].attempts - 1
    <3>1. outbox[m].attempts \in 0 .. MaxAttempts /\ outbox[m].attempts >= 1
      BY <1>1, <2>1, OwnerFacts
    <3>2. Views[m].attempts = outbox[m].attempts
      BY <2>1 DEF Views, View
    <3>3. QED
      BY <3>1, <3>2, RefundedType
  <2>3. Lifecycle!Refund(m)
    BY <2>1, <2>2 DEF Lifecycle!Refund, Views, View
  <2>4. \E n \in Message : Lifecycle!Refund(n)
    BY <2>1, <2>3 DEF Lifecycle!Refund
  <2>5. QED
    BY <2>4
<1>4. QED
  BY <1>2, <1>3

\* The view of a step that changes the state of one leased row.
LEMMA ViewOfSingle ==
  ASSUME NEW m \in Message, NEW state,
         Views' = [Views EXCEPT ![m] = [state |-> state, attempts |-> outbox[m].attempts,
                                        canceled |-> Views[m].canceled]]
  PROVE  Views' = [n \in Message |->
           IF n \in {m} THEN [Views[n] EXCEPT !.state = state] ELSE Views[n]]
<1>1. Views[m] = View(outbox[m])
  BY DEF Views
<1>2. [state |-> state, attempts |-> outbox[m].attempts, canceled |-> Views[m].canceled]
        = [Views[m] EXCEPT !.state = state]
  BY <1>1 DEF View
<1>3. QED
  BY <1>2 DEF Views

LEMMA RetryRefines ==
  ASSUME OutboxInv, NEW w \in Worker, RecordRetry(w)
  PROVE  Views' = Views \/ \E S \in SUBSET Message : Lifecycle!Requeue(S)
<1> DEFINE m == worker[w].msg
<1>1. worker[w].phase \in Holding /\ worker[w].phase = "record"
  BY DEF RecordRetry, Holding
<1>2. CASE Views' = Views
  BY <1>2
<1>3. CASE Views' # Views
  <2>1. /\ m \in Message /\ Owns(w) /\ Views[m].state = "leased"
        /\ Views' = [Views EXCEPT ![m] = [state |-> "queued",
             attempts |-> outbox[m].attempts, canceled |-> Views[m].canceled]]
    BY <1>1, <1>3, ViewSettled DEF RecordRetry
  <2>2. Views[m].attempts < MaxAttempts
    BY <1>1, <2>1, OwnerFacts DEF RecordRetry, Views, View
  <2>3. Lifecycle!Requeue({m}) /\ {m} \in SUBSET Message
    BY <2>1, <2>2, ViewOfSingle DEF Lifecycle!Requeue, Views, View
  <2>4. \E S \in SUBSET Message : Lifecycle!Requeue(S)
    BY <2>3 DEF Lifecycle!Requeue
  <2>5. QED
    BY <2>4
<1>4. QED
  BY <1>2, <1>3

LEMMA FailedRefines ==
  ASSUME OutboxInv, NEW w \in Worker, RecordFailed(w)
  PROVE  Views' = Views \/ \E S \in SUBSET Message : Lifecycle!Fail(S)
<1> DEFINE m == worker[w].msg
<1>1. worker[w].phase \in Holding
  BY DEF RecordFailed, Holding
<1>2. CASE Views' = Views
  BY <1>2
<1>3. CASE Views' # Views
  <2>1. /\ m \in Message /\ Views[m].state = "leased"
        /\ Views' = [Views EXCEPT ![m] = [state |-> "failed",
             attempts |-> outbox[m].attempts, canceled |-> Views[m].canceled]]
    BY <1>1, <1>3, ViewSettled DEF RecordFailed
  <2>2. Lifecycle!Fail({m}) /\ {m} \in SUBSET Message
    BY <2>1, ViewOfSingle DEF Lifecycle!Fail, Views, View
  <2>3. \E S \in SUBSET Message : Lifecycle!Fail(S)
    BY <2>2 DEF Lifecycle!Fail
  <2>4. QED
    BY <2>3
<1>4. QED
  BY <1>2, <1>3

LEMMA NextRefines ==
  ASSUME OutboxInv, [Next]_vars
  PROVE  Lifecycle!Next \/ Views' = Views
<1>1. ASSUME outbox' = outbox PROVE Views' = Views
  BY <1>1, ViewsSame
<1>2. CASE Environment
  <2>1. ASSUME NEW m \in Message, Enqueue(m) PROVE Lifecycle!Next
    BY <2>1, EnqueueRefines DEF Lifecycle!Next
  <2>2. ASSUME NEW m \in Message, NEW code \in CancellationCodes, Cancel(m, code)
        PROVE  Lifecycle!Next
    <3>1. Lifecycle!Cancel({m}) /\ {m} \in SUBSET Message
      BY <2>2, CancelRefines
    <3>2. QED
      BY <3>1 DEF Lifecycle!Next, Lifecycle!Cancel
  <2>3. ASSUME NEW m \in Message, Purge(m) PROVE Lifecycle!Next
    BY <2>3, PurgeRefines DEF Lifecycle!Next
  <2>4. QED
    BY <1>1, <1>2, <2>1, <2>2, <2>3 DEF Environment, Tick
<1>3. ASSUME NEW w \in Worker, Sweep(w) PROVE Lifecycle!Next \/ Views' = Views
  <2>1. CASE RecoverExpiredLeases(w)
    BY <2>1, RecoverRefines DEF Lifecycle!Next
  <2>2. CASE FailExhaustedLeases(w)
    BY <2>2, FailExhaustedRefines DEF Lifecycle!Next
  <2>3. CASE CancelExpired(w)
    <3>1. Lifecycle!Cancel(Outlived(w)) /\ Outlived(w) \in SUBSET Message
      BY <2>3, CancelExpiredRefines DEF Outlived
    <3>2. QED
      BY <3>1 DEF Lifecycle!Next, Lifecycle!Cancel
  <2>4. QED
    BY <1>1, <1>3, <2>1, <2>2, <2>3 DEF Sweep, CancelExpiredAborts
<1>4. ASSUME NEW w \in Worker, Visit(w) PROVE Lifecycle!Next \/ Views' = Views
  <2>1. ASSUME NEW m \in Message, NEW t \in Token, LeaseCandidate(w, m, t)
        PROVE  Lifecycle!Next
    BY <2>1, LeaseRefines DEF Lifecycle!Next
  <2>2. CASE ReleaseCanceled(w)
    BY <2>2, RefundRefines DEF Lifecycle!Next
  <2>3. QED
    BY <1>1, <1>4, <2>1, <2>2 DEF Visit, SkipCandidate, ReadRow
<1>5. ASSUME NEW w \in Worker, Record(w) PROVE Lifecycle!Next \/ Views' = Views
  BY <1>5, DeliveredRefines, RefundRefines, RetryRefines, FailedRefines
  DEF Record, Lifecycle!Next
<1>6. ASSUME NEW w \in Worker, Dispatch(w) PROVE Lifecycle!Next \/ Views' = Views
  BY <1>1, <1>3, <1>4, <1>5, <1>6 DEF Dispatch, StartRun, SelectBatch, Send
<1>7. QED
  BY <1>1, <1>2, <1>6 DEF Next, Crash, vars

\* The dispatchers, with their clocks, tokens and stale locals, implement the
\* lifecycle the triggers and the attempt budget promise.
THEOREM Refinement == Spec => ImplementsLifecycle
<1>1. OutboxInv /\ [Next]_vars
        => [Lifecycle!Next]_[m \in Message |-> [state    |-> outbox[m].state,
                                               attempts |-> outbox[m].attempts,
                                               canceled |-> Canceled(outbox[m])]]
  BY NextRefines DEF Views, View
<1>2. QED
  BY <1>1, InitRefines, Invariance, PTL DEF Spec, ImplementsLifecycle, Lifecycle!Spec
=============================================================================
