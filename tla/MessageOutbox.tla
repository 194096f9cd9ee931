--------------------------- MODULE MessageOutbox ---------------------------
(***************************************************************************)
(* The transactional-message outbox of ConfPilot: the table message_outbox *)
(* (migrations 0011, 0016 and 0022), the operations that add, cancel and   *)
(* purge its rows, and the dispatcher dispatchQueuedMessages, which any    *)
(* number of processes run against the same table with no lock between     *)
(* them.  A step of this module is one SQL statement or one provider call  *)
(* of one process, so statements of different runs interleave freely.      *)
(*                                                                         *)
(* Time is a number of ticks up to Horizon.  An instant later than Horizon *)
(* is represented by Horizon itself, so once the clock stands there every  *)
(* timer is due: the state space is finite and a behaviour can go on.      *)
(***************************************************************************)
EXTENDS Naturals, FiniteSets

CONSTANTS
  Message,      \* a message is what (event_id, dedupe_key) identifies
  Worker,       \* processes, or overlapping cron invocations, that dispatch
  Token,        \* opaque lease owner tokens
  NoMessage, NoToken,
  Priority,     \* Priority[m]: the rank of m's intent in the dispatch order
  MaxAttempts,  \* MAX_DELIVERY_ATTEMPTS
  BatchLimit,   \* rows one run takes at most (limit)
  LeaseTime,    \* leaseSeconds
  BackoffBase, BackoffCap,  \* 30 seconds and 3600 seconds
  QuotaDelay,   \* the wait after a daily-quota answer, 86 400 seconds
  Lifetime,     \* how long a message with an expiry lives
  SendAfter,    \* EMAIL_DELIVERY_SEND_AFTER
  Horizon       \* bound: the last instant told apart

ASSUME OutboxAssumption ==
  /\ NoMessage \notin Message
  /\ NoToken \notin Token
  /\ Priority \in [Message -> Nat]
  /\ MaxAttempts \in Nat \ {0}
  /\ BatchLimit \in Nat \ {0}
  /\ LeaseTime \in Nat \ {0}
  /\ BackoffBase \in Nat \ {0}
  /\ BackoffCap \in Nat \ {0}
  /\ QuotaDelay \in Nat
  /\ Lifetime \in Nat
  /\ SendAfter \in Nat
  /\ Horizon \in Nat

VARIABLES
  clock,    \* wall-clock time
  outbox,   \* outbox[m]: the row of message m, or AbsentRow
  worker,   \* worker[w]: where process w is in its run, and its locals
  history   \* what the provider did with each message (not in the database)

vars == <<clock, outbox, worker, history>>
-----------------------------------------------------------------------------
Times == 0 .. Horizon
Never == Horizon + 1           \* expires_at IS NULL

After(t, d) == IF t + d <= Horizon THEN t + d ELSE Horizon
Later(t, u) == IF t <= u THEN u ELSE t

\* MIN(3600, 30 * 2^(n-1)), the wait after the n-th attempt
Backoff(n) ==
  LET wait == BackoffBase * 2 ^ (n - 1)
  IN  IF wait <= BackoffCap THEN wait ELSE BackoffCap

\* True of any numbers: stated because the provers have no theory of x ^ y.
ASSUME BackoffAssumption == \A n \in 1 .. MaxAttempts : Backoff(n) \in Nat

RowStates == {"absent", "queued", "leased", "delivered", "failed"}
\* INVITATION_ENDED stands for INVITATION_ACCEPTED and INVITATION_REVOKED.
CancellationCodes == {"MESSAGE_EXPIRED", "INVITATION_ENDED"}

Rows ==
  [state: RowStates, attempts: 0 .. MaxAttempts, nextAttempt: Times,
   leaseExpires: Times, token: Token \cup {NoToken}, updated: Times,
   expires: 0 .. Never, eligible: BOOLEAN,
   cancellation: CancellationCodes \cup {"none"}]

AbsentRow ==
  [state |-> "absent", attempts |-> 0, nextAttempt |-> 0, leaseExpires |-> 0,
   token |-> NoToken, updated |-> 0, expires |-> 0, eligible |-> FALSE,
   cancellation |-> "none"]

Phases == {"idle", "recover", "exhaust", "expire", "select",
           "lease", "read", "release", "send", "record"}
Results == {"none", "ok", "quota", "retryable", "permanent"}

Runs ==
  [phase: Phases, now: Times, batch: SUBSET Message,
   msg: Message \cup {NoMessage}, token: Token \cup {NoToken},
   attempts: 0 .. MaxAttempts, result: Results]

\* A run in a phase in which it holds no row, and the process without a run.
RunAt(phase, now, batch) ==
  [phase |-> phase, now |-> now, batch |-> batch, msg |-> NoMessage,
   token |-> NoToken, attempts |-> 0, result |-> "none"]

NoRun == RunAt("idle", 0, {})

\* accepts counts the provider's acceptances of m up to 2; excused says that
\* something happened to m after which the system admits a second send.
Histories == [accepts: 0 .. 2, excused: BOOLEAN]

\* The columns of a freshly inserted row.
QueuedRow(now, expires) ==
  [state |-> "queued", attempts |-> 0, nextAttempt |-> now, leaseExpires |-> 0,
   token |-> NoToken, updated |-> now, expires |-> expires,
   eligible |-> now >= SendAfter, cancellation |-> "none"]

Canceled(row) == row.cancellation # "none"

\* A lease spends an attempt; it counts from the start of the run that takes it.
Leased(row, token, now) ==
  [state |-> "leased", attempts |-> row.attempts + 1,
   nextAttempt |-> row.nextAttempt, leaseExpires |-> After(now, LeaseTime),
   token |-> token, updated |-> now, expires |-> row.expires,
   eligible |-> row.eligible, cancellation |-> row.cancellation]

\* Whatever ends a lease clears lease_expires_at and lease_token.
Released(row, state, attempts, nextAttempt, updated) ==
  [state |-> state, attempts |-> attempts, nextAttempt |-> nextAttempt,
   leaseExpires |-> 0, token |-> NoToken, updated |-> updated,
   expires |-> row.expires, eligible |-> row.eligible,
   cancellation |-> row.cancellation]

\* attempt_count = max(attempt_count - 1, 0)
Refunded(n) == IF n > 0 THEN n - 1 ELSE 0
-----------------------------------------------------------------------------
(***************************************************************************)
(* The rest of the system, as the outbox sees it.                          *)
(***************************************************************************)

\* prepareMessageInsert and enqueueMessage.  The insert of the latter does
\* nothing when the row exists (ON CONFLICT DO NOTHING), which is a stutter.
Enqueue(m) ==
  /\ outbox[m].state = "absent"
  /\ \E expires \in {After(clock, Lifetime), Never} :
       /\ expires > clock
       /\ outbox' = [outbox EXCEPT ![m] = QueuedRow(clock, expires)]
  /\ UNCHANGED <<clock, worker, history>>

\* The cancellation an invitation route puts first in its batch.
Cancel(m, code) ==
  /\ outbox[m].state \in {"queued", "leased"}
  /\ ~ Canceled(outbox[m])
  /\ code = "MESSAGE_EXPIRED" => outbox[m].expires <= clock
  /\ outbox' = [outbox EXCEPT
       ![m].cancellation = code,
       ![m].updated = Later(@, clock)]
  /\ UNCHANGED <<clock, worker, history>>

\* Mutant of Purge: a canceled row is purged under a lease.
PurgeLeased(m) ==
  /\ outbox[m].state \in {"delivered", "failed"} \/ Canceled(outbox[m])
  /\ outbox' = [outbox EXCEPT ![m] = AbsentRow]
  /\ history' = [history EXCEPT ![m].excused = TRUE]
  /\ UNCHANGED <<clock, worker>>

\* purgeTerminalMessages with a cutoff the host chooses.
Purge(m) ==
  /\ outbox[m].state # "absent"
  /\ outbox[m].state \in {"delivered", "failed"} \/ Canceled(outbox[m])
  /\ outbox[m].state # "leased"
  /\ outbox' = [outbox EXCEPT ![m] = AbsentRow]
  /\ history' = [history EXCEPT ![m].excused = TRUE]
  /\ UNCHANGED <<clock, worker>>

Tick ==
  /\ clock < Horizon
  /\ clock' = clock + 1
  /\ UNCHANGED <<outbox, worker, history>>
-----------------------------------------------------------------------------
(***************************************************************************)
(* The three sweeps that open a run.                                       *)
(***************************************************************************)

\* A timer or cron tick.  now is fixed here for the whole run.
StartRun(w) ==
  /\ worker[w].phase = "idle"
  /\ worker' = [worker EXCEPT ![w] = RunAt("recover", clock, {})]
  /\ UNCHANGED <<clock, outbox, history>>

Overdue(w) ==
  {m \in Message : /\ outbox[m].state = "leased"
                   /\ outbox[m].leaseExpires <= worker[w].now}

\* Mutant of RecoverExpiredLeases: attempt_count <= ? for attempt_count < ?.
RecoverSpentLeases(w) ==
  LET now == worker[w].now
  IN  /\ worker[w].phase = "recover"
      /\ outbox' = [m \in Message |->
           IF m \in Overdue(w)
           THEN Released(outbox[m], "queued", outbox[m].attempts,
                         After(now, Backoff(outbox[m].attempts)), now)
           ELSE outbox[m]]
      /\ history' = [m \in Message |->
           IF m \in Overdue(w) THEN [history[m] EXCEPT !.excused = TRUE]
                               ELSE history[m]]
      /\ worker' = [worker EXCEPT ![w].phase = "exhaust"]
      /\ UNCHANGED clock

RecoverExpiredLeases(w) ==
  LET now == worker[w].now
      recovered == {m \in Overdue(w) : outbox[m].attempts < MaxAttempts}
  IN  /\ worker[w].phase = "recover"
      /\ outbox' = [m \in Message |->
           IF m \in recovered
           THEN Released(outbox[m], "queued", outbox[m].attempts,
                         After(now, Backoff(outbox[m].attempts)), now)
           ELSE outbox[m]]
      /\ history' = [m \in Message |->
           IF m \in recovered THEN [history[m] EXCEPT !.excused = TRUE]
                              ELSE history[m]]
      /\ worker' = [worker EXCEPT ![w].phase = "exhaust"]
      /\ UNCHANGED clock

FailExhaustedLeases(w) ==
  LET now == worker[w].now
      exhausted == {m \in Overdue(w) : outbox[m].attempts >= MaxAttempts}
  IN  /\ worker[w].phase = "exhaust"
      /\ outbox' = [m \in Message |->
           IF m \in exhausted
           THEN Released(outbox[m], "failed", outbox[m].attempts,
                         outbox[m].nextAttempt, now)
           ELSE outbox[m]]
      /\ history' = [m \in Message |->
           IF m \in exhausted THEN [history[m] EXCEPT !.excused = TRUE]
                              ELSE history[m]]
      /\ worker' = [worker EXCEPT ![w].phase = "expire"]
      /\ UNCHANGED clock

Outlived(w) ==
  {m \in Message : /\ outbox[m].state = "queued"
                   /\ ~ Canceled(outbox[m])
                   /\ outbox[m].expires <= worker[w].now}

CancelExpired(w) ==
  /\ worker[w].phase = "expire"
  /\ \A m \in Outlived(w) : outbox[m].updated <= worker[w].now
  /\ outbox' = [m \in Message |->
       IF m \in Outlived(w)
       THEN [outbox[m] EXCEPT !.cancellation = "MESSAGE_EXPIRED",
                              !.updated = worker[w].now]
       ELSE outbox[m]]
  /\ worker' = [worker EXCEPT ![w].phase = "select"]
  /\ UNCHANGED <<clock, history>>

\* message_outbox_cancellation_update aborts the whole statement when one of
\* its rows was updated after this run's now; the exception ends the run.
CancelExpiredAborts(w) ==
  /\ worker[w].phase = "expire"
  /\ \E m \in Outlived(w) : outbox[m].updated > worker[w].now
  /\ worker' = [worker EXCEPT ![w] = NoRun]
  /\ UNCHANGED <<clock, outbox, history>>
-----------------------------------------------------------------------------
(***************************************************************************)
(* The batch: select, then lease, read, send and record one row at a time. *)
(***************************************************************************)

Candidates(now) ==
  {m \in Message : /\ outbox[m].state = "queued"
                   /\ outbox[m].eligible
                   /\ outbox[m].nextAttempt <= now
                   /\ outbox[m].attempts < MaxAttempts
                   /\ ~ Canceled(outbox[m])
                   /\ outbox[m].expires > now}

\* ORDER BY intent, next_attempt_at; what is left of the order is free.
Before(m, n) ==
  \/ Priority[m] < Priority[n]
  \/ Priority[m] = Priority[n] /\ outbox[m].nextAttempt < outbox[n].nextAttempt

IsBatch(batch, candidates) ==
  /\ Cardinality(batch) <= BatchLimit
  /\ batch # candidates => Cardinality(batch) = BatchLimit
  /\ \A m \in batch, n \in candidates \ batch : ~ Before(n, m)

\* What is left of a run that still has to visit the candidates in rest.
RunOn(now, rest) == IF rest = {} THEN NoRun ELSE RunAt("lease", now, rest)

SelectBatch(w) ==
  LET now == worker[w].now
  IN  /\ worker[w].phase = "select"
      /\ \E batch \in SUBSET Candidates(now) :
           /\ IsBatch(batch, Candidates(now))
           /\ worker' = [worker EXCEPT ![w] = RunOn(now, batch)]
      /\ UNCHANGED <<clock, outbox, history>>

NextInBatch(w, m) ==
  /\ worker[w].phase = "lease"
  /\ m \in worker[w].batch
  /\ \A n \in worker[w].batch : Priority[m] <= Priority[n]

\* Mutant of Leasable: the lease forgets AND state = 'queued'.
LeasableInAnyState(row, now) ==
  /\ row.state # "absent"
  /\ row.nextAttempt <= now
  /\ ~ Canceled(row)
  /\ row.expires > now

Leasable(row, now) ==
  /\ row.state = "queued"
  /\ row.nextAttempt <= now
  /\ ~ Canceled(row)
  /\ row.expires > now

Fresh(t) ==
  /\ \A m \in Message : outbox[m].token # t
  /\ \A w \in Worker : worker[w].token # t

\* The compare-and-set.  A random UUID is a token nobody holds.
LeaseCandidate(w, m, t) ==
  /\ NextInBatch(w, m)
  /\ Leasable(outbox[m], worker[w].now)
  /\ Fresh(t)
  /\ outbox' = [outbox EXCEPT ![m] = Leased(@, t, worker[w].now)]
  /\ worker' = [worker EXCEPT ![w] =
       [worker[w] EXCEPT !.phase = "read", !.batch = worker[w].batch \ {m},
                         !.msg = m, !.token = t]]
  /\ UNCHANGED <<clock, history>>

SkipCandidate(w, m) ==
  /\ NextInBatch(w, m)
  /\ ~ Leasable(outbox[m], worker[w].now)
  /\ worker' = [worker EXCEPT ![w] = RunOn(@.now, @.batch \ {m})]
  /\ UNCHANGED <<clock, outbox, history>>

\* Mutant of ReadRow: a cancellation is not looked for after the lease.
ReadAnyRow(w) ==
  LET row == outbox[worker[w].msg]
      run == worker[w]
  IN  /\ run.phase = "read"
      /\ worker' = [worker EXCEPT ![w] =
           IF row.state = "absent" THEN RunOn(run.now, run.batch)
           ELSE [run EXCEPT !.phase = "send", !.attempts = row.attempts]]
      /\ UNCHANGED <<clock, outbox, history>>

\* The row is read back by id: neither the state nor the token is looked at.
ReadRow(w) ==
  LET row == outbox[worker[w].msg]
      run == worker[w]
  IN  /\ run.phase = "read"
      /\ worker' = [worker EXCEPT ![w] =
           IF row.state = "absent" THEN RunOn(run.now, run.batch)
           ELSE IF Canceled(row) THEN [run EXCEPT !.phase = "release"]
           ELSE [run EXCEPT !.phase = "send", !.attempts = row.attempts]]
      /\ UNCHANGED <<clock, outbox, history>>

\* Mutant of Owns: the owner's statements forget AND lease_token = ?.
OwnsAnyLease(w) ==
  /\ worker[w].msg # NoMessage
  /\ outbox[worker[w].msg].state = "leased"

\* WHERE id = ? AND state = 'leased' AND lease_token = ?
Owns(w) ==
  /\ worker[w].msg # NoMessage
  /\ outbox[worker[w].msg].state = "leased"
  /\ outbox[worker[w].msg].token = worker[w].token

\* The statement that ends w's work on its message: it finds the row only if w
\* still owns the lease.  w goes on with its batch either way.
Settle(w, state, attempts, nextAttempt, updated) ==
  LET m == worker[w].msg
  IN  /\ outbox' = IF Owns(w)
           THEN [outbox EXCEPT ![m] = Released(@, state, attempts, nextAttempt, updated)]
           ELSE outbox
      /\ worker' = [worker EXCEPT ![w] = RunOn(@.now, @.batch)]
      /\ UNCHANGED <<clock, history>>

\* Also WHERE canceled_at IS NOT NULL, which still holds: a cancellation is final
\* and a row with a lease is not purged.
ReleaseCanceled(w) ==
  LET row == outbox[worker[w].msg]
  IN  /\ worker[w].phase = "release"
      /\ Settle(w, "queued", Refunded(row.attempts), row.nextAttempt,
                Later(row.updated, worker[w].now))

\* The provider call and its race with the timer.  "retryable" stands for a
\* timeout, a throw or a retryable refusal: the provider may have accepted.
Send(w, result, accepted) ==
  LET m == worker[w].msg
  IN  /\ worker[w].phase = "send"
      /\ result = "ok" => accepted
      /\ result \in {"quota", "permanent"} => ~ accepted
      /\ worker' = [worker EXCEPT ![w].phase = "record", ![w].result = result]
      /\ history' = [history EXCEPT ![m] =
           [accepts |-> IF accepted /\ @.accepts < 2 THEN @.accepts + 1
                                                     ELSE @.accepts,
            excused |-> @.excused \/ (accepted /\ result # "ok")]]
      /\ UNCHANGED <<clock, outbox>>

\* Mutant of RecordDelivered: a call without an answer counts as accepted.
RecordOptimistically(w) ==
  LET row == outbox[worker[w].msg]
  IN  /\ worker[w].phase = "record"
      /\ worker[w].result \in {"ok", "retryable"}
      /\ Settle(w, "delivered", row.attempts, row.nextAttempt, worker[w].now)

RecordDelivered(w) ==
  LET row == outbox[worker[w].msg]
  IN  /\ worker[w].phase = "record"
      /\ worker[w].result = "ok"
      /\ Settle(w, "delivered", row.attempts, row.nextAttempt, worker[w].now)

\* E_DAILY_LIMIT_EXCEEDED gives the attempt back.
RecordQuota(w) ==
  LET row == outbox[worker[w].msg]
  IN  /\ worker[w].phase = "record"
      /\ worker[w].result = "quota"
      /\ Settle(w, "queued", Refunded(row.attempts),
                After(worker[w].now, QuotaDelay), worker[w].now)

\* row.attemptCount is the count read before the send.
RecordRetry(w) ==
  LET row == outbox[worker[w].msg]
  IN  /\ worker[w].phase = "record"
      /\ worker[w].result = "retryable"
      /\ worker[w].attempts < MaxAttempts
      /\ Settle(w, "queued", row.attempts,
                After(worker[w].now, Backoff(worker[w].attempts)), worker[w].now)

RecordFailed(w) ==
  LET row == outbox[worker[w].msg]
  IN  /\ worker[w].phase = "record"
      /\ \/ worker[w].result = "permanent"
         \/ worker[w].result = "retryable" /\ worker[w].attempts >= MaxAttempts
      /\ Settle(w, "failed", row.attempts, row.nextAttempt, worker[w].now)

\* The process dies, or a statement throws and the run is abandoned.
Crash(w) ==
  /\ worker[w].phase # "idle"
  /\ worker' = [worker EXCEPT ![w] = NoRun]
  /\ UNCHANGED <<clock, outbox, history>>
-----------------------------------------------------------------------------
Init ==
  /\ clock = 0
  /\ outbox = [m \in Message |-> AbsentRow]
  /\ worker = [w \in Worker |-> NoRun]
  /\ history = [m \in Message |-> [accepts |-> 0, excused |-> FALSE]]

Sweep(w) ==
  \/ RecoverExpiredLeases(w)
  \/ FailExhaustedLeases(w)
  \/ CancelExpired(w)
  \/ CancelExpiredAborts(w)

Visit(w) ==
  \/ \E m \in Message, t \in Token : LeaseCandidate(w, m, t)
  \/ \E m \in Message : SkipCandidate(w, m)
  \/ ReadRow(w)
  \/ ReleaseCanceled(w)

Record(w) ==
  \/ RecordDelivered(w)
  \/ RecordQuota(w)
  \/ RecordRetry(w)
  \/ RecordFailed(w)

Dispatch(w) ==
  \/ StartRun(w)
  \/ Sweep(w)
  \/ SelectBatch(w)
  \/ Visit(w)
  \/ \E result \in Results \ {"none"}, accepted \in BOOLEAN :
       Send(w, result, accepted)
  \/ Record(w)

Environment ==
  \/ \E m \in Message : Enqueue(m)
  \/ \E m \in Message, code \in CancellationCodes : Cancel(m, code)
  \/ \E m \in Message : Purge(m)
  \/ Tick

Next ==
  \/ Environment
  \/ \E w \in Worker : Dispatch(w)
  \/ \E w \in Worker : Crash(w)

Spec == Init /\ [][Next]_vars
-----------------------------------------------------------------------------
(***************************************************************************)
(* Properties.                                                             *)
(***************************************************************************)

\* Every field of every row, run and history has its type, and no dispatcher
\* works with an instant that has not come yet.
TypeOK ==
  /\ clock \in Times
  /\ outbox \in [Message -> Rows]
  /\ worker \in [Worker -> Runs]
  /\ history \in [Message -> Histories]
  /\ \A w \in Worker : worker[w].now <= clock

\* A row in the queue has budget left.  The lease statement does not test
\* attempt_count again, and a queued row without budget would never be selected
\* and never be failed: it would stay in the queue for ever.
QueuedHasBudget ==
  \A m \in Message :
    outbox[m].state = "queued" => outbox[m].attempts < MaxAttempts

Holding == {"read", "release", "send", "record"}

\* As long as a run owns its lease, the attempt count it read before the send is
\* the row's: the retry decision and the backoff taken from that stale local are
\* those of the row, whatever other runs and routes did during the send.
AttemptsReadAreCurrent ==
  \A w \in Worker :
    worker[w].phase \in {"send", "record"} /\ Owns(w)
      => worker[w].attempts = outbox[worker[w].msg].attempts

\* A row says delivered only if the provider accepted that message.
DeliveredWasAccepted ==
  \A m \in Message :
    outbox[m].state = "delivered" => history[m].accepts >= 1

\* At-least-once has a cause: a provider accepts a message a second time only
\* after an ambiguous answer, an expired lease or a purge.  Two dispatchers that
\* race for a row never both send it.
DuplicateHasCause ==
  \A m \in Message : history[m].accepts > 1 => history[m].excused

\* A lease ends in two ways only: by its owner's own record or release, or by a
\* sweep at whose instant it had expired.  A stale worker records nothing.
LeaseEnds(m) ==
  \/ \E w \in Worker :
       /\ worker[w].phase \in {"release", "record"}
       /\ worker[w].msg = m
       /\ worker[w].token = outbox[m].token
  \/ \E w \in Worker :
       /\ worker[w].phase \in {"recover", "exhaust"}
       /\ outbox[m].leaseExpires <= worker[w].now

StaleWorkerRecordsNothing ==
  [][\A m \in Message :
       outbox[m].state = "leased" /\ outbox'[m].token # outbox[m].token
         => LeaseEnds(m)]_vars

\* The triggers' state machine and the attempt budget, as a specification of
\* their own: every step of the outbox is a step of DeliveryLifecycle.
Lifecycle == INSTANCE DeliveryLifecycle WITH
  delivery <- [m \in Message |-> [state    |-> outbox[m].state,
                                  attempts |-> outbox[m].attempts,
                                  canceled |-> Canceled(outbox[m])]]

ImplementsLifecycle == Lifecycle!Spec

\* What liveness needs from outside besides: the daily quota stops being exhausted.
QuotaStops  == <>[][\A w \in Worker : ~ Send(w, "quota", FALSE)]_vars

\* A message created after the activation cutoff whose fate is still open.
Underway(m) ==
  /\ outbox[m].state \in {"queued", "leased"}
  /\ outbox[m].eligible
  /\ ~ Canceled(outbox[m])
=============================================================================
