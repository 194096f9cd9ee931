-------------------- MODULE DecisionNotificationsProofs --------------------
(***************************************************************************)
(* Proofs about DecisionNotifications, for every number of messages,       *)
(* processes, tokens and attempts, and for every choice of the timings.    *)
(*                                                                         *)
(* Two tables tell of one notification, and only runs that overlap and die *)
(* copy between them.  What keeps them together is that nothing is taken   *)
(* back: the row of a notification, once inserted, is never removed, and   *)
(* once it is delivered or failed it stays so (Told).  So whatever a run   *)
(* copies back late is still true.                                         *)
(*                                                                         *)
(* That a page does not call an accepted message "not attempted" is about  *)
(* the budget: a quota answer gives an attempt back, and may do so while   *)
(* another run, whose lease ran out, has been accepted.  Counts is what    *)
(* each run leaves in the row for the others.                              *)
(***************************************************************************)
EXTENDS DecisionNotifications, MessageOutboxProofs

\* A notification's row and its message's row.
Told(m) ==
  /\ notice[m].state = "none" \/ ~ notice[m].sound => outbox[m].state = "absent"
  /\ notice[m].state = "sent" => outbox[m].state = "delivered"
  /\ notice[m].state = "failed" /\ notice[m].sound => outbox[m].state = "failed"

\* A notification's message: nothing cancels it, and an accepted one has used an
\* attempt that nobody has been given back.
Tried(m) ==
  /\ outbox[m].state = "absent" => history[m].accepts = 0
  /\ outbox[m].state # "absent" => outbox[m].expires = Never /\ ~ Canceled(outbox[m])
  /\ history[m].accepts > 0 => outbox[m].attempts >= 1

\* The run has an answer that leaves the attempt it made in the row.
Answered(w) == worker[w].phase = "record" /\ worker[w].result \in {"ok", "retryable"}

\* A run that works on m has spent an attempt of it.  If it lost the lease, that
\* attempt stays, beside the one of whoever has the lease now.
Counts(w, m) ==
  worker[w].msg = m =>
    /\ outbox[m].state # "absent"
    /\ outbox[m].attempts >= 1
    /\ IF Owns(w)
       THEN history[m].accepts > 0 => outbox[m].attempts >= 2 \/ Answered(w)
       ELSE outbox[m].state = "leased" => outbox[m].attempts >= 2

\* The instant of a run has come, and what it is to bridge has been queued.
BridgeFits(w) ==
  /\ bridge[w].now <= clock
  /\ bridge[w].phase = "bridge" => \A m \in bridge[w].left : notice[m].state # "none"

Mailed(m) == Tried(m) /\ \A w \in Worker : Counts(w, m)

NoticeInv ==
  /\ notice \in [Message -> Notices]
  /\ bridge \in [Worker -> Bridges]
  /\ \A w \in Worker : BridgeFits(w)
  /\ \A m \in Message : ~ Ordinary(m) => Told(m) /\ Mailed(m)

NotificationInv == FullInv /\ NoticeInv
-----------------------------------------------------------------------------
(***************************************************************************)
(* What the steps of a run leave of a notification's message.              *)
(***************************************************************************)

\* A settled message stays as it is, and what is not there is not made.
Stays(m) ==
  outbox[m].state \in {"absent", "delivered", "failed"} => outbox'[m].state = outbox[m].state

\* The run goes on with what it holds, or lets go of it.
GoesOn(w) ==
  \/ worker'[w].msg = NoMessage
  \/ /\ worker'[w].msg = worker[w].msg
     /\ worker'[w].token = worker[w].token
     /\ Answered(w) => Answered(w)'

\* What the step of another run may do to the row of m.
Disturbs(w, m) ==
  \/ /\ outbox'[m] = outbox[m]
     /\ history'[m].accepts = history[m].accepts \/ outbox[m].attempts >= 2 \/ ~ Owns(w)
  \/ outbox'[m].state \in {"queued", "delivered", "failed"} /\ outbox'[m].attempts >= 1
  \/ /\ outbox'[m].state = "leased" /\ outbox'[m].attempts \in Nat \ {0, 1}
     /\ outbox'[m].token # worker[w].token

LEMMA CountsKept ==
  ASSUME NEW w \in Worker, NEW m \in Message, Counts(w, m), GoesOn(w), Disturbs(w, m)
  PROVE  Counts(w, m)'
<1> SUFFICES ASSUME worker'[w].msg = m PROVE Counts(w, m)'
  BY DEF Counts
<1>1. /\ worker[w].msg = m /\ worker'[w].token = worker[w].token
      /\ Answered(w) => Answered(w)'
  BY OutboxAssumption DEF GoesOn
<1>2. /\ outbox[m].state # "absent" /\ outbox[m].attempts >= 1
      /\ IF Owns(w) THEN history[m].accepts > 0 => outbox[m].attempts >= 2 \/ Answered(w)
                    ELSE outbox[m].state = "leased" => outbox[m].attempts >= 2
  BY <1>1 DEF Counts
<1>3. Owns(w) <=> outbox[m].state = "leased" /\ outbox[m].token = worker[w].token
  BY <1>1, OutboxAssumption DEF Owns
<1>4. Owns(w)' <=> outbox'[m].state = "leased" /\ outbox'[m].token = worker[w].token
  BY <1>1, OutboxAssumption DEF Owns
<1>5. CASE outbox'[m] = outbox[m]
  BY <1>1, <1>2, <1>3, <1>4, <1>5 DEF Disturbs, Counts
<1>6. CASE outbox'[m].state \in {"queued", "delivered", "failed"} /\ outbox'[m].attempts >= 1
  <2>1. ~ Owns(w)' /\ outbox'[m].state \notin {"absent", "leased"}
    BY <1>4, <1>6
  <2>2. QED
    BY <1>6, <2>1 DEF Counts
<1>7. CASE /\ outbox'[m].state = "leased" /\ outbox'[m].attempts \in Nat \ {0, 1}
           /\ outbox'[m].token # worker[w].token
  <2>1. outbox'[m].attempts >= 1 /\ outbox'[m].attempts >= 2
    BY <1>7
  <2>2. QED
    BY <1>4, <1>7, <2>1 DEF Counts
<1>8. QED
  BY <1>5, <1>6, <1>7 DEF Disturbs

\* Steps that leave the row of m alone.
LEMMA Untouched ==
  ASSUME NEW m \in Message, Mailed(m), outbox'[m] = outbox[m], history'[m] = history[m],
         \A w \in Worker : GoesOn(w)
  PROVE  Mailed(m)' /\ Stays(m)
<1>1. Tried(m)'
  BY DEF Mailed, Tried, Canceled
<1>2. ASSUME NEW w \in Worker PROVE Counts(w, m)'
  BY CountsKept DEF Disturbs, Mailed
<1>3. QED
  BY <1>1, <1>2 DEF Mailed, Stays

\* ... and those of a run that moves on.
LEMMA RunMovesMailed ==
  ASSUME FullInv, NEW w \in Worker, UNCHANGED <<outbox, history>>,
         \A v \in Worker \ {w} : worker'[v] = worker[v], GoesOn(w),
         NEW m \in Message, Mailed(m)
  PROVE  Mailed(m)' /\ Stays(m)
<1>1. ASSUME NEW v \in Worker PROVE GoesOn(v)
  BY DEF GoesOn, Answered
<1>2. QED
  BY <1>1, Untouched

LEMMA RunOnMailed ==
  ASSUME FullInv, NEW w \in Worker, NEW rest \in SUBSET Message,
         worker' = [worker EXCEPT ![w] = RunOn(worker[w].now, rest)],
         UNCHANGED <<outbox, history>>, NEW m \in Message, Mailed(m)
  PROVE  Mailed(m)' /\ Stays(m)
<1>1. worker[w].now \in Times
  BY DEF FullInv, OutboxInv, TypeOK, Runs
<1>2. /\ worker'[w] = RunOn(worker[w].now, rest)
      /\ \A v \in Worker \ {w} : worker'[v] = worker[v]
  BY DEF FullInv, OutboxInv, TypeOK
<1>3. GoesOn(w)
  BY <1>1, <1>2, RunOnType DEF GoesOn
<1>4. QED
  BY <1>2, <1>3, RunMovesMailed

LEMMA RunEndsMailed ==
  ASSUME FullInv, NEW w \in Worker, worker' = [worker EXCEPT ![w] = NoRun],
         UNCHANGED <<outbox, history>>, NEW m \in Message, Mailed(m)
  PROVE  Mailed(m)' /\ Stays(m)
<1>1. RunOn(worker[w].now, {}) = NoRun /\ {} \in SUBSET Message
  BY DEF RunOn
<1>2. worker' = [worker EXCEPT ![w] = RunOn(worker[w].now, {})]
  BY <1>1
<1>3. QED
  BY <1>1, <1>2, RunOnMailed

LEMMA BeginsMailed ==
  ASSUME FullInv, NEW w \in Worker, NEW now,
         worker' = [worker EXCEPT ![w] = RunAt("recover", now, {})],
         UNCHANGED <<outbox, history>>, NEW m \in Message, Mailed(m)
  PROVE  Mailed(m)' /\ Stays(m)
<1>1. /\ worker'[w] = RunAt("recover", now, {})
      /\ \A v \in Worker \ {w} : worker'[v] = worker[v]
  BY DEF FullInv, OutboxInv, TypeOK
<1>2. GoesOn(w)
  BY <1>1 DEF RunAt, GoesOn
<1>3. QED
  BY <1>1, <1>2, RunMovesMailed
-----------------------------------------------------------------------------
(***************************************************************************)
(* The sweeps and the visits.                                              *)
(***************************************************************************)

\* A run that sweeps holds nothing.
LEMMA SweepGoesOn ==
  ASSUME FullInv, NEW w \in Worker, worker[w].phase \in {"recover", "exhaust", "expire"},
         NEW next \in Phases, worker' = [worker EXCEPT ![w].phase = next], NEW v \in Worker
  PROVE  GoesOn(v)
<1>1. CASE v = w
  <2>1. worker[w].msg = NoMessage
    BY DEF FullInv, OutboxInv, RunShape, Holding
  <2>2. worker'[w].msg = worker[w].msg
    BY DEF FullInv, OutboxInv, TypeOK, Runs
  <2>3. QED
    BY <1>1, <2>1, <2>2 DEF GoesOn
<1>2. CASE v # w
  <2>1. worker'[v] = worker[v]
    BY <1>2 DEF FullInv, OutboxInv, TypeOK
  <2>2. QED
    BY <2>1 DEF GoesOn, Answered
<1>3. QED
  BY <1>1, <1>2

\* A lease that a sweep ends leaves its attempt in the row.
LEMMA SweptMailed ==
  ASSUME FullInv, NEW m \in Message, Mailed(m), history'[m].accepts = history[m].accepts,
         \A w \in Worker : GoesOn(w), outbox[m].state = "leased",
         outbox'[m].state \in {"queued", "failed"},
         outbox'[m].attempts = outbox[m].attempts,
         outbox'[m].expires = outbox[m].expires,
         outbox'[m].cancellation = outbox[m].cancellation
  PROVE  Mailed(m)' /\ Stays(m)
<1>1. outbox[m].attempts >= 1
  BY DEF FullInv, OutboxInv, RowShape
<1>2. Tried(m)'
  BY DEF Mailed, Tried, Canceled
<1>3. ASSUME NEW w \in Worker PROVE Counts(w, m)'
  BY <1>1, CountsKept DEF Disturbs, Mailed
<1>4. QED
  BY <1>2, <1>3 DEF Mailed, Stays

LEMMA RecoverMailed ==
  ASSUME FullInv, NEW w \in Worker, RecoverExpiredLeases(w), NEW m \in Message, Mailed(m)
  PROVE  Mailed(m)' /\ Stays(m)
<1>1. \A v \in Worker : GoesOn(v)
  BY SweepGoesOn DEF RecoverExpiredLeases, Phases
<1>2. outbox[m] \in Rows /\ history[m] \in Histories
  BY DEF FullInv, OutboxInv, TypeOK
<1>3. CASE m \in Overdue(w) /\ outbox[m].attempts < MaxAttempts
  <2>1. /\ outbox[m].state = "leased" /\ outbox'[m].state = "queued"
        /\ outbox'[m].attempts = outbox[m].attempts
        /\ outbox'[m].expires = outbox[m].expires
        /\ outbox'[m].cancellation = outbox[m].cancellation
        /\ history'[m].accepts = history[m].accepts
    BY <1>2, <1>3 DEF RecoverExpiredLeases, Released, Overdue, Histories
  <2>2. QED
    BY <1>1, <2>1, SweptMailed
<1>4. CASE ~ (m \in Overdue(w) /\ outbox[m].attempts < MaxAttempts)
  <2>1. outbox'[m] = outbox[m] /\ history'[m] = history[m]
    BY <1>4 DEF RecoverExpiredLeases
  <2>2. QED
    BY <1>1, <2>1, Untouched
<1>5. QED
  BY <1>3, <1>4

LEMMA FailExhaustedMailed ==
  ASSUME FullInv, NEW w \in Worker, FailExhaustedLeases(w), NEW m \in Message, Mailed(m)
  PROVE  Mailed(m)' /\ Stays(m)
<1>1. \A v \in Worker : GoesOn(v)
  BY SweepGoesOn DEF FailExhaustedLeases, Phases
<1>2. outbox[m] \in Rows /\ history[m] \in Histories
  BY DEF FullInv, OutboxInv, TypeOK
<1>3. CASE m \in Overdue(w) /\ outbox[m].attempts >= MaxAttempts
  <2>1. /\ outbox[m].state = "leased" /\ outbox'[m].state = "failed"
        /\ outbox'[m].attempts = outbox[m].attempts
        /\ outbox'[m].expires = outbox[m].expires
        /\ outbox'[m].cancellation = outbox[m].cancellation
        /\ history'[m].accepts = history[m].accepts
    BY <1>2, <1>3 DEF FailExhaustedLeases, Released, Overdue, Histories
  <2>2. QED
    BY <1>1, <2>1, SweptMailed
<1>4. CASE ~ (m \in Overdue(w) /\ outbox[m].attempts >= MaxAttempts)
  <2>1. outbox'[m] = outbox[m] /\ history'[m] = history[m]
    BY <1>4 DEF FailExhaustedLeases
  <2>2. QED
    BY <1>1, <2>1, Untouched
<1>5. QED
  BY <1>3, <1>4

\* A message without an expiry outlives every run.
LEMMA CancelExpiredMailed ==
  ASSUME FullInv, NEW w \in Worker, CancelExpired(w), NEW m \in Message, Mailed(m)
  PROVE  Mailed(m)' /\ Stays(m)
<1>1. \A v \in Worker : GoesOn(v)
  BY SweepGoesOn DEF CancelExpired, Phases
<1>2. worker[w].now \in Times
  BY DEF FullInv, OutboxInv, TypeOK, Runs
<1>3. m \notin Outlived(w)
  BY <1>2, OutboxAssumption DEF Outlived, Mailed, Tried, Never, Times
<1>4. outbox'[m] = outbox[m] /\ history'[m] = history[m]
  BY <1>3 DEF CancelExpired
<1>5. QED
  BY <1>1, <1>4, Untouched

\* A lease is taken from the queue, so whoever else works on the row has lost its
\* own, and its attempt is still counted.
LEMMA LeaseMailed ==
  ASSUME FullInv, NEW w \in Worker, NEW n \in Message, NEW t \in Token,
         LeaseCandidate(w, n, t), NEW m \in Message, Mailed(m)
  PROVE  Mailed(m)' /\ Stays(m)
<1>1. /\ outbox' = [outbox EXCEPT ![n] = Leased(outbox[n], t, worker[w].now)]
      /\ outbox[n].state = "queued" /\ history' = history
      /\ worker'[w].msg = n /\ worker'[w].token = t
      /\ \A v \in Worker \ {w} : worker'[v] = worker[v]
  BY DEF LeaseCandidate, Leasable, FullInv, OutboxInv, TypeOK, Runs
<1>2. worker[w].msg = NoMessage /\ \A v \in Worker : worker[v].token # t
  BY DEF LeaseCandidate, NextInBatch, Fresh, FullInv, OutboxInv, RunShape, Holding
<1>3. CASE m # n
  <2>1. outbox'[m] = outbox[m] /\ history'[m] = history[m]
    BY <1>1, <1>3 DEF FullInv, OutboxInv, TypeOK
  <2>2. ASSUME NEW v \in Worker PROVE Counts(v, m)'
    <3>1. CASE v = w
      BY <1>1, <1>3, <3>1 DEF Counts
    <3>2. CASE v # w
      <4>1. GoesOn(v)
        BY <1>1, <3>2 DEF GoesOn, Answered
      <4>2. QED
        BY <2>1, <4>1, CountsKept DEF Disturbs, Mailed
    <3>3. QED
      BY <3>1, <3>2
  <2>3. Tried(m)'
    BY <2>1 DEF Mailed, Tried, Canceled
  <2>4. QED
    BY <2>1, <2>2, <2>3 DEF Mailed, Stays
<1>4. CASE m = n
  <2>1. outbox[m].attempts \in Nat /\ history[m].accepts \in Nat
    BY OutboxAssumption DEF FullInv, OutboxInv, TypeOK, Rows, Histories
  <2>2. /\ outbox'[m].state = "leased" /\ outbox'[m].token = t
        /\ outbox'[m].attempts = outbox[m].attempts + 1
        /\ outbox'[m].expires = outbox[m].expires
        /\ outbox'[m].cancellation = outbox[m].cancellation
    BY <1>1, <1>4 DEF Leased, FullInv, OutboxInv, TypeOK
  <2>3. Tried(m)'
    BY <1>1, <1>4, <2>1, <2>2 DEF Mailed, Tried, Canceled
  <2>4. ASSUME NEW v \in Worker PROVE Counts(v, m)'
    <3>1. CASE v = w
      <4>1. Owns(w)'
        BY <1>1, <1>4, <2>2, OutboxAssumption DEF Owns
      <4>2. history[m].accepts > 0 => outbox'[m].attempts >= 2
        BY <2>1, <2>2 DEF Mailed, Tried
      <4>3. QED
        BY <1>1, <2>1, <2>2, <3>1, <4>1, <4>2 DEF Counts
    <3>2. CASE v # w /\ worker[v].msg = m
      <4>1. outbox[m].attempts >= 1 /\ Counts(v, m)
        BY <3>2 DEF Mailed, Counts
      <4>2. GoesOn(v) /\ Disturbs(v, m)
        BY <1>1, <1>2, <2>1, <2>2, <3>2, <4>1 DEF GoesOn, Disturbs, Answered
      <4>3. QED
        BY <4>1, <4>2, CountsKept
    <3>3. CASE v # w /\ worker[v].msg # m
      BY <1>1, <3>3 DEF Counts
    <3>4. QED
      BY <3>1, <3>2, <3>3
  <2>5. QED
    BY <1>1, <1>4, <2>3, <2>4 DEF Mailed, Stays
<1>5. QED
  BY <1>3, <1>4

LEMMA ReadMailed ==
  ASSUME FullInv, NEW w \in Worker, ReadRow(w), NEW m \in Message, Mailed(m)
  PROVE  Mailed(m)' /\ Stays(m)
<1> DEFINE run == worker[w]
           row == outbox[run.msg]
<1>1. run \in Runs /\ run.phase = "read" /\ run.batch \in SUBSET Message
  BY DEF ReadRow, FullInv, OutboxInv, TypeOK, Runs
<1>2. UNCHANGED <<outbox, history>>
  BY DEF ReadRow
<1>3. CASE row.state = "absent"
  <2>1. worker' = [worker EXCEPT ![w] = RunOn(run.now, run.batch)]
    BY <1>3 DEF ReadRow
  <2>2. QED
    BY <1>1, <1>2, <2>1, RunOnMailed
<1>4. CASE row.state # "absent"
  <2>1. /\ worker'[w].msg = run.msg
        /\ worker'[w].token = run.token
        /\ \A v \in Worker \ {w} : worker'[v] = worker[v]
    BY <1>1, <1>4 DEF ReadRow, FullInv, OutboxInv, TypeOK, Runs
  <2>2. GoesOn(w)
    BY <1>1, <2>1 DEF GoesOn, Answered
  <2>3. QED
    BY <1>2, <2>1, <2>2, RunMovesMailed
<1>5. QED
  BY <1>3, <1>4

\* An acceptance is the owner's, whose answer will keep its attempt, or comes from a
\* run that lost its lease, beside whose attempt the owner has made another.
LEMMA SendMailed ==
  ASSUME FullInv, NEW w \in Worker, NEW result \in Results \ {"none"},
         NEW accepted \in BOOLEAN, Send(w, result, accepted),
         NEW m \in Message, Mailed(m)
  PROVE  Mailed(m)' /\ Stays(m)
<1> DEFINE n == worker[w].msg
<1>1. worker[w] \in Runs /\ worker[w].phase = "send" /\ n \in Message
  BY DEF Send, FullInv, OutboxInv, TypeOK, RunShape, Holding, Runs
<1>2. outbox' = outbox
  BY DEF Send
<1>3. /\ worker'[w].phase = "record" /\ worker'[w].result = result
      /\ worker'[w].msg = n /\ worker'[w].token = worker[w].token
      /\ \A v \in Worker \ {w} : worker'[v] = worker[v]
  BY <1>1 DEF Send, FullInv, OutboxInv, TypeOK, Runs
<1>4. /\ history'[n].accepts = IF accepted /\ history[n].accepts < 2
                              THEN history[n].accepts + 1 ELSE history[n].accepts
      /\ \A k \in Message \ {n} : history'[k] = history[k]
  BY <1>1 DEF Send, FullInv, OutboxInv, TypeOK
<1>5. accepted => result \in {"ok", "retryable"}
  BY DEF Send, Results
<1>6. ASSUME NEW v \in Worker PROVE GoesOn(v)
  <2>1. ~ Answered(w)
    BY <1>1 DEF Answered
  <2>2. QED
    BY <1>3, <2>1 DEF GoesOn, Answered
<1>7. CASE m # n
  BY <1>2, <1>4, <1>6, <1>7, Untouched
<1>8. CASE m = n
  <2>1. outbox[m].attempts \in Nat /\ history[m].accepts \in Nat
    BY OutboxAssumption DEF FullInv, OutboxInv, TypeOK, Rows, Histories
  <2>2. Counts(w, m) /\ outbox[m].state # "absent" /\ outbox[m].attempts >= 1
    BY <1>8 DEF Mailed, Counts
  <2>3. Tried(m)'
    BY <1>2, <2>2 DEF Mailed, Tried, Canceled
  <2>4. ASSUME NEW v \in Worker PROVE Counts(v, m)'
    <3>1. CASE v = w
      <4>1. CASE accepted
        <5>1. Answered(w)'
          BY <1>3, <1>5, <4>1 DEF Answered
        <5>2. Owns(w)' <=> Owns(w)
          BY <1>2, <1>3 DEF Owns
        <5>3. ~ Owns(w) => (outbox[m].state = "leased" => outbox[m].attempts >= 2)
          BY <1>8, <2>2 DEF Counts
        <5>4. QED
          BY <1>2, <2>2, <3>1, <5>1, <5>2, <5>3 DEF Counts
      <4>2. CASE ~ accepted
        <5>1. history'[m].accepts = history[m].accepts
          BY <1>4, <1>8, <4>2
        <5>2. QED
          BY <1>2, <1>6, <2>2, <3>1, <5>1, CountsKept DEF Disturbs
      <4>3. QED
        BY <4>1, <4>2
    <3>2. CASE v # w /\ worker[v].msg = m /\ Owns(v)
      <4>1. ~ Owns(w)
        BY <1>1, <1>8, <3>2, OutboxAssumption
        DEF Owns, FullInv, OutboxInv, RowShape, TokenNamesOneLease
      <4>2. outbox[m].state = "leased"
        BY <3>2 DEF Owns
      <4>3. outbox[m].attempts >= 2
        BY <1>8, <2>2, <4>1, <4>2 DEF Counts
      <4>4. QED
        BY <1>2, <1>6, <4>3, CountsKept DEF Disturbs, Mailed
    <3>3. CASE v # w /\ (worker[v].msg # m \/ ~ Owns(v))
      <4>1. CASE ~ Owns(v)
        BY <1>2, <1>6, <4>1, CountsKept DEF Disturbs, Mailed
      <4>2. CASE worker[v].msg # m
        BY <1>3, <3>3, <4>2 DEF Counts
      <4>3. QED
        BY <3>3, <4>1, <4>2
    <3>4. QED
      BY <3>1, <3>2, <3>3
  <2>5. QED
    BY <1>2, <2>3, <2>4 DEF Mailed, Stays
<1>9. QED
  BY <1>7, <1>8

\* A run that gives an attempt back has made one that was not accepted, and finds
\* another in the row if anybody was, or has lost a lease before.
LEMMA SettleMailed ==
  ASSUME FullInv, NEW w \in Worker, worker[w].phase \in Holding,
         NEW state \in {"queued", "delivered", "failed"},
         NEW attempts, NEW nextAttempt, NEW updated,
         Settle(w, state, attempts, nextAttempt, updated),
         \/ attempts = outbox[worker[w].msg].attempts
         \/ attempts = Refunded(outbox[worker[w].msg].attempts) /\ ~ Answered(w),
         NEW m \in Message, Mailed(m)
  PROVE  Mailed(m)' /\ Stays(m)
<1> DEFINE n == worker[w].msg
<1>1. n \in Message /\ worker[w].now \in Times /\ worker[w].batch \in SUBSET Message
  BY OwnerFacts DEF FullInv, OutboxInv, TypeOK, Runs
<1>2. worker' = [worker EXCEPT ![w] = RunOn(worker[w].now, worker[w].batch)]
      /\ history' = history
  BY DEF Settle, FullInv, OutboxInv, TypeOK
<1>3. CASE ~ Owns(w)
  BY <1>1, <1>2, <1>3, RunOnMailed DEF Settle
<1>4. CASE Owns(w)
  <2>1. /\ outbox'[n] = Released(outbox[n], state, attempts, nextAttempt, updated)
        /\ \A k \in Message \ {n} : outbox'[k] = outbox[k]
    BY <1>1, <1>4 DEF Settle, FullInv, OutboxInv, TypeOK
  <2>2. /\ worker'[w].msg = NoMessage
        /\ \A v \in Worker \ {w} : worker'[v] = worker[v]
    BY <1>1, <1>2, RunOnType DEF FullInv, OutboxInv, TypeOK
  <2>3. ASSUME NEW v \in Worker PROVE GoesOn(v)
    BY <2>2 DEF GoesOn, Answered
  <2>4. CASE m # n
    BY <1>2, <2>1, <2>3, <2>4, Untouched
  <2>5. CASE m = n
    <3>1. outbox[m].attempts \in 0 .. MaxAttempts /\ history[m].accepts \in Nat
      BY OutboxAssumption DEF FullInv, OutboxInv, TypeOK, Rows, Histories
    <3>2. outbox[m].attempts \in Nat /\ outbox[m].attempts >= 1 /\ outbox[m].state = "leased"
      BY <1>4, <2>5, <3>1, OutboxAssumption DEF Owns, FullInv, OutboxInv, RowShape
    <3>3. /\ outbox'[m].state = state /\ outbox'[m].attempts = attempts
          /\ outbox'[m].expires = outbox[m].expires
          /\ outbox'[m].cancellation = outbox[m].cancellation
      BY <2>1, <2>5 DEF Released
    <3>4. Refunded(outbox[m].attempts) = outbox[m].attempts - 1
      BY <3>1, <3>2, RefundedType
    <3>5. history[m].accepts > 0 => attempts >= 1
      <4>1. history[m].accepts > 0 => outbox[m].attempts >= 2 \/ Answered(w)
        BY <1>4, <2>5 DEF Mailed, Counts
      <4>2. QED
        BY <2>5, <3>2, <3>4, <4>1
    <3>6. Tried(m)'
      BY <1>2, <3>2, <3>3, <3>5 DEF Mailed, Tried, Canceled
    <3>7. ASSUME NEW v \in Worker PROVE Counts(v, m)'
      <4>1. CASE v = w
        BY <2>2, <4>1, OutboxAssumption DEF Counts
      <4>2. CASE v # w /\ worker[v].msg = m
        <5>1. ~ Owns(v)
          BY <1>1, <1>4, <2>5, <4>2, OutboxAssumption
          DEF Owns, FullInv, OutboxInv, RowShape, TokenNamesOneLease
        <5>2. Counts(v, m)
          BY DEF Mailed
        <5>3. outbox[m].attempts >= 2
          BY <3>2, <4>2, <5>1, <5>2 DEF Counts
        <5>4. attempts >= 1
          BY <2>5, <3>2, <3>4, <5>3
        <5>5. QED
          BY <2>3, <3>3, <5>2, <5>4, CountsKept DEF Disturbs
      <4>3. CASE v # w /\ worker[v].msg # m
        BY <2>2, <4>3 DEF Counts
      <4>4. QED
        BY <4>1, <4>2, <4>3
    <3>8. QED
      BY <3>2, <3>6, <3>7 DEF Mailed, Stays
  <2>6. QED
    BY <2>4, <2>5
<1>5. QED
  BY <1>3, <1>4

LEMMA RecordMailed ==
  ASSUME FullInv, NEW w \in Worker, Record(w) \/ ReleaseCanceled(w),
         NEW m \in Message, Mailed(m)
  PROVE  Mailed(m)' /\ Stays(m)
<1>1. worker[w].phase \in Holding
  BY DEF Record, ReleaseCanceled, RecordDelivered, RecordQuota, RecordRetry,
         RecordFailed, Holding
<1>2. CASE ReleaseCanceled(w)
  <2>1. ~ Answered(w)
    BY <1>2 DEF ReleaseCanceled, Answered
  <2>2. QED
    BY <1>1, <1>2, <2>1, SettleMailed DEF ReleaseCanceled
<1>3. CASE RecordDelivered(w)
  BY <1>1, <1>3, SettleMailed DEF RecordDelivered
<1>4. CASE RecordQuota(w)
  <2>1. ~ Answered(w)
    BY <1>4 DEF RecordQuota, Answered
  <2>2. QED
    BY <1>1, <1>4, <2>1, SettleMailed DEF RecordQuota
<1>5. CASE RecordRetry(w)
  BY <1>1, <1>5, SettleMailed DEF RecordRetry
<1>6. CASE RecordFailed(w)
  BY <1>1, <1>6, SettleMailed DEF RecordFailed
<1>7. QED
  BY <1>2, <1>3, <1>4, <1>5, <1>6 DEF Record
-----------------------------------------------------------------------------
(***************************************************************************)
(* The composition.                                                        *)
(***************************************************************************)

\* What is told of a notification stays true of a message that stays.
LEMMA ToldKept ==
  ASSUME NEW m \in Message, Told(m), Stays(m), notice' = notice
  PROVE  Told(m)'
BY DEF Told, Stays

LEMMA NotificationInitInv == NotificationInit => NotificationInv
<1> SUFFICES ASSUME NotificationInit PROVE NotificationInv
  OBVIOUS
<1>1. Init
  BY DEF NotificationInit
<1>2. FullInv
  BY <1>1, InitInv, InitHistory DEF FullInv
<1>3. 0 \in Times
  BY OutboxAssumption DEF Times
<1>4. notice \in [Message -> Notices]
  <2>1. \A s \in {"ordinary", "none"} :
          [state |-> s, queuedAt |-> 0, sound |-> TRUE] \in Notices
    BY <1>3 DEF Notices, NoticeStates
  <2>2. {[state |-> s, queuedAt |-> 0, sound |-> TRUE] : s \in {"ordinary", "none"}}
          \subseteq Notices
    BY <2>1
  <2>3. QED
    BY <2>2 DEF NotificationInit
<1>5. bridge = [w \in Worker |-> NoBridge] /\ NoBridge \in Bridges
  BY <1>3 DEF NotificationInit, NoBridge, Bridges
<1>6. \A w \in Worker : BridgeFits(w)
  BY <1>1, <1>5, OutboxAssumption DEF BridgeFits, NoBridge, Init
<1>7. ASSUME NEW m \in Message, ~ Ordinary(m) PROVE Told(m) /\ Mailed(m)
  <2>1. outbox[m] = AbsentRow /\ history[m].accepts = 0
    BY <1>1 DEF Init
  <2>2. notice[m].state = "none"
    BY <1>7 DEF NotificationInit, Ordinary
  <2>3. \A w \in Worker : worker[w].msg # m
    BY <1>1, OutboxAssumption DEF Init, NoRun, RunAt
  <2>4. QED
    BY <2>1, <2>2, <2>3 DEF Told, Mailed, Tried, Counts, AbsentRow
<1>8. QED
  BY <1>2, <1>4, <1>5, <1>6, <1>7 DEF NotificationInv, NoticeInv

\* Steps that leave the notifications alone, and time and the bridge as they are or
\* in order.
LEMMA OutboxMoves ==
  ASSUME NotificationInv, FullInv', notice' = notice,
         bridge' \in [Worker -> Bridges], \A w \in Worker : BridgeFits(w)',
         \A m \in Message : ~ Ordinary(m) => Mailed(m)' /\ Stays(m)
  PROVE  NotificationInv'
<1>1. ASSUME NEW m \in Message, ~ Ordinary(m)' PROVE Told(m)' /\ Mailed(m)'
  BY <1>1, ToldKept DEF NotificationInv, NoticeInv, Ordinary
<1>2. QED
  BY <1>1 DEF NotificationInv, NoticeInv

\* The bridge of a process that stands still, or is put away.
LEMMA BridgeKept ==
  ASSUME NotificationInv, notice' = notice, clock' = clock,
         bridge' = bridge \/ \E w \in Worker : bridge' = [bridge EXCEPT ![w] = NoBridge]
  PROVE  bridge' \in [Worker -> Bridges] /\ \A w \in Worker : BridgeFits(w)'
<1>1. NoBridge \in Bridges
  BY OutboxAssumption DEF Times, NoBridge, Bridges
<1>2. 0 <= clock
  BY OutboxAssumption DEF NotificationInv, FullInv, OutboxInv, TypeOK, Times
<1>3. bridge \in [Worker -> Bridges] /\ \A w \in Worker : BridgeFits(w)
  BY DEF NotificationInv, NoticeInv
<1>4. bridge' \in [Worker -> Bridges]
  BY <1>1, <1>3
<1>5. ASSUME NEW w \in Worker PROVE BridgeFits(w)'
  <2>1. bridge'[w] \in {bridge[w], NoBridge}
    BY <1>3
  <2>2. QED
    BY <1>2, <1>3, <2>1 DEF BridgeFits, NoBridge
<1>6. QED
  BY <1>4, <1>5

LEMMA MailInv ==
  ASSUME NotificationInv, NEW n \in Message, Mail(n)
  PROVE  NotificationInv'
<1>1. FullInv'
  BY NextInv, NextHistory DEF NotificationInv, FullInv, Mail, Next, Environment
<1>2. /\ notice' = notice /\ bridge' = bridge /\ clock' = clock /\ worker' = worker
      /\ \A m \in Message \ {n} : outbox'[m] = outbox[m] /\ history'[m] = history[m]
  BY DEF Mail, Enqueue, Cancel, Purge, bridgeVars, NotificationInv, FullInv, OutboxInv, TypeOK
<1>3. ASSUME NEW m \in Message, ~ Ordinary(m) PROVE Mailed(m)' /\ Stays(m)
  <2>1. m # n /\ Mailed(m)
    BY <1>3 DEF Mail, NotificationInv, NoticeInv
  <2>2. \A w \in Worker : GoesOn(w)
    BY <1>2 DEF GoesOn, Answered
  <2>3. QED
    BY <1>2, <2>1, <2>2, Untouched
<1>4. QED
  BY <1>1, <1>2, <1>3, BridgeKept, OutboxMoves DEF NotificationInv

LEMMA QueueNotificationInv ==
  ASSUME NotificationInv, NEW n \in Message, NEW sound \in BOOLEAN, QueueNotification(n, sound)
  PROVE  NotificationInv'
<1> DEFINE row == [state |-> "pending", queuedAt |-> clock, sound |-> sound]
<1>1. /\ UNCHANGED vars /\ bridge' = bridge /\ notice[n].state = "none"
      /\ notice' = [notice EXCEPT ![n] = row]
  BY DEF QueueNotification, Queueable
<1>2. row \in Notices
  BY DEF Notices, NoticeStates, NotificationInv, FullInv, OutboxInv, TypeOK
<1>3. notice' \in [Message -> Notices]
  BY <1>1, <1>2 DEF NotificationInv, NoticeInv
<1>4. FullInv'
  BY <1>1, NextInv, NextHistory DEF NotificationInv, FullInv
<1>5. ASSUME NEW w \in Worker PROVE BridgeFits(w)'
  BY <1>1 DEF NotificationInv, NoticeInv, BridgeFits, vars, Bridges
<1>6. ASSUME NEW m \in Message, ~ Ordinary(m)' PROVE Told(m)' /\ Mailed(m)'
  <2>1. ~ Ordinary(m)
    BY <1>1, <1>6 DEF Ordinary, NotificationInv, NoticeInv
  <2>2. Told(m) /\ Mailed(m)
    BY <2>1 DEF NotificationInv, NoticeInv
  <2>3. Mailed(m)'
    BY <1>1, <2>2 DEF vars, Mailed, Tried, Counts, Owns, Answered, Canceled
  <2>4. Told(m)'
    BY <1>1, <2>2 DEF vars, Told, NotificationInv, NoticeInv
  <2>5. QED
    BY <2>3, <2>4
<1>7. QED
  BY <1>1, <1>3, <1>4, <1>5, <1>6 DEF NotificationInv, NoticeInv

LEMMA NotificationTickInv ==
  ASSUME NotificationInv, Tick, UNCHANGED bridgeVars
  PROVE  NotificationInv'
<1>1. FullInv'
  BY NextInv, NextHistory DEF NotificationInv, FullInv, Next, Environment
<1>2. clock \in Nat /\ clock' = clock + 1 /\ UNCHANGED <<outbox, worker, history, notice, bridge>>
  BY OutboxAssumption DEF Tick, bridgeVars, NotificationInv, FullInv, OutboxInv, TypeOK, Times
<1>3. ASSUME NEW w \in Worker PROVE BridgeFits(w)'
  <2>1. bridge[w].now \in Nat
    BY OutboxAssumption DEF NotificationInv, NoticeInv, Bridges, Times
  <2>2. QED
    BY <1>2, <2>1 DEF NotificationInv, NoticeInv, BridgeFits
<1>4. ASSUME NEW m \in Message, ~ Ordinary(m) PROVE Mailed(m)' /\ Stays(m)
  <2>1. Mailed(m) /\ \A w \in Worker : GoesOn(w)
    BY <1>2, <1>4 DEF GoesOn, Answered, NotificationInv, NoticeInv
  <2>2. QED
    BY <1>2, <2>1, Untouched
<1>5. QED
  BY <1>1, <1>2, <1>3, <1>4, OutboxMoves DEF NotificationInv, NoticeInv

LEMMA StartScheduledRunInv ==
  ASSUME NotificationInv, NEW w \in Worker, StartScheduledRun(w)
  PROVE  NotificationInv'
<1>1. notice' = notice
  BY DEF StartScheduledRun
<1>2. CASE StartRun(w) /\ UNCHANGED bridge
  <2>1. FullInv'
    BY <1>2, NextInv, NextHistory DEF NotificationInv, FullInv, Next, Dispatch
  <2>2. clock' = clock /\ UNCHANGED <<outbox, history>>
        /\ worker' = [worker EXCEPT ![w] = RunAt("recover", clock, {})]
    BY <1>2 DEF StartRun
  <2>3. ASSUME NEW m \in Message, ~ Ordinary(m) PROVE Mailed(m)' /\ Stays(m)
    BY <2>2, <2>3, BeginsMailed DEF NotificationInv, NoticeInv
  <2>4. QED
    BY <1>1, <1>2, <2>1, <2>2, <2>3, BridgeKept, OutboxMoves
<1>3. ASSUME NEW picked \in SUBSET PendingNotices,
             bridge' = [bridge EXCEPT ![w] =
               [phase |-> "bridge", now |-> clock, left |-> picked, bridged |-> {}]],
             UNCHANGED vars
      PROVE  NotificationInv'
  <2> DEFINE new == [phase |-> "bridge", now |-> clock, left |-> picked, bridged |-> {}]
  <2>1. picked \subseteq Message /\ \A m \in picked : notice[m].state # "none"
    BY DEF PendingNotices
  <2>2. clock \in Times /\ clock <= clock
    BY OutboxAssumption DEF NotificationInv, FullInv, OutboxInv, TypeOK, Times
  <2>3. new \in Bridges
    BY <2>1, <2>2 DEF Bridges
  <2>4. bridge' \in [Worker -> Bridges] /\ bridge'[w] = new
        /\ \A v \in Worker \ {w} : bridge'[v] = bridge[v]
    BY <1>3, <2>3 DEF NotificationInv, NoticeInv
  <2>5. UNCHANGED <<clock, outbox, worker, history>>
    BY <1>3 DEF vars
  <2>6. ASSUME NEW v \in Worker PROVE BridgeFits(v)'
    <3>1. CASE v = w
      BY <1>1, <2>1, <2>2, <2>4, <2>5, <3>1 DEF BridgeFits
    <3>2. CASE v # w
      BY <1>1, <2>4, <2>5, <3>2 DEF BridgeFits, NotificationInv, NoticeInv
    <3>3. QED
      BY <3>1, <3>2
  <2>7. FullInv'
    BY <1>3, NextInv, NextHistory DEF NotificationInv, FullInv
  <2>8. ASSUME NEW m \in Message, ~ Ordinary(m) PROVE Mailed(m)' /\ Stays(m)
    <3>1. Mailed(m) /\ \A v \in Worker : GoesOn(v)
      BY <2>5, <2>8 DEF GoesOn, Answered, NotificationInv, NoticeInv
    <3>2. QED
      BY <2>5, <3>1, Untouched
  <2>9. QED
    BY <1>1, <2>4, <2>6, <2>7, <2>8, OutboxMoves
<1>4. QED
  BY <1>2, <1>3 DEF StartScheduledRun

\* A notification that concludes is told what its message says.
LEMMA Concluded ==
  ASSUME NotificationInv, NEW n \in Message, NEW state \in NoticeStates,
         state # "ordinary", state # "none", Conclude(n, state)
  PROVE  /\ notice' \in [Message -> Notices]
         /\ \A m \in Message : Ordinary(m)' <=> Ordinary(m)
         /\ \A m \in Message : notice'[m].state = "none" => notice[m].state = "none"
         /\ \A m \in Message \ {n} : notice'[m] = notice[m]
         /\ notice'[n].sound = notice[n].sound
         /\ notice'[n].state = IF notice[n].state = "pending" THEN state ELSE notice[n].state
<1>1. notice \in [Message -> Notices]
  BY DEF NotificationInv, NoticeInv
<1>2. CASE notice[n].state = "pending"
  <2>1. notice' = [notice EXCEPT ![n].state = state]
    BY <1>2 DEF Conclude
  <2>2. [notice[n] EXCEPT !.state = state] \in Notices
    BY <1>1 DEF Notices
  <2>3. notice' \in [Message -> Notices]
    BY <1>1, <2>1, <2>2
  <2>4. notice'[n].state = state /\ notice'[n].sound = notice[n].sound
    BY <1>1, <2>1 DEF Notices
  <2>5. \A m \in Message \ {n} : notice'[m] = notice[m]
    BY <1>1, <2>1
  <2>6. QED
    BY <1>2, <2>3, <2>4, <2>5 DEF Ordinary
<1>3. CASE notice[n].state # "pending"
  BY <1>1, <1>3 DEF Conclude, Ordinary
<1>4. QED
  BY <1>2, <1>3

\* The bridge of one process that changes to another.
LEMMA BridgeMoves ==
  ASSUME NotificationInv, clock' = clock, NEW w \in Worker, NEW new \in Bridges,
         bridge' = [bridge EXCEPT ![w] = new], new.now <= clock,
         new.phase = "bridge" => bridge[w].phase = "bridge" /\ new.left \subseteq bridge[w].left,
         \A m \in Message : notice'[m].state = "none" => notice[m].state = "none"
  PROVE  bridge' \in [Worker -> Bridges] /\ \A v \in Worker : BridgeFits(v)'
<1>1. /\ bridge \in [Worker -> Bridges]
      /\ \A v \in Worker : BridgeFits(v) /\ bridge[v].left \subseteq Message
  BY DEF NotificationInv, NoticeInv, Bridges
<1>2. bridge' \in [Worker -> Bridges] /\ bridge'[w] = new
      /\ \A v \in Worker \ {w} : bridge'[v] = bridge[v]
  BY <1>1
<1>3. ASSUME NEW v \in Worker PROVE BridgeFits(v)'
  <2>1. CASE v = w
    BY <1>1, <1>2, <2>1 DEF BridgeFits
  <2>2. CASE v # w
    BY <1>1, <1>2, <2>2 DEF BridgeFits
  <2>3. QED
    BY <2>1, <2>2
<1>4. QED
  BY <1>2, <1>3

\* Steps that conclude a notification and leave the outbox alone.
LEMMA ConcludesInv ==
  ASSUME NotificationInv, UNCHANGED vars, NEW n \in Message, NEW state \in NoticeStates,
         state # "ordinary", state # "none", Conclude(n, state),
         bridge' \in [Worker -> Bridges], \A w \in Worker : BridgeFits(w)',
         ~ Ordinary(n) /\ notice[n].state = "pending" /\ state = "sent"
           => outbox[n].state = "delivered",
         ~ Ordinary(n) /\ notice[n].state = "pending" /\ state = "failed" /\ notice[n].sound
           => outbox[n].state = "failed"
  PROVE  NotificationInv'
<1>1. /\ notice' \in [Message -> Notices]
      /\ \A m \in Message : Ordinary(m)' <=> Ordinary(m)
      /\ \A m \in Message : notice'[m].state = "none" => notice[m].state = "none"
      /\ \A m \in Message \ {n} : notice'[m] = notice[m]
      /\ notice'[n].sound = notice[n].sound
      /\ notice'[n].state = IF notice[n].state = "pending" THEN state ELSE notice[n].state
  BY Concluded
<1>2. UNCHANGED <<clock, outbox, worker, history>>
  BY DEF vars
<1>3. FullInv'
  BY NextInv, NextHistory DEF NotificationInv, FullInv
<1>4. ASSUME NEW m \in Message, ~ Ordinary(m)' PROVE Told(m)' /\ Mailed(m)'
  <2>1. ~ Ordinary(m) /\ Told(m) /\ Mailed(m)
    BY <1>1, <1>4 DEF NotificationInv, NoticeInv
  <2>2. Mailed(m)'
    BY <1>2, <2>1 DEF Mailed, Tried, Counts, Owns, Answered, Canceled
  <2>3. CASE m # n
    BY <1>1, <1>2, <2>1, <2>2, <2>3 DEF Told
  <2>4. CASE m = n
    BY <1>1, <1>2, <2>1, <2>2, <2>4 DEF Told
  <2>5. QED
    BY <2>3, <2>4
<1>5. QED
  BY <1>1, <1>3, <1>4 DEF NotificationInv, NoticeInv

LEMMA BridgeNotificationInv ==
  ASSUME NotificationInv, NEW w \in Worker, NEW n \in Message, BridgeNotification(w, n)
  PROVE  NotificationInv'
<1>1. bridge[w] \in Bridges /\ bridge[w].now <= clock
      /\ bridge[w].phase = "bridge" /\ n \in bridge[w].left /\ notice[n].state # "none"
  BY DEF BridgeNotification, NotificationInv, NoticeInv, BridgeFits
<1>2. UNCHANGED <<clock, worker, history>>
  BY DEF BridgeNotification
<1>3. CASE ~ notice[n].sound
  <2> DEFINE new == [bridge[w] EXCEPT !.left = bridge[w].left \ {n}]
  <2>1. /\ bridge' = [bridge EXCEPT ![w] = new]
        /\ Conclude(n, "failed") /\ outbox' = outbox
    BY <1>3 DEF BridgeNotification, NotificationInv, NoticeInv
  <2>2. /\ new \in Bridges /\ new.now = bridge[w].now
        /\ new.left \subseteq bridge[w].left
    BY <1>1 DEF Bridges
  <2>3. \A m \in Message : notice'[m].state = "none" => notice[m].state = "none"
    BY <2>1, Concluded DEF NoticeStates
  <2>4. bridge' \in [Worker -> Bridges] /\ \A v \in Worker : BridgeFits(v)'
    BY <1>1, <1>2, <2>1, <2>2, <2>3, BridgeMoves
  <2>5. UNCHANGED vars
    BY <1>2, <2>1 DEF vars
  <2>6. QED
    BY <1>3, <2>1, <2>4, <2>5, ConcludesInv DEF NoticeStates
<1>4. CASE notice[n].sound
  <2> DEFINE new == [bridge[w] EXCEPT !.left = bridge[w].left \ {n},
                                      !.bridged = bridge[w].bridged \cup {n}]
  <2>1. bridge' = [bridge EXCEPT ![w] = new] /\ notice' = notice
    BY <1>4 DEF BridgeNotification, NotificationInv, NoticeInv
  <2>2. /\ new \in Bridges /\ new.now = bridge[w].now
        /\ new.left \subseteq bridge[w].left
    BY <1>1 DEF Bridges
  <2>3. bridge' \in [Worker -> Bridges] /\ \A v \in Worker : BridgeFits(v)'
    BY <1>1, <1>2, <2>1, <2>2, BridgeMoves
  <2>4. CASE outbox[n].state # "absent"
    <3>1. UNCHANGED vars
      BY <1>2, <1>4, <2>4 DEF BridgeNotification, vars
    <3>2. FullInv'
      BY <3>1, NextInv, NextHistory DEF NotificationInv, FullInv
    <3>3. ASSUME NEW m \in Message, ~ Ordinary(m) PROVE Mailed(m)' /\ Stays(m)
      <4>1. Mailed(m) /\ \A v \in Worker : GoesOn(v)
        BY <3>1, <3>3 DEF vars, GoesOn, Answered, NotificationInv, NoticeInv
      <4>2. QED
        BY <3>1, <4>1, Untouched DEF vars
    <3>4. QED
      BY <2>1, <2>3, <3>2, <3>3, OutboxMoves
  <2>5. CASE outbox[n].state = "absent"
    <3>1. outbox' = [outbox EXCEPT ![n] = QueuedRow(notice[n].queuedAt, Never)]
      BY <1>4, <2>5 DEF BridgeNotification
    <3>2. notice[n].queuedAt \in Times /\ Never \in 0 .. Never
      BY OutboxAssumption DEF NotificationInv, NoticeInv, Notices, Never
    <3>3. FullInv'
      BY <1>2, <2>5, <3>1, <3>2, InsertInv, InsertHistory DEF NotificationInv, FullInv
    <3>4. ASSUME NEW m \in Message, ~ Ordinary(m)' PROVE Told(m)' /\ Mailed(m)'
      <4>1. Told(m) /\ Mailed(m)
        BY <2>1, <3>4 DEF Ordinary, NotificationInv, NoticeInv
      <4>2. CASE m # n
        <5>1. outbox'[m] = outbox[m] /\ history' = history
          BY <1>2, <3>1, <4>2 DEF NotificationInv, FullInv, OutboxInv, TypeOK
        <5>2. \A v \in Worker : GoesOn(v)
          BY <1>2 DEF GoesOn, Answered
        <5>3. QED
          BY <2>1, <4>1, <5>1, <5>2, Untouched, ToldKept
      <4>3. CASE m = n
        <5>1. /\ outbox'[m].state = "queued" /\ outbox'[m].expires = Never
              /\ outbox'[m].cancellation = "none"
          BY <3>1, <4>3 DEF QueuedRow, NotificationInv, FullInv, OutboxInv, TypeOK
        <5>2. history'[m].accepts = 0 /\ \A v \in Worker : worker[v].msg # m
          BY <1>2, <2>5, <4>1, <4>3 DEF Mailed, Tried, Counts
        <5>3. Mailed(m)'
          BY <1>2, <5>1, <5>2 DEF Mailed, Tried, Counts, Canceled
        <5>4. Told(m)'
          BY <1>1, <1>4, <2>1, <2>5, <4>1, <4>3 DEF Told
        <5>5. QED
          BY <5>3, <5>4
      <4>4. QED
        BY <4>2, <4>3
    <3>5. QED
      BY <2>1, <2>3, <3>3, <3>4 DEF NotificationInv, NoticeInv
  <2>6. QED
    BY <2>4, <2>5
<1>5. QED
  BY <1>3, <1>4

LEMMA StartDispatchInv ==
  ASSUME NotificationInv, NEW w \in Worker, StartDispatch(w)
  PROVE  NotificationInv'
<1> DEFINE now == bridge[w].now
           new == IF bridge[w].bridged = {} THEN NoBridge
                  ELSE [phase |-> "synchronize", now |-> 0,
                        left |-> bridge[w].bridged, bridged |-> {}]
<1>1. bridge[w] \in Bridges /\ now \in Times /\ now <= clock /\ 0 \in Times /\ 0 <= clock
  BY OutboxAssumption
  DEF NotificationInv, FullInv, OutboxInv, TypeOK, Times, NoticeInv, BridgeFits, Bridges
<1>2. /\ worker' = [worker EXCEPT ![w] = RunAt("recover", now, {})]
      /\ bridge' = [bridge EXCEPT ![w] = new]
      /\ UNCHANGED <<clock, outbox, history>> /\ notice' = notice
  BY DEF StartDispatch, NotificationInv, NoticeInv
<1>3. FullInv'
  BY <1>1, <1>2, BeginsInv, BeginsHistory DEF NotificationInv, FullInv
<1>4. new \in Bridges /\ new.now <= clock /\ new.phase # "bridge"
  BY <1>1 DEF Bridges, NoBridge
<1>5. bridge' \in [Worker -> Bridges] /\ \A v \in Worker : BridgeFits(v)'
  BY <1>2, <1>4, BridgeMoves
<1>6. ASSUME NEW m \in Message, ~ Ordinary(m) PROVE Mailed(m)' /\ Stays(m)
  BY <1>2, <1>6, BeginsMailed DEF NotificationInv, NoticeInv
<1>7. QED
  BY <1>2, <1>3, <1>5, <1>6, OutboxMoves

LEMMA ContinueDispatchInv ==
  ASSUME NotificationInv, NEW w \in Worker, ContinueDispatch(w)
  PROVE  NotificationInv'
<1>1. /\ notice' = notice
      /\ bridge' = bridge \/ bridge' = [bridge EXCEPT ![w] = NoBridge]
  BY DEF ContinueDispatch
<1>2. Dispatch(w)
  BY DEF ContinueDispatch, Dispatch, Sweep
<1>3. FullInv'
  BY <1>2, NextInv, NextHistory DEF NotificationInv, FullInv, Next
<1>4. clock' = clock
  BY DEF ContinueDispatch, CancelExpiredAborts, RecoverExpiredLeases, FailExhaustedLeases,
         CancelExpired, SelectBatch, Visit, LeaseCandidate, SkipCandidate, ReadRow,
         ReleaseCanceled, Record, RecordDelivered, RecordQuota, RecordRetry, RecordFailed,
         Settle, Send
<1>5. ASSUME NEW m \in Message, ~ Ordinary(m) PROVE Mailed(m)' /\ Stays(m)
  <2>1. FullInv /\ Mailed(m)
    BY <1>5 DEF NotificationInv, NoticeInv
  <2>2. CASE CancelExpiredAborts(w)
    BY <2>1, <2>2, RunEndsMailed DEF CancelExpiredAborts
  <2>3. CASE RecoverExpiredLeases(w) \/ FailExhaustedLeases(w) \/ CancelExpired(w)
    BY <2>1, <2>3, RecoverMailed, FailExhaustedMailed, CancelExpiredMailed
  <2>4. CASE SelectBatch(w)
    <3>1. PICK batch \in SUBSET Candidates(worker[w].now) :
            worker' = [worker EXCEPT ![w] = RunOn(worker[w].now, batch)]
      BY <2>4, Zenon DEF SelectBatch
    <3>2. batch \in SUBSET Message
      BY DEF Candidates
    <3>3. QED
      BY <2>1, <2>4, <3>1, <3>2, RunOnMailed DEF SelectBatch
  <2>5. CASE Visit(w)
    <3>1. CASE \E n \in Message : SkipCandidate(w, n)
      <4>1. PICK n \in Message : SkipCandidate(w, n)
        BY <3>1
      <4>2. worker[w].batch \ {n} \in SUBSET Message
        BY <2>1 DEF FullInv, OutboxInv, TypeOK, Runs
      <4>3. worker' = [worker EXCEPT ![w] = RunOn(worker[w].now, worker[w].batch \ {n})]
        BY <2>1, <4>1 DEF SkipCandidate, FullInv, OutboxInv, TypeOK
      <4>4. QED
        BY <2>1, <4>1, <4>2, <4>3, RunOnMailed DEF SkipCandidate
    <3>2. CASE \E n \in Message, t \in Token : LeaseCandidate(w, n, t)
      BY <2>1, <3>2, LeaseMailed
    <3>3. CASE ReadRow(w) \/ ReleaseCanceled(w)
      BY <2>1, <3>3, ReadMailed, RecordMailed
    <3>4. QED
      BY <2>5, <3>1, <3>2, <3>3 DEF Visit
  <2>6. CASE Record(w)
    BY <2>1, <2>6, RecordMailed
  <2>7. CASE \E result \in Results \ {"none"}, accepted \in BOOLEAN : Send(w, result, accepted)
    BY <2>1, <2>7, SendMailed
  <2>8. QED
    BY <2>2, <2>3, <2>4, <2>5, <2>6, <2>7 DEF ContinueDispatch
<1>6. QED
  BY <1>1, <1>3, <1>4, <1>5, BridgeKept, OutboxMoves

LEMMA SynchronizeNotificationInv ==
  ASSUME NotificationInv, NEW w \in Worker, NEW n \in Message, SynchronizeNotification(w, n)
  PROVE  NotificationInv'
<1> DEFINE new == IF bridge[w].left = {n} THEN NoBridge
                  ELSE [bridge[w] EXCEPT !.left = bridge[w].left \ {n}]
<1>1. /\ bridge[w] \in Bridges /\ bridge[w].now <= clock /\ 0 \in Times /\ 0 <= clock
      /\ bridge[w].phase = "synchronize"
  BY OutboxAssumption
  DEF SynchronizeNotification, NotificationInv, FullInv, OutboxInv, TypeOK, Times,
      NoticeInv, BridgeFits
<1>2. /\ bridge' = [bridge EXCEPT ![w] = new]
      /\ UNCHANGED vars /\ clock' = clock /\ Conclude(n, Outcome(outbox[n]))
  BY DEF SynchronizeNotification, NotificationInv, NoticeInv, vars
<1>3. new \in Bridges /\ new.now <= clock /\ new.phase # "bridge"
  BY <1>1 DEF Bridges, NoBridge
<1>4. /\ Outcome(outbox[n]) \in {"sent", "failed", "pending"}
      /\ Outcome(outbox[n]) = "sent" => outbox[n].state = "delivered"
      /\ Outcome(outbox[n]) = "failed" => outbox[n].state = "failed"
  BY DEF Outcome
<1>5. \A m \in Message : notice'[m].state = "none" => notice[m].state = "none"
  BY <1>2, <1>4, Concluded DEF NoticeStates
<1>6. bridge' \in [Worker -> Bridges] /\ \A v \in Worker : BridgeFits(v)'
  BY <1>2, <1>3, <1>5, BridgeMoves
<1>7. QED
  BY <1>2, <1>4, <1>6, ConcludesInv DEF NoticeStates

LEMMA RunDiesInv ==
  ASSUME NotificationInv, NEW w \in Worker, RunDies(w)
  PROVE  NotificationInv'
<1>1. /\ worker' = [worker EXCEPT ![w] = NoRun] /\ bridge' = [bridge EXCEPT ![w] = NoBridge]
      /\ clock' = clock /\ UNCHANGED <<outbox, history>> /\ notice' = notice
  BY DEF RunDies
<1>2. FullInv'
  BY <1>1, RunEndsInv, RunEndsHistory DEF NotificationInv, FullInv
<1>3. ASSUME NEW m \in Message, ~ Ordinary(m) PROVE Mailed(m)' /\ Stays(m)
  BY <1>1, <1>3, RunEndsMailed DEF NotificationInv, NoticeInv
<1>4. QED
  BY <1>1, <1>2, <1>3, BridgeKept, OutboxMoves

LEMMA NotificationNextInv == NotificationInv /\ [NotificationNext]_allVars => NotificationInv'
<1> SUFFICES ASSUME NotificationInv, [NotificationNext]_allVars PROVE NotificationInv'
  OBVIOUS
<1>1. CASE Outside
  BY <1>1, MailInv, QueueNotificationInv, NotificationTickInv DEF Outside
<1>2. ASSUME NEW w \in Worker, ScheduledRun(w) PROVE NotificationInv'
  BY <1>2, StartScheduledRunInv, BridgeNotificationInv, SynchronizeNotificationInv,
     StartDispatchInv, ContinueDispatchInv DEF ScheduledRun
<1>3. CASE \E w \in Worker : RunDies(w)
  BY <1>3, RunDiesInv
<1>4. CASE UNCHANGED allVars
  <2>1. UNCHANGED vars /\ clock' = clock /\ bridge' = bridge /\ notice' = notice
        /\ UNCHANGED <<outbox, worker, history>>
    BY <1>4 DEF allVars, vars
  <2>2. FullInv'
    BY <2>1, NextInv, NextHistory DEF NotificationInv, FullInv
  <2>3. ASSUME NEW m \in Message, ~ Ordinary(m) PROVE Mailed(m)' /\ Stays(m)
    <3>1. Mailed(m) /\ \A w \in Worker : GoesOn(w)
      BY <2>1, <2>3 DEF GoesOn, Answered, NotificationInv, NoticeInv
    <3>2. QED
      BY <2>1, <3>1, Untouched
  <2>4. QED
    BY <2>1, <2>2, <2>3, BridgeKept, OutboxMoves
<1>5. QED
  BY <1>1, <1>2, <1>3, <1>4 DEF NotificationNext

LEMMA NotificationInvariance == NotificationSpec => []NotificationInv
<1>1. NotificationInit => NotificationInv
  BY NotificationInitInv
<1>2. NotificationInv /\ [NotificationNext]_allVars => NotificationInv'
  BY NotificationNextInv
<1>3. QED
  BY <1>1, <1>2, PTL DEF NotificationSpec

\* Whatever runs overlap, die and copy late between the two tables: the owner and
\* the organizers are told of a notification what the provider and the outbox did.
THEOREM PagesAreTrue == NotificationSpec => []PagesTellTruth
<1>1. NotificationInv => PagesTellTruth
  <2> SUFFICES ASSUME NotificationInv, NEW m \in Message, ~ Ordinary(m)
               PROVE  /\ notificationStatus(m) = "provider_accepted" => history[m].accepts > 0
                      /\ notificationStatus(m) = "failed" =>
                           IF notice[m].sound THEN outbox[m].state = "failed"
                                              ELSE outbox[m].state = "absent"
                      /\ notificationStatus(m) = "not_queued" => outbox[m].state = "absent"
                      /\ outbox[m].state # "absent"
                           /\ deliveryStatus(outbox[m]) = "not_attempted"
                           => history[m].accepts = 0
                      /\ transportStatus(outbox[m]) # "canceled"
                      /\ LedgerNotificationAction(m) <=> Queueable(m)
    BY DEF PagesTellTruth
  <2>1. Told(m) /\ Tried(m) /\ notice[m] \in Notices
    BY DEF NotificationInv, NoticeInv, Mailed
  <2>2. outbox[m] \in Rows /\ outbox[m].attempts \in Nat /\ history[m].accepts \in Nat
    BY OutboxAssumption DEF NotificationInv, FullInv, OutboxInv, TypeOK, Rows, Histories
  <2>3. outbox[m].state = "delivered" => history[m].accepts > 0
    BY <2>2 DEF NotificationInv, FullInv, HistoryInv, RowHistory
  <2>4. notificationStatus(m) = "provider_accepted" => history[m].accepts > 0
    BY <2>1, <2>3 DEF notificationStatus, Told
  <2>5. notificationStatus(m) = "failed" =>
          IF notice[m].sound THEN outbox[m].state = "failed" ELSE outbox[m].state = "absent"
    BY <2>1 DEF notificationStatus, Told
  <2>6. notificationStatus(m) = "not_queued" <=> notice[m].state = "none"
    BY <2>1 DEF notificationStatus, Notices, NoticeStates, Ordinary
  <2>7. outbox[m].state # "absent" /\ deliveryStatus(outbox[m]) = "not_attempted"
          => history[m].accepts = 0
    BY <2>1, <2>2 DEF deliveryStatus, Tried
  <2>8. transportStatus(outbox[m]) # "canceled"
    <3>1. outbox[m].state # "absent" => ~ Canceled(outbox[m])
      BY <2>1 DEF Tried
    <3>2. outbox[m].state \in RowStates
      BY <2>2 DEF Rows
    <3>3. QED
      BY <3>1, <3>2 DEF transportStatus, RowStates
  <2>9. QED
    BY <2>1, <2>4, <2>5, <2>6, <2>7, <2>8 DEF Told, LedgerNotificationAction, Queueable
<1>2. QED
  BY <1>1, NotificationInvariance, PTL

\* What the outbox promises alone it promises under the scheduled runs, which insert
\* notifications queued long ago and dispatch at an instant that has passed: nothing
\* is delivered that was not accepted or accepted twice without a cause, and no row is
\* left in the queue without budget.
THEOREM OutboxKeepsItsWord ==
    NotificationSpec => [](DeliveredWasAccepted /\ DuplicateHasCause /\ QueuedHasBudget)
<1>1. NotificationInv => DeliveredWasAccepted /\ DuplicateHasCause /\ QueuedHasBudget
  BY DEF NotificationInv, FullInv, OutboxInv, TypeOK, Histories, HistoryInv, RowHistory,
         DeliveredWasAccepted, DuplicateHasCause
<1>2. QED
  BY <1>1, NotificationInvariance, PTL
=============================================================================
