--------------------------- MODULE PromptDispatch ---------------------------
(***************************************************************************)
(* The dispatcher of MessageOutbox on hosts that never stall: no time      *)
(* passes in a run except inside a provider call, and a call ends no later *)
(* than sendTimeoutMs after it began.  The provider accepts every message  *)
(* and says so in time, no process dies, and nobody cancels or purges.     *)
(* In this situation, the header of scheduler.ts says, no message is sent  *)
(* twice.                                                                  *)
(***************************************************************************)
EXTENDS MessageOutbox

CONSTANTS
  SendTimeout,   \* sendTimeoutMs, in ticks
  Interval,      \* DISPATCH_INTERVAL_MS, in ticks
  FirstTick,     \* FirstTick[w]: when w's timer fires for the first time
  LastTick       \* bound: the clock stops here, at least LeaseTime + BackoffCap
                 \* below Horizon, so that no timer is cut short

VARIABLE callStart     \* callStart[w]: when w's provider call began

promptVars == <<clock, outbox, worker, history, callStart>>

Calling(w) == worker[w].phase = "send"

\* The messages are already queued when the processes start.
PromptInit ==
  /\ clock = 0
  /\ outbox = [m \in Message |-> QueuedRow(0, Never)]
  /\ worker = [w \in Worker |-> NoRun]
  /\ history = [m \in Message |-> [accepts |-> 0, excused |-> FALSE]]
  /\ callStart = [w \in Worker |-> 0]

\* A call ends before its timer fires, and every other step is immediate.
PromptTick ==
  /\ Tick
  /\ clock < LastTick
  /\ \A w \in Worker :
       \/ worker[w].phase = "idle"
       \/ Calling(w) /\ clock < callStart[w] + SendTimeout
  /\ UNCHANGED callStart

\* The timer of startScheduler, which skips a tick that finds a run under way.
TimerFires(w) == clock % Interval = FirstTick[w]

\* What lies between two calls takes no time, so one process does it at a time.
PromptStep(w) ==
  /\ \A v \in Worker \ {w} : worker[v].phase = "idle" \/ Calling(v)
  /\ \/ TimerFires(w) /\ StartRun(w)
     \/ Sweep(w)
     \/ SelectBatch(w)
     \/ Visit(w)
     \/ Send(w, "ok", TRUE)
     \/ Record(w)
  /\ callStart' = IF Calling(w)' /\ ~ Calling(w)
                  THEN [callStart EXCEPT ![w] = clock] ELSE callStart

PromptNext == PromptTick \/ \E w \in Worker : PromptStep(w)

PromptSpec == PromptInit /\ [][PromptNext]_promptVars
-----------------------------------------------------------------------------
\* Without a stall no message is accepted twice: a call is over before another
\* process may take the lease for expired.  It depends on more than the call and
\* the lease: the lease counts from the start of the run, not of the call.
SecondSendNeedsStall == \A m \in Message : history[m].accepts <= 1
=============================================================================
