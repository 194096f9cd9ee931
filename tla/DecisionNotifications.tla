------------------------ MODULE DecisionNotifications ------------------------
(***************************************************************************)
(* The decision notifications and the outbox that mails them.  An          *)
(* organizer queues a notification in notification_outbox                  *)
(* (queueDecisionNotification); a scheduled run                            *)
(* (apps/api/src/app/email-dispatch.ts) copies the pending ones into       *)
(* message_outbox, dispatches the outbox as MessageOutbox describes, and   *)
(* then copies back what became of those it has bridged.  Nothing holds    *)
(* the two tables together but these copies: a run may die after any       *)
(* statement, and another process runs beside it.                          *)
(*                                                                         *)
(* Every dispatch of the program is such a run.  A message is either a     *)
(* notification, known under the hash of its id, or ordinary mail (an      *)
(* invitation, a claim, a reminder), which MessageOutbox enqueues, cancels *)
(* and purges.  A notification has no expiry and nothing cancels it;       *)
(* purgeTerminalMessages, which no part of the program calls, is supposed  *)
(* not to reach it.                                                        *)
(***************************************************************************)
EXTENDS MessageOutbox

CONSTANT BridgeLimit    \* notifications one run takes at most

ASSUME BridgeAssumption == BridgeLimit \in Nat \ {0}

VARIABLES
  notice,   \* notice[m]: the notification_outbox row of m, or what m is without one
  bridge    \* bridge[w]: the notifications the run of process w works on

bridgeVars == <<notice, bridge>>
allVars == <<clock, outbox, worker, history, notice, bridge>>

NoticeStates == {"ordinary", "none", "pending", "sent", "failed"}

\* sound: enqueueMessage takes the recipient and the text of the row.
Notices == [state : NoticeStates, queuedAt : Times, sound : BOOLEAN]

NoBridge == [phase |-> "off", now |-> 0, left |-> {}, bridged |-> {}]

Bridges ==
  [phase : {"off", "bridge", "synchronize"}, now : Times,
   left : SUBSET Message, bridged : SUBSET Message]

Ordinary(m) == notice[m].state = "ordinary"
-----------------------------------------------------------------------------
\* queueDecisionNotification: the row's id is made of the decision's, so a second
\* insert fails and is answered from the first.
Queueable(m) == notice[m].state = "none"

QueueNotification(m, sound) ==
  /\ Queueable(m)
  /\ notice' = [notice EXCEPT ![m] = [state |-> "pending", queuedAt |-> clock, sound |-> sound]]
  /\ UNCHANGED <<vars, bridge>>

\* What the rest of the system does to ordinary mail.
Mail(m) ==
  /\ Ordinary(m)
  /\ \/ Enqueue(m)
     \/ \E code \in CancellationCodes : Cancel(m, code)
     \/ Purge(m)
  /\ UNCHANGED bridgeVars

PendingNotices ==
  {m \in Message : notice[m].state = "pending" /\ notice[m].queuedAt >= SendAfter}

\* ORDER BY queued_at, id LIMIT ?; what is left of the order is free.
OldestPending(picked) ==
  /\ picked \subseteq PendingNotices
  /\ Cardinality(picked) <= BridgeLimit
  /\ picked # PendingNotices => Cardinality(picked) = BridgeLimit
  /\ \A m \in picked, n \in PendingNotices \ picked : notice[m].queuedAt <= notice[n].queuedAt

\* The timer fires.  now is fixed here, for the dispatch too; without a pending
\* notification the run is a dispatch.
StartScheduledRun(w) ==
  /\ bridge[w] = NoBridge
  /\ \/ PendingNotices = {} /\ StartRun(w) /\ UNCHANGED bridge
     \/ /\ worker[w].phase = "idle"
        /\ \E picked \in SUBSET PendingNotices \ {{}} :
             /\ OldestPending(picked)
             /\ bridge' = [bridge EXCEPT ![w] =
                  [phase |-> "bridge", now |-> clock, left |-> picked, bridged |-> {}]]
        /\ UNCHANGED vars
  /\ UNCHANGED notice

\* UPDATE notification_outbox SET state = ? WHERE id = ? AND state = 'pending'
Conclude(m, state) ==
  notice' = IF notice[m].state = "pending" THEN [notice EXCEPT ![m].state = state] ELSE notice

\* Mutant of BridgeNotification: a message that is there is somebody else's.
BridgeNewNotification(w, m) ==
  /\ bridge[w].phase = "bridge" /\ m \in bridge[w].left
  /\ IF notice[m].sound
     THEN /\ outbox' = IF outbox[m].state = "absent"
                       THEN [outbox EXCEPT ![m] = QueuedRow(notice[m].queuedAt, Never)]
                       ELSE outbox
          /\ bridge' = [bridge EXCEPT ![w].left = @ \ {m},
                                      ![w].bridged = IF outbox[m].state = "absent"
                                                     THEN @ \cup {m} ELSE @]
          /\ UNCHANGED notice
     ELSE /\ Conclude(m, "failed")
          /\ bridge' = [bridge EXCEPT ![w].left = @ \ {m}]
          /\ UNCHANGED outbox
  /\ UNCHANGED <<clock, worker, history>>

\* enqueueMessage inserts unless the message is there, and a message that differs
\* counts as bridged too.  A row nobody can be mailed for fails at once.
BridgeNotification(w, m) ==
  /\ bridge[w].phase = "bridge" /\ m \in bridge[w].left
  /\ IF notice[m].sound
     THEN /\ outbox' = IF outbox[m].state = "absent"
                       THEN [outbox EXCEPT ![m] = QueuedRow(notice[m].queuedAt, Never)]
                       ELSE outbox
          /\ bridge' = [bridge EXCEPT ![w].left = @ \ {m}, ![w].bridged = @ \cup {m}]
          /\ UNCHANGED notice
     ELSE /\ Conclude(m, "failed")
          /\ bridge' = [bridge EXCEPT ![w].left = @ \ {m}]
          /\ UNCHANGED outbox
  /\ UNCHANGED <<clock, worker, history>>

\* dispatchQueuedMessages at the instant the run started.
StartDispatch(w) ==
  /\ bridge[w].phase = "bridge" /\ bridge[w].left = {}
  /\ worker' = [worker EXCEPT ![w] = RunAt("recover", bridge[w].now, {})]
  /\ bridge' = [bridge EXCEPT ![w] =
       IF @.bridged = {} THEN NoBridge
       ELSE [phase |-> "synchronize", now |-> 0, left |-> @.bridged, bridged |-> {}]]
  /\ UNCHANGED <<clock, outbox, history, notice>>

\* The dispatch goes on, or throws, which ends the run before the copies back.
ContinueDispatch(w) ==
  /\ worker[w].phase # "idle"
  /\ \/ /\ CancelExpiredAborts(w)
        /\ bridge' = [bridge EXCEPT ![w] = NoBridge]
     \/ /\ \/ RecoverExpiredLeases(w) \/ FailExhaustedLeases(w) \/ CancelExpired(w)
           \/ SelectBatch(w) \/ Visit(w) \/ Record(w)
           \/ \E result \in Results \ {"none"}, accepted \in BOOLEAN : Send(w, result, accepted)
        /\ UNCHANGED bridge
  /\ UNCHANGED notice

\* Mutant of Outcome: whatever has left the queue has been sent.
OutcomeOfAttempt(row) ==
  CASE row.state = "delivered" -> "sent"
    [] row.state = "failed"    -> "failed"
    [] row.state = "leased"    -> "sent"
    [] OTHER                   -> "pending"

\* What a message says of its notification.
Outcome(row) ==
  CASE row.state = "delivered" -> "sent"
    [] row.state = "failed"    -> "failed"
    [] OTHER                   -> "pending"

\* synchronizeDecisionNotification.  A message that is delivered or failed stays
\* so, hence its query and the update after it are one step.
SynchronizeNotification(w, m) ==
  /\ bridge[w].phase = "synchronize" /\ worker[w].phase = "idle"
  /\ m \in bridge[w].left
  /\ Conclude(m, Outcome(outbox[m]))
  /\ bridge' = [bridge EXCEPT ![w] =
       IF bridge[w].left = {m} THEN NoBridge
                               ELSE [bridge[w] EXCEPT !.left = @ \ {m}]]
  /\ UNCHANGED vars

\* The process dies, or a statement throws and the run is abandoned.
RunDies(w) ==
  /\ worker[w].phase # "idle" \/ bridge[w] # NoBridge
  /\ worker' = [worker EXCEPT ![w] = NoRun]
  /\ bridge' = [bridge EXCEPT ![w] = NoBridge]
  /\ UNCHANGED <<clock, outbox, history, notice>>

NotificationInit ==
  /\ Init
  /\ notice \in [Message -> {[state |-> s, queuedAt |-> 0, sound |-> TRUE] : s \in {"ordinary", "none"}}]
  /\ bridge = [w \in Worker |-> NoBridge]

ScheduledRun(w) ==
  \/ StartScheduledRun(w)
  \/ \E m \in Message : BridgeNotification(w, m) \/ SynchronizeNotification(w, m)
  \/ StartDispatch(w)
  \/ ContinueDispatch(w)

Outside ==
  \/ \E m \in Message : Mail(m)
  \/ \E m \in Message, sound \in BOOLEAN : QueueNotification(m, sound)
  \/ Tick /\ UNCHANGED bridgeVars

\* The last instant stands for all later time, so "processes stop dying" is that
\* they no longer die then.  (A formula over RunDies could not say it: a run that
\* finds nothing to do ends with the same step.)
NotificationNext ==
  \/ Outside
  \/ \E w \in Worker : ScheduledRun(w)
  \/ clock < Horizon /\ \E w \in Worker : RunDies(w)

\* Time passes; every process's timer fires again, and a run that has started goes
\* on unless it dies.
NotificationSpec ==
  /\ NotificationInit
  /\ [][NotificationNext]_allVars
  /\ WF_allVars(Tick /\ UNCHANGED bridgeVars)
  /\ \A w \in Worker : WF_allVars(ScheduledRun(w))
-----------------------------------------------------------------------------
(***************************************************************************)
(* What the pages say of a notification.                                   *)
(***************************************************************************)

\* ownerWorkspace: notificationStatus.
notificationStatus(m) ==
  CASE notice[m].state = "pending" -> "queued"
    [] notice[m].state = "sent"    -> "provider_accepted"
    [] notice[m].state = "failed"  -> "failed"
    [] OTHER                       -> "not_queued"

\* The ledger's button, which leads to the mail that queues the notification.
LedgerNotificationAction(m) == notificationStatus(m) = "not_queued"

\* listCommunicationHistory: transportStatus and deliveryStatus of a message.
transportStatus(row) ==
  CASE row.state = "delivered"          -> "provider_accepted"
    [] row.state = "failed"             -> "failed"
    [] row.state = "leased"
         /\ ~Canceled(row)              -> "sending"
    [] row.state \in {"queued", "leased"}
         /\ Canceled(row)               -> "canceled"
    [] row.state = "queued"
         /\ ~Canceled(row)              -> IF row.attempts > 0 THEN "retrying" ELSE "queued"
    [] OTHER                            -> "absent"

deliveryStatus(row) ==
  IF transportStatus(row) = "provider_accepted" THEN "unverified"
  ELSE IF row.attempts > 0 THEN "attempted_unverified" ELSE "not_attempted"

(***************************************************************************)
(* Properties.                                                             *)
(***************************************************************************)

\* What the owner and the organizers read of a notification is true, although it
\* is copied between two tables by runs that overlap and die: provider_accepted
\* only if the provider accepted it, failed only if the outbox has given it up or
\* was never to have it, not_attempted only if the provider never had it, and a
\* notification is neither canceled nor in the outbox before it is queued.  And the
\* organizer is offered to queue it exactly as long as that would be taken.
PagesTellTruth ==
  \A m \in Message : ~Ordinary(m) =>
    /\ notificationStatus(m) = "provider_accepted" => history[m].accepts > 0
    /\ notificationStatus(m) = "failed" =>
         IF notice[m].sound THEN outbox[m].state = "failed" ELSE outbox[m].state = "absent"
    /\ notificationStatus(m) = "not_queued" => outbox[m].state = "absent"
    /\ outbox[m].state # "absent" /\ deliveryStatus(outbox[m]) = "not_attempted"
         => history[m].accepts = 0
    /\ transportStatus(outbox[m]) # "canceled"
    /\ LedgerNotificationAction(m) <=> Queueable(m)

\* Nothing queued after the activation cutoff stays open: a message is delivered,
\* failed, canceled or purged in the end, and the notification it carries is told
\* so, whichever runs die between the two tables.
EventuallyTold ==
  QuotaStops =>
    \A m \in Message :
      (m \in PendingNotices \/ Underway(m)) ~> (m \notin PendingNotices /\ ~ Underway(m))
=============================================================================
