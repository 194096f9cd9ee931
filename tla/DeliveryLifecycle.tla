------------------------- MODULE DeliveryLifecycle -------------------------
(***************************************************************************)
(* What the outbox promises about a message, with no clock, no tokens and  *)
(* no dispatchers: the moves the triggers of message_outbox allow, and the *)
(* attempt budget that ends the retries.  MessageOutbox implements it.     *)
(***************************************************************************)
EXTENDS Naturals

CONSTANTS Message, MaxAttempts

VARIABLE delivery   \* delivery[m]: state, attempts used, canceled or not

States == {"absent", "queued", "leased", "delivered", "failed"}
Deliveries == [state: States, attempts: 0 .. MaxAttempts, canceled: BOOLEAN]

Absent == [state |-> "absent", attempts |-> 0, canceled |-> FALSE]

Init == delivery = [m \in Message |-> Absent]

Enqueue(m) ==
  /\ delivery[m].state = "absent"
  /\ delivery' = [delivery EXCEPT ![m] = [Absent EXCEPT !.state = "queued"]]

\* A lease spends one attempt; a message out of budget or canceled gets none.
Lease(m) ==
  /\ delivery[m].state = "queued"
  /\ ~ delivery[m].canceled
  /\ delivery[m].attempts < MaxAttempts
  /\ delivery' = [delivery EXCEPT ![m] =
       [state |-> "leased", attempts |-> @.attempts + 1, canceled |-> FALSE]]

Deliver(m) ==
  /\ delivery[m].state = "leased"
  /\ delivery' = [delivery EXCEPT ![m].state = "delivered"]

\* A message goes back to the queue only with budget left ...
Requeue(S) ==
  /\ \A m \in S : /\ delivery[m].state = "leased"
                  /\ delivery[m].attempts < MaxAttempts
  /\ delivery' = [m \in Message |->
       IF m \in S THEN [delivery[m] EXCEPT !.state = "queued"] ELSE delivery[m]]

\* ... or with the attempt given back: a quota answer, or a canceled message.
Refund(m) ==
  /\ delivery[m].state = "leased"
  /\ delivery' = [delivery EXCEPT ![m] =
       [state |-> "queued", attempts |-> @.attempts - 1, canceled |-> @.canceled]]

Fail(S) ==
  /\ \A m \in S : delivery[m].state = "leased"
  /\ delivery' = [m \in Message |->
       IF m \in S THEN [delivery[m] EXCEPT !.state = "failed"] ELSE delivery[m]]

\* A cancellation is final, and comes before the end of the delivery.
Cancel(S) ==
  /\ \A m \in S : /\ delivery[m].state \in {"queued", "leased"}
                  /\ ~ delivery[m].canceled
  /\ delivery' = [m \in Message |->
       IF m \in S THEN [delivery[m] EXCEPT !.canceled = TRUE] ELSE delivery[m]]

Purge(m) ==
  /\ \/ delivery[m].state \in {"delivered", "failed"}
     \/ delivery[m].state = "queued" /\ delivery[m].canceled
  /\ delivery' = [delivery EXCEPT ![m] = Absent]

Next ==
  \/ \E m \in Message : Enqueue(m) \/ Lease(m) \/ Deliver(m) \/ Refund(m) \/ Purge(m)
  \/ \E S \in SUBSET Message : Requeue(S) \/ Fail(S) \/ Cancel(S)

Spec == Init /\ [][Next]_delivery
=============================================================================
