------------------------ MODULE OutboxCancellation ------------------------
(***************************************************************************)
(* The outbox with a memory of the calls that a cancellation came too late  *)
(* for.  A dispatcher reads the row once, and calls the provider some time  *)
(* after; a route, or another dispatcher's sweep, may cancel the message in  *)
(* between, and the call is made all the same.  overtaken remembers of which *)
(* runs that is so.  It is a history variable: it keeps no step from         *)
(* happening, and the outbox is the same with it as without.                 *)
(***************************************************************************)
EXTENDS MessageOutbox

VARIABLE overtaken  \* the runs whose message was canceled while they were to call

watched == <<vars, overtaken>>
-----------------------------------------------------------------------------
\* The run of w has read its row and is still to call the provider.
StillToCall(w) == worker[w].phase = "send" /\ worker'[w] = worker[w]

NewlyCanceled(m) == ~ Canceled(outbox[m]) /\ Canceled(outbox'[m])

WatchInit == Init /\ overtaken = {}

WatchNext ==
  /\ Next
  /\ overtaken' = {w \in Worker :
       StillToCall(w) /\ (w \in overtaken \/ NewlyCanceled(worker[w].msg))}

WatchSpec == WatchInit /\ [][WatchNext]_watched
-----------------------------------------------------------------------------
\* A cancellation stops every send but those it came too late for: the provider
\* accepts a message that is canceled only in the call of a run that had read the row
\* before the cancellation committed, and only while that run owns the lease, unless
\* the message has a cause to be sent twice (a lease that ran out, an answer that was
\* lost, a purge).  No retry and no second dispatcher sends it after that.
LateSendWasOvertaken ==
  [][\A w \in Worker, result \in Results :
       Send(w, result, TRUE) /\ Canceled(outbox[worker[w].msg])
         => /\ w \in overtaken
            /\ Owns(w) \/ history[worker[w].msg].excused]_watched
=============================================================================
