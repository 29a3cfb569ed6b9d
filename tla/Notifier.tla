------------------------------ MODULE Notifier ------------------------------
(***************************************************************************)
(* Long polls and the in-process notifier (internal/matching/poll.go,      *)
(* internal/history/notifier.go) for one task queue: pollers that find no  *)
(* row register a channel and wait for a notification, a backoff, or the   *)
(* end of their context; a handler that has committed a row takes the      *)
(* registered channels under the mutex and then signals them one by one.   *)
(* Rows also come from other servers and from retries falling due, which   *)
(* nobody announces.  A signal to a channel its poller has stopped reading *)
(* goes nowhere, so cancel also forgets the channel where it is on its way *)
(* to being signalled.                                                     *)
(***************************************************************************)
EXTENDS Naturals

CONSTANTS
    Poller,      \* goroutines in PollWorkflowTask or PollActivityTask
    Persistent,  \* those whose worker polls again whenever a poll ends
    Enqueuer,    \* handlers of this server, each enqueues one row
    MaxUnannounced  \* bound: rows that appear without a notification

ASSUME PollAssumption ==
    /\ Persistent \subseteq Poller
    /\ MaxUnannounced \in Nat

VARIABLES
    queue,    \* visible rows
    waiters,  \* notifier.waiters[key]: whose channels are registered
    signal,   \* has the poller's channel a value buffered?
    poll,     \* where each poller is
    enq,      \* where each enqueuer is
    sending,  \* the channels an enqueuer's notify has yet to signal
    owed,     \* ghost: who was waiting when the enqueuer's row was committed
    spent     \* unannounced rows so far

vars == <<queue, waiters, signal, poll, enq, sending, owed, spent>>

Init ==
    /\ queue = 0 /\ spent = 0
    /\ waiters = {}
    /\ signal = [p \in Poller |-> FALSE]
    /\ poll = [p \in Poller |-> "dequeue"]
    /\ enq = [e \in Enqueuer |-> "idle"]
    /\ sending = [e \in Enqueuer |-> {}]
    /\ owed = [e \in Enqueuer |-> {}]

Goto(p, s) == poll' = [poll EXCEPT ![p] = s]

-----------------------------------------------------------------------------
(* A poller: dispatch, else wait, and again.                               *)

Dispatch(p) ==
    /\ poll[p] = "dequeue"
    /\ IF queue > 0 THEN queue' = queue - 1 /\ Goto(p, "left")
       ELSE UNCHANGED queue /\ Goto(p, "register")
    /\ UNCHANGED <<waiters, signal, enq, sending, owed, spent>>

(* register: a new, empty channel.                                         *)
Register(p) ==
    /\ poll[p] = "register"
    /\ signal' = [signal EXCEPT ![p] = FALSE]
    /\ waiters' = waiters \cup {p}
    /\ Goto(p, "wait")
    /\ UNCHANGED <<queue, enq, sending, owed, spent>>

Notified(p) ==
    /\ poll[p] = "wait" /\ signal[p]
    /\ Goto(p, "retry")
    /\ UNCHANGED <<queue, waiters, signal, enq, sending, owed, spent>>

(* Mutant: wait has no time.After case.                                    *)
BackoffNever(p) == FALSE /\ UNCHANGED vars

BackoffElapses(p) ==
    /\ poll[p] = "wait"
    /\ Goto(p, "retry")
    /\ UNCHANGED <<queue, waiters, signal, enq, sending, owed, spent>>

ContextDone(p) ==
    /\ poll[p] = "wait"
    /\ Goto(p, "leave")
    /\ UNCHANGED <<queue, waiters, signal, enq, sending, owed, spent>>

(* Mutant: the deferred cancel is only called when the poll ends.          *)
CancelOnLeave(p) ==
    /\ poll[p] \in {"retry", "leave"}
    /\ waiters' = IF poll[p] = "leave" THEN waiters \ {p} ELSE waiters
    /\ sending' = [e \in Enqueuer |-> sending[e] \ {p}]
    /\ owed' = [e \in Enqueuer |-> owed[e] \ {p}]
    /\ Goto(p, IF poll[p] = "retry" THEN "dequeue" ELSE "left")
    /\ UNCHANGED <<queue, signal, enq, spent>>

(* wait's deferred cancel.                                                 *)
Cancel(p) ==
    /\ poll[p] \in {"retry", "leave"}
    /\ waiters' = waiters \ {p}
    /\ sending' = [e \in Enqueuer |-> sending[e] \ {p}]
    /\ owed' = [e \in Enqueuer |-> owed[e] \ {p}]
    /\ Goto(p, IF poll[p] = "retry" THEN "dequeue" ELSE "left")
    /\ UNCHANGED <<queue, signal, enq, spent>>

(* The worker's next PollWorkflowTaskQueue or PollActivityTaskQueue call.  *)
PollAgain(p) ==
    /\ poll[p] = "left"
    /\ Goto(p, "dequeue")
    /\ UNCHANGED <<queue, waiters, signal, enq, sending, owed, spent>>

-----------------------------------------------------------------------------
(* An enqueuer: commit, then notify.                                       *)

Commit(e) ==
    /\ enq[e] = "idle"
    /\ queue' = queue + 1
    /\ owed' = [owed EXCEPT ![e] = {p \in Poller : poll[p] = "wait"}]
    /\ enq' = [enq EXCEPT ![e] = "committed"]
    /\ UNCHANGED <<waiters, signal, poll, sending, spent>>

(* Mutant: notify wakes one waiter and drops the others.                   *)
NotifyTakeOne(e) ==
    /\ enq[e] = "committed"
    /\ sending' = [sending EXCEPT ![e] =
          {p \in waiters : p = CHOOSE q \in waiters : TRUE}]
    /\ waiters' = {}
    /\ enq' = [enq EXCEPT ![e] = "sending"]
    /\ UNCHANGED <<queue, signal, poll, owed, spent>>

(* Under the mutex: read the list and delete it.                           *)
NotifyTake(e) ==
    /\ enq[e] = "committed"
    /\ sending' = [sending EXCEPT ![e] = waiters]
    /\ waiters' = {}
    /\ enq' = [enq EXCEPT ![e] = "sending"]
    /\ UNCHANGED <<queue, signal, poll, owed, spent>>

(* Without it: a non-blocking send to each.                                *)
NotifySend(e) ==
    /\ enq[e] = "sending"
    /\ \E p \in sending[e] :
          /\ signal' = [signal EXCEPT ![p] = TRUE]
          /\ sending' = [sending EXCEPT ![e] = @ \ {p}]
    /\ UNCHANGED <<queue, waiters, poll, enq, owed, spent>>

NotifyDone(e) ==
    /\ enq[e] = "sending" /\ sending[e] = {}
    /\ enq' = [enq EXCEPT ![e] = "done"]
    /\ UNCHANGED <<queue, waiters, signal, poll, sending, owed, spent>>

(* Another server commits a row, a retry falls due, a lease is reaped.     *)
RowAppears ==
    /\ spent < MaxUnannounced
    /\ queue' = queue + 1
    /\ spent' = spent + 1
    /\ UNCHANGED <<waiters, signal, poll, enq, sending, owed>>

-----------------------------------------------------------------------------
PollStep(p) == \/ Dispatch(p) \/ Register(p) \/ Notified(p) \/ Cancel(p)
EnqueueStep(e) == NotifyTake(e) \/ NotifySend(e) \/ NotifyDone(e)

Next ==
    \/ \E p \in Poller :
          PollStep(p) \/ BackoffElapses(p) \/ ContextDone(p) \/ PollAgain(p)
    \/ \E e \in Enqueuer : Commit(e) \/ EnqueueStep(e)
    \/ RowAppears

Spec == Init /\ [][Next]_vars

(* Polls run, the backoff timer fires, a persistent worker polls again; a  *)
(* context need not end and no row need come.                              *)
FairSpec ==
    /\ Spec
    /\ \A p \in Poller : WF_vars(PollStep(p)) /\ WF_vars(BackoffElapses(p))
    /\ \A p \in Persistent : WF_vars(PollAgain(p))
    /\ \A e \in Enqueuer : WF_vars(EnqueueStep(e))

-----------------------------------------------------------------------------
(* An abandoned wait leaves no entry behind: only a poller that is waiting *)
(* is registered (register's cancel func).                                 *)
NoLeakedWaiter == \A p \in waiters : poll[p] \in {"wait", "retry", "leave"}

(* Whoever was waiting when a row was committed has been signalled once    *)
(* notify is done, is about to be by a rival notify that had taken its     *)
(* channel, or has stopped waiting: concurrent notifications and           *)
(* cancellations drop nobody (notify).                                     *)
WaitersSignalled ==
    \A e \in Enqueuer : enq[e] = "done" =>
        \A p \in owed[e] :
            poll[p] = "wait" => signal[p] \/ \E f \in Enqueuer : p \in sending[f]

(* A visible row is taken, announced or not, as long as one worker goes on *)
(* polling (PollWorkflowTask, PollActivityTask).                           *)
RowsAreTaken == queue > 0 ~> queue = 0
=============================================================================
