--------------------------- MODULE NotifierProofs ---------------------------
(***************************************************************************)
(* Proofs about Notifier, for every set of pollers and enqueuing handlers: *)
(* the list of waiters never leaks an entry, and no interleaving of        *)
(* registrations, notifications and cancellations drops a waiter.          *)
(***************************************************************************)
EXTENDS Notifier, TLAPS

Waiting == {"wait", "retry", "leave"}

(* The map and the channels are about pollers only.                        *)
TypeInv ==
    /\ waiters \subseteq Poller
    /\ signal \in [Poller -> BOOLEAN]
    /\ poll \in [Poller -> {"dequeue", "register", "left"} \cup Waiting]
    /\ enq \in [Enqueuer -> {"idle", "committed", "sending", "done"}]
    /\ sending \in [Enqueuer -> SUBSET Poller]
    /\ owed \in [Enqueuer -> SUBSET Poller]

(* A channel is taken once: before notify has read the list it has nothing *)
(* to send, so reading it overwrites nobody's pending signal.              *)
TakenOnce == \A e \in Enqueuer : enq[e] \in {"idle", "committed"} => sending[e] = {}

(* A channel that is waited on and empty can still be reached: registered, *)
(* or taken by a notify that has yet to signal it.                         *)
Reachable ==
    \A p \in Poller : poll[p] = "wait" /\ ~signal[p] =>
        p \in waiters \/ \E f \in Enqueuer : p \in sending[f]

(* Only a poller in the wait of that time is owed a signal; once the list  *)
(* has been read, a registration cannot be what reaches it.                *)
OwedInv ==
    \A e \in Enqueuer :
        /\ \A p \in owed[e] : poll[p] \in Waiting
        /\ enq[e] \in {"sending", "done"} =>
              \A p \in owed[e] : poll[p] = "wait" /\ ~signal[p] =>
                  \E f \in Enqueuer : p \in sending[f]

NotifierInv ==
    TypeInv /\ NoLeakedWaiter /\ TakenOnce /\ Reachable /\ OwedInv

LEMMA NotifierInvInit == Init => NotifierInv
BY DEF Init, NotifierInv, TypeInv, NoLeakedWaiter, TakenOnce, Reachable, OwedInv,
       Waiting

LEMMA PollerStepKeeps ==
    ASSUME NotifierInv, NEW p \in Poller,
           PollStep(p) \/ BackoffElapses(p) \/ ContextDone(p) \/ PollAgain(p)
    PROVE  NotifierInv'
<1> USE DEF NotifierInv
<1>1. CASE Dispatch(p)
  <2>1. /\ poll[p] = "dequeue"
        /\ poll' \in {[poll EXCEPT ![p] = "left"], [poll EXCEPT ![p] = "register"]}
        /\ UNCHANGED <<waiters, signal, enq, sending, owed>>
    BY <1>1 DEF Dispatch, Goto
  <2> QED
    BY <2>1 DEF TypeInv, NoLeakedWaiter, TakenOnce, Reachable, OwedInv, Waiting
<1>2. CASE Register(p)
  BY <1>2 DEF Register, Goto, TypeInv, NoLeakedWaiter, TakenOnce, Reachable,
              OwedInv, Waiting
<1>3. CASE Notified(p) \/ BackoffElapses(p) \/ ContextDone(p)
  <2>1. /\ poll[p] = "wait"
        /\ poll' \in {[poll EXCEPT ![p] = "retry"], [poll EXCEPT ![p] = "leave"]}
        /\ UNCHANGED <<waiters, signal, enq, sending, owed>>
    BY <1>3 DEF Notified, BackoffElapses, ContextDone, Goto
  <2> QED
    BY <2>1 DEF TypeInv, NoLeakedWaiter, TakenOnce, Reachable, OwedInv, Waiting
<1>4. CASE Cancel(p)
  <2>1. /\ poll[p] \in {"retry", "leave"}
        /\ poll' \in {[poll EXCEPT ![p] = "dequeue"], [poll EXCEPT ![p] = "left"]}
        /\ waiters' = waiters \ {p}
        /\ sending' = [e \in Enqueuer |-> sending[e] \ {p}]
        /\ owed' = [e \in Enqueuer |-> owed[e] \ {p}]
        /\ UNCHANGED <<signal, enq>>
    BY <1>4 DEF Cancel, Goto
  <2>2. \A q \in Poller \ {p} : poll'[q] = poll[q]
        /\ \A e \in Enqueuer : q \in sending[e] <=> q \in sending'[e]
    BY <2>1 DEF TypeInv
  <2> QED
    BY <2>1, <2>2 DEF TypeInv, NoLeakedWaiter, TakenOnce, Reachable, OwedInv, Waiting
<1>5. CASE PollAgain(p)
  BY <1>5 DEF PollAgain, Goto, TypeInv, NoLeakedWaiter, TakenOnce, Reachable,
              OwedInv, Waiting
<1> QED
  BY <1>1, <1>2, <1>3, <1>4, <1>5 DEF PollStep

LEMMA EnqueuerStepKeeps ==
    ASSUME NotifierInv, NEW e \in Enqueuer, Commit(e) \/ EnqueueStep(e)
    PROVE  NotifierInv'
<1> USE DEF NotifierInv
<1>1. CASE Commit(e)
  BY <1>1 DEF Commit, TypeInv, NoLeakedWaiter, TakenOnce, Reachable, OwedInv,
              Waiting
<1>2. CASE NotifyTake(e)
  <2>1. /\ enq[e] = "committed" /\ waiters' = {}
        /\ sending' = [sending EXCEPT ![e] = waiters]
        /\ enq' = [enq EXCEPT ![e] = "sending"]
        /\ UNCHANGED <<signal, poll, owed>>
    BY <1>2 DEF NotifyTake
  <2>2. sending[e] = {}
    BY <2>1 DEF TakenOnce
  <2>3. ASSUME NEW q \in Poller, q \in waiters \/ \E f \in Enqueuer : q \in sending[f]
        PROVE  \E f \in Enqueuer : q \in sending'[f]
    BY <2>1, <2>2, <2>3 DEF TypeInv
  <2>4. TypeInv' /\ NoLeakedWaiter' /\ TakenOnce'
    BY <2>1 DEF TypeInv, NoLeakedWaiter, TakenOnce
  <2>5. Reachable'
    BY <2>1, <2>3 DEF Reachable
  <2>6. OwedInv'
    BY <2>1, <2>3 DEF OwedInv, Reachable, TypeInv, Waiting
  <2> QED
    BY <2>4, <2>5, <2>6
<1>3. CASE NotifySend(e)
  <2>1. PICK q \in sending[e] :
           /\ signal' = [signal EXCEPT ![q] = TRUE]
           /\ sending' = [sending EXCEPT ![e] = @ \ {q}]
    BY <1>3 DEF NotifySend
  <2>2. enq[e] = "sending" /\ UNCHANGED <<waiters, poll, enq, owed>>
    BY <1>3 DEF NotifySend
  <2>3. q \in Poller
    BY DEF TypeInv
  <2>4. ASSUME NEW p \in Poller, ~signal'[p], NEW f \in Enqueuer, p \in sending[f]
        PROVE  ~signal[p] /\ p \in sending'[f]
    BY <2>1, <2>3, <2>4 DEF TypeInv
  <2>4a. \A p \in Poller : ~signal'[p] => ~signal[p]
    BY <2>1, <2>3 DEF TypeInv
  <2>5. TypeInv' /\ NoLeakedWaiter' /\ TakenOnce'
    BY <2>1, <2>2 DEF TypeInv, NoLeakedWaiter, TakenOnce
  <2>6. Reachable'
    BY <2>2, <2>4, <2>4a DEF Reachable
  <2>7. OwedInv'
    BY <2>2, <2>4, <2>4a DEF OwedInv, TypeInv
  <2> QED
    BY <2>5, <2>6, <2>7
<1>4. CASE NotifyDone(e)
  BY <1>4 DEF NotifyDone, TypeInv, NoLeakedWaiter, TakenOnce, Reachable, OwedInv
<1> QED
  BY <1>1, <1>2, <1>3, <1>4 DEF EnqueueStep

LEMMA NotifierInvStep == NotifierInv /\ [Next]_vars => NotifierInv'
<1> SUFFICES ASSUME NotifierInv, [Next]_vars PROVE NotifierInv'
  OBVIOUS
<1>1. CASE RowAppears \/ UNCHANGED vars
  BY <1>1 DEF RowAppears, vars, NotifierInv, TypeInv, NoLeakedWaiter, TakenOnce,
              Reachable, OwedInv
<1> QED
  BY <1>1, PollerStepKeeps, EnqueuerStepKeeps DEF Next

(* However polls, backoffs, ended contexts and notifications interleave,   *)
(* every channel in notifier.waiters belongs to a poller that has not yet  *)
(* run its deferred cancel: the map does not grow with abandoned polls.    *)
THEOREM WaitersNeverLeak == Spec => []NoLeakedWaiter
<1>1. NotifierInv => NoLeakedWaiter
  BY DEF NotifierInv
<1> QED
  BY <1>1, NotifierInvInit, NotifierInvStep, PTL DEF Spec

(* Once a handler's notify has returned, every poller that was waiting     *)
(* when the handler's row was committed and still is has a value in its    *)
(* channel or is about to get one from a rival notify, for any number of   *)
(* concurrent notifications (notify, register and its cancel).             *)
THEOREM NotifyReachesEveryWaiter == Spec => []WaitersSignalled
<1>1. NotifierInv => WaitersSignalled
  BY DEF NotifierInv, OwedInv, WaitersSignalled
<1> QED
  BY <1>1, NotifierInvInit, NotifierInvStep, PTL DEF Spec
=============================================================================
