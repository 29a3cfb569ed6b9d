--------------------------- MODULE FlowdRowsProofs ---------------------------
(***************************************************************************)
(* Proofs about the rows the server keeps beside FlowdEngine's history:    *)
(* the workflow_tasks queue, with one holder per lease and no wake-up      *)
(* without a row that will show it to a worker; then activity_tasks and    *)
(* timers, where what a workflow scheduled is either queued, as one row,   *)
(* or has one outcome in history.                                          *)
(***************************************************************************)
EXTENDS FlowdHistoryProofs

-----------------------------------------------------------------------------
(* Leases.  A lease passes from the poll that dequeued the row to the      *)
(* token handed to the worker and, with the answer, to the transaction     *)
(* that locks the row.                                                     *)

Dispatching(t) == t.op \in {"wfdequeued", "wfstart", "wflist"}

SameLease(h, g) == h.task = g.task /\ h.lease = g.lease

(* The lease was given for a row that existed, and is not newer than it.   *)
Lent(h) ==
    /\ h.task < nextTask
    /\ \A row \in wfTasks :
          row.id = h.task => h.lease <= row.lease /\ h.run = row.run

RowIds ==
    /\ \A row \in wfTasks : row.id < nextTask
    /\ \A a, b \in wfTasks : a.id = b.id => a = b

RowLocks ==
    /\ \A p \in Proc : tx[p].op = "wfcomplete" => tx[p].row \in wfTasks
    /\ \A p, q \in Proc :
          tx[p].op = "wfcomplete" /\ tx[q].op = "wfcomplete" /\ tx[p].row = tx[q].row
          => p = q

AllLent ==
    /\ \A tok \in tokens : Lent(tok)
    /\ \A p \in Proc : Dispatching(tx[p]) => Lent(tx[p])

OneHolder ==
    /\ \A t, u \in tokens : SameLease(t, u) => t = u
    /\ \A p, q \in Proc :
          Dispatching(tx[p]) /\ Dispatching(tx[q]) /\ SameLease(tx[p], tx[q]) => p = q
    /\ \A p \in Proc, tok \in tokens : Dispatching(tx[p]) => ~SameLease(tx[p], tok)

LeaseInv == RowIds /\ RowLocks /\ AllLent /\ OneHolder

-----------------------------------------------------------------------------
(* How the rows of one state follow from those of the one before.          *)

RowsFollow ==
    /\ nextTask' \in {nextTask, nextTask + 1}
    /\ \A b \in wfTasks' :
          \/ b.id = nextTask /\ nextTask' = nextTask + 1
          \/ \E a \in wfTasks : b.id = a.id /\ b.run = a.run /\ a.lease <= b.lease
    /\ \A a, b \in wfTasks' : a.id = b.id => a = b

LEMMA RowFields ==
    ASSUME NEW row \in WfRow
    PROVE  /\ row.id \in Nat /\ row.run \in Run /\ row.lease \in Nat
           /\ row.status \in {"PENDING", "STARTED"} /\ row.pref \in Preference
BY DEF WfRow, Preference

LEMMA FewerRowsFollow ==
    ASSUME TypeOK, RowIds, wfTasks' \subseteq wfTasks, UNCHANGED nextTask
    PROVE  RowsFollow
<1>1. \A a \in wfTasks : a.lease <= a.lease
  BY RowFields DEF TypeOK
<1> QED
  BY <1>1 DEF RowsFollow, RowIds

(* The row an insert adds.                                                 *)
NewRow(r, pref) ==
    [id |-> nextTask, run |-> r, status |-> "PENDING", lease |-> 0, pref |-> pref]

LEMMA NewRowFields ==
    ASSUME NEW r, NEW pref
    PROVE  NewRow(r, pref).id = nextTask /\ NewRow(r, pref).run = r
BY DEF NewRow

LEMMA EnqueueFollows ==
    ASSUME TypeOK, RowIds, NEW rows, rows \subseteq wfTasks, NEW r, NEW pref,
           wfTasks' = EnqueueWorkflowTask(rows, r, pref), nextTask' = nextTask + 1
    PROVE  RowsFollow /\ wfTasks' = rows \cup {NewRow(r, pref)}
<1> DEFINE new == NewRow(r, pref)
<1>1. wfTasks' = rows \cup {new}
  BY DEF EnqueueWorkflowTask, NewRow
<1>2. new.id = nextTask
  BY NewRowFields
<1>3. \A a \in wfTasks : a.lease <= a.lease /\ a.id # nextTask
  BY RowFields DEF TypeOK, RowIds
<1> HIDE DEF new
<1>4. \A a, b \in wfTasks' : a.id = b.id => a = b
  BY <1>1, <1>2, <1>3 DEF RowIds
<1>5. \A b \in wfTasks' :
         b.id = nextTask \/ \E a \in wfTasks :
            b.id = a.id /\ b.run = a.run /\ a.lease <= b.lease
  BY <1>1, <1>2, <1>3
<1> QED
  BY <1>1, <1>4, <1>5 DEF RowsFollow, new

LEMMA UpdateFollows ==
    ASSUME TypeOK, RowIds, NEW row \in wfTasks, NEW new,
           new.id = row.id, new.run = row.run, row.lease <= new.lease,
           wfTasks' = (wfTasks \ {row}) \cup {new}, UNCHANGED nextTask
    PROVE  RowsFollow
<1>1. \A a \in wfTasks : a.lease <= a.lease
  BY RowFields DEF TypeOK
<1>2. \A a, b \in wfTasks' : a.id = b.id => a = b
  BY DEF RowIds
<1> QED
  BY <1>1, <1>2 DEF RowsFollow

LEMMA LentTyped ==
    ASSUME TypeOK
    PROVE  /\ \A tok \in tokens : tok.task \in Nat /\ tok.lease \in Nat /\ tok.seen \in Nat
           /\ \A p \in Proc : Dispatching(tx[p]) =>
                 tx[p].task \in Nat /\ tx[p].lease \in Nat /\ tx[p].run \in Run
<1>1. \A p \in Proc : tx[p] \in Tx
  BY DEF TypeOK
<1>2. ASSUME NEW t \in Tx, Dispatching(t)
      PROVE  t.task \in Nat /\ t.lease \in Nat /\ t.run \in Run
  BY <1>2, TxWfStart DEF Dispatching
<1>3. \A tok \in tokens : tok.task \in Nat /\ tok.lease \in Nat /\ tok.seen \in Nat
  BY DEF TypeOK, WfToken
<1> QED
  BY <1>1, <1>2, <1>3

LEMMA LentKept ==
    ASSUME TypeOK, TypeOK', RowsFollow, NEW h, h.task \in Nat, h.lease \in Nat, Lent(h)
    PROVE  Lent(h)'
<1>0. nextTask \in Nat
  BY DEF TypeOK
<1>1. h.task < nextTask'
  BY <1>0 DEF Lent, RowsFollow
<1>2. ASSUME NEW b \in wfTasks', b.id = h.task
      PROVE  h.lease <= b.lease /\ h.run = b.run
  <2>1. PICK a \in wfTasks : b.id = a.id /\ b.run = a.run /\ a.lease <= b.lease
    BY <1>0, <1>2 DEF Lent, RowsFollow
  <2>2. h.lease <= a.lease /\ h.run = a.run
    BY <1>2, <2>1 DEF Lent
  <2>3. a.lease \in Nat /\ b.lease \in Nat
    BY RowFields DEF TypeOK
  <2> QED
    BY <2>1, <2>2, <2>3
<1> QED
  BY <1>1, <1>2 DEF Lent

(* A request holds a lease only if it held it before.                      *)
Vacant(t) == ~Dispatching(t) /\ t.op # "wfcomplete"

HandsOn(t, u) ==
    Dispatching(t) /\ Dispatching(u) /\ SameLease(t, u) /\ t.run = u.run

LEMMA LeaseInvKept ==
    ASSUME TypeOK, TypeOK', LeaseInv, RowsFollow, tokens' \subseteq tokens,
           \A p \in Proc : \/ tx'[p] = tx[p] \/ Vacant(tx'[p])
                           \/ HandsOn(tx[p], tx'[p]),
           \A p \in Proc : tx'[p].op = "wfcomplete" => tx'[p].row \in wfTasks'
    PROVE  LeaseInv'
<1>1. RowIds'
  <2>0. nextTask \in Nat
    BY DEF TypeOK
  <2>1. \A row \in wfTasks' : row.id < nextTask'
    BY <2>0, RowFields DEF LeaseInv, RowIds, RowsFollow, TypeOK
  <2> QED
    BY <2>1 DEF RowIds, RowsFollow
<1>2. ASSUME NEW p \in Proc, tx'[p].op = "wfcomplete" PROVE tx'[p] = tx[p]
  BY <1>2 DEF Vacant, HandsOn, Dispatching
<1>3. RowLocks'
  BY <1>2 DEF LeaseInv, RowLocks
<1>4. ASSUME NEW p \in Proc, Dispatching(tx'[p])
      PROVE  /\ Dispatching(tx[p]) /\ SameLease(tx[p], tx'[p])
             /\ tx[p].run = tx'[p].run
  BY <1>4 DEF Vacant, HandsOn, SameLease
<1>5. AllLent'
  <2>1. ASSUME NEW tok \in tokens' PROVE Lent(tok)'
    <3>1. Lent(tok) /\ tok.task \in Nat /\ tok.lease \in Nat
      BY <2>1, LentTyped DEF LeaseInv, AllLent
    <3> QED
      BY <3>1, LentKept
  <2>2. ASSUME NEW p \in Proc, Dispatching(tx'[p]) PROVE Lent(tx[p])'
    <3>1. /\ Lent(tx[p]) /\ tx[p].task \in Nat /\ tx[p].lease \in Nat
          /\ SameLease(tx[p], tx'[p]) /\ tx[p].run = tx'[p].run
      BY <1>4, <2>2, LentTyped DEF LeaseInv, AllLent
    <3> DEFINE h == tx[p]
    <3>2. ASSUME NEW g, g = h PROVE Lent(g)'
      BY <3>1, <3>2, LentKept
    <3>3. ASSUME NEW g, g = h PROVE Lent(tx[p])'
      BY <3>1, <3>2, <3>3 DEF Lent, SameLease
    <3> QED
      BY <3>3
  <2> QED
    BY <2>1, <2>2 DEF AllLent, Dispatching
<1>6. OneHolder'
  <2>1. ASSUME NEW p \in Proc, NEW q \in Proc, Dispatching(tx'[p]),
               Dispatching(tx'[q]), SameLease(tx'[p], tx'[q])
        PROVE  p = q
    <3>1. Dispatching(tx[p]) /\ Dispatching(tx[q]) /\ SameLease(tx[p], tx[q])
      BY <1>4, <2>1 DEF SameLease
    <3> QED
      BY <3>1 DEF LeaseInv, OneHolder
  <2>2. ASSUME NEW p \in Proc, NEW tok \in tokens', Dispatching(tx'[p]),
               SameLease(tx'[p], tok)
        PROVE  FALSE
    <3>1. Dispatching(tx[p]) /\ SameLease(tx[p], tok)
      BY <1>4, <2>2 DEF SameLease
    <3> QED
      BY <3>1 DEF LeaseInv, OneHolder
  <2>3. \A t, u \in tokens' : SameLease(t, u) => t = u
    BY DEF LeaseInv, OneHolder
  <2> QED
    BY <2>1, <2>2, <2>3 DEF OneHolder, Dispatching, SameLease
<1> QED
  BY <1>1, <1>3, <1>5, <1>6 DEF LeaseInv

-----------------------------------------------------------------------------
(* The steps that leave the queue, its leases and the answers alone.       *)

(* What such a step may do to a goroutine's request.                       *)
Calm(t, u) ==
    \/ u = t
    \/ HandsOn(t, u)
    \/ t.op = "wffail" /\ u.op = "wffail" /\ u.run = t.run
    \/ Vacant(u) /\ u.op # "wffail" /\ (t.op = "wffail" => "wffail" \in CrashPoints)

QueueQuiet ==
    /\ UNCHANGED <<wfTasks, nextTask, tokens, seen>>
    /\ \A p \in Proc : Calm(tx[p], tx'[p])

LEMMA EndVacant ==
    /\ Vacant(Idle) /\ Idle.op # "wffail"
    /\ \A r, ev, act, timer, tries :
          LET t == Wake(r, ev, act, timer, tries) IN Vacant(t) /\ t.op # "wffail"
BY DEF Vacant, Dispatching, Idle, Wake

LEMMA SetCalm ==
    ASSUME TypeOK, NEW p \in Proc, NEW t, Set(p, t), Calm(tx[p], t)
    PROVE  \A q \in Proc : Calm(tx[q], tx'[q])
<1>1. tx' = [tx EXCEPT ![p] = t] /\ DOMAIN tx = Call \cup Proc
  BY DEF TypeOK, Set
<1>2. \A q \in Proc : tx'[q] = tx[q] \/ (q = p /\ tx'[q] = t)
  BY <1>1
<1> QED
  BY <1>2 DEF Calm

LEMMA QuietCalls ==
    ASSUME TypeOK, NEW c \in Call, CallStep(c)
    PROVE  QueueQuiet \/ StartFirst(c) \/ StartReplacing(c) \/ CommitWake(c)
<1>1. \A q \in Proc : Calm(tx[q], tx'[q])
  BY CallCalm DEF Calm
<1>2. ASSUME ~(StartFirst(c) \/ StartReplacing(c) \/ CommitWake(c))
      PROVE  UNCHANGED <<wfTasks, nextTask, tokens, seen>>
  BY <1>2 DEF CallStep, StartOnExisting, SignalWorkflowExecution,
       RequestCancelWorkflowExecution, RetryOnConflict,
       TerminateWorkflowExecution, CommitTerminate, ConflictedTerminate, tables
<1> QED
  BY <1>1, <1>2 DEF QueueQuiet

LEMMA QuietProcs ==
    ASSUME TypeOK, NEW p \in Proc, ProcStep(p)
    PROVE  \/ QueueQuiet \/ CommitWake(p)
           \/ \E w \in Worker : DispatchWorkflowTask(p, w)
           \/ DeliverWorkflowTask(p) \/ CompleteWorkflowTask(p)
           \/ CommitWorkflowTask(p) \/ CommitContinueAsNew(p)
           \/ FailWorkflowTask(p) \/ FailEnqueue(p)
<1>1. ASSUME \E t : Set(p, t) /\ Calm(tx[p], t),
             UNCHANGED <<wfTasks, nextTask, tokens, seen>>
      PROVE  QueueQuiet
  BY <1>1, SetCalm DEF QueueQuiet
<1>2. ASSUME NEW t, Vacant(t), t.op # "wffail", tx[p].op # "wffail"
      PROVE  Calm(tx[p], t)
  BY <1>2 DEF Calm
<1>3. ASSUME FireDueTimer(p) \/ CompleteActivityTask(p) \/ FailActivityTask(p)
      PROVE  QueueQuiet
  <2>1. /\ tx[p].op = "idle" /\ UNCHANGED <<wfTasks, nextTask, tokens, seen>>
        /\ \E r, ev, act, timer : Set(p, Wake(r, ev, act, timer, 0))
    BY <1>3 DEF FireDueTimer, CompleteActivityTask, FailActivityTask, tables
  <2> QED
    BY <1>1, <1>2, <2>1, EndVacant
<1>4. ASSUME RejectWorkflowTask(p) \/ RecordActivityTaskStarted(p) \/ AbortOnConflict(p)
      PROVE  QueueQuiet
  <2>1. /\ tx[p].op # "wffail" /\ UNCHANGED <<wfTasks, nextTask, tokens, seen>>
        /\ Set(p, Idle)
    BY <1>4 DEF RejectWorkflowTask, RecordActivityTaskStarted, AbortOnConflict, tables
  <2> QED
    BY <1>1, <1>2, <2>1, EndVacant
<1>5. ASSUME RetryActivityTask(p) PROVE QueueQuiet
  BY <1>5 DEF RetryActivityTask, QueueQuiet, Calm
<1>6. ASSUME BeginWorkflowTaskStarted(p) \/ RecordWorkflowTaskStarted(p)
      PROVE  QueueQuiet
  <2>1. UNCHANGED <<wfTasks, nextTask, tokens, seen>>
    BY <1>6 DEF BeginWorkflowTaskStarted, RecordWorkflowTaskStarted, tables
  <2>2. \E t : Set(p, t) /\ HandsOn(tx[p], t)
    <3>1. CASE BeginWorkflowTaskStarted(p)
      <4> DEFINE t == [op |-> "wfstart", task |-> tx[p].task, lease |-> tx[p].lease,
                       worker |-> tx[p].worker, run |-> tx[p].run,
                       expect |-> exec[tx[p].run].next]
      <4>1. Set(p, t) /\ tx[p].op = "wfdequeued"
        BY <3>1 DEF BeginWorkflowTaskStarted
      <4>2. HandsOn(tx[p], t)
        BY <4>1 DEF HandsOn, Dispatching, SameLease
      <4> QED
        BY <4>1, <4>2
    <3>2. CASE RecordWorkflowTaskStarted(p)
      <4> DEFINE t == [op |-> "wflist", task |-> tx[p].task, lease |-> tx[p].lease,
                       worker |-> tx[p].worker, run |-> tx[p].run]
      <4>1. Set(p, t) /\ tx[p].op = "wfstart"
        BY <3>2 DEF RecordWorkflowTaskStarted
      <4>2. HandsOn(tx[p], t)
        BY <4>1 DEF HandsOn, Dispatching, SameLease
      <4> QED
        BY <4>1, <4>2
    <3> QED
      BY <1>6, <3>1, <3>2
  <2> QED
    BY <1>1, <2>1, <2>2 DEF Calm
<1>7. ASSUME FailClearSticky(p) PROVE QueueQuiet
  <2> DEFINE t == [tx[p] EXCEPT !.cleared = TRUE]
  <2>1. /\ Set(p, t) /\ tx[p].op = "wffail"
        /\ UNCHANGED <<wfTasks, nextTask, tokens, seen>>
    BY <1>7 DEF FailClearSticky
  <2>2. tx[p] \in Tx
    BY DEF TypeOK
  <2>3. t.op = "wffail" /\ t.run = tx[p].run
    BY <2>1, <2>2 DEF Tx
  <2> QED
    BY <1>1, <2>1, <2>3 DEF Calm
<1>8. ASSUME DispatchActivityTask(p) \/ BeginActivityTaskStarted(p) PROVE QueueQuiet
  <2>1. tx[p].op # "wffail" /\ UNCHANGED <<wfTasks, nextTask, tokens, seen>>
    BY <1>8 DEF DispatchActivityTask, BeginActivityTaskStarted, tables
  <2>2. \/ \E row : Set(p, [op |-> "actdequeued", row |-> row])
        \/ \E row, n : Set(p, [op |-> "actstart", row |-> row, expect |-> n])
    BY <1>8 DEF DispatchActivityTask, BeginActivityTaskStarted
  <2>3. ASSUME NEW t, t.op \in {"actdequeued", "actstart"}
        PROVE  Vacant(t) /\ t.op # "wffail"
    BY <2>3 DEF Vacant, Dispatching
  <2>4. CASE \E row : Set(p, [op |-> "actdequeued", row |-> row])
    <3>1. PICK row : Set(p, [op |-> "actdequeued", row |-> row])
      BY <2>4
    <3> DEFINE t == [op |-> "actdequeued", row |-> row]
    <3>2. t.op = "actdequeued"
      OBVIOUS
    <3> HIDE DEF t
    <3> QED
      BY <1>1, <1>2, <2>1, <2>3, <3>1, <3>2 DEF t
  <2>5. CASE \E row, n : Set(p, [op |-> "actstart", row |-> row, expect |-> n])
    <3>1. PICK row, n : Set(p, [op |-> "actstart", row |-> row, expect |-> n])
      BY <2>5
    <3> DEFINE t == [op |-> "actstart", row |-> row, expect |-> n]
    <3>2. t.op = "actstart"
      OBVIOUS
    <3> HIDE DEF t
    <3> QED
      BY <1>1, <1>2, <2>1, <2>3, <3>1, <3>2 DEF t
  <2> QED
    BY <2>2, <2>4, <2>5
<1> QED
  BY <1>3, <1>4, <1>5, <1>6, <1>7, <1>8 DEF ProcStep

LEMMA QuietFaults ==
    ASSUME TypeOK,
           \/ \E p \in Call \cup Proc : Crash(p)
           \/ ReapActivityTask \/ StickyRegistrationLapses \/ UNCHANGED vars
    PROVE  QueueQuiet
<1>1. ASSUME NEW c \in Call, Crash(c) PROVE QueueQuiet
  BY <1>1, CallCalm DEF Crash, QueueQuiet, Calm, tables
<1>2. ASSUME NEW p \in Proc, Crash(p) PROVE QueueQuiet
  <2>1. /\ Set(p, Idle) /\ tx[p].op \in CrashPoints
        /\ UNCHANGED <<wfTasks, nextTask, tokens, seen>>
    BY <1>2, ConstantsAssumption DEF Crash, tables
  <2> QED
    BY <2>1, EndVacant, SetCalm DEF QueueQuiet, Calm
<1>3. ASSUME ReapActivityTask \/ StickyRegistrationLapses \/ UNCHANGED vars
      PROVE  QueueQuiet
  BY <1>3 DEF ReapActivityTask, StickyRegistrationLapses, vars, tables,
       QueueQuiet, Calm
<1> QED
  BY <1>1, <1>2, <1>3

-----------------------------------------------------------------------------
(* The steps that do change the queue.                                     *)

(* Inserts beside the rows there are.                                      *)
EnqueueStep(r) ==
    /\ r \in Run /\ nextTask' = nextTask + 1 /\ UNCHANGED <<tokens, seen>>
    /\ \E pref : wfTasks' = EnqueueWorkflowTask(wfTasks, r, pref)

SetIdle(p) == \A q \in Proc : IF q = p THEN tx'[q] = Idle ELSE tx'[q] = tx[q]

LEMMA SetIdleIs ==
    ASSUME TypeOK, NEW p \in Proc, Set(p, Idle) PROVE SetIdle(p)
BY DEF TypeOK, Set, SetIdle

LEMMA CallEnqueues ==
    ASSUME LogInv, NEW c \in Call, StartFirst(c) \/ StartReplacing(c) \/ CommitWake(c)
    PROVE  (\E r \in Run : EnqueueStep(r)) /\ \A q \in Proc : tx'[q] = tx[q]
<1>1. \A q \in Proc : tx'[q] = tx[q]
  BY CallCalm DEF LogInv, CallStep
<1>2. ASSUME StartFirst(c) \/ StartReplacing(c) PROVE \E r \in Run : EnqueueStep(r)
  <2>1. PICK r, req : r \in Run /\ CreateRun(exec, history, wfTasks, r, req, NoRun)
    BY <1>2 DEF StartFirst, StartReplacing
  <2>2. UNCHANGED <<tokens, seen>>
    BY <1>2 DEF StartFirst, StartReplacing
  <2> QED
    BY <2>1, <2>2 DEF CreateRun, EnqueueStep
<1>3. ASSUME CommitWake(c) PROVE \E r \in Run : EnqueueStep(r)
  <2>1. tx[c].run \in Run
    BY <1>3, TxWake DEF CommitWake, LogInv, TypeOK
  <2>2. EnqueueStep(tx[c].run)
    BY <1>3, <2>1 DEF CommitWake, EnqueueStep
  <2> QED
    BY <2>1, <2>2
<1> QED
  BY <1>1, <1>2, <1>3

LEMMA WakeEnqueues ==
    ASSUME LogInv, NEW p \in Call \cup Proc, CommitWake(p)
    PROVE  EnqueueStep(tx[p].run)
<1>1. tx[p].run \in Run
  BY TxWake DEF CommitWake, LogInv, TypeOK
<1> QED
  BY <1>1 DEF CommitWake, EnqueueStep

LEMMA ProcEnqueues ==
    ASSUME LogInv, NEW p \in Proc, CommitWake(p) \/ FailEnqueue(p)
    PROVE  EnqueueStep(tx[p].run) /\ SetIdle(p) /\ tx[p].op \in {"wake", "wffail"}
<1>0. tx[p] \in Tx
  BY DEF LogInv, TypeOK
<1>1. CASE CommitWake(p)
  <2>1. Set(p, Idle)
    BY <1>1, ConstantsAssumption DEF CommitWake
  <2> QED
    BY <1>1, <2>1, SetIdleIs, WakeEnqueues DEF LogInv, CommitWake
<1>2. CASE FailEnqueue(p)
  <2>1. Set(p, Idle) /\ tx[p].op = "wffail"
    BY <1>2 DEF FailEnqueue
  <2>2. tx[p].run \in Run
    BY <1>0, <2>1, TxWfFail
  <2>3. EnqueueStep(tx[p].run)
    BY <1>2, <2>2 DEF FailEnqueue, EnqueueStep
  <2> QED
    BY <2>1, <2>3, SetIdleIs DEF LogInv
<1> QED
  BY <1>1, <1>2

(* An accepted response.                                                   *)
LEMMA ResponseQueue ==
    ASSUME LogInv, NEW p \in Proc, CommitWorkflowTask(p) \/ CommitContinueAsNew(p)
    PROVE  /\ tx[p].op = "wfcomplete" /\ SetIdle(p) /\ UNCHANGED tokens
           /\ seen' = [seen EXCEPT ![tx[p].row.run] = MaxOf(@, tx[p].token.seen)]
           /\ \/ wfTasks' = wfTasks \ {tx[p].row} /\ UNCHANGED nextTask
              \/ \E n \in Run :
                    /\ wfTasks' = EnqueueWorkflowTask(wfTasks \ {tx[p].row}, n, NoWorker)
                    /\ nextTask' = nextTask + 1
<1>1. CASE CommitWorkflowTask(p)
  <2>1. Set(p, Idle) /\ tx[p].op = "wfcomplete"
    BY <1>1 DEF CommitWorkflowTask
  <2> QED
    BY <1>1, <2>1, SetIdleIs DEF CommitWorkflowTask, LogInv
<1>2. CASE CommitContinueAsNew(p)
  <2>1. Set(p, Idle) /\ tx[p].op = "wfcomplete"
    BY <1>2 DEF CommitContinueAsNew
  <2>2. PICK n, ex, hs : n \in Run /\
           CreateRun(ex, hs, wfTasks \ {tx[p].row}, n, NoReq, tx[p].row.run)
    BY <1>2 DEF CommitContinueAsNew
  <2>3. /\ wfTasks' = EnqueueWorkflowTask(wfTasks \ {tx[p].row}, n, NoWorker)
        /\ nextTask' = nextTask + 1
    BY <2>2 DEF CreateRun
  <2> QED
    BY <1>2, <2>1, <2>2, <2>3, SetIdleIs DEF CommitContinueAsNew, LogInv
<1> QED
  BY <1>1, <1>2

LEMMA NotLocked ==
    ASSUME NEW row, row \notin LockedWf, NEW q \in Proc, tx[q].op = "wfcomplete"
    PROVE  tx[q].row # row
BY DEF LockedWf

LEMMA EnqueueLeases ==
    ASSUME TypeOK, TypeOK', LeaseInv, NEW r, EnqueueStep(r),
           \A q \in Proc : tx'[q] = tx[q] \/ tx'[q] = Idle
    PROVE  LeaseInv'
<1>1. PICK pref : wfTasks' = EnqueueWorkflowTask(wfTasks, r, pref)
  BY DEF EnqueueStep
<1>2. RowsFollow /\ wfTasks' = wfTasks \cup {NewRow(r, pref)}
  BY <1>1, EnqueueFollows DEF LeaseInv, EnqueueStep
<1>3. \A q \in Proc : tx'[q].op = "wfcomplete" => tx'[q] = tx[q]
  BY EndVacant DEF Vacant
<1>4. \A q \in Proc : tx'[q].op = "wfcomplete" => tx'[q].row \in wfTasks'
  BY <1>2, <1>3 DEF LeaseInv, RowLocks
<1>5. tokens' \subseteq tokens
  BY DEF EnqueueStep
<1> QED
  BY <1>2, <1>4, <1>5, EndVacant, LeaseInvKept

LEMMA ResponseLeases ==
    ASSUME LogInv, TypeOK', LeaseInv, NEW p \in Proc,
           CommitWorkflowTask(p) \/ CommitContinueAsNew(p)
    PROVE  LeaseInv'
<1>1. /\ tx[p].op = "wfcomplete" /\ SetIdle(p) /\ UNCHANGED tokens
      /\ \/ wfTasks' = wfTasks \ {tx[p].row} /\ UNCHANGED nextTask
         \/ \E n \in Run :
               /\ wfTasks' = EnqueueWorkflowTask(wfTasks \ {tx[p].row}, n, NoWorker)
               /\ nextTask' = nextTask + 1
  BY ResponseQueue
<1>2. RowsFollow /\ wfTasks \ {tx[p].row} \subseteq wfTasks'
  <2>0. wfTasks \ {tx[p].row} \subseteq wfTasks
    OBVIOUS
  <2>1. CASE wfTasks' = wfTasks \ {tx[p].row} /\ UNCHANGED nextTask
    BY <2>0, <2>1, FewerRowsFollow DEF LogInv, LeaseInv
  <2>2. ASSUME NEW n \in Run,
               wfTasks' = EnqueueWorkflowTask(wfTasks \ {tx[p].row}, n, NoWorker),
               nextTask' = nextTask + 1
        PROVE  RowsFollow /\ wfTasks \ {tx[p].row} \subseteq wfTasks'
    BY <2>0, <2>2, EnqueueFollows DEF LogInv, LeaseInv
  <2> QED
    BY <1>1, <2>1, <2>2
<1>3. \A q \in Proc : (tx'[q] = tx[q] /\ q # p) \/ tx'[q] = Idle
  BY <1>1 DEF SetIdle
<1>4. ASSUME NEW q \in Proc, tx'[q].op = "wfcomplete" PROVE tx'[q].row \in wfTasks'
  <2>1. tx'[q] = tx[q] /\ q # p
    BY <1>3, <1>4, EndVacant DEF Vacant
  <2>2. tx[q].row \in wfTasks /\ tx[q].row # tx[p].row
    BY <1>1, <1>4, <2>1 DEF LeaseInv, RowLocks
  <2> QED
    BY <1>2, <2>1, <2>2
<1> QED
  BY <1>1, <1>2, <1>3, <1>4, EndVacant, LeaseInvKept DEF LogInv

LEMMA FailLeases ==
    ASSUME LogInv, TypeOK', LeaseInv, NEW p \in Proc, FailWorkflowTask(p)
    PROVE  LeaseInv'
<1>1. PICK tok \in tokens, row \in wfTasks \ LockedWf :
         /\ tokens' = tokens \ {tok} /\ wfTasks' = wfTasks \ {row}
         /\ Set(p, [op |-> "wffail", run |-> row.run, cleared |-> FALSE])
  BY DEF FailWorkflowTask
<1>2. RowsFollow
  BY <1>1, FewerRowsFollow DEF LogInv, LeaseInv, FailWorkflowTask
<1> DEFINE t == [op |-> "wffail", run |-> row.run, cleared |-> FALSE]
<1>3. t.op = "wffail"
  OBVIOUS
<1> HIDE DEF t
<1>4. \A q \in Proc : tx'[q] = tx[q] \/ tx'[q] = t
  BY <1>1 DEF Set, LogInv, TypeOK, t
<1>5. Vacant(t) /\ t.op # "wfcomplete"
  BY <1>3 DEF Vacant, Dispatching
<1>6. ASSUME NEW q \in Proc, tx'[q].op = "wfcomplete" PROVE tx'[q].row \in wfTasks'
  <2>1. tx'[q] = tx[q]
    BY <1>4, <1>5, <1>6
  <2> QED
    BY <1>1, <1>6, <2>1, NotLocked DEF LeaseInv, RowLocks
<1>7. tokens' \subseteq tokens
  BY <1>1
<1> QED
  BY <1>2, <1>4, <1>5, <1>6, <1>7, LeaseInvKept DEF LogInv

(* The reaper and a passing sticky deadline rewrite a row in place.        *)
LEMMA UpdateRow ==
    ASSUME TypeOK, ReapWorkflowTask \/ StickyDeadlinePasses
    PROVE  \E row \in wfTasks \ LockedWf : \E new :
              /\ new.id = row.id /\ new.run = row.run /\ row.lease <= new.lease
              /\ wfTasks' = (wfTasks \ {row}) \cup {new}
              /\ UNCHANGED <<nextTask, tx, tokens, seen>>
<1>1. CASE ReapWorkflowTask
  <2>1. PICK row \in wfTasks \ LockedWf :
           wfTasks' = (wfTasks \ {row}) \cup {[row EXCEPT !.status = "PENDING"]}
    BY <1>1 DEF ReapWorkflowTask
  <2> DEFINE new == [row EXCEPT !.status = "PENDING"]
  <2>2. new.id = row.id /\ new.run = row.run /\ row.lease <= new.lease
    BY DEF TypeOK, WfRow
  <2> QED
    BY <1>1, <2>1, <2>2 DEF ReapWorkflowTask
<1>2. CASE StickyDeadlinePasses
  <2>1. PICK row \in wfTasks \ LockedWf :
           wfTasks' = (wfTasks \ {row}) \cup {[row EXCEPT !.pref = NoWorker]}
    BY <1>2 DEF StickyDeadlinePasses
  <2> DEFINE new == [row EXCEPT !.pref = NoWorker]
  <2>2. new.id = row.id /\ new.run = row.run /\ row.lease <= new.lease
    BY DEF TypeOK, WfRow
  <2> QED
    BY <1>2, <2>1, <2>2 DEF StickyDeadlinePasses
<1> QED
  BY <1>1, <1>2

LEMMA UpdateLeases ==
    ASSUME TypeOK, TypeOK', LeaseInv, ReapWorkflowTask \/ StickyDeadlinePasses
    PROVE  LeaseInv'
<1>1. PICK row, new :
         /\ row \in wfTasks \ LockedWf
         /\ new.id = row.id /\ new.run = row.run /\ row.lease <= new.lease
         /\ wfTasks' = (wfTasks \ {row}) \cup {new}
         /\ UNCHANGED <<nextTask, tx, tokens, seen>>
  BY UpdateRow
<1>2. RowsFollow
  BY <1>1, UpdateFollows DEF LeaseInv
<1>3. ASSUME NEW q \in Proc, tx'[q].op = "wfcomplete" PROVE tx'[q].row \in wfTasks'
  BY <1>1, <1>3, NotLocked DEF LeaseInv, RowLocks
<1> QED
  BY <1>1, <1>2, <1>3, LeaseInvKept

LEMMA QuietLeases ==
    ASSUME TypeOK, TypeOK', LeaseInv, QueueQuiet
    PROVE  LeaseInv'
<1>1. RowsFollow
  BY FewerRowsFollow DEF QueueQuiet, LeaseInv
<1>2. \A q \in Proc : tx'[q] = tx[q] \/ Vacant(tx'[q]) \/ HandsOn(tx[q], tx'[q])
  BY DEF QueueQuiet, Calm, Vacant, Dispatching
<1>3. \A q \in Proc : tx'[q].op = "wfcomplete" => tx'[q] = tx[q]
  BY <1>2 DEF Vacant, HandsOn, Dispatching
<1> QED
  BY <1>1, <1>2, <1>3, LeaseInvKept DEF QueueQuiet, LeaseInv, RowLocks

(* A dequeue gives the row a lease nobody holds.                           *)
LEMMA DispatchLeases ==
    ASSUME LogInv, TypeOK', LeaseInv, NEW p \in Proc, NEW w \in Worker,
           DispatchWorkflowTask(p, w)
    PROVE  LeaseInv'
<1>1. PICK row \in wfTasks \ LockedWf :
         /\ wfTasks' = (wfTasks \ {row}) \cup {Leased(row)}
         /\ Set(p, [op |-> "wfdequeued", task |-> row.id,
                    lease |-> Leased(row).lease, worker |-> w, run |-> row.run])
  BY DEF DispatchWorkflowTask
<1>2. TypeOK /\ UNCHANGED <<nextTask, tokens>>
  BY DEF LogInv, DispatchWorkflowTask
<1> DEFINE new == Leased(row)
           u == [op |-> "wfdequeued", task |-> row.id, lease |-> new.lease,
                 worker |-> w, run |-> row.run]
<1>3. /\ new.id = row.id /\ new.run = row.run /\ new.lease = row.lease + 1
      /\ row.id \in Nat /\ row.lease \in Nat
  BY <1>2 DEF TypeOK, WfRow, Leased
<1>4. /\ u.op = "wfdequeued" /\ u.task = row.id /\ u.lease = row.lease + 1
      /\ u.run = row.run
  BY <1>3
<1>5. tx'[p] = u /\ \A q \in Proc : q # p => tx'[q] = tx[q]
  BY <1>1, <1>2, SetIs
<1>5a. wfTasks' = (wfTasks \ {row}) \cup {new}
  BY <1>1
<1> HIDE DEF new, u
<1>6. RowsFollow
  <2>1. row.lease <= new.lease
    BY <1>3
  <2> QED
    BY <1>2, <1>3, <1>5a, <2>1, UpdateFollows DEF LeaseInv
<1>7. RowIds'
  <2>1. \A b \in wfTasks' : b.id < nextTask'
    BY <1>2, <1>3, <1>5a DEF LeaseInv, RowIds
  <2> QED
    BY <1>6, <2>1 DEF RowsFollow, RowIds
<1>8. RowLocks'
  <2>1. ASSUME NEW q \in Proc, tx'[q].op = "wfcomplete"
        PROVE  tx'[q] = tx[q] /\ tx[q].row \in wfTasks'
    <3>1. tx'[q] = tx[q]
      BY <1>4, <1>5, <2>1
    <3> QED
      BY <1>5a, <2>1, <3>1, NotLocked DEF LeaseInv, RowLocks
  <2> QED
    BY <2>1 DEF LeaseInv, RowLocks
<1>9. ASSUME NEW h, h.task \in Nat, h.lease \in Nat, Lent(h)
      PROVE  Lent(h)' /\ ~SameLease(u, h) /\ ~SameLease(h, u)
  BY <1>2, <1>3, <1>4, <1>6, <1>9, LentKept DEF Lent, SameLease
<1>10. ASSUME NEW q \in Proc, q # p, Dispatching(tx'[q])
       PROVE  /\ Dispatching(tx[q]) /\ tx'[q] = tx[q] /\ Lent(tx[q])
              /\ tx[q].task \in Nat /\ tx[q].lease \in Nat
  BY <1>2, <1>5, <1>10, LentTyped DEF LeaseInv, AllLent
<1>11. ASSUME NEW tok \in tokens
       PROVE  Lent(tok) /\ tok.task \in Nat /\ tok.lease \in Nat
  BY <1>2, <1>11, LentTyped DEF LeaseInv, AllLent
<1>12. Lent(u)'
  <2>1. \A b \in wfTasks' : b.id = row.id => b = new
    BY <1>3, <1>5a, <1>6 DEF RowsFollow
  <2>2. new.lease <= new.lease /\ row.id < nextTask'
    BY <1>2, <1>3 DEF LeaseInv, RowIds
  <2>3. \A b \in wfTasks' : b.id = row.id => row.lease + 1 <= b.lease /\ row.run = b.run
    BY <1>3, <2>1, <2>2
  <2>4. ASSUME NEW h, h.task = row.id, h.lease = row.lease + 1, h.run = row.run
        PROVE  Lent(h)'
    BY <2>2, <2>3, <2>4 DEF Lent
  <2> QED
    BY <1>4, <2>4
<1>13. AllLent'
  <2>1. \A tok \in tokens' : Lent(tok)'
    BY <1>2, <1>9, <1>11
  <2>2. ASSUME NEW q \in Proc, Dispatching(tx'[q]) PROVE Lent(tx[q])'
    <3>1. \A h : h = tx'[q] /\ Lent(h)' => Lent(tx[q])'
      BY DEF Lent
    <3>2. Lent(tx[q])' \/ q # p
      BY <1>5, <1>12, <3>1
    <3>3. q # p => \E h : h = tx'[q] /\ Lent(h)'
      BY <1>9, <1>10, <2>2
    <3> QED
      BY <3>1, <3>2, <3>3
  <2> QED
    BY <2>1, <2>2 DEF AllLent, Dispatching
<1>14. OneHolder'
  <2>1. ASSUME NEW q \in Proc, NEW s \in Proc, Dispatching(tx'[q]),
               Dispatching(tx'[s]), SameLease(tx'[q], tx'[s])
        PROVE  q = s
    <3>1. CASE q = p \/ s = p
      BY <1>5, <1>9, <1>10, <2>1, <3>1
    <3>2. CASE q # p /\ s # p
      BY <1>10, <2>1, <3>2 DEF LeaseInv, OneHolder
    <3> QED
      BY <3>1, <3>2
  <2>2. ASSUME NEW q \in Proc, NEW tok \in tokens', Dispatching(tx'[q])
        PROVE  ~SameLease(tx'[q], tok)
    <3>1. CASE q = p
      BY <1>2, <1>5, <1>9, <1>11, <3>1
    <3>2. CASE q # p
      BY <1>2, <1>10, <2>2, <3>2 DEF LeaseInv, OneHolder
    <3> QED
      BY <3>1, <3>2
  <2>3. \A a, b \in tokens' : SameLease(a, b) => a = b
    BY <1>2 DEF LeaseInv, OneHolder
  <2> QED
    BY <2>1, <2>2, <2>3 DEF OneHolder, Dispatching, SameLease
<1> QED
  BY <1>7, <1>8, <1>13, <1>14 DEF LeaseInv

(* The poll's answer hands its lease to the worker.                        *)
LEMMA DeliverLeases ==
    ASSUME LogInv, TypeOK', LeaseInv, NEW p \in Proc, DeliverWorkflowTask(p)
    PROVE  LeaseInv'
<1> DEFINE t == tx[p]
           k == [task |-> t.task, lease |-> t.lease, run |-> t.run,
                 seen |-> exec[t.run].next - 1, worker |-> t.worker]
<1>1. /\ tokens' = tokens \cup {k} /\ Set(p, Idle) /\ t.op = "wflist"
      /\ UNCHANGED <<wfTasks, nextTask>> /\ TypeOK
  BY DEF DeliverWorkflowTask, LogInv, tables
<1>2. SameLease(k, t) /\ k.run = t.run
  BY DEF SameLease
<1>3. tx'[p] = Idle /\ \A q \in Proc : q # p => tx'[q] = tx[q]
  BY <1>1, SetIs
<1>4. ~Dispatching(Idle) /\ Idle.op # "wfcomplete" /\ Dispatching(t)
  BY <1>1, EndVacant DEF Vacant, Dispatching
<1> HIDE DEF k, t
<1>5. RowIds'
  BY <1>1 DEF LeaseInv, RowIds
<1>6. RowLocks'
  BY <1>1, <1>3, <1>4 DEF LeaseInv, RowLocks
<1>7. ASSUME NEW q \in Proc, Dispatching(tx'[q])
      PROVE  q # p /\ tx'[q] = tx[q]
  BY <1>3, <1>4, <1>7
<1>8. \A h : Lent(h) => Lent(h)'
  BY <1>1 DEF Lent
<1>9. Lent(k)
  <2>1. Lent(t)
    BY <1>4 DEF LeaseInv, AllLent, t
  <2> QED
    BY <1>2, <2>1 DEF Lent, SameLease
<1>10. AllLent'
  <2>1. \A tok \in tokens' : Lent(tok)'
    BY <1>1, <1>8, <1>9 DEF LeaseInv, AllLent
  <2>2. ASSUME NEW q \in Proc, Dispatching(tx'[q]) PROVE Lent(tx[q])'
    <3>1. tx'[q] = tx[q] /\ Lent(tx[q])
      BY <1>7, <2>2 DEF LeaseInv, AllLent
    <3> QED
      BY <1>1, <3>1 DEF Lent
  <2> QED
    BY <2>1, <2>2 DEF AllLent, Dispatching
<1>11. OneHolder'
  <2>1. \A tok \in tokens : ~SameLease(k, tok) /\ ~SameLease(tok, k)
    BY <1>2, <1>4 DEF LeaseInv, OneHolder, SameLease, t
  <2>2. \A a, b \in tokens' : SameLease(a, b) => a = b
    BY <1>1, <2>1 DEF LeaseInv, OneHolder
  <2>3. ASSUME NEW q \in Proc, NEW s \in Proc, Dispatching(tx'[q]),
               Dispatching(tx'[s]), SameLease(tx'[q], tx'[s])
        PROVE  q = s
    BY <1>7, <2>3 DEF LeaseInv, OneHolder
  <2>4. ASSUME NEW q \in Proc, NEW tok \in tokens', Dispatching(tx'[q])
        PROVE  ~SameLease(tx'[q], tok)
    <3>1. tx'[q] = tx[q] /\ q # p
      BY <1>7, <2>4
    <3>2. ~SameLease(tx[q], t)
      BY <1>4, <2>4, <3>1 DEF LeaseInv, OneHolder, t
    <3> QED
      BY <1>1, <1>2, <2>4, <3>1, <3>2 DEF LeaseInv, OneHolder, SameLease
  <2> QED
    BY <2>2, <2>3, <2>4 DEF OneHolder, Dispatching, SameLease
<1> QED
  BY <1>5, <1>6, <1>10, <1>11 DEF LeaseInv

(* An answer locks a row no other answer has locked.                       *)
LEMMA CompleteLeases ==
    ASSUME LogInv, TypeOK', LeaseInv, NEW p \in Proc, CompleteWorkflowTask(p)
    PROVE  LeaseInv'
<1>1. PICK tok, row, cmds :
         /\ tok \in tokens /\ row \in wfTasks \ LockedWf
         /\ tokens' = tokens \ {tok}
         /\ Set(p, [op |-> "wfcomplete", row |-> row, expect |-> exec[row.run].next,
                    cmds |-> cmds, token |-> tok])
  BY DEF CompleteWorkflowTask
<1>2. UNCHANGED <<wfTasks, nextTask>> /\ TypeOK
  BY DEF CompleteWorkflowTask, LogInv, tables
<1> DEFINE u == [op |-> "wfcomplete", row |-> row, expect |-> exec[row.run].next,
                 cmds |-> cmds, token |-> tok]
<1>3. u.op = "wfcomplete" /\ u.row = row
  OBVIOUS
<1>4. tx'[p] = u /\ \A q \in Proc : q # p => tx'[q] = tx[q]
  BY <1>1, <1>2, SetIs
<1> HIDE DEF u
<1>5. RowIds'
  BY <1>2 DEF LeaseInv, RowIds
<1>6. RowLocks'
  <2>1. ASSUME NEW q \in Proc, q # p, tx'[q].op = "wfcomplete" PROVE tx'[q].row # row
    BY <1>1, <1>4, <2>1, NotLocked
  <2> QED
    BY <1>1, <1>2, <1>3, <1>4, <2>1 DEF LeaseInv, RowLocks
<1>7. ASSUME NEW q \in Proc, Dispatching(tx'[q]) PROVE q # p /\ tx'[q] = tx[q]
  BY <1>3, <1>4, <1>7 DEF Dispatching
<1>8. AllLent'
  <2>1. \A k \in tokens' : Lent(k)'
    BY <1>1, <1>2 DEF LeaseInv, AllLent, Lent
  <2>2. ASSUME NEW q \in Proc, Dispatching(tx'[q]) PROVE Lent(tx[q])'
    <3>1. tx'[q] = tx[q] /\ Lent(tx[q])
      BY <1>7, <2>2 DEF LeaseInv, AllLent
    <3> QED
      BY <1>2, <3>1 DEF Lent
  <2> QED
    BY <2>1, <2>2 DEF AllLent, Dispatching
<1>9. OneHolder'
  <2>1. ASSUME NEW q \in Proc, NEW s \in Proc, Dispatching(tx'[q]),
               Dispatching(tx'[s]), SameLease(tx'[q], tx'[s])
        PROVE  q = s
    BY <1>7, <2>1 DEF LeaseInv, OneHolder
  <2>2. ASSUME NEW q \in Proc, NEW k \in tokens', Dispatching(tx'[q])
        PROVE  ~SameLease(tx'[q], k)
    BY <1>1, <1>7, <2>2 DEF LeaseInv, OneHolder
  <2>3. \A a, b \in tokens' : SameLease(a, b) => a = b
    BY <1>1 DEF LeaseInv, OneHolder
  <2> QED
    BY <2>1, <2>2, <2>3 DEF OneHolder, Dispatching, SameLease
<1> QED
  BY <1>5, <1>6, <1>8, <1>9 DEF LeaseInv

-----------------------------------------------------------------------------
(* Every step, by what it does to the queue.                               *)

LEMMA QueueStep ==
    ASSUME TypeOK, [Next]_vars
    PROVE  \/ QueueQuiet
           \/ \E c \in Call : StartFirst(c) \/ StartReplacing(c) \/ CommitWake(c)
           \/ \E p \in Proc :
                 \/ CommitWake(p) \/ FailEnqueue(p)
                 \/ CommitWorkflowTask(p) \/ CommitContinueAsNew(p)
                 \/ FailWorkflowTask(p)
                 \/ \E w \in Worker : DispatchWorkflowTask(p, w)
                 \/ DeliverWorkflowTask(p) \/ CompleteWorkflowTask(p)
           \/ ReapWorkflowTask \/ StickyDeadlinePasses
BY QuietCalls, QuietProcs, QuietFaults DEF Next

LEMMA LeaseInvStep ==
    ASSUME LogInv, LeaseInv, [Next]_vars
    PROVE  LeaseInv'
<1>0. TypeOK /\ TypeOK'
  BY LogInvStep DEF Keeps, LogInv
<1>1. ASSUME NEW c \in Call, StartFirst(c) \/ StartReplacing(c) \/ CommitWake(c)
      PROVE  LeaseInv'
  BY <1>0, <1>1, CallEnqueues, EnqueueLeases
<1>2. ASSUME NEW p \in Proc, CommitWake(p) \/ FailEnqueue(p) PROVE LeaseInv'
  BY <1>0, <1>2, ProcEnqueues, EnqueueLeases DEF SetIdle
<1> QED
  BY <1>0, <1>1, <1>2, QueueStep, QuietLeases, ResponseLeases, FailLeases,
     DispatchLeases, DeliverLeases, CompleteLeases, UpdateLeases

LEMMA LeaseInvInit == Init => LeaseInv
<1>1. Init => \A p \in Proc : Vacant(tx[p])
  BY EndVacant DEF Init
<1> QED
  BY <1>1 DEF Init, LeaseInv, RowIds, RowLocks, AllLent, OneHolder, Vacant

(* However often a workflow task is dispatched, reaped and dispatched      *)
(* again, of all the tokens handed out for its row at most one can still   *)
(* answer it: DequeueWorkflowTask's fresh lease_token fences the others.   *)
THEOREM LeaseHasOneHolder == Spec => []OneLeaseHolder
<1>1. LeaseInv => OneLeaseHolder
  BY DEF LeaseInv, OneHolder, OneLeaseHolder, HoldsWf, SameLease
<1>2. LogInv /\ [Next]_vars => LogInv'
  BY LogInvStep DEF Keeps
<1> QED
  BY <1>1, <1>2, LogInvInit, LeaseInvInit, LeaseInvStep, PTL DEF Spec

-----------------------------------------------------------------------------
(* Wake-ups.  It is not enough that a row exists: it must be one that no   *)
(* answer given before the event can take away.                            *)

(* Whoever may answer the row has been shown event i.                      *)
Covers(row, i) ==
    /\ \A tok \in tokens : tok.task = row.id => i <= tok.seen
    /\ \A p \in Proc :
          tx[p].op = "wfcomplete" /\ tx[p].row.id = row.id => i <= tx[p].token.seen

Failing(r) == \E p \in Proc : tx[p].op = "wffail" /\ tx[p].run = r

Awaited(r, i) == (\E row \in wfTasks : row.run = r /\ Covers(row, i)) \/ Failing(r)

WakeInv ==
    \A r \in Run : \A i \in Positions(r, WakeEvents) : i > seen[r] => Awaited(r, i)

(* No answer takes part in the step that was not there before.             *)
NoNewAnswer ==
    /\ tokens' \subseteq tokens
    /\ \A p \in Proc : tx'[p].op = "wfcomplete" => tx'[p] = tx[p]

LEMMA CoversKept ==
    ASSUME NoNewAnswer, NEW row, NEW i, Covers(row, i), NEW new, new.id = row.id
    PROVE  Covers(new, i)'
BY DEF NoNewAnswer, Covers

(* A new row covers everything: nobody has a token for it.                 *)
LEMMA NewRowCovers ==
    ASSUME TypeOK, LeaseInv, NoNewAnswer, NEW new, new.id = nextTask, NEW i
    PROVE  Covers(new, i)'
<1>1. \A tok \in tokens : tok.task # nextTask
  BY LentTyped DEF LeaseInv, AllLent, Lent, TypeOK
<1>2. ASSUME NEW p \in Proc, tx[p].op = "wfcomplete" PROVE tx[p].row.id # nextTask
  <2>1. tx[p].row \in wfTasks
    BY <1>2 DEF LeaseInv, RowLocks
  <2> QED
    BY <2>1, RowFields DEF LeaseInv, RowIds, TypeOK
<1> QED
  BY <1>1, <1>2 DEF NoNewAnswer, Covers

LEMMA IdleNoAnswer ==
    ASSUME UNCHANGED tokens,
           \A q \in Proc : tx'[q] = tx[q] \/ tx'[q] = Idle
    PROVE  NoNewAnswer
BY EndVacant DEF NoNewAnswer, Vacant

LEMMA QuietAwaited ==
    ASSUME "wffail" \notin CrashPoints, QueueQuiet, NEW r, NEW i, Awaited(r, i)
    PROVE  Awaited(r, i)'
<1>1. NoNewAnswer
  BY DEF QueueQuiet, Calm, NoNewAnswer, Vacant, HandsOn, Dispatching
<1>2. ASSUME NEW row \in wfTasks, row.run = r, Covers(row, i) PROVE Awaited(r, i)'
  <2>1. Covers(row, i)' /\ row \in wfTasks'
    BY <1>1, <1>2, CoversKept DEF QueueQuiet
  <2> QED
    BY <1>2, <2>1 DEF Awaited
<1>3. ASSUME NEW p \in Proc, tx[p].op = "wffail", tx[p].run = r PROVE Awaited(r, i)'
  <2>1. Calm(tx[p], tx'[p])
    BY DEF QueueQuiet
  <2>2. tx'[p].op = "wffail" /\ tx'[p].run = r
    BY <1>3, <2>1 DEF Calm, HandsOn, Dispatching
  <2> QED
    BY <2>2 DEF Awaited, Failing
<1> QED
  BY <1>2, <1>3 DEF Awaited, Failing

(* The row an insert adds awaits any event of its run.                     *)
LEMMA EnqueueAwaited ==
    ASSUME TypeOK, LeaseInv, NEW r, EnqueueStep(r), NEW i,
           \A q \in Proc : tx'[q] = tx[q] \/ tx'[q] = Idle
    PROVE  Awaited(r, i)' /\ wfTasks \subseteq wfTasks' /\ NoNewAnswer
<1>1. PICK pref : wfTasks' = EnqueueWorkflowTask(wfTasks, r, pref)
  BY DEF EnqueueStep
<1>2. wfTasks' = wfTasks \cup {NewRow(r, pref)}
  BY <1>1, EnqueueFollows DEF LeaseInv, EnqueueStep
<1>3. PICK new : wfTasks' = wfTasks \cup {new} /\ new.id = nextTask /\ new.run = r
  BY <1>2, NewRowFields
<1>4. NoNewAnswer
  BY IdleNoAnswer DEF EnqueueStep
<1>5. Covers(new, i)'
  BY <1>3, <1>4, NewRowCovers
<1> QED
  BY <1>3, <1>4, <1>5 DEF Awaited

LEMMA EnqueueKeepsAwaited ==
    ASSUME TypeOK, LeaseInv, NEW s, EnqueueStep(s), NEW r, NEW i, Awaited(r, i),
           \A q \in Proc :
              \/ tx'[q] = tx[q]
              \/ tx'[q] = Idle /\ (tx[q].op = "wffail" => tx[q].run = s)
    PROVE  Awaited(r, i)'
<1>1. Awaited(s, i)' /\ wfTasks \subseteq wfTasks' /\ NoNewAnswer
  BY EnqueueAwaited
<1>2. ASSUME NEW row \in wfTasks, row.run = r, Covers(row, i) PROVE Awaited(r, i)'
  <2>1. Covers(row, i)' /\ row \in wfTasks'
    BY <1>1, <1>2, CoversKept
  <2> QED
    BY <1>2, <2>1 DEF Awaited
<1>3. ASSUME NEW p \in Proc, tx[p].op = "wffail", tx[p].run = r PROVE Awaited(r, i)'
  <2>1. CASE tx'[p] = tx[p]
    BY <1>3, <2>1 DEF Awaited, Failing
  <2>2. CASE r = s
    BY <1>1, <2>2
  <2> QED
    BY <1>3, <2>1, <2>2
<1> QED
  BY <1>2, <1>3 DEF Awaited, Failing

(* An accepted response takes away a row, and with it the awaiting of no   *)
(* event its token had not been shown.                                     *)
LEMMA ResponseAwaited ==
    ASSUME LogInv, LeaseInv, NEW p \in Proc,
           CommitWorkflowTask(p) \/ CommitContinueAsNew(p),
           NEW r \in Run, NEW i \in Nat, i > seen'[r], Awaited(r, i)
    PROVE  Awaited(r, i)'
<1> DEFINE t == tx[p]
<1>0. /\ t.op = "wfcomplete" /\ SetIdle(p) /\ UNCHANGED tokens
      /\ seen' = [seen EXCEPT ![t.row.run] = MaxOf(@, t.token.seen)]
      /\ \/ wfTasks' = wfTasks \ {t.row} /\ UNCHANGED nextTask
         \/ \E n \in Run :
               /\ wfTasks' = EnqueueWorkflowTask(wfTasks \ {t.row}, n, NoWorker)
               /\ nextTask' = nextTask + 1
  BY ResponseQueue
<1>1. wfTasks \ {t.row} \subseteq wfTasks'
  BY <1>0 DEF EnqueueWorkflowTask
<1>2. NoNewAnswer
  BY <1>0, IdleNoAnswer DEF SetIdle
<1>3. t \in Tx /\ t.token.seen \in Nat /\ seen \in [Run -> Nat] /\ t.row.run \in Run
  BY <1>0, TxWfComplete DEF LogInv, TypeOK, WfToken, WfRow
<1>4. ASSUME NEW row \in wfTasks, row.run = r, Covers(row, i) PROVE Awaited(r, i)'
  <2>1. row # t.row
    <3> SUFFICES ASSUME row = t.row PROVE FALSE
      OBVIOUS
    <3>1. i <= t.token.seen
      BY <1>0, <1>4 DEF Covers
    <3>2. seen'[r] = MaxOf(seen[r], t.token.seen)
      BY <1>0, <1>3, <1>4
    <3>3. seen[r] \in Nat
      BY <1>3
    <3>4. MaxOf(seen[r], t.token.seen) >= t.token.seen
         /\ MaxOf(seen[r], t.token.seen) \in Nat
      BY <1>3, <3>3 DEF MaxOf
    <3> QED
      BY <1>3, <3>1, <3>2, <3>4
  <2>2. Covers(row, i)' /\ row \in wfTasks'
    BY <1>1, <1>2, <1>4, <2>1, CoversKept
  <2> QED
    BY <1>4, <2>2 DEF Awaited
<1>5. ASSUME NEW q \in Proc, tx[q].op = "wffail", tx[q].run = r PROVE Awaited(r, i)'
  <2>1. tx'[q] = tx[q]
    BY <1>0, <1>5 DEF SetIdle
  <2> QED
    BY <1>5, <2>1 DEF Awaited, Failing
<1> QED
  BY <1>4, <1>5 DEF Awaited, Failing

LEMMA FailAwaited ==
    ASSUME LogInv, NEW p \in Proc, FailWorkflowTask(p), NEW r, NEW i, Awaited(r, i)
    PROVE  Awaited(r, i)'
<1>1. PICK tok \in tokens, row \in wfTasks \ LockedWf :
         /\ tokens' = tokens \ {tok} /\ wfTasks' = wfTasks \ {row}
         /\ Set(p, [op |-> "wffail", run |-> row.run, cleared |-> FALSE])
  BY DEF FailWorkflowTask
<1> DEFINE t == [op |-> "wffail", run |-> row.run, cleared |-> FALSE]
<1>2. t.op = "wffail" /\ t.run = row.run
  OBVIOUS
<1> HIDE DEF t
<1>3. tx'[p] = t /\ \A q \in Proc : q # p => tx'[q] = tx[q]
  BY <1>1, SetIs DEF LogInv, t
<1>4. tx[p].op = "idle"
  BY DEF FailWorkflowTask
<1>5. NoNewAnswer
  BY <1>1, <1>2, <1>3 DEF NoNewAnswer
<1>6. ASSUME NEW old \in wfTasks, old.run = r, Covers(old, i) PROVE Awaited(r, i)'
  <2>1. CASE old = row
    BY <1>2, <1>3, <1>6, <2>1 DEF Awaited, Failing
  <2>2. CASE old # row
    <3>1. Covers(old, i)' /\ old \in wfTasks'
      BY <1>1, <1>5, <1>6, <2>2, CoversKept
    <3> QED
      BY <1>6, <3>1 DEF Awaited
  <2> QED
    BY <2>1, <2>2
<1>7. ASSUME NEW q \in Proc, tx[q].op = "wffail", tx[q].run = r PROVE Awaited(r, i)'
  BY <1>3, <1>4, <1>7 DEF Awaited, Failing
<1> QED
  BY <1>6, <1>7 DEF Awaited, Failing

(* A row rewritten in place awaits what it did before.                     *)
LEMMA UpdateAwaited ==
    ASSUME NEW row \in wfTasks, NEW new, new.id = row.id, new.run = row.run,
           wfTasks' = (wfTasks \ {row}) \cup {new}, NoNewAnswer,
           \A q \in Proc : tx[q].op = "wffail" => tx'[q] = tx[q],
           NEW r, NEW i, Awaited(r, i)
    PROVE  Awaited(r, i)'
<1>1. ASSUME NEW old \in wfTasks, old.run = r, Covers(old, i) PROVE Awaited(r, i)'
  <2>1. CASE old = row
    <3>1. Covers(new, i)' /\ new \in wfTasks' /\ new.run = r
      BY <1>1, <2>1, CoversKept
    <3> QED
      BY <3>1 DEF Awaited
  <2>2. CASE old # row
    <3>1. Covers(old, i)' /\ old \in wfTasks'
      BY <1>1, <2>2, CoversKept
    <3> QED
      BY <1>1, <3>1 DEF Awaited
  <2> QED
    BY <2>1, <2>2
<1>2. ASSUME NEW q \in Proc, tx[q].op = "wffail", tx[q].run = r PROVE Awaited(r, i)'
  BY <1>2 DEF Awaited, Failing
<1> QED
  BY <1>1, <1>2 DEF Awaited, Failing

LEMMA DispatchAwaited ==
    ASSUME LogInv, NEW p \in Proc, NEW w \in Worker, DispatchWorkflowTask(p, w),
           NEW r, NEW i, Awaited(r, i)
    PROVE  Awaited(r, i)'
<1>1. PICK row \in wfTasks \ LockedWf :
         /\ wfTasks' = (wfTasks \ {row}) \cup {Leased(row)}
         /\ Set(p, [op |-> "wfdequeued", task |-> row.id,
                    lease |-> Leased(row).lease, worker |-> w, run |-> row.run])
  BY DEF DispatchWorkflowTask
<1> DEFINE u == [op |-> "wfdequeued", task |-> row.id, lease |-> Leased(row).lease,
                 worker |-> w, run |-> row.run]
<1>2. u.op = "wfdequeued"
  OBVIOUS
<1> HIDE DEF u
<1>3. tx'[p] = u /\ \A q \in Proc : q # p => tx'[q] = tx[q]
  BY <1>1, SetIs DEF LogInv, u
<1>4. tx[p].op = "idle" /\ UNCHANGED tokens
  BY DEF DispatchWorkflowTask
<1>5. NoNewAnswer
  BY <1>2, <1>3, <1>4 DEF NoNewAnswer
<1>6. Leased(row).id = row.id /\ Leased(row).run = row.run
  BY DEF Leased, LogInv, TypeOK, WfRow
<1>7. \A q \in Proc : tx[q].op = "wffail" => tx'[q] = tx[q]
  BY <1>3, <1>4
<1> QED
  BY <1>1, <1>5, <1>6, <1>7, UpdateAwaited

(* ListHistoryEvents reads every event committed by then.                  *)
LEMMA DeliverAwaited ==
    ASSUME LogInv, LeaseInv, NEW p \in Proc, DeliverWorkflowTask(p),
           NEW r \in Run, NEW i \in DOMAIN history[r], Awaited(r, i)
    PROVE  Awaited(r, i)'
<1> DEFINE t == tx[p]
           k == [task |-> t.task, lease |-> t.lease, run |-> t.run,
                 seen |-> exec[t.run].next - 1, worker |-> t.worker]
<1>1. /\ tokens' = tokens \cup {k} /\ Set(p, Idle) /\ t.op = "wflist"
      /\ UNCHANGED wfTasks
  BY DEF DeliverWorkflowTask, tables
<1>2. k.task = t.task /\ k.run = t.run /\ k.seen = exec[t.run].next - 1
  OBVIOUS
<1>3. tx'[p] = Idle /\ \A q \in Proc : q # p => tx'[q] = tx[q]
  BY <1>1, SetIs DEF LogInv
<1>4. Lent(t)
  BY <1>1 DEF LeaseInv, AllLent, Dispatching
<1>5. i <= exec[r].next - 1
  BY DEF LogInv, HistoryContiguous, TypeOK
<1> HIDE DEF k
<1>6. ASSUME NEW row \in wfTasks, row.run = r, Covers(row, i) PROVE Awaited(r, i)'
  <2>1. k.task = row.id => i <= k.seen
    BY <1>2, <1>4, <1>5, <1>6 DEF Lent
  <2>2. \A q \in Proc : tx'[q].op = "wfcomplete" => tx'[q] = tx[q]
    BY <1>3, EndVacant DEF Vacant
  <2>3. Covers(row, i)'
    BY <1>1, <1>6, <2>1, <2>2 DEF Covers
  <2> QED
    BY <1>1, <1>6, <2>3 DEF Awaited
<1>7. ASSUME NEW q \in Proc, tx[q].op = "wffail", tx[q].run = r PROVE Awaited(r, i)'
  BY <1>1, <1>3, <1>7 DEF Awaited, Failing
<1> QED
  BY <1>6, <1>7 DEF Awaited, Failing

LEMMA CompleteAwaited ==
    ASSUME LogInv, NEW p \in Proc, CompleteWorkflowTask(p), NEW r, NEW i, Awaited(r, i)
    PROVE  Awaited(r, i)'
<1>1. PICK tok, row, cmds :
         /\ tok \in tokens /\ row \in wfTasks \ LockedWf
         /\ HoldsWf(row, tok) /\ tokens' = tokens \ {tok}
         /\ Set(p, [op |-> "wfcomplete", row |-> row, expect |-> exec[row.run].next,
                    cmds |-> cmds, token |-> tok])
  BY DEF CompleteWorkflowTask
<1> DEFINE u == [op |-> "wfcomplete", row |-> row, expect |-> exec[row.run].next,
                 cmds |-> cmds, token |-> tok]
<1>2. u.op = "wfcomplete" /\ u.row = row /\ u.token = tok
  OBVIOUS
<1> HIDE DEF u
<1>3. tx'[p] = u /\ \A q \in Proc : q # p => tx'[q] = tx[q]
  BY <1>1, SetIs DEF LogInv, u
<1>4. tx[p].op = "idle" /\ UNCHANGED wfTasks
  BY DEF CompleteWorkflowTask, tables
<1>5. tok.task = row.id
  BY <1>1 DEF HoldsWf
<1>6. ASSUME NEW old \in wfTasks, old.run = r, Covers(old, i) PROVE Awaited(r, i)'
  <2>1. \A q \in Proc : tx'[q].op = "wfcomplete" /\ tx'[q].row.id = old.id
                        => i <= tx'[q].token.seen
    BY <1>1, <1>2, <1>3, <1>5, <1>6 DEF Covers
  <2>2. Covers(old, i)'
    BY <1>1, <1>6, <2>1 DEF Covers
  <2> QED
    BY <1>4, <1>6, <2>2 DEF Awaited
<1>7. ASSUME NEW q \in Proc, tx[q].op = "wffail", tx[q].run = r PROVE Awaited(r, i)'
  BY <1>3, <1>4, <1>7 DEF Awaited, Failing
<1> QED
  BY <1>6, <1>7 DEF Awaited, Failing

(* A new run's start event comes with the run's first row.                 *)
LEMMA NewStart ==
    ASSUME LogInv, TxInv, [Next]_vars,
           NEW r \in Run, NEW i \in DOMAIN history'[r], i \notin DOMAIN history[r],
           history'[r][i].type = "WorkflowExecutionStarted"
    PROVE  \/ \E c \in Call : (StartFirst(c) \/ StartReplacing(c)) /\ Created(r, NoRun)
           \/ \E p \in Proc : CommitContinueAsNew(p) /\ Created(r, tx[p].row.run)
<1>0. ASSUME NEW R, Untouched(R), r \notin R PROVE FALSE
  BY <1>0 DEF Untouched
<1>1. ASSUME NEW evs, Extended(r, evs)
      PROVE  \E k \in 1 .. Len(evs) : history'[r][i] = evs[k]
  BY <1>1, AppendedCases DEF Extended
<1>2. CASE UNCHANGED history /\ Untouched({})
  BY <1>2
<1>3. ASSUME NEW c \in Call, StartFirst(c) \/ StartReplacing(c) PROVE Created(r, NoRun)
  BY <1>0, <1>3, StartCreates
<1>4. ASSUME NEW q \in Run, NEW ev, Extended(q, <<ev>>), Untouched({q}),
             ev.type # "WorkflowExecutionStarted"
      PROVE  FALSE
  <2> DEFINE evs == <<ev>>
  <2>1. \A k \in 1 .. Len(evs) : evs[k].type # "WorkflowExecutionStarted"
    BY <1>4
  <2>2. Extended(q, evs)
    BY <1>4
  <2> HIDE DEF evs
  <2> QED
    BY <1>0, <1>1, <1>4, <2>1, <2>2
<1>5. ASSUME NEW c \in Call, CommitTerminate(c) PROVE FALSE
  <2> DEFINE ev == Ev("WorkflowExecutionTerminated", c.id, 0)
  <2>1. Extended(tx[c].run, <<ev>>) /\ Untouched({tx[c].run})
    BY <1>5, TerminateExtends
  <2>2. ev.type # "WorkflowExecutionStarted" /\ tx[c].run \in Run
    BY <2>1, EvFields DEF Extended
  <2> HIDE DEF ev
  <2> QED
    BY <1>4, <2>1, <2>2
<1>6. ASSUME NEW p \in Call \cup Proc, CommitWake(p) PROVE FALSE
  <2>1. Extended(tx[p].run, WakeEvs(tx[p])) /\ Untouched({tx[p].run})
    BY <1>6, WakeExtends
  <2>2. tx[p].ev.type # "WorkflowExecutionStarted"
    BY <1>6, WakeEvType DEF WokenTypes, CommitWake
  <2>3. PICK k \in 1 .. Len(WakeEvs(tx[p])) : history'[r][i] = WakeEvs(tx[p])[k]
    BY <1>0, <1>1, <2>1
  <2> QED
    BY <2>2, <2>3, WakeEvsAre, EvFields
<1>7. ASSUME NEW p \in Proc, RecordWorkflowTaskStarted(p) \/ RecordActivityTaskStarted(p)
      PROVE  FALSE
  <2>1. PICK q \in Run, ev \in Event :
           /\ ev.type \in {"WorkflowTaskStarted", "ActivityTaskStarted"}
           /\ Extended(q, <<ev>>) /\ Untouched({q})
    BY <1>7, StartedExtends DEF StartedStep
  <2> QED
    BY <1>4, <2>1
<1>8. ASSUME NEW cmds \in Seq(Command), NEW n, NEW k \in 1 .. Len(CommandEvents(cmds, n))
      PROVE  CommandEvents(cmds, n)[k].type # "WorkflowExecutionStarted"
  BY ResponseTypes, EvFields DEF CommandTypes
<1>9. ASSUME NEW p \in Proc, CommitWorkflowTask(p) PROVE FALSE
  <2>1. /\ Extended(tx[p].row.run, CommandEvents(tx[p].cmds, NoRun))
        /\ Untouched({tx[p].row.run})
    BY <1>9, ResponseExtends
  <2>2. tx[p].cmds \in Seq(Command)
    BY <1>9, TxWfComplete DEF CommitWorkflowTask, LogInv, TypeOK
  <2> QED
    BY <1>0, <1>1, <1>8, <2>1, <2>2
<1>10. ASSUME NEW p \in Proc, CommitContinueAsNew(p) PROVE Created(r, tx[p].row.run)
  <2>1. PICK n \in Run :
           /\ Created(n, tx[p].row.run)
           /\ Extended(tx[p].row.run, CommandEvents(tx[p].cmds, n))
           /\ Untouched({tx[p].row.run, n})
    BY <1>10, ContinueExtends
  <2>2. tx[p].cmds \in Seq(Command)
    BY <1>10, TxWfComplete DEF CommitContinueAsNew, LogInv, TypeOK
  <2>3. r # tx[p].row.run
    BY <1>1, <1>8, <2>1, <2>2
  <2> QED
    BY <1>0, <2>1, <2>3
<1> QED
  BY <1>2, <1>3, <1>5, <1>6, <1>7, <1>9, <1>10, CommitOrQuiet

(* The run the step creates is the one its row is for.                     *)
LEMMA CreatedRow ==
    ASSUME NEW ex, NEW hs, NEW rows, NEW n \in Run, NEW req, NEW from,
           CreateRun(ex, hs, rows, n, req, from), NEW r \in Run,
           DOMAIN ex = Run, ex[r].status # exec'[r].status
    PROVE  r = n /\ wfTasks' = EnqueueWorkflowTask(rows, r, NoWorker)
BY DEF CreateRun

LEMMA NewWakeAwaited ==
    ASSUME LogInv, TxInv, LeaseInv, [Next]_vars,
           NEW r \in Run, NEW i \in DOMAIN history'[r], i \notin DOMAIN history[r],
           history'[r][i].type \in WakeEvents
    PROVE  Awaited(r, i)'
<1>0. TypeOK
  BY DEF LogInv
<1>1. CASE history'[r][i].type \in WokenTypes
  <2>1. PICK p \in Call \cup Proc : CommitWake(p) /\ r = tx[p].run
    BY <1>1, NewEvents
  <2>2. EnqueueStep(r)
    BY <2>1, WakeEnqueues
  <2>3. \A q \in Proc : tx'[q] = tx[q] \/ tx'[q] = Idle
    BY <2>1, CallEnqueues, ProcEnqueues DEF SetIdle
  <2> QED
    BY <1>0, <2>2, <2>3, EnqueueAwaited
<1>2. ASSUME NEW c \in Call, StartFirst(c) \/ StartReplacing(c), Created(r, NoRun)
      PROVE  Awaited(r, i)'
  <2>1. PICK n, req : n \in Run /\ CreateRun(exec, history, wfTasks, n, req, NoRun)
    BY <1>2 DEF StartFirst, StartReplacing
  <2>2. exec[r].status # exec'[r].status /\ DOMAIN exec = Run
    BY <1>0, <1>2 DEF Created, TypeOK
  <2>3. wfTasks' = EnqueueWorkflowTask(wfTasks, r, NoWorker) /\ nextTask' = nextTask + 1
    BY <2>1, <2>2, CreatedRow DEF CreateRun
  <2>4. UNCHANGED <<tokens, seen>> /\ \A q \in Proc : tx'[q] = tx[q]
    BY <1>2, CallEnqueues DEF EnqueueStep
  <2>5. EnqueueStep(r)
    BY <2>3, <2>4 DEF EnqueueStep
  <2> QED
    BY <1>0, <2>4, <2>5, EnqueueAwaited
<1>3. ASSUME NEW p \in Proc, CommitContinueAsNew(p), Created(r, tx[p].row.run)
      PROVE  Awaited(r, i)'
  <2> DEFINE t == tx[p]
             s == t.row.run
  <2>1. PICK n \in Run :
           LET evs == CommandEvents(t.cmds, n)
           IN  CreateRun([exec EXCEPT ![s] = Responded(@, t, evs)],
                         [history EXCEPT ![s] = Insert(@, t.expect, evs)],
                         wfTasks \ {t.row}, n, NoReq, s)
    BY <1>3 DEF CommitContinueAsNew
  <2> DEFINE ex == [exec EXCEPT ![s] = Responded(@, t, CommandEvents(t.cmds, n))]
             hs == [history EXCEPT ![s] = Insert(@, t.expect, CommandEvents(t.cmds, n))]
  <2>2. CreateRun(ex, hs, wfTasks \ {t.row}, n, NoReq, s)
    BY <2>1
  <2>3. r # s
    <3>1. Exists(s)
      BY <1>3 DEF LogInv, ReferencesExist, CommitContinueAsNew, Unbound, RunOf
    <3> QED
      BY <1>3, <3>1 DEF Created, Exists
  <2>4. DOMAIN ex = Run /\ ex[r] = exec[r]
    BY <1>0, <2>3 DEF TypeOK
  <2> HIDE DEF ex, hs
  <2>5. ex[r].status # exec'[r].status
    BY <1>3, <2>4 DEF Created
  <2>6. /\ wfTasks' = EnqueueWorkflowTask(wfTasks \ {t.row}, r, NoWorker)
        /\ nextTask' = nextTask + 1
    BY <2>2, <2>4, <2>5, CreatedRow DEF CreateRun
  <2>7. wfTasks' = (wfTasks \ {t.row}) \cup {NewRow(r, NoWorker)}
    BY <2>6 DEF EnqueueWorkflowTask, NewRow
  <2>8. PICK new \in wfTasks' : new.id = nextTask /\ new.run = r
    BY <2>7, NewRowFields
  <2>9. NoNewAnswer
    BY <1>3, ResponseQueue, IdleNoAnswer DEF SetIdle
  <2>10. Covers(new, i)'
    BY <1>0, <2>8, <2>9, NewRowCovers
  <2> QED
    BY <2>8, <2>10 DEF Awaited
<1>4. history'[r][i].type \in WokenTypes \cup {"WorkflowExecutionStarted"}
  BY DEF WakeEvents, WokenTypes
<1> QED
  BY <1>1, <1>2, <1>3, <1>4, NewStart

LEMMA OldWakeAwaited ==
    ASSUME "wffail" \notin CrashPoints, LogInv, LeaseInv, [Next]_vars,
           NEW r \in Run, NEW i \in DOMAIN history[r], i > seen'[r], Awaited(r, i)
    PROVE  Awaited(r, i)'
<1>0. TypeOK /\ i \in Nat
  BY DEF LogInv, TypeOK
<1>1. ASSUME NEW c \in Call, StartFirst(c) \/ StartReplacing(c) \/ CommitWake(c)
      PROVE  Awaited(r, i)'
  BY <1>0, <1>1, CallEnqueues, EnqueueKeepsAwaited
<1>2. ASSUME NEW p \in Proc, CommitWake(p) \/ FailEnqueue(p) PROVE Awaited(r, i)'
  BY <1>0, <1>2, ProcEnqueues, EnqueueKeepsAwaited DEF SetIdle
<1>3. ASSUME NEW p \in Proc, CommitWorkflowTask(p) \/ CommitContinueAsNew(p)
      PROVE  Awaited(r, i)'
  BY <1>0, <1>3, ResponseAwaited
<1>4. ASSUME ReapWorkflowTask \/ StickyDeadlinePasses PROVE Awaited(r, i)'
  <2>1. PICK row, new :
           /\ row \in wfTasks \ LockedWf
           /\ new.id = row.id /\ new.run = row.run
           /\ wfTasks' = (wfTasks \ {row}) \cup {new}
           /\ UNCHANGED <<tx, tokens>>
    BY <1>0, <1>4, UpdateRow
  <2>2. NoNewAnswer
    BY <2>1 DEF NoNewAnswer
  <2> QED
    BY <2>1, <2>2, UpdateAwaited
<1> QED
  BY <1>0, <1>1, <1>2, <1>3, <1>4, QueueStep, QuietAwaited, FailAwaited,
     DispatchAwaited, DeliverAwaited, CompleteAwaited

(* Only an accepted response moves seen, and only forward.                 *)
LEMMA SeenGrows ==
    ASSUME LogInv, [Next]_vars, NEW r \in Run
    PROVE  seen[r] \in Nat /\ seen'[r] \in Nat /\ seen[r] <= seen'[r]
<1>0. TypeOK /\ seen \in [Run -> Nat]
  BY DEF LogInv, TypeOK
<1>1. ASSUME UNCHANGED seen PROVE seen'[r] \in Nat /\ seen[r] <= seen'[r]
  BY <1>0, <1>1
<1>2. ASSUME NEW p \in Proc, CommitWorkflowTask(p) \/ CommitContinueAsNew(p)
      PROVE  seen'[r] \in Nat /\ seen[r] <= seen'[r]
  <2> DEFINE t == tx[p]
  <2>1. /\ t.op = "wfcomplete"
        /\ seen' = [seen EXCEPT ![t.row.run] = MaxOf(@, t.token.seen)]
    BY <1>2, ResponseQueue
  <2>2. t.token.seen \in Nat
    BY <1>0, <2>1, TxWfComplete DEF TypeOK, WfToken
  <2> HIDE DEF t
  <2>3. seen'[r] = seen[r] \/ seen'[r] = MaxOf(seen[r], t.token.seen)
    BY <1>0, <2>1
  <2> QED
    BY <1>0, <2>2, <2>3 DEF MaxOf
<1>3. ASSUME \/ \E c \in Call : StartFirst(c) \/ StartReplacing(c) \/ CommitWake(c)
             \/ \E p \in Proc : CommitWake(p) \/ FailEnqueue(p)
      PROVE  UNCHANGED seen
  BY <1>3, CallEnqueues, ProcEnqueues DEF EnqueueStep
<1>4. ASSUME \/ \E p \in Proc :
                   \/ FailWorkflowTask(p)
                   \/ \E w \in Worker : DispatchWorkflowTask(p, w)
                   \/ DeliverWorkflowTask(p) \/ CompleteWorkflowTask(p)
             \/ ReapWorkflowTask \/ StickyDeadlinePasses
      PROVE  UNCHANGED seen
  BY <1>4 DEF FailWorkflowTask, DispatchWorkflowTask, DeliverWorkflowTask,
       CompleteWorkflowTask, ReapWorkflowTask, StickyDeadlinePasses
<1>5. QueueQuiet => UNCHANGED seen
  BY DEF QueueQuiet
<1> QED
  BY <1>0, <1>1, <1>2, <1>3, <1>4, <1>5, QueueStep

LEMMA WakeInvStep ==
    ASSUME "wffail" \notin CrashPoints, LogInv, TxInv, LeaseInv, WakeInv, [Next]_vars
    PROVE  WakeInv'
<1> SUFFICES ASSUME NEW r \in Run, NEW i \in DOMAIN history'[r],
                    history'[r][i].type \in WakeEvents, i > seen'[r]
             PROVE  Awaited(r, i)'
  BY DEF WakeInv, Positions, WakeEvents
<1>1. CASE i \in DOMAIN history[r]
  <2>1. history'[r][i] = history[r][i]
    BY <1>1, OldEventsKept
  <2>2. i \in Nat
    BY <1>1 DEF LogInv, TypeOK
  <2>3. i > seen[r]
    BY <2>2, SeenGrows
  <2>4. Awaited(r, i)
    BY <1>1, <2>1, <2>3 DEF WakeInv, Positions
  <2> QED
    BY <1>1, <2>4, OldWakeAwaited
<1>2. CASE i \notin DOMAIN history[r]
  BY <1>2, NewWakeAwaited
<1> QED
  BY <1>1, <1>2

(* No wake-up is lost.  While FailWorkflowTask's three statements are not  *)
(* torn by a crash (the run failcrash shows what one does), an event that  *)
(* no accepted workflow task has been shown has a row in workflow_tasks    *)
(* that will show it: rows answered late, leases that lapse, crashes at    *)
(* any other point and lost compare-and-swaps never take the last one.     *)
THEOREM WakeUpsAreNotLost ==
    ASSUME "wffail" \notin CrashPoints
    PROVE  Spec => []NoLostWakeup
<1>1. Init => WakeInv
  BY DEF Init, WakeInv, Positions
<1>2. WakeInv => NoLostWakeup
  BY DEF WakeInv, NoLostWakeup, Awaited, Failing
<1>3. HistoryInv /\ LeaseInv /\ [Next]_vars => LeaseInv'
  BY LeaseInvStep DEF HistoryInv
<1>4. HistoryInv /\ LeaseInv /\ WakeInv /\ [Next]_vars => WakeInv'
  BY WakeInvStep DEF HistoryInv
<1> QED
  BY <1>1, <1>2, <1>3, <1>4, HistoryInvInit, HistoryInvStep, LeaseInvInit, PTL DEF Spec

-----------------------------------------------------------------------------
(* The books of one run.  S schedules a piece of work, an event of O ends  *)
(* it, and a row is what the server keeps meanwhile.  The argument is the  *)
(* same for activities and for timers.                                     *)

(* A row stands for the schedule event it was written with.                *)
RowsBooked(r, h, rows, S) ==
    /\ \A a \in rows : a.run = r =>
          a.sched \in DOMAIN h /\ h[a.sched].type = S /\ h[a.sched].id = a.id
    /\ \A a, b \in rows : a.run = r /\ b.run = r /\ a.sched = b.sched => a = b

(* An outcome ends earlier work, which has no row and no other outcome.    *)
OutcomesBooked(r, h, rows, S, O) ==
    \A j \in DOMAIN h : h[j].type \in O =>
        LET i == h[j].ref
        IN  /\ i \in DOMAIN h /\ i < j /\ h[i].type = S /\ h[i].id = h[j].id
            /\ \A a \in rows : ~(a.run = r /\ a.sched = i)
            /\ \A k \in DOMAIN h : h[k].type \in O /\ h[k].ref = i => k = j

(* Work has a row or an outcome.                                           *)
WorkBooked(r, h, rows, S, O) ==
    \A i \in DOMAIN h : h[i].type = S =>
        \/ \E a \in rows : a.run = r /\ a.sched = i
        \/ \E j \in DOMAIN h : h[j].type \in O /\ h[j].ref = i

Booked(r, h, rows, S, O) ==
    /\ RowsBooked(r, h, rows, S)
    /\ OutcomesBooked(r, h, rows, S, O)
    /\ WorkBooked(r, h, rows, S, O)

(* The rows of other runs do not matter.                                   *)
LEMMA SameRowsBooked ==
    ASSUME NEW r, NEW h, NEW rows, NEW rows2, NEW S, NEW O, Booked(r, h, rows, S, O),
           \A a : a.run = r => (a \in rows2 <=> a \in rows)
    PROVE  Booked(r, h, rows2, S, O)
BY DEF Booked, RowsBooked, OutcomesBooked, WorkBooked

(* A row rewritten in place.                                               *)
LEMMA UpdateBooked ==
    ASSUME NEW r, NEW h, NEW rows, NEW S, NEW O, Booked(r, h, rows, S, O),
           NEW old \in rows, NEW new,
           new.run = old.run, new.sched = old.sched, new.id = old.id
    PROVE  Booked(r, h, (rows \ {old}) \cup {new}, S, O)
<1> DEFINE rows2 == (rows \ {old}) \cup {new}
<1>1. RowsBooked(r, h, rows2, S)
  BY DEF Booked, RowsBooked
<1>2. OutcomesBooked(r, h, rows2, S, O)
  BY DEF Booked, OutcomesBooked
<1>3. WorkBooked(r, h, rows2, S, O)
  <2>1. \A a \in rows : \E b \in rows2 : b.run = a.run /\ b.sched = a.sched
    OBVIOUS
  <2> HIDE DEF rows2
  <2> QED
    BY <2>1 DEF Booked, WorkBooked
<1> QED
  BY <1>1, <1>2, <1>3 DEF Booked

(* No event of evs is of the types O.                                      *)
NoneOf(evs, O) == \A k \in 1 .. Len(evs) : evs[k].type \notin O

(* new is one row for each event S among evs, whose first event is number  *)
(* n of run r.                                                             *)
RowsFor(r, n, evs, S, new) ==
    /\ \A b \in new : /\ b.run = r
                      /\ \E k \in 1 .. Len(evs) :
                            /\ b.sched = n + k - 1 /\ evs[k].type = S
                            /\ evs[k].id = b.id
    /\ \A b, c \in new : b.sched = c.sched => b = c
    /\ \A k \in 1 .. Len(evs) : evs[k].type = S => \E b \in new : b.sched = n + k - 1

(* The response that schedules work appends its events and their rows;     *)
(* with no row, any other append.                                          *)
LEMMA ScheduleBooked ==
    ASSUME NEW r, NEW h, NEW rows, NEW S, NEW O, S \notin O, Booked(r, h, rows, S, O),
           NEW n, NEW evs, NEW h2, Len(evs) \in Nat, Appended(h, n, evs, h2),
           NoneOf(evs, O), NEW new, RowsFor(r, n, evs, S, new)
    PROVE  Booked(r, h2, rows \cup new, S, O)
<1>0. n \in Nat \ {0} /\ DOMAIN h = 1 .. (n - 1)
  BY DEF Appended
<1>1. ASSUME NEW i \in DOMAIN h
      PROVE  i \in DOMAIN h2 /\ h2[i] = h[i] /\ i < n /\ i \in Nat
  BY <1>0, <1>1 DEF Appended
<1>2. ASSUME NEW k \in 1 .. Len(evs)
      PROVE  /\ n + k - 1 \in DOMAIN h2 /\ h2[n + k - 1] = evs[k]
             /\ n + k - 1 >= n /\ n + k - 1 \in Nat
  BY <1>0, <1>2 DEF Appended
<1>3. ASSUME NEW i \in DOMAIN h2, i \notin DOMAIN h
      PROVE  \E k \in 1 .. Len(evs) : i = n + k - 1 /\ h2[i] = evs[k]
  BY <1>3, AppendedCases
<1>4. ASSUME NEW b \in new
      PROVE  /\ b.run = r /\ b.sched \in DOMAIN h2 /\ b.sched >= n /\ b.sched \in Nat
             /\ h2[b.sched].type = S /\ h2[b.sched].id = b.id
  BY <1>2, <1>4 DEF RowsFor
<1>5. \A a \in rows : a.run = r => a.sched \in DOMAIN h
  BY DEF Booked, RowsBooked
<1>6. RowsBooked(r, h2, rows \cup new, S)
  <2>1. ASSUME NEW a \in rows \cup new, a.run = r
        PROVE  a.sched \in DOMAIN h2 /\ h2[a.sched].type = S /\ h2[a.sched].id = a.id
    BY <1>1, <1>4, <2>1 DEF Booked, RowsBooked
  <2>2. ASSUME NEW a \in rows, a.run = r, NEW b \in new PROVE a.sched # b.sched
    BY <1>0, <1>1, <1>4, <1>5, <2>2
  <2>3. \A a, b \in rows : a.run = r /\ b.run = r /\ a.sched = b.sched => a = b
    BY DEF Booked, RowsBooked
  <2> QED
    BY <2>1, <2>2, <2>3 DEF RowsBooked, RowsFor
<1>7. ASSUME NEW j \in DOMAIN h2, h2[j].type \in O
      PROVE  j \in DOMAIN h /\ h[j] = h2[j]
  BY <1>1, <1>3, <1>7 DEF NoneOf
<1>8. OutcomesBooked(r, h2, rows \cup new, S, O)
  <2> SUFFICES ASSUME NEW j \in DOMAIN h2, h2[j].type \in O
               PROVE  LET i == h2[j].ref
                      IN  /\ i \in DOMAIN h2 /\ i < j /\ h2[i].type = S
                          /\ h2[i].id = h2[j].id
                          /\ \A a \in rows \cup new : ~(a.run = r /\ a.sched = i)
                          /\ \A k \in DOMAIN h2 :
                                h2[k].type \in O /\ h2[k].ref = i => k = j
    BY DEF OutcomesBooked
  <2> DEFINE i == h2[j].ref
  <2>1. j \in DOMAIN h /\ h[j] = h2[j]
    BY <1>7
  <2>2. /\ i \in DOMAIN h /\ i < j /\ h[i].type = S /\ h[i].id = h[j].id
        /\ \A a \in rows : ~(a.run = r /\ a.sched = i)
        /\ \A k \in DOMAIN h : h[k].type \in O /\ h[k].ref = i => k = j
    BY <2>1 DEF Booked, OutcomesBooked
  <2> HIDE DEF i
  <2>3. \A b \in new : b.sched # i
    BY <1>0, <1>1, <1>4, <2>2
  <2>4. i \in DOMAIN h2 /\ h2[i] = h[i]
    BY <1>1, <2>2
  <2>5. \A k \in DOMAIN h2 : h2[k].type \in O /\ h2[k].ref = i => k = j
    BY <1>7, <2>2
  <2> QED
    BY <2>1, <2>2, <2>3, <2>4, <2>5 DEF i
<1>9. WorkBooked(r, h2, rows \cup new, S, O)
  <2> SUFFICES ASSUME NEW i \in DOMAIN h2, h2[i].type = S
               PROVE  \/ \E a \in rows \cup new : a.run = r /\ a.sched = i
                      \/ \E j \in DOMAIN h2 : h2[j].type \in O /\ h2[j].ref = i
    BY DEF WorkBooked
  <2>1. CASE i \in DOMAIN h
    <3>1. \/ \E a \in rows : a.run = r /\ a.sched = i
          \/ \E j \in DOMAIN h : h[j].type \in O /\ h[j].ref = i
      BY <1>1, <2>1 DEF Booked, WorkBooked
    <3> QED
      BY <1>1, <3>1
  <2>2. CASE i \notin DOMAIN h
    <3>1. PICK k \in 1 .. Len(evs) : i = n + k - 1 /\ h2[i] = evs[k]
      BY <1>3, <2>2
    <3>2. PICK b \in new : b.sched = n + k - 1
      BY <3>1 DEF RowsFor
    <3> QED
      BY <1>4, <3>1, <3>2
  <2> QED
    BY <2>1, <2>2
<1> QED
  BY <1>6, <1>8, <1>9 DEF Booked

LEMMA NeutralBooked ==
    ASSUME NEW r, NEW h, NEW rows, NEW S, NEW O, S \notin O, Booked(r, h, rows, S, O),
           NEW n, NEW evs, NEW h2, Len(evs) \in Nat, Appended(h, n, evs, h2),
           NoneOf(evs, O \cup {S})
    PROVE  Booked(r, h2, rows, S, O)
<1>1. NoneOf(evs, O) /\ RowsFor(r, n, evs, S, {})
  BY DEF NoneOf, RowsFor
<1>2. Booked(r, h2, rows \cup {}, S, O)
  BY <1>1, ScheduleBooked
<1>3. rows \cup {} = rows
  OBVIOUS
<1> QED
  BY <1>2, <1>3

(* The outcome of queued work is appended and its row deleted.             *)
LEMMA OutcomeBooked ==
    ASSUME NEW r, NEW h, NEW rows, NEW S, NEW O, S \notin O, Booked(r, h, rows, S, O),
           NEW n, NEW evs, NEW h2, Len(evs) = 2, Appended(h, n, evs, h2),
           NEW old \in rows, old.run = r,
           evs[1].type \in O, evs[1].ref = old.sched, evs[1].id = old.id,
           evs[2].type \notin O \cup {S}
    PROVE  Booked(r, h2, rows \ {old}, S, O)
<1> DEFINE at == old.sched
<1>0. n \in Nat \ {0} /\ DOMAIN h = 1 .. (n - 1) /\ DOMAIN h2 = 1 .. (n + 1)
  BY DEF Appended
<1>1. ASSUME NEW i \in DOMAIN h
      PROVE  i \in DOMAIN h2 /\ h2[i] = h[i] /\ i < n /\ i \in Nat
  BY <1>0, <1>1 DEF Appended
<1>2. n \in DOMAIN h2 /\ h2[n] = evs[1] /\ h2[n + 1] = evs[2] /\ n \notin DOMAIN h
  <2>1. 1 \in 1 .. Len(evs) /\ 2 \in 1 .. Len(evs)
    OBVIOUS
  <2>2. h2[n + 1 - 1] = evs[1] /\ h2[n + 2 - 1] = evs[2]
    BY <2>1 DEF Appended
  <2>3. n + 1 - 1 = n /\ n + 2 - 1 = n + 1
    BY <1>0
  <2> QED
    BY <1>0, <2>2, <2>3
<1>3. \A i \in DOMAIN h2 : i \in DOMAIN h \/ i = n \/ i = n + 1
  BY <1>0
<1>4. at \in DOMAIN h /\ h[at].type = S /\ h[at].id = old.id
  BY DEF Booked, RowsBooked
<1>5. \A a \in rows : a.run = r /\ a.sched = at => a = old
  BY DEF Booked, RowsBooked
<1>6. \A j \in DOMAIN h : h[j].type \in O => h[j].ref # at
  BY DEF Booked, OutcomesBooked
<1> HIDE DEF at
<1>7. RowsBooked(r, h2, rows \ {old}, S)
  BY <1>1 DEF Booked, RowsBooked
<1>8. ASSUME NEW j \in DOMAIN h2, h2[j].type \in O
      PROVE  j = n \/ (j \in DOMAIN h /\ h[j] = h2[j])
  BY <1>1, <1>2, <1>3, <1>8
<1>9. evs[1].ref = at /\ evs[1].id = h[at].id
  BY <1>4 DEF at
<1>10. OutcomesBooked(r, h2, rows \ {old}, S, O)
  <2> SUFFICES ASSUME NEW j \in DOMAIN h2, h2[j].type \in O
               PROVE  LET i == h2[j].ref
                      IN  /\ i \in DOMAIN h2 /\ i < j /\ h2[i].type = S
                          /\ h2[i].id = h2[j].id
                          /\ \A a \in rows \ {old} : ~(a.run = r /\ a.sched = i)
                          /\ \A k \in DOMAIN h2 :
                                h2[k].type \in O /\ h2[k].ref = i => k = j
    BY DEF OutcomesBooked
  <2> DEFINE i == h2[j].ref
  <2>1. CASE j = n
    <3>1. i = at
      BY <1>2, <1>9, <2>1
    <3>2. at \in DOMAIN h2 /\ at < n /\ h2[at] = h[at]
      BY <1>1, <1>4
    <3>3. \A k \in DOMAIN h2 : h2[k].type \in O /\ h2[k].ref = at => k = n
      BY <1>6, <1>8
    <3> QED
      BY <1>2, <1>4, <1>5, <1>9, <2>1, <3>1, <3>2, <3>3
  <2>2. CASE j # n
    <3>1. j \in DOMAIN h /\ h[j] = h2[j]
      BY <1>8, <2>2
    <3>2. /\ i \in DOMAIN h /\ i < j /\ h[i].type = S /\ h[i].id = h[j].id
          /\ \A a \in rows : ~(a.run = r /\ a.sched = i)
          /\ \A k \in DOMAIN h : h[k].type \in O /\ h[k].ref = i => k = j
      BY <3>1 DEF Booked, OutcomesBooked
    <3>3. i # at
      BY <1>6, <3>1
    <3> HIDE DEF i
    <3>4. i \in DOMAIN h2 /\ h2[i] = h[i]
      BY <1>1, <3>2
    <3>5. \A k \in DOMAIN h2 : h2[k].type \in O /\ h2[k].ref = i => k = j
      BY <1>2, <1>8, <1>9, <3>2, <3>3
    <3> QED
      BY <3>1, <3>2, <3>4, <3>5 DEF i
  <2> QED
    BY <2>1, <2>2
<1>11. WorkBooked(r, h2, rows \ {old}, S, O)
  <2> SUFFICES ASSUME NEW i \in DOMAIN h2, h2[i].type = S
               PROVE  \/ \E a \in rows \ {old} : a.run = r /\ a.sched = i
                      \/ \E j \in DOMAIN h2 : h2[j].type \in O /\ h2[j].ref = i
    BY DEF WorkBooked
  <2>1. i \in DOMAIN h /\ h[i].type = S
    BY <1>1, <1>2, <1>3
  <2>2. \/ \E a \in rows : a.run = r /\ a.sched = i
        \/ \E j \in DOMAIN h : h[j].type \in O /\ h[j].ref = i
    BY <2>1 DEF Booked, WorkBooked
  <2>3. CASE i = at
    BY <1>2, <1>9, <2>3
  <2>4. CASE i # at
    BY <1>1, <2>2, <2>4 DEF at
  <2> QED
    BY <2>3, <2>4
<1> QED
  BY <1>7, <1>10, <1>11 DEF Booked

-----------------------------------------------------------------------------
(* The engine's books.                                                     *)

ActsBooked(r) == Booked(r, history[r], acts, "ActivityTaskScheduled", ActivityOutcomes)
TimersBooked(r) == Booked(r, history[r], timers, "TimerStarted", {"TimerFired"})

BooksInv == \A r \in Run : ActsBooked(r) /\ TimersBooked(r)

BookTypes == {"ActivityTaskScheduled", "TimerStarted", "TimerFired"} \cup ActivityOutcomes

(* A row an answer or the timer firer has deleted is there, for everybody  *)
(* else, until the transaction commits, and only one has deleted it.       *)
WorkLocks ==
    /\ \A p \in Proc : tx[p].op = "wake" => tx[p].act \subseteq acts
                                            /\ tx[p].timer \subseteq timers
    /\ \A p, q \in Proc :
          tx[p].op = "wake" /\ tx[q].op = "wake" /\ p # q
          => tx[p].act \cap tx[q].act = {} /\ tx[p].timer \cap tx[q].timer = {}

(* The events a step appends to a run, if any, are of no interest here.    *)
Neutral(h, h2) ==
    \/ h2 = h
    \/ \E n, evs : /\ Len(evs) \in Nat /\ Appended(h, n, evs, h2)
                   /\ NoneOf(evs, BookTypes)

BooksQuiet ==
    UNCHANGED <<acts, timers>> /\ \A r \in Run : Neutral(history[r], history'[r])

(* Dispatch, retry and reaping rewrite an activity row in place.           *)
ActUpdate ==
    /\ UNCHANGED <<history, timers>>
    /\ \E row \in acts \ LockedActs : \E new :
          /\ new.run = row.run /\ new.sched = row.sched /\ new.id = row.id
          /\ acts' = (acts \ {row}) \cup {new}

LEMMA NeutralOne ==
    ASSUME NEW r \in Run, NEW ev, Extended(r, <<ev>>), Untouched({r}),
           ev.type \notin BookTypes
    PROVE  \A q \in Run : Neutral(history[q], history'[q])
<1> DEFINE evs == <<ev>>
<1>1. Len(evs) \in Nat /\ NoneOf(evs, BookTypes)
  BY DEF NoneOf
<1>2. Appended(history[r], exec[r].next, evs, history'[r])
  BY DEF Extended
<1> HIDE DEF evs
<1> QED
  BY <1>1, <1>2 DEF Neutral, Untouched

LEMMA NeutralCreated ==
    ASSUME NEW r \in Run, NEW from, Created(r, from)
    PROVE  Neutral(history[r], history'[r])
<1> DEFINE evs == <<Ev("WorkflowExecutionStarted", 0, from),
                    Ev("WorkflowTaskScheduled", 0, 0)>>
<1>1. Len(evs) = 2 /\ evs[1].type \notin BookTypes /\ evs[2].type \notin BookTypes
  BY EvFields DEF BookTypes, ActivityOutcomes
<1>2. history'[r][1] = evs[1] /\ history'[r][2] = evs[2]
  BY DEF Created
<1>3. DOMAIN history[r] = {} /\ DOMAIN history'[r] = 1 .. 2
  BY DEF Created
<1> HIDE DEF evs
<1>4. 1 .. (1 - 1) = {} /\ 1 .. (1 + 2 - 1) = 1 .. 2
  OBVIOUS
<1>5. \A k \in 1 .. 2 : (k = 1 \/ k = 2) /\ 1 + k - 1 = k
  OBVIOUS
<1>6. Appended(history[r], 1, evs, history'[r])
  BY <1>1, <1>2, <1>3, <1>4, <1>5 DEF Appended
<1>7. NoneOf(evs, BookTypes)
  BY <1>1, <1>5 DEF NoneOf
<1> QED
  BY <1>1, <1>6, <1>7 DEF Neutral

(* A response that continues as new schedules nothing.                     *)
LEMMA NeutralContinue ==
    ASSUME LogInv, NEW p \in Proc, CommitContinueAsNew(p)
    PROVE  \A q \in Run : Neutral(history[q], history'[q])
<1> DEFINE t == tx[p]
           r == t.row.run
<1>1. PICK n \in Run :
         /\ Created(n, r) /\ Extended(r, CommandEvents(t.cmds, n)) /\ Untouched({r, n})
  BY ContinueExtends
<1> DEFINE evs == CommandEvents(t.cmds, n)
<1>2. t.cmds \in Seq(Command)
  BY TxWfComplete DEF CommitContinueAsNew, LogInv, TypeOK
<1>3. Indices(t.cmds, {"ScheduleActivityTask", "StartTimer"}) = {}
  BY DEF CommitContinueAsNew, Acceptable
<1>4. ASSUME NEW k \in 1 .. Len(evs) PROVE evs[k].type \notin BookTypes
  <2>1. CASE k = 1
    BY <1>2, <2>1, ResponseEvents, EvFields DEF BookTypes, ActivityOutcomes
  <2>2. CASE k # 1
    <3>1. /\ k - 1 \in DOMAIN t.cmds /\ t.cmds[k - 1] \in Command
          /\ evs[k] = CommandEvent(t.cmds[k - 1], n)
      BY <1>2, <1>4, <2>2, ResponseTypes
    <3>2. t.cmds[k - 1].kind \in CommandKinds \ {"ScheduleActivityTask", "StartTimer"}
      BY <1>3, <3>1 DEF Indices, Command
    <3> QED
      BY <3>1, <3>2, CommandEventIs, EvFields
         DEF CommandKinds, BookTypes, ActivityOutcomes
  <2> QED
    BY <2>1, <2>2
<1>5. Len(evs) \in Nat /\ Appended(history[r], exec[r].next, evs, history'[r])
  BY <1>1, <1>2, ResponseEvents DEF Extended
<1> HIDE DEF evs
<1>6. Neutral(history[r], history'[r])
  BY <1>4, <1>5 DEF Neutral, NoneOf
<1>7. Neutral(history[n], history'[n])
  BY <1>1, NeutralCreated
<1> QED
  BY <1>1, <1>6, <1>7 DEF Neutral, Untouched

LEMMA ActKey ==
    ASSUME NEW row \in ActRow
    PROVE  /\ Leased(row).run = row.run /\ Leased(row).sched = row.sched
           /\ Leased(row).id = row.id
           /\ LET new == [row EXCEPT !.status = "PENDING"]
              IN  new.run = row.run /\ new.sched = row.sched /\ new.id = row.id
           /\ LET new == [row EXCEPT !.status = "PENDING", !.attempt = @ + 1]
              IN  new.run = row.run /\ new.sched = row.sched /\ new.id = row.id
BY DEF ActRow, Leased

LEMMA UpdateSteps ==
    ASSUME TypeOK,
           \/ \E p \in Proc : RetryActivityTask(p) \/ DispatchActivityTask(p)
           \/ ReapActivityTask
    PROVE  ActUpdate
<1>1. ASSUME NEW row \in acts \ LockedActs, NEW new,
             new \in {Leased(row), [row EXCEPT !.status = "PENDING"],
                      [row EXCEPT !.status = "PENDING", !.attempt = @ + 1]},
             acts' = (acts \ {row}) \cup {new}, UNCHANGED <<history, timers>>
      PROVE  ActUpdate
  BY <1>1, ActKey DEF ActUpdate, TypeOK
<1>2. ASSUME NEW p \in Proc, RetryActivityTask(p) PROVE ActUpdate
  BY <1>1, <1>2 DEF RetryActivityTask
<1>3. ASSUME NEW p \in Proc, DispatchActivityTask(p) PROVE ActUpdate
  BY <1>1, <1>3 DEF DispatchActivityTask
<1>4. ASSUME ReapActivityTask PROVE ActUpdate
  BY <1>1, <1>4 DEF ReapActivityTask
<1> QED
  BY <1>2, <1>3, <1>4

LEMMA BooksStep ==
    ASSUME LogInv, [Next]_vars
    PROVE  \/ BooksQuiet \/ ActUpdate
           \/ \E p \in Call \cup Proc : CommitWake(p)
           \/ \E p \in Proc : CommitWorkflowTask(p)
<1>0. TypeOK
  BY DEF LogInv
<1>1. ASSUME UNCHANGED <<history, acts, timers>> PROVE BooksQuiet
  BY <1>1 DEF BooksQuiet, Neutral
<1>2. ASSUME NEW c \in Call, StartFirst(c) \/ StartReplacing(c) PROVE BooksQuiet
  <2>1. PICK r \in Run : Created(r, NoRun) /\ Untouched({r})
    BY <1>2, StartCreates
  <2>2. Neutral(history[r], history'[r]) /\ UNCHANGED <<acts, timers>>
    BY <1>2, <2>1, NeutralCreated DEF StartFirst, StartReplacing
  <2> QED
    BY <2>1, <2>2 DEF BooksQuiet, Neutral, Untouched
<1>3. ASSUME NEW c \in Call, CommitTerminate(c) PROVE BooksQuiet
  <2> DEFINE ev == Ev("WorkflowExecutionTerminated", c.id, 0)
  <2>1. Extended(tx[c].run, <<ev>>) /\ Untouched({tx[c].run})
    BY <1>3, TerminateExtends
  <2>2. ev.type \notin BookTypes /\ tx[c].run \in Run
    BY <2>1, EvFields DEF BookTypes, ActivityOutcomes, Extended
  <2> HIDE DEF ev
  <2>3. \A q \in Run : Neutral(history[q], history'[q])
    BY <2>1, <2>2, NeutralOne
  <2> QED
    BY <1>3, <2>3 DEF BooksQuiet, CommitTerminate
<1>4. ASSUME NEW c \in Call, CallStep(c) PROVE BooksQuiet \/ CommitWake(c)
  BY <1>1, <1>2, <1>3, <1>4 DEF CallStep, StartOnExisting, SignalWorkflowExecution,
       RequestCancelWorkflowExecution, RetryOnConflict,
       TerminateWorkflowExecution, ConflictedTerminate, tables
<1>5. ASSUME NEW p \in Proc, RecordWorkflowTaskStarted(p) \/ RecordActivityTaskStarted(p)
      PROVE  BooksQuiet
  <2>1. PICK r \in Run, ev \in Event :
           /\ ev.type \in {"WorkflowTaskStarted", "ActivityTaskStarted"}
           /\ Extended(r, <<ev>>) /\ Untouched({r})
    BY <1>5, StartedExtends DEF StartedStep
  <2>2. ev.type \notin BookTypes
    BY <2>1 DEF BookTypes, ActivityOutcomes
  <2>3. \A q \in Run : Neutral(history[q], history'[q])
    BY <2>1, <2>2, NeutralOne
  <2> QED
    BY <1>5, <2>3 DEF BooksQuiet, RecordWorkflowTaskStarted, RecordActivityTaskStarted
<1>6. ASSUME NEW p \in Proc, CommitContinueAsNew(p) PROVE BooksQuiet
  BY <1>6, NeutralContinue DEF BooksQuiet, CommitContinueAsNew
<1>7. ASSUME NEW p \in Proc, ProcStep(p)
      PROVE  BooksQuiet \/ ActUpdate \/ CommitWake(p) \/ CommitWorkflowTask(p)
  <2>1. ASSUME \/ FireDueTimer(p) \/ CompleteActivityTask(p) \/ FailActivityTask(p)
               \/ \E w \in Worker : DispatchWorkflowTask(p, w)
               \/ BeginWorkflowTaskStarted(p) \/ DeliverWorkflowTask(p)
               \/ CompleteWorkflowTask(p) \/ RejectWorkflowTask(p)
        PROVE  BooksQuiet
    BY <1>1, <2>1 DEF FireDueTimer, CompleteActivityTask, FailActivityTask,
         DispatchWorkflowTask, BeginWorkflowTaskStarted, DeliverWorkflowTask,
         CompleteWorkflowTask, RejectWorkflowTask, tables
  <2>2. ASSUME \/ FailWorkflowTask(p) \/ FailClearSticky(p) \/ FailEnqueue(p)
               \/ BeginActivityTaskStarted(p) \/ AbortOnConflict(p)
        PROVE  BooksQuiet
    BY <1>1, <2>2 DEF FailWorkflowTask, FailClearSticky, FailEnqueue,
         BeginActivityTaskStarted, AbortOnConflict, tables
  <2> QED
    BY <1>0, <1>5, <1>6, <1>7, <2>1, <2>2, UpdateSteps DEF ProcStep
<1>8. ASSUME \/ \E p \in Call \cup Proc : Crash(p)
             \/ ReapWorkflowTask \/ StickyRegistrationLapses
             \/ StickyDeadlinePasses \/ UNCHANGED vars
      PROVE  BooksQuiet
  BY <1>1, <1>8 DEF Crash, ReapWorkflowTask, StickyRegistrationLapses,
       StickyDeadlinePasses, vars, tables
<1> QED
  BY <1>0, <1>4, <1>7, <1>8, UpdateSteps DEF Next

-----------------------------------------------------------------------------
(* The locks.                                                              *)

NoNewWake == \A q \in Proc : tx'[q].op = "wake" => tx'[q] = tx[q]

(* What the two halves of TxInv say of a wake transaction's rows.          *)
LEMMA WakeRows ==
    ASSUME TxInv, NEW p \in Call \cup Proc, tx[p].op = "wake"
    PROVE  \/ p \in Call /\ CallWake(p, tx[p])
           \/ p \in Proc /\ \E row \in ActRow : ActWake(tx[p], row)
           \/ p \in Proc /\ \E tm \in TimerRow : TimerWake(tx[p], tm)
BY DEF TxInv, TxOf

LEMMA SetNoWake ==
    ASSUME TypeOK, NEW p \in Proc, NEW t, Set(p, t), t.op # "wake"
    PROVE  NoNewWake
BY SetIs DEF NoNewWake

BeginWake(p) == FireDueTimer(p) \/ CompleteActivityTask(p) \/ FailActivityTask(p)

LEMMA NewWakeOnly ==
    ASSUME TypeOK, [Next]_vars
    PROVE  NoNewWake \/ \E p \in Proc : BeginWake(p)
<1>1. ASSUME NEW p \in Proc, \/ \E t : Set(p, t) /\ t.op # "wake"
                             \/ UNCHANGED tx
      PROVE  NoNewWake
  BY <1>1, SetNoWake DEF NoNewWake
<1>2. Idle.op # "wake"
  BY DEF Idle
<1>3. ASSUME NEW p \in Proc, ProcStep(p), ~BeginWake(p) PROVE NoNewWake
  <2>1. CASE \/ RejectWorkflowTask(p) \/ RecordActivityTaskStarted(p)
             \/ AbortOnConflict(p) \/ FailEnqueue(p) \/ DeliverWorkflowTask(p)
             \/ CommitWorkflowTask(p) \/ CommitContinueAsNew(p)
    <3>1. Set(p, Idle)
      BY <2>1 DEF RejectWorkflowTask, RecordActivityTaskStarted, AbortOnConflict,
           FailEnqueue, DeliverWorkflowTask, CommitWorkflowTask, CommitContinueAsNew
    <3> QED
      BY <1>1, <1>2, <3>1
  <2>2. CASE CommitWake(p) \/ RetryActivityTask(p)
    <3>1. Set(p, Idle) \/ UNCHANGED tx
      BY <2>2, ConstantsAssumption DEF CommitWake, RetryActivityTask
    <3> QED
      BY <1>1, <1>2, <3>1
  <2>3. ASSUME NEW w \in Worker, DispatchWorkflowTask(p, w) PROVE NoNewWake
    <3>1. PICK row :
             Set(p, [op |-> "wfdequeued", task |-> row.id,
                     lease |-> Leased(row).lease, worker |-> w, run |-> row.run])
      BY <2>3 DEF DispatchWorkflowTask
    <3> DEFINE t == [op |-> "wfdequeued", task |-> row.id,
                     lease |-> Leased(row).lease, worker |-> w, run |-> row.run]
    <3>2. t.op # "wake"
      OBVIOUS
    <3> HIDE DEF t
    <3> QED
      BY <3>1, <3>2, SetNoWake DEF t
  <2>4. CASE BeginWorkflowTaskStarted(p)
    <3> DEFINE t == [op |-> "wfstart", task |-> tx[p].task, lease |-> tx[p].lease,
                     worker |-> tx[p].worker, run |-> tx[p].run,
                     expect |-> exec[tx[p].run].next]
    <3>1. Set(p, t)
      BY <2>4 DEF BeginWorkflowTaskStarted
    <3>2. t.op # "wake"
      OBVIOUS
    <3> HIDE DEF t
    <3> QED
      BY <3>1, <3>2, SetNoWake
  <2>5. CASE RecordWorkflowTaskStarted(p)
    <3> DEFINE t == [op |-> "wflist", task |-> tx[p].task, lease |-> tx[p].lease,
                     worker |-> tx[p].worker, run |-> tx[p].run]
    <3>1. Set(p, t)
      BY <2>5 DEF RecordWorkflowTaskStarted
    <3>2. t.op # "wake"
      OBVIOUS
    <3> HIDE DEF t
    <3> QED
      BY <3>1, <3>2, SetNoWake
  <2>6. CASE CompleteWorkflowTask(p)
    <3>1. PICK row, cmds, tok :
             Set(p, [op |-> "wfcomplete", row |-> row, expect |-> exec[row.run].next,
                     cmds |-> cmds, token |-> tok])
      BY <2>6 DEF CompleteWorkflowTask
    <3> DEFINE t == [op |-> "wfcomplete", row |-> row, expect |-> exec[row.run].next,
                     cmds |-> cmds, token |-> tok]
    <3>2. t.op # "wake"
      OBVIOUS
    <3> HIDE DEF t
    <3> QED
      BY <3>1, <3>2, SetNoWake DEF t
  <2>7. CASE FailWorkflowTask(p)
    <3>1. PICK row : Set(p, [op |-> "wffail", run |-> row.run, cleared |-> FALSE])
      BY <2>7 DEF FailWorkflowTask
    <3> DEFINE t == [op |-> "wffail", run |-> row.run, cleared |-> FALSE]
    <3>2. t.op # "wake"
      OBVIOUS
    <3> HIDE DEF t
    <3> QED
      BY <3>1, <3>2, SetNoWake DEF t
  <2>8. CASE FailClearSticky(p)
    <3> DEFINE t == [tx[p] EXCEPT !.cleared = TRUE]
    <3>1. Set(p, t) /\ tx[p].op = "wffail" /\ tx[p] \in Tx
      BY <2>8 DEF FailClearSticky, TypeOK
    <3>2. t.op # "wake"
      BY <3>1 DEF Tx
    <3> HIDE DEF t
    <3> QED
      BY <3>1, <3>2, SetNoWake
  <2>9. CASE DispatchActivityTask(p)
    <3>1. PICK row : Set(p, [op |-> "actdequeued", row |-> Leased(row)])
      BY <2>9 DEF DispatchActivityTask
    <3> DEFINE t == [op |-> "actdequeued", row |-> Leased(row)]
    <3>2. t.op # "wake"
      OBVIOUS
    <3> HIDE DEF t
    <3> QED
      BY <3>1, <3>2, SetNoWake DEF t
  <2>10. CASE BeginActivityTaskStarted(p)
    <3> DEFINE t == [op |-> "actstart", row |-> tx[p].row,
                     expect |-> exec[tx[p].row.run].next]
    <3>1. Set(p, t)
      BY <2>10 DEF BeginActivityTaskStarted
    <3>2. t.op # "wake"
      OBVIOUS
    <3> HIDE DEF t
    <3> QED
      BY <3>1, <3>2, SetNoWake
  <2> QED
    BY <1>3, <2>1, <2>2, <2>3, <2>4, <2>5, <2>6, <2>7, <2>8, <2>9, <2>10
       DEF ProcStep, BeginWake
<1>4. ASSUME NEW c \in Call, CallStep(c) \/ Crash(c) PROVE NoNewWake
  BY <1>4, CallCalm DEF NoNewWake
<1>5. ASSUME NEW p \in Proc, Crash(p) PROVE NoNewWake
  <2>1. Set(p, Idle)
    BY <1>5, ConstantsAssumption DEF Crash
  <2> QED
    BY <1>2, <2>1, SetNoWake
<1>6. ASSUME \/ ReapWorkflowTask \/ ReapActivityTask \/ StickyRegistrationLapses
             \/ StickyDeadlinePasses \/ UNCHANGED vars
      PROVE  NoNewWake
  BY <1>6, NobodysStep DEF NoNewWake
<1> QED
  BY <1>3, <1>4, <1>5, <1>6 DEF Next

LEMMA LocksKept ==
    ASSUME WorkLocks, NoNewWake,
           \A q \in Proc : tx'[q].op = "wake" =>
              tx[q].act \subseteq acts' /\ tx[q].timer \subseteq timers'
    PROVE  WorkLocks'
BY DEF WorkLocks, NoNewWake

LEMMA NotLockedWork ==
    ASSUME NEW q \in Proc, tx[q].op = "wake"
    PROVE  tx[q].act \subseteq LockedActs /\ tx[q].timer \subseteq LockedTimers
BY DEF LockedActs, LockedTimers

(* A transaction begins by locking a row nobody else has locked.           *)
LEMMA BeginLocks ==
    ASSUME TypeOK, WorkLocks, NEW p \in Proc, BeginWake(p)
    PROVE  WorkLocks'
<1>1. \E r, ev, act, timer :
         /\ Set(p, Wake(r, ev, act, timer, 0))
         /\ act \subseteq acts \ LockedActs /\ timer \subseteq timers \ LockedTimers
  <2>1. CASE FireDueTimer(p)
    <3>1. PICK tm \in timers \ LockedTimers :
             Set(p, Wake(tm.run, Ev("TimerFired", tm.id, tm.sched), {}, {tm}, 0))
      BY <2>1 DEF FireDueTimer
    <3>2. {} \subseteq acts \ LockedActs /\ {tm} \subseteq timers \ LockedTimers
      BY <3>1
    <3> QED
      BY <3>1, <3>2
  <2>2. CASE CompleteActivityTask(p) \/ FailActivityTask(p)
    <3>1. PICK row \in acts \ LockedActs : \E ev : Set(p, Wake(row.run, ev, {row}, {}, 0))
      BY <2>2 DEF CompleteActivityTask, FailActivityTask
    <3>2. {row} \subseteq acts \ LockedActs /\ {} \subseteq timers \ LockedTimers
      BY <3>1
    <3> QED
      BY <3>1, <3>2
  <2> QED
    BY <2>1, <2>2 DEF BeginWake
<1>2. PICK r, ev, act, timer :
         /\ Set(p, Wake(r, ev, act, timer, 0))
         /\ act \subseteq acts \ LockedActs /\ timer \subseteq timers \ LockedTimers
  BY <1>1
<1> DEFINE t == Wake(r, ev, act, timer, 0)
<1>3. t.op = "wake" /\ t.act = act /\ t.timer = timer
  BY WakeFields
<1>4. tx'[p] = t /\ \A q \in Proc : q # p => tx'[q] = tx[q]
  BY <1>2, SetIs
<1>5. UNCHANGED <<acts, timers>>
  BY DEF BeginWake, FireDueTimer, CompleteActivityTask, FailActivityTask, tables
<1> HIDE DEF t
<1>6. ASSUME NEW q \in Proc, q # p, tx'[q].op = "wake"
      PROVE  /\ tx'[q].act \cap t.act = {} /\ tx'[q].timer \cap t.timer = {}
             /\ tx'[q].act \subseteq acts' /\ tx'[q].timer \subseteq timers'
  BY <1>2, <1>3, <1>4, <1>5, <1>6, NotLockedWork DEF WorkLocks
<1>7. t.act \subseteq acts' /\ t.timer \subseteq timers'
  BY <1>2, <1>3, <1>5
<1>8. \A q \in Proc : tx'[q].op = "wake" =>
         tx'[q].act \subseteq acts' /\ tx'[q].timer \subseteq timers'
  BY <1>4, <1>6, <1>7
<1>9. ASSUME NEW q \in Proc, NEW s \in Proc, q # s, tx'[q].op = "wake",
             tx'[s].op = "wake"
      PROVE  tx'[q].act \cap tx'[s].act = {} /\ tx'[q].timer \cap tx'[s].timer = {}
  <2>1. CASE q = p
    BY <1>4, <1>6, <1>9, <2>1
  <2>2. CASE s = p
    BY <1>4, <1>6, <1>9, <2>2
  <2>3. CASE q # p /\ s # p
    BY <1>4, <1>9, <2>3 DEF WorkLocks
  <2> QED
    BY <2>1, <2>2, <2>3
<1> QED
  BY <1>8, <1>9 DEF WorkLocks

LEMMA WorkLocksStep ==
    ASSUME LogInv, TxInv, WorkLocks, [Next]_vars
    PROVE  WorkLocks'
<1>0. TypeOK
  BY DEF LogInv
<1>1. ASSUME NEW p \in Proc, BeginWake(p) PROVE WorkLocks'
  BY <1>0, <1>1, BeginLocks
<1>2. ASSUME NoNewWake, BooksQuiet PROVE WorkLocks'
  BY <1>2, LocksKept DEF BooksQuiet, WorkLocks, NoNewWake
<1>3. ASSUME NoNewWake, ActUpdate PROVE WorkLocks'
  <2>1. PICK row \in acts \ LockedActs : \E new : acts' = (acts \ {row}) \cup {new}
    BY <1>3 DEF ActUpdate
  <2>2. ASSUME NEW q \in Proc, tx[q].op = "wake"
        PROVE  tx[q].act \subseteq acts' /\ tx[q].timer \subseteq timers'
    BY <1>3, <2>1, <2>2, NotLockedWork DEF WorkLocks, ActUpdate
  <2> QED
    BY <1>3, <2>2, LocksKept DEF NoNewWake
<1>4. ASSUME NoNewWake, NEW p \in Proc, CommitWorkflowTask(p) PROVE WorkLocks'
  <2>1. acts \subseteq acts' /\ timers \subseteq timers'
    BY <1>4 DEF CommitWorkflowTask
  <2>2. ASSUME NEW q \in Proc, tx[q].op = "wake"
        PROVE  tx[q].act \subseteq acts' /\ tx[q].timer \subseteq timers'
    BY <2>1, <2>2 DEF WorkLocks
  <2> QED
    BY <1>4, <2>2, LocksKept DEF NoNewWake
<1>5. ASSUME NoNewWake, NEW p \in Call \cup Proc, CommitWake(p) PROVE WorkLocks'
  <2>1. /\ acts' = acts \ tx[p].act /\ timers' = timers \ tx[p].timer
        /\ tx[p].op = "wake"
    BY <1>5 DEF CommitWake
  <2>2. CASE p \in Call
    <3>1. tx[p].act = {} /\ tx[p].timer = {}
      BY <2>1, <2>2 DEF TxInv, TxOf, CallWake
    <3>2. ASSUME NEW q \in Proc, tx[q].op = "wake"
          PROVE  tx[q].act \subseteq acts' /\ tx[q].timer \subseteq timers'
      BY <2>1, <3>1, <3>2 DEF WorkLocks
    <3> QED
      BY <1>5, <3>2, LocksKept DEF NoNewWake
  <2>3. CASE p \in Proc
    <3>1. Set(p, Idle)
      BY <1>5, <2>3, ConstantsAssumption DEF CommitWake
    <3>2. tx'[p].op # "wake"
      BY <1>0, <2>3, <3>1, SetIs DEF Idle
    <3>3. ASSUME NEW q \in Proc, tx'[q].op = "wake"
          PROVE  tx[q].act \subseteq acts' /\ tx[q].timer \subseteq timers'
      <4>1. q # p /\ tx[q].op = "wake"
        BY <1>5, <3>2, <3>3 DEF NoNewWake
      <4> QED
        BY <2>1, <2>3, <4>1 DEF WorkLocks
    <3> QED
      BY <1>5, <3>3, LocksKept
  <2> QED
    BY <2>2, <2>3
<1> QED
  BY <1>0, <1>1, <1>2, <1>3, <1>4, <1>5, BooksStep, NewWakeOnly

-----------------------------------------------------------------------------
(* The books.                                                              *)

LEMMA Kinds ==
    /\ "ActivityTaskScheduled" \notin ActivityOutcomes
    /\ "TimerStarted" \notin {"TimerFired"}
    /\ ActivityOutcomes \cup {"ActivityTaskScheduled"} \subseteq BookTypes
    /\ {"TimerFired"} \cup {"TimerStarted"} \subseteq BookTypes
BY DEF ActivityOutcomes, BookTypes

LEMMA NeutralKeepsBooks ==
    ASSUME NEW r, NEW h, NEW h2, NEW rows, NEW S, NEW O, S \notin O,
           O \cup {S} \subseteq BookTypes, Neutral(h, h2), Booked(r, h, rows, S, O)
    PROVE  Booked(r, h2, rows, S, O)
<1>1. CASE h2 = h
  BY <1>1
<1>2. ASSUME NEW n, NEW evs, Len(evs) \in Nat, Appended(h, n, evs, h2),
             NoneOf(evs, BookTypes)
      PROVE  Booked(r, h2, rows, S, O)
  <2>1. NoneOf(evs, O \cup {S})
    BY <1>2 DEF NoneOf
  <2> QED
    BY <1>2, <2>1, NeutralBooked
<1> QED
  BY <1>1, <1>2 DEF Neutral

(* A wake transaction's commit, for one of the two kinds of work: act is   *)
(* what it deletes of that kind.                                           *)
LEMMA WakeBooked ==
    ASSUME LogInv, NEW p \in Call \cup Proc, CommitWake(p), NEW r \in Run,
           NEW rows, NEW S, NEW O, S \notin O, O \cup {S} \subseteq BookTypes,
           Booked(r, history[r], rows, S, O), NEW act,
           \/ act = {} /\ tx[p].ev.type \notin O \cup {S}
           \/ \E old \in rows :
                 /\ act = {old} /\ old.run = tx[p].run /\ tx[p].ev.type \in O
                 /\ tx[p].ev.ref = old.sched /\ tx[p].ev.id = old.id
    PROVE  Booked(r, history'[r], rows \ act, S, O)
<1> DEFINE q == tx[p].run
           evs == WakeEvs(tx[p])
<1>1. Extended(q, evs) /\ Untouched({q})
  BY WakeExtends
<1>2. Len(evs) = 2 /\ evs[1] = tx[p].ev /\ evs[2].type = "WorkflowTaskScheduled"
  BY WakeEvsAre, EvFields
<1>3. evs[2].type \notin O \cup {S}
  BY <1>2 DEF BookTypes, ActivityOutcomes
<1> HIDE DEF evs
<1>4. CASE r # q
  <2>1. history'[r] = history[r]
    BY <1>1, <1>4 DEF Untouched
  <2>2. \A a : a.run = r => (a \in rows \ act <=> a \in rows)
    BY <1>4
  <2> QED
    BY <2>1, <2>2, SameRowsBooked
<1>5. CASE r = q
  <2>1. Appended(history[r], exec[r].next, evs, history'[r])
    BY <1>1, <1>5 DEF Extended
  <2>2. CASE act = {} /\ tx[p].ev.type \notin O \cup {S}
    <3>1. NoneOf(evs, O \cup {S})
      BY <1>2, <1>3, <2>2 DEF NoneOf
    <3>2. Booked(r, history'[r], rows, S, O)
      BY <1>2, <2>1, <3>1, NeutralBooked
    <3>3. rows \ act = rows
      BY <2>2
    <3> QED
      BY <3>2, <3>3
  <2>3. ASSUME NEW old \in rows, act = {old}, old.run = tx[p].run, tx[p].ev.type \in O,
               tx[p].ev.ref = old.sched, tx[p].ev.id = old.id
        PROVE  Booked(r, history'[r], rows \ act, S, O)
    <3>1. /\ evs[1].type \in O /\ evs[1].ref = old.sched /\ evs[1].id = old.id
          /\ old.run = r
      BY <1>2, <1>5, <2>3
    <3>2. Booked(r, history'[r], rows \ {old}, S, O)
      BY <1>2, <1>3, <2>1, <3>1, OutcomeBooked
    <3> QED
      BY <2>3, <3>2
  <2> QED
    BY <2>2, <2>3
<1> QED
  BY <1>4, <1>5

LEMMA CommitWakeBooks ==
    ASSUME LogInv, TxInv, WorkLocks, BooksInv, NEW p \in Call \cup Proc, CommitWake(p)
    PROVE  BooksInv'
<1> DEFINE t == tx[p]
<1>1. acts' = acts \ t.act /\ timers' = timers \ t.timer /\ t.op = "wake"
  BY DEF CommitWake
<1>2. /\ \/ t.act = {} /\ t.ev.type \notin ActivityOutcomes \cup {"ActivityTaskScheduled"}
         \/ \E old \in acts :
               /\ t.act = {old} /\ old.run = t.run /\ t.ev.type \in ActivityOutcomes
               /\ t.ev.ref = old.sched /\ t.ev.id = old.id
      /\ \/ t.timer = {} /\ t.ev.type \notin {"TimerFired"} \cup {"TimerStarted"}
         \/ \E old \in timers :
               /\ t.timer = {old} /\ old.run = t.run /\ t.ev.type \in {"TimerFired"}
               /\ t.ev.ref = old.sched /\ t.ev.id = old.id
  <2>1. CASE p \in Call /\ CallWake(p, t)
    <3>1. t.act = {} /\ t.timer = {} /\ t.ev = CallEvent(p)
      BY <2>1 DEF CallWake
    <3>2. t.ev.type \in {"WorkflowExecutionSignaled", "WorkflowExecutionCancelRequested"}
      BY <3>1, EvFields DEF CallEvent
    <3> QED
      BY <3>1, <3>2 DEF ActivityOutcomes
  <2>2. ASSUME p \in Proc, NEW row \in ActRow, ActWake(t, row)
        PROVE  /\ \E old \in acts :
                    /\ t.act = {old} /\ old.run = t.run /\ t.ev.type \in ActivityOutcomes
                    /\ t.ev.ref = old.sched /\ t.ev.id = old.id
               /\ t.timer = {} /\ t.ev.type \notin {"TimerFired"} \cup {"TimerStarted"}
    <3>1. t.act = {row} /\ t.timer = {} /\ t.run = row.run
      BY <2>2 DEF ActWake
    <3>2. row \in acts
      BY <1>1, <2>2, <3>1 DEF WorkLocks
    <3>3. t.ev.type \in ActivityOutcomes /\ t.ev.ref = row.sched /\ t.ev.id = row.id
      BY <2>2, EvFields DEF ActWake
    <3> QED
      BY <3>1, <3>2, <3>3 DEF ActivityOutcomes
  <2>3. ASSUME p \in Proc, NEW tm \in TimerRow, TimerWake(t, tm)
        PROVE  /\ \E old \in timers :
                    /\ t.timer = {old} /\ old.run = t.run /\ t.ev.type \in {"TimerFired"}
                    /\ t.ev.ref = old.sched /\ t.ev.id = old.id
               /\ t.act = {}
               /\ t.ev.type \notin ActivityOutcomes \cup {"ActivityTaskScheduled"}
    <3>1. t.act = {} /\ t.timer = {tm} /\ t.run = tm.run
      BY <2>3 DEF TimerWake
    <3>2. tm \in timers
      BY <1>1, <2>3, <3>1 DEF WorkLocks
    <3>3. t.ev.type = "TimerFired" /\ t.ev.ref = tm.sched /\ t.ev.id = tm.id
      BY <2>3, EvFields DEF TimerWake
    <3> QED
      BY <3>1, <3>2, <3>3 DEF ActivityOutcomes
  <2> QED
    BY <1>1, <2>1, <2>2, <2>3, WakeRows
<1>3. ASSUME NEW r \in Run
      PROVE  /\ Booked(r, history'[r], acts', "ActivityTaskScheduled", ActivityOutcomes)
             /\ Booked(r, history'[r], timers', "TimerStarted", {"TimerFired"})
  <2>1. /\ Booked(r, history[r], acts, "ActivityTaskScheduled", ActivityOutcomes)
        /\ Booked(r, history[r], timers, "TimerStarted", {"TimerFired"})
    BY DEF BooksInv, ActsBooked, TimersBooked
  <2>2. Booked(r, history'[r], acts \ t.act, "ActivityTaskScheduled", ActivityOutcomes)
    BY <1>2, <2>1, Kinds, WakeBooked
  <2>3. Booked(r, history'[r], timers \ t.timer, "TimerStarted", {"TimerFired"})
    BY <1>2, <2>1, Kinds, WakeBooked
  <2> QED
    BY <1>1, <2>2, <2>3
<1> QED
  BY <1>3 DEF BooksInv, ActsBooked, TimersBooked, Booked, RowsBooked,
     OutcomesBooked, WorkBooked, ActivityOutcomes

(* The rows a response t adds for its commands of a kind.                  *)
WorkOf(t, kind, new) ==
    /\ \A b \in new : \E i \in Indices(t.cmds, {kind}) :
          b.run = t.row.run /\ b.sched = t.expect + i /\ b.id = t.cmds[i].id
    /\ \A i \in Indices(t.cmds, {kind}) : \E b \in new : b.sched = t.expect + i
    /\ \A b, c \in new : b.sched = c.sched => b = c

Announces(kind, S) ==
    \/ kind = "ScheduleActivityTask" /\ S = "ActivityTaskScheduled"
    \/ kind = "StartTimer" /\ S = "TimerStarted"

(* A response, for one of the two kinds of work.                           *)
LEMMA ResponseBooked ==
    ASSUME LogInv, NEW p \in Proc, CommitWorkflowTask(p), NEW q \in Run,
           NEW rows, NEW S, NEW O, S \notin O, O \subseteq WokenTypes,
           Booked(q, history[q], rows, S, O),
           NEW kind, Announces(kind, S), NEW new, WorkOf(tx[p], kind, new)
    PROVE  Booked(q, history'[q], rows \cup new, S, O)
<1> DEFINE t == tx[p]
           r == t.row.run
           evs == CommandEvents(t.cmds, NoRun)
           n == t.expect
<1>1. Extended(r, evs) /\ Untouched({r})
  BY ResponseExtends
<1>2. t.cmds \in Seq(Command) /\ n = exec[r].next /\ n \in Nat
  BY TxWfComplete DEF CommitWorkflowTask, LogInv, TypeOK, CAS
<1>3. Len(evs) \in Nat /\ DOMAIN t.cmds \subseteq Nat
  BY <1>2, ResponseEvents
<1>4. ASSUME NEW k \in 1 .. Len(evs)
      PROVE  /\ evs[k].type \notin O
             /\ evs[k].type = S => k - 1 \in Indices(t.cmds, {kind})
  <2>1. CASE k = 1
    <3>1. evs[k].type = "WorkflowTaskCompleted"
      BY <1>2, <2>1, ResponseEvents, EvFields
    <3> QED
      BY <3>1 DEF WokenTypes, Announces
  <2>2. CASE k # 1
    <3> DEFINE c == t.cmds[k - 1]
    <3>1. /\ k - 1 \in DOMAIN t.cmds /\ c \in Command
          /\ evs[k] = CommandEvent(c, NoRun) /\ evs[k].type \in CommandTypes
      BY <1>2, <1>4, <2>2, ResponseTypes
    <3>2. c.kind \in CommandKinds
      BY <3>1 DEF Command
    <3>3. evs[k].type = S => c.kind = kind
      BY <3>1, <3>2, CommandEventIs, EvFields DEF CommandKinds, Announces
    <3> QED
      BY <3>1, <3>3 DEF Indices, CommandTypes, WokenTypes
  <2> QED
    BY <2>1, <2>2
<1>5. ASSUME NEW i \in Indices(t.cmds, {kind})
      PROVE  /\ i \in Nat /\ i + 1 \in 1 .. Len(evs) /\ evs[i + 1].type = S
             /\ evs[i + 1].id = t.cmds[i].id /\ n + (i + 1) - 1 = n + i
  <2>1. i \in DOMAIN t.cmds /\ t.cmds[i].kind = kind /\ t.cmds[i] \in Command
    BY <1>2 DEF Indices
  <2>2. /\ i + 1 \in 2 .. Len(evs)
        /\ evs[i + 1] = CommandEvent(t.cmds[i], NoRun)
    BY <1>2, <2>1, ResponseEvents
  <2>3. i \in Nat
    BY <1>3, <2>1
  <2>4. evs[i + 1].type = S /\ evs[i + 1].id = t.cmds[i].id
    BY <2>1, <2>2, CommandEventIs, EvFields DEF Announces
  <2> HIDE DEF evs, n
  <2>5. n + (i + 1) - 1 = n + i
    BY <1>2, <2>3
  <2>6. i + 1 \in 1 .. Len(evs)
    BY <1>3, <2>2, <2>3
  <2> QED
    BY <2>3, <2>4, <2>5, <2>6
<1> HIDE DEF evs, n, r
<1>6. CASE q # r
  <2>1. history'[q] = history[q]
    BY <1>1, <1>6 DEF Untouched
  <2>2. \A b \in new : b.run = r
    BY DEF r, WorkOf
  <2>3. \A a : a.run = q => (a \in rows \cup new <=> a \in rows)
    BY <1>6, <2>2
  <2> QED
    BY <2>1, <2>3, SameRowsBooked
<1>7. CASE q = r
  <2>1. Appended(history[q], n, evs, history'[q])
    BY <1>1, <1>2, <1>7 DEF Extended
  <2>2. ASSUME NEW b \in new
        PROVE  /\ b.run = q
               /\ \E k \in 1 .. Len(evs) :
                     b.sched = n + k - 1 /\ evs[k].type = S /\ evs[k].id = b.id
    <3>1. PICK i \in Indices(t.cmds, {kind}) :
             b.run = r /\ b.sched = n + i /\ b.id = t.cmds[i].id
      BY DEF r, n, WorkOf
    <3>2. PICK k : k = i + 1
      OBVIOUS
    <3>3. /\ k \in 1 .. Len(evs) /\ evs[k].type = S /\ evs[k].id = b.id
          /\ b.sched = n + k - 1
      BY <1>5, <3>1, <3>2
    <3> QED
      BY <1>7, <3>1, <3>3
  <2>3. ASSUME NEW k \in 1 .. Len(evs), evs[k].type = S
        PROVE  \E b \in new : b.sched = n + k - 1
    <3>1. PICK b \in new : b.sched = n + (k - 1)
      BY <1>4, <2>3 DEF n, WorkOf
    <3>2. n + (k - 1) = n + k - 1
      BY <1>2, <1>3
    <3> QED
      BY <3>1, <3>2
  <2>4. RowsFor(q, n, evs, S, new)
    BY <2>2, <2>3 DEF RowsFor, WorkOf
  <2>5. NoneOf(evs, O)
    BY <1>4 DEF NoneOf
  <2> QED
    BY <1>3, <2>1, <2>4, <2>5, ScheduleBooked
<1> QED
  BY <1>6, <1>7

LEMMA CommitWorkflowTaskBooks ==
    ASSUME LogInv, BooksInv, NEW p \in Proc, CommitWorkflowTask(p)
    PROVE  BooksInv'
<1> DEFINE t == tx[p]
<1>1. acts' = acts \cup NewActs(t) /\ timers' = timers \cup NewTimers(t)
  BY DEF CommitWorkflowTask
<1>2. t.expect \in Nat /\ DOMAIN t.cmds \subseteq Nat
  <2>1. t.expect \in Nat /\ t.cmds \in Seq(Command)
    BY TxWfComplete DEF CommitWorkflowTask, LogInv, TypeOK
  <2> QED
    BY <2>1, ResponseEvents
<1>3. \A i, j \in DOMAIN t.cmds : t.expect + i = t.expect + j => i = j
  BY <1>2
<1> DEFINE act(i) == [run |-> t.row.run, sched |-> t.expect + i, id |-> t.cmds[i].id,
                      attempt |-> 1, status |-> "PENDING", lease |-> 0]
           timer(i) == [run |-> t.row.run, id |-> t.cmds[i].id, sched |-> t.expect + i]
           I == Indices(t.cmds, {"ScheduleActivityTask"})
           J == Indices(t.cmds, {"StartTimer"})
<1>4. NewActs(t) = {act(i) : i \in I} /\ NewTimers(t) = {timer(i) : i \in J}
  BY DEF NewActs, NewTimers
<1>5. \A i : /\ act(i).run = t.row.run /\ act(i).sched = t.expect + i
             /\ act(i).id = t.cmds[i].id
             /\ timer(i).run = t.row.run /\ timer(i).sched = t.expect + i
             /\ timer(i).id = t.cmds[i].id
  OBVIOUS
<1> HIDE DEF act, timer
<1>6. WorkOf(t, "ScheduleActivityTask", NewActs(t))
  BY <1>3, <1>4, <1>5 DEF Indices, WorkOf
<1>7. WorkOf(t, "StartTimer", NewTimers(t))
  BY <1>3, <1>4, <1>5 DEF Indices, WorkOf
<1>8. /\ ActivityOutcomes \subseteq WokenTypes /\ {"TimerFired"} \subseteq WokenTypes
      /\ Announces("ScheduleActivityTask", "ActivityTaskScheduled")
      /\ Announces("StartTimer", "TimerStarted")
  BY DEF ActivityOutcomes, WokenTypes, Announces
<1>9. ASSUME NEW r \in Run
      PROVE  /\ Booked(r, history'[r], acts', "ActivityTaskScheduled", ActivityOutcomes)
             /\ Booked(r, history'[r], timers', "TimerStarted", {"TimerFired"})
  <2>1. /\ Booked(r, history[r], acts, "ActivityTaskScheduled", ActivityOutcomes)
        /\ Booked(r, history[r], timers, "TimerStarted", {"TimerFired"})
    BY DEF BooksInv, ActsBooked, TimersBooked
  <2>2. Booked(r, history'[r], acts \cup NewActs(t), "ActivityTaskScheduled",
               ActivityOutcomes)
    BY <1>6, <1>8, <2>1, Kinds, ResponseBooked
  <2>3. Booked(r, history'[r], timers \cup NewTimers(t), "TimerStarted", {"TimerFired"})
    BY <1>7, <1>8, <2>1, Kinds, ResponseBooked
  <2> QED
    BY <1>1, <2>2, <2>3
<1> QED
  BY <1>9 DEF BooksInv, ActsBooked, TimersBooked, Booked, RowsBooked,
     OutcomesBooked, WorkBooked, ActivityOutcomes

LEMMA UpdateBooks ==
    ASSUME BooksInv, ActUpdate
    PROVE  BooksInv'
<1>1. PICK row, new :
         /\ row \in acts
         /\ new.run = row.run /\ new.sched = row.sched /\ new.id = row.id
         /\ acts' = (acts \ {row}) \cup {new}
  BY DEF ActUpdate
<1>2. ASSUME NEW r \in Run
      PROVE  /\ Booked(r, history'[r], acts', "ActivityTaskScheduled", ActivityOutcomes)
             /\ Booked(r, history'[r], timers', "TimerStarted", {"TimerFired"})
  <2>1. /\ Booked(r, history[r], acts, "ActivityTaskScheduled", ActivityOutcomes)
        /\ Booked(r, history[r], timers, "TimerStarted", {"TimerFired"})
    BY DEF BooksInv, ActsBooked, TimersBooked
  <2>2. Booked(r, history[r], (acts \ {row}) \cup {new}, "ActivityTaskScheduled",
               ActivityOutcomes)
    BY <1>1, <2>1, UpdateBooked
  <2> QED
    BY <1>1, <2>1, <2>2 DEF ActUpdate
<1> QED
  BY <1>2 DEF BooksInv, ActsBooked, TimersBooked, Booked, RowsBooked,
     OutcomesBooked, WorkBooked, ActivityOutcomes

LEMMA QuietBooks ==
    ASSUME BooksInv, BooksQuiet
    PROVE  BooksInv'
<1>1. ASSUME NEW r \in Run
      PROVE  /\ Booked(r, history'[r], acts', "ActivityTaskScheduled", ActivityOutcomes)
             /\ Booked(r, history'[r], timers', "TimerStarted", {"TimerFired"})
  <2>1. /\ Booked(r, history[r], acts, "ActivityTaskScheduled", ActivityOutcomes)
        /\ Booked(r, history[r], timers, "TimerStarted", {"TimerFired"})
    BY DEF BooksInv, ActsBooked, TimersBooked
  <2>2. Neutral(history[r], history'[r]) /\ acts' = acts /\ timers' = timers
    BY DEF BooksQuiet
  <2>3. Booked(r, history'[r], acts, "ActivityTaskScheduled", ActivityOutcomes)
    BY <2>1, <2>2, Kinds, NeutralKeepsBooks
  <2>4. Booked(r, history'[r], timers, "TimerStarted", {"TimerFired"})
    BY <2>1, <2>2, Kinds, NeutralKeepsBooks
  <2> QED
    BY <2>2, <2>3, <2>4
<1> QED
  BY <1>1 DEF BooksInv, ActsBooked, TimersBooked, Booked, RowsBooked,
     OutcomesBooked, WorkBooked, ActivityOutcomes

-----------------------------------------------------------------------------
(* The inductive invariant, beside HistoryInv.                             *)
AccountsInv == WorkLocks /\ BooksInv

LEMMA AccountsInvInit == Init => AccountsInv
<1> SUFFICES ASSUME Init PROVE AccountsInv
  OBVIOUS
<1>1. acts = {} /\ timers = {} /\ \A r \in Run : DOMAIN history[r] = {}
  BY DEF Init
<1>2. BooksInv
  BY <1>1 DEF BooksInv, ActsBooked, TimersBooked, Booked, RowsBooked,
     OutcomesBooked, WorkBooked
<1>3. \A p \in Proc : tx[p].op # "wake"
  BY DEF Init, Idle
<1> QED
  BY <1>2, <1>3 DEF AccountsInv, WorkLocks

LEMMA AccountsInvStep == HistoryInv /\ AccountsInv /\ [Next]_vars => AccountsInv'
<1> SUFFICES ASSUME HistoryInv, AccountsInv, [Next]_vars PROVE AccountsInv'
  OBVIOUS
<1>1. LogInv /\ TxInv /\ WorkLocks /\ BooksInv
  BY DEF HistoryInv, AccountsInv
<1>2. WorkLocks'
  BY <1>1, WorkLocksStep
<1>3. BooksInv'
  BY <1>1, BooksStep, QuietBooks, UpdateBooks, CommitWakeBooks, CommitWorkflowTaskBooks
<1> QED
  BY <1>2, <1>3 DEF AccountsInv

(* The rows and the outcomes of the work event i of a history h started.   *)
RowsOf(r, rows, i) == {a \in rows : a.run = r /\ a.sched = i}
OutcomesOf(h, O, i) == {j \in DOMAIN h : h[j].type \in O /\ h[j].ref = i}

(* What the books of a run say of one piece of work.                       *)
LEMMA BookedWork ==
    ASSUME NEW r, NEW h, NEW rows, NEW S, NEW O, Booked(r, h, rows, S, O),
           NEW i \in DOMAIN h, h[i].type = S
    PROVE  /\ RowsOf(r, rows, i) = {} <=> OutcomesOf(h, O, i) # {}
           /\ \A a, b \in RowsOf(r, rows, i) : a = b
           /\ \A j, k \in OutcomesOf(h, O, i) : j = k
           /\ \A j \in OutcomesOf(h, O, i) : h[j].id = h[i].id /\ i < j
<1> DEFINE its == RowsOf(r, rows, i)
           outs == OutcomesOf(h, O, i)
<1>1. /\ \A a : a \in its <=> a \in rows /\ a.run = r /\ a.sched = i
      /\ \A j : j \in outs <=> j \in DOMAIN h /\ h[j].type \in O /\ h[j].ref = i
  BY DEF RowsOf, OutcomesOf
<1> HIDE DEF its, outs
<1>2. (\E a : a \in its) \/ (\E j : j \in outs)
  BY <1>1 DEF Booked, WorkBooked
<1>3. ASSUME NEW j \in outs
      PROVE  h[j].id = h[i].id /\ i < j /\ its = {} /\ \A k \in outs : k = j
  BY <1>1 DEF Booked, OutcomesBooked
<1>4. \A a, b \in its : a = b
  BY <1>1 DEF Booked, RowsBooked
<1> QED
  BY <1>2, <1>3, <1>4 DEF its, outs

(* An activity that a workflow scheduled is queued, as one row, or has one *)
(* outcome in history, whatever crashes, reaped leases, retries and late   *)
(* answers came between (CompleteActivityTask, FailActivityTask,           *)
(* reapExpiredLeases).                                                     *)
THEOREM ActivitiesAreAccountedFor == Spec => []ActivityAccounted
<1>1. AccountsInv => ActivityAccounted
  <2> SUFFICES ASSUME AccountsInv, NEW r \in Run,
                      NEW i \in Positions(r, {"ActivityTaskScheduled"})
               PROVE  LET rows == {a \in acts : a.run = r /\ a.sched = i}
                          outs == {j \in Positions(r, ActivityOutcomes) :
                                     history[r][j].ref = i}
                      IN  /\ rows = {} <=> outs # {}
                          /\ \A a, b \in rows : a = b
                          /\ \A j, k \in outs : j = k
                          /\ \A j \in outs :
                                history[r][j].id = history[r][i].id /\ i < j
    BY DEF ActivityAccounted
  <2>1. Booked(r, history[r], acts, "ActivityTaskScheduled", ActivityOutcomes)
    BY DEF AccountsInv, BooksInv, ActsBooked
  <2>2. i \in DOMAIN history[r] /\ history[r][i].type = "ActivityTaskScheduled"
    BY DEF Positions
  <2>3. {a \in acts : a.run = r /\ a.sched = i} = RowsOf(r, acts, i)
    BY DEF RowsOf
  <2>4. {j \in Positions(r, ActivityOutcomes) : history[r][j].ref = i}
           = OutcomesOf(history[r], ActivityOutcomes, i)
    BY DEF Positions, OutcomesOf
  <2>5. /\ RowsOf(r, acts, i) = {} <=> OutcomesOf(history[r], ActivityOutcomes, i) # {}
        /\ \A a, b \in RowsOf(r, acts, i) : a = b
        /\ \A j, k \in OutcomesOf(history[r], ActivityOutcomes, i) : j = k
        /\ \A j \in OutcomesOf(history[r], ActivityOutcomes, i) :
              history[r][j].id = history[r][i].id /\ i < j
    BY <2>1, <2>2, BookedWork
  <2> QED
    BY <2>3, <2>4, <2>5
<1> QED
  BY <1>1, HistoryInvInit, HistoryInvStep, AccountsInvInit, AccountsInvStep, PTL DEF Spec

(* A timer that a workflow started is pending or has fired, exactly one of *)
(* the two and once, although any number of timer firers race for its row  *)
(* and lose transactions (fireDueTimer).                                   *)
THEOREM TimersAreAccountedFor == Spec => []TimerAccounted
<1>1. AccountsInv => TimerAccounted
  <2> SUFFICES ASSUME AccountsInv, NEW r \in Run,
                      NEW i \in Positions(r, {"TimerStarted"})
               PROVE  LET rows == {t \in timers : t.run = r /\ t.sched = i}
                          outs == {j \in Positions(r, {"TimerFired"}) :
                                     history[r][j].ref = i}
                      IN  /\ rows = {} <=> outs # {}
                          /\ \A j, k \in outs : j = k
                          /\ \A j \in outs :
                                history[r][j].id = history[r][i].id /\ i < j
    BY Zenon DEF TimerAccounted
  <2>1. Booked(r, history[r], timers, "TimerStarted", {"TimerFired"})
    BY DEF AccountsInv, BooksInv, TimersBooked
  <2>2. i \in DOMAIN history[r] /\ history[r][i].type = "TimerStarted"
    BY DEF Positions
  <2>3. {t \in timers : t.run = r /\ t.sched = i} = RowsOf(r, timers, i)
    BY DEF RowsOf
  <2>4. {j \in Positions(r, {"TimerFired"}) : history[r][j].ref = i}
           = OutcomesOf(history[r], {"TimerFired"}, i)
    BY DEF Positions, OutcomesOf
  <2>5. /\ RowsOf(r, timers, i) = {} <=> OutcomesOf(history[r], {"TimerFired"}, i) # {}
        /\ \A j, k \in OutcomesOf(history[r], {"TimerFired"}, i) : j = k
        /\ \A j \in OutcomesOf(history[r], {"TimerFired"}, i) :
              history[r][j].id = history[r][i].id /\ i < j
    BY <2>1, <2>2, BookedWork
  <2> QED
    BY <2>3, <2>4, <2>5
<1> QED
  BY <1>1, HistoryInvInit, HistoryInvStep, AccountsInvInit, AccountsInvStep, PTL DEF Spec
==============================================================================
