------------------------- MODULE FlowdHistoryProofs -------------------------
(***************************************************************************)
(* Proofs about what FlowdEngine's histories say: that a run's status is   *)
(* what its last closing event says, that continue-as-new links two runs   *)
(* or neither, and that an acknowledged call left one event.               *)
(***************************************************************************)
EXTENDS FlowdEngineProofs

-----------------------------------------------------------------------------
(* What each commit does to the tables of runs, event by event.            *)

(* h2 is h1, whose last event has number n - 1, followed by evs.           *)
Appended(h1, n, evs, h2) ==
    /\ n \in Nat \ {0} /\ DOMAIN h1 = 1 .. (n - 1)
    /\ DOMAIN h2 = 1 .. (n + Len(evs) - 1)
    /\ \A i \in 1 .. (n - 1) : h2[i] = h1[i]
    /\ \A k \in 1 .. Len(evs) : h2[n + k - 1] = evs[k]

(* The runs outside R keep their history and their status.                 *)
Untouched(R) ==
    \A q \in Run \ R : /\ history'[q] = history[q]
                       /\ exec'[q].status = exec[q].status

(* The step appends evs to the existing run r.                             *)
Extended(r, evs) ==
    /\ r \in Run /\ exec[r].status # "NONE" /\ evs \in Seq(Event)
    /\ Appended(history[r], exec[r].next, evs, history'[r])

(* The step creates run r, as a continuation of from or of no run.         *)
Created(r, from) ==
    /\ r \in Run /\ exec[r].status = "NONE" /\ exec'[r].status = "RUNNING"
    /\ DOMAIN history[r] = {} /\ DOMAIN history'[r] = 1 .. 2
    /\ history'[r][1] = Ev("WorkflowExecutionStarted", 0, from)
    /\ history'[r][2] = Ev("WorkflowTaskScheduled", 0, 0)

WakeEvs(t) == <<t.ev, Ev("WorkflowTaskScheduled", 0, 0)>>

LEMMA InsertAppends ==
    ASSUME NEW n \in Nat \ {0}, NEW h, DOMAIN h = 1 .. (n - 1),
           NEW evs \in Seq(Event)
    PROVE  Appended(h, n, evs, Insert(h, n, evs))
<1>1. Len(evs) \in Nat
  OBVIOUS
<1>2. \A k \in 1 .. Len(evs) : Insert(h, n, evs)[n + k - 1] = evs[k]
  BY <1>1 DEF Insert
<1> QED
  BY <1>2, InsertAtEnd DEF Appended

(* Every event of the longer log is an old one or one of those appended.   *)
LEMMA AppendedCases ==
    ASSUME NEW h1, NEW n, NEW h2, NEW evs, Len(evs) \in Nat,
           Appended(h1, n, evs, h2), NEW i \in DOMAIN h2
    PROVE  /\ i \in Nat
           /\ \/ i \in DOMAIN h1 /\ i < n /\ h2[i] = h1[i]
              \/ \E k \in 1 .. Len(evs) :
                    i = n + k - 1 /\ h2[i] = evs[k] /\ i >= n /\ i \notin DOMAIN h1
<1>1. CASE i < n
  BY <1>1 DEF Appended
<1>2. CASE i >= n
  <2>0. n \in Nat \ {0} /\ i \in 1 .. (n + Len(evs) - 1)
    BY DEF Appended
  <2>1. i \in Nat /\ i - n + 1 \in 1 .. Len(evs) /\ i = n + (i - n + 1) - 1
    BY <1>2, <2>0
  <2> DEFINE k == i - n + 1
  <2>2. k \in 1 .. Len(evs) /\ i = n + k - 1
    BY <2>1
  <2> HIDE DEF k
  <2>3. h2[n + k - 1] = evs[k] /\ i \notin DOMAIN h1
    BY <1>2, <2>0, <2>2 DEF Appended
  <2> QED
    BY <1>2, <2>1, <2>2, <2>3
<1> QED
  BY <1>1, <1>2 DEF Appended

LEMMA CommitExtends ==
    ASSUME LogInv, NEW r \in Run, Exists(r), NEW evs \in Seq(Event), NEW n,
           CAS(r, n), NEW e, exec' = [exec EXCEPT ![r] = e],
           history' = [history EXCEPT ![r] = Insert(@, n, evs)]
    PROVE  Extended(r, evs) /\ Untouched({r}) /\ exec'[r] = e
<1>1. /\ n = exec[r].next /\ n \in Nat \ {0} /\ DOMAIN history[r] = 1 .. (n - 1)
      /\ DOMAIN history = Run /\ DOMAIN exec = Run
  BY DEF LogInv, TypeOK, CAS, HistoryContiguous
<1>2. Appended(history[r], n, evs, Insert(history[r], n, evs))
  BY <1>1, InsertAppends
<1>3. history'[r] = Insert(history[r], n, evs)
  BY <1>1
<1> QED
  BY <1>1, <1>2, <1>3 DEF Extended, Untouched, Exists

(* The insert of a run: ex and hs are the tables as the transaction left   *)
(* them before.                                                            *)
LEMMA CreateRunCreates ==
    ASSUME LogInv, NEW ex, NEW hs, NEW rows, NEW r \in Run, NEW req,
           NEW from \in Nat, CreateRun(ex, hs, rows, r, req, from),
           DOMAIN ex = Run, DOMAIN hs = Run
    PROVE  /\ Created(r, from)
           /\ \A q \in Run \ {r} : history'[q] = hs[q] /\ exec'[q] = ex[q]
<1> DEFINE evs == StartEvents(from)
           new == Insert(<<>>, 1, evs)
           e == Advance(NewExec, evs)
<1>1. evs \in Seq(Event) /\ Len(evs) = 2
  BY StartEventsTyped
<1>2. evs[1] = Ev("WorkflowExecutionStarted", 0, from)
      /\ evs[2] = Ev("WorkflowTaskScheduled", 0, 0)
  BY DEF StartEvents
<1>3. NewExec \in ExecRow /\ NewExec.next = 1 /\ NewExec.status = "RUNNING"
  BY DEF NewExec, ExecRow, Statuses, Preference
<1>4. e.status = "RUNNING"
  BY <1>1, <1>3, AdvanceTyped
<1>5. /\ exec' = [ex EXCEPT ![r] = e] /\ history' = [hs EXCEPT ![r] = new]
      /\ exec[r].status = "NONE"
  BY <1>3 DEF CreateRun, Fresh
<1>6. DOMAIN history[r] = {}
  BY <1>5 DEF LogInv, HistoryContiguous, ReferencesExist, Unused
<1> HIDE DEF evs
<1>7. Appended(<<>>, 1, evs, new)
  <2>1. DOMAIN <<>> = 1 .. (1 - 1)
    OBVIOUS
  <2> QED
    BY <1>1, <2>1, InsertAppends
<1>8. DOMAIN new = 1 .. 2 /\ new[1] = evs[1] /\ new[2] = evs[2]
  <2>1. /\ DOMAIN new = 1 .. (1 + 2 - 1)
        /\ \A k \in 1 .. 2 : new[1 + k - 1] = evs[k]
    BY <1>1, <1>7 DEF Appended
  <2> HIDE DEF new
  <2>2. new[1 + 1 - 1] = evs[1] /\ new[1 + 2 - 1] = evs[2]
    BY <2>1
  <2> QED
    BY <2>1, <2>2
<1> HIDE DEF new, e
<1>9. history'[r] = new /\ exec'[r] = e
  BY <1>5
<1> QED
  BY <1>2, <1>4, <1>5, <1>6, <1>8, <1>9 DEF Created

LEMMA StartCreates ==
    ASSUME LogInv, NEW c \in Call, StartFirst(c) \/ StartReplacing(c)
    PROVE  \E r \in Run : Created(r, NoRun) /\ Untouched({r})
<1>1. PICK r, req : r \in Run /\ CreateRun(exec, history, wfTasks, r, req, NoRun)
  BY DEF StartFirst, StartReplacing
<1>2. DOMAIN exec = Run /\ DOMAIN history = Run
  BY DEF LogInv, TypeOK
<1>3. NoRun \in Nat
  BY RunIsNat
<1>4. /\ Created(r, NoRun)
      /\ \A q \in Run \ {r} : history'[q] = history[q] /\ exec'[q] = exec[q]
  BY <1>1, <1>2, <1>3, CreateRunCreates
<1> QED
  BY <1>1, <1>4 DEF Untouched

LEMMA WakeExtends ==
    ASSUME LogInv, NEW p \in Call \cup Proc, CommitWake(p)
    PROVE  /\ Extended(tx[p].run, WakeEvs(tx[p])) /\ Untouched({tx[p].run})
           /\ exec'[tx[p].run].status = exec[tx[p].run].status
<1> DEFINE t == tx[p]
           evs == WakeEvs(t)
<1>1. t \in Tx /\ t.op = "wake"
  BY DEF LogInv, TypeOK, CommitWake
<1>2. t.run \in Run /\ evs \in Seq(Event)
  <2>1. t.run \in Run /\ t.ev \in Event
    BY <1>1, TxWake
  <2>2. Ev("WorkflowTaskScheduled", 0, 0) \in Event
    BY EvTyped DEF EventTypes
  <2> QED
    BY <2>1, <2>2 DEF WakeEvs
<1>3. Exists(t.run)
  BY <1>1 DEF LogInv, ReferencesExist, Unbound, RunOf
<1>4. /\ CAS(t.run, t.expect)
      /\ exec' = [exec EXCEPT ![t.run] = Advance(exec[t.run], evs)]
      /\ history' = [history EXCEPT ![t.run] = Insert(@, t.expect, evs)]
  BY DEF CommitWake, WakeEvs
<1>5. exec[t.run] \in ExecRow
  BY <1>2, RunsTypedOfTypeOK DEF LogInv, RunsTyped
<1> HIDE DEF evs
<1>6. Advance(exec[t.run], evs).status = exec[t.run].status
  BY <1>2, <1>5, AdvanceTyped
<1>7. /\ Extended(t.run, evs) /\ Untouched({t.run})
      /\ exec'[t.run] = Advance(exec[t.run], evs)
  BY <1>2, <1>3, <1>4, CommitExtends
<1> QED
  BY <1>6, <1>7 DEF evs

LEMMA TerminateExtends ==
    ASSUME LogInv, NEW c \in Call, CommitTerminate(c)
    PROVE  /\ Extended(tx[c].run, <<Ev("WorkflowExecutionTerminated", c.id, 0)>>)
           /\ Untouched({tx[c].run}) /\ exec'[tx[c].run].status = "TERMINATED"
<1> DEFINE t == tx[c]
           evs == <<Ev("WorkflowExecutionTerminated", c.id, 0)>>
           e == [Advance(exec[t.run], evs) EXCEPT !.status = "TERMINATED"]
<1>1. t \in Tx /\ t.op = "terminate"
  BY DEF LogInv, TypeOK, CommitTerminate
<1>2. t.run \in Run /\ evs \in Seq(Event)
  BY <1>1, TxTerminate, CallFields, EvTyped DEF EventTypes
<1>3. Exists(t.run)
  BY <1>1 DEF LogInv, ReferencesExist, Unbound, RunOf
<1>4. /\ CAS(t.run, t.expect)
      /\ exec' = [exec EXCEPT ![t.run] = e]
      /\ history' = [history EXCEPT ![t.run] = Insert(@, t.expect, evs)]
  BY DEF CommitTerminate
<1>5. exec[t.run] \in ExecRow
  BY <1>2, RunsTypedOfTypeOK DEF LogInv, RunsTyped
<1> HIDE DEF evs
<1>6. e.status = "TERMINATED"
  BY <1>2, <1>5, AdvanceTyped DEF ExecRow
<1> HIDE DEF e
<1>7. Extended(t.run, evs) /\ Untouched({t.run}) /\ exec'[t.run] = e
  BY <1>2, <1>3, <1>4, CommitExtends
<1> QED
  BY <1>6, <1>7 DEF evs

(* The two dispatches record that a task was started.                      *)
StartedStep ==
    \E r \in Run, ev \in Event :
        /\ ev.type \in {"WorkflowTaskStarted", "ActivityTaskStarted"}
        /\ Extended(r, <<ev>>) /\ Untouched({r})
        /\ exec'[r].status = exec[r].status

LEMMA StartedExtendsRun ==
    ASSUME LogInv, NEW r \in Run, Exists(r), NEW ev \in Event, NEW n, CAS(r, n),
           ev.type \in {"WorkflowTaskStarted", "ActivityTaskStarted"},
           NEW evs, evs = <<ev>>,
           exec' = [exec EXCEPT ![r] = Advance(exec[r], evs)],
           history' = [history EXCEPT ![r] = Insert(@, n, evs)]
    PROVE  StartedStep
<1>1. evs \in Seq(Event) /\ exec[r] \in ExecRow
  BY RunsTypedOfTypeOK DEF LogInv, RunsTyped
<1>2. Advance(exec[r], evs).status = exec[r].status
  BY <1>1, AdvanceTyped
<1>3. Extended(r, evs) /\ Untouched({r}) /\ exec'[r] = Advance(exec[r], evs)
  BY <1>1, CommitExtends
<1> QED
  BY <1>2, <1>3 DEF StartedStep

LEMMA StartedExtends ==
    ASSUME LogInv, NEW p \in Proc,
           RecordWorkflowTaskStarted(p) \/ RecordActivityTaskStarted(p)
    PROVE  StartedStep
<1>0. tx[p] \in Tx /\ (Unbound(tx[p]) \/ Exists(RunOf(tx[p])))
  BY DEF LogInv, TypeOK, ReferencesExist
<1>1. CASE RecordWorkflowTaskStarted(p)
  <2> DEFINE ev == Ev("WorkflowTaskStarted", 0, 0)
             r == tx[p].run
             n == tx[p].expect
  <2>1. ev \in Event /\ ev.type = "WorkflowTaskStarted"
    BY EvTyped DEF EventTypes, Ev
  <2>2. Exists(r) /\ r \in Run
    BY <1>0, <1>1 DEF RecordWorkflowTaskStarted, RunOf, Unbound, Exists
  <2>3. /\ CAS(r, n) /\ exec' = [exec EXCEPT ![r] = Advance(@, <<ev>>)]
        /\ history' = [history EXCEPT ![r] = Insert(@, n, <<ev>>)]
    BY <1>1 DEF RecordWorkflowTaskStarted
  <2> HIDE DEF ev, r, n
  <2> QED
    BY <2>1, <2>2, <2>3, StartedExtendsRun
<1>2. CASE RecordActivityTaskStarted(p)
  <2> DEFINE ev == Ev("ActivityTaskStarted", tx[p].row.id, 0)
             r == tx[p].row.run
             n == tx[p].expect
  <2>0. tx[p].row.id \in Nat
    BY <1>0, <1>2, TxActStart DEF RecordActivityTaskStarted, ActRow
  <2>1. ev \in Event /\ ev.type = "ActivityTaskStarted"
    BY <2>0, EvTyped DEF EventTypes, Ev
  <2>2. Exists(r) /\ r \in Run
    BY <1>0, <1>2 DEF RecordActivityTaskStarted, RunOf, Unbound, Exists
  <2>3. /\ CAS(r, n) /\ exec' = [exec EXCEPT ![r] = Advance(@, <<ev>>)]
        /\ history' = [history EXCEPT ![r] = Insert(@, n, <<ev>>)]
    BY <1>2 DEF RecordActivityTaskStarted
  <2> HIDE DEF ev, r, n
  <2> QED
    BY <2>1, <2>2, <2>3, StartedExtendsRun
<1> QED
  BY <1>1, <1>2

(* A response's own run; n is the run its continue-as-new creates.         *)
LEMMA ResponseStatus ==
    ASSUME LogInv, NEW t \in Tx, t.op = "wfcomplete", NEW n \in Nat,
           Exists(t.row.run)
    PROVE  /\ CommandEvents(t.cmds, n) \in Seq(Event)
           /\ Responded(exec[t.row.run], t, CommandEvents(t.cmds, n)).status
                = CloseStatus(t.cmds, exec[t.row.run].status)
<1> DEFINE evs == CommandEvents(t.cmds, n)
           e == exec[t.row.run]
<1>1. evs \in Seq(Event)
  BY TxWfComplete, CommandEventsTyped
<1>2. e \in ExecRow
  BY RunsTypedOfTypeOK DEF LogInv, RunsTyped, Exists
<1> HIDE DEF evs, e
<1>3. Advance(e, evs) \in ExecRow /\ Advance(e, evs).status = e.status
  BY <1>1, <1>2, AdvanceTyped
<1>4. Responded(e, t, evs).status = CloseStatus(t.cmds, e.status)
  BY <1>3 DEF Responded, ExecRow
<1> QED
  BY <1>1, <1>4 DEF evs, e

LEMMA ResponseExtends ==
    ASSUME LogInv, NEW p \in Proc, CommitWorkflowTask(p)
    PROVE  LET r == tx[p].row.run
           IN  /\ Extended(r, CommandEvents(tx[p].cmds, NoRun)) /\ Untouched({r})
               /\ exec'[r].status = CloseStatus(tx[p].cmds, exec[r].status)
<1> DEFINE t == tx[p]
           r == t.row.run
           evs == CommandEvents(t.cmds, NoRun)
           e == Responded(exec[r], t, evs)
<1>1. t \in Tx /\ t.op = "wfcomplete" /\ CAS(r, t.expect) /\ Exists(r)
  BY DEF LogInv, TypeOK, ReferencesExist, CommitWorkflowTask, Unbound, RunOf
<1>2. evs \in Seq(Event) /\ e.status = CloseStatus(t.cmds, exec[r].status)
  BY <1>1, RunIsNat, ResponseStatus
<1>3. /\ exec' = [exec EXCEPT ![r] = e]
      /\ history' = [history EXCEPT ![r] = Insert(@, t.expect, evs)]
  BY DEF CommitWorkflowTask
<1>4. r \in Run
  BY <1>1 DEF Exists
<1> HIDE DEF e, evs, r
<1>5. Extended(r, evs) /\ Untouched({r}) /\ exec'[r] = e
  BY <1>1, <1>2, <1>3, <1>4, CommitExtends
<1> QED
  BY <1>2, <1>5 DEF evs, r

LEMMA ContinueExtends ==
    ASSUME LogInv, NEW p \in Proc, CommitContinueAsNew(p)
    PROVE  LET r == tx[p].row.run
           IN  \E n \in Run :
                 /\ Created(n, r) /\ n # r
                 /\ Extended(r, CommandEvents(tx[p].cmds, n)) /\ Untouched({r, n})
                 /\ exec'[r].status = CloseStatus(tx[p].cmds, exec[r].status)
<1> DEFINE t == tx[p]
           r == t.row.run
           evs(n) == CommandEvents(t.cmds, n)
           ex(n) == [exec EXCEPT ![r] = Responded(@, t, evs(n))]
           hs(n) == [history EXCEPT ![r] = Insert(@, t.expect, evs(n))]
<1>1. /\ t \in Tx /\ t.op = "wfcomplete" /\ CAS(r, t.expect) /\ Exists(r)
      /\ r \in Run /\ r \in Nat
  BY RunIsNat
     DEF LogInv, TypeOK, ReferencesExist, CommitContinueAsNew, Unbound, RunOf, Exists
<1>2. PICK n \in Run : CreateRun(ex(n), hs(n), wfTasks \ {t.row}, n, NoReq, r)
  BY DEF CommitContinueAsNew
<1>3. n # r /\ n \in Nat
  BY <1>1, <1>2, RunIsNat DEF CreateRun, Fresh, Exists
<1>4. /\ evs(n) \in Seq(Event)
      /\ Responded(exec[r], t, evs(n)).status = CloseStatus(t.cmds, exec[r].status)
  BY <1>1, <1>3, ResponseStatus
<1>5. /\ DOMAIN exec = Run /\ DOMAIN history = Run
      /\ DOMAIN ex(n) = Run /\ DOMAIN hs(n) = Run
  BY DEF LogInv, TypeOK
<1>6. /\ t.expect = exec[r].next /\ exec[r].next \in Nat \ {0}
      /\ DOMAIN history[r] = 1 .. (exec[r].next - 1)
  BY <1>1 DEF LogInv, TypeOK, CAS, HistoryContiguous
<1> DEFINE es == evs(n)
<1>7. hs(n)[r] = Insert(history[r], exec[r].next, es) /\ ex(n)[r] = Responded(exec[r], t, es)
  BY <1>1, <1>5, <1>6
<1>8. \A q \in Run \ {r} : hs(n)[q] = history[q] /\ ex(n)[q] = exec[q]
  BY <1>5
<1> HIDE DEF ex, hs
<1>9. /\ Created(n, r)
      /\ \A q \in Run \ {n} : history'[q] = hs(n)[q] /\ exec'[q] = ex(n)[q]
  BY <1>1, <1>2, <1>5, CreateRunCreates
<1> HIDE DEF evs
<1>10. Appended(history[r], exec[r].next, es, Insert(history[r], exec[r].next, es))
  <2> HIDE DEF es
  <2> QED
    BY <1>4, <1>6, InsertAppends DEF es
<1>11. history'[r] = Insert(history[r], exec[r].next, es)
       /\ exec'[r] = Responded(exec[r], t, es)
  BY <1>1, <1>3, <1>7, <1>9
<1>12. Extended(r, es)
  BY <1>1, <1>4, <1>10, <1>11 DEF Extended, Exists
<1>13. Untouched({r, n})
  BY <1>8, <1>9 DEF Untouched
<1> QED
  BY <1>3, <1>4, <1>9, <1>11, <1>12, <1>13 DEF evs

(* Every other step leaves all histories and statuses alone.               *)
LEMMA CommitOrQuiet ==
    ASSUME LogInv, [Next]_vars
    PROVE  \/ UNCHANGED history /\ Untouched({})
           \/ \E c \in Call :
                 StartFirst(c) \/ StartReplacing(c) \/ CommitTerminate(c)
           \/ \E p \in Call \cup Proc : CommitWake(p)
           \/ \E p \in Proc :
                 \/ RecordWorkflowTaskStarted(p) \/ RecordActivityTaskStarted(p)
                 \/ CommitWorkflowTask(p) \/ CommitContinueAsNew(p)
<1> DEFINE Quiet == UNCHANGED history /\ Untouched({})
<1>0. ASSUME UNCHANGED <<exec, history>> PROVE Quiet
  BY <1>0 DEF Untouched
<1>1. ASSUME NEW r, exec' = [exec EXCEPT ![r].sticky = NoWorker], UNCHANGED history
      PROVE  Quiet
  <2>1. exec \in [Run -> ExecRow]
    BY RunsTypedOfTypeOK DEF LogInv, RunsTyped
  <2> QED
    BY <1>1, <2>1 DEF Untouched, ExecRow
<1> HIDE DEF Quiet
<1>2. ASSUME NEW c \in Call, CallStep(c)
      PROVE  Quiet \/ StartFirst(c) \/ StartReplacing(c) \/ CommitTerminate(c)
             \/ CommitWake(c)
  BY <1>0, <1>2 DEF CallStep, StartOnExisting, SignalWorkflowExecution,
       RequestCancelWorkflowExecution, RetryOnConflict,
       TerminateWorkflowExecution, ConflictedTerminate, tables
<1>3. ASSUME NEW p \in Proc, ProcStep(p)
      PROVE  \/ Quiet \/ CommitWake(p)
             \/ RecordWorkflowTaskStarted(p) \/ RecordActivityTaskStarted(p)
             \/ CommitWorkflowTask(p) \/ CommitContinueAsNew(p)
  <2>1. ASSUME FailClearSticky(p) PROVE Quiet
    BY <1>1, <2>1 DEF FailClearSticky
  <2>2. ASSUME \/ FireDueTimer(p) \/ CompleteActivityTask(p) \/ RetryActivityTask(p)
               \/ FailActivityTask(p) \/ \E w \in Worker : DispatchWorkflowTask(p, w)
        PROVE  Quiet
    BY <1>0, <2>2 DEF FireDueTimer, CompleteActivityTask, RetryActivityTask,
         FailActivityTask, DispatchWorkflowTask, tables
  <2>3. ASSUME \/ BeginWorkflowTaskStarted(p) \/ DeliverWorkflowTask(p)
               \/ CompleteWorkflowTask(p) \/ RejectWorkflowTask(p)
               \/ FailWorkflowTask(p) \/ FailEnqueue(p) \/ DispatchActivityTask(p)
               \/ BeginActivityTaskStarted(p) \/ AbortOnConflict(p)
        PROVE  Quiet
    BY <1>0, <2>3 DEF BeginWorkflowTaskStarted, DeliverWorkflowTask,
         CompleteWorkflowTask, RejectWorkflowTask, FailWorkflowTask, FailEnqueue,
         DispatchActivityTask, BeginActivityTaskStarted, AbortOnConflict, tables
  <2> QED
    BY <1>3, <2>1, <2>2, <2>3 DEF ProcStep
<1>4. ASSUME \/ \E p \in Call \cup Proc : Crash(p)
             \/ ReapWorkflowTask \/ ReapActivityTask \/ StickyDeadlinePasses
             \/ UNCHANGED vars
      PROVE  Quiet
  BY <1>0, <1>4 DEF Crash, ReapWorkflowTask, ReapActivityTask,
       StickyDeadlinePasses, vars, tables
<1>5. ASSUME StickyRegistrationLapses PROVE Quiet
  BY <1>1, <1>5 DEF StickyRegistrationLapses
<1>6. Quiet \/ ~Quiet
  OBVIOUS
<1>7. Quiet => UNCHANGED history /\ Untouched({})
  BY DEF Quiet
<1> QED
  BY <1>2, <1>3, <1>4, <1>5, <1>7 DEF Next

-----------------------------------------------------------------------------
(* Which transactions a process may be in.                                 *)

(* A wake transaction carries the event of its cause and the row that      *)
(* cause deletes: a call has none, an answer an activity row, the timer    *)
(* firer a timer row.                                                      *)
CallWake(c, t) ==
    /\ c.op \in {"Signal", "Cancel"} /\ t.ev = CallEvent(c)
    /\ t.act = {} /\ t.timer = {}

ActWake(t, row) ==
    /\ t.act = {row} /\ t.timer = {} /\ t.run = row.run
    /\ \E type \in ActivityOutcomes : t.ev = Ev(type, row.id, row.sched)

TimerWake(t, tm) ==
    /\ t.act = {} /\ t.timer = {tm} /\ t.run = tm.run
    /\ t.ev = Ev("TimerFired", tm.id, tm.sched)

TxOf(p, t) ==
    /\ p \in Call =>
          /\ t.op \in {"idle", "done", "start", "terminate", "wake"}
          /\ t.op = "start" => p.op = "Start"
          /\ t.op = "terminate" => p.op = "Terminate"
          /\ t.op = "wake" => CallWake(p, t)
    /\ p \in Proc => (t.op = "wake" =>
          \/ \E row \in ActRow : ActWake(t, row)
          \/ \E tm \in TimerRow : TimerWake(t, tm))

TxInv == \A p \in Call \cup Proc : TxOf(p, tx[p])

LEMMA SetTxInv ==
    ASSUME TypeOK, TxInv, NEW p \in Call \cup Proc, NEW t, Set(p, t), TxOf(p, t)
    PROVE  TxInv'
<1>1. tx' = [tx EXCEPT ![p] = t] /\ DOMAIN tx = Call \cup Proc
  BY DEF TypeOK, Set
<1>2. \A q \in Call \cup Proc : (tx'[q] = t /\ q = p) \/ tx'[q] = tx[q]
  BY <1>1
<1> QED
  BY <1>2 DEF TxInv

LEMMA EndTxOf ==
    ASSUME NEW p
    PROVE  /\ TxOf(p, Idle)
           /\ \A ok, r : TxOf(p, Done(ok, r))
<1>1. Idle.op = "idle" /\ \A ok, r : Done(ok, r).op = "done"
  BY DEF Idle, Done
<1> QED
  BY <1>1 DEF TxOf

(* A goroutine's transaction that wakes nobody.                            *)
LEMMA ProcTxOf ==
    ASSUME NEW p \in Proc, NEW t, t.op # "wake"
    PROVE  TxOf(p, t)
BY ConstantsAssumption DEF TxOf

LEMMA WakeFields ==
    ASSUME NEW r, NEW ev, NEW act, NEW timer, NEW tries
    PROVE  LET t == Wake(r, ev, act, timer, tries)
           IN  /\ t.op = "wake" /\ t.run = r /\ t.ev = ev /\ t.act = act
               /\ t.timer = timer /\ t.expect = exec[r].next
BY DEF Wake

LEMMA ActWakeTxOf ==
    ASSUME NEW p \in Proc, NEW row \in ActRow, NEW type \in ActivityOutcomes
    PROVE  LET t == Wake(row.run, Ev(type, row.id, row.sched), {row}, {}, 0)
           IN  ActWake(t, row) /\ TxOf(p, t)
<1> DEFINE t == Wake(row.run, Ev(type, row.id, row.sched), {row}, {}, 0)
<1>1. /\ t.run = row.run /\ t.ev = Ev(type, row.id, row.sched)
      /\ t.act = {row} /\ t.timer = {}
  BY WakeFields
<1> HIDE DEF t
<1>2. ActWake(t, row)
  BY <1>1 DEF ActWake
<1>3. TxOf(p, t)
  BY <1>2, ConstantsAssumption DEF TxOf
<1> QED
  BY <1>2, <1>3 DEF t

LEMMA TimerWakeTxOf ==
    ASSUME NEW p \in Proc, NEW tm \in TimerRow
    PROVE  LET t == Wake(tm.run, Ev("TimerFired", tm.id, tm.sched), {}, {tm}, 0)
           IN  TimerWake(t, tm) /\ TxOf(p, t)
<1> DEFINE t == Wake(tm.run, Ev("TimerFired", tm.id, tm.sched), {}, {tm}, 0)
<1>1. /\ t.run = tm.run /\ t.ev = Ev("TimerFired", tm.id, tm.sched)
      /\ t.act = {} /\ t.timer = {tm}
  BY WakeFields
<1> HIDE DEF t
<1>2. TimerWake(t, tm)
  BY <1>1 DEF TimerWake
<1>3. TxOf(p, t)
  BY <1>2, ConstantsAssumption DEF TxOf
<1> QED
  BY <1>2, <1>3 DEF t

LEMMA CallWakeTxOf ==
    ASSUME NEW c \in Call, c.op \in {"Signal", "Cancel"}, NEW tries
    PROVE  TxOf(c, WakeAttempt(c, tries))
<1>1. CASE Exists(Target(c))
  <2> DEFINE t == Wake(Target(c), CallEvent(c), {}, {}, tries)
  <2>1. t.op = "wake" /\ t.ev = CallEvent(c) /\ t.act = {} /\ t.timer = {}
    BY WakeFields
  <2> HIDE DEF t
  <2>2. TxOf(c, t)
    BY <2>1, ConstantsAssumption DEF TxOf, CallWake
  <2> QED
    BY <1>1, <2>2 DEF WakeAttempt, t
<1>2. CASE ~Exists(Target(c))
  BY <1>2, EndTxOf DEF WakeAttempt
<1> QED
  BY <1>1, <1>2

LEMMA CallStepTxInv ==
    ASSUME LogInv, TxInv, NEW c \in Call, CallStep(c)
    PROVE  TxInv'
<1>0. c \in Call \cup Proc /\ TypeOK
  BY DEF LogInv
<1>1. CASE StartFirst(c) \/ StartReplacing(c)
  BY <1>0, <1>1, EndTxOf, SetTxInv DEF StartFirst, StartReplacing
<1>2. CASE StartOnExisting(c)
  <2>1. c.op = "Start"
    BY <1>2 DEF StartOnExisting
  <2>2. TxOf(c, [op |-> "start", req |-> c.req])
    BY <2>1, ConstantsAssumption DEF TxOf
  <2> QED
    BY <1>0, <1>2, <2>2, EndTxOf, SetTxInv DEF StartOnExisting
<1>3. CASE SignalWorkflowExecution(c)
  BY <1>0, <1>3, CallWakeTxOf, SetTxInv DEF SignalWorkflowExecution
<1>4. CASE RequestCancelWorkflowExecution(c)
  BY <1>0, <1>4, CallWakeTxOf, SetTxInv DEF RequestCancelWorkflowExecution
<1>5. CASE RetryOnConflict(c)
  <2>1. c.op \in {"Signal", "Cancel"}
    BY <1>0, <1>5 DEF RetryOnConflict, TxInv, TxOf, CallWake
  <2>2. TxOf(c, WakeAttempt(c, tx[c].tries + 1))
    BY <2>1, CallWakeTxOf
  <2> QED
    BY <1>0, <1>5, <2>2, EndTxOf, SetTxInv DEF RetryOnConflict
<1>6. CASE CommitWake(c)
  BY <1>0, <1>6, EndTxOf, SetTxInv DEF CommitWake
<1>7. CASE TerminateWorkflowExecution(c)
  <2> DEFINE t == [op |-> "terminate", run |-> Target(c),
                   expect |-> exec[Target(c)].next]
  <2>1. t.op = "terminate" /\ c.op = "Terminate"
    BY <1>7 DEF TerminateWorkflowExecution
  <2>2. Set(c, IF Exists(Target(c)) THEN t ELSE Done(FALSE, NoRun))
    BY <1>7 DEF TerminateWorkflowExecution
  <2> HIDE DEF t
  <2>3. TxOf(c, t)
    BY <2>1, ConstantsAssumption DEF TxOf
  <2> QED
    BY <1>0, <2>2, <2>3, EndTxOf, SetTxInv
<1>8. CASE CommitTerminate(c)
  BY <1>0, <1>8, EndTxOf, SetTxInv DEF CommitTerminate
<1>9. CASE ConflictedTerminate(c)
  BY <1>0, <1>9, EndTxOf, SetTxInv DEF ConflictedTerminate
<1> QED
  BY <1>1, <1>2, <1>3, <1>4, <1>5, <1>6, <1>7, <1>8, <1>9 DEF CallStep

LEMMA ProcStepTxInv ==
    ASSUME LogInv, TxInv, NEW p \in Proc, ProcStep(p)
    PROVE  TxInv'
<1>0. p \in Call \cup Proc /\ TypeOK
  BY DEF LogInv
<1>1. CASE FireDueTimer(p)
  <2>1. PICK tm \in timers :
           Set(p, Wake(tm.run, Ev("TimerFired", tm.id, tm.sched), {}, {tm}, 0))
    BY <1>1 DEF FireDueTimer
  <2>2. tm \in TimerRow
    BY <1>0 DEF TypeOK
  <2> QED
    BY <1>0, <2>1, <2>2, TimerWakeTxOf, SetTxInv
<1>2. CASE CompleteActivityTask(p) \/ FailActivityTask(p)
  <2>1. PICK row \in acts, type \in ActivityOutcomes :
           Set(p, Wake(row.run, Ev(type, row.id, row.sched), {row}, {}, 0))
    BY <1>2 DEF CompleteActivityTask, FailActivityTask, ActivityOutcomes
  <2>2. row \in ActRow
    BY <1>0 DEF TypeOK
  <2> QED
    BY <1>0, <2>1, <2>2, ActWakeTxOf, SetTxInv
<1>3. CASE RetryActivityTask(p)
  BY <1>3 DEF RetryActivityTask, TxInv
<1>4. CASE \/ CommitWake(p) \/ DeliverWorkflowTask(p) \/ CommitWorkflowTask(p)
           \/ CommitContinueAsNew(p) \/ RejectWorkflowTask(p) \/ FailEnqueue(p)
           \/ RecordActivityTaskStarted(p) \/ AbortOnConflict(p)
  <2>1. Set(p, Idle) \/ \E r : Set(p, Done(TRUE, r))
    BY <1>4 DEF CommitWake, DeliverWorkflowTask, CommitWorkflowTask,
         CommitContinueAsNew, RejectWorkflowTask, FailEnqueue,
         RecordActivityTaskStarted, AbortOnConflict
  <2> QED
    BY <1>0, <2>1, EndTxOf, SetTxInv
<1>5. ASSUME NEW t, Set(p, t), t.op # "wake" PROVE TxInv'
  BY <1>0, <1>5, ProcTxOf, SetTxInv
<1>6. ASSUME NEW w \in Worker, DispatchWorkflowTask(p, w) PROVE TxInv'
  BY <1>5, <1>6 DEF DispatchWorkflowTask
<1>7. CASE BeginWorkflowTaskStarted(p)
  BY <1>5, <1>7 DEF BeginWorkflowTaskStarted
<1>8. CASE RecordWorkflowTaskStarted(p)
  BY <1>5, <1>8 DEF RecordWorkflowTaskStarted
<1>9. CASE CompleteWorkflowTask(p)
  BY <1>5, <1>9 DEF CompleteWorkflowTask
<1>10. CASE FailWorkflowTask(p)
  BY <1>5, <1>10 DEF FailWorkflowTask
<1>11. CASE FailClearSticky(p)
  <2>1. tx[p] \in Tx /\ tx[p].op = "wffail"
    BY <1>0, <1>11 DEF FailClearSticky, TypeOK
  <2>2. [tx[p] EXCEPT !.cleared = TRUE].op = "wffail"
    BY <2>1 DEF Tx
  <2> QED
    BY <1>5, <1>11, <2>2 DEF FailClearSticky
<1>12. CASE DispatchActivityTask(p)
  BY <1>5, <1>12 DEF DispatchActivityTask
<1>13. CASE BeginActivityTaskStarted(p)
  BY <1>5, <1>13 DEF BeginActivityTaskStarted
<1> QED
  BY <1>1, <1>2, <1>3, <1>4, <1>6, <1>7, <1>8, <1>9, <1>10, <1>11, <1>12, <1>13
     DEF ProcStep

LEMMA TxInvStep ==
    ASSUME LogInv, TxInv, [Next]_vars
    PROVE  TxInv'
<1>1. ASSUME NEW p \in Call \cup Proc, Crash(p) PROVE TxInv'
  <2>1. TypeOK
    BY DEF LogInv
  <2> QED
    BY <1>1, <2>1, EndTxOf, SetTxInv DEF Crash
<1>2. CASE \/ ReapWorkflowTask \/ ReapActivityTask \/ StickyRegistrationLapses
           \/ StickyDeadlinePasses \/ UNCHANGED vars
  BY <1>2 DEF ReapWorkflowTask, ReapActivityTask, StickyRegistrationLapses,
       StickyDeadlinePasses, vars, TxInv
<1> QED
  BY <1>1, <1>2, CallStepTxInv, ProcStepTxInv DEF Next

LEMMA TxInvInit == Init => TxInv
BY EndTxOf DEF Init, TxInv

-----------------------------------------------------------------------------
(* The events of a response.                                               *)

LEMMA CommandEventIs ==
    ASSUME NEW c \in Command, NEW n
    PROVE  LET e == CommandEvent(c, n)
           IN  /\ c.kind = "ScheduleActivityTask" => e = Ev("ActivityTaskScheduled", c.id, 0)
               /\ c.kind = "StartTimer" => e = Ev("TimerStarted", c.id, 0)
               /\ c.kind = "CompleteWorkflowExecution" =>
                     e = Ev("WorkflowExecutionCompleted", 0, 0)
               /\ c.kind = "FailWorkflowExecution" => e = Ev("WorkflowExecutionFailed", 0, 0)
               /\ c.kind = "ContinueAsNewWorkflowExecution" =>
                     e = Ev("WorkflowExecutionContinuedAsNew", 0, n)
BY DEF CommandEvent

LEMMA EvFields ==
    ASSUME NEW type, NEW id, NEW ref
    PROVE  /\ Ev(type, id, ref).type = type /\ Ev(type, id, ref).id = id
           /\ Ev(type, id, ref).ref = ref
BY DEF Ev

CommandTypes ==
    {"ActivityTaskScheduled", "TimerStarted", "WorkflowExecutionCompleted",
     "WorkflowExecutionFailed", "WorkflowExecutionContinuedAsNew"}

(* Event 1 closes the task, event i + 1 is what command i became.          *)
LEMMA ResponseEvents ==
    ASSUME NEW cmds \in Seq(Command), NEW n
    PROVE  LET evs == CommandEvents(cmds, n)
           IN  /\ Len(evs) = Len(cmds) + 1 /\ Len(evs) \in Nat
               /\ evs[1] = Ev("WorkflowTaskCompleted", 0, 0)
               /\ \A i \in DOMAIN cmds :
                     i + 1 \in 2 .. Len(evs) /\ evs[i + 1] = CommandEvent(cmds[i], n)
               /\ \A k \in 1 .. Len(evs) :
                     \/ k = 1
                     \/ k - 1 \in DOMAIN cmds /\ evs[k] = CommandEvent(cmds[k - 1], n)
<1> DEFINE evs == CommandEvents(cmds, n)
<1>0. Len(cmds) \in Nat /\ DOMAIN cmds = 1 .. Len(cmds)
  OBVIOUS
<1>1. DOMAIN evs = 1 .. (Len(cmds) + 1)
  BY DEF CommandEvents
<1>2. \A k \in 1 .. (Len(cmds) + 1) :
         evs[k] = IF k = 1 THEN Ev("WorkflowTaskCompleted", 0, 0)
                  ELSE CommandEvent(cmds[k - 1], n)
  BY DEF CommandEvents
<1>3. Len(evs) = Len(cmds) + 1
  BY <1>0 DEF CommandEvents
<1> HIDE DEF evs
<1>4. evs[1] = Ev("WorkflowTaskCompleted", 0, 0)
  BY <1>0, <1>2
<1>5. ASSUME NEW i \in DOMAIN cmds
      PROVE  i + 1 \in 2 .. Len(evs) /\ evs[i + 1] = CommandEvent(cmds[i], n)
  <2>1. i \in Nat /\ i + 1 \in 2 .. (Len(cmds) + 1) /\ (i + 1) - 1 = i /\ i + 1 # 1
    BY <1>0
  <2> QED
    BY <1>0, <1>2, <1>3, <2>1
<1>6. ASSUME NEW k \in 1 .. Len(evs), k # 1
      PROVE  k - 1 \in DOMAIN cmds /\ evs[k] = CommandEvent(cmds[k - 1], n)
  BY <1>0, <1>2, <1>3, <1>6
<1> QED
  BY <1>0, <1>3, <1>4, <1>5, <1>6 DEF evs

LEMMA ResponseTypes ==
    ASSUME NEW cmds \in Seq(Command), NEW n,
           NEW k \in 1 .. Len(CommandEvents(cmds, n))
    PROVE  LET e == CommandEvents(cmds, n)[k]
           IN  \/ k = 1 /\ e = Ev("WorkflowTaskCompleted", 0, 0)
               \/ /\ k - 1 \in DOMAIN cmds /\ cmds[k - 1] \in Command
                  /\ e = CommandEvent(cmds[k - 1], n) /\ e.type \in CommandTypes
<1> DEFINE e == CommandEvents(cmds, n)[k]
<1>1. k = 1 => e = Ev("WorkflowTaskCompleted", 0, 0)
  BY ResponseEvents
<1>2. ASSUME k # 1 PROVE k - 1 \in DOMAIN cmds /\ e = CommandEvent(cmds[k - 1], n)
  BY <1>2, ResponseEvents
<1>3. ASSUME k # 1 PROVE cmds[k - 1] \in Command
  BY <1>2, <1>3
<1>4. ASSUME NEW c \in Command PROVE CommandEvent(c, n).type \in CommandTypes
  <2>1. c.kind \in CommandKinds
    BY DEF Command
  <2> QED
    BY <2>1, CommandEventIs, EvFields DEF CommandTypes, CommandKinds
<1> QED
  BY <1>1, <1>2, <1>3, <1>4

-----------------------------------------------------------------------------
(* A run's status is what its history says.                                *)

Closing == DOMAIN TerminalStatus

LEMMA ClosingIs ==
    /\ Closing = {"WorkflowExecutionCompleted", "WorkflowExecutionFailed",
                  "WorkflowExecutionTerminated", "WorkflowExecutionContinuedAsNew"}
    /\ TerminalStatus["WorkflowExecutionCompleted"] = "COMPLETED"
    /\ TerminalStatus["WorkflowExecutionFailed"] = "FAILED"
    /\ TerminalStatus["WorkflowExecutionTerminated"] = "TERMINATED"
    /\ TerminalStatus["WorkflowExecutionContinuedAsNew"] = "CONTINUED_AS_NEW"
BY DEF Closing, TerminalStatus

Ends(h) == {i \in DOMAIN h : h[i].type \in Closing}

(* s is the status of a run with history h.                                *)
StatusFits(h, s) ==
    /\ s = "NONE" => h = <<>>
    /\ s # "NONE" => 1 \in DOMAIN h
    /\ s = "RUNNING" <=> (Ends(h) = {} /\ s # "NONE")
    /\ \A i \in Ends(h) : (\A j \in Ends(h) : j <= i) => s = TerminalStatus[h[i].type]

StatusInv == \A r \in Run : StatusFits(history[r], exec[r].status)

(* What an append does to the status, if it closes nothing ...             *)
LEMMA OpenAppendFits ==
    ASSUME NEW h1, NEW n, NEW evs, Len(evs) \in Nat, NEW h2, NEW s,
           Appended(h1, n, evs, h2), StatusFits(h1, s), s # "NONE",
           \A k \in 1 .. Len(evs) : evs[k].type \notin Closing
    PROVE  StatusFits(h2, s)
<1>1. ASSUME NEW i \in DOMAIN h2, h2[i].type \in Closing
      PROVE  i \in DOMAIN h1 /\ h2[i] = h1[i]
  BY <1>1, AppendedCases
<1>2. ASSUME NEW i \in DOMAIN h1 PROVE i \in DOMAIN h2 /\ h2[i] = h1[i]
  <2>1. n \in Nat /\ i \in 1 .. (n - 1)
    BY DEF Appended
  <2>2. i \in 1 .. (n + Len(evs) - 1)
    BY <2>1
  <2> QED
    BY <2>1, <2>2 DEF Appended
<1>3. Ends(h2) = Ends(h1) /\ \A i \in Ends(h1) : h2[i] = h1[i]
  BY <1>1, <1>2 DEF Ends
<1> QED
  BY <1>2, <1>3 DEF StatusFits

(* ... and if its event k is the only one that closes the run.             *)
LEMMA ClosingAppendFits ==
    ASSUME NEW h1, NEW n, NEW evs, Len(evs) \in Nat, NEW h2,
           Appended(h1, n, evs, h2),
           NEW k \in 1 .. Len(evs), evs[k].type \in Closing,
           \A m \in 1 .. Len(evs) : evs[m].type \in Closing => m = k
    PROVE  StatusFits(h2, TerminalStatus[evs[k].type])
<1>0. n \in Nat \ {0} /\ DOMAIN h2 = 1 .. (n + Len(evs) - 1)
  BY DEF Appended
<1> DEFINE last == n + k - 1
<1>1. last \in DOMAIN h2 /\ last \in Nat /\ h2[last] = evs[k]
  BY <1>0 DEF Appended
<1>2. ASSUME NEW i \in Ends(h2) PROVE i \in Nat /\ i <= last
  <2>1. i \in Nat /\ (i < n \/ \E m \in 1 .. Len(evs) : i = n + m - 1 /\ h2[i] = evs[m])
    BY AppendedCases DEF Ends
  <2>2. ASSUME NEW m \in 1 .. Len(evs), i = n + m - 1, h2[i] = evs[m] PROVE m = k
    BY <2>2 DEF Ends
  <2> QED
    BY <1>0, <2>1, <2>2
<1>3. last \in Ends(h2)
  BY <1>1 DEF Ends
<1> HIDE DEF last
<1>4. ASSUME NEW i \in Ends(h2), \A j \in Ends(h2) : j <= i PROVE i = last
  BY <1>1, <1>2, <1>3, <1>4
<1>5. TerminalStatus[evs[k].type] \notin {"NONE", "RUNNING"}
  BY ClosingIs
<1>6. 1 \in DOMAIN h2
  BY <1>0
<1> QED
  BY <1>1, <1>3, <1>4, <1>5, <1>6 DEF StatusFits

(* A response holds one closing command at most; CloseStatus follows it.   *)
LEMMA ResponseFits ==
    ASSUME NEW cmds \in Seq(Command), NEW n, NEW h1, NEW m, NEW h2, NEW s,
           \A i, j \in Indices(cmds, TerminalKinds) : i = j,
           Appended(h1, m, CommandEvents(cmds, n), h2), StatusFits(h1, s), s # "NONE"
    PROVE  StatusFits(h2, CloseStatus(cmds, s))
<1> DEFINE evs == CommandEvents(cmds, n)
<1>0. Len(evs) \in Nat
  BY ResponseEvents
<1>1. \A i \in DOMAIN cmds : cmds[i] \in Command
  OBVIOUS
<1>2. ASSUME NEW c \in Command
      PROVE  CommandEvent(c, n).type \in Closing <=> c.kind \in TerminalKinds
  <2>1. c.kind \in CommandKinds
    BY DEF Command
  <2> QED
    BY <2>1, CommandEventIs, EvFields, ClosingIs DEF CommandKinds, TerminalKinds
<1>3. "WorkflowTaskCompleted" \notin Closing
  BY ClosingIs
<1>4. ASSUME NEW k \in 1 .. Len(evs), evs[k].type \in Closing
      PROVE  k - 1 \in Indices(cmds, TerminalKinds)
  BY <1>1, <1>2, <1>3, <1>4, ResponseTypes, EvFields DEF Indices
<1>5. CASE Indices(cmds, TerminalKinds) = {}
  <2>1. \A k \in 1 .. Len(evs) : evs[k].type \notin Closing
    BY <1>4, <1>5
  <2>2. CloseStatus(cmds, s) = s
    BY <1>5 DEF CloseStatus, Continues, Indices, TerminalKinds
  <2> HIDE DEF evs
  <2> QED
    BY <1>0, <2>1, <2>2, OpenAppendFits DEF evs
<1>6. CASE Indices(cmds, TerminalKinds) # {}
  <2>1. PICK i \in DOMAIN cmds : cmds[i].kind \in TerminalKinds
    BY <1>6 DEF Indices
  <2>i. i \in Indices(cmds, TerminalKinds) /\ i \in Nat
    BY <2>1 DEF Indices
  <2> DEFINE k == i + 1
  <2>2. k \in 1 .. Len(evs) /\ evs[k] = CommandEvent(cmds[i], n)
    BY <1>0, ResponseEvents
  <2>3. evs[k].type \in Closing
    BY <1>1, <1>2, <2>1, <2>2
  <2>4. ASSUME NEW j \in 1 .. Len(evs), evs[j].type \in Closing PROVE j = k
    <3>1. j - 1 \in Indices(cmds, TerminalKinds)
      BY <1>4, <2>4
    <3>2. j - 1 = i
      BY <2>i, <3>1
    <3> QED
      BY <3>2
  <2>5. CloseStatus(cmds, s) = TerminalStatus[evs[k].type]
    <3>1. ASSUME NEW kind \in TerminalKinds
          PROVE  Indices(cmds, {kind}) # {} <=> cmds[i].kind = kind
      BY <2>1, <2>i DEF Indices
    <3>2. CASE cmds[i].kind = "CompleteWorkflowExecution"
      <4>1. evs[k].type = "WorkflowExecutionCompleted"
        BY <1>1, <2>2, <3>2, CommandEventIs, EvFields
      <4> QED
        BY <3>1, <3>2, <4>1, ClosingIs DEF CloseStatus, TerminalKinds
    <3>3. CASE cmds[i].kind = "FailWorkflowExecution"
      <4>1. evs[k].type = "WorkflowExecutionFailed"
        BY <1>1, <2>2, <3>3, CommandEventIs, EvFields
      <4> QED
        BY <3>1, <3>3, <4>1, ClosingIs DEF CloseStatus, TerminalKinds
    <3>4. CASE cmds[i].kind = "ContinueAsNewWorkflowExecution"
      <4>1. evs[k].type = "WorkflowExecutionContinuedAsNew"
        BY <1>1, <2>2, <3>4, CommandEventIs, EvFields
      <4> QED
        BY <3>1, <3>4, <4>1, ClosingIs DEF CloseStatus, Continues, TerminalKinds
    <3> QED
      BY <2>1, <3>2, <3>3, <3>4 DEF TerminalKinds
  <2> HIDE DEF evs, k
  <2>6. StatusFits(h2, TerminalStatus[evs[k].type])
    <3>1. Appended(h1, m, evs, h2)
      BY DEF evs
    <3> QED
      BY <1>0, <2>2, <2>3, <2>4, <3>1, ClosingAppendFits
  <2> QED
    BY <2>5, <2>6
<1> QED
  BY <1>5, <1>6

WokenTypes ==
    {"WorkflowExecutionSignaled", "WorkflowExecutionCancelRequested",
     "ActivityTaskCompleted", "ActivityTaskFailed", "TimerFired"}

LEMMA WakeEvType ==
    ASSUME TxInv, NEW p \in Call \cup Proc, tx[p].op = "wake"
    PROVE  tx[p].ev.type \in WokenTypes
<1>1. CASE p \in Call
  <2>1. tx[p].ev = CallEvent(p)
    BY <1>1 DEF TxInv, TxOf, CallWake
  <2> QED
    BY <2>1, EvFields DEF CallEvent, WokenTypes
<1>2. CASE p \in Proc
  <2>1. \/ \E row \in ActRow : ActWake(tx[p], row)
        \/ \E tm \in TimerRow : TimerWake(tx[p], tm)
    BY <1>2 DEF TxInv, TxOf
  <2> QED
    BY <2>1, EvFields DEF ActWake, TimerWake, ActivityOutcomes, WokenTypes
<1> QED
  BY <1>1, <1>2

LEMMA WakeEvsAre ==
    ASSUME NEW t
    PROVE  /\ Len(WakeEvs(t)) = 2 /\ WakeEvs(t)[1] = t.ev
           /\ WakeEvs(t)[2] = Ev("WorkflowTaskScheduled", 0, 0)
           /\ \A k \in 1 .. 2 : k = 1 \/ k = 2
BY DEF WakeEvs

LEMMA StatusInvStep ==
    ASSUME LogInv, TxInv, StatusInv, [Next]_vars
    PROVE  StatusInv'
<1>0. ASSUME NEW R, Untouched(R), \A r \in Run \cap R : StatusFits(history'[r], exec'[r].status)
      PROVE  StatusInv'
  BY <1>0 DEF Untouched, StatusInv
<1>1. CASE UNCHANGED history /\ Untouched({})
  BY <1>0, <1>1
<1>2. ASSUME NEW c \in Call, StartFirst(c) \/ StartReplacing(c) PROVE StatusInv'
  <2>1. PICK r \in Run : Created(r, NoRun) /\ Untouched({r})
    BY <1>2, StartCreates
  <2>2. StatusFits(history'[r], exec'[r].status)
    BY <2>1, EvFields, ClosingIs DEF Created, StatusFits, Ends
  <2> QED
    BY <1>0, <2>1, <2>2
<1>3. ASSUME NEW c \in Call, CommitTerminate(c) PROVE StatusInv'
  <2> DEFINE ev == Ev("WorkflowExecutionTerminated", c.id, 0)
             evs == <<ev>>
             r == tx[c].run
  <2>1. Extended(r, evs) /\ Untouched({r}) /\ exec'[r].status = "TERMINATED"
    BY <1>3, TerminateExtends
  <2>2. ev.type = "WorkflowExecutionTerminated"
    BY EvFields
  <2> HIDE DEF ev
  <2>3. Len(evs) = 1 /\ evs[1].type = "WorkflowExecutionTerminated"
    BY <2>2
  <2> HIDE DEF evs, r
  <2>4. /\ Appended(history[r], exec[r].next, evs, history'[r])
        /\ 1 \in 1 .. Len(evs) /\ \A m \in 1 .. Len(evs) : m = 1
        /\ evs[1].type \in Closing /\ Len(evs) \in Nat
    BY <2>1, <2>3, ClosingIs DEF Extended
  <2>5. StatusFits(history'[r], TerminalStatus[evs[1].type])
    BY <2>4, ClosingAppendFits
  <2>6. StatusFits(history'[r], exec'[r].status)
    BY <2>1, <2>3, <2>5, ClosingIs
  <2> QED
    BY <1>0, <2>1, <2>6
<1>4. ASSUME NEW p \in Call \cup Proc, CommitWake(p) PROVE StatusInv'
  <2> DEFINE r == tx[p].run
             evs == WakeEvs(tx[p])
  <2>1. Extended(r, evs) /\ Untouched({r}) /\ exec'[r].status = exec[r].status
    BY <1>4, WakeExtends
  <2>2. tx[p].ev.type \notin Closing /\ "WorkflowTaskScheduled" \notin Closing
    BY <1>4, WakeEvType, ClosingIs DEF CommitWake, WokenTypes
  <2>3. Len(evs) \in Nat /\ \A k \in 1 .. Len(evs) : evs[k].type \notin Closing
    BY <2>2, WakeEvsAre, EvFields
  <2> HIDE DEF evs, r
  <2>4. StatusFits(history'[r], exec'[r].status)
    BY <2>1, <2>3, OpenAppendFits DEF Extended, StatusInv
  <2> QED
    BY <1>0, <2>1, <2>4
<1>5. ASSUME NEW p \in Proc, RecordWorkflowTaskStarted(p) \/ RecordActivityTaskStarted(p)
      PROVE  StatusInv'
  <2>1. PICK r \in Run, ev \in Event :
           /\ ev.type \in {"WorkflowTaskStarted", "ActivityTaskStarted"}
           /\ Extended(r, <<ev>>) /\ Untouched({r})
           /\ exec'[r].status = exec[r].status
    BY <1>5, StartedExtends DEF StartedStep
  <2> DEFINE evs == <<ev>>
  <2>2. Len(evs) \in Nat /\ \A k \in 1 .. Len(evs) : evs[k].type \notin Closing
    BY <2>1, ClosingIs
  <2>3. Extended(r, evs)
    BY <2>1
  <2> HIDE DEF evs
  <2>4. StatusFits(history'[r], exec'[r].status)
    BY <2>1, <2>2, <2>3, OpenAppendFits DEF Extended, StatusInv
  <2> QED
    BY <1>0, <2>1, <2>4
<1>6. ASSUME NEW p \in Proc, CommitWorkflowTask(p) PROVE StatusInv'
  <2> DEFINE t == tx[p]
             r == t.row.run
  <2>1. /\ Extended(r, CommandEvents(t.cmds, NoRun)) /\ Untouched({r})
        /\ exec'[r].status = CloseStatus(t.cmds, exec[r].status)
    BY <1>6, ResponseExtends
  <2>2. t.cmds \in Seq(Command) /\ \A i, j \in Indices(t.cmds, TerminalKinds) : i = j
    BY <1>6, TxWfComplete DEF CommitWorkflowTask, Acceptable, LogInv, TypeOK
  <2>3. /\ Appended(history[r], exec[r].next, CommandEvents(t.cmds, NoRun), history'[r])
        /\ StatusFits(history[r], exec[r].status) /\ exec[r].status # "NONE"
    BY <2>1 DEF Extended, StatusInv
  <2> HIDE DEF t, r
  <2>4. StatusFits(history'[r], exec'[r].status)
    BY <2>1, <2>2, <2>3, ResponseFits
  <2> QED
    BY <1>0, <2>1, <2>4
<1>7. ASSUME NEW p \in Proc, CommitContinueAsNew(p) PROVE StatusInv'
  <2> DEFINE t == tx[p]
             r == t.row.run
  <2>1. PICK n \in Run :
           /\ Created(n, r) /\ n # r
           /\ Extended(r, CommandEvents(t.cmds, n)) /\ Untouched({r, n})
           /\ exec'[r].status = CloseStatus(t.cmds, exec[r].status)
    BY <1>7, ContinueExtends
  <2>2. t.cmds \in Seq(Command) /\ \A i, j \in Indices(t.cmds, TerminalKinds) : i = j
    BY <1>7, TxWfComplete DEF CommitContinueAsNew, Acceptable, LogInv, TypeOK
  <2>3. /\ Appended(history[r], exec[r].next, CommandEvents(t.cmds, n), history'[r])
        /\ StatusFits(history[r], exec[r].status) /\ exec[r].status # "NONE"
    BY <2>1 DEF Extended, StatusInv
  <2> HIDE DEF t, r
  <2>4. StatusFits(history'[r], exec'[r].status)
    BY <2>1, <2>2, <2>3, ResponseFits
  <2>5. StatusFits(history'[n], exec'[n].status)
    BY <2>1, EvFields, ClosingIs DEF Created, StatusFits, Ends
  <2> QED
    BY <1>0, <2>1, <2>4, <2>5
<1> QED
  BY <1>1, <1>2, <1>3, <1>4, <1>5, <1>6, <1>7, CommitOrQuiet

HistoryInv == LogInv /\ TxInv /\ StatusInv

LEMMA HistoryInvInit == Init => HistoryInv
<1>1. Init => StatusInv
  BY DEF Init, StatusInv, StatusFits, Ends
<1> QED
  BY <1>1, LogInvInit, TxInvInit DEF HistoryInv

LEMMA HistoryInvStep == HistoryInv /\ [Next]_vars => HistoryInv'
BY LogInvStep, TxInvStep, StatusInvStep DEF HistoryInv, Keeps

(* workflow_executions.status always agrees with the history, however      *)
(* terminate, responses and continue-as-new race: RUNNING without a        *)
(* closing event, otherwise what the last of them says (CloseWorkflow-     *)
(* Execution overwrites the status, in the order of the events).           *)
THEOREM StatusAgreesWithHistory == Spec => []StatusMatchesHistory
<1>1. HistoryInv => StatusMatchesHistory
  <2> SUFFICES ASSUME HistoryInv, NEW r \in Run
               PROVE  LET ends == Positions(r, DOMAIN TerminalStatus)
                      IN  /\ exec[r].status = "RUNNING" <=> (ends = {} /\ history[r] # <<>>)
                          /\ \A i \in ends : (\A j \in ends : j <= i) =>
                                exec[r].status = TerminalStatus[history[r][i].type]
    BY DEF StatusMatchesHistory
  <2>1. StatusFits(history[r], exec[r].status)
    BY DEF HistoryInv, StatusInv
  <2>2. Positions(r, DOMAIN TerminalStatus) = Ends(history[r])
    BY DEF Positions, Ends, Closing
  <2>3. exec[r].status # "NONE" => history[r] # <<>>
    BY <2>1 DEF StatusFits
  <2> QED
    BY <2>1, <2>2, <2>3 DEF StatusFits
<1> QED
  BY <1>1, HistoryInvInit, HistoryInvStep, PTL DEF Spec

-----------------------------------------------------------------------------
(* Continue-as-new links two runs or neither.                              *)

Says(h, type, ref) == \E i \in DOMAIN h : h[i].type = type /\ h[i].ref = ref

LinkTypes == {"WorkflowExecutionContinuedAsNew", "WorkflowExecutionStarted"}

LEMMA SaysAppended ==
    ASSUME NEW h1, NEW n, NEW evs, Len(evs) \in Nat, NEW h2, Appended(h1, n, evs, h2),
           NEW type, NEW ref
    PROVE  Says(h2, type, ref) <=>
              \/ Says(h1, type, ref)
              \/ \E k \in 1 .. Len(evs) : evs[k].type = type /\ evs[k].ref = ref
<1>1. ASSUME NEW i \in DOMAIN h1 PROVE i \in DOMAIN h2 /\ h2[i] = h1[i]
  <2>1. n \in Nat /\ i \in 1 .. (n - 1)
    BY DEF Appended
  <2>2. i \in 1 .. (n + Len(evs) - 1)
    BY <2>1
  <2> QED
    BY <2>1, <2>2 DEF Appended
<1>2. ASSUME NEW k \in 1 .. Len(evs)
      PROVE  n + k - 1 \in DOMAIN h2 /\ h2[n + k - 1] = evs[k]
  <2>1. n \in Nat \ {0} /\ n + k - 1 \in 1 .. (n + Len(evs) - 1)
    BY DEF Appended
  <2> QED
    BY <2>1 DEF Appended
<1>3. ASSUME NEW i \in DOMAIN h2
      PROVE  \/ i \in DOMAIN h1 /\ h2[i] = h1[i]
             \/ \E k \in 1 .. Len(evs) : h2[i] = evs[k]
  BY AppendedCases
<1> QED
  BY <1>1, <1>2, <1>3 DEF Says

LEMMA LinkedIs ==
    ContinuationLinked <=>
        \A r, n \in Run : Says(history[r], "WorkflowExecutionContinuedAsNew", n)
                       <=> Says(history[n], "WorkflowExecutionStarted", r)
BY DEF ContinuationLinked, Positions, Says

LEMMA LinkedIsNext ==
    ContinuationLinked' <=>
        \A r, n \in Run : Says(history'[r], "WorkflowExecutionContinuedAsNew", n)
                       <=> Says(history'[n], "WorkflowExecutionStarted", r)
BY DEF ContinuationLinked, Positions, Says

(* A step after which every run says the same about its neighbours.        *)
LEMMA SameLinks ==
    ASSUME ContinuationLinked,
           \A r, n \in Run : \A type \in LinkTypes :
              Says(history'[r], type, n) <=> Says(history[r], type, n)
    PROVE  ContinuationLinked'
BY LinkedIs, LinkedIsNext DEF LinkTypes

LEMMA NeutralLinks ==
    ASSUME ContinuationLinked, NEW r, NEW evs, Extended(r, evs), Untouched({r}),
           \A k \in 1 .. Len(evs) : evs[k].type \notin LinkTypes
    PROVE  ContinuationLinked'
<1>1. Len(evs) \in Nat /\ Appended(history[r], exec[r].next, evs, history'[r])
  BY DEF Extended
<1>2. \A n \in Run : \A type \in LinkTypes :
         Says(history'[r], type, n) <=> Says(history[r], type, n)
  BY <1>1, SaysAppended
<1> QED
  BY <1>2, SameLinks DEF Untouched

LEMMA NoHistorySays ==
    ASSUME NEW h, DOMAIN h = {}, NEW type, NEW ref PROVE ~Says(h, type, ref)
BY DEF Says

LEMMA CreatedSays ==
    ASSUME NEW r, NEW from, Created(r, from), NEW ref
    PROVE  /\ ~Says(history'[r], "WorkflowExecutionContinuedAsNew", ref)
           /\ Says(history'[r], "WorkflowExecutionStarted", ref) <=> ref = from
BY EvFields DEF Created, Says

LEMMA ContinuationLinkedStep ==
    ASSUME LogInv, TxInv, ContinuationLinked, [Next]_vars
    PROVE  ContinuationLinked'
<1>1. CASE UNCHANGED history /\ Untouched({})
  BY <1>1, SameLinks
<1>2. ASSUME NEW c \in Call, StartFirst(c) \/ StartReplacing(c)
      PROVE  ContinuationLinked'
  <2>1. PICK r \in Run : Created(r, NoRun) /\ Untouched({r})
    BY <1>2, StartCreates
  <2>2. \A n \in Run : n # NoRun
    BY DEF Run, NoRun
  <2>3. DOMAIN history[r] = {}
    BY <2>1 DEF Created
  <2>4. \A n \in Run : \A type \in LinkTypes :
           ~Says(history'[r], type, n) /\ ~Says(history[r], type, n)
    <3>1. \A n \in Run : \A type : ~Says(history[r], type, n)
      BY <2>3, NoHistorySays
    <3>2. \A n \in Run : \A type \in LinkTypes : ~Says(history'[r], type, n)
      BY <2>1, <2>2, CreatedSays DEF LinkTypes
    <3> QED
      BY <3>1, <3>2
  <2> QED
    BY <2>1, <2>4, SameLinks DEF Untouched
<1>3. ASSUME NEW c \in Call, CommitTerminate(c) PROVE ContinuationLinked'
  <2> DEFINE ev == Ev("WorkflowExecutionTerminated", c.id, 0)
             evs == <<ev>>
  <2>1. Extended(tx[c].run, evs) /\ Untouched({tx[c].run})
    BY <1>3, TerminateExtends
  <2>2. ev.type = "WorkflowExecutionTerminated"
    BY EvFields
  <2> HIDE DEF ev
  <2>3. \A k \in 1 .. Len(evs) : evs[k].type \notin LinkTypes
    BY <2>2 DEF LinkTypes
  <2> HIDE DEF evs
  <2> QED
    BY <2>1, <2>3, NeutralLinks
<1>4. ASSUME NEW p \in Call \cup Proc, CommitWake(p) PROVE ContinuationLinked'
  <2>1. Extended(tx[p].run, WakeEvs(tx[p])) /\ Untouched({tx[p].run})
    BY <1>4, WakeExtends
  <2>2. tx[p].ev.type \notin LinkTypes /\ "WorkflowTaskScheduled" \notin LinkTypes
    BY <1>4, WakeEvType DEF CommitWake, WokenTypes, LinkTypes
  <2>3. \A k \in 1 .. Len(WakeEvs(tx[p])) : WakeEvs(tx[p])[k].type \notin LinkTypes
    BY <2>2, WakeEvsAre, EvFields
  <2> QED
    BY <2>1, <2>3, NeutralLinks
<1>5. ASSUME NEW p \in Proc, RecordWorkflowTaskStarted(p) \/ RecordActivityTaskStarted(p)
      PROVE  ContinuationLinked'
  <2>1. PICK r \in Run, ev \in Event :
           /\ ev.type \in {"WorkflowTaskStarted", "ActivityTaskStarted"}
           /\ Extended(r, <<ev>>) /\ Untouched({r})
    BY <1>5, StartedExtends DEF StartedStep
  <2> DEFINE evs == <<ev>>
  <2>2. \A k \in 1 .. Len(evs) : evs[k].type \notin LinkTypes
    BY <2>1 DEF LinkTypes
  <2>3. Extended(r, evs)
    BY <2>1
  <2> HIDE DEF evs
  <2> QED
    BY <2>1, <2>2, <2>3, NeutralLinks
<1>6. ASSUME NEW cmds \in Seq(Command), NEW n, NEW k \in 1 .. Len(CommandEvents(cmds, n)),
             CommandEvents(cmds, n)[k].type \in LinkTypes
      PROVE  /\ Continues(cmds)
             /\ CommandEvents(cmds, n)[k] = Ev("WorkflowExecutionContinuedAsNew", 0, n)
  <2> DEFINE e == CommandEvents(cmds, n)[k]
  <2>1. e # Ev("WorkflowTaskCompleted", 0, 0)
    BY <1>6, EvFields DEF LinkTypes
  <2>2. /\ k - 1 \in DOMAIN cmds /\ cmds[k - 1] \in Command
        /\ e = CommandEvent(cmds[k - 1], n)
    BY <2>1, ResponseTypes
  <2> HIDE DEF e
  <2>3. cmds[k - 1].kind = "ContinueAsNewWorkflowExecution"
    <3>1. cmds[k - 1].kind \in CommandKinds
      BY <2>2 DEF Command
    <3>2. e.type \in LinkTypes
      BY <1>6 DEF e
    <3> QED
      BY <2>2, <3>1, <3>2, CommandEventIs, EvFields DEF CommandKinds, LinkTypes
  <2>4. Continues(cmds)
    BY <2>2, <2>3 DEF Continues, Indices
  <2>5. e = Ev("WorkflowExecutionContinuedAsNew", 0, n)
    BY <2>2, <2>3, CommandEventIs
  <2> QED
    BY <2>4, <2>5 DEF e
<1>7. ASSUME NEW p \in Proc, CommitWorkflowTask(p) PROVE ContinuationLinked'
  <2> DEFINE t == tx[p]
             r == t.row.run
  <2>1. Extended(r, CommandEvents(t.cmds, NoRun)) /\ Untouched({r})
    BY <1>7, ResponseExtends
  <2>2. t.cmds \in Seq(Command) /\ ~Continues(t.cmds)
    BY <1>7, TxWfComplete DEF CommitWorkflowTask, LogInv, TypeOK
  <2> HIDE DEF t, r
  <2>3. \A k \in 1 .. Len(CommandEvents(t.cmds, NoRun)) :
           CommandEvents(t.cmds, NoRun)[k].type \notin LinkTypes
    BY <1>6, <2>2
  <2> QED
    BY <2>1, <2>3, NeutralLinks
<1>8. ASSUME NEW p \in Proc, CommitContinueAsNew(p) PROVE ContinuationLinked'
  <2> DEFINE t == tx[p]
             r == t.row.run
  <2>1. PICK n \in Run :
           /\ Created(n, r) /\ n # r
           /\ Extended(r, CommandEvents(t.cmds, n)) /\ Untouched({r, n})
    BY <1>8, ContinueExtends
  <2>2. t.cmds \in Seq(Command) /\ Continues(t.cmds)
    BY <1>8, TxWfComplete DEF CommitContinueAsNew, LogInv, TypeOK
  <2> HIDE DEF t, r
  <2> DEFINE evs == CommandEvents(t.cmds, n)
  <2>3. \E k \in 1 .. Len(evs) : evs[k] = Ev("WorkflowExecutionContinuedAsNew", 0, n)
    <3>1. PICK i \in DOMAIN t.cmds : t.cmds[i].kind = "ContinueAsNewWorkflowExecution"
      BY <2>2 DEF Continues, Indices
    <3>2. t.cmds[i] \in Command /\ i \in Nat
      BY <2>2
    <3>3. i + 1 \in 2 .. Len(evs) /\ evs[i + 1] = CommandEvent(t.cmds[i], n)
          /\ Len(evs) \in Nat
      BY <2>2, ResponseEvents
    <3>4. evs[i + 1] = Ev("WorkflowExecutionContinuedAsNew", 0, n)
      BY <3>1, <3>2, <3>3, CommandEventIs
    <3> HIDE DEF evs
    <3>5. i + 1 \in 1 .. Len(evs)
      BY <3>2, <3>3
    <3> QED
      BY <3>4, <3>5
  <2>4. \A k \in 1 .. Len(evs) : evs[k].type \in LinkTypes =>
           evs[k] = Ev("WorkflowExecutionContinuedAsNew", 0, n)
    BY <1>6, <2>2
  <2>5. Len(evs) \in Nat /\ Appended(history[r], exec[r].next, evs, history'[r]) /\ r \in Run
    BY <2>1 DEF Extended
  <2> HIDE DEF evs
  <2>6. \A m \in Run :
           /\ Says(history'[r], "WorkflowExecutionStarted", m)
                 <=> Says(history[r], "WorkflowExecutionStarted", m)
           /\ Says(history'[r], "WorkflowExecutionContinuedAsNew", m)
                 <=> (Says(history[r], "WorkflowExecutionContinuedAsNew", m) \/ m = n)
    <3>1. \A k \in 1 .. Len(evs) : evs[k].type # "WorkflowExecutionStarted"
      BY <2>4, EvFields DEF LinkTypes
    <3>2. ASSUME NEW m
          PROVE  (\E k \in 1 .. Len(evs) : /\ evs[k].type = "WorkflowExecutionContinuedAsNew"
                                           /\ evs[k].ref = m) <=> m = n
      <4> DEFINE link == Ev("WorkflowExecutionContinuedAsNew", 0, n)
      <4>1. link.type = "WorkflowExecutionContinuedAsNew" /\ link.ref = n
        BY EvFields
      <4> HIDE DEF link
      <4>2. /\ \E k \in 1 .. Len(evs) : evs[k] = link
            /\ \A k \in 1 .. Len(evs) :
                  evs[k].type = "WorkflowExecutionContinuedAsNew" => evs[k] = link
        BY <2>3, <2>4 DEF LinkTypes, link
      <4> QED
        BY <4>1, <4>2
    <3>3. \A type, m : Says(history'[r], type, m) <=>
             \/ Says(history[r], type, m)
             \/ \E k \in 1 .. Len(evs) : evs[k].type = type /\ evs[k].ref = m
      <4>1. PICK h1, h2, next : /\ h1 = history[r] /\ h2 = history'[r] /\ next = exec[r].next
                                /\ Appended(h1, next, evs, h2)
        BY <2>5
      <4>2. Len(evs) \in Nat
        BY <2>5
      <4>3. ASSUME NEW type, NEW m
            PROVE  Says(h2, type, m) <=>
                      \/ Says(h1, type, m)
                      \/ \E k \in 1 .. Len(evs) : evs[k].type = type /\ evs[k].ref = m
        BY <4>1, <4>2, SaysAppended
      <4> QED
        BY <4>1, <4>3
    <3>4. \A m : Says(history'[r], "WorkflowExecutionStarted", m)
                 <=> Says(history[r], "WorkflowExecutionStarted", m)
      BY <3>1, <3>3
    <3>5. \A m : Says(history'[r], "WorkflowExecutionContinuedAsNew", m)
                 <=> (Says(history[r], "WorkflowExecutionContinuedAsNew", m) \/ m = n)
      BY <3>2, <3>3
    <3> QED
      BY <3>4, <3>5
  <2>7. DOMAIN history[n] = {}
    BY <2>1 DEF Created
  <2>8. \A m \in Run : \A type : ~Says(history[n], type, m)
    BY <2>7, NoHistorySays
  <2>9. \A m \in Run : /\ ~Says(history'[n], "WorkflowExecutionContinuedAsNew", m)
                       /\ Says(history'[n], "WorkflowExecutionStarted", m) <=> m = r
    BY <2>1, CreatedSays
  <2>10. ASSUME NEW a \in Run, NEW b \in Run
         PROVE  Says(history'[a], "WorkflowExecutionContinuedAsNew", b)
                <=> Says(history'[b], "WorkflowExecutionStarted", a)
    <3>0. Says(history[a], "WorkflowExecutionContinuedAsNew", b)
          <=> Says(history[b], "WorkflowExecutionStarted", a)
      BY LinkedIs
    <3>1. \A q \in Run \ {r, n} : history'[q] = history[q]
      BY <2>1 DEF Untouched
    <3> QED
      BY <2>1, <2>5, <2>6, <2>8, <2>9, <3>0, <3>1
  <2> QED
    BY <2>10, LinkedIsNext
<1> QED
  BY <1>1, <1>2, <1>3, <1>4, <1>5, <1>7, <1>8, CommitOrQuiet

(* A run that closed by continuing names its successor exactly if the      *)
(* successor names it: no crash, conflict or rival start ever shows one    *)
(* side of continueWorkflowAsNew's transaction without the other.          *)
THEOREM ContinuationsAreLinked == Spec => []ContinuationLinked
<1>1. Init => ContinuationLinked
  BY DEF Init, ContinuationLinked, Positions
<1>2. HistoryInv /\ ContinuationLinked /\ [Next]_vars => ContinuationLinked'
  BY ContinuationLinkedStep DEF HistoryInv
<1> QED
  BY <1>1, <1>2, HistoryInvInit, HistoryInvStep, PTL DEF Spec

-----------------------------------------------------------------------------
(* Where a waking event comes from.                                        *)

LEMMA OldEventsKept ==
    ASSUME LogInv, [Next]_vars, NEW r \in Run, NEW i \in DOMAIN history[r]
    PROVE  i \in DOMAIN history'[r] /\ history'[r][i] = history[r][i]
BY LogInvStep DEF Keeps, Grows, Log!Extends

(* Only a wake transaction's commit appends such an event: its own, as the *)
(* next event of its run.                                                  *)
LEMMA NewEvents ==
    ASSUME LogInv, TxInv, [Next]_vars,
           NEW r \in Run, NEW i \in DOMAIN history'[r], i \notin DOMAIN history[r],
           history'[r][i].type \in WokenTypes
    PROVE  \E p \in Call \cup Proc :
              /\ CommitWake(p) /\ r = tx[p].run /\ i = exec[r].next
              /\ history'[r][i] = tx[p].ev
<1>0. ASSUME NEW R, Untouched(R), r \notin R PROVE FALSE
  BY <1>0 DEF Untouched
<1>1. ASSUME NEW evs, Extended(r, evs)
      PROVE  \E k \in 1 .. Len(evs) : i = exec[r].next + k - 1 /\ history'[r][i] = evs[k]
  BY <1>1, AppendedCases DEF Extended
<1>2. ASSUME NEW from, Created(r, from) PROVE FALSE
  BY <1>2, EvFields DEF Created, WokenTypes
<1>3. CASE UNCHANGED history /\ Untouched({})
  BY <1>3
<1>4. ASSUME NEW c \in Call, StartFirst(c) \/ StartReplacing(c) PROVE FALSE
  BY <1>0, <1>2, <1>4, StartCreates
<1>5. ASSUME NEW c \in Call, CommitTerminate(c) PROVE FALSE
  <2> DEFINE ev == Ev("WorkflowExecutionTerminated", c.id, 0)
             evs == <<ev>>
  <2>1. Extended(tx[c].run, evs) /\ Untouched({tx[c].run})
    BY <1>5, TerminateExtends
  <2>2. ev.type \notin WokenTypes
    BY EvFields DEF WokenTypes
  <2> HIDE DEF ev
  <2>3. \A k \in 1 .. Len(evs) : evs[k].type \notin WokenTypes
    BY <2>2
  <2> HIDE DEF evs
  <2> QED
    BY <1>0, <1>1, <2>1, <2>3
<1>6. ASSUME NEW p \in Call \cup Proc, CommitWake(p)
      PROVE  r = tx[p].run /\ i = exec[r].next /\ history'[r][i] = tx[p].ev
  <2>1. Extended(tx[p].run, WakeEvs(tx[p])) /\ Untouched({tx[p].run})
    BY <1>6, WakeExtends
  <2>2. r = tx[p].run
    BY <1>0, <2>1
  <2>3. PICK k \in 1 .. Len(WakeEvs(tx[p])) :
           i = exec[r].next + k - 1 /\ history'[r][i] = WakeEvs(tx[p])[k]
    BY <1>1, <2>1, <2>2
  <2>4. k # 2
    BY <2>3, WakeEvsAre, EvFields DEF WokenTypes
  <2>5. k = 1
    BY <2>4, WakeEvsAre
  <2>6. exec[r].next \in Nat
    BY DEF LogInv, TypeOK
  <2> QED
    BY <2>2, <2>3, <2>5, <2>6, WakeEvsAre
<1>7. ASSUME NEW p \in Proc, RecordWorkflowTaskStarted(p) \/ RecordActivityTaskStarted(p)
      PROVE  FALSE
  <2>1. PICK q \in Run, ev \in Event :
           /\ ev.type \in {"WorkflowTaskStarted", "ActivityTaskStarted"}
           /\ Extended(q, <<ev>>) /\ Untouched({q})
    BY <1>7, StartedExtends DEF StartedStep
  <2> DEFINE evs == <<ev>>
  <2>2. \A k \in 1 .. Len(evs) : evs[k].type \notin WokenTypes
    BY <2>1 DEF WokenTypes
  <2>3. Extended(q, evs)
    BY <2>1
  <2> HIDE DEF evs
  <2> QED
    BY <1>0, <1>1, <2>1, <2>2, <2>3
<1>8. ASSUME NEW cmds \in Seq(Command), NEW n, NEW k \in 1 .. Len(CommandEvents(cmds, n))
      PROVE  CommandEvents(cmds, n)[k].type \notin WokenTypes
  BY ResponseTypes, EvFields DEF WokenTypes, CommandTypes
<1>9. ASSUME NEW p \in Proc, CommitWorkflowTask(p) PROVE FALSE
  <2>1. /\ Extended(tx[p].row.run, CommandEvents(tx[p].cmds, NoRun))
        /\ Untouched({tx[p].row.run})
    BY <1>9, ResponseExtends
  <2>2. tx[p].cmds \in Seq(Command)
    BY <1>9, TxWfComplete DEF CommitWorkflowTask, LogInv, TypeOK
  <2> QED
    BY <1>0, <1>1, <1>8, <2>1, <2>2
<1>10. ASSUME NEW p \in Proc, CommitContinueAsNew(p) PROVE FALSE
  <2>1. PICK n \in Run :
           /\ Created(n, tx[p].row.run)
           /\ Extended(tx[p].row.run, CommandEvents(tx[p].cmds, n))
           /\ Untouched({tx[p].row.run, n})
    BY <1>10, ContinueExtends
  <2>2. tx[p].cmds \in Seq(Command)
    BY <1>10, TxWfComplete DEF CommitContinueAsNew, LogInv, TypeOK
  <2>3. CASE r = n
    BY <1>2, <2>1, <2>3
  <2>4. CASE r = tx[p].row.run
    BY <1>1, <1>8, <2>1, <2>2, <2>4
  <2> QED
    BY <1>0, <2>1, <2>3, <2>4
<1> QED
  BY <1>3, <1>4, <1>5, <1>6, <1>7, <1>9, <1>10, CommitOrQuiet

(* The event a wake transaction's commit appends.                          *)
LEMMA WakeAppendsEvent ==
    ASSUME LogInv, NEW p \in Call \cup Proc, CommitWake(p)
    PROVE  LET r == tx[p].run
           IN  /\ r \in Run /\ exec[r].next \in DOMAIN history'[r]
               /\ exec[r].next \notin DOMAIN history[r]
               /\ history'[r][exec[r].next] = tx[p].ev
<1> DEFINE r == tx[p].run
           n == exec[r].next
           evs == WakeEvs(tx[p])
<1>1. r \in Run /\ Appended(history[r], n, evs, history'[r])
  BY WakeExtends DEF Extended
<1>2. Len(evs) = 2 /\ evs[1] = tx[p].ev
  BY WakeEvsAre
<1> HIDE DEF evs, n, r
<1>3. /\ n \in Nat \ {0} /\ DOMAIN history[r] = 1 .. (n - 1)
      /\ DOMAIN history'[r] = 1 .. (n + Len(evs) - 1)
      /\ \A k \in 1 .. Len(evs) : history'[r][n + k - 1] = evs[k]
  BY <1>1 DEF Appended
<1>4. history'[r][n + 1 - 1] = evs[1] /\ n + 1 - 1 = n
  BY <1>2, <1>3
<1>5. n \in 1 .. (n + Len(evs) - 1) /\ n \notin 1 .. (n - 1)
  BY <1>2, <1>3
<1> QED
  BY <1>1, <1>2, <1>3, <1>4, <1>5 DEF r, n

-----------------------------------------------------------------------------
(* A request changes no other request's transaction.                       *)
LEMMA OthersKeepTx ==
    ASSUME TypeOK, NEW p \in Call \cup Proc,
           (p \in Call /\ CallStep(p)) \/ (p \in Proc /\ ProcStep(p)) \/ Crash(p)
    PROVE  \A q \in (Call \cup Proc) \ {p} : tx'[q] = tx[q]
<1>1. ASSUME \E t : Set(p, t) PROVE \A q \in (Call \cup Proc) \ {p} : tx'[q] = tx[q]
  BY <1>1 DEF Set, TypeOK
<1>2. CASE p \in Call /\ CallStep(p)
  <2>1. \E t : Set(p, t)
    <3>1. ASSUME StartFirst(p) \/ StartOnExisting(p) \/ StartReplacing(p)
          PROVE  \E t : Set(p, t)
      BY <3>1 DEF StartFirst, StartOnExisting, StartReplacing
    <3>2. ASSUME \/ SignalWorkflowExecution(p) \/ RequestCancelWorkflowExecution(p)
                 \/ RetryOnConflict(p) \/ CommitWake(p)
          PROVE  \E t : Set(p, t)
      BY <3>2 DEF SignalWorkflowExecution, RequestCancelWorkflowExecution,
           RetryOnConflict, CommitWake
    <3>3. ASSUME \/ TerminateWorkflowExecution(p) \/ CommitTerminate(p)
                 \/ ConflictedTerminate(p)
          PROVE  \E t : Set(p, t)
      BY <3>3 DEF TerminateWorkflowExecution, CommitTerminate, ConflictedTerminate
    <3> QED
      BY <1>2, <3>1, <3>2, <3>3 DEF CallStep
  <2> QED
    BY <1>1, <2>1
<1>3. CASE p \in Proc /\ ProcStep(p)
  <2>1. (\E t : Set(p, t)) \/ UNCHANGED tx
    <3>1. ASSUME \/ FireDueTimer(p) \/ CommitWake(p) \/ CompleteActivityTask(p)
                 \/ RetryActivityTask(p) \/ FailActivityTask(p)
                 \/ \E w \in Worker : DispatchWorkflowTask(p, w)
          PROVE  (\E t : Set(p, t)) \/ UNCHANGED tx
      BY <3>1 DEF FireDueTimer, CommitWake, CompleteActivityTask, RetryActivityTask,
           FailActivityTask, DispatchWorkflowTask
    <3>2. ASSUME \/ BeginWorkflowTaskStarted(p) \/ RecordWorkflowTaskStarted(p)
                 \/ DeliverWorkflowTask(p) \/ CompleteWorkflowTask(p)
                 \/ CommitWorkflowTask(p) \/ CommitContinueAsNew(p)
                 \/ RejectWorkflowTask(p)
          PROVE  \E t : Set(p, t)
      BY <3>2 DEF BeginWorkflowTaskStarted, RecordWorkflowTaskStarted,
           DeliverWorkflowTask, CompleteWorkflowTask, CommitWorkflowTask,
           CommitContinueAsNew, RejectWorkflowTask
    <3>3. ASSUME \/ FailWorkflowTask(p) \/ FailClearSticky(p) \/ FailEnqueue(p)
                 \/ DispatchActivityTask(p) \/ BeginActivityTaskStarted(p)
                 \/ RecordActivityTaskStarted(p) \/ AbortOnConflict(p)
          PROVE  \E t : Set(p, t)
      BY <3>3 DEF FailWorkflowTask, FailClearSticky, FailEnqueue,
           DispatchActivityTask, BeginActivityTaskStarted,
           RecordActivityTaskStarted, AbortOnConflict
    <3> QED
      BY <1>3, <3>1, <3>2, <3>3 DEF ProcStep
  <2> QED
    BY <1>1, <2>1
<1>4. CASE Crash(p)
  BY <1>1, <1>4 DEF Crash
<1> QED
  BY <1>2, <1>3, <1>4

LEMMA SetIs ==
    ASSUME TypeOK, NEW p \in Proc, NEW t, Set(p, t)
    PROVE  tx'[p] = t /\ \A q \in Proc : q # p => tx'[q] = tx[q]
BY DEF TypeOK, Set

(* A call never touches a goroutine's request.                             *)
LEMMA CallCalm ==
    ASSUME TypeOK, NEW c \in Call, CallStep(c) \/ Crash(c)
    PROVE  \A q \in Proc : tx'[q] = tx[q]
<1>1. \A q \in Proc : q \in (Call \cup Proc) \ {c}
  BY ConstantsAssumption
<1> QED
  BY <1>1, OthersKeepTx

(* Steps of no request.                                                    *)
LEMMA NobodysStep ==
    ASSUME \/ ReapWorkflowTask \/ ReapActivityTask \/ StickyRegistrationLapses
           \/ StickyDeadlinePasses \/ UNCHANGED vars
    PROVE  UNCHANGED tx
BY DEF ReapWorkflowTask, ReapActivityTask, StickyRegistrationLapses,
       StickyDeadlinePasses, vars

Acknowledged(t) == t.op = "done" /\ t.ok

LEMMA EndAcknowledged ==
    /\ ~Acknowledged(Idle)
    /\ \A r : ~Acknowledged(Done(FALSE, r)) /\ Acknowledged(Done(TRUE, r))
BY DEF Acknowledged, Idle, Done

(* A signal or cancel call is acknowledged by its commit and by no other   *)
(* step, and stays so.                                                     *)
LEMMA AcknowledgedByCommit ==
    ASSUME LogInv, TxInv, [Next]_vars,
           NEW c \in Call, c.op \in {"Signal", "Cancel"}
    PROVE  /\ CommitWake(c) => ~Acknowledged(tx[c]) /\ Acknowledged(tx'[c])
           /\ ~CommitWake(c) => (Acknowledged(tx'[c]) <=> Acknowledged(tx[c]))
<1>0. TypeOK /\ c \in Call \cup Proc /\ c \notin Proc /\ TxOf(c, tx[c])
  BY ConstantsAssumption DEF LogInv, TxInv
<1>s. ASSUME NEW t, Set(c, t) PROVE tx'[c] = t
  BY <1>0, <1>s DEF Set, TypeOK
<1>1. ASSUME CommitWake(c) PROVE ~Acknowledged(tx[c]) /\ Acknowledged(tx'[c])
  <2>1. tx[c].op = "wake" /\ Set(c, Done(TRUE, tx[c].run))
    BY <1>1 DEF CommitWake
  <2>2. tx'[c] = Done(TRUE, tx[c].run)
    BY <1>s, <2>1
  <2> QED
    BY <2>1, <2>2, EndAcknowledged DEF Acknowledged
<1>2. ASSUME NEW p \in Call \cup Proc, p # c,
             (p \in Call /\ CallStep(p)) \/ (p \in Proc /\ ProcStep(p)) \/ Crash(p)
      PROVE  tx'[c] = tx[c]
  BY <1>0, <1>2, OthersKeepTx
<1>3. ASSUME CallStep(c), ~CommitWake(c)
      PROVE  ~Acknowledged(tx[c]) /\ ~Acknowledged(tx'[c])
  <2>1. ~(StartFirst(c) \/ StartOnExisting(c) \/ StartReplacing(c))
    BY <1>0 DEF StartFirst, StartOnExisting, StartReplacing, TxOf
  <2>2. ~(TerminateWorkflowExecution(c) \/ CommitTerminate(c) \/ ConflictedTerminate(c))
    BY <1>0 DEF TerminateWorkflowExecution, CommitTerminate, ConflictedTerminate, TxOf
  <2>3. ASSUME NEW n PROVE ~Acknowledged(WakeAttempt(c, n))
    <3>1. ASSUME NEW r, NEW e PROVE ~Acknowledged(Wake(r, e, {}, {}, n))
      BY WakeFields DEF Acknowledged
    <3> QED
      BY <3>1, EndAcknowledged DEF WakeAttempt
  <2>4. CASE SignalWorkflowExecution(c)
    BY <1>s, <2>3, <2>4 DEF SignalWorkflowExecution, Acknowledged
  <2>5. CASE RequestCancelWorkflowExecution(c)
    BY <1>s, <2>3, <2>5 DEF RequestCancelWorkflowExecution, Acknowledged
  <2>6. CASE RetryOnConflict(c)
    <3>1. tx[c].op = "wake"
      BY <2>6 DEF RetryOnConflict
    <3>2. \/ tx'[c] = WakeAttempt(c, tx[c].tries + 1)
          \/ tx'[c] = Done(FALSE, NoRun)
      BY <1>s, <2>6 DEF RetryOnConflict
    <3> QED
      BY <2>3, <3>1, <3>2, EndAcknowledged DEF Acknowledged
  <2> QED
    BY <1>3, <2>1, <2>2, <2>4, <2>5, <2>6 DEF CallStep
<1>4. ASSUME Crash(c) PROVE ~Acknowledged(tx[c]) /\ ~Acknowledged(tx'[c])
  <2>1. tx[c].op \in CrashPoints /\ Set(c, Done(FALSE, NoRun))
    BY <1>4 DEF Crash
  <2>2. tx[c].op # "done"
    BY <2>1, ConstantsAssumption
  <2> QED
    BY <1>s, <2>1, <2>2, EndAcknowledged DEF Acknowledged
<1>5. CASE \/ ReapWorkflowTask \/ ReapActivityTask \/ StickyRegistrationLapses
           \/ StickyDeadlinePasses \/ UNCHANGED vars
  BY <1>1, <1>5, NobodysStep
<1> QED
  BY <1>0, <1>1, <1>2, <1>3, <1>4, <1>5 DEF Next

(* A call's event is only ever written by the call itself.                 *)
LEMMA OwnEvent ==
    ASSUME TxInv, NEW c \in Call, c.op \in {"Signal", "Cancel"},
           NEW p \in Call \cup Proc, tx[p].op = "wake", tx[p].ev = CallEvent(c)
    PROVE  p = c
<1>1. /\ CallEvent(c).id = c.id
      /\ CallEvent(c).type \notin ActivityOutcomes \cup {"TimerFired"}
  BY EvFields DEF CallEvent, ActivityOutcomes
<1>2. CASE p \in Call
  <2>1. CallEvent(p) = CallEvent(c)
    BY <1>2 DEF TxInv, TxOf, CallWake
  <2>2. CallEvent(p).id = p.id
    BY EvFields DEF CallEvent
  <2> QED
    BY <1>1, <1>2, <2>1, <2>2, ConstantsAssumption
<1>3. CASE p \in Proc
  <2>1. \/ \E row \in ActRow : ActWake(tx[p], row)
        \/ \E tm \in TimerRow : TimerWake(tx[p], tm)
    BY <1>3 DEF TxInv, TxOf
  <2>2. tx[p].ev.type \in ActivityOutcomes \cup {"TimerFired"}
    BY <2>1, EvFields DEF ActWake, TimerWake
  <2> QED
    BY <1>1, <2>2
<1> QED
  BY <1>2, <1>3

(* WokenExactlyOnce of one call.                                           *)
WokenOnce(c) ==
    /\ \A r, s \in Run : \A i \in DOMAIN history[r], j \in DOMAIN history[s] :
          history[r][i] = CallEvent(c) /\ history[s][j] = CallEvent(c)
          => r = s /\ i = j
    /\ (\E r \in Run : \E i \in DOMAIN history[r] : history[r][i] = CallEvent(c))
       <=> Acknowledged(tx[c])

LEMMA WokenOnceStep ==
    ASSUME LogInv, TxInv, [Next]_vars,
           NEW c \in Call, c.op \in {"Signal", "Cancel"}, WokenOnce(c)
    PROVE  WokenOnce(c)'
<1>1. CallEvent(c).type \in WokenTypes
  BY EvFields DEF CallEvent, WokenTypes
<1>2. ASSUME NEW r \in Run, NEW i \in DOMAIN history'[r], i \notin DOMAIN history[r],
             history'[r][i] = CallEvent(c)
      PROVE  CommitWake(c) /\ r = tx[c].run /\ i = exec[r].next
  <2>1. PICK p \in Call \cup Proc :
           /\ CommitWake(p) /\ r = tx[p].run /\ i = exec[r].next
           /\ history'[r][i] = tx[p].ev
    BY <1>1, <1>2, NewEvents
  <2>2. tx[p].op = "wake"
    BY <2>1 DEF CommitWake
  <2>3. p = c
    BY <1>2, <2>1, <2>2, OwnEvent
  <2> QED
    BY <2>1, <2>3
<1>3. ASSUME NEW r \in Run, NEW i \in DOMAIN history[r]
      PROVE  i \in DOMAIN history'[r] /\ history'[r][i] = history[r][i]
  BY <1>3, OldEventsKept
<1>4. /\ CommitWake(c) => ~Acknowledged(tx[c]) /\ Acknowledged(tx'[c])
      /\ ~CommitWake(c) => (Acknowledged(tx'[c]) <=> Acknowledged(tx[c]))
  BY AcknowledgedByCommit
<1>5. CallEvent(c)' = CallEvent(c)
  BY DEF CallEvent, Ev
<1>6. CASE CommitWake(c)
  <2>1. \A r \in Run : \A i \in DOMAIN history[r] : history[r][i] # CallEvent(c)
    BY <1>4, <1>6 DEF WokenOnce
  <2>2. tx[c].ev = CallEvent(c)
    BY <1>6 DEF TxInv, TxOf, CallWake, CommitWake
  <2>3. \E r \in Run : \E i \in DOMAIN history'[r] : history'[r][i] = CallEvent(c)
    BY <1>6, <2>2, WakeAppendsEvent
  <2>4. ASSUME NEW r \in Run, NEW i \in DOMAIN history'[r],
               history'[r][i] = CallEvent(c)
        PROVE  r = tx[c].run /\ i = exec[r].next
    BY <1>2, <1>3, <2>1, <2>4
  <2> QED
    BY <1>4, <1>5, <1>6, <2>3, <2>4 DEF WokenOnce
<1>7. CASE ~CommitWake(c)
  <2>1. ASSUME NEW r \in Run, NEW i \in DOMAIN history'[r],
               history'[r][i] = CallEvent(c)
        PROVE  i \in DOMAIN history[r] /\ history[r][i] = CallEvent(c)
    BY <1>2, <1>3, <1>7, <2>1
  <2> QED
    BY <1>3, <1>4, <1>5, <1>7, <2>1 DEF WokenOnce
<1> QED
  BY <1>6, <1>7

(* A signal or cancel request is in history exactly once if its caller was *)
(* told so and not at all otherwise: withTxRetryOnConflict never runs a    *)
(* second attempt after one that committed, nor reports an attempt that    *)
(* did not.                                                                *)
THEOREM AcknowledgedOnce == Spec => []WokenExactlyOnce
<1> DEFINE Calls == {d \in Call : d.op \in {"Signal", "Cancel"}}
           Once == \A c \in Calls : WokenOnce(c)
<1>1. Init => Once
  <2> SUFFICES ASSUME Init, NEW c \in Calls PROVE WokenOnce(c)
    OBVIOUS
  <2>1. tx[c] = Idle /\ \A r \in Run : DOMAIN history[r] = {}
    BY DEF Init
  <2> QED
    BY <2>1, EndAcknowledged DEF WokenOnce
<1>2. HistoryInv /\ Once /\ [Next]_vars => Once'
  <2> SUFFICES ASSUME HistoryInv, Once, [Next]_vars, NEW c \in Calls
               PROVE  WokenOnce(c)'
    OBVIOUS
  <2> QED
    BY WokenOnceStep DEF HistoryInv
<1>3. Once <=> WokenExactlyOnce
  BY DEF WokenOnce, WokenExactlyOnce, Acknowledged
<1> HIDE DEF Once
<1> QED
  BY <1>1, <1>2, <1>3, HistoryInvInit, HistoryInvStep, PTL DEF Spec
=============================================================================
