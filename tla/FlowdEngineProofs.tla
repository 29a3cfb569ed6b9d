------------------------- MODULE FlowdEngineProofs --------------------------
(***************************************************************************)
(* Proofs about FlowdEngine, for every number of runs, workers, calls and  *)
(* processes, every workflow function and every bound.                     *)
(***************************************************************************)
EXTENDS FlowdEngine, TLAPS

Preference == Worker \cup {NoWorker}
ExecRow == [status : Statuses, next : Nat \ {0}, sticky : Preference]

-----------------------------------------------------------------------------
(* What an in-flight transaction of each kind holds.                       *)

LEMMA TxStart ==
    ASSUME NEW t \in Tx, t.op = "start" PROVE t.req \in Nat
BY DEF Tx

LEMMA TxTerminate ==
    ASSUME NEW t \in Tx, t.op = "terminate"
    PROVE  t.run \in Run /\ t.expect \in Nat
BY DEF Tx

LEMMA TxWake ==
    ASSUME NEW t \in Tx, t.op = "wake"
    PROVE  /\ t.run \in Run /\ t.expect \in Nat /\ t.ev \in Event
           /\ t.act \subseteq ActRow /\ t.timer \subseteq TimerRow
           /\ t.pref \in Preference /\ t.tries \in Nat
BY DEF Tx, Preference

LEMMA TxWfStart ==
    ASSUME NEW t \in Tx, t.op \in {"wfdequeued", "wfstart", "wflist"}
    PROVE  /\ t.task \in Nat /\ t.lease \in Nat /\ t.worker \in Worker
           /\ t.run \in Run
           /\ t.op = "wfstart" => t.expect \in Nat
BY DEF Tx

LEMMA TxWfComplete ==
    ASSUME NEW t \in Tx, t.op = "wfcomplete"
    PROVE  /\ t.row \in WfRow /\ t.expect \in Nat /\ t.cmds \in Seq(Command)
           /\ t.token \in WfToken
BY DEF Tx

LEMMA TxWfFail ==
    ASSUME NEW t \in Tx, t.op = "wffail"
    PROVE  t.run \in Run /\ RunOf([t EXCEPT !.cleared = TRUE]) = t.run
BY DEF Tx, RunOf

LEMMA TxActStart ==
    ASSUME NEW t \in Tx, t.op \in {"actdequeued", "actstart"}
    PROVE  t.row \in ActRow /\ (t.op = "actstart" => t.expect \in Nat)
BY DEF Tx

-----------------------------------------------------------------------------
(* The operators of the write paths.                                       *)

LEMMA InsertTyped ==
    ASSUME NEW h, \A i \in DOMAIN h : i \in Nat /\ h[i] \in Event,
           NEW n \in Nat, NEW evs \in Seq(Event)
    PROVE  \A i \in DOMAIN Insert(h, n, evs) :
              i \in Nat /\ Insert(h, n, evs)[i] \in Event
BY DEF Insert

LEMMA InsertAtEnd ==
    ASSUME NEW n \in Nat \ {0}, NEW h, DOMAIN h = 1 .. (n - 1),
           NEW evs \in Seq(Event)
    PROVE  /\ DOMAIN Insert(h, n, evs) = 1 .. (n + Len(evs) - 1)
           /\ \A i \in DOMAIN h : Insert(h, n, evs)[i] = h[i]
BY DEF Insert

LEMMA AdvanceTyped ==
    ASSUME NEW e \in ExecRow, NEW evs \in Seq(Event)
    PROVE  /\ Advance(e, evs) \in ExecRow
           /\ Advance(e, evs).next = e.next + Len(evs)
           /\ Advance(e, evs).status = e.status
BY DEF Advance, ExecRow

LEMMA EvTyped ==
    ASSUME NEW type \in EventTypes, NEW id \in Nat, NEW ref \in Nat
    PROVE  Ev(type, id, ref) \in Event
BY DEF Ev, Event

LEMMA StartEventsTyped ==
    ASSUME NEW from \in Nat
    PROVE  StartEvents(from) \in Seq(Event) /\ Len(StartEvents(from)) = 2
BY EvTyped DEF StartEvents, EventTypes, NoRun

LEMMA CommandEventsTyped ==
    ASSUME NEW cmds \in Seq(Command), NEW newRun \in Nat
    PROVE  /\ CommandEvents(cmds, newRun) \in Seq(Event)
           /\ Len(CommandEvents(cmds, newRun)) = Len(cmds) + 1
<1>0. \A i \in 1 .. Len(cmds) : cmds[i] \in Command
  OBVIOUS
<1>1. \A i \in 1 .. Len(cmds) : cmds[i].id \in Nat
  BY <1>0 DEF Command
<1>2. \A i \in 1 .. Len(cmds) : CommandEvent(cmds[i], newRun) \in Event
  BY <1>1, EvTyped DEF CommandEvent, EventTypes
<1>3. Ev("WorkflowTaskCompleted", 0, 0) \in Event
  BY EvTyped DEF EventTypes
<1> QED
  BY <1>2, <1>3 DEF CommandEvents

LEMMA RespondedTyped ==
    ASSUME NEW e \in ExecRow, NEW t, t.token \in WfToken, NEW evs \in Seq(Event)
    PROVE  /\ Responded(e, t, evs) \in ExecRow
           /\ Responded(e, t, evs).next = e.next + Len(evs)
           /\ e.status # "NONE" => Responded(e, t, evs).status # "NONE"
<1>1. CloseStatus(t.cmds, e.status) \in Statuses
      /\ (e.status # "NONE" => CloseStatus(t.cmds, e.status) # "NONE")
  BY DEF CloseStatus, Statuses, ExecRow
<1>2. t.token.worker \in Preference /\ NoWorker \in Preference
  BY DEF WfToken, Preference
<1> QED
  BY <1>1, <1>2, AdvanceTyped DEF Responded, ExecRow

LEMMA LeasedTyped ==
    /\ \A row \in WfRow : Leased(row) \in WfRow /\ Leased(row).run = row.run
    /\ \A row \in ActRow : Leased(row) \in ActRow /\ Leased(row).run = row.run
<1>1. ASSUME NEW row \in WfRow PROVE Leased(row) \in WfRow /\ Leased(row).run = row.run
  <2>1. ASSUME NEW n \in Nat
        PROVE  LET new == [row EXCEPT !.status = "STARTED", !.lease = n]
               IN  new \in WfRow /\ new.run = row.run
    BY DEF WfRow
  <2>2. row.lease + 1 \in Nat
    BY DEF WfRow
  <2> QED
    BY <2>1, <2>2 DEF Leased
<1>2. ASSUME NEW row \in ActRow PROVE Leased(row) \in ActRow /\ Leased(row).run = row.run
  <2>1. ASSUME NEW n \in Nat
        PROVE  LET new == [row EXCEPT !.status = "STARTED", !.lease = n]
               IN  new \in ActRow /\ new.run = row.run
    BY DEF ActRow
  <2>2. row.lease + 1 \in Nat
    BY DEF ActRow
  <2> QED
    BY <2>1, <2>2 DEF Leased
<1> QED
  BY <1>1, <1>2

-----------------------------------------------------------------------------
(* Type correctness.                                                       *)

(* The conjuncts of TypeOK about workflow_executions and history_events.   *)
RunsTyped(ex, hs) ==
    /\ ex \in [Run -> ExecRow]
    /\ DOMAIN hs = Run
    /\ \A r \in Run : \A i \in DOMAIN hs[r] : i \in Nat /\ hs[r][i] \in Event

LEMMA RunsTypedOfTypeOK == TypeOK => RunsTyped(exec, history)
BY DEF TypeOK, RunsTyped, ExecRow, Preference

LEMMA AppendTyped ==
    ASSUME NEW ex, NEW hs, RunsTyped(ex, hs),
           NEW r \in Run, NEW n \in Nat, NEW evs \in Seq(Event), NEW e \in ExecRow
    PROVE  RunsTyped([ex EXCEPT ![r] = e], [hs EXCEPT ![r] = Insert(@, n, evs)])
<1> DEFINE new == Insert(hs[r], n, evs)
<1>1. \A i \in DOMAIN new : i \in Nat /\ new[i] \in Event
  BY InsertTyped DEF RunsTyped
<1> HIDE DEF new
<1>2. RunsTyped([ex EXCEPT ![r] = e], [hs EXCEPT ![r] = new])
  BY <1>1 DEF RunsTyped
<1> QED
  BY <1>2 DEF new

LEMMA CreateRunTyped ==
    ASSUME NEW ex, NEW hs, RunsTyped(ex, hs), NEW rows, rows \subseteq WfRow,
           NEW r \in Run, NEW req \in Nat, NEW from \in Nat, nextTask \in Nat,
           CreateRun(ex, hs, rows, r, req, from)
    PROVE  /\ RunsTyped(exec', history') /\ wfTasks' \subseteq WfRow
           /\ nextTask' \in Nat /\ current' \in [run : Run \cup {NoRun}, req : Nat]
<1>1. NewExec \in ExecRow /\ NewExec.next = 1
  BY DEF NewExec, ExecRow, Statuses, Preference
<1>2. Advance(NewExec, StartEvents(from)) \in ExecRow
  BY <1>1, StartEventsTyped, AdvanceTyped
<1> DEFINE new == Insert(<<>>, NewExec.next, StartEvents(from))
<1>3. \A i \in DOMAIN new : i \in Nat /\ new[i] \in Event
  <2>1. \A i \in DOMAIN <<>> : i \in Nat /\ <<>>[i] \in Event
    OBVIOUS
  <2> QED
    BY <1>1, <2>1, StartEventsTyped, InsertTyped
<1> HIDE DEF new
<1>4. RunsTyped([ex EXCEPT ![r] = Advance(NewExec, StartEvents(from))],
                [hs EXCEPT ![r] = new])
  BY <1>2, <1>3 DEF RunsTyped
<1>5. RunsTyped(exec', history')
  BY <1>4 DEF CreateRun, new
<1>6. wfTasks' \subseteq WfRow
  BY DEF CreateRun, EnqueueWorkflowTask, WfRow
<1> QED
  BY <1>5, <1>6 DEF CreateRun

LEMMA SetTyped ==
    ASSUME TypeOK, NEW p \in Call \cup Proc, NEW t \in Tx, Set(p, t)
    PROVE  tx' \in [Call \cup Proc -> Tx]
BY DEF TypeOK, Set

LEMMA EndTyped ==
    /\ Idle \in Tx
    /\ \A ok \in BOOLEAN, r \in Nat : Done(ok, r) \in Tx
BY DEF Idle, Done, Tx

LEMMA RunIsNat == Run \subseteq Nat /\ NoRun \in Nat /\ NoReq \in Nat
BY ConstantsAssumption DEF Run, NoRun, NoReq

LEMMA CallFields ==
    ASSUME NEW c \in Call
    PROVE  c.id \in Nat /\ c.target \in Nat /\ c.req \in Nat
BY ConstantsAssumption

LEMMA WakeTyped ==
    ASSUME TypeOK, NEW r \in Run, NEW ev \in Event, NEW act, act \subseteq ActRow,
           NEW timer, timer \subseteq TimerRow, NEW tries \in Nat
    PROVE  Wake(r, ev, act, timer, tries) \in Tx
<1>1. exec[r].next \in Nat /\ exec[r].sticky \in Worker \cup {NoWorker}
  BY DEF TypeOK
<1> QED
  BY <1>1 DEF Wake, Tx

LEMMA WakeAttemptTyped ==
    ASSUME TypeOK, NEW c \in Call, NEW tries \in Nat
    PROVE  WakeAttempt(c, tries) \in Tx
<1>1. CallEvent(c) \in Event
  BY CallFields, EvTyped DEF CallEvent, EventTypes
<1>2. CASE Exists(Target(c))
  BY <1>1, <1>2, WakeTyped DEF WakeAttempt, Exists
<1>3. CASE ~Exists(Target(c))
  BY <1>3, EndTyped, RunIsNat DEF WakeAttempt
<1> QED
  BY <1>2, <1>3

(* A step that only reads the tables.                                      *)
LEMMA ReadTyped ==
    ASSUME TypeOK, UNCHANGED <<tables, seen, spent>>,
           tx' \in [Call \cup Proc -> Tx],
           tokens' \subseteq tokens, actTokens' \subseteq actTokens
    PROVE  TypeOK'
BY DEF TypeOK, tables

(* The typing of the two tables an append writes, put back into TypeOK.    *)
LEMMA TypeOKOfRunsTyped ==
    ASSUME NEW ex, NEW hs, RunsTyped(ex, hs)
    PROVE  /\ ex \in [Run -> [status : Statuses, next : Nat \ {0},
                              sticky : Worker \cup {NoWorker}]]
           /\ DOMAIN hs = Run
           /\ \A r \in Run : \A i \in DOMAIN hs[r] :
                 i \in Nat /\ hs[r][i] \in Event
BY DEF RunsTyped, ExecRow, Preference

LEMMA CommitWakeTyped ==
    ASSUME TypeOK, NEW p \in Call \cup Proc, CommitWake(p)
    PROVE  TypeOK'
<1> DEFINE t == tx[p]
           evs == <<t.ev, Ev("WorkflowTaskScheduled", 0, 0)>>
           e == Advance(exec[t.run], evs)
<1>1. /\ t.run \in Run /\ t.expect \in Nat /\ t.ev \in Event
      /\ t.pref \in Preference
  BY TxWake DEF CommitWake, TypeOK
<1>2. evs \in Seq(Event)
  BY <1>1, EvTyped DEF EventTypes
<1>3. RunsTyped(exec, history)
  BY RunsTypedOfTypeOK
<1>4. e \in ExecRow
  BY <1>1, <1>2, <1>3, AdvanceTyped DEF RunsTyped
<1>5. /\ exec' = [exec EXCEPT ![t.run] = e]
      /\ history' = [history EXCEPT ![t.run] = Insert(@, t.expect, evs)]
  BY DEF CommitWake
<1>6. RunsTyped(exec', history')
  <2> HIDE DEF e, evs
  <2> QED
    BY <1>1, <1>2, <1>3, <1>4, <1>5, AppendTyped
<1>7. wfTasks' \subseteq WfRow /\ nextTask' \in Nat
  BY <1>1 DEF CommitWake, EnqueueWorkflowTask, WfRow, Preference, TypeOK
<1>8. tx' \in [Call \cup Proc -> Tx]
  BY <1>1, SetTyped, EndTyped, RunIsNat DEF CommitWake
<1> QED
  BY <1>6, <1>7, <1>8, TypeOKOfRunsTyped DEF CommitWake, TypeOK

LEMMA CallStepTyped ==
    ASSUME TypeOK, NEW c \in Call, CallStep(c)
    PROVE  TypeOK'
<1>0. c \in Call \cup Proc /\ tx[c] \in Tx /\ RunsTyped(exec, history)
      /\ nextTask \in Nat /\ wfTasks \subseteq WfRow
  BY RunsTypedOfTypeOK DEF TypeOK
<1>1. CASE StartFirst(c)
  <2>1. PICK r \in Run : /\ CreateRun(exec, history, wfTasks, r, c.req, NoRun)
                         /\ Set(c, Done(TRUE, r))
    BY <1>1 DEF StartFirst
  <2>2. tx' \in [Call \cup Proc -> Tx]
    BY <1>0, <2>1, SetTyped, EndTyped, RunIsNat
  <2>3. /\ RunsTyped(exec', history') /\ wfTasks' \subseteq WfRow
        /\ nextTask' \in Nat /\ current' \in [run : Run \cup {NoRun}, req : Nat]
    BY <1>0, <2>1, CreateRunTyped, RunIsNat, CallFields
  <2> QED
    BY <1>1, <2>2, <2>3, TypeOKOfRunsTyped DEF StartFirst, TypeOK
<1>2. CASE StartOnExisting(c)
  <2>1. [op |-> "start", req |-> c.req] \in Tx
    BY CallFields DEF Tx
  <2>2. current.run \in Nat
    BY RunIsNat DEF TypeOK
  <2>3. tx' \in [Call \cup Proc -> Tx]
    BY <1>0, <1>2, <2>1, <2>2, SetTyped, EndTyped, RunIsNat DEF StartOnExisting
  <2> QED
    BY <1>2, <2>3, ReadTyped DEF StartOnExisting
<1>3. CASE StartReplacing(c)
  <2>1. PICK r \in Run : /\ CreateRun(exec, history, wfTasks, r, tx[c].req, NoRun)
                         /\ Set(c, Done(TRUE, r))
    BY <1>3 DEF StartReplacing
  <2>2. tx' \in [Call \cup Proc -> Tx]
    BY <1>0, <2>1, SetTyped, EndTyped, RunIsNat
  <2>3. /\ RunsTyped(exec', history') /\ wfTasks' \subseteq WfRow
        /\ nextTask' \in Nat /\ current' \in [run : Run \cup {NoRun}, req : Nat]
    <3>1. tx[c].req \in Nat
      BY <1>0, <1>3, TxStart DEF StartReplacing
    <3> QED
      BY <1>0, <2>1, <3>1, CreateRunTyped, RunIsNat
  <2> QED
    BY <1>3, <2>2, <2>3, TypeOKOfRunsTyped DEF StartReplacing, TypeOK
<1>4. CASE SignalWorkflowExecution(c)
  BY <1>0, <1>4, WakeAttemptTyped, SetTyped, ReadTyped DEF SignalWorkflowExecution
<1>5. CASE RequestCancelWorkflowExecution(c)
  BY <1>0, <1>5, WakeAttemptTyped, SetTyped, ReadTyped
     DEF RequestCancelWorkflowExecution
<1>6. CASE RetryOnConflict(c)
  <2>1. tx[c].tries + 1 \in Nat
    BY <1>0, <1>6, TxWake DEF RetryOnConflict
  <2>2. WakeAttempt(c, tx[c].tries + 1) \in Tx
    BY <2>1, WakeAttemptTyped
  <2> QED
    BY <1>0, <1>6, <2>2, EndTyped, RunIsNat, SetTyped, ReadTyped DEF RetryOnConflict
<1>7. CASE CommitWake(c)
  BY <1>0, <1>7, CommitWakeTyped
<1>8. CASE TerminateWorkflowExecution(c)
  <2>1. Exists(Target(c)) => [op |-> "terminate", run |-> Target(c),
                              expect |-> exec[Target(c)].next] \in Tx
    BY DEF Exists, Tx, TypeOK
  <2> QED
    BY <1>0, <1>8, <2>1, EndTyped, RunIsNat, SetTyped, ReadTyped
       DEF TerminateWorkflowExecution
<1>9. CASE CommitTerminate(c)
  <2> DEFINE t == tx[c]
             evs == <<Ev("WorkflowExecutionTerminated", c.id, 0)>>
             e == [Advance(exec[t.run], evs) EXCEPT !.status = "TERMINATED"]
  <2>1. t.run \in Run /\ t.expect \in Nat
    BY <1>0, <1>9, TxTerminate DEF CommitTerminate
  <2>2. evs \in Seq(Event)
    BY CallFields, EvTyped DEF EventTypes
  <2>3. e \in ExecRow
    <3>1. exec[t.run] \in ExecRow
      BY <1>0, <2>1 DEF RunsTyped
    <3>2. Advance(exec[t.run], evs) \in ExecRow
      BY <2>2, <3>1, AdvanceTyped
    <3> QED
      BY <3>2 DEF ExecRow, Statuses
  <2>4. /\ exec' = [exec EXCEPT ![t.run] = e]
        /\ history' = [history EXCEPT ![t.run] = Insert(@, t.expect, evs)]
    BY <1>9 DEF CommitTerminate
  <2>5. RunsTyped(exec', history')
    <3> HIDE DEF e, evs
    <3> QED
      BY <1>0, <2>1, <2>2, <2>3, <2>4, AppendTyped
  <2>6. tx' \in [Call \cup Proc -> Tx]
    BY <1>0, <1>9, <2>1, SetTyped, EndTyped, RunIsNat DEF CommitTerminate
  <2> QED
    BY <1>9, <2>5, <2>6, TypeOKOfRunsTyped DEF CommitTerminate, TypeOK
<1>10. CASE ConflictedTerminate(c)
  BY <1>0, <1>10, EndTyped, RunIsNat, SetTyped, ReadTyped DEF ConflictedTerminate
<1> QED
  BY <1>1, <1>2, <1>3, <1>4, <1>5, <1>6, <1>7, <1>8, <1>9, <1>10 DEF CallStep

(* The two dispatch transactions.                                          *)
LEMMA StartedTyped ==
    ASSUME TypeOK, NEW r \in Run, NEW n \in Nat, NEW ev \in Event,
           exec' = [exec EXCEPT ![r] = Advance(@, <<ev>>)],
           history' = [history EXCEPT ![r] = Insert(@, n, <<ev>>)]
    PROVE  RunsTyped(exec', history')
<1> DEFINE evs == <<ev>>
<1>1. evs \in Seq(Event)
  OBVIOUS
<1>2. RunsTyped(exec, history)
  BY RunsTypedOfTypeOK
<1> HIDE DEF evs
<1>3. Advance(exec[r], evs) \in ExecRow
  BY <1>1, <1>2, AdvanceTyped DEF RunsTyped
<1> QED
  BY <1>1, <1>2, <1>3, AppendTyped DEF evs

(* The rows and events a workflow task's response adds.                    *)
LEMMA ResponseTyped ==
    ASSUME TypeOK, NEW t \in Tx, t.op = "wfcomplete", NEW n \in Nat
    PROVE  LET evs == CommandEvents(t.cmds, n)
               r == t.row.run
           IN  /\ r \in Run
               /\ RunsTyped([exec EXCEPT ![r] = Responded(@, t, evs)],
                            [history EXCEPT ![r] = Insert(@, t.expect, evs)])
               /\ NewActs(t) \subseteq ActRow
               /\ NewTimers(t) \subseteq TimerRow
               /\ MaxOf(seen[r], t.token.seen) \in Nat
<1> DEFINE evs == CommandEvents(t.cmds, n)
           r == t.row.run
<1>1. /\ t.row \in WfRow /\ t.expect \in Nat /\ t.cmds \in Seq(Command)
      /\ t.token \in WfToken
  BY TxWfComplete
<1>2. r \in Run
  BY <1>1 DEF WfRow
<1>3. evs \in Seq(Event)
  BY <1>1, CommandEventsTyped
<1>4. RunsTyped(exec, history)
  BY RunsTypedOfTypeOK
<1>5. Responded(exec[r], t, evs) \in ExecRow
  BY <1>1, <1>2, <1>3, <1>4, RespondedTyped DEF RunsTyped
<1>6. RunsTyped([exec EXCEPT ![r] = Responded(@, t, evs)],
                [history EXCEPT ![r] = Insert(@, t.expect, evs)])
  <2> HIDE DEF evs, r
  <2> QED
    BY <1>1, <1>2, <1>3, <1>4, <1>5, AppendTyped
<1>7. \A i \in DOMAIN t.cmds : i \in Nat /\ t.cmds[i] \in Command
  BY <1>1
<1>8. \A i \in DOMAIN t.cmds : t.expect + i \in Nat /\ t.cmds[i].id \in Nat
  BY <1>1, <1>7 DEF Command
<1>9. NewActs(t) \subseteq ActRow /\ NewTimers(t) \subseteq TimerRow
  BY <1>2, <1>8 DEF NewActs, NewTimers, Indices, ActRow, TimerRow
<1>10. MaxOf(seen[r], t.token.seen) \in Nat
  BY <1>1, <1>2 DEF MaxOf, WfToken, TypeOK
<1> QED
  BY <1>2, <1>6, <1>9, <1>10

LEMMA ProcStepTyped ==
    ASSUME TypeOK, NEW p \in Proc, ProcStep(p)
    PROVE  TypeOK'
<1>0. p \in Call \cup Proc /\ tx[p] \in Tx
  BY DEF TypeOK
<1>r. RunsTyped(exec, history)
  BY RunsTypedOfTypeOK
<1>e. \A r \in Run : exec[r].next \in Nat
  BY DEF TypeOK
<1>1. CASE FireDueTimer(p)
  <2>1. PICK tm \in timers :
           Set(p, Wake(tm.run, Ev("TimerFired", tm.id, tm.sched), {}, {tm}, 0))
    BY <1>1 DEF FireDueTimer
  <2>2. tm \in TimerRow
    BY DEF TypeOK
  <2>3. tm.run \in Run /\ Ev("TimerFired", tm.id, tm.sched) \in Event
    BY <2>2, EvTyped DEF TimerRow, EventTypes
  <2>4. Wake(tm.run, Ev("TimerFired", tm.id, tm.sched), {}, {tm}, 0) \in Tx
    BY <2>2, <2>3, WakeTyped
  <2> QED
    BY <1>0, <1>1, <2>1, <2>4, SetTyped, ReadTyped DEF FireDueTimer
<1>2. CASE CommitWake(p)
  BY <1>0, <1>2, CommitWakeTyped
<1>3. CASE CompleteActivityTask(p)
  <2>1. PICK row \in acts :
           Set(p, Wake(row.run, Ev("ActivityTaskCompleted", row.id, row.sched),
                       {row}, {}, 0))
    BY <1>3 DEF CompleteActivityTask
  <2>2. row \in ActRow
    BY DEF TypeOK
  <2>3. row.run \in Run /\ Ev("ActivityTaskCompleted", row.id, row.sched) \in Event
    BY <2>2, EvTyped DEF ActRow, EventTypes
  <2>4. Wake(row.run, Ev("ActivityTaskCompleted", row.id, row.sched),
             {row}, {}, 0) \in Tx
    BY <2>2, <2>3, WakeTyped
  <2> QED
    BY <1>0, <1>3, <2>1, <2>4, SetTyped, ReadTyped DEF CompleteActivityTask
<1>4. CASE RetryActivityTask(p)
  <2>1. PICK row \in acts :
           acts' = (acts \ {row}) \cup
                     {[row EXCEPT !.status = "PENDING", !.attempt = @ + 1]}
    BY <1>4 DEF RetryActivityTask
  <2>2. row \in ActRow
    BY DEF TypeOK
  <2>3. [row EXCEPT !.status = "PENDING", !.attempt = @ + 1] \in ActRow
    <3>1. row.attempt + 1 \in Nat
      BY <2>2 DEF ActRow
    <3>2. ASSUME NEW n \in Nat
          PROVE  [row EXCEPT !.status = "PENDING", !.attempt = n] \in ActRow
      BY <2>2 DEF ActRow
    <3> QED
      BY <3>1, <3>2
  <2> QED
    BY <1>4, <2>1, <2>3 DEF RetryActivityTask, TypeOK
<1>5. CASE FailActivityTask(p)
  <2>1. PICK row \in acts :
           Set(p, Wake(row.run, Ev("ActivityTaskFailed", row.id, row.sched),
                       {row}, {}, 0))
    BY <1>5 DEF FailActivityTask
  <2>2. row \in ActRow
    BY DEF TypeOK
  <2>3. row.run \in Run /\ Ev("ActivityTaskFailed", row.id, row.sched) \in Event
    BY <2>2, EvTyped DEF ActRow, EventTypes
  <2>4. Wake(row.run, Ev("ActivityTaskFailed", row.id, row.sched),
             {row}, {}, 0) \in Tx
    BY <2>2, <2>3, WakeTyped
  <2> QED
    BY <1>0, <1>5, <2>1, <2>4, SetTyped, ReadTyped DEF FailActivityTask
<1>6. ASSUME NEW w \in Worker, DispatchWorkflowTask(p, w) PROVE TypeOK'
  <2>1. PICK row \in wfTasks :
           /\ wfTasks' = (wfTasks \ {row}) \cup {Leased(row)}
           /\ Set(p, [op |-> "wfdequeued", task |-> row.id,
                      lease |-> Leased(row).lease, worker |-> w, run |-> row.run])
    BY <1>6 DEF DispatchWorkflowTask
  <2>2. row \in WfRow /\ Leased(row) \in WfRow
    BY LeasedTyped DEF TypeOK
  <2>3. [op |-> "wfdequeued", task |-> row.id, lease |-> Leased(row).lease,
         worker |-> w, run |-> row.run] \in Tx
    BY <2>2 DEF WfRow, Tx
  <2>4. tx' \in [Call \cup Proc -> Tx]
    BY <1>0, <2>1, <2>3, SetTyped
  <2> QED
    BY <1>6, <2>1, <2>2, <2>4 DEF DispatchWorkflowTask, TypeOK
<1>7. CASE BeginWorkflowTaskStarted(p)
  <2> DEFINE t == tx[p]
  <2>1. /\ t.task \in Nat /\ t.lease \in Nat /\ t.worker \in Worker
        /\ t.run \in Run
    BY <1>0, <1>7, TxWfStart DEF BeginWorkflowTaskStarted
  <2>2. [op |-> "wfstart", task |-> t.task, lease |-> t.lease,
         worker |-> t.worker, run |-> t.run, expect |-> exec[t.run].next] \in Tx
    BY <1>e, <2>1 DEF Tx
  <2> QED
    BY <1>0, <1>7, <2>2, SetTyped, ReadTyped DEF BeginWorkflowTaskStarted
<1>8. CASE RecordWorkflowTaskStarted(p)
  <2> DEFINE t == tx[p]
  <2>1. /\ t.task \in Nat /\ t.lease \in Nat /\ t.worker \in Worker
        /\ t.run \in Run /\ t.expect \in Nat
    BY <1>0, <1>8, TxWfStart DEF RecordWorkflowTaskStarted
  <2>2. Ev("WorkflowTaskStarted", 0, 0) \in Event
    BY EvTyped DEF EventTypes
  <2>3. RunsTyped(exec', history')
    BY <1>8, <2>1, <2>2, StartedTyped DEF RecordWorkflowTaskStarted
  <2>4. [op |-> "wflist", task |-> t.task, lease |-> t.lease,
         worker |-> t.worker, run |-> t.run] \in Tx
    BY <2>1 DEF Tx
  <2>5. tx' \in [Call \cup Proc -> Tx]
    BY <1>0, <1>8, <2>4, SetTyped DEF RecordWorkflowTaskStarted
  <2> QED
    BY <1>8, <2>3, <2>5, TypeOKOfRunsTyped DEF RecordWorkflowTaskStarted, TypeOK
<1>9. CASE DeliverWorkflowTask(p)
  <2> DEFINE t == tx[p]
             tok == [task |-> t.task, lease |-> t.lease, run |-> t.run,
                     seen |-> exec[t.run].next - 1, worker |-> t.worker]
  <2>1. /\ t.task \in Nat /\ t.lease \in Nat /\ t.worker \in Worker
        /\ t.run \in Run
    BY <1>0, <1>9, TxWfStart DEF DeliverWorkflowTask
  <2>2. exec[t.run].next - 1 \in Nat
    BY <2>1 DEF TypeOK
  <2>3. tok \in WfToken
    BY <2>1, <2>2 DEF WfToken
  <2>4. tx' \in [Call \cup Proc -> Tx]
    BY <1>0, <1>9, SetTyped, EndTyped DEF DeliverWorkflowTask
  <2>5. tokens' = tokens \cup {tok}
    BY <1>9 DEF DeliverWorkflowTask
  <2> HIDE DEF tok
  <2> QED
    BY <1>9, <2>3, <2>4, <2>5 DEF DeliverWorkflowTask, TypeOK, tables
<1>10. CASE CompleteWorkflowTask(p)
  <2>1. PICK tok \in tokens, row \in wfTasks, cmds \in Seq(Command) :
           Set(p, [op |-> "wfcomplete", row |-> row, expect |-> exec[row.run].next,
                   cmds |-> cmds, token |-> tok])
    BY <1>10 DEF CompleteWorkflowTask
  <2>2. tok \in WfToken /\ row \in WfRow
    BY DEF TypeOK
  <2>3. exec[row.run].next \in Nat
    BY <1>e, <2>2 DEF WfRow
  <2>4. [op |-> "wfcomplete", row |-> row, expect |-> exec[row.run].next,
         cmds |-> cmds, token |-> tok] \in Tx
    BY <2>2, <2>3 DEF Tx
  <2> QED
    BY <1>0, <1>10, <2>1, <2>4, SetTyped, ReadTyped DEF CompleteWorkflowTask
<1>11. CASE CommitWorkflowTask(p)
  <2> DEFINE t == tx[p]
             r == t.row.run
             evs == CommandEvents(t.cmds, NoRun)
  <2>1. t \in Tx /\ t.op = "wfcomplete"
    BY <1>0, <1>11 DEF CommitWorkflowTask
  <2>2. /\ r \in Run
        /\ RunsTyped([exec EXCEPT ![r] = Responded(@, t, evs)],
                     [history EXCEPT ![r] = Insert(@, t.expect, evs)])
        /\ NewActs(t) \subseteq ActRow /\ NewTimers(t) \subseteq TimerRow
        /\ MaxOf(seen[r], t.token.seen) \in Nat
    BY <2>1, RunIsNat, ResponseTyped
  <2>3. RunsTyped(exec', history')
    BY <1>11, <2>2 DEF CommitWorkflowTask
  <2>4. seen' \in [Run -> Nat]
    BY <1>11, <2>2 DEF CommitWorkflowTask, TypeOK
  <2>5. tx' \in [Call \cup Proc -> Tx]
    BY <1>0, <1>11, SetTyped, EndTyped DEF CommitWorkflowTask
  <2>6. acts' \subseteq ActRow /\ timers' \subseteq TimerRow /\ wfTasks' \subseteq WfRow
    BY <1>11, <2>2 DEF CommitWorkflowTask, TypeOK
  <2> QED
    BY <1>11, <2>3, <2>4, <2>5, <2>6, TypeOKOfRunsTyped DEF CommitWorkflowTask, TypeOK
<1>12. CASE CommitContinueAsNew(p)
  <2> DEFINE t == tx[p]
             r == t.row.run
             evs(n) == CommandEvents(t.cmds, n)
             ex(n) == [exec EXCEPT ![r] = Responded(@, t, evs(n))]
             hs(n) == [history EXCEPT ![r] = Insert(@, t.expect, evs(n))]
  <2>1. t \in Tx /\ t.op = "wfcomplete"
    BY <1>0, <1>12 DEF CommitContinueAsNew
  <2>2. PICK n \in Run : CreateRun(ex(n), hs(n), wfTasks \ {t.row}, n, NoReq, r)
    BY <1>12 DEF CommitContinueAsNew
  <2>3. r \in Run /\ RunsTyped(ex(n), hs(n)) /\ MaxOf(seen[r], t.token.seen) \in Nat
    BY <2>1, RunIsNat, ResponseTyped
  <2>4. /\ RunsTyped(exec', history') /\ wfTasks' \subseteq WfRow
        /\ nextTask' \in Nat /\ current' \in [run : Run \cup {NoRun}, req : Nat]
    <3> HIDE DEF ex, hs
    <3>1. wfTasks \ {t.row} \subseteq WfRow /\ nextTask \in Nat
      BY DEF TypeOK
    <3> QED
      BY <2>2, <2>3, <3>1, CreateRunTyped, RunIsNat
  <2>5. seen' \in [Run -> Nat]
    BY <1>12, <2>3 DEF CommitContinueAsNew, TypeOK
  <2>6. tx' \in [Call \cup Proc -> Tx]
    BY <1>0, <1>12, SetTyped, EndTyped DEF CommitContinueAsNew
  <2> QED
    BY <1>12, <2>4, <2>5, <2>6, TypeOKOfRunsTyped DEF CommitContinueAsNew, TypeOK
<1>13. CASE RejectWorkflowTask(p)
  BY <1>0, <1>13, SetTyped, EndTyped, ReadTyped DEF RejectWorkflowTask
<1>14. CASE FailWorkflowTask(p)
  <2>1. PICK row \in wfTasks :
           Set(p, [op |-> "wffail", run |-> row.run, cleared |-> FALSE])
    BY <1>14 DEF FailWorkflowTask
  <2>2. [op |-> "wffail", run |-> row.run, cleared |-> FALSE] \in Tx
    BY DEF TypeOK, WfRow, Tx
  <2>3. tx' \in [Call \cup Proc -> Tx]
    BY <1>0, <2>1, <2>2, SetTyped
  <2>4. wfTasks' \subseteq wfTasks /\ tokens' \subseteq tokens
    BY <1>14 DEF FailWorkflowTask
  <2>5. spent' \in [crashes : Nat, expiries : Nat, failures : Nat]
    BY <1>14 DEF FailWorkflowTask, TypeOK
  <2> QED
    BY <1>14, <2>3, <2>4, <2>5 DEF FailWorkflowTask, TypeOK
<1>15. CASE FailClearSticky(p)
  <2>1. tx[p].run \in Run
        /\ [tx[p] EXCEPT !.cleared = TRUE] \in Tx
    BY <1>0, <1>15, TxWfFail DEF FailClearSticky, Tx
  <2>2. tx' \in [Call \cup Proc -> Tx]
    BY <1>0, <1>15, <2>1, SetTyped DEF FailClearSticky
  <2>3. RunsTyped(exec', history')
    BY <1>15, <1>r, <2>1 DEF FailClearSticky, RunsTyped, ExecRow, Preference
  <2> QED
    BY <1>15, <2>2, <2>3, TypeOKOfRunsTyped DEF FailClearSticky, TypeOK
<1>16. CASE FailEnqueue(p)
  <2>1. tx[p].run \in Run
    BY <1>0, <1>16, TxWfFail DEF FailEnqueue
  <2>2. wfTasks' \subseteq WfRow /\ nextTask' \in Nat
    BY <1>16, <2>1 DEF FailEnqueue, EnqueueWorkflowTask, WfRow, TypeOK
  <2>3. tx' \in [Call \cup Proc -> Tx]
    BY <1>0, <1>16, SetTyped, EndTyped DEF FailEnqueue
  <2> QED
    BY <1>16, <2>2, <2>3 DEF FailEnqueue, TypeOK
<1>17. CASE DispatchActivityTask(p)
  <2>1. PICK row \in acts : /\ acts' = (acts \ {row}) \cup {Leased(row)}
                            /\ Set(p, [op |-> "actdequeued", row |-> Leased(row)])
    BY <1>17 DEF DispatchActivityTask
  <2>2. Leased(row) \in ActRow
    BY LeasedTyped DEF TypeOK
  <2>3. [op |-> "actdequeued", row |-> Leased(row)] \in Tx
    BY <2>2 DEF Tx
  <2>4. tx' \in [Call \cup Proc -> Tx]
    BY <1>0, <2>1, <2>3, SetTyped
  <2> QED
    BY <1>17, <2>1, <2>2, <2>4 DEF DispatchActivityTask, TypeOK
<1>18. CASE BeginActivityTaskStarted(p)
  <2>1. tx[p].row \in ActRow /\ tx[p].row.run \in Run
    BY <1>0, <1>18, TxActStart DEF BeginActivityTaskStarted, ActRow
  <2>2. [op |-> "actstart", row |-> tx[p].row,
         expect |-> exec[tx[p].row.run].next] \in Tx
    BY <1>e, <2>1 DEF Tx
  <2> QED
    BY <1>0, <1>18, <2>2, SetTyped, ReadTyped DEF BeginActivityTaskStarted
<1>19. CASE RecordActivityTaskStarted(p)
  <2> DEFINE t == tx[p]
             tok == [run |-> t.row.run, sched |-> t.row.sched, lease |-> t.row.lease]
  <2>1. t.row \in ActRow /\ t.expect \in Nat
    BY <1>0, <1>19, TxActStart DEF RecordActivityTaskStarted
  <2>2. /\ t.row.run \in Run /\ tok \in ActToken
        /\ Ev("ActivityTaskStarted", t.row.id, 0) \in Event
    BY <2>1, EvTyped DEF ActRow, ActToken, EventTypes
  <2>3. RunsTyped(exec', history')
    BY <1>19, <2>1, <2>2, StartedTyped DEF RecordActivityTaskStarted
  <2>4. tx' \in [Call \cup Proc -> Tx]
    BY <1>0, <1>19, SetTyped, EndTyped DEF RecordActivityTaskStarted
  <2>5. actTokens' = actTokens \cup {tok}
    BY <1>19 DEF RecordActivityTaskStarted
  <2> HIDE DEF tok
  <2> QED
    BY <1>19, <2>2, <2>3, <2>4, <2>5, TypeOKOfRunsTyped
       DEF RecordActivityTaskStarted, TypeOK
<1>20. CASE AbortOnConflict(p)
  BY <1>0, <1>20, SetTyped, EndTyped, ReadTyped DEF AbortOnConflict
<1> QED
  BY <1>1, <1>2, <1>3, <1>4, <1>5, <1>6, <1>7, <1>8, <1>9, <1>10, <1>11, <1>12,
     <1>13, <1>14, <1>15, <1>16, <1>17, <1>18, <1>19, <1>20 DEF ProcStep

LEMMA FaultStepTyped ==
    ASSUME TypeOK,
           \/ \E p \in Call \cup Proc : Crash(p)
           \/ ReapWorkflowTask \/ ReapActivityTask
           \/ StickyRegistrationLapses \/ StickyDeadlinePasses
    PROVE  TypeOK'
<1>1. ASSUME NEW p \in Call \cup Proc, Crash(p) PROVE TypeOK'
  <2>1. tx' \in [Call \cup Proc -> Tx]
    BY <1>1, SetTyped, EndTyped, RunIsNat DEF Crash
  <2>2. spent' \in [crashes : Nat, expiries : Nat, failures : Nat]
    BY <1>1 DEF Crash, TypeOK
  <2> QED
    BY <1>1, <2>1, <2>2 DEF Crash, TypeOK, tables
<1>2. ASSUME NEW held \in BOOLEAN, Lapse(held)
      PROVE  spent' \in [crashes : Nat, expiries : Nat, failures : Nat]
  BY <1>2 DEF Lapse, TypeOK
<1>3. CASE ReapWorkflowTask
  <2>1. PICK row \in wfTasks :
           /\ wfTasks' = (wfTasks \ {row}) \cup {[row EXCEPT !.status = "PENDING"]}
           /\ Lapse(WfHeld(row))
    BY <1>3 DEF ReapWorkflowTask
  <2>2. wfTasks' \subseteq WfRow
    BY <2>1 DEF TypeOK, WfRow
  <2>3. spent' \in [crashes : Nat, expiries : Nat, failures : Nat]
    BY <1>2, <2>1 DEF WfHeld
  <2> QED
    BY <1>3, <2>2, <2>3 DEF ReapWorkflowTask, TypeOK
<1>4. CASE ReapActivityTask
  <2>1. PICK row \in acts :
           /\ acts' = (acts \ {row}) \cup {[row EXCEPT !.status = "PENDING"]}
           /\ Lapse(ActHeld(row))
    BY <1>4 DEF ReapActivityTask
  <2>2. acts' \subseteq ActRow
    BY <2>1 DEF TypeOK, ActRow
  <2>3. spent' \in [crashes : Nat, expiries : Nat, failures : Nat]
    BY <1>2, <2>1 DEF ActHeld
  <2> QED
    BY <1>4, <2>2, <2>3 DEF ReapActivityTask, TypeOK
<1>5. CASE StickyRegistrationLapses
  BY <1>5 DEF StickyRegistrationLapses, TypeOK
<1>6. CASE StickyDeadlinePasses
  <2>1. PICK row \in wfTasks :
           wfTasks' = (wfTasks \ {row}) \cup {[row EXCEPT !.pref = NoWorker]}
    BY <1>6 DEF StickyDeadlinePasses
  <2>2. wfTasks' \subseteq WfRow
    BY <2>1 DEF TypeOK, WfRow
  <2> QED
    BY <1>6, <2>2 DEF StickyDeadlinePasses, TypeOK
<1> QED
  BY <1>1, <1>3, <1>4, <1>5, <1>6

(* The tables, the in-flight transactions and the tokens stay well formed  *)
(* through every handler, conflict, crash and reap: event ids and counters *)
(* are numbers, every answered row, command and event has its fields.      *)
THEOREM TypeCorrect == Spec => []TypeOK
<1>1. Init => TypeOK
  <2> SUFFICES ASSUME Init PROVE TypeOK
    OBVIOUS
  <2>1. Idle \in Tx /\ \A i \in DOMAIN <<>> : FALSE
    BY EndTyped
  <2> QED
    BY <2>1, RunIsNat DEF Init, TypeOK, Statuses
<1>2. TypeOK /\ [Next]_vars => TypeOK'
  <2> SUFFICES ASSUME TypeOK, [Next]_vars PROVE TypeOK'
    OBVIOUS
  <2>1. CASE UNCHANGED vars
    BY <2>1 DEF vars, tables, TypeOK
  <2>2. CASE Next
    BY <2>2, CallStepTyped, ProcStepTyped, FaultStepTyped DEF Next
  <2> QED
    BY <2>1, <2>2
<1> QED
  BY <1>1, <1>2, PTL DEF Spec

-----------------------------------------------------------------------------
(* The history is an append-only log without gaps.                         *)

Contiguous(ex, hs) == \A r \in Run : DOMAIN hs[r] = 1 .. (ex[r].next - 1)

Unused(ex) == \A r \in Run : ex[r].status = "NONE" => ex[r].next = 1

(* What a transaction does to the two tables of runs.                      *)
Grows(ex1, hs1, ex2, hs2) ==
    /\ Contiguous(ex2, hs2) /\ Unused(ex2)
    /\ \A r \in Run : /\ Log!Extends(hs1[r], hs2[r])
                      /\ ex1[r].status # "NONE" => ex2[r].status # "NONE"

LEMMA GrowsNot ==
    ASSUME NEW ex, NEW hs, Contiguous(ex, hs), Unused(ex)
    PROVE  Grows(ex, hs, ex, hs)
BY DEF Grows, Log!Extends

LEMMA GrowsTwice ==
    ASSUME NEW ex1, NEW hs1, NEW ex2, NEW hs2, NEW ex3, NEW hs3,
           Grows(ex1, hs1, ex2, hs2), Grows(ex2, hs2, ex3, hs3)
    PROVE  Grows(ex1, hs1, ex3, hs3)
BY DEF Grows, Log!Extends

(* A compare-and-swap that succeeded, and its inserts.                     *)
LEMMA AppendGrows ==
    ASSUME NEW ex, NEW hs, RunsTyped(ex, hs), Contiguous(ex, hs), Unused(ex),
           NEW r \in Run, ex[r].status # "NONE", NEW n, n = ex[r].next,
           NEW evs \in Seq(Event),
           NEW e \in ExecRow, e.next = n + Len(evs), e.status # "NONE"
    PROVE  Grows(ex, hs, [ex EXCEPT ![r] = e], [hs EXCEPT ![r] = Insert(@, n, evs)])
<1> DEFINE new == Insert(hs[r], n, evs)
           ex2 == [ex EXCEPT ![r] = e]
           hs2 == [hs EXCEPT ![r] = new]
<1>0. n \in Nat \ {0} /\ DOMAIN hs[r] = 1 .. (n - 1)
  BY DEF RunsTyped, ExecRow, Contiguous
<1>1. /\ DOMAIN new = 1 .. (n + Len(evs) - 1)
      /\ \A i \in DOMAIN hs[r] : new[i] = hs[r][i]
  BY <1>0, InsertAtEnd
<1>2. DOMAIN hs[r] \subseteq DOMAIN new
  BY <1>0, <1>1
<1> HIDE DEF new
<1>3. ASSUME NEW q \in Run PROVE DOMAIN hs2[q] = 1 .. (ex2[q].next - 1)
  <2>1. CASE q = r
    <3>1. hs2[q] = new /\ ex2[q].next = n + Len(evs)
      BY <2>1 DEF RunsTyped
    <3> HIDE DEF ex2, hs2
    <3> QED
      BY <1>0, <1>1, <3>1
  <2>2. CASE q # r
    <3>1. hs2[q] = hs[q] /\ ex2[q] = ex[q]
      BY <2>2 DEF RunsTyped
    <3> QED
      BY <3>1 DEF Contiguous
  <2> QED
    BY <2>1, <2>2
<1>4. Unused(ex2)
  BY DEF Unused, RunsTyped
<1>5. ASSUME NEW q \in Run
      PROVE  /\ Log!Extends(hs[q], hs2[q])
             /\ ex[q].status # "NONE" => ex2[q].status # "NONE"
  BY <1>1, <1>2 DEF Log!Extends, RunsTyped
<1>6. Grows(ex, hs, ex2, hs2)
  BY <1>3, <1>4, <1>5 DEF Grows, Contiguous
<1> QED
  BY <1>6 DEF new

LEMMA CreateRunGrows ==
    ASSUME NEW ex, NEW hs, RunsTyped(ex, hs), Contiguous(ex, hs), Unused(ex),
           NEW rows, NEW r \in Run, ex[r].status = "NONE", NEW req,
           NEW from \in Nat, CreateRun(ex, hs, rows, r, req, from)
    PROVE  Grows(ex, hs, exec', history') /\ exec'[r].status # "NONE"
<1> DEFINE evs == StartEvents(from)
           new == Insert(<<>>, 1, evs)
           e == Advance(NewExec, evs)
<1>0. NewExec \in ExecRow /\ NewExec.next = 1 /\ NewExec.status = "RUNNING"
  BY DEF NewExec, ExecRow, Statuses, Preference
<1>1. e \in ExecRow /\ e.next = 3 /\ e.status = "RUNNING"
  <2>1. evs \in Seq(Event) /\ Len(evs) = 2
    BY StartEventsTyped
  <2> HIDE DEF evs
  <2>2. /\ e \in ExecRow /\ e.next = NewExec.next + Len(evs)
        /\ e.status = NewExec.status
    BY <1>0, <2>1, AdvanceTyped
  <2> HIDE DEF e
  <2> QED
    BY <1>0, <2>1, <2>2
<1>2. DOMAIN new = 1 .. 2
  <2>1. DOMAIN <<>> = 1 .. (1 - 1)
    OBVIOUS
  <2>2. evs \in Seq(Event) /\ Len(evs) = 2
    BY StartEventsTyped
  <2> HIDE DEF evs
  <2> QED
    BY <2>1, <2>2, InsertAtEnd
<1>3. DOMAIN hs[r] = {}
  BY DEF Contiguous, Unused
<1>4. exec' = [ex EXCEPT ![r] = e] /\ history' = [hs EXCEPT ![r] = new]
  BY <1>0 DEF CreateRun
<1> HIDE DEF new, e
<1>5. ASSUME NEW q \in Run PROVE DOMAIN history'[q] = 1 .. (exec'[q].next - 1)
  <2>1. CASE q = r
    <3>1. history'[q] = new /\ exec'[q].next = 3
      BY <1>1, <1>4, <2>1 DEF RunsTyped
    <3> QED
      BY <1>2, <3>1
  <2>2. CASE q # r
    <3>1. history'[q] = hs[q] /\ exec'[q] = ex[q]
      BY <1>4, <2>2 DEF RunsTyped
    <3> QED
      BY <3>1 DEF Contiguous
  <2> QED
    BY <2>1, <2>2
<1>6. Unused(exec')
  BY <1>1, <1>4 DEF Unused, RunsTyped
<1>7. ASSUME NEW q \in Run
      PROVE  /\ Log!Extends(hs[q], history'[q])
             /\ ex[q].status # "NONE" => exec'[q].status # "NONE"
  BY <1>1, <1>3, <1>4 DEF Log!Extends, RunsTyped
<1>8. exec'[r].status # "NONE"
  BY <1>1, <1>4 DEF RunsTyped
<1> QED
  BY <1>5, <1>6, <1>7, <1>8 DEF Grows, Contiguous

-----------------------------------------------------------------------------
(* The inductive invariant.  Contiguity alone is not inductive: a run's    *)
(* first two events are inserted as numbers 1 and 2, so a run_id nobody    *)
(* has used must have no events, so nothing may write to a run that does   *)
(* not exist, so no row and no transaction may refer to one.               *)

Unbound(t) == t.op \in {"idle", "done", "start"}

ReferencesExist ==
    /\ Unused(exec)
    /\ \A row \in wfTasks \cup acts \cup timers : Exists(row.run)
    /\ \A p \in Call \cup Proc : Unbound(tx[p]) \/ Exists(RunOf(tx[p]))

LogInv == TypeOK /\ HistoryContiguous /\ ReferencesExist

LEMMA LogInvGrows ==
    ASSUME LogInv, UNCHANGED <<exec, history>>
    PROVE  Grows(exec, history, exec', history')
BY GrowsNot DEF LogInv, HistoryContiguous, Contiguous, ReferencesExist

(* What every step does: keep the invariant and only extend histories.     *)
Keeps == LogInv' /\ Grows(exec, history, exec', history')

(* A step's whole effect on the invariant: how the runs grow, which runs   *)
(* the rows refer to, which run the step's own transaction refers to.      *)
LEMMA LogInvKept ==
    ASSUME LogInv, TypeOK', Grows(exec, history, exec', history'),
           \A row \in wfTasks' \cup acts' \cup timers' :
              \/ \E old \in wfTasks \cup acts \cup timers : old.run = row.run
              \/ row.run \in Run /\ exec'[row.run].status # "NONE",
           \A q \in Call \cup Proc :
              tx'[q] = tx[q] \/ Unbound(tx'[q]) \/ Exists(RunOf(tx'[q]))
    PROVE  Keeps
<1>1. HistoryContiguous' /\ Unused(exec')
  BY DEF Grows, HistoryContiguous, Contiguous
<1>2. \A r : Exists(r) => Exists(r)'
  BY DEF Grows, Exists
<1>3. \A row \in wfTasks' \cup acts' \cup timers' : Exists(row.run)'
  BY <1>2 DEF LogInv, ReferencesExist, Exists
<1>4. ASSUME NEW q \in Call \cup Proc
      PROVE  (Unbound(tx[q]) \/ Exists(RunOf(tx[q])))'
  <2>1. Unbound(tx[q]) \/ Exists(RunOf(tx[q]))
    BY DEF LogInv, ReferencesExist
  <2> QED
    BY <1>2, <2>1 DEF Exists, Unbound
<1> QED
  BY <1>1, <1>3, <1>4 DEF Keeps, LogInv, ReferencesExist

LEMMA SetKeeps ==
    ASSUME TypeOK, NEW p \in Call \cup Proc, NEW t, Set(p, t),
           Unbound(t) \/ Exists(RunOf(t))
    PROVE  \A q \in Call \cup Proc :
              tx'[q] = tx[q] \/ Unbound(tx'[q]) \/ Exists(RunOf(tx'[q]))
<1>1. tx' = [tx EXCEPT ![p] = t] /\ DOMAIN tx = Call \cup Proc
  BY DEF TypeOK, Set
<1>2. tx'[p] = t /\ \A q \in Call \cup Proc : q # p => tx'[q] = tx[q]
  BY <1>1
<1> QED
  BY <1>2

LEMMA EndUnbound ==
    /\ Unbound(Idle)
    /\ \A ok, r : Unbound(Done(ok, r))
<1>1. Idle.op = "idle" /\ \A ok, r : Done(ok, r).op = "done"
  BY DEF Idle, Done
<1> QED
  BY <1>1 DEF Unbound

LEMMA WakeRun ==
    ASSUME NEW r, NEW ev, NEW act, NEW timer, NEW tries
    PROVE  RunOf(Wake(r, ev, act, timer, tries)) = r
BY DEF Wake, RunOf

LEMMA WakeAttemptRun ==
    ASSUME NEW c, NEW tries
    PROVE  \/ Unbound(WakeAttempt(c, tries))
           \/ Exists(RunOf(WakeAttempt(c, tries)))
<1>1. CASE Exists(Target(c))
  <2>1. WakeAttempt(c, tries) = Wake(Target(c), CallEvent(c), {}, {}, tries)
    BY <1>1 DEF WakeAttempt
  <2>2. RunOf(WakeAttempt(c, tries)) = Target(c)
    BY <2>1, WakeRun
  <2> QED
    BY <1>1, <2>2
<1>2. CASE ~Exists(Target(c))
  BY <1>2, EndUnbound DEF WakeAttempt
<1> QED
  BY <1>1, <1>2

(* The append of an existing run, from the state's own invariant.          *)
LEMMA LogInvAppend ==
    ASSUME LogInv, NEW r \in Run, Exists(r), NEW evs \in Seq(Event),
           NEW n, CAS(r, n), NEW e \in ExecRow, e.next = exec[r].next + Len(evs),
           e.status # "NONE"
    PROVE  Grows(exec, history, [exec EXCEPT ![r] = e],
                 [history EXCEPT ![r] = Insert(@, n, evs)])
<1>1. /\ RunsTyped(exec, history) /\ Contiguous(exec, history) /\ Unused(exec)
      /\ exec[r].status # "NONE" /\ n = exec[r].next
  BY RunsTypedOfTypeOK
     DEF LogInv, HistoryContiguous, Contiguous, ReferencesExist, Exists, CAS
<1> QED
  BY <1>1, AppendGrows

LEMMA LogInvAdvance ==
    ASSUME LogInv, NEW r \in Run, Exists(r), NEW evs \in Seq(Event),
           NEW n, CAS(r, n)
    PROVE  Grows(exec, history, [exec EXCEPT ![r] = Advance(@, evs)],
                 [history EXCEPT ![r] = Insert(@, n, evs)])
<1>1. exec[r] \in ExecRow /\ exec[r].status # "NONE"
  BY RunsTypedOfTypeOK DEF LogInv, RunsTyped, Exists
<1>2. /\ Advance(exec[r], evs) \in ExecRow
      /\ Advance(exec[r], evs).next = exec[r].next + Len(evs)
      /\ Advance(exec[r], evs).status # "NONE"
  BY <1>1, AdvanceTyped
<1> QED
  BY <1>2, LogInvAppend

LEMMA StartKeeps ==
    ASSUME LogInv, TypeOK', NEW c \in Call, NEW r \in Run, NEW req,
           CreateRun(exec, history, wfTasks, r, req, NoRun),
           Set(c, Done(TRUE, r)), UNCHANGED <<acts, timers>>
    PROVE  Keeps
<1>1. Grows(exec, history, exec', history') /\ exec'[r].status # "NONE"
  BY CreateRunGrows, RunsTypedOfTypeOK, RunIsNat
     DEF LogInv, HistoryContiguous, Contiguous, ReferencesExist, CreateRun, Fresh
<1>2. \A row \in wfTasks' : row \in wfTasks \/ row.run = r
  BY DEF CreateRun, EnqueueWorkflowTask
<1>3. \A q \in Call \cup Proc :
         tx'[q] = tx[q] \/ Unbound(tx'[q]) \/ Exists(RunOf(tx'[q]))
  BY SetKeeps, EndUnbound DEF LogInv
<1> QED
  BY <1>1, <1>2, <1>3, LogInvKept

LEMMA CommitWakeKeeps ==
    ASSUME LogInv, TypeOK', NEW p \in Call \cup Proc, CommitWake(p)
    PROVE  Keeps
<1> DEFINE t == tx[p]
           evs == <<t.ev, Ev("WorkflowTaskScheduled", 0, 0)>>
<1>1. t \in Tx /\ t.op = "wake"
  BY DEF LogInv, TypeOK, CommitWake
<1>2. t.run \in Run /\ evs \in Seq(Event)
  BY <1>1, TxWake, EvTyped DEF EventTypes
<1>3. Exists(t.run)
  BY <1>1 DEF LogInv, ReferencesExist, Unbound, RunOf
<1>4. Grows(exec, history, exec', history')
  <2>1. /\ CAS(t.run, t.expect)
        /\ exec' = [exec EXCEPT ![t.run] = Advance(@, evs)]
        /\ history' = [history EXCEPT ![t.run] = Insert(@, t.expect, evs)]
    BY DEF CommitWake
  <2> HIDE DEF evs
  <2> QED
    BY <1>2, <1>3, <2>1, LogInvAdvance
<1>5. exec'[t.run].status # "NONE"
  BY <1>2, <1>3, <1>4 DEF Grows, Exists
<1>6. /\ acts' \subseteq acts /\ timers' \subseteq timers
      /\ \A row \in wfTasks' : row \in wfTasks \/ row.run = t.run
  BY DEF CommitWake, EnqueueWorkflowTask
<1>7. \A q \in Call \cup Proc :
         tx'[q] = tx[q] \/ Unbound(tx'[q]) \/ Exists(RunOf(tx'[q]))
  BY SetKeeps, EndUnbound DEF LogInv, CommitWake
<1> QED
  BY <1>2, <1>4, <1>5, <1>6, <1>7, LogInvKept

(* A step that makes its reads and may lock a row.                         *)
LEMMA ReadKeeps ==
    ASSUME LogInv, TypeOK', UNCHANGED tables, NEW p \in Call \cup Proc, NEW t,
           Set(p, t), Unbound(t) \/ Exists(RunOf(t))
    PROVE  Keeps
<1>1. Grows(exec, history, exec', history')
  BY LogInvGrows DEF tables
<1>2. \A q \in Call \cup Proc :
         tx'[q] = tx[q] \/ Unbound(tx'[q]) \/ Exists(RunOf(tx'[q]))
  BY SetKeeps DEF LogInv
<1> QED
  BY <1>1, <1>2, LogInvKept DEF tables

LEMMA CallStepKeeps ==
    ASSUME LogInv, NEW c \in Call, CallStep(c)
    PROVE  Keeps
<1>0. TypeOK' /\ c \in Call \cup Proc /\ tx[c] \in Tx
  BY CallStepTyped DEF LogInv, TypeOK
<1>1. CASE StartFirst(c)
  BY <1>0, <1>1, StartKeeps DEF StartFirst
<1>2. CASE StartOnExisting(c)
  <2>1. Unbound([op |-> "start", req |-> c.req])
    BY DEF Unbound
  <2> QED
    BY <1>0, <1>2, <2>1, EndUnbound, ReadKeeps DEF StartOnExisting
<1>3. CASE StartReplacing(c)
  BY <1>0, <1>3, StartKeeps DEF StartReplacing
<1>4. CASE SignalWorkflowExecution(c)
  BY <1>0, <1>4, WakeAttemptRun, ReadKeeps DEF SignalWorkflowExecution
<1>5. CASE RequestCancelWorkflowExecution(c)
  BY <1>0, <1>5, WakeAttemptRun, ReadKeeps DEF RequestCancelWorkflowExecution
<1>6. CASE RetryOnConflict(c)
  BY <1>0, <1>6, WakeAttemptRun, EndUnbound, ReadKeeps DEF RetryOnConflict
<1>7. CASE CommitWake(c)
  BY <1>0, <1>7, CommitWakeKeeps
<1>8. CASE TerminateWorkflowExecution(c)
  <2> DEFINE t == [op |-> "terminate", run |-> Target(c),
                   expect |-> exec[Target(c)].next]
  <2>1. RunOf(t) = Target(c)
    BY DEF RunOf
  <2>2. Set(c, IF Exists(Target(c)) THEN t ELSE Done(FALSE, NoRun))
    BY <1>8 DEF TerminateWorkflowExecution
  <2> HIDE DEF t
  <2>3. CASE Exists(Target(c))
    BY <1>0, <1>8, <2>1, <2>2, <2>3, ReadKeeps DEF TerminateWorkflowExecution
  <2>4. CASE ~Exists(Target(c))
    BY <1>0, <1>8, <2>2, <2>4, EndUnbound, ReadKeeps DEF TerminateWorkflowExecution
  <2> QED
    BY <2>3, <2>4
<1>9. CASE CommitTerminate(c)
  <2> DEFINE t == tx[c]
             evs == <<Ev("WorkflowExecutionTerminated", c.id, 0)>>
             e == [Advance(exec[t.run], evs) EXCEPT !.status = "TERMINATED"]
  <2>1. t.op = "terminate" /\ t.run \in Run /\ evs \in Seq(Event)
    BY <1>0, <1>9, TxTerminate, CallFields, EvTyped DEF CommitTerminate, EventTypes
  <2>2. Exists(t.run)
    BY <1>0, <2>1 DEF LogInv, ReferencesExist, Unbound, RunOf
  <2>3. e \in ExecRow /\ e.next = exec[t.run].next + Len(evs) /\ e.status # "NONE"
    <3> HIDE DEF evs
    <3>1. exec[t.run] \in ExecRow
      BY <2>1, RunsTypedOfTypeOK DEF LogInv, RunsTyped
    <3>2. /\ Advance(exec[t.run], evs) \in ExecRow
          /\ Advance(exec[t.run], evs).next = exec[t.run].next + Len(evs)
      BY <2>1, <3>1, AdvanceTyped
    <3> QED
      BY <3>2 DEF ExecRow, Statuses
  <2>4. /\ CAS(t.run, t.expect)
        /\ exec' = [exec EXCEPT ![t.run] = e]
        /\ history' = [history EXCEPT ![t.run] = Insert(@, t.expect, evs)]
    BY <1>9 DEF CommitTerminate
  <2>5. Grows(exec, history, exec', history')
    <3> HIDE DEF evs, e
    <3> QED
      BY <2>1, <2>2, <2>3, <2>4, LogInvAppend
  <2>6. \A q \in Call \cup Proc :
           tx'[q] = tx[q] \/ Unbound(tx'[q]) \/ Exists(RunOf(tx'[q]))
    BY <1>0, <1>9, SetKeeps, EndUnbound DEF LogInv, CommitTerminate
  <2> QED
    BY <1>0, <1>9, <2>5, <2>6, LogInvKept DEF CommitTerminate
<1>10. CASE ConflictedTerminate(c)
  BY <1>0, <1>10, EndUnbound, ReadKeeps DEF ConflictedTerminate
<1> QED
  BY <1>1, <1>2, <1>3, <1>4, <1>5, <1>6, <1>7, <1>8, <1>9, <1>10 DEF CallStep

(* A step that changes queue rows only, each keeping its run, and perhaps  *)
(* its own transaction.                                                    *)
LEMMA QueueKeeps ==
    ASSUME LogInv, TypeOK', UNCHANGED <<exec, history>>,
           \A row \in wfTasks' \cup acts' \cup timers' :
              \/ \E old \in wfTasks \cup acts \cup timers : old.run = row.run
              \/ Exists(row.run),
           \A q \in Call \cup Proc :
              tx'[q] = tx[q] \/ Unbound(tx'[q]) \/ Exists(RunOf(tx'[q]))
    PROVE  Keeps
<1>1. Grows(exec, history, exec', history')
  BY LogInvGrows
<1>2. \A r : Exists(r) => r \in Run /\ exec'[r].status # "NONE"
  BY DEF Exists
<1> QED
  BY <1>1, <1>2, LogInvKept

LEMMA ResponseGrows ==
    ASSUME LogInv, NEW t \in Tx, t.op = "wfcomplete", NEW n \in Nat,
           CAS(t.row.run, t.expect), Exists(t.row.run)
    PROVE  LET evs == CommandEvents(t.cmds, n)
               r == t.row.run
           IN  Grows(exec, history, [exec EXCEPT ![r] = Responded(@, t, evs)],
                     [history EXCEPT ![r] = Insert(@, t.expect, evs)])
<1> DEFINE evs == CommandEvents(t.cmds, n)
           r == t.row.run
<1>1. t.cmds \in Seq(Command) /\ t.token \in WfToken
  BY TxWfComplete
<1>2. evs \in Seq(Event)
  BY <1>1, CommandEventsTyped
<1>3. r \in Run /\ exec[r] \in ExecRow /\ exec[r].status # "NONE"
  BY RunsTypedOfTypeOK DEF LogInv, RunsTyped, Exists
<1>4. /\ Responded(exec[r], t, evs) \in ExecRow
      /\ Responded(exec[r], t, evs).next = exec[r].next + Len(evs)
      /\ Responded(exec[r], t, evs).status # "NONE"
  BY <1>1, <1>2, <1>3, RespondedTyped
<1> HIDE DEF evs
<1>5. Grows(exec, history, [exec EXCEPT ![r] = Responded(exec[r], t, evs)],
            [history EXCEPT ![r] = Insert(@, t.expect, evs)])
  BY <1>2, <1>3, <1>4, LogInvAppend
<1> QED
  BY <1>5 DEF evs

(* Clearing a sticky registration touches neither counter nor status.      *)
LEMMA StickyGrows ==
    ASSUME LogInv, NEW r, exec' = [exec EXCEPT ![r].sticky = NoWorker],
           UNCHANGED history
    PROVE  Grows(exec, history, exec', history')
<1>1. exec \in [Run -> ExecRow]
  BY RunsTypedOfTypeOK DEF LogInv, RunsTyped
<1>2. \A q \in Run : /\ exec'[q].next = exec[q].next
                     /\ exec'[q].status = exec[q].status
  BY <1>1 DEF ExecRow
<1>3. Grows(exec, history, exec, history)
  BY GrowsNot DEF LogInv, HistoryContiguous, Contiguous, ReferencesExist
<1> QED
  BY <1>2, <1>3 DEF Grows, Contiguous, Unused

LEMMA ProcStepKeeps ==
    ASSUME LogInv, NEW p \in Proc, ProcStep(p)
    PROVE  Keeps
<1>0. TypeOK' /\ p \in Call \cup Proc /\ tx[p] \in Tx
  BY ProcStepTyped DEF LogInv, TypeOK
<1>b. Unbound(tx[p]) \/ Exists(RunOf(tx[p]))
  BY <1>0 DEF LogInv, ReferencesExist
<1>w. \A row \in WfRow : Leased(row).run = row.run
  BY LeasedTyped
<1>1. CASE FireDueTimer(p)
  <2>1. PICK tm \in timers :
           Set(p, Wake(tm.run, Ev("TimerFired", tm.id, tm.sched),
                       {}, {tm}, 0))
    BY <1>1 DEF FireDueTimer
  <2>2. Exists(RunOf(Wake(tm.run, Ev("TimerFired", tm.id, tm.sched),
                          {}, {tm}, 0)))
    BY WakeRun DEF LogInv, ReferencesExist
  <2> QED
    BY <1>0, <1>1, <2>1, <2>2, ReadKeeps DEF FireDueTimer
<1>2. CASE CommitWake(p)
  BY <1>0, <1>2, CommitWakeKeeps
<1>3. CASE CompleteActivityTask(p)
  <2>1. PICK row \in acts :
           Set(p, Wake(row.run, Ev("ActivityTaskCompleted", row.id, row.sched),
                       {row}, {}, 0))
    BY <1>3 DEF CompleteActivityTask
  <2>2. Exists(RunOf(Wake(row.run, Ev("ActivityTaskCompleted", row.id, row.sched),
                          {row}, {}, 0)))
    BY WakeRun DEF LogInv, ReferencesExist
  <2> QED
    BY <1>0, <1>3, <2>1, <2>2, ReadKeeps DEF CompleteActivityTask
<1>4. CASE RetryActivityTask(p)
  <2>1. PICK row \in acts :
           acts' = (acts \ {row}) \cup
                     {[row EXCEPT !.status = "PENDING", !.attempt = @ + 1]}
    BY <1>4 DEF RetryActivityTask
  <2>2. [row EXCEPT !.status = "PENDING", !.attempt = @ + 1].run = row.run
    BY DEF LogInv, TypeOK, ActRow
  <2> QED
    BY <1>0, <1>4, <2>1, <2>2, QueueKeeps DEF RetryActivityTask
<1>5. CASE FailActivityTask(p)
  <2>1. PICK row \in acts :
           Set(p, Wake(row.run, Ev("ActivityTaskFailed", row.id, row.sched),
                       {row}, {}, 0))
    BY <1>5 DEF FailActivityTask
  <2>2. Exists(RunOf(Wake(row.run, Ev("ActivityTaskFailed", row.id, row.sched),
                          {row}, {}, 0)))
    BY WakeRun DEF LogInv, ReferencesExist
  <2> QED
    BY <1>0, <1>5, <2>1, <2>2, ReadKeeps DEF FailActivityTask
<1>6. ASSUME NEW w \in Worker, DispatchWorkflowTask(p, w) PROVE Keeps
  <2>1. PICK row \in wfTasks :
           /\ wfTasks' = (wfTasks \ {row}) \cup {Leased(row)}
           /\ Set(p, [op |-> "wfdequeued", task |-> row.id,
                      lease |-> Leased(row).lease, worker |-> w, run |-> row.run])
    BY <1>6 DEF DispatchWorkflowTask
  <2>2. Exists(row.run) /\ Leased(row).run = row.run
    BY <1>w DEF LogInv, ReferencesExist, TypeOK
  <2>3. Exists(RunOf([op |-> "wfdequeued", task |-> row.id,
                      lease |-> Leased(row).lease, worker |-> w, run |-> row.run]))
    BY <2>2 DEF RunOf
  <2>4. \A q \in Call \cup Proc :
           tx'[q] = tx[q] \/ Unbound(tx'[q]) \/ Exists(RunOf(tx'[q]))
    BY <1>0, <2>1, <2>3, SetKeeps DEF LogInv
  <2> QED
    BY <1>0, <1>6, <2>1, <2>2, <2>4, QueueKeeps DEF DispatchWorkflowTask
<1>7. CASE BeginWorkflowTaskStarted(p)
  <2> DEFINE t == [op |-> "wfstart", task |-> tx[p].task, lease |-> tx[p].lease,
                   worker |-> tx[p].worker, run |-> tx[p].run,
                   expect |-> exec[tx[p].run].next]
  <2>1. Exists(RunOf(t))
    BY <1>b, <1>7 DEF BeginWorkflowTaskStarted, RunOf, Unbound
  <2>2. Set(p, t)
    BY <1>7 DEF BeginWorkflowTaskStarted
  <2> HIDE DEF t
  <2> QED
    BY <1>0, <1>7, <2>1, <2>2, ReadKeeps DEF BeginWorkflowTaskStarted
<1>8. CASE RecordWorkflowTaskStarted(p)
  <2> DEFINE r == tx[p].run
             evs == <<Ev("WorkflowTaskStarted", 0, 0)>>
             t == [op |-> "wflist", task |-> tx[p].task, lease |-> tx[p].lease,
                   worker |-> tx[p].worker, run |-> r]
  <2>1. Exists(r) /\ r \in Run /\ Exists(RunOf(t))
    BY <1>b, <1>8 DEF RecordWorkflowTaskStarted, RunOf, Unbound, Exists
  <2>2. evs \in Seq(Event)
    BY EvTyped DEF EventTypes
  <2>3. /\ CAS(r, tx[p].expect)
        /\ exec' = [exec EXCEPT ![r] = Advance(@, evs)]
        /\ history' = [history EXCEPT ![r] = Insert(@, tx[p].expect, evs)]
        /\ Set(p, t)
    BY <1>8 DEF RecordWorkflowTaskStarted
  <2> HIDE DEF evs, t
  <2>4. Grows(exec, history, exec', history')
    BY <2>1, <2>2, <2>3, LogInvAdvance
  <2>5. \A q \in Call \cup Proc :
           tx'[q] = tx[q] \/ Unbound(tx'[q]) \/ Exists(RunOf(tx'[q]))
    BY <1>0, <2>1, <2>3, SetKeeps DEF LogInv
  <2> QED
    BY <1>0, <1>8, <2>4, <2>5, LogInvKept DEF RecordWorkflowTaskStarted
<1>9. CASE DeliverWorkflowTask(p)
  BY <1>0, <1>9, EndUnbound, ReadKeeps DEF DeliverWorkflowTask
<1>10. CASE CompleteWorkflowTask(p)
  <2>1. PICK tok \in tokens, row \in wfTasks, cmds \in Seq(Command) :
           Set(p, [op |-> "wfcomplete", row |-> row, expect |-> exec[row.run].next,
                   cmds |-> cmds, token |-> tok])
    BY <1>10 DEF CompleteWorkflowTask
  <2>2. Exists(RunOf([op |-> "wfcomplete", row |-> row,
                      expect |-> exec[row.run].next, cmds |-> cmds, token |-> tok]))
    BY DEF RunOf, LogInv, ReferencesExist
  <2> QED
    BY <1>0, <1>10, <2>1, <2>2, ReadKeeps DEF CompleteWorkflowTask
<1>11. CASE CommitWorkflowTask(p)
  <2> DEFINE t == tx[p]
             r == t.row.run
             evs == CommandEvents(t.cmds, NoRun)
             ex == [exec EXCEPT ![r] = Responded(@, t, evs)]
             hs == [history EXCEPT ![r] = Insert(@, t.expect, evs)]
  <2>1. t \in Tx /\ t.op = "wfcomplete" /\ CAS(r, t.expect) /\ Exists(r)
    BY <1>0, <1>b, <1>11 DEF CommitWorkflowTask, Unbound, RunOf
  <2>2. Grows(exec, history, ex, hs)
    BY <2>1, RunIsNat, ResponseGrows
  <2>3. Grows(exec, history, exec', history')
    BY <1>11, <2>2 DEF CommitWorkflowTask
  <2>4. /\ \A row \in acts' : row \in acts \/ row.run = r
        /\ \A row \in timers' : row \in timers \/ row.run = r
        /\ wfTasks' \subseteq wfTasks
    BY <1>11 DEF CommitWorkflowTask, NewActs, NewTimers
  <2>5. r \in Run /\ exec'[r].status # "NONE"
    BY <2>1, <2>3 DEF Grows, Exists
  <2>6. \A q \in Call \cup Proc :
           tx'[q] = tx[q] \/ Unbound(tx'[q]) \/ Exists(RunOf(tx'[q]))
    BY <1>0, <1>11, SetKeeps, EndUnbound DEF LogInv, CommitWorkflowTask
  <2> HIDE DEF r
  <2> QED
    BY <1>0, <2>3, <2>4, <2>5, <2>6, LogInvKept
<1>12. CASE CommitContinueAsNew(p)
  <2> DEFINE t == tx[p]
             r == t.row.run
             evs(n) == CommandEvents(t.cmds, n)
             ex(n) == [exec EXCEPT ![r] = Responded(@, t, evs(n))]
             hs(n) == [history EXCEPT ![r] = Insert(@, t.expect, evs(n))]
  <2>1. t \in Tx /\ t.op = "wfcomplete" /\ CAS(r, t.expect) /\ Exists(r)
    BY <1>0, <1>b, <1>12 DEF CommitContinueAsNew, Unbound, RunOf
  <2>2. PICK n \in Run : CreateRun(ex(n), hs(n), wfTasks \ {t.row}, n, NoReq, r)
    BY <1>12 DEF CommitContinueAsNew
  <2>3. Grows(exec, history, ex(n), hs(n)) /\ RunsTyped(ex(n), hs(n))
    BY <2>1, RunIsNat, ResponseGrows, ResponseTyped DEF LogInv
  <2>4. ex(n)[n].status = "NONE"
    <3>1. n # r /\ exec[n].status = "NONE"
      BY <2>1, <2>2 DEF CreateRun, Fresh, Exists
    <3>2. DOMAIN exec = Run
      BY DEF LogInv, TypeOK
    <3>3. ex(n)[n] = exec[n]
      BY <3>1, <3>2
    <3> QED
      BY <3>1, <3>3
  <2> HIDE DEF ex, hs
  <2>5. Grows(ex(n), hs(n), exec', history') /\ exec'[n].status # "NONE"
    <3>1. r \in Nat
      BY <2>1, RunIsNat DEF Exists
    <3>2. Contiguous(ex(n), hs(n)) /\ Unused(ex(n))
      BY <2>3 DEF Grows
    <3> QED
      BY <2>2, <2>3, <2>4, <3>1, <3>2, CreateRunGrows
  <2>6. Grows(exec, history, exec', history')
    BY <2>3, <2>5, GrowsTwice
  <2>7. \A row \in wfTasks' : row \in wfTasks \/ row.run = n
    BY <2>2 DEF CreateRun, EnqueueWorkflowTask
  <2>8. \A q \in Call \cup Proc :
           tx'[q] = tx[q] \/ Unbound(tx'[q]) \/ Exists(RunOf(tx'[q]))
    BY <1>0, <1>12, SetKeeps, EndUnbound DEF LogInv, CommitContinueAsNew
  <2>9. UNCHANGED <<acts, timers>>
    BY <1>12 DEF CommitContinueAsNew
  <2> QED
    BY <1>0, <2>5, <2>6, <2>7, <2>8, <2>9, LogInvKept
<1>13. CASE RejectWorkflowTask(p)
  BY <1>0, <1>13, EndUnbound, ReadKeeps DEF RejectWorkflowTask
<1>14. CASE FailWorkflowTask(p)
  <2>1. PICK row \in wfTasks :
           Set(p, [op |-> "wffail", run |-> row.run, cleared |-> FALSE])
    BY <1>14 DEF FailWorkflowTask
  <2>2. Exists(RunOf([op |-> "wffail", run |-> row.run, cleared |-> FALSE]))
    BY DEF RunOf, LogInv, ReferencesExist
  <2>3. \A q \in Call \cup Proc :
           tx'[q] = tx[q] \/ Unbound(tx'[q]) \/ Exists(RunOf(tx'[q]))
    BY <1>0, <2>1, <2>2, SetKeeps DEF LogInv
  <2>4. wfTasks' \subseteq wfTasks
    BY <1>14 DEF FailWorkflowTask
  <2> QED
    BY <1>0, <1>14, <2>3, <2>4, QueueKeeps DEF FailWorkflowTask
<1>15. CASE FailClearSticky(p)
  <2>1. tx[p].run \in Run /\ Exists(tx[p].run)
    BY <1>b, <1>15 DEF FailClearSticky, RunOf, Unbound, Exists
  <2>2. Grows(exec, history, exec', history')
    BY <1>15, StickyGrows DEF FailClearSticky
  <2>3. Exists(RunOf([tx[p] EXCEPT !.cleared = TRUE]))
    BY <1>0, <1>15, <2>1, TxWfFail DEF FailClearSticky
  <2>4. \A q \in Call \cup Proc :
           tx'[q] = tx[q] \/ Unbound(tx'[q]) \/ Exists(RunOf(tx'[q]))
    BY <1>0, <1>15, <2>3, SetKeeps DEF LogInv, FailClearSticky
  <2> QED
    BY <1>0, <1>15, <2>2, <2>4, LogInvKept DEF FailClearSticky
<1>16. CASE FailEnqueue(p)
  <2>1. Exists(tx[p].run)
    BY <1>b, <1>16 DEF FailEnqueue, RunOf, Unbound
  <2>2. \A row \in wfTasks' : row \in wfTasks \/ row.run = tx[p].run
    BY <1>16 DEF FailEnqueue, EnqueueWorkflowTask
  <2>3. \A q \in Call \cup Proc :
           tx'[q] = tx[q] \/ Unbound(tx'[q]) \/ Exists(RunOf(tx'[q]))
    BY <1>0, <1>16, SetKeeps, EndUnbound DEF LogInv, FailEnqueue
  <2> QED
    BY <1>0, <1>16, <2>1, <2>2, <2>3, QueueKeeps DEF FailEnqueue
<1>17. CASE DispatchActivityTask(p)
  <2>1. PICK row \in acts : /\ acts' = (acts \ {row}) \cup {Leased(row)}
                            /\ Set(p, [op |-> "actdequeued", row |-> Leased(row)])
    BY <1>17 DEF DispatchActivityTask
  <2>2. Exists(row.run) /\ Leased(row).run = row.run
    BY LeasedTyped DEF LogInv, ReferencesExist, TypeOK
  <2>3. Exists(RunOf([op |-> "actdequeued", row |-> Leased(row)]))
    BY <2>2 DEF RunOf
  <2>4. \A q \in Call \cup Proc :
           tx'[q] = tx[q] \/ Unbound(tx'[q]) \/ Exists(RunOf(tx'[q]))
    BY <1>0, <2>1, <2>3, SetKeeps DEF LogInv
  <2> QED
    BY <1>0, <1>17, <2>1, <2>2, <2>4, QueueKeeps DEF DispatchActivityTask
<1>18. CASE BeginActivityTaskStarted(p)
  <2> DEFINE t == [op |-> "actstart", row |-> tx[p].row,
                   expect |-> exec[tx[p].row.run].next]
  <2>1. Exists(RunOf(t))
    BY <1>b, <1>18 DEF BeginActivityTaskStarted, RunOf, Unbound
  <2>2. Set(p, t)
    BY <1>18 DEF BeginActivityTaskStarted
  <2> HIDE DEF t
  <2> QED
    BY <1>0, <1>18, <2>1, <2>2, ReadKeeps DEF BeginActivityTaskStarted
<1>19. CASE RecordActivityTaskStarted(p)
  <2> DEFINE r == tx[p].row.run
             evs == <<Ev("ActivityTaskStarted", tx[p].row.id, 0)>>
  <2>1. Exists(r) /\ r \in Run
    BY <1>b, <1>19 DEF RecordActivityTaskStarted, RunOf, Unbound, Exists
  <2>2. evs \in Seq(Event)
    <3>1. tx[p].row.id \in Nat
      BY <1>0, <1>19, TxActStart DEF RecordActivityTaskStarted, ActRow
    <3> QED
      BY <3>1, EvTyped DEF EventTypes
  <2>3. /\ CAS(r, tx[p].expect)
        /\ exec' = [exec EXCEPT ![r] = Advance(@, evs)]
        /\ history' = [history EXCEPT ![r] = Insert(@, tx[p].expect, evs)]
    BY <1>19 DEF RecordActivityTaskStarted
  <2> HIDE DEF evs
  <2>4. Grows(exec, history, exec', history')
    BY <2>1, <2>2, <2>3, LogInvAdvance
  <2>5. \A q \in Call \cup Proc :
           tx'[q] = tx[q] \/ Unbound(tx'[q]) \/ Exists(RunOf(tx'[q]))
    BY <1>0, <1>19, SetKeeps, EndUnbound DEF LogInv, RecordActivityTaskStarted
  <2> QED
    BY <1>0, <1>19, <2>4, <2>5, LogInvKept DEF RecordActivityTaskStarted
<1>20. CASE AbortOnConflict(p)
  BY <1>0, <1>20, EndUnbound, ReadKeeps DEF AbortOnConflict
<1> QED
  BY <1>1, <1>2, <1>3, <1>4, <1>5, <1>6, <1>7, <1>8, <1>9, <1>10, <1>11, <1>12,
     <1>13, <1>14, <1>15, <1>16, <1>17, <1>18, <1>19, <1>20 DEF ProcStep

LEMMA FaultStepKeeps ==
    ASSUME LogInv,
           \/ \E p \in Call \cup Proc : Crash(p)
           \/ ReapWorkflowTask \/ ReapActivityTask
           \/ StickyRegistrationLapses \/ StickyDeadlinePasses
    PROVE  Keeps
<1>0. TypeOK'
  BY FaultStepTyped DEF LogInv
<1>1. ASSUME NEW p \in Call \cup Proc, Crash(p) PROVE Keeps
  BY <1>0, <1>1, EndUnbound, ReadKeeps DEF Crash
<1>2. CASE ReapWorkflowTask
  <2>1. PICK row \in wfTasks :
           wfTasks' = (wfTasks \ {row}) \cup {[row EXCEPT !.status = "PENDING"]}
    BY <1>2 DEF ReapWorkflowTask
  <2>2. [row EXCEPT !.status = "PENDING"].run = row.run
    BY DEF LogInv, TypeOK, WfRow
  <2> QED
    BY <1>0, <1>2, <2>1, <2>2, QueueKeeps DEF ReapWorkflowTask
<1>3. CASE ReapActivityTask
  <2>1. PICK row \in acts :
           acts' = (acts \ {row}) \cup {[row EXCEPT !.status = "PENDING"]}
    BY <1>3 DEF ReapActivityTask
  <2>2. [row EXCEPT !.status = "PENDING"].run = row.run
    BY DEF LogInv, TypeOK, ActRow
  <2> QED
    BY <1>0, <1>3, <2>1, <2>2, QueueKeeps DEF ReapActivityTask
<1>4. CASE StickyRegistrationLapses
  <2>1. Grows(exec, history, exec', history')
    BY <1>4, StickyGrows DEF StickyRegistrationLapses
  <2> QED
    BY <1>0, <1>4, <2>1, LogInvKept DEF StickyRegistrationLapses
<1>5. CASE StickyDeadlinePasses
  <2>1. PICK row \in wfTasks :
           wfTasks' = (wfTasks \ {row}) \cup {[row EXCEPT !.pref = NoWorker]}
    BY <1>5 DEF StickyDeadlinePasses
  <2>2. [row EXCEPT !.pref = NoWorker].run = row.run
    BY DEF LogInv, TypeOK, WfRow
  <2> QED
    BY <1>0, <1>5, <2>1, <2>2, QueueKeeps DEF StickyDeadlinePasses
<1> QED
  BY <1>1, <1>2, <1>3, <1>4, <1>5

LEMMA LogInvInit == Init => LogInv
<1> SUFFICES ASSUME Init PROVE LogInv
  OBVIOUS
<1>1. TypeOK
  <2>1. Idle \in Tx /\ \A i \in DOMAIN <<>> : FALSE
    BY EndTyped
  <2> QED
    BY <2>1, RunIsNat DEF Init, TypeOK, Statuses
<1>2. HistoryContiguous
  <2>1. DOMAIN <<>> = 1 .. (1 - 1)
    OBVIOUS
  <2> QED
    BY <2>1 DEF Init, HistoryContiguous
<1>3. ReferencesExist
  BY EndUnbound DEF Init, ReferencesExist, Unused
<1> QED
  BY <1>1, <1>2, <1>3 DEF LogInv

LEMMA LogInvStep == LogInv /\ [Next]_vars => Keeps
<1> SUFFICES ASSUME LogInv, [Next]_vars PROVE Keeps
  OBVIOUS
<1>1. CASE UNCHANGED vars
  <2>1. TypeOK'
    BY <1>1 DEF LogInv, vars, tables, TypeOK
  <2> QED
    BY <1>1, <2>1, QueueKeeps DEF vars, tables
<1>2. CASE Next
  BY <1>2, CallStepKeeps, ProcStepKeeps, FaultStepKeeps DEF Next
<1> QED
  BY <1>1, <1>2

(* However many requests race for a run's next_event_id, its events are    *)
(* numbered 1, 2, ... without a gap up to the counter (AppendHistory).     *)
THEOREM HistoryHasNoGaps == Spec => []HistoryContiguous
<1>1. LogInv => HistoryContiguous
  BY DEF LogInv
<1>2. LogInv /\ [Next]_vars => LogInv'
  BY LogInvStep DEF Keeps
<1> QED
  BY <1>1, <1>2, LogInvInit, PTL DEF Spec

(* The engine implements the abstract log of HistoryLog: no interleaving   *)
(* of handlers, conflict, crash or reap ever overwrites, drops or reorders *)
(* a committed event, and continue-as-new extends both runs in one step.   *)
THEOREM EngineImplementsHistoryLog == Spec => ImplementsHistoryLog
<1>1. Init => Log!Init
  BY DEF Init, Log!Init
<1>2. LogInv /\ [Next]_vars => [Log!Append]_history
  <2> SUFFICES ASSUME LogInv, [Next]_vars PROVE Log!Append
    OBVIOUS
  <2>1. LogInv' /\ Grows(exec, history, exec', history')
    BY LogInvStep DEF Keeps
  <2>2. DOMAIN history' = Run
    BY <2>1 DEF LogInv, TypeOK
  <2>3. ASSUME NEW r \in Run PROVE Log!IsLog(history'[r])
    <3>1. DOMAIN history'[r] = 1 .. (exec'[r].next - 1) /\ exec'[r].next \in Nat
      BY <2>1 DEF LogInv, HistoryContiguous, TypeOK
    <3> QED
      BY <3>1 DEF Log!IsLog
  <2>4. \A r \in Run : Log!Extends(history[r], history'[r])
    BY <2>1 DEF Grows
  <2> QED
    BY <2>2, <2>3, <2>4 DEF Log!Append
<1>3. LogInv /\ [Next]_vars => LogInv'
  BY LogInvStep DEF Keeps
<1> QED
  BY <1>1, <1>2, <1>3, LogInvInit, PTL DEF Spec, ImplementsHistoryLog, Log!Spec
=============================================================================
