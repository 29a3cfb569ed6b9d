---------------------------- MODULE FlowdEngine -----------------------------
(***************************************************************************)
(* The durable core of flowd: the history engine (internal/history), the   *)
(* task queues and lease reaper (internal/matching) and the SQL they run   *)
(* (internal/persistence/postgres/queries), for one workflow_id.           *)
(*                                                                         *)
(* The variables current .. timers are the Postgres tables.  A request is  *)
(* served by a process: a client call c \in Call or a server goroutine     *)
(* p \in Proc (polls, worker responses, the timer firer).  Postgres runs   *)
(* READ COMMITTED, so a transaction is two steps: a first one that makes   *)
(* its reads (and deletes the task row it answers, which stays locked      *)
(* until the transaction ends), and a last one that runs the compare-and-  *)
(* swap on next_event_id and makes every write visible.  tx[p] holds what  *)
(* the first step read.  Statements outside a transaction commit alone.    *)
(***************************************************************************)
EXTENDS Naturals, Sequences

CONSTANTS
    Worker, NoWorker,  \* worker identities; "no preference"
    LiveWorker,        \* the workers that never stop polling
    Call,              \* client RPCs, each issued at most once
    Proc,              \* server goroutines
    MaxRuns,           \* run_ids are 1..MaxRuns
    Decide(_),         \* the command lists workflow code may answer to a history
    MaxAttempts,       \* retry_max_attempts of every activity; 0: no limit
    MaxRetries,        \* maxConcurrentModificationRetries
    StickyEnabled,     \* do workers register for sticky dispatch?
    CrashPoints,       \* the handlers a server crash may interrupt
    MaxCrashes,        \* bound: server crashes
    MaxExpiries,       \* bound: leases that lapse while their holder is alive
    MaxTaskFailures,   \* bound: RespondWorkflowTaskFailed calls
    MaxRaceEvents      \* bound: transactions on a run overlap while it has fewer events

Run == 1 .. MaxRuns
NoRun == 0
NoReq == 0             \* the synthetic create_request_id of a continued run

Statuses == {"NONE", "RUNNING", "COMPLETED", "FAILED", "TERMINATED",
             "CONTINUED_AS_NEW"}

EventTypes ==
    {"WorkflowExecutionStarted", "WorkflowExecutionCompleted",
     "WorkflowExecutionFailed", "WorkflowExecutionTerminated",
     "WorkflowExecutionContinuedAsNew", "WorkflowExecutionSignaled",
     "WorkflowExecutionCancelRequested", "WorkflowTaskScheduled",
     "WorkflowTaskStarted", "WorkflowTaskCompleted", "ActivityTaskScheduled",
     "ActivityTaskStarted", "ActivityTaskCompleted", "ActivityTaskFailed",
     "TimerStarted", "TimerFired"}

(* id: the activity, timer or call the event is about.  ref: for an        *)
(* outcome, the event_id of the schedule event its row came from; for      *)
(* WorkflowExecutionStarted, continued_from_run_id.                        *)
Event == [type : EventTypes, id : Nat, ref : Nat]
Ev(type, id, ref) == [type |-> type, id |-> id, ref |-> ref]

CommandKinds ==
    {"ScheduleActivityTask", "StartTimer", "CompleteWorkflowExecution",
     "FailWorkflowExecution", "ContinueAsNewWorkflowExecution"}
Command == [kind : CommandKinds, id : Nat]

CallKinds == {"Start", "Signal", "Cancel", "Terminate"}

ASSUME ConstantsAssumption ==
    /\ Call \cap Proc = {}
    /\ Call \subseteq [op : CallKinds, id : Nat, target : Nat, req : Nat \ {NoReq}]
    /\ \A c, d \in Call : c.id = d.id => c = d
    /\ CrashPoints \cap {"idle", "done"} = {}
    /\ NoWorker \notin Worker /\ LiveWorker \subseteq Worker
    /\ MaxRuns \in Nat \ {0}
    /\ MaxAttempts \in Nat
    /\ MaxRetries \in Nat \ {0}
    /\ StickyEnabled \in BOOLEAN
    /\ MaxCrashes \in Nat /\ MaxExpiries \in Nat /\ MaxTaskFailures \in Nat
    /\ MaxRaceEvents \in Nat

VARIABLES
    current,     \* current_executions: the workflow_id's run and request id
    exec,        \* workflow_executions: status, next_event_id, sticky worker
    history,     \* history_events: per run, event_id -> event
    wfTasks,     \* workflow_tasks rows
    acts,        \* activity_tasks rows
    timers,      \* timers rows
    nextTask,    \* workflow_tasks.task_id sequence
    tx,          \* the transaction or request each process is in
    tokens,      \* workflow task tokens workers hold; each is answered once
    actTokens,   \* activity task tokens workers hold
    seen,        \* ghost: last event a committed workflow task had been shown
    spent        \* faults used up, against the bounds

tables == <<current, exec, history, wfTasks, acts, timers, nextTask>>
vars == <<tables, tx, tokens, actTokens, seen, spent>>

-----------------------------------------------------------------------------
(* Rows. A lease token is a fresh uuid per dequeue: the count of dequeues. *)

WfRow == [id : Nat, run : Run, status : {"PENDING", "STARTED"}, lease : Nat,
          pref : Worker \cup {NoWorker}]
ActRow == [run : Run, sched : Nat, id : Nat, attempt : Nat,
           status : {"PENDING", "STARTED"}, lease : Nat]
TimerRow == [run : Run, id : Nat, sched : Nat]

WfToken == [task : Nat, lease : Nat, run : Run, seen : Nat, worker : Worker]
ActToken == [run : Run, sched : Nat, lease : Nat]

Idle == [op |-> "idle"]
Done(ok, r) == [op |-> "done", ok |-> ok, run |-> r]

Tx == [op : {"idle"}]
   \cup [op : {"done"}, ok : BOOLEAN, run : Nat]
   \cup [op : {"start"}, req : Nat]
   \cup [op : {"terminate"}, run : Run, expect : Nat]
   \cup [op : {"wake"}, run : Run, expect : Nat, ev : Event,
         act : SUBSET ActRow, timer : SUBSET TimerRow,
         pref : Worker \cup {NoWorker}, tries : Nat]
   \cup [op : {"wfstart"}, task : Nat, lease : Nat, worker : Worker, run : Run,
         expect : Nat]
   \cup [op : {"wfdequeued", "wflist"}, task : Nat, lease : Nat, worker : Worker, run : Run]
   \cup [op : {"wfcomplete"}, row : WfRow, expect : Nat, cmds : Seq(Command),
         token : WfToken]
   \cup [op : {"wffail"}, run : Run, cleared : BOOLEAN]
   \cup [op : {"actdequeued"}, row : ActRow]
   \cup [op : {"actstart"}, row : ActRow, expect : Nat]

(* Rows deleted by a transaction that has not ended: DELETE, UPDATE and    *)
(* the reaper wait for it, SKIP LOCKED passes them over.                   *)
LockedWf == {tx[p].row : p \in {q \in Proc : tx[q].op = "wfcomplete"}}
LockedActs == UNION {tx[p].act : p \in {q \in Proc : tx[q].op = "wake"}}
LockedTimers == UNION {tx[p].timer : p \in {q \in Proc : tx[q].op = "wake"}}

(* WHERE task_id = $1 AND lease_token = $2; a PENDING row's token is NULL. *)
HoldsWf(row, tok) ==
    row.id = tok.task /\ row.status = "STARTED" /\ row.lease = tok.lease
HoldsAct(row, tok) ==
    /\ row.run = tok.run /\ row.sched = tok.sched
    /\ row.status = "STARTED" /\ row.lease = tok.lease

(* Mutant: the dequeue keeps the token of the lease before.                *)
LeasedWithOldToken(row) ==
    [row EXCEPT !.status = "STARTED", !.lease = IF @ = 0 THEN 1 ELSE @]

(* SET status = 'STARTED', lease_token = gen_random_uuid()                 *)
Leased(row) == [row EXCEPT !.status = "STARTED", !.lease = row.lease + 1]

-----------------------------------------------------------------------------
(* Helpers of the write paths.                                             *)

(* Mutant: the UPDATE accepts a counter that has moved on.                 *)
CASNotExact(r, expected) == exec[r].next >= expected

(* AdvanceNextEventID: UPDATE ... WHERE next_event_id = expected.          *)
CAS(r, expected) == exec[r].next = expected

(* AppendHistory's inserts: event number i of evs gets id expected+i-1.    *)
Insert(h, expected, evs) ==
    [i \in DOMAIN h \cup (expected .. (expected + Len(evs) - 1)) |->
        IF i >= expected /\ i < expected + Len(evs)
        THEN evs[i - expected + 1] ELSE h[i]]

(* Mutant: the counter moves by one whatever was appended.                 *)
AdvanceByOne(e, evs) == [e EXCEPT !.next = @ + 1]

Advance(e, evs) == [e EXCEPT !.next = @ + Len(evs)]

(* Mutant: no second row for a run that already has one.                   *)
EnqueueOncePerRun(rows, r, pref) ==
    IF \E row \in rows : row.run = r THEN rows
    ELSE rows \cup {[id |-> nextTask, run |-> r, status |-> "PENDING",
                     lease |-> 0, pref |-> pref]}

EnqueueWorkflowTask(rows, r, pref) ==
    rows \cup {[id |-> nextTask, run |-> r, status |-> "PENDING", lease |-> 0,
                pref |-> pref]}

(* Mutant: the new run does not record the run it continues.               *)
StartEventsUnlinked(from) == <<Ev("WorkflowExecutionStarted", 0, NoRun),
                               Ev("WorkflowTaskScheduled", 0, 0)>>

StartEvents(from) == <<Ev("WorkflowExecutionStarted", 0, from),
                       Ev("WorkflowTaskScheduled", 0, 0)>>

(* Mutant: a status the schema does not know.                              *)
NewExecOpen == [status |-> "OPEN", next |-> 1, sticky |-> NoWorker]

NewExec == [status |-> "RUNNING", next |-> 1, sticky |-> NoWorker]

(* uuid.NewString(): a run_id not used before.                             *)
Fresh(r) == /\ exec[r].status = "NONE"
            /\ \A s \in 1 .. (r - 1) : exec[s].status # "NONE"

Exists(r) == r \in Run /\ exec[r].status # "NONE"

(* p.RunID, or the workflow_id's current run when the caller left it empty *)
Target(c) == IF c.target = NoRun THEN current.run ELSE c.target

Set(p, t) == tx' = [tx EXCEPT ![p] = t]

RunOf(t) ==
    IF t.op \in {"wfcomplete", "actdequeued", "actstart"} THEN t.row.run ELSE t.run

(* Two tasks of one run can spoil each other's compare-and-swap for ever,  *)
(* each redispatch adding events.  Bound: once a run has MaxRaceEvents     *)
(* events, a transaction on it begins when no other is open.               *)
MayBegin(r) ==
    \/ exec[r].next <= MaxRaceEvents
    \/ \A p \in Call \cup Proc :
          tx[p].op \in {"wake", "terminate", "wfstart", "wfcomplete", "actstart"}
          => RunOf(tx[p]) # r

-----------------------------------------------------------------------------
Init ==
    /\ current = [run |-> NoRun, req |-> NoReq]
    /\ exec = [r \in Run |-> [status |-> "NONE", next |-> 1, sticky |-> NoWorker]]
    /\ history = [r \in Run |-> <<>>]
    /\ wfTasks = {} /\ acts = {} /\ timers = {}
    /\ nextTask = 1
    /\ tx = [p \in Call \cup Proc |-> Idle]
    /\ tokens = {} /\ actTokens = {}
    /\ seen = [r \in Run |-> 0]
    /\ spent = [crashes |-> 0, expiries |-> 0, failures |-> 0]

-----------------------------------------------------------------------------
(* StartWorkflowExecution.                                                 *)

(* Points current_executions at a new run, creates it with its two start   *)
(* events and its first workflow task.  ex, hs and rows are the tables as  *)
(* the transaction left them before.                                       *)
CreateRun(ex, hs, rows, r, req, from) ==
    /\ Fresh(r)
    /\ current' = [run |-> r, req |-> req]
    /\ exec' = [ex EXCEPT ![r] = Advance(NewExec, StartEvents(from))]
    /\ history' = [hs EXCEPT ![r] = Insert(<<>>, NewExec.next, StartEvents(from))]
    /\ wfTasks' = EnqueueWorkflowTask(rows, r, NoWorker)
    /\ nextTask' = nextTask + 1

(* InsertCurrentExecution succeeds: a rival insert waits for this          *)
(* transaction, so it is one step.                                         *)
StartFirst(c) ==
    /\ c.op = "Start" /\ tx[c].op = "idle" /\ current.run = NoRun
    /\ \E r \in Run :
          /\ CreateRun(exec, history, wfTasks, r, c.req, NoRun)
          /\ Set(c, Done(TRUE, r))
    /\ UNCHANGED <<acts, timers, tokens, actTokens, seen, spent>>

(* ON CONFLICT DO NOTHING: the row is read, not locked.                    *)
StartOnExisting(c) ==
    /\ c.op = "Start" /\ tx[c].op = "idle" /\ current.run # NoRun
    /\ Set(c, IF current.req = c.req THEN Done(TRUE, current.run)
              ELSE IF exec[current.run].status = "RUNNING" THEN Done(FALSE, NoRun)
              ELSE [op |-> "start", req |-> c.req])
    /\ UNCHANGED <<tables, tokens, actTokens, seen, spent>>

(* ReplaceCurrentExecution checks nothing.                                 *)
StartReplacing(c) ==
    /\ tx[c].op = "start"
    /\ \E r \in Run :
          /\ CreateRun(exec, history, wfTasks, r, tx[c].req, NoRun)
          /\ Set(c, Done(TRUE, r))
    /\ UNCHANGED <<acts, timers, tokens, actTokens, seen, spent>>

-----------------------------------------------------------------------------
(* The transactions that wake a workflow: signal, cancel request, activity *)
(* outcome, fired timer.  Each appends its event and a                     *)
(* WorkflowTaskScheduled, deletes the row it answers, and enqueues a task. *)

(* Mutant: the answered row is not deleted.                                *)
WakeKeepingRow(r, ev, act, timer, tries) ==
    [op |-> "wake", run |-> r, expect |-> exec[r].next, ev |-> ev, act |-> {},
     timer |-> {}, pref |-> exec[r].sticky, tries |-> tries]

Wake(r, ev, act, timer, tries) ==
    [op |-> "wake", run |-> r, expect |-> exec[r].next, ev |-> ev, act |-> act,
     timer |-> timer, pref |-> exec[r].sticky, tries |-> tries]

CallEvent(c) ==
    Ev(IF c.op = "Signal" THEN "WorkflowExecutionSignaled"
       ELSE "WorkflowExecutionCancelRequested", c.id, 0)

(* One attempt of the signal/cancel transaction: the reads.                *)
WakeAttempt(c, tries) ==
    IF Exists(Target(c)) THEN Wake(Target(c), CallEvent(c), {}, {}, tries)
    ELSE Done(FALSE, NoRun)

SignalWorkflowExecution(c) ==
    /\ c.op = "Signal" /\ tx[c].op = "idle"
    /\ Exists(Target(c)) => MayBegin(Target(c))
    /\ Set(c, WakeAttempt(c, 0))
    /\ UNCHANGED <<tables, tokens, actTokens, seen, spent>>

RequestCancelWorkflowExecution(c) ==
    /\ c.op = "Cancel" /\ tx[c].op = "idle"
    /\ Exists(Target(c)) => MayBegin(Target(c))
    /\ Set(c, WakeAttempt(c, 0))
    /\ UNCHANGED <<tables, tokens, actTokens, seen, spent>>

(* withTxRetryOnConflict: only signal and cancel run their transaction     *)
(* again.                                                                  *)
RetryOnConflict(c) ==
    /\ tx[c].op = "wake" /\ ~CAS(tx[c].run, tx[c].expect)
    /\ Set(c, IF tx[c].tries + 1 < MaxRetries THEN WakeAttempt(c, tx[c].tries + 1)
              ELSE Done(FALSE, NoRun))
    /\ UNCHANGED <<tables, tokens, actTokens, seen, spent>>

(* The write half, shared.                                                 *)
CommitWake(p) ==
    LET t == tx[p]
        evs == <<t.ev, Ev("WorkflowTaskScheduled", 0, 0)>>
    IN  /\ t.op = "wake" /\ CAS(t.run, t.expect)
        /\ history' = [history EXCEPT ![t.run] = Insert(@, t.expect, evs)]
        /\ exec' = [exec EXCEPT ![t.run] = Advance(@, evs)]
        /\ acts' = acts \ t.act
        /\ timers' = timers \ t.timer
        /\ wfTasks' = EnqueueWorkflowTask(wfTasks, t.run, t.pref)
        /\ nextTask' = nextTask + 1
        /\ Set(p, IF p \in Call THEN Done(TRUE, t.run) ELSE Idle)
        /\ UNCHANGED <<current, tokens, actTokens, seen, spent>>

(* fireDueTimer: DequeueDueTimer deletes a due row (any row may be due).   *)
FireDueTimer(p) ==
    /\ tx[p].op = "idle"
    /\ \E tm \in timers \ LockedTimers :
          /\ MayBegin(tm.run)
          /\ Set(p, Wake(tm.run, Ev("TimerFired", tm.id, tm.sched), {}, {tm}, 0))
    /\ UNCHANGED <<tables, tokens, actTokens, seen, spent>>

(* CompleteActivityTask: completeActivityTaskRow, then the reads.          *)
CompleteActivityTask(p) ==
    /\ tx[p].op = "idle"
    /\ \E tok \in actTokens, row \in acts \ LockedActs :
          /\ HoldsAct(row, tok) /\ actTokens' = actTokens \ {tok}
          /\ MayBegin(row.run)
          /\ Set(p, Wake(row.run, Ev("ActivityTaskCompleted", row.id, row.sched),
                         {row}, {}, 0))
    /\ UNCHANGED <<tables, tokens, seen, spent>>

Retryable(row, nonRetryable) ==
    (MaxAttempts = 0 \/ row.attempt < MaxAttempts) /\ ~nonRetryable

(* FailActivityTask, attempts left: RetryActivityTask, one statement.      *)
RetryActivityTask(p) ==
    /\ tx[p].op = "idle"
    /\ \E tok \in actTokens, row \in acts \ LockedActs :
          /\ HoldsAct(row, tok) /\ actTokens' = actTokens \ {tok}
          /\ Retryable(row, FALSE)
          /\ acts' = (acts \ {row}) \cup
                {[row EXCEPT !.status = "PENDING", !.attempt = @ + 1]}
    /\ UNCHANGED <<current, exec, history, wfTasks, timers, nextTask, tx,
                   tokens, seen, spent>>

(* FailActivityTask, attempts exhausted or a non-retryable error type.     *)
FailActivityTask(p) ==
    /\ tx[p].op = "idle"
    /\ \E tok \in actTokens, row \in acts \ LockedActs, nr \in BOOLEAN :
          /\ HoldsAct(row, tok) /\ actTokens' = actTokens \ {tok}
          /\ ~Retryable(row, nr) /\ MayBegin(row.run)
          /\ Set(p, Wake(row.run, Ev("ActivityTaskFailed", row.id, row.sched),
                         {row}, {}, 0))
    /\ UNCHANGED <<tables, tokens, seen, spent>>

-----------------------------------------------------------------------------
(* TerminateWorkflowExecution: one attempt, no look at the status.         *)

TerminateWorkflowExecution(c) ==
    /\ c.op = "Terminate" /\ tx[c].op = "idle"
    /\ Exists(Target(c)) => MayBegin(Target(c))
    /\ Set(c, IF Exists(Target(c))
              THEN [op |-> "terminate", run |-> Target(c),
                    expect |-> exec[Target(c)].next]
              ELSE Done(FALSE, NoRun))
    /\ UNCHANGED <<tables, tokens, actTokens, seen, spent>>

CommitTerminate(c) ==
    LET t == tx[c]
        evs == <<Ev("WorkflowExecutionTerminated", c.id, 0)>>
    IN  /\ t.op = "terminate" /\ CAS(t.run, t.expect)
        /\ history' = [history EXCEPT ![t.run] = Insert(@, t.expect, evs)]
        /\ exec' = [exec EXCEPT
              ![t.run] = [Advance(@, evs) EXCEPT !.status = "TERMINATED"]]
        /\ Set(c, Done(TRUE, t.run))
        /\ UNCHANGED <<current, wfTasks, acts, timers, nextTask, tokens,
                       actTokens, seen, spent>>

ConflictedTerminate(c) ==
    /\ tx[c].op = "terminate" /\ ~CAS(tx[c].run, tx[c].expect)
    /\ Set(c, Done(FALSE, NoRun))
    /\ UNCHANGED <<tables, tokens, actTokens, seen, spent>>

-----------------------------------------------------------------------------
(* Workflow task dispatch.                                                 *)

Visible(row, w) == row.status = "PENDING" /\ row.pref \in {NoWorker, w}

(* DequeueWorkflowTask commits alone: the row is leased before anything    *)
(* else is known of its run.                                               *)
DispatchWorkflowTask(p, w) ==
    /\ tx[p].op = "idle"
    /\ \E row \in wfTasks \ LockedWf :
          /\ Visible(row, w)
          /\ \A o \in wfTasks \ LockedWf : Visible(o, w) => row.id <= o.id
          /\ wfTasks' = (wfTasks \ {row}) \cup {Leased(row)}
          /\ Set(p, [op |-> "wfdequeued", task |-> row.id,
                     lease |-> Leased(row).lease, worker |-> w, run |-> row.run])
    /\ UNCHANGED <<current, exec, history, acts, timers, nextTask, tokens,
                   actTokens, seen, spent>>

(* The transaction that records the start: its read, its write.            *)
BeginWorkflowTaskStarted(p) ==
    LET t == tx[p]
    IN  /\ t.op = "wfdequeued" /\ MayBegin(t.run)
        /\ Set(p, [op |-> "wfstart", task |-> t.task, lease |-> t.lease,
                   worker |-> t.worker, run |-> t.run, expect |-> exec[t.run].next])
        /\ UNCHANGED <<tables, tokens, actTokens, seen, spent>>

RecordWorkflowTaskStarted(p) ==
    LET t == tx[p]
        evs == <<Ev("WorkflowTaskStarted", 0, 0)>>
    IN  /\ t.op = "wfstart" /\ CAS(t.run, t.expect)
        /\ history' = [history EXCEPT ![t.run] = Insert(@, t.expect, evs)]
        /\ exec' = [exec EXCEPT ![t.run] = Advance(@, evs)]
        /\ Set(p, [op |-> "wflist", task |-> t.task, lease |-> t.lease,
                   worker |-> t.worker, run |-> t.run])
        /\ UNCHANGED <<current, wfTasks, acts, timers, nextTask, tokens,
                       actTokens, seen, spent>>

(* ListHistoryEvents runs after that commit: the worker may be shown more  *)
(* than the start event.                                                   *)
DeliverWorkflowTask(p) ==
    LET t == tx[p]
    IN  /\ t.op = "wflist"
        /\ tokens' = tokens \cup
              {[task |-> t.task, lease |-> t.lease, run |-> t.run,
                seen |-> exec[t.run].next - 1, worker |-> t.worker]}
        /\ Set(p, Idle)
        /\ UNCHANGED <<tables, actTokens, seen, spent>>

-----------------------------------------------------------------------------
(* CompleteWorkflowTask.                                                   *)

Shown(tok) == [i \in 1 .. tok.seen |-> history[tok.run][i]]

(* The worker's answer, its row deleted by lease token, next_event_id as   *)
(* it is now: not as it was when the task was dispatched.                  *)
CompleteWorkflowTask(p) ==
    /\ tx[p].op = "idle"
    /\ \E tok \in tokens, row \in wfTasks \ LockedWf :
          /\ HoldsWf(row, tok) /\ MayBegin(row.run) /\ tokens' = tokens \ {tok}
          /\ \E cmds \in Decide(Shown(tok)) :
                /\ cmds \in Seq(Command)
                /\ Set(p, [op |-> "wfcomplete", row |-> row,
                           expect |-> exec[row.run].next, cmds |-> cmds,
                           token |-> tok])
    /\ UNCHANGED <<tables, actTokens, seen, spent>>

TerminalKinds == {"CompleteWorkflowExecution", "FailWorkflowExecution",
                  "ContinueAsNewWorkflowExecution"}

Indices(cmds, kinds) == {i \in DOMAIN cmds : cmds[i].kind \in kinds}

Continues(cmds) == Indices(cmds, {"ContinueAsNewWorkflowExecution"}) # {}

(* The new timers rows; event i of a response follows WorkflowTaskCompleted *)
NewTimers(t) ==
    {[run |-> t.row.run, id |-> t.cmds[i].id, sched |-> t.expect + i] :
        i \in Indices(t.cmds, {"StartTimer"})}

NewActs(t) ==
    {[run |-> t.row.run, sched |-> t.expect + i, id |-> t.cmds[i].id,
      attempt |-> 1, status |-> "PENDING", lease |-> 0] :
        i \in Indices(t.cmds, {"ScheduleActivityTask"})}

(* Two terminal commands, or continue-as-new beside a schedule, fail the   *)
(* transaction; so does the primary key of timers (run, timer_id).         *)
Acceptable(t) ==
    /\ \A i, j \in Indices(t.cmds, TerminalKinds) : i = j
    /\ Continues(t.cmds) =>
          Indices(t.cmds, {"ScheduleActivityTask", "StartTimer"}) = {}
    /\ \A n \in NewTimers(t) : \A o \in timers \cup NewTimers(t) :
          (o.run = n.run /\ o.id = n.id) => o = n

CommandEvent(c, newRun) ==
    CASE c.kind = "ScheduleActivityTask" -> Ev("ActivityTaskScheduled", c.id, 0)
      [] c.kind = "StartTimer" -> Ev("TimerStarted", c.id, 0)
      [] c.kind = "CompleteWorkflowExecution" -> Ev("WorkflowExecutionCompleted", 0, 0)
      [] c.kind = "FailWorkflowExecution" -> Ev("WorkflowExecutionFailed", 0, 0)
      [] OTHER -> Ev("WorkflowExecutionContinuedAsNew", 0, newRun)

CommandEvents(cmds, newRun) ==
    [i \in 1 .. (Len(cmds) + 1) |->
        IF i = 1 THEN Ev("WorkflowTaskCompleted", 0, 0)
        ELSE CommandEvent(cmds[i - 1], newRun)]

(* Mutant: a closed run keeps its status, though the event is appended.    *)
CloseStatusOnce(cmds, status) ==
    IF status # "RUNNING" THEN status
    ELSE IF Indices(cmds, {"CompleteWorkflowExecution"}) # {} THEN "COMPLETED"
    ELSE IF Indices(cmds, {"FailWorkflowExecution"}) # {} THEN "FAILED"
    ELSE IF Continues(cmds) THEN "CONTINUED_AS_NEW"
    ELSE status

(* CloseWorkflowExecution overwrites whatever status it finds.             *)
CloseStatus(cmds, status) ==
    IF Indices(cmds, {"CompleteWorkflowExecution"}) # {} THEN "COMPLETED"
    ELSE IF Indices(cmds, {"FailWorkflowExecution"}) # {} THEN "FAILED"
    ELSE IF Continues(cmds) THEN "CONTINUED_AS_NEW"
    ELSE status

(* The run after the response: counter, status and, for a run the response *)
(* leaves open, this round's sticky registration or its absence.           *)
Responded(e, t, evs) ==
    [Advance(e, evs) EXCEPT
        !.status = CloseStatus(t.cmds, @),
        !.sticky = IF Indices(t.cmds, TerminalKinds) # {} THEN @
                   ELSE IF StickyEnabled THEN t.token.worker ELSE NoWorker]

MaxOf(m, n) == IF m >= n THEN m ELSE n

CommitWorkflowTask(p) ==
    LET t == tx[p]
        evs == CommandEvents(t.cmds, NoRun)
        r == t.row.run
    IN  /\ t.op = "wfcomplete" /\ CAS(r, t.expect)
        /\ Acceptable(t) /\ ~Continues(t.cmds)
        /\ history' = [history EXCEPT ![r] = Insert(@, t.expect, evs)]
        /\ exec' = [exec EXCEPT ![r] = Responded(@, t, evs)]
        /\ wfTasks' = wfTasks \ {t.row}
        /\ acts' = acts \cup NewActs(t)
        /\ timers' = timers \cup NewTimers(t)
        /\ seen' = [seen EXCEPT ![r] = MaxOf(@, t.token.seen)]
        /\ Set(p, Idle)
        /\ UNCHANGED <<current, nextTask, tokens, actTokens, spent>>

(* continueWorkflowAsNew, in the same transaction.                         *)
CommitContinueAsNew(p) ==
    LET t == tx[p]
        r == t.row.run
    IN  /\ t.op = "wfcomplete" /\ CAS(r, t.expect)
        /\ Acceptable(t) /\ Continues(t.cmds)
        /\ \E n \in Run :
             LET evs == CommandEvents(t.cmds, n)
             IN  CreateRun([exec EXCEPT ![r] = Responded(@, t, evs)],
                           [history EXCEPT ![r] = Insert(@, t.expect, evs)],
                           wfTasks \ {t.row}, n, NoReq, r)
        /\ seen' = [seen EXCEPT ![r] = MaxOf(@, t.token.seen)]
        /\ Set(p, Idle)
        /\ UNCHANGED <<acts, timers, tokens, actTokens, spent>>

(* A response the transaction refuses: the row, its lease intact, waits    *)
(* for the reaper.                                                         *)
RejectWorkflowTask(p) ==
    /\ tx[p].op = "wfcomplete" /\ CAS(tx[p].row.run, tx[p].expect)
    /\ ~Acceptable(tx[p])
    /\ Set(p, Idle)
    /\ UNCHANGED <<tables, tokens, actTokens, seen, spent>>

-----------------------------------------------------------------------------
(* FailWorkflowTask: three statements, each committed alone.  Replay       *)
(* panics (Decide offers nothing) or the worker fails for its own reasons. *)

FailWorkflowTask(p) ==
    /\ tx[p].op = "idle" /\ spent.failures < MaxTaskFailures
    /\ \E tok \in tokens, row \in wfTasks \ LockedWf :
          /\ HoldsWf(row, tok) /\ tokens' = tokens \ {tok}
          /\ wfTasks' = wfTasks \ {row}
          /\ Set(p, [op |-> "wffail", run |-> row.run, cleared |-> FALSE])
    /\ spent' = [spent EXCEPT !.failures = @ + 1]
    /\ UNCHANGED <<current, exec, history, acts, timers, nextTask,
                   actTokens, seen>>

(* Mutant: the handler returns once the registration is cleared.           *)
FailClearStickyReturns(p) ==
    /\ tx[p].op = "wffail" /\ ~tx[p].cleared
    /\ exec' = [exec EXCEPT ![tx[p].run].sticky = NoWorker]
    /\ Set(p, Idle)
    /\ UNCHANGED <<current, history, wfTasks, acts, timers, nextTask, tokens,
                   actTokens, seen, spent>>

FailClearSticky(p) ==
    /\ tx[p].op = "wffail" /\ ~tx[p].cleared
    /\ exec' = [exec EXCEPT ![tx[p].run].sticky = NoWorker]
    /\ Set(p, [tx[p] EXCEPT !.cleared = TRUE])
    /\ UNCHANGED <<current, history, wfTasks, acts, timers, nextTask, tokens,
                   actTokens, seen, spent>>

FailEnqueue(p) ==
    /\ tx[p].op = "wffail" /\ tx[p].cleared
    /\ wfTasks' = EnqueueWorkflowTask(wfTasks, tx[p].run, NoWorker)
    /\ nextTask' = nextTask + 1
    /\ Set(p, Idle)
    /\ UNCHANGED <<current, exec, history, acts, timers, tokens, actTokens,
                   seen, spent>>

-----------------------------------------------------------------------------
(* Activity dispatch, same two commits. Any PENDING row may be visible:    *)
(* rows in backoff are not.                                                *)

DispatchActivityTask(p) ==
    /\ tx[p].op = "idle"
    /\ \E row \in acts \ LockedActs :
          /\ row.status = "PENDING"
          /\ acts' = (acts \ {row}) \cup {Leased(row)}
          /\ Set(p, [op |-> "actdequeued", row |-> Leased(row)])
    /\ UNCHANGED <<current, exec, history, wfTasks, timers, nextTask, tokens,
                   actTokens, seen, spent>>

BeginActivityTaskStarted(p) ==
    LET t == tx[p]
    IN  /\ t.op = "actdequeued" /\ MayBegin(t.row.run)
        /\ Set(p, [op |-> "actstart", row |-> t.row, expect |-> exec[t.row.run].next])
        /\ UNCHANGED <<tables, tokens, actTokens, seen, spent>>

RecordActivityTaskStarted(p) ==
    LET t == tx[p]
        r == t.row.run
        evs == <<Ev("ActivityTaskStarted", t.row.id, 0)>>
    IN  /\ t.op = "actstart" /\ CAS(r, t.expect)
        /\ history' = [history EXCEPT ![r] = Insert(@, t.expect, evs)]
        /\ exec' = [exec EXCEPT ![r] = Advance(@, evs)]
        /\ actTokens' = actTokens \cup
              {[run |-> r, sched |-> t.row.sched, lease |-> t.row.lease]}
        /\ Set(p, Idle)
        /\ UNCHANGED <<current, wfTasks, acts, timers, nextTask, tokens, seen, spent>>

-----------------------------------------------------------------------------
(* Lost compare-and-swaps, the reaper, crashes, time.                      *)

(* ErrConcurrentModification rolls the transaction back: a dispatched row  *)
(* stays STARTED, an answered row keeps its lease, a timer stays due.      *)
AbortOnConflict(p) ==
    /\ \/ tx[p].op \in {"wake", "wfstart"} /\ ~CAS(tx[p].run, tx[p].expect)
       \/ tx[p].op \in {"wfcomplete", "actstart"} /\ ~CAS(tx[p].row.run, tx[p].expect)
    /\ Set(p, Idle)
    /\ UNCHANGED <<tables, tokens, actTokens, seen, spent>>

(* Somebody is still at work on the lease that is about to lapse.          *)
WfHeld(row) ==
    \/ \E tok \in tokens : HoldsWf(row, tok)
    \/ \E p \in Proc : tx[p].op \in {"wfdequeued", "wfstart", "wflist"} /\ HoldsWf(row, tx[p])
ActHeld(row) ==
    \/ \E tok \in actTokens : HoldsAct(row, tok)
    \/ \E p \in Proc : tx[p].op \in {"actdequeued", "actstart"} /\ tx[p].row = row

Lapse(held) ==
    IF held THEN /\ spent.expiries < MaxExpiries
                 /\ spent' = [spent EXCEPT !.expiries = @ + 1]
    ELSE UNCHANGED spent

(* Mutants: the reaper looks for PENDING rows, so resets none.             *)
ReapWorkflowTaskPending ==
    /\ \E row \in wfTasks \ LockedWf :
          /\ row.status = "PENDING" /\ Lapse(WfHeld(row))
          /\ wfTasks' = (wfTasks \ {row}) \cup {[row EXCEPT !.status = "PENDING"]}
    /\ UNCHANGED <<current, exec, history, acts, timers, nextTask, tx, tokens,
                   actTokens, seen>>

ReapActivityTaskPending ==
    /\ \E row \in acts \ LockedActs :
          /\ row.status = "PENDING" /\ Lapse(ActHeld(row))
          /\ acts' = (acts \ {row}) \cup {[row EXCEPT !.status = "PENDING"]}
    /\ UNCHANGED <<current, exec, history, wfTasks, timers, nextTask, tx,
                   tokens, actTokens, seen>>

(* Each reaper UPDATE resets the expired rows; they are independent, so    *)
(* one at a time.                                                          *)
ReapWorkflowTask ==
    /\ \E row \in wfTasks \ LockedWf :
          /\ row.status = "STARTED" /\ Lapse(WfHeld(row))
          /\ wfTasks' = (wfTasks \ {row}) \cup {[row EXCEPT !.status = "PENDING"]}
    /\ UNCHANGED <<current, exec, history, acts, timers, nextTask, tx, tokens,
                   actTokens, seen>>

ReapActivityTask ==
    /\ \E row \in acts \ LockedActs :
          /\ row.status = "STARTED" /\ Lapse(ActHeld(row))
          /\ acts' = (acts \ {row}) \cup {[row EXCEPT !.status = "PENDING"]}
    /\ UNCHANGED <<current, exec, history, wfTasks, timers, nextTask, tx,
                   tokens, actTokens, seen>>

(* The server dies in the middle of a request: an open transaction rolls   *)
(* back, statements already committed stay.                                *)
Crash(p) ==
    /\ tx[p].op \in CrashPoints /\ spent.crashes < MaxCrashes
    /\ Set(p, IF p \in Call THEN Done(FALSE, NoRun) ELSE Idle)
    /\ spent' = [spent EXCEPT !.crashes = @ + 1]
    /\ UNCHANGED <<tables, tokens, actTokens, seen>>

(* sticky_expires_at passes: from then on the registration (or the row's   *)
(* preference) reads as none.                                              *)
StickyRegistrationLapses ==
    /\ \E r \in Run : /\ exec[r].sticky # NoWorker
                      /\ exec' = [exec EXCEPT ![r].sticky = NoWorker]
    /\ UNCHANGED <<current, history, wfTasks, acts, timers, nextTask, tx,
                   tokens, actTokens, seen, spent>>

(* Mutant: a row's preference never lapses.                                *)
StickyDeadlineIgnored ==
    /\ \E row \in wfTasks \ LockedWf : row.pref # NoWorker /\ FALSE
    /\ UNCHANGED vars

StickyDeadlinePasses ==
    /\ \E row \in wfTasks \ LockedWf :
          /\ row.pref # NoWorker
          /\ wfTasks' = (wfTasks \ {row}) \cup {[row EXCEPT !.pref = NoWorker]}
    /\ UNCHANGED <<current, exec, history, acts, timers, nextTask, tx, tokens,
                   actTokens, seen, spent>>

-----------------------------------------------------------------------------
CallStep(c) ==
    \/ StartFirst(c) \/ StartOnExisting(c) \/ StartReplacing(c)
    \/ SignalWorkflowExecution(c) \/ RequestCancelWorkflowExecution(c)
    \/ RetryOnConflict(c) \/ CommitWake(c)
    \/ TerminateWorkflowExecution(c) \/ CommitTerminate(c) \/ ConflictedTerminate(c)

ProcStep(p) ==
    \/ FireDueTimer(p) \/ CommitWake(p)
    \/ CompleteActivityTask(p) \/ RetryActivityTask(p) \/ FailActivityTask(p)
    \/ \E w \in Worker : DispatchWorkflowTask(p, w)
    \/ BeginWorkflowTaskStarted(p) \/ RecordWorkflowTaskStarted(p)
    \/ DeliverWorkflowTask(p)
    \/ CompleteWorkflowTask(p) \/ CommitWorkflowTask(p)
    \/ CommitContinueAsNew(p) \/ RejectWorkflowTask(p)
    \/ FailWorkflowTask(p) \/ FailClearSticky(p) \/ FailEnqueue(p)
    \/ DispatchActivityTask(p) \/ BeginActivityTaskStarted(p) \/ RecordActivityTaskStarted(p)
    \/ AbortOnConflict(p)

Next ==
    \/ \E c \in Call : CallStep(c)
    \/ \E p \in Proc : ProcStep(p)
    \/ \E p \in Call \cup Proc : Crash(p)
    \/ ReapWorkflowTask \/ ReapActivityTask
    \/ StickyRegistrationLapses \/ StickyDeadlinePasses

Spec == Init /\ [][Next]_vars

(* The pollers, the reaper and the timer firer run in endless loops, every *)
(* request runs to its end, a live worker answers, and time passes.        *)
(* Clients owe nothing: no fairness on issuing a call.                     *)
Fairness ==
    /\ \A c \in Call :
          WF_vars(\/ StartReplacing(c) \/ RetryOnConflict(c) \/ CommitWake(c)
                  \/ CommitTerminate(c) \/ ConflictedTerminate(c))
    /\ \A p \in Proc :
          /\ WF_vars(\/ CommitWake(p) \/ RecordWorkflowTaskStarted(p)
                     \/ DeliverWorkflowTask(p) \/ CommitWorkflowTask(p)
                     \/ CommitContinueAsNew(p) \/ RejectWorkflowTask(p)
                     \/ FailClearSticky(p) \/ FailEnqueue(p)
                     \/ BeginWorkflowTaskStarted(p) \/ BeginActivityTaskStarted(p)
                     \/ RecordActivityTaskStarted(p) \/ AbortOnConflict(p))
    /\ \A w \in LiveWorker : WF_vars(\E p \in Proc : DispatchWorkflowTask(p, w))
    /\ WF_vars(\E p \in Proc : DispatchActivityTask(p))
    /\ WF_vars(\E p \in Proc : CompleteWorkflowTask(p) \/ FailWorkflowTask(p))
    /\ WF_vars(\E p \in Proc : \/ CompleteActivityTask(p) \/ RetryActivityTask(p)
                               \/ FailActivityTask(p))
    /\ WF_vars(\E p \in Proc : FireDueTimer(p))
    /\ WF_vars(ReapWorkflowTask) /\ WF_vars(ReapActivityTask)
    /\ WF_vars(StickyDeadlinePasses)

FairSpec == Spec /\ Fairness

-----------------------------------------------------------------------------
(* Correctness.                                                            *)

(* Every table, in-flight transaction and token is well formed.            *)
TypeOK ==
    /\ current \in [run : Run \cup {NoRun}, req : Nat]
    /\ exec \in [Run -> [status : Statuses, next : Nat \ {0},
                         sticky : Worker \cup {NoWorker}]]
    /\ DOMAIN history = Run
    /\ \A r \in Run : \A i \in DOMAIN history[r] :
          i \in Nat /\ history[r][i] \in Event
    /\ wfTasks \subseteq WfRow /\ acts \subseteq ActRow /\ timers \subseteq TimerRow
    /\ nextTask \in Nat
    /\ tx \in [Call \cup Proc -> Tx]
    /\ tokens \subseteq WfToken /\ actTokens \subseteq ActToken
    /\ seen \in [Run -> Nat]
    /\ spent \in [crashes : Nat, expiries : Nat, failures : Nat]

(* Mechanism B of ADR-0002: a run's events are numbered 1..n without a gap *)
(* and next_event_id is n+1, whatever transactions race for the counter    *)
(* (AppendHistory).                                                        *)
HistoryContiguous ==
    \A r \in Run : DOMAIN history[r] = 1 .. (exec[r].next - 1)

Log == INSTANCE HistoryLog WITH log <- history

(* The engine implements the abstract log: histories only ever grow at     *)
(* their end, and no committed event is overwritten or dropped.            *)
ImplementsHistoryLog == Log!Spec

Positions(r, types) == {i \in DOMAIN history[r] : history[r][i].type \in types}

ActivityOutcomes == {"ActivityTaskCompleted", "ActivityTaskFailed"}

(* Every scheduled activity is either still queued, as one row, or has     *)
(* reached one outcome in history: reaped leases, late answers, retries    *)
(* and crashes neither lose an activity nor report it twice                *)
(* (CompleteActivityTask, FailActivityTask).                               *)
ActivityAccounted ==
    \A r \in Run : \A i \in Positions(r, {"ActivityTaskScheduled"}) :
        LET rows == {a \in acts : a.run = r /\ a.sched = i}
            outs == {j \in Positions(r, ActivityOutcomes) : history[r][j].ref = i}
        IN  /\ rows = {} <=> outs # {}
            /\ \A a, b \in rows : a = b
            /\ \A j, k \in outs : j = k
            /\ \A j \in outs : history[r][j].id = history[r][i].id /\ i < j

(* The same of timers: a started timer is pending or has fired, once       *)
(* (fireDueTimer).                                                         *)
TimerAccounted ==
    \A r \in Run : \A i \in Positions(r, {"TimerStarted"}) :
        LET rows == {t \in timers : t.run = r /\ t.sched = i}
            outs == {j \in Positions(r, {"TimerFired"}) : history[r][j].ref = i}
        IN  /\ rows = {} <=> outs # {}
            /\ \A j, k \in outs : j = k
            /\ \A j \in outs : history[r][j].id = history[r][i].id /\ i < j

WakeEvents == {"WorkflowExecutionStarted", "WorkflowExecutionSignaled",
               "WorkflowExecutionCancelRequested", "ActivityTaskCompleted",
               "ActivityTaskFailed", "TimerFired"}

(* No wake-up is lost: if an open run has an event that no finished        *)
(* workflow task has been shown, a workflow_tasks row for that run exists  *)
(* (or RespondWorkflowTaskFailed is about to insert it).                   *)
NoLostWakeup ==
    \A r \in Run :
        (/\ exec[r].status = "RUNNING"
         /\ \E i \in Positions(r, WakeEvents) : i > seen[r])
        => \/ \E row \in wfTasks : row.run = r
           \/ \E p \in Proc : tx[p].op = "wffail" /\ tx[p].run = r

(* A signal or cancel request that was acknowledged is in history exactly  *)
(* once, one that was refused or is still under way not at all, however    *)
(* often withTxRetryOnConflict ran it.                                     *)
WokenExactlyOnce ==
    \A c \in {d \in Call : d.op \in {"Signal", "Cancel"}} :
        /\ \A r, s \in Run : \A i \in DOMAIN history[r], j \in DOMAIN history[s] :
              history[r][i] = CallEvent(c) /\ history[s][j] = CallEvent(c)
              => r = s /\ i = j
        /\ (\E r \in Run : \E i \in DOMAIN history[r] : history[r][i] = CallEvent(c))
           <=> (tx[c].op = "done" /\ tx[c].ok)

TerminalStatus ==
    [WorkflowExecutionCompleted |-> "COMPLETED",
     WorkflowExecutionFailed |-> "FAILED",
     WorkflowExecutionTerminated |-> "TERMINATED",
     WorkflowExecutionContinuedAsNew |-> "CONTINUED_AS_NEW"]

(* workflow_executions.status always agrees with the history: RUNNING iff  *)
(* there is no terminal event, otherwise what the last one says.           *)
StatusMatchesHistory ==
    \A r \in Run :
        LET ends == Positions(r, DOMAIN TerminalStatus)
        IN  /\ exec[r].status = "RUNNING" <=> (ends = {} /\ history[r] # <<>>)
            /\ \A i \in ends : (\A j \in ends : j <= i) =>
                  exec[r].status = TerminalStatus[history[r][i].type]

(* Either both sides of a continue-as-new are visible or neither: the      *)
(* closing run names its successor, the successor its predecessor          *)
(* (continueWorkflowAsNew).                                                *)
ContinuationLinked ==
    \A r, n \in Run :
        (\E i \in Positions(r, {"WorkflowExecutionContinuedAsNew"}) :
            history[r][i].ref = n)
        <=> (\E i \in Positions(n, {"WorkflowExecutionStarted"}) :
                history[n][i].ref = r)

(* Invariant 1 of ADR-0002: of all the tokens workers hold, at most one    *)
(* can answer a given workflow_tasks row.                                  *)
OneLeaseHolder ==
    \A row \in wfTasks : \A t1, t2 \in tokens :
        HoldsWf(row, t1) /\ HoldsWf(row, t2) => t1 = t2

AtRest ==
    /\ wfTasks = {} /\ acts = {} /\ timers = {}
    /\ \A p \in Proc : tx[p].op = "idle"
    /\ \A c \in Call : tx[c].op = "done"

(* The server stops only when there is nothing left to do: no row is       *)
(* stranded by locks, leases or lost compare-and-swaps, and no caller is   *)
(* left without an answer.                                                 *)
RestsOnlyWhenDone == ENABLED Next \/ AtRest

(* An open run is eventually closed: lapsed leases, crashed dispatches,    *)
(* lost compare-and-swaps and failed attempts are all recovered from.      *)
EveryRunCloses ==
    \A r \in Run : exec[r].status = "RUNNING" ~> exec[r].status # "RUNNING"

(* The queues drain: every task row and timer is consumed in the end.      *)
QueuesDrain == <>[](wfTasks = {} /\ acts = {} /\ timers = {})

-----------------------------------------------------------------------------
(* What the documentation says and the code does not do.                   *)

(* ADR-0002, invariant 2: no two workers successfully append conflicting   *)
(* events.  Two workers deciding on the same history would each schedule   *)
(* activity n; the second must be refused.                                 *)
NoConflictingAppends ==
    \A r \in Run : \A i, j \in Positions(r, {"ActivityTaskScheduled"}) :
        history[r][i].id = history[r][j].id => i = j

(* Migration 0001, current_executions: at most one open run per            *)
(* workflow_id.                                                            *)
AtMostOneOpenRun ==
    \A r, s \in Run :
        exec[r].status = "RUNNING" /\ exec[s].status = "RUNNING" => r = s

(* TerminateWorkflowExecution: "a terminated workflow simply stops being   *)
(* dispatched further work once its status is no longer RUNNING".  (What   *)
(* was leased before may still be answered: no lease is cancelled.)        *)
TerminatedStopsDispatch ==
    [][\A row \in wfTasks' \ wfTasks :
          row.status = "STARTED" => exec[row.run].status # "TERMINATED"]_vars

(* StartWorkflowExecution: "a retried call with the same request_id        *)
(* returns the existing run_id rather than erroring or starting a          *)
(* duplicate run".                                                         *)
StartIsIdempotent ==
    \A c, d \in {x \in Call : x.op = "Start" /\ tx[x].op = "done"} :
        c.req = d.req /\ tx[c].ok /\ tx[d].ok => tx[c].run = tx[d].run
=============================================================================
