---------------------------- MODULE StickyWorker ----------------------------
(***************************************************************************)
(* The worker's cache of running Executions (sdk/worker) against the       *)
(* history of one run.  A worker processes one task at a time: with a      *)
(* cached Execution it resumes the parked coroutines and feeds them what   *)
(* they have not seen, without one it replays from the start.              *)
(*                                                                         *)
(* The server is reduced to what a worker can tell: tasks are queued, the  *)
(* whole history is sent with each, an answer is accepted or refused, a    *)
(* lease may lapse.  Any worker may be given any task: a sticky preference *)
(* only lasts until its deadline.  FlowdEngine has the server in full.     *)
(***************************************************************************)
EXTENDS WorkflowCode, FiniteSets
LOCAL INSTANCE FiniteSetsExt

CONSTANTS
    Worker,
    Prog,             \* the workflow function and its coroutines (WorkflowCode)
    MaxHistoryFetch,  \* maxHistoryFetch: events sent with a task, at most
    Bound,            \* bound: how often each of Disturbances happens
    MaxDisturbances,  \* bound: how many of them together
    QueryAnyTime,     \* do queries also come while a workflow task is queued or out?
    MaxEvents         \* bound: no task or query is dispatched beyond this many events

(* refusals: answers refused, or whose acceptance is not heard of; lapses: *)
(* leases that lapse while the worker is at work; failures: activities     *)
(* that fail for good; unregistered: tasks that reach a worker without the *)
(* workflow; requests: signals and cancel requests.                        *)
Disturbances == {"refusals", "lapses", "failures", "unregistered", "restarts",
                 "queries", "requests"}

ASSUME WorkerAssumption ==
    /\ IsProgram(Prog)
    /\ MaxHistoryFetch \in Nat \ {0}
    /\ Bound \in [Disturbances -> Nat] /\ {MaxDisturbances, MaxEvents} \subseteq Nat
    /\ QueryAnyTime \in BOOLEAN

VARIABLES
    history,   \* the run's events, as the server has them
    pending,   \* workflow_tasks rows of the run that may be dispatched
    job,       \* the task each worker is at
    cache,     \* execCache: each worker's Execution of this run, if any
    reached,   \* ghost: how far an accepted answer's Execution had run
    answer,    \* ghost: the last query answer, and reached at that time
    spent

vars == <<history, pending, job, cache, reached, answer, spent>>

(* ref: for an activity or timer outcome the schedule event it answers,    *)
(* for ActivityTaskScheduled the activity type.                            *)
Event(type, id, ref) == [type |-> type, id |-> id, ref |-> ref]

(* cachedExecution: an Execution and lastEventID, the events it was fed.   *)
Cached(e, last) == [exec |-> e, last |-> last]
Miss == [last |-> 0]

Idle == [op |-> "idle"]
FailJob(why) == [op |-> "fail", why |-> why, lapsed |-> FALSE]

Prefix(h, n) == SubSeq(h, 1, n)
MinOf(m, n) == IF m <= n THEN m ELSE n
MaxOf(m, n) == IF m >= n THEN m ELSE n

(* ListHistoryEvents ... LIMIT maxHistoryFetch                             *)
Fetched(h) == Prefix(h, MinOf(Len(h), MaxHistoryFetch))

(* buildQueryDispatch reads the same page.                                 *)
FetchedForQuery(h) == Fetched(h)

EventsAfter(h, last) == SubSeq(h, last + 1, Len(h))

(* How far the workflow function has come.                                 *)
Position(e) == e.co[1].pc

Init ==
    /\ history = <<Event("WorkflowExecutionStarted", 0, 0),
                   Event("WorkflowTaskScheduled", 0, 0)>>
    /\ pending = 1
    /\ job = [w \in Worker |-> Idle]
    /\ cache = [w \in Worker |-> Miss]
    /\ reached = 1
    /\ answer = [pos |-> 1, reached |-> 1]
    /\ spent = [d \in Disturbances |-> 0]

Spend(d) ==
    /\ spent[d] < Bound[d]
    /\ MapThenSumSet(LAMBDA k : spent[k], Disturbances) < MaxDisturbances
    /\ spent' = [spent EXCEPT ![d] = @ + 1]

-----------------------------------------------------------------------------
(* A cache hit: the events behind the bookmark, then one round.            *)
Resumed(c, h) ==
    ExecuteRound(Prog, LoadNewEvents(ResetRoundOutput(c.exec),
                                     EventsAfter(h, c.last)))

(* The Execution that has answered a task carrying h.                      *)
Processed(w, h) ==
    IF cache[w] = Miss THEN RunWorkflowFunc(Prog, h) ELSE Resumed(cache[w], h)

(* A running Execution is cached, one that returned is dropped.            *)
Kept(e, h) == IF e.returned THEN Miss ELSE Cached(e, Len(h))

-----------------------------------------------------------------------------
(* processWorkflowTask up to its response.  The server has appended the    *)
(* start event before it lists the history.                                *)

PollWorkflowTask(w) ==
    /\ job[w] = Idle /\ pending > 0 /\ Len(history) < MaxEvents
    /\ history' = Append(history, Event("WorkflowTaskStarted", 0, 0))
    /\ pending' = pending - 1
    /\ LET h == Fetched(history')
           e == Processed(w, h)
       IN  IF e.panicked
           THEN /\ cache' = [cache EXCEPT ![w] = Miss]
                /\ job' = [job EXCEPT ![w] = FailJob("panic")]
           ELSE /\ cache' = [cache EXCEPT ![w] = Kept(e, h)]
                /\ job' = [job EXCEPT ![w] =
                      [op |-> "respond", cmds |-> e.commands, seen |-> Len(h),
                       pos |-> Position(e), lapsed |-> FALSE]]
    /\ UNCHANGED <<reached, answer, spent>>

(* No cached Execution, and the workflow type is not registered (or its    *)
(* input does not decode).                                                 *)
PollUnregistered(w) ==
    /\ job[w] = Idle /\ pending > 0 /\ Len(history) < MaxEvents
    /\ cache[w] = Miss /\ Spend("unregistered")
    /\ history' = Append(history, Event("WorkflowTaskStarted", 0, 0))
    /\ pending' = pending - 1
    /\ job' = [job EXCEPT ![w] = FailJob("unregistered")]
    /\ UNCHANGED <<cache, reached, answer>>

CommandEvent(c) ==
    Event(CASE c.kind = "ScheduleActivityTask" -> "ActivityTaskScheduled"
            [] c.kind = "StartTimer" -> "TimerStarted"
            [] c.kind = "CompleteWorkflowExecution" -> "WorkflowExecutionCompleted"
            [] c.kind = "ContinueAsNewWorkflowExecution" ->
                  "WorkflowExecutionContinuedAsNew"
            [] OTHER -> "WorkflowExecutionFailed", c.id, c.type)

(* RespondWorkflowTaskCompleted succeeds; when the worker does not hear of *)
(* it, it treats the call as refused.                                      *)
Accept(w, heard) ==
    /\ job[w].op = "respond" /\ ~job[w].lapsed
    /\ history' = history \o <<Event("WorkflowTaskCompleted", 0, 0)>>
                  \o [i \in DOMAIN job[w].cmds |-> CommandEvent(job[w].cmds[i])]
    /\ reached' = MaxOf(reached, job[w].pos)
    /\ job' = [job EXCEPT ![w] = Idle]
    /\ IF heard THEN UNCHANGED <<cache, spent>>
       ELSE cache' = [cache EXCEPT ![w] = Miss] /\ Spend("refusals")
    /\ UNCHANGED <<pending, answer>>

(* Mutant: the entry put before the refused response stays.                *)
RefuseKeepingCache(w) ==
    /\ job[w].op = "respond"
    /\ job' = [job EXCEPT ![w] = Idle]
    /\ pending' = IF job[w].lapsed THEN pending ELSE pending + 1
    /\ IF job[w].lapsed THEN UNCHANGED spent ELSE Spend("refusals")
    /\ UNCHANGED <<history, cache, reached, answer>>

(* A lost compare-and-swap (the row is redispatched once reaped) or an     *)
(* expired lease (it has been already).  The worker evicts the Execution.  *)
Refuse(w) ==
    /\ job[w].op = "respond"
    /\ cache' = [cache EXCEPT ![w] = Miss]
    /\ job' = [job EXCEPT ![w] = Idle]
    /\ pending' = IF job[w].lapsed THEN pending ELSE pending + 1
    /\ IF job[w].lapsed THEN UNCHANGED spent ELSE Spend("refusals")
    /\ UNCHANGED <<history, reached, answer>>

(* respondWorkflowTaskFailed: the server queues the task again.            *)
RespondFailed(w) ==
    /\ job[w].op = "fail"
    /\ job' = [job EXCEPT ![w] = Idle]
    /\ pending' = IF job[w].lapsed THEN pending ELSE pending + 1
    /\ UNCHANGED <<history, cache, reached, answer, spent>>

-----------------------------------------------------------------------------
(* Everything else that happens to a worker.                               *)

LeaseLapses(w) ==
    /\ job[w] # Idle /\ ~job[w].lapsed /\ Spend("lapses")
    /\ job' = [job EXCEPT ![w].lapsed = TRUE]
    /\ pending' = pending + 1
    /\ UNCHANGED <<history, cache, reached, answer>>

(* Tasks of other runs push the entry out of the LRU list.                 *)
Evict(w) ==
    /\ job[w] = Idle /\ cache[w] # Miss
    /\ cache' = [cache EXCEPT ![w] = Miss]
    /\ UNCHANGED <<history, pending, job, reached, answer, spent>>

(* The worker process is replaced; its lease lapses in time.               *)
Restart(w) ==
    /\ Spend("restarts")
    /\ pending' = IF job[w] = Idle \/ job[w].lapsed THEN pending ELSE pending + 1
    /\ job' = [job EXCEPT ![w] = Idle]
    /\ cache' = [cache EXCEPT ![w] = Miss]
    /\ UNCHANGED <<history, reached, answer>>

(* processQueryTask: a cached Execution answers as it is; otherwise a      *)
(* replay, which is cached, though its commands go nowhere.                *)
ProcessQueryTask(w) ==
    /\ job[w] = Idle /\ Spend("queries") /\ Len(history) < MaxEvents
    /\ QueryAnyTime \/ (pending = 0 /\ \A v \in Worker : job[v] = Idle)
    /\ LET h == FetchedForQuery(history)
           e == IF cache[w] = Miss THEN RunWorkflowFunc(Prog, h) ELSE cache[w].exec
       IN  IF e.panicked THEN UNCHANGED <<answer, cache>>
           ELSE /\ answer' = [pos |-> Position(e), reached |-> reached]
                /\ IF cache[w] # Miss THEN UNCHANGED cache
                   ELSE cache' = [cache EXCEPT ![w] = Kept(e, h)]
    /\ UNCHANGED <<history, pending, job, reached>>

Outcomes(type) ==
    IF type = "ActivityTaskScheduled"
    THEN {"ActivityTaskCompleted", "ActivityTaskFailed"} ELSE {"TimerFired"}

Unresolved ==
    {i \in DOMAIN history :
        /\ history[i].type \in {"ActivityTaskScheduled", "TimerStarted"}
        /\ ~\E j \in DOMAIN history :
              history[j].type \in Outcomes(history[i].type) /\ history[j].ref = i}

(* The server appends an event and wakes the workflow.                     *)
Wake(ev) ==
    /\ history' = history \o <<ev, Event("WorkflowTaskScheduled", 0, 0)>>
    /\ pending' = pending + 1
    /\ UNCHANGED <<job, cache, reached, answer>>

(* An activity completes or a timer fires.                                 *)
Outcome ==
    /\ \E i \in Unresolved : \E type \in Outcomes(history[i].type) :
          /\ type # "ActivityTaskFailed"
          /\ Wake(Event(type, history[i].id, i))
    /\ UNCHANGED spent

(* An activity has used up its attempts.                                   *)
ActivityFails ==
    /\ Spend("failures")
    /\ \E i \in Unresolved :
          /\ history[i].type = "ActivityTaskScheduled"
          /\ Wake(Event("ActivityTaskFailed", history[i].id, i))

(* A client signals the run or asks for its cancellation.                  *)
Request(type) == Spend("requests") /\ Wake(Event(type, 0, 0))

Next ==
    \/ \E w \in Worker :
          \/ PollWorkflowTask(w) \/ PollUnregistered(w)
          \/ Accept(w, TRUE) \/ Accept(w, FALSE) \/ Refuse(w) \/ RespondFailed(w)
          \/ LeaseLapses(w) \/ Evict(w) \/ Restart(w) \/ ProcessQueryTask(w)
    \/ Outcome \/ ActivityFails
    \/ Request("WorkflowExecutionSignaled")
    \/ Request("WorkflowExecutionCancelRequested")

Spec == Init /\ [][Next]_vars

-----------------------------------------------------------------------------
(* Resuming a cached Execution is unobservable: what a worker reports for  *)
(* a task is what a replay of the history it was sent would report         *)
(* (processWorkflowTask, LoadNewEvents).                                   *)
SameAsReplay ==
    \A w \in Worker : job[w].op = "respond" =>
        job[w].cmds \in Replay(Prog, Prefix(history, job[w].seen))

Closed == \E i \in DOMAIN history :
    history[i].type \in {"WorkflowExecutionCompleted", "WorkflowExecutionFailed",
                         "WorkflowExecutionContinuedAsNew"}

(* An open run always has something coming: a task queued or in a worker's *)
(* hands, or a scheduled activity or timer without an outcome.  Otherwise  *)
(* its coroutine waits for what nobody was asked to do (the deadlock that  *)
(* processWorkflowTask's eviction is there to prevent).                    *)
NeverStuck ==
    Closed \/ pending > 0 \/ Unresolved # {} \/ \E w \in Worker : job[w] # Idle

(* The workflow's current answer (QueryWorkflow in sdk/client): a query is *)
(* answered from a state at least as late as the one the last accepted     *)
(* workflow task left behind.  processQueryTask keeps this only as long as *)
(* no other worker has taken tasks of the run.                             *)
AnswersCurrent == answer.pos >= answer.reached

SignalsIn(h) ==
    Cardinality({i \in DOMAIN h : h[i].type = "WorkflowExecutionSignaled"})

(* A parked Execution with a signal handler has handled each signal of the *)
(* history it was fed exactly once, whether the backlog was delivered at   *)
(* registration or by the pump (SetSignalHandler, drainSignals).           *)
SignalsHandledOnce ==
    \A w \in Worker : (cache[w] # Miss /\ cache[w].exec.handler) =>
        cache[w].exec.handled = SignalsIn(Prefix(history, cache[w].last))

(* Workflow code that does not change is never taken for changed code: no  *)
(* task fails on a NonDeterministicError (ScheduleActivity, ScheduleTimer).*)
NoFalsePanic == \A w \in Worker : job[w].op = "fail" => job[w].why # "panic"
=============================================================================
