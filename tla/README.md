# A TLA+ model of the flowd engine

flowd is a durable workflow engine: a workflow is an ordinary Go function whose
progress is kept as an event history in Postgres; workers poll a server for
tasks, replay the history, and answer with commands. This directory holds a
model of its parts (the server's write paths and task queues, the workers'
execution cache and activity loops, workflow queries, long polls, the public
frontend and its clients) with the TLC runs that check it on small instances and
TLAPS proofs that hold for instances of any size.

## 1. The system

| component | source | state | operations |
|---|---|---|---|
| history engine | `internal/history` | `current_executions`, `workflow_executions` (status, `next_event_id`, sticky registration), `history_events`, `timers` | start, signal, cancel, terminate, dispatch / complete / fail a workflow task, dispatch / complete / fail an activity task, fire a timer, continue as new |
| task queues, reaper | `internal/matching`, `internal/persistence/postgres` | `workflow_tasks`, `activity_tasks`: PENDING or STARTED, `lease_token`, `lease_expiry`, preferred worker and its deadline, partition, retry policy | enqueue, dequeue (`FOR UPDATE SKIP LOCKED`), complete by lease token, retry with backoff, reap expired leases |
| replayer | `sdk/internal/replayer`, `sdk/workflow` | the coroutines of one workflow function, ordinals of its activities and timers, signal backlog | load a history, run a round, emit commands, detect non-determinism |
| worker | `sdk/worker` | cached executions per run, activity slots, activities at work | poll, process a task, respond, evict |
| workflow queries | `internal/history/workflow_query.go`, `internal/frontend/service.go` | `query_tasks` | enqueue, dispatch, answer, poll for the answer, give up |
| notifier, poll loop | `internal/history/notifier.go`, `internal/matching/poll.go` | registered waiters per queue | notify, wait, back off |
| frontend | `internal/frontend`, `internal/history/list.go`, `namespace.go`, `query.go` | API keys, namespaces | check key, scope and payload, forward, page through histories and listings, map errors to codes |
| client SDK, CLI, web UI, examples | `sdk/client`, `cmd/flow-cli`, `internal/webapi`, `examples` | a run handle, page tokens | start, signal, cancel, terminate, describe, list, read a history, wait for a result |
| server binary, configuration | `cmd/flowd`, `internal/config` | token signing key, partitions | start, drain, stop |

How they interact. A client RPC or a worker's poll or answer is a handler of the
history engine, executed by one goroutine of one of possibly several servers
that share nothing but Postgres. A handler is one transaction, or a few that
commit one after the other, under READ COMMITTED. Every write to a history goes
through `AppendHistory`, which moves `next_event_id` by compare-and-swap
(`WHERE next_event_id = expected`) and then inserts the events. Every event that
concerns the workflow code also enqueues a `workflow_tasks` row. A dequeue
leases a row under a fresh token, and an answer counts only while the row still
carries that token; a reaper returns expired leases to PENDING. Workers see the
server through signed task tokens only.

What is hard here:

- *Races for `next_event_id`.* Signals, cancel requests, timers, activity
  answers, dispatches and completions of one run all compete. A lost race must
  leave nothing behind, and each caller recovers in a different way: signal and
  cancel try again, terminate reports an error, worker answers leave a leased
  row to the reaper, timers stay due.
- *Several tasks of one run at once.* Each wake-up has its own row, so two
  workers may hold tasks of the same run.
- *Leases.* A late answer races the redispatch of the same row.
- *Handlers of more than one commit.* Both dispatch paths (dequeue, then append
  a start event, then list the history) and `FailWorkflowTask` (delete, clear,
  insert) can be cut in two by a crash.
- *Run identity.* Start, termination and continue-as-new all replace the
  current run of a workflow_id; request ids and `Get` are resolved through it.
- *Sticky rows* that only one worker may see.
- *Cached executions.* A worker resumes parked coroutines instead of replaying;
  the cache can be behind the history or ahead of it, and a replay has one round
  where the recording had many.
- *Queries.* A synchronous call waits for a row that workers lease, lose and
  answer late, under a context that may end at any statement.
- *Missed notifications.* A row may be committed between a poller's empty
  dequeue and its registration.
- *Lost answers.* A client or worker that does not hear from the server sends
  again, or not at all, while the first handler may still be at work.
- *Processes that come and go,* with keys, slots and activities that do not.

The lines where these bite, and the properties that would catch it, are the
`hazards` of `PROJECT.json`.

## 2. Modules

### `HistoryLog` - what the engine promises

The abstract specification: each run owns a log of events numbered from 1
without a gap, a step may add events behind the last one of one or more runs
(continue-as-new writes two), and a written event never changes. There are no
transactions, queues or leases in it.

### `FlowdEngine` - the engine

One workflow_id, one task queue, any number of runs, workers, client calls and
server goroutines.

*State.* `current`, `exec`, `history`, `wfTasks`, `acts`, `timers` and
`nextTask` are the Postgres tables and the `task_id` sequence. `tx[p]` is what
process `p`'s handler has read so far: a process is a client call `c \in Call`
(each issued once) or a server goroutine `p \in Proc`. `tokens` and `actTokens`
are the task tokens workers hold. `seen` is a ghost variable, the last event
that a committed workflow task had been shown. `spent` counts the injected
faults.

*Transactions.* Under READ COMMITTED a transaction's reads are not repeated at
commit. A transaction is therefore two steps: one that reads (`next_event_id`,
the sticky registration) and one that executes the compare-and-swap and makes
all of its writes visible. In between anybody else may commit. A row that the
transaction has already deleted stays locked until the end (`LockedWf`,
`LockedActs`, `LockedTimers`): another DELETE or UPDATE of it waits and
`SKIP LOCKED` passes it over. What commits on its own is a step of its own.

| handler | actions |
|---|---|
| `StartWorkflowExecution` | `StartFirst`; `StartOnExisting` then `StartReplacing` |
| `SignalWorkflowExecution`, `RequestCancelWorkflowExecution` | the action of that name, then `CommitWake` or `RetryOnConflict` |
| `TerminateWorkflowExecution` | `TerminateWorkflowExecution`, then `CommitTerminate` or `ConflictedTerminate` |
| `DispatchWorkflowTask` | `DispatchWorkflowTask` (the dequeue), `BeginWorkflowTaskStarted`, `RecordWorkflowTaskStarted`, `DeliverWorkflowTask` |
| `CompleteWorkflowTask` | `CompleteWorkflowTask`, then `CommitWorkflowTask`, `CommitContinueAsNew` or `RejectWorkflowTask` |
| `FailWorkflowTask` | `FailWorkflowTask`, `FailClearSticky`, `FailEnqueue` |
| `DispatchActivityTask` | `DispatchActivityTask`, `BeginActivityTaskStarted`, `RecordActivityTaskStarted` |
| `CompleteActivityTask` | `CompleteActivityTask`, then `CommitWake` |
| `FailActivityTask` | `RetryActivityTask`, or `FailActivityTask` then `CommitWake` |
| `fireDueTimer` | `FireDueTimer`, then `CommitWake` |
| the reaper | `ReapWorkflowTask`, `ReapActivityTask` |
| a lost compare-and-swap | `AbortOnConflict` |
| a server crash | `Crash` |
| time | `StickyRegistrationLapses`, `StickyDeadlinePasses`; visibility and due times are "at any moment from now on" |

`FailActivityTask` reads its row and updates it in two statements, both of which
ask for the same lease token. While a row carries one token nothing of it
changes, so the two are one step here.

*Abstractions.* A lease token (a uuid) is the number of times the row has been
dequeued. A run_id is a number, taken in order. An event keeps its type, the
ordinal of the activity or timer (or the number of the call) it is about, and,
for an outcome, the `event_id` of the schedule event of the row it came from;
payloads, failures and timestamps are left out. Times are abstracted to "may
have passed". `Decide` is the workflow code: the command lists a worker may
answer to the history it was shown.

Consecutive reads of one transaction are one step: `StartOnExisting` reads the
current run and its status, `WakeAttempt` resolves the current run and reads its
counter, each two statements in the code under READ COMMITTED. What commits
between two such reads is left out; the gap between them and the write, which the
properties are about, is there.

### `WorkflowCode` - the replayer

An interpreter of workflow programs. A program is a sequence of coroutine
bodies, a body a sequence of instructions (schedule an activity, wait for a
future, sleep, start a coroutine, set a signal handler, look at signals or at
the cancel request, return). An Execution is a record of what the Go struct
keeps: coroutines with their place and futures, the schedule events and outcomes
it was fed, ordinals, signal backlog, commands of the round. `LoadHistory` and
`LoadNewEvents` feed it, `ExecuteRound` resumes each listed coroutine once
(`Resume` takes `Step`s until the coroutine is `Parked`), a recorded call that
differs is the non-determinism panic. A body only jumps forward (`IsProgram`): a
loop is written out, so that a coroutine parks or ends within two steps per
instruction and everything is a function by recursion on a number, with no
RECURSIVE operator. `Replay(prog, h)` is what a replay from the first event
answers. `SimpleWorkflow` and `CountdownWorkflow` are the repository's examples.
`MCFlowd` gives replays to `FlowdEngine` as `Decide`.

### `StickyWorker` - the worker's cache of running executions

One run, any number of workers; a cache entry is an Execution and the last event
it was fed. `PollWorkflowTask` is `processWorkflowTask` up to its response:
resume or replay, panic or not, cache or drop. The response is a step of its own
(`Accept`, `Refuse`; an acceptance the worker does not hear of looks like a
refusal to it), because the cache has been written before it is sent.
`ProcessQueryTask` is `processQueryTask`. `Evict` stands for the LRU list: other
runs can push the entry out at any time between two tasks. The server is what a
worker can tell of it, tasks queued and histories sent; that any worker may get
any task is `FlowdEngine`'s sticky deadline.

### `ActivityWorker` - activities between servers and workers

A deployment of servers and workers on one database, chosen from `Deployments`:
which processes, with which signing key and partitions, how many slots, which
activities with which retry policies. Servers start, drain, stop and crash;
workers restart. `activity_tasks` rows are made by `activityEnqueueParams`,
dequeued by partition and due time, retried with the delay of `Backoffs` (in
arithmetic of `Width` bits: truncated power, wrapped product, cap) and reaped.
A worker takes a slot, polls, hands the task to a goroutine (a member of `jobs`
with its lease and the key its token is signed with), runs it to one of the ends
the activity `can` have, and answers once. Answers are refused for their size,
for a token signed by another key, for a lapsed lease. Histories are not in it:
a terminal answer is just recorded in `outcome`. Two ghosts tell processes apart
that run in one place: a server record counts its starts (`life`), and a job
keeps the `Process` that issued its token (`issuer`). No guard reads them; the
key in a token is what `DecodeTaskToken` goes by.

### `QueryTasks` - workflow queries on the server

The `query_tasks` table, one `QueryWorkflowExecution` handler per query and the
workers' tokens. Each SQL statement is a step. A handler reads, deletes and
returns, or waits in its `select`; `ctx[q]` is the life of its context, which
ends (10 s, or the client has gone) at any moment, and makes every later
statement under it fail. When tick and context end are both ready Go's `select`
takes either, so `Tick` has no condition on `ctx`. A lease token is the number
of the lease; a reaped row keeps the number and has status PENDING, which is how
`Holds` sees that the token is NULL.

### `Notifier` - long polls

One queue. Pollers dequeue, register a channel, wait for a signal, the backoff
or the end of their context, cancel, and try again; handlers commit a row and
then notify, which takes the channel list under the mutex and sends afterwards.
`RowAppears` are the rows nobody announces: another server's, a retry falling
due, a reaped lease, a query. A row here is a number; the dequeue itself is
`FlowdEngine`'s.

### `Frontend`, `ClientSDK`, `Callers` - the public side

`Frontend` has the client RPCs: API keys and their scopes, the payload limit,
the default namespace, error codes, and below them the Store's client operations
on namespaces, `current_executions`, runs and histories, including paging by
event id and by the listing's three-column key. A handler is one step; what goes
on between its statements is `FlowdEngine`'s subject, and shows here as
`ConflictsOut`, which is offered while a workflow task is out: a conflict has other
causes as well, with the same outcome, refused and nowhere recorded. A run's
start time is the instant of its creation, and instants only go forward; with
`now()`, the start of the transaction, a run may appear with a slightly earlier
time than one already there. What workers do to the runs meanwhile is `Work`: answers that
only schedule, complete, fail or continue as new, accepted whatever the run's
status, as in the engine.

`ClientSDK` composes it with callers of `sdk/client`. A call is sent over a
network that loses requests and answers (`OutcomeUnknown`, `RequestLost`); the
caller then repeats it up to `MaxSends` times; the handler of a request nobody
waits for still runs. `Get`'s loop, `fetchResult`, and the loops that collect
pages are modelled as they are. The log of finished calls is what the properties
speak of.

`Callers` has the calls the repository's own tools make: flow-cli's subcommands,
the web UI's handlers (through a loopback client that never has an API key), the
starters of `examples/`.

### `MC*` and the configurations

`MCFlowd`, `MCSticky`, `MCQuery`, `MCNotifier`, `MCWorkers` and `MCClient` hold
the programs, calls, deployments, sessions and symmetry sets of the runs.
Symmetry is used only in runs that check no liveness. `MCFlowd` writes two
`Decide` functions out, since TLC evaluates them constantly; its
`WrittenOutAgrees`, evaluated at the start of each run, compares them with the
interpreter on all short histories.

### `*Proofs`

The theorems of section 5. `FlowdEngineProofs` has the engine's types and the
refinement; `FlowdHistoryProofs` extends it with what the histories say, and
`FlowdRowsProofs` extends that one with the rows of `workflow_tasks`,
`activity_tasks` and `timers`. `StickyWorkerProofs`, `QueryTasksProofs`,
`NotifierProofs`, `ActivityWorkerProofs` and `ClientSDKProofs` are about the
module of that name.

## 3. Runs

| run | instance | checks |
|---|---|---|
| `activity` | one activity, two goroutines, one crash, one lapsed lease, one failed task; fairness | `TypeOK`; `ActivityAccounted`: an activity is queued or has one outcome, never both, never neither; `NoLostWakeup`: an event nobody has been shown has a task row; `OneLeaseHolder`; `RestsOnlyWhenDone`: the server can only stop with empty queues and all calls answered; `EveryRunCloses`; `QueuesDrain` |
| `wakeups` | a timer and a cancel request, two workers of which one stops polling; fairness | `HistoryContiguous`; `TimerAccounted`; `NoLostWakeup` when several task rows of a run exist; `WokenExactlyOnce`: acknowledged = recorded once, refused = not recorded; `QueuesDrain`: the timer fires though it loses races, and the sticky deadline releases the rows of the worker that is gone |
| `lifecycle` | two starts, a signal, a termination, continue-as-new, four runs | `StatusMatchesHistory`; `ContinuationLinked`; `WokenExactlyOnce` while the current run changes; `ImplementsHistoryLog` (refinement) |
| `cache` | one worker; a signal handler, two activities at once and a timer; any two of: a refused or unheard answer, a lapsed lease, a failed activity, an unregistered type, a restart, a query, a signal or cancel request; evictions at any time | `SameAsReplay`: what a resumed Execution reports is what a full replay would; `NeverStuck`: an open run always has something coming; `SignalsHandledOnce`; `NoFalsePanic`: unchanged code is not taken for changed |
| `queries` | two queries, two lapsed leases, a lost dispatch; fairness for the handlers only | `OneAnswer`: one recorded answer at most, and the client gets that one; `RowsCleanedUp`: which rows outlive their handlers; `EveryQueryReturns` |
| `polls` | a poller that persists and one that need not, two notifying handlers, an unannounced row; fairness | `NoLeakedWaiter`; `WaitersSignalled`: nobody who waited at a commit is passed over; `RowsAreTaken`: the backoff finds what no signal announces; deadlock |
| `workers` | four deployments: one server without a key, two slots, a result that is too large; two servers with a shared key, two workers of one slot, one of them for partition 0 only; two servers that make a key each; policies at their limits, a policy without error types, a partition nobody serves, a key that is not hexadecimal; disturbances (three, one with two keyless servers, none with the policies); fairness | `SlotsConserved`; `OnlyHolderCounts`: late answers change nothing; `BackoffWithinPolicy`: what of the formula in the code survives the integer arithmetic; `AnswersHeard`: an answer takes effect exactly if its lease holds and the process it reaches can read its token, which without a key is only the one that issued it, not its successor nor another replica; `EveryActivityAnswered`: every activity that can be answered is, and `Answerable` says which can |
| `clients` | ten sessions of a program, flow-cli and the web UI; lost requests and answers; fairness | `StartedOnce`: when a request id starts a second run; `SignalsAccounted`: once per send that arrives, none if refused; `GetSettles`: the run `Get` reports on; `HistoryReadWhole` and `ListedOnce`: paging while the tables change; `GetReturns` |

Four runs show where a statement in the repository is not true of the code. Each
has a finding in `PROJECT.json` that quotes the statement.

| run | property | what TLC shows |
|---|---|---|
| `conflict` | `NoConflictingAppends` | Two tasks of one run are out; both workers decide on a history in which activity 1 is not scheduled. `CompleteWorkflowTask` re-reads `next_event_id` in its own transaction, so the second completion also succeeds and schedules activity 1 again. The compare-and-swap orders transactions; it does not tell whether a *decision* is stale. |
| `openruns` | `AtMostOneOpenRun` | A run is terminated while its task is out, the workflow_id is started again, and the late completion continues the first run as new. |
| `failcrash` | `NoLostWakeup` | The server dies after `FailWorkflowTask` has deleted the row and before it has inserted the new one. |
| `stalequery` | `AnswersCurrent` | Two workers serve one run in turn, then the first one is asked a query. Its cached Execution answers as it is, from before the last accepted task, though the history came with the query. |

Further configurations are kept beside these, one per hazard that a passing run
has to exclude. TLC finds each property violated within seconds.

| configuration | property | what TLC shows, and what it is at odds with |
|---|---|---|
| `MCFlowd_startretry` | `StartIsIdempotent` | A start is repeated after its run has continued as new and the continuation has failed: it starts the workflow again, since only the current run's request id is compared. `internal/history/start.go:36`: "a retried call with the same request_id returns the existing run_id rather than erroring or starting a duplicate run". |
| `MCFlowd_terminated` | `TerminatedStopsDispatch` | A run is terminated while its task is queued, and the task is leased to a worker all the same. `internal/history/query.go:97`: "a terminated workflow simply stops being dispatched further work once its status is no longer RUNNING". |
| `MCWorkers_backoffdoc` | `BackoffAsDocumented` | Plain exponential retries, whole coefficients, small numbers: each delay is one power of the coefficient less than ADR-0002 says ("`backoff = min(initial_interval * backoff_coefficient^attempt, max_interval)`", line 84). |
| `MCSticky_replayorder` | `SameAsReplay` | A workflow starts a coroutine that schedules an activity. A replay is one round, and a coroutine started in a round first runs in the next; the cached Execution is in its second round and reports the coroutine's activity, the replay of the same history does not. `sdk/workflow/context.go:48` says of `Go` that "its scheduling is deterministic across replay". |
| `MCSticky_staleworker` | `SameAsReplay` | Two workers serve one run in turn. The first one's cached Execution never learns what the second one's task scheduled (`LoadNewEvents` adds outcomes only) and reports it again. `sdk/worker/worker.go:62`: sticky caching is "a pure optimization, never a correctness requirement". |
| `MCSticky_coldquery` | `NeverStuck` | A query before the first task: the worker caches an Execution whose commands it has dropped, and the task finds nothing left to report. `sdk/worker/worker.go:324` expects "a follow-up query or workflow task" to benefit from that entry. |
| `MCSticky_cancelreplay` | `SameAsReplay` | A function that looks at the cancel request after its first activity, as `sdk/workflow/cancel.go:8` recommends: a replay knows of the request before its first instruction, the recorded rounds did not. |
| `MCSticky_historycut` | `NeverStuck` | `maxHistoryFetch` is 8 instead of 100,000: the oldest events are sent, the rest never is. `sdk/worker/worker.go:305`: "The server always sends the run's full history on every dispatch". |

One more is an edit of `MCSticky_cache.cfg`: with `Prog <- Background` and
`NoFalsePanic` alone TLC finds that after an eviction the coroutines' calls come
in another order than recorded.

These also say what the passing runs must leave out. Those of `FlowdEngine`
leave `"wffail"` out of `CrashPoints`. `cache` has one worker, a program without
`Go` that does not branch on the cancel request, a page limit out of reach, and
queries only while no workflow task is queued or out. With one worker and such
queries a cached Execution is always as late as the last accepted task:
`AnswersCurrent` would show nothing there, and is checked where it can fail.

Some properties are deliberately weaker than what one would wish for, because
the code allows more; their comments say what is left.

- `StatusMatchesHistory`: after a termination a late answer appends its own
  terminal event and overwrites the status (nothing tests it); status and
  history keep agreeing on the last one. What the comment on
  `TerminateWorkflowExecution` says is `TerminatedStopsDispatch`, refuted by
  `MCFlowd_terminated`.
- `StartedOnce`: a request id is remembered only while its run is current. What
  the comment on `StartWorkflowExecution` says is `StartIsIdempotent`, refuted
  by `MCFlowd_startretry`.
- `SignalsAccounted`: a repeated signal is recorded once per send that arrives.
- `GetSettles`: `Get` may end on a run that comes after one that took the
  workflow over (a new start, or the continuation of a run that was not the
  current one any more).
- `ListedOnce`: a listing filtered by status may pass over a run that was closed
  (or closed again) while it was read.
- `BackoffWithinPolicy`: the formula is the code's, `coefficient^(attempt-1)`,
  one power behind the one in ADR-0002 (`BackoffAsDocumented`, refuted by
  `MCWorkers_backoffdoc`). Its exact value only bounds the delay from above and,
  up to the lost fraction, from below, and only while that value fits a Duration;
  beyond, a negative delay escapes the cap and the retry is immediate.
- `RowsCleanedUp`: a handler whose context ends before its read leaves its row.
- `EveryActivityAnswered`: not for an activity whose policy lists no error types
  (`NULL` in a NOT NULL column, so that its `CompleteWorkflowTask` fails for
  ever), whose result is over the payload limit (refused, logged, run again
  without using up an attempt), whose failures are retried without limit, whose
  partition nobody serves, or, with several servers and no shared key, whose
  answers may always reach the wrong one. The deployment of two servers that make
  a key each has that last exception at work: without it the property fails.

### Bounds

- `FlowdEngine`: two goroutines are enough for every race of two transactions,
  and a client call makes a third process. Three overlapping transactions of
  workers are not explored. `MaxRetries` is 2, the code's constant is 5: one
  conflict followed by a success, and running out of tries, both happen.
  `MaxAttempts` is 2: one retry, then a final failure. `MaxCrashes`,
  `MaxExpiries`, `MaxTaskFailures` count injected faults; a lapsed lease whose
  holder is gone is not a fault and is not bounded. `MaxRuns` is 4 where runs
  are created: two starts, and each continues once.
- `MaxRaceEvents` bounds a behaviour that the code does not bound. Two tasks of
  one run can spoil each other's compare-and-swap, lapse and be redispatched,
  for ever, each round adding a `WorkflowTaskStarted`. Once a run has that many
  events a transaction on it begins only when no other on that run is open. The
  value of each run lets every program be in its last task, with conflicts on
  the way, before the bound applies. Liveness is therefore shown under the
  assumption that such mutual interference ends.
- `StickyWorker`: each kind of disturbance once, two of them in a behaviour;
  `MaxEvents` (30), beyond which no task or query is dispatched, is above what
  the program needs and only stops runs of failed tasks. `MaxHistoryFetch` is
  1000, out of reach.
- `ActivityWorker`: three disturbances, so that two can hit one activity and a
  third its repetition (one where two servers make a key each, since there the
  load balancer alone sends answers astray); `Width` is 6, so that products wrap
  within the attempts of a policy; two servers and two workers.
- `ClientSDK`: per session, runs (up to 4), continuations (1, in one
  session 2, so that one run is continued twice), the length up to
  which workers extend a history, instants (two, so that runs start together
  and apart), lost outcomes (1); `MaxSends` is 2. Page sizes are 1 and 2 instead
  of 50 and 1000: every history has a page that is exactly full.
- `QueryTasks`: two queries share the table and nothing else; two lapses let
  three workers hold tokens of one query. `Notifier`: two overlapping
  notifications and two waiters, one of whom may leave at any time.

TLC's deadlock test is on for `Notifier`, `ActivityWorker` and `ClientSDK`
(whose `Done` is the one place to rest). Elsewhere the system does come to rest
when the work is done; for `FlowdEngine` `RestsOnlyWhenDone` says that it only
does so then.

### Fairness

All of it is weak fairness.

- `FlowdEngine`: a handler that has started runs to its end (a crash is an
  action of its own); the polls of live workers, the reaper and the timer firer
  are endless loops with a ticker or a backoff (`internal/matching/poll.go`,
  `reaper.go`, `history/timers.go`); a worker that holds a token answers it; a
  sticky deadline passes. Nothing is assumed of clients, and nothing of a worker
  outside `LiveWorker`.
- `QueryTasks`: a handler runs on and its deadline passes
  (`context.WithTimeout`); nothing is assumed of workers.
- `Notifier`: polls and notifications run on, the backoff timer fires, and a
  persistent worker polls again (`Worker.pollWorkflowTasks` is a loop); no
  context need end and no row need come.
- `ActivityWorker`: a stopped server is started again, the poll loops go on, an
  execution ends and its answer is sent, the reaper ticks, time passes. No
  disturbance need happen.
- `ClientSDK`: some handler with a request runs, some caller that can go on
  does, some open run with a task out is brought to an end. Nothing is assumed
  of the network or of a workflow's choice to continue as new.

## 4. Mutants

For each property of a passing run there is a changed version of one definition
(next to the original, its comment begins with "Mutant") under which TLC finds
the property violated: a compare-and-swap that accepts a counter that has moved
on, a dequeue that keeps the old token, a wake-up that is not given a row of its
own, a reaper that looks at the wrong status, a cursor of one column, a slot that
is not given back, and so on.

## 5. Proofs

The theorems hold for every value of the constants: any number of workers,
processes, calls, queries, pollers, servers and runs, any workflow function and
any bound.

### The engine

`FlowdEngineProofs`, and the two modules that extend it, rest on
`ConstantsAssumption`, which TLC evaluates in every run: calls and processes are
distinct, calls are well formed and no two have one number, numbers are
naturals, and a crash needs a handler at work (`CrashPoints` has neither
`"idle"` nor `"done"`).

| theorem | states | module |
|---|---|---|
| `TypeCorrect` | `Spec => []TypeOK` | `FlowdEngineProofs` |
| `HistoryHasNoGaps` | `Spec => []HistoryContiguous` | `FlowdEngineProofs` |
| `EngineImplementsHistoryLog` | `Spec => ImplementsHistoryLog` | `FlowdEngineProofs` |
| `StatusAgreesWithHistory` | `Spec => []StatusMatchesHistory` | `FlowdHistoryProofs` |
| `ContinuationsAreLinked` | `Spec => []ContinuationLinked` | `FlowdHistoryProofs` |
| `AcknowledgedOnce` | `Spec => []WokenExactlyOnce` | `FlowdHistoryProofs` |
| `LeaseHasOneHolder` | `Spec => []OneLeaseHolder` | `FlowdRowsProofs` |
| `WakeUpsAreNotLost` | `"wffail" \notin CrashPoints => (Spec => []NoLostWakeup)` | `FlowdRowsProofs` |
| `ActivitiesAreAccountedFor` | `Spec => []ActivityAccounted` | `FlowdRowsProofs` |
| `TimersAreAccountedFor` | `Spec => []TimerAccounted` | `FlowdRowsProofs` |

*The log.* Contiguity is not inductive on its own. A transaction appends at the
number it read, in a run it chose one step earlier; if that run did not exist,
or were created anew in between, its append would leave a gap or be overwritten
by the two start events. The inductive invariant is

    LogInv == TypeOK /\ HistoryContiguous /\ ReferencesExist

where `ReferencesExist` says that the current run, every row, every token and
every transaction under way refers to a run that exists, and that a run that
does not exist yet has an empty history and its counter at 1. With it,
`InsertAtEnd` (the events inserted at `expected` extend `1..expected-1` without
a gap and leave what was there) settles each committing action after the
compare-and-swap has established `exec[r].next = expected`. `TypeOK` is proved
first, action by action; `LogInvKept` reduces the rest to two facts per action:
the histories `Grow`, and what is referred to exists. The refinement follows
from the same `Grows`.

*What the histories say.* `FlowdHistoryProofs` first describes each committing
action by the events it appends to which run (`Appended`, `Untouched`), once,
and every later proof cites that. `TxInv` adds what a transaction under way may
be about to write: a client call its own event, a goroutine the outcome of the
one activity or timer row it has deleted. Without it, a commit could append a
closing event, or somebody else's signal. `StatusInv` is `StatusMatchesHistory`
with the runs that do not exist. That an acknowledged call is in one history
once follows because its event carries its number and only its own transaction
can write it.

*Leases.* A lease passes from the poll that dequeued the row to the token handed
to the worker and, with the answer, to the transaction that locks the row.
`OneLeaseHolder` only speaks of tokens, so `LeaseInv` follows the lease on its
whole way: rows have distinct ids (`RowIds`), a completion under way has its row
to itself (`RowLocks`), no token or poll is of a later lease than its row
(`AllLent`), and of all polls and tokens one at most has a given lease
(`OneHolder`).

*Wake-ups.* That some row of the run exists is not inductive: an answer that was
decided before the event arrived may delete it. `WakeInv` asks for a row that
`Covers` the event, that is, one that nobody can answer without having been
shown the event, or for a `FailWorkflowTask` that is about to insert one. A new
row covers everything, a dispatch lists the history after the dequeue, and a row
taken away by a completion moves `seen` past what it covered. The
hypothesis that no crash happens inside `FailWorkflowTask` cannot be dropped:
the run `failcrash` shows it.

*Activities and timers.* One argument for both (`Booked`): a row stands for the
schedule event it was written with, an outcome for an earlier schedule event
that has no row and no other outcome, and a schedule event has one or the other.
`WorkLocks` is what makes the two commits of two transactions compatible: a row
that has been deleted by an open transaction is still there for everybody else,
and only one transaction has deleted it.

### Queries, long polls

`QueryTasksProofs` proves from `QueryAssumption` (the bounds are naturals)
`QueryAnsweredOnce`, `Spec => []OneAnswer`, and `QueryRowsCleanedUp`,
`Spec => []RowsCleanedUp`. `OneAnswer` speaks of answers
already given; that the next one cannot be a second one depends on the table.
The inductive invariant adds: task_ids are unique and a query has one row
(`TableInv`); a token is of its row's query and of no later lease, and the lease
under which a row was answered has no token left (`TokenInv`, so the statement
that answers needs no test of the status); a row's status and lease are those of
the answer that was accepted (`AnswerInv`). The steps fall into four kinds, each
with a lemma: the handler moves on, a row is deleted, an unanswered row changes
hands, an answer is recorded. For `RowsCleanedUp` it takes one more conjunct: a
handler that is about to delete its row was answered (`CleanInv`).

`NotifierProofs` proves `WaitersNeverLeak`, `Spec => []NoLeakedWaiter`, and
`NotifyReachesEveryWaiter`, `Spec => []WaitersSignalled`. The second needs to
know of all times before `notify` is done that an empty channel somebody waits
on can still be reached, through the list or through a notify that has taken it
(`Reachable`), and that once the list has been read only the latter counts
(`OwedInv`), since a channel is taken from the list at most once (`TakenOnce`).

### Workers

`StickyWorkerProofs` proves `SignalsAreHandledOnce`,
`Spec => []SignalsHandledOnce`, from `WorkerAssumption`: for every program, any
number of coroutines, workers and disturbances, and pages of any size. It is an
argument about the interpreter first. `Tally(e, n)` says of an Execution that
what its handler has taken and what is in the backlog make `n` signals, and that
a handler comes with a pump (`PumpAt`); feeding it an event keeps that
(`ObserveTallies`, `ScanTallies`), and so does each of the primitives a coroutine
can call (`StepIs`). During a round the backlog of a registered handler may be
non-empty, but only while the pump's turn is still to come (`Turning`); signals
arrive between rounds only, registration drains what there is, and the pump, when
its turn comes, drains the rest. After a round nothing is left (`Settled`,
`RoundSettles`). `ReplaySettles` and `ResumedSettles` say so of a replay and of a
resumed Execution.

The rest is what the cache holds. `CacheInv` says of each entry that it is
settled for the signals among the first `last` events of the history and that
these are events the run has; histories are only appended to (`Extends`), a page
starts where the bookmark ends or is no longer than what was seen (`PageIs`), and
what goes into the cache was fed the page (`KeptFits`). The interpreter's
functions are defined by recursion; each has an existence lemma by induction over
the naturals (`ScansExist`, `RunsExist`, `RoundsExist`), the induction itself
being one about sets (`AllNaturals`).

The module goes on to prove that the cache cannot be noticed:

| theorem | states, of `Spec` |
|---|---|
| `ResumedIsReplayed` | `[]SameAsReplay` |
| `NeverTakenForChanged` | `[]NoFalsePanic` |
| `RunsAreNeverStuck` | `[]NeverStuck` |

each under `Straight /\ Alone /\ OnePage /\ ~QueryAnyTime`, and the last under
`Awaited` besides. `Straight` is a
condition on the workflow function: it may run any activities, timers and signal
handlers in any order and number, but starts no coroutine and does not branch on
a signal or a cancel request. `Alone` is one worker, `OnePage` says that tasks
are dispatched while the history is within `maxHistoryFetch`, and the last that
queries come between tasks. None can be dropped: each is refuted by a
configuration of section 3: `Straight` by `MCSticky_replayorder` (coroutines) and
`MCSticky_cancelreplay` (branches), `Alone` by `MCSticky_staleworker`, `OnePage`
by `MCSticky_historycut` and `~QueryAnyTime` by `MCSticky_coldquery`.
`Awaited` says that a `Get` is on a future the function has obtained before; a Go
function has no other futures. The run `cache` is an instance of all five.

The argument replaces Executions by what they have in common. A straight
function takes one course: `Start`, then `Forth` as long as it does not have to
wait (`Waits`), which depends only on the outcomes and timers in the history. A
`Thread` is a point of it, with the activities, timers and commands so far. With
more facts the course gets longer and does not change (`ComesAlso`), and every
thread reached with the same facts lies before the one it comes to rest at
(`BeforeRest`). `StepFollows` connects the interpreter to it: an Execution that
`Follows` a thread follows the next one after a `Step`, provided that the call it
makes is either recorded as made or beyond everything recorded (`Tells`), and
its commands are the thread's calls beyond those the server knew of. Hence a
replay, which starts at `Start` with everything recorded, and a parked
Execution, which starts further on and has forgotten nothing but its output,
come to rest at the same thread with the same commands (`ReplayAnswers`,
`ResumeAnswers`).

What makes that apply is the inductive invariant `ReplayInv`: there is a thread
`mk` whose activities and timers are exactly those of the history (`Marked`),
and a worker `Stands` at a thread `mk` or beyond it. That thread is the cached Execution's;
while a task is out, its unsent calls are the answer; between tasks, if something
is cached or nothing is queued, nothing of it is unsent. `Numbered`, that every
activity number is scheduled once and every outcome belongs to one, is what makes
facts only grow: a second outcome for an activity would change the course behind
the mark. An accepted answer becomes history event by event (`AcceptRecords`) and
moves the mark to where the worker stands, or one step before if the function
has returned there. A queued task that is refused, lost or failed leaves nothing
in the cache, and the next one starts from the mark.

`RunsAreNeverStuck` then looks at a worker without a task while none is queued.
By `ReplayInv` it stands where the function rests with all that the history tells,
nothing unsent. Either the function has returned, and the answer that said so has
closed the run (`ReturnRecorded`), or it waits for a number. Numbers are given in
order, and one future per activity (`Orderly`, kept by every step of the course),
so the number is one of those scheduled; history has its schedule event
(`AllTold`), and every outcome there has the number of the event it refers to
(`Referring`, an invariant of its own) and would have been fed. So the schedule
event has no outcome (`SomethingOpen`).

### Activity workers

`ActivityWorkerProofs` proves `SlotsAreConserved` and the action properties
`OnlyTheHolderCounts` and `AnswersAreHeard`, all of `FairSpec`, from
`ServerAssumption` (finitely many servers) and `DeploymentsAssumption` (a
deployment is made of `Server`s and `Worker`s, its capacity is a natural, tasks
are numbered). The inductive invariant is

    WorkerInv == TypeInv /\ LeaseInv /\ SettledInv /\ KeyInv /\ SlotsConserved

`SlotsConserved` counts jobs, so each action's lemma says by how much the set of
a worker's jobs grows or shrinks; a job leaves once because no two jobs have the
same task and lease (`LeaseInv`, which also says that whoever holds the lease has not
lost it, and the other way round). `SettledInv`, that what is settled has left
the queue, is what keeps a late answer from settling an activity twice. `KeyInv`
says which processes run with which key: with one configured all have it, and
without one a running process reads exactly the tokens it has issued itself,
since a new process draws a key that no process and no outstanding token has, and
an issuer is one of the processes started so far. `HeardStep` puts these together
for the answer of a job: held and readable, it changes the row or the outcome,
and otherwise nothing.

`WaitsArePolicy`, `IntervalsForward => (FairSpec => []BackoffWithinPolicy)`, adds
`PoliciesAssumption` (intervals are integers, a coefficient is a fraction of an
integer and a positive natural) and the hypothesis that no initial interval is
negative: protobuf durations may be, and nothing checks them, but a negative
interval times a truncated power waits longer than its policy says. The property
speaks of a row and its last wait only, so the invariant is short: a
scheduled row has the policy it was scheduled with, and once retried a wait that
the attempt before the present one called for (`PolicyInv`). The rest is the
arithmetic of `FailActivityTask` (`WaitsFollow`): an exact product that fits a
`Duration` means that neither the conversion nor the multiplication leaves it,
so the wait is the initial interval times the whole part of the power, and a
whole part of at least 1 is more than half of what it is the part of
(`WholePart`). `Pow` is a recursive function, since the provers know nothing of
`^`; that it exists and is monotone is proved by taking the set of the exponents
for which it is so (`PowersExist`, `PowGrows`).

### Clients

`ClientSDKProofs` proves `RequestIdsStartOnce`, `Spec => []StartedOnce`, from
`FrontendAssumption`. `StartedOnce` is about the sequence of runs of a workflow;
a start only looks at `current_executions`. `CurrentInv` ties the two: the row
points at the last run of its workflow and has the id that run was created
under. The other way to a new run, continue-as-new, has an id that no other run
has (`ContinuedIds`). The first attempt failed there: the model had given two
continuations of one run the same id, where `continueWorkflowAsNew` draws a
uuid. One run is continued twice when a late completion meets a run that was
continued already; the session of `clients` that allows two continuations shows
the difference.

The same module proves `SendsAreAccountedFor`, `Spec => []SignalsAccounted`, from
`ScenariosAssumption` (a script is a sequence of calls) besides. The property
looks at a send when its call is over; the inductive invariant `SendsInv` follows
it from the stub to the log:

- `NetInv`: of all requests on the network one at most is a given writing send,
  and as long as it is there no event records it. A read may reuse a number,
  which is why this says "writing".
- `RecordsInv`: one event at most records a send. Handlers differ only in what
  they add to the histories: nothing (`Quiet`) or one event for the send they
  serve (`Tell`); the workers' steps are all `Quiet`.
- `CallInv`: the answer a caller holds `Fits` what the histories say of the send
  it waited for, and a caller in such a call waits for no read.
- `LogInv`: the same for finished calls. A refusal excludes the send from the
  network as well, or its handler could still record it; a `"Unavailable"` says
  nothing, since the handler of a send given up on may run at any later time.
- `JobInv` and `ScriptInv`: the call in progress is the one after those logged.

`HistoriesAreReadWhole`, `Spec => []HistoryReadWhole`, rests on two facts. All
that handlers and workers do to a history is to append to it (`Longer`). And a
call of `GetWorkflowHistory` is never answered with somebody else's page, or with
an earlier page of its own that was given up on: a request with the number the
call waits for asks for the run and the token the call has now (`Awaits`; reads
reuse a number only while no request has it, and a retry starts from an empty
token). `ReadsInv` then says that the pages so far, and the page just answered,
begin the history (`Holds`, `Heard`), that the token is the number of events
received, and that a page that is not full reaches past everything there was when
the first one was asked for. A script may name a run together with the wrong
workflow; the server then finds no events, and the property asks for none.

`ListingsAreComplete`, `Spec => []ListedOnce`, is the same argument with sort
keys for positions. What a page is, is first said without the sort (`ListPageIs`):
its rows are hits, in listing order (`InOrder`), and every hit beyond the cursor
is on it or comes after the token it returns; `Listed` is a sequence chosen to
be sorted, and that a finite set of rows has one is shown by taking the smallest
number of rows for which it had none. What the tables do meanwhile is `RowsOn`:
runs are added, none goes, a run's key never changes, and its status only
together with one more closing event. `ListsInv` then follows the collected
pages through the stub to the log. `Halfway` says that the rows so far are in
order, end at the token, and that every run of the first request's snapshot that
still is as it was is among them or beyond it (`Through`, `Covers`); an answer
extends that (`IsListPage`); a listing that is over has an empty token, and
nothing is left beyond it (`Whole`). Strictly increasing keys show no run twice.

`GetsSettleOnTheirChain`, `Spec => []GetSettles`, follows the loop of `Get`. Its
inductive invariant `GetsInv` says of a caller that still describes that the
run it asks about next is the one it was given, the current one, or a later
run of the same workflow (`Aims`), and that what a `Describe` answered is still
so or the run has ended since (`Described`); of a caller that reads the history
of the run it settled on, that this run has completed and has its result among
the events the first page was asked for (`Settled`, `Promised`), so that
`HistoriesAreReadWhole` finds it. `ResultsInv` is what makes the promise true: a
completed run has a completion event. The chain comes last and from no
invariant: between the handle and the run Get ended on, either every run is the
continuation of its workflow's run before it, and then going up from the last
reaches the first, or the first that is not has taken the workflow over. Going
up is a recursive function, and is shown to arrive by the smallest run of the
chain it reaches (`ClimbExists`, `AncestorsClimb`).

Both properties were first stated more strongly, and TLC had agreed on the
instance of `clients`. The attempts to prove them showed larger instances on
which the earlier forms fail: three runs of a workflow of which the first is
continued late, and a run closed twice between two pages. The present forms say
what remains true of the code.

### Only model-checked

- The liveness properties: fairness is outside the prover's reach.
- `RestsOnlyWhenDone`: it speaks of `ENABLED`.
- `SameAsReplay`, `NoFalsePanic` and `NeverStuck` beyond the
  hypotheses above: with coroutines, branches on signals or cancel requests, or
  several workers, where section 3 says what becomes of them.
- `BackoffWithinPolicy` for policies with a negative initial interval, which the
  run's deployments leave out.

## 6. Not modelled

- TLS, metrics, logging, the embedded web assets, schema migrations: no protocol
  state.
- Generated accessors and descriptors of the protobuf code; what is modelled of
  it are the messages' fields and the stubs.
- `attributes.go` and `sdk/internal/converter` (encoding of payloads and events):
  values are opaque here.
- Flag parsing, JSON and HTTP status codes of flow-cli and the web UI, and
  flow-cli's query subcommand (`QueryTasks` has the protocol below it).
- Several task queues and the listing's task-queue filter: queues are disjoint
  sets of rows. Partitions are in `ActivityWorker`, for activities; the same
  function and WHERE clause serve the workflow tasks.
- Workflow, run and schedule-to-start timeouts: the code stores and never
  enforces them, so there is no behaviour to model.
- Failures of single SQL statements for reasons other than conflicts: they roll
  back like a crash.
- `StickyWorker` and `FlowdEngine` are not composed into one state machine: the
  product is beyond TLC. Which worker gets a task is left open in
  `StickyWorker`, and what a worker answers in `FlowdEngine`.

## 7. What is left to prove

- What is left of `SameAsReplay`, `NoFalsePanic` and `NeverStuck` for functions
  with coroutines. Section 3 shows where they fail (`MCSticky_replayorder`, and
  `NoFalsePanic` with `Background`); for the functions for which they hold, the
  argument of section 5 would have to follow a set of programs, each with its
  own position, in place of one.
- The liveness properties and `RestsOnlyWhenDone` are for TLC.
