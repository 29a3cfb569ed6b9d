--------------------------- MODULE ActivityWorker ---------------------------
(***************************************************************************)
(* Activities between the server and the workers: rows of activity_tasks    *)
(* with their retry policies, the frontend's poll and respond RPCs with     *)
(* signed task tokens, the workers' poll loops with their semaphore and     *)
(* processing goroutines, and the life of the processes: start, graceful    *)
(* shutdown, crash.  A deployment may have several servers on one database. *)
(*                                                                         *)
(* Histories and workflow tasks are FlowdEngine's; here a terminal answer   *)
(* is just recorded.  Time is counted in ticks for the retry delays only:   *)
(* nothing but the reaper reads a lease's expiry.                           *)
(***************************************************************************)
EXTENDS Integers, FiniteSets

CONSTANTS
    Server,         \* server processes, of which a deployment uses some
    Worker,         \* worker processes, likewise
    Deployments,    \* the deployments considered: which processes run, with
                    \* which environment (env), partitions and capacity, the
                    \* activities scheduled (tasks, by task id) and how many
                    \* disturbances may happen (faults)
    HexStrings,     \* values of FLOWD_TASK_TOKEN_SIGNING_KEY that decode
    Width           \* bits of a Duration (64)

ASSUME WidthAssumption == Width \in Nat \ {0, 1}

ASSUME ServerAssumption == IsFiniteSet(Server)

ASSUME DeploymentsAssumption ==
    \A d \in Deployments : /\ d.servers \subseteq Server /\ d.workers \subseteq Worker
                           /\ d.capacity \in Nat /\ DOMAIN d.tasks \subseteq Nat

\* Intervals are durations of any sign; a coefficient is a fraction.
ASSUME PoliciesAssumption ==
    \A d \in Deployments : \A t \in DOMAIN d.tasks :
        LET rp == d.tasks[t].policy
        IN  /\ rp.initial \in Int /\ rp.maxInterval \in Int
            /\ rp.coeff \in Int \X (Nat \ {0})

VARIABLES
    dep,        \* the deployment
    server,     \* mode and token signing key of each server process, and its
                \* life: how often it was started (for the properties)
    row,        \* activity_tasks, by task id
    outcome,    \* the terminal event recorded for each activity
    poller,     \* each worker's pollActivityTasks loop
    sem,        \* slots of activitySem each worker has taken
    jobs,       \* activity tasks that workers have received
    faults      \* disturbances that may still happen

vars == <<dep, server, row, outcome, poller, sem, jobs, faults>>
workerVars == <<poller, sem, jobs>>

Task == DOMAIN dep.tasks
Fault == faults > 0 /\ faults' = faults - 1
Least(S) == CHOOSE x \in S : \A y \in S : x <= y

-----------------------------------------------------------------------------
(* Configuration and process life                                          *)

\* A value that is not hexadecimal counts as unset.
getEnvHex(v) == IF v \in HexStrings THEN v ELSE ""

ConfiguredKey == 0

\* Mutant: every process makes a key of its own, configured or not.
NewKeyAlwaysRandom == Least(1..(Cardinality(Server) + Cardinality(jobs) + 1)
                            \ ({server[s].key : s \in Server} \cup {j.key : j \in jobs}))

\* Mutant: the zero key where none is configured.
NewKeyZero == ConfiguredKey

\* NewStore: the configured key, or random bytes, which are nobody else's.
NewKey == IF getEnvHex(dep.env) # "" THEN ConfiguredKey
          ELSE Least(1..(Cardinality(Server) + Cardinality(jobs) + 1)
                     \ ({server[s].key : s \in Server} \cup {j.key : j \in jobs}))

Up == {s \in dep.servers : server[s].mode = "up"}
Reachable(s) == server[s].mode = "up"

\* run: migrations, store, reaper, listener.
StartServer(s) ==
    /\ s \in dep.servers /\ server[s].mode = "down"
    /\ server' = [server EXCEPT ![s] = [mode |-> "up", key |-> NewKey, life |-> @.life + 1]]
    /\ UNCHANGED <<dep, row, outcome, workerVars, faults>>

\* SIGTERM: the reaper stops at once, calls in progress are waited for.
ShutdownServer(s) ==
    /\ Reachable(s) /\ Fault
    /\ server' = [server EXCEPT ![s].mode = "draining"]
    /\ UNCHANGED <<dep, row, outcome, workerVars>>

PollsAt(s) == {w \in Worker : poller[w] = [at |-> "polling", server |-> s]}

GracefulStop(s) ==
    /\ server[s].mode = "draining" /\ PollsAt(s) = {}
    /\ server' = [server EXCEPT ![s].mode = "down"]
    /\ UNCHANGED <<dep, row, outcome, workerVars, faults>>

Idle == [at |-> "idle", server |-> "none"]

\* The process dies; polls it was holding fail and give their slots back.
CrashServer(s) ==
    /\ server[s].mode \in {"up", "draining"} /\ Fault
    /\ server' = [server EXCEPT ![s].mode = "down"]
    /\ poller' = [w \in Worker |-> IF w \in PollsAt(s) THEN Idle ELSE poller[w]]
    /\ sem' = [w \in Worker |-> IF w \in PollsAt(s) THEN sem[w] - 1 ELSE sem[w]]
    /\ UNCHANGED <<dep, row, outcome, jobs>>

\* A worker ends, by ctx or by a crash, and is started again.  Run waits for
\* the poll loops only: activities at work are abandoned, and an answer sent
\* with the cancelled ctx goes nowhere.
RestartWorker(w) ==
    /\ w \in dep.workers /\ Fault
    /\ poller' = [poller EXCEPT ![w] = Idle]
    /\ sem' = [sem EXCEPT ![w] = 0]
    /\ jobs' = {j \in jobs : j.worker # w}
    /\ UNCHANGED <<dep, server, row, outcome>>

-----------------------------------------------------------------------------
(* Rows of activity_tasks                                                  *)

NULL == {"NULL"}

\* The queue partition of a workflow id, of which `hash' stands for the FNV sum.
getEnvInt32(v) == IF v < 1 THEN 1 ELSE v

PartitionFor(hash) ==
    IF getEnvInt32(dep.numPartitions) <= 1 THEN 0 ELSE hash % getEnvInt32(dep.numPartitions)

\* The row of a ScheduleActivityTask command.  A coefficient that is not
\* positive is replaced by 2.  Without a policy the list of error types is
\* empty; with one it is the policy's own, and a policy that lists none has
\* NULL there: protobuf decodes an empty list as nil.
activityEnqueueParams(cmd) ==
    LET rp == cmd.policy
    IN [status |-> "PENDING", attempt |-> 1, wait |-> 0, lease |-> 0, delay |-> 0,
        partition |-> PartitionFor(cmd.hash),
        initial |-> rp.initial, maxInterval |-> rp.maxInterval,
        coeff |-> IF rp.coeff[1] > 0 THEN rp.coeff ELSE <<2, 1>>,
        maxAttempts |-> rp.maxAttempts,
        nonRetryable |-> IF rp.given /\ rp.nonRetryable = {} THEN NULL ELSE rp.nonRetryable]

\* The insert, inside the CompleteWorkflowTask that carries the command.  The
\* column is NOT NULL: a row with NULL there rolls the whole answer back, and
\* so does every repetition of it.
Insertable(r) == r.nonRetryable # NULL

EnqueueActivityTask(t) ==
    /\ row[t].status = "none"
    /\ Insertable(activityEnqueueParams(dep.tasks[t]))
    /\ row' = [row EXCEPT ![t] = activityEnqueueParams(dep.tasks[t])]
    /\ UNCHANGED <<dep, server, outcome, workerVars, faults>>

\* DequeueActivityTask: the first row by task id that is due and lies in a
\* partition the worker serves (no partitions declared: all).
Due(w) == {t \in Task : /\ row[t].status = "PENDING" /\ row[t].wait = 0
                        /\ \/ dep.partitions[w] = {}
                           \/ row[t].partition \in dep.partitions[w]}

\* A new lease token differs from every token still about.
NewLease(t) == Least(1..(Cardinality(jobs) + 1)
                     \ ({j.lease : j \in {i \in jobs : i.task = t}}))

Dequeued(t) == [row EXCEPT ![t].status = "STARTED", ![t].lease = NewLease(t)]

\* Mutant: whoever answers for a started task is believed.
HoldsAnyLease(j) == row[j.task].status = "STARTED"

Holds(j) == row[j.task].status = "STARTED" /\ row[j.task].lease = j.lease

\* Time passes for the rows that wait for their retry.
Tick ==
    /\ \E t \in Task : row[t].wait > 0
    /\ row' = [t \in Task |-> [row[t] EXCEPT !.wait = IF @ > 0 THEN @ - 1 ELSE 0]]
    /\ UNCHANGED <<dep, server, outcome, workerVars, faults>>

\* The reaper of a running server finds the lease expired: the same attempt is
\* queued again.  (`stale' marks, for the properties, the jobs that lose their
\* lease here.)
Reaped(t) ==
    /\ row[t].status = "STARTED" /\ Up # {}
    /\ row' = [row EXCEPT ![t].status = "PENDING", ![t].lease = 0]
    /\ jobs' = {[j EXCEPT !.stale = @ \/ j.task = t] : j \in jobs}
    /\ UNCHANGED <<dep, server, outcome, poller, sem>>

AtWork(t) == \E j \in jobs : j.task = t /\ Holds(j)

\* Mutant: the reaper looks for expired leases among the pending rows.
ReapPendingActivityTask(t) == row[t].status = "PENDING" /\ ~AtWork(t) /\ Reaped(t) /\ UNCHANGED faults

ReapExpiredActivityTask(t) == ~AtWork(t) /\ Reaped(t) /\ UNCHANGED faults

\* The same while the activity is at work: it outlasts start_to_close_timeout,
\* which is all the lease it gets.
LeaseTooShort(t) == AtWork(t) /\ Fault /\ Reaped(t)

-----------------------------------------------------------------------------
(* Retries                                                                 *)

\* Durations are two's complement numbers; what converting a float that does
\* not fit yields is up to the processor.
Pow(x, n) == LET pow[i \in 0..n] == IF i = 0 THEN 1 ELSE x * pow[i - 1] IN pow[n]
Limit == Pow(2, Width - 1)
Wrapped(x) == ((x + Limit) % (2 * Limit)) - Limit
Converted(x) == IF x < Limit THEN {x} ELSE {-Limit, Limit - 1}

\* Mutant: the coefficient loses its fraction before it is raised.
PowerOfWhole(r) == Pow(r.coeff[1] \div r.coeff[2], r.attempt - 1)

\* Duration(coefficient^(attempt - 1)): the power loses its fraction before it
\* is multiplied with the initial interval.
Power(r) == Pow(r.coeff[1], r.attempt - 1) \div Pow(r.coeff[2], r.attempt - 1)

\* The product may wrap around; the cap applies only to what exceeds it.
Backoffs(r) ==
    {LET backoff == Wrapped(r.initial * p)
     IN IF r.maxInterval > 0 /\ backoff > r.maxInterval THEN r.maxInterval ELSE backoff
     : p \in Converted(Power(r))}

Retryable(r, type) ==
    /\ r.maxAttempts = 0 \/ r.attempt < r.maxAttempts
    /\ type \notin r.nonRetryable

\* RetryActivityTask.  A row whose visible_at lies in the past is due at once.
Retried(r, backoff) ==
    [r EXCEPT !.status = "PENDING", !.attempt = @ + 1, !.lease = 0,
              !.wait = IF backoff > 0 THEN backoff ELSE 0, !.delay = backoff]

-----------------------------------------------------------------------------
(* The worker's poll loop and the frontend's PollActivityTaskQueue         *)

\* A slot is taken before the poll, so that no lease runs while a task waits
\* for one.
AcquireSlot(w) ==
    /\ w \in dep.workers /\ poller[w] = Idle /\ sem[w] < dep.capacity
    /\ sem' = [sem EXCEPT ![w] = @ + 1]
    /\ poller' = [poller EXCEPT ![w] = [at |-> "slot", server |-> "none"]]
    /\ UNCHANGED <<dep, server, row, outcome, jobs, faults>>

SendPoll(w, s) ==
    /\ poller[w].at = "slot" /\ Reachable(s)
    /\ poller' = [poller EXCEPT ![w] = [at |-> "polling", server |-> s]]
    /\ UNCHANGED <<dep, server, row, outcome, sem, jobs, faults>>

Release(w) ==
    /\ sem' = [sem EXCEPT ![w] = @ - 1]
    /\ poller' = [poller EXCEPT ![w] = Idle]

\* No server answers: the error is logged and the loop sleeps for a while.
PollRefused(w) ==
    /\ poller[w].at = "slot" /\ Up = {}
    /\ Release(w)
    /\ UNCHANGED <<dep, server, row, outcome, jobs, faults>>

\* A server process, told from the one that ran in its place before.
Process(s) == <<s, server[s].life>>

\* PollActivityTask finds a row: dequeue, ActivityTaskStarted, signed token.
\* A goroutine takes the task over and the slot with it.
PollDispatches(w) ==
    /\ poller[w].at = "polling" /\ Due(w) # {}
    /\ LET t == Least(Due(w))
       IN /\ row' = Dequeued(t)
          /\ jobs' = jobs \cup {[worker |-> w, task |-> t, lease |-> NewLease(t),
                                 key |-> server[poller[w].server].key,
                                 issuer |-> Process(poller[w].server),
                                 at |-> "work", answer |-> "none", stale |-> FALSE]}
    /\ poller' = [poller EXCEPT ![w] = Idle]
    /\ UNCHANGED <<dep, server, outcome, sem, faults>>

\* The dequeue has committed but the task does not arrive: appending
\* ActivityTaskStarted lost its compare-and-swap, or the answer was lost.
DispatchLost(w) ==
    /\ poller[w].at = "polling" /\ Due(w) # {} /\ Fault
    /\ row' = Dequeued(Least(Due(w)))
    /\ Release(w)
    /\ UNCHANGED <<dep, server, outcome, jobs>>

\* Mutant: nothing arrived, and the slot stays taken.
PollTimesOutKeepingSlot(w) ==
    /\ poller[w].at = "polling" /\ Due(w) = {}
    /\ poller' = [poller EXCEPT ![w] = Idle]
    /\ UNCHANGED <<dep, server, row, outcome, sem, jobs, faults>>

\* The long poll ends with nothing to hand out: an empty answer.
PollTimesOut(w) ==
    /\ poller[w].at = "polling" /\ Due(w) = {}
    /\ Release(w)
    /\ UNCHANGED <<dep, server, row, outcome, jobs, faults>>

-----------------------------------------------------------------------------
(* processActivityTask and the respond RPCs                                *)

\* How an execution may end (the task's `can'), and what is reported: a result
\* that may exceed the payload limit, or a failure with its type.
Failures == [unregistered |-> "UnregisteredActivityType", badInput |-> "InputUnmarshalError",
             panic |-> "panic", error |-> "error", unmarshalable |-> "MarshalError"]

Reported(end) == IF end \in DOMAIN Failures THEN Failures[end] ELSE end

ProcessActivityTask(j) ==
    /\ j \in jobs /\ j.at = "work"
    /\ \E end \in dep.tasks[j.task].can :
          jobs' = (jobs \ {j}) \cup {[j EXCEPT !.at = "respond", !.answer = Reported(end)]}
    /\ UNCHANGED <<dep, server, row, outcome, poller, sem, faults>>

\* The goroutine returns, whatever became of its answer (errors are logged).
Done(j) ==
    /\ jobs' = jobs \ {j}
    /\ sem' = [sem EXCEPT ![j.worker] = @ - 1]
    /\ UNCHANGED <<dep, server, poller>>

Results == {"ok", "big"}
CheckPayloadSize(answer) == answer # "big"
DecodeTaskToken(j, s) == server[s].key = j.key

Recorded(j, kind) ==
    /\ row' = [row EXCEPT ![j.task].status = "deleted", ![j.task].lease = 0]
    /\ outcome' = [outcome EXCEPT ![j.task] = [kind |-> kind, type |-> j.answer]]

RespondActivityTaskCompleted(j, s) ==
    /\ j.answer \in Results /\ CheckPayloadSize(j.answer)
    /\ DecodeTaskToken(j, s) /\ Holds(j)
    /\ Recorded(j, "completed")

RespondActivityTaskFailed(j, s) ==
    /\ j.answer \notin Results
    /\ DecodeTaskToken(j, s) /\ Holds(j)
    /\ IF Retryable(row[j.task], j.answer)
       THEN /\ \E b \in Backoffs(row[j.task]) : row' = [row EXCEPT ![j.task] = Retried(@, b)]
            /\ UNCHANGED outcome
       ELSE Recorded(j, "failed")

\* InvalidArgument (too large, not signed with this process's key) or an
\* expired lease.
RespondRefused(j, s) ==
    /\ ~ (DecodeTaskToken(j, s) /\ Holds(j) /\ CheckPayloadSize(j.answer))
    /\ UNCHANGED <<row, outcome>>

Respond(j, s) ==
    /\ j \in jobs /\ j.at = "respond" /\ Reachable(s)
    /\ \/ RespondActivityTaskCompleted(j, s)
       \/ RespondActivityTaskFailed(j, s)
       \/ RespondRefused(j, s)
    /\ Done(j)
    /\ UNCHANGED faults

\* The answer does not reach a server, or its transaction loses the run's
\* compare-and-swap: the error is logged, and the answer not sent again.
AnswerDropped(j) ==
    /\ j \in jobs /\ j.at = "respond"
    /\ Done(j)
    /\ UNCHANGED <<row, outcome>>

RespondUnavailable(j) == Up = {} /\ AnswerDropped(j) /\ UNCHANGED faults
RespondLost(j) == Up # {} /\ Fault /\ AnswerDropped(j)

-----------------------------------------------------------------------------
NoRow == [status |-> "none", attempt |-> 0, wait |-> 0, lease |-> 0, delay |-> 0]

Init ==
    /\ dep \in Deployments
    /\ server = [s \in Server |-> [mode |-> "down", key |-> 0, life |-> 0]]
    /\ row = [t \in DOMAIN dep.tasks |-> NoRow]
    /\ outcome = [t \in DOMAIN dep.tasks |-> [kind |-> "none", type |-> "none"]]
    /\ poller = [w \in Worker |-> Idle]
    /\ sem = [w \in Worker |-> 0]
    /\ jobs = {}
    /\ faults = dep.faults

ServerStep(s) == StartServer(s) \/ GracefulStop(s)

PollStep(w) ==
    \/ AcquireSlot(w)
    \/ \E s \in dep.servers : SendPoll(w, s)
    \/ PollRefused(w) \/ PollDispatches(w) \/ PollTimesOut(w)

JobStep(t) ==
    \E j \in {i \in jobs : i.task = t} :
        \/ ProcessActivityTask(j)
        \/ \E s \in dep.servers : Respond(j, s)
        \/ RespondUnavailable(j)

QueueStep(t) == EnqueueActivityTask(t) \/ ReapExpiredActivityTask(t)

Disturbance ==
    \/ \E s \in dep.servers : ShutdownServer(s) \/ CrashServer(s)
    \/ \E w \in dep.workers : RestartWorker(w) \/ DispatchLost(w)
    \/ \E t \in Task : LeaseTooShort(t)
    \/ \E j \in jobs : RespondLost(j)

Next ==
    \/ \E s \in dep.servers : ServerStep(s)
    \/ \E w \in dep.workers : PollStep(w)
    \/ \E t \in Task : JobStep(t) \/ QueueStep(t)
    \/ Tick
    \/ Disturbance

Tasks == UNION {DOMAIN d.tasks : d \in Deployments}

\* Processes are started again, the loops of the workers go on, an execution
\* ends and answers, the reaper ticks, time passes.
Fairness ==
    /\ \A s \in Server : WF_vars(s \in dep.servers /\ ServerStep(s))
    /\ \A w \in Worker : WF_vars(w \in dep.workers /\ PollStep(w))
    /\ \A t \in Tasks : /\ WF_vars(t \in Task /\ JobStep(t))
                        /\ WF_vars(t \in Task /\ QueueStep(t))
    /\ WF_vars(Tick)

FairSpec == Init /\ [][Next]_vars /\ Fairness

-----------------------------------------------------------------------------
(* Properties                                                              *)

\* A worker's semaphore counts exactly the tasks it is at work on and the poll
\* it has out, whichever way earlier polls and answers ended: no slot is lost,
\* and no task it has received waits for one while its lease runs.
SlotsConserved ==
    \A w \in Worker :
        /\ sem[w] = Cardinality({j \in jobs : j.worker = w})
                    + (IF poller[w] = Idle THEN 0 ELSE 1)
        /\ sem[w] <= dep.capacity

\* Only an execution that still holds its lease uses up an attempt or settles
\* its activity, and a settled activity stays as it is: the late answer of an
\* execution whose lease was reaped changes nothing, before and after the
\* repetition answers.
OnlyHolderCounts ==
    [][\A t \in Task :
          \/ outcome'[t] # outcome[t]
          \/ row[t].attempt > 0 /\ row'[t].attempt # row[t].attempt
          => /\ outcome[t].kind = "none" /\ row[t].status = "STARTED"
             /\ \E j \in jobs \ jobs' : j.task = t /\ j.at = "respond" /\ ~j.stale]_vars

\* The wait before a retry as FailActivityTask computes it, as long as the
\* exact product fits a Duration: whatever is lost of a fractional coefficient
\* and wherever the cap applies, never longer than
\* initial * coefficient^(attempt - 1) nor than the maximal interval, and, the
\* coefficient being at least 1, no less than half of it.  This is one power of
\* the coefficient behind the formula of ADR-0002, initial * coefficient^attempt:
\* the first retry waits the bare initial interval.  The documented formula is
\* BackoffAsDocumented below, and does not hold.
BackoffWithinPolicy ==
    \A t \in Task :
        LET r == row[t]
            n == r.attempt - 2                  \* exponent of the last retry
            exact == r.initial * Pow(r.coeff[1], n) \* in units of 1/scale
            scale == Pow(r.coeff[2], n)
            upTo == IF r.maxInterval > 0 THEN Least({exact, r.maxInterval * scale}) ELSE exact
        IN r.status # "none" /\ r.attempt > 1 /\ exact < Limit * scale
           => /\ r.delay * scale <= upTo
              /\ r.coeff[1] >= r.coeff[2] => 2 * r.delay * scale >= upTo

\* An answer is acted on, whichever server it reaches, when it is within the
\* payload limit, comes before its lease was reaped and carries a token that
\* server can read: with a configured key any token of the deployment, from
\* before a restart too; with none (or one that does not decode) only a token
\* issued by the very process that gets the answer.  Any other answer leaves
\* the queue and the outcomes as they are.
AnswersHeard ==
    [][\A j \in jobs, s \in Server :
          Respond(j, s) =>
             (<<row, outcome>>' # <<row, outcome>>
                 <=> /\ j.answer # "big" /\ ~j.stale
                     /\ getEnvHex(dep.env) # "" \/ j.issuer = Process(s))]_vars

\* An activity is answerable when it can be stored, some worker serves its
\* partition, each execution yields something a server accepts, and failures
\* use up its attempts.
Answerable(t) ==
    LET cmd == dep.tasks[t]
        r == activityEnqueueParams(cmd)
    IN /\ Insertable(r)
       /\ \E w \in dep.workers : dep.partitions[w] = {} \/ r.partition \in dep.partitions[w]
       /\ "big" \notin cmd.can
       /\ r.maxAttempts > 0 \/ {Reported(e) : e \in cmd.can} \subseteq r.nonRetryable \cup {"ok"}
       /\ getEnvHex(dep.env) # "" \/ Cardinality(dep.servers) = 1

\* Every answerable activity is answered in the end, whatever was lost on the
\* way: polls, dispatches and answers, tokens of a server that was restarted,
\* workers with what they were doing.
EveryActivityAnswered ==
    \A t \in Tasks :
        t \in Task /\ Answerable(t) ~> t \in Task /\ outcome[t].kind # "none"

-----------------------------------------------------------------------------
(* What the documentation says and the code does not do                    *)

\* ADR-0002: backoff = min(initial_interval * backoff_coefficient^attempt,
\* max_interval), with the attempt column as it is before it is incremented.
\* (For whole coefficients, and products that fit a Duration.)
BackoffAsDocumented ==
    \A t \in Task :
        LET r == row[t]
            exact == r.initial * Pow(r.coeff[1], r.attempt - 1)
        IN r.status # "none" /\ r.attempt > 1 /\ r.coeff[2] = 1 /\ exact < Limit
           => r.delay = IF r.maxInterval > 0 THEN Least({exact, r.maxInterval}) ELSE exact
=============================================================================
