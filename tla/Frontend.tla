------------------------------ MODULE Frontend ------------------------------
(***************************************************************************)
(* The public side of the server: the gRPC frontend, its API-key           *)
(* interceptor, payload limit and error codes, and below it the Store's     *)
(* client operations on namespaces, current_executions, workflow_executions *)
(* and history_events.  A handler is one step here: what happens between    *)
(* the statements of a handler is FlowdEngine's subject.  Clients send      *)
(* requests over a network that may lose them; a handler runs to its end    *)
(* even when nobody waits for its answer any more.                          *)
(***************************************************************************)
EXTENDS Integers, Sequences, FiniteSets, SequencesExt

CONSTANTS
    Client,           \* the callers, whatever tool they use
    Namespace,        \* the namespace names in use
    WorkflowId,       \* a set of naturals, so that they can be ordered
    DefaultHistoryPageSize,   \* 1000 in the code
    DefaultListPageSize,      \* 50 in the code
    APIKeys,          \* the entries of FLOWD_API_KEYS, where it is set
    Limits            \* the bounds an instance may have, and whether it is set

ASSUME FrontendAssumption ==
    /\ "default" \in Namespace
    /\ WorkflowId \subseteq Nat
    /\ {DefaultHistoryPageSize, DefaultListPageSize} \subseteq Nat \ {0}
    /\ \A l \in Limits :
         /\ {l.runs, l.continued, l.events, l.instants, l.faults} \subseteq Nat
         /\ l.keys \in BOOLEAN

VARIABLES
    namespaces,       \* the names in the namespaces table
    current,          \* current_executions: <<namespace, workflow id>> -> row
    execs,            \* workflow_executions with history_events, run by run
    net,              \* requests on their way to a handler
    stream,           \* each client's open or answered call
    limits            \* the bounds: runs and how many of them by continuation,
                      \* a history's length up to which workers only schedule
                      \* or answer late, instants at which runs start, faults;
                      \* and whether the server has API keys

server == <<namespaces, current, execs>>

\* A run id is a random uuid: here the run's place in the order of creation,
\* which also ranks it in the listing's last sort column (it decides only
\* between runs of one workflow that start in the same instant).  The empty
\* run id is 0.
NoRun == 0

Put(f, k, v) == [x \in DOMAIN f \cup {k} |-> IF x = k THEN v ELSE f[x]]

-----------------------------------------------------------------------------
(* Requests, answers and codes                                             *)

\* The RPCs whose request has a namespace field.
Namespaced == {"Start", "Signal", "Cancel", "Terminate", "Describe", "GetHistory", "List"}

\* One in-flight request: who sent it (and which of its sends it is), the
\* credentials, and the fields of the request messages.
Request(c, k, rpc, opts) ==
    [c |-> c, k |-> k, rpc |-> rpc, key |-> opts.key, ns |-> opts.ns,
     wf |-> 0, run |-> NoRun, req |-> "", big |-> FALSE, page |-> 0,
     token |-> << >>, filter |-> "", name |-> ""]

NoValue == [run |-> NoRun, status |-> "", events |-> << >>, runs |-> << >>,
            token |-> << >>, names |-> {}]

\* A handler's return: the answer reaches the caller only if it still waits
\* for this send.
Answer(m, code, val) ==
    /\ net' = net \ {m}
    /\ stream' = IF stream[m.c].k = m.k /\ stream[m.c].st = "open"
                 THEN [stream EXCEPT ![m.c] = [@ EXCEPT !.st = "answered",
                                                        !.code = code, !.val = val]]
                 ELSE stream

NamespaceOrDefault(ns) == IF ns = "" THEN "default" ELSE ns

\* Without FLOWD_API_KEYS no interceptor is installed and every call is let in.
Intercepted == limits.keys

\* The lookup table made from FLOWD_API_KEYS: a later entry of the same key
\* replaces an earlier one; no suffix, or "*" in it, lifts the restriction.
ParseAPIKeys ==
    [key \in {APIKeys[i].key : i \in DOMAIN APIKeys} |->
        LET entry == APIKeys[CHOOSE i \in DOMAIN APIKeys :
                                /\ APIKeys[i].key = key
                                /\ \A j \in DOMAIN APIKeys : APIKeys[j].key = key => j <= i]
        IN [unrestricted |-> ~entry.scoped \/ "*" \in entry.names,
            names |-> entry.names]]

Allows(scope, ns) == scope.unrestricted \/ ns \in scope.names

Authentic(m) == Intercepted => m.key \in DOMAIN ParseAPIKeys

Authorized(m) ==
    Intercepted /\ m.rpc \in Namespaced =>
        Allows(ParseAPIKeys[m.key], NamespaceOrDefault(m.ns))

\* Payloads are checked on the way in; only a start and a signal carry one.
CheckPayloadSize(m) == ~m.big

NamespaceKnown(m) == m.rpc \in Namespaced => NamespaceOrDefault(m.ns) \in namespaces

Admitted(m) == Authentic(m) /\ Authorized(m) /\ CheckPayloadSize(m) /\ NamespaceKnown(m)

\* What the interceptor, the payload check and getNamespaceID answer, in the
\* order in which they are reached.
Refuse(m) ==
    /\ ~Admitted(m)
    /\ Answer(m, CASE ~Authentic(m) -> "Unauthenticated"
                   [] Authentic(m) /\ ~Authorized(m) -> "PermissionDenied"
                   [] Authentic(m) /\ Authorized(m) /\ ~CheckPayloadSize(m) -> "InvalidArgument"
                   [] OTHER -> "NotFound", NoValue)
    /\ UNCHANGED server

-----------------------------------------------------------------------------
(* Rows                                                                    *)

Slot(m) == <<NamespaceOrDefault(m.ns), m.wf>>

\* The run a request is about: the one it names, or the current one.  A row
\* that is not there is an error without a code of its own.
TargetRun(m) ==
    IF m.run # NoRun THEN m.run
    ELSE IF Slot(m) \in DOMAIN current THEN current[Slot(m)].run ELSE NoRun

Found(m) == /\ TargetRun(m) \in DOMAIN execs
            /\ execs[TargetRun(m)].slot = Slot(m)

\* An event; `by' says which send of which client it records.
Event(type, by) == [type |-> type, by |-> by]
Nobody == << >>

\* A new workflow_executions row with its two first events and its first
\* workflow task.  `from' is continued_from_run_id, `req' the request id it
\* was created under.
NewRun(slot, req, from, by, t) ==
    [slot |-> slot, status |-> "RUNNING", start |-> t, due |-> 1,
     hist |-> <<Event("Started", by), Event("TaskScheduled", Nobody)>>,
     from |-> from, req |-> req]

\* The request id the run is created under: the client's, or a fresh one.
RequestId(m) == IF m.req = "" THEN <<m.c, m.k>> ELSE <<m.req>>

\* start_time is the clock's: the instant of the last run, or a later one.
StartTimes == LET last == IF execs = << >> THEN 0 ELSE execs[Len(execs)].start
              IN {last, last + 1} \cap 0..limits.instants

\* InsertCurrentExecution or ReplaceCurrentExecution, CreateWorkflowExecution.
Create(rows, row) ==
    /\ Len(rows) < limits.runs
    /\ execs' = Append(rows, row)
    /\ current' = Put(current, row.slot, [run |-> Len(rows) + 1, req |-> row.req])

Appended(row, events, rows) == [row EXCEPT !.hist = @ \o events, !.due = @ + rows]

-----------------------------------------------------------------------------
(* Handlers that write                                                     *)

\* Mutant: the request id of the current run is not looked at.
RecognisedNever(m) == FALSE

Recognised(m) == Slot(m) \in DOMAIN current /\ current[Slot(m)].req = RequestId(m)

AlreadyRunning(m) ==
    /\ Slot(m) \in DOMAIN current
    /\ execs[current[Slot(m)].run].status = "RUNNING"

StartReplayed(m) ==
    /\ m.rpc = "Start" /\ Admitted(m) /\ Recognised(m)
    /\ Answer(m, "OK", [NoValue EXCEPT !.run = current[Slot(m)].run])
    /\ UNCHANGED server

StartRefused(m) ==
    /\ m.rpc = "Start" /\ Admitted(m) /\ ~Recognised(m) /\ AlreadyRunning(m)
    /\ Answer(m, "AlreadyExists", NoValue)
    /\ UNCHANGED server

StartWorkflowExecution(m) ==
    /\ m.rpc = "Start" /\ Admitted(m) /\ ~Recognised(m) /\ ~AlreadyRunning(m)
    /\ \E t \in StartTimes :
         Create(execs, NewRun(Slot(m), RequestId(m), NoRun, <<m.c, m.k>>, t))
    /\ Answer(m, "OK", [NoValue EXCEPT !.run = Len(execs) + 1])
    /\ UNCHANGED namespaces

\* Signal and cancel have the same shape; neither looks at the run's status.
WakeWorkflowExecution(m, rpc, type) ==
    /\ m.rpc = rpc /\ Admitted(m) /\ Found(m)
    /\ execs' = [execs EXCEPT ![TargetRun(m)] =
                   Appended(@, <<Event(type, <<m.c, m.k>>), Event("TaskScheduled", Nobody)>>, 1)]
    /\ Answer(m, "OK", NoValue)
    /\ UNCHANGED <<namespaces, current>>

SignalWorkflowExecution(m) == WakeWorkflowExecution(m, "Signal", "Signaled")
RequestCancelWorkflowExecution(m) == WakeWorkflowExecution(m, "Cancel", "CancelRequested")

TerminateWorkflowExecution(m) ==
    /\ m.rpc = "Terminate" /\ Admitted(m) /\ Found(m)
    /\ execs' = [execs EXCEPT ![TargetRun(m)] =
                   [Appended(@, <<Event("Terminated", <<m.c, m.k>>)>>, 0)
                      EXCEPT !.status = "TERMINATED"]]
    /\ Answer(m, "OK", NoValue)
    /\ UNCHANGED <<namespaces, current>>

\* Mutant: the last conflict is swallowed.
ConflictsOutSilently(m) ==
    /\ m.rpc \in {"Signal", "Cancel", "Terminate"} /\ Admitted(m) /\ Found(m)
    /\ execs[TargetRun(m)].due > 0
    /\ Answer(m, "OK", NoValue)
    /\ UNCHANGED server

\* The run's workers won the compare-and-swap every time: five tries of a
\* signal or a cancel, one of a terminate.  Nothing is recorded.
ConflictsOut(m) ==
    /\ m.rpc \in {"Signal", "Cancel", "Terminate"} /\ Admitted(m) /\ Found(m)
    /\ execs[TargetRun(m)].due > 0
    /\ Answer(m, "Aborted", NoValue)
    /\ UNCHANGED server

\* A run or workflow that does not exist is reported as Internal.
Missing(m) ==
    /\ m.rpc \in {"Signal", "Cancel", "Terminate", "Describe"} /\ Admitted(m) /\ ~Found(m)
    /\ Answer(m, "Internal", NoValue)
    /\ UNCHANGED server

CreateNamespace(m) ==
    /\ m.rpc = "CreateNamespace" /\ Admitted(m)
    /\ namespaces' = namespaces \cup ({m.name} \ {""})
    /\ Answer(m, CASE m.name = "" -> "InvalidArgument"
                   [] m.name \in namespaces -> "AlreadyExists"
                   [] OTHER -> "OK", NoValue)
    /\ UNCHANGED <<current, execs>>

-----------------------------------------------------------------------------
(* Handlers that read                                                      *)

ListNamespaces(m) ==
    /\ m.rpc = "ListNamespaces" /\ Admitted(m)
    /\ Answer(m, "OK", [NoValue EXCEPT !.names = namespaces])
    /\ UNCHANGED server

DescribeWorkflowExecution(m) ==
    /\ m.rpc = "Describe" /\ Admitted(m) /\ Found(m)
    /\ Answer(m, "OK", [NoValue EXCEPT !.run = TargetRun(m),
                                       !.status = execs[TargetRun(m)].status])
    /\ UNCHANGED server

PageSize(m, default) == IF m.page > 0 THEN m.page ELSE default

\* Mutant: event_id >= after.
HistoryRowsFrom(hist, after, size) ==
    LET first == IF after = 0 THEN 1 ELSE after
        last  == first + size - 1
    IN SubSeq(hist, first, IF last < Len(hist) THEN last ELSE Len(hist))

\* ListHistoryEvents: the events after the token's id, at most a page of them.
HistoryRows(hist, after, size) ==
    SubSeq(hist, after + 1, IF after + size < Len(hist) THEN after + size ELSE Len(hist))

\* A run that does not exist has no events: an empty page, not an error.
\* There is a next page exactly when this one is full.
GetWorkflowExecutionHistory(m) ==
    LET size  == PageSize(m, DefaultHistoryPageSize)
        after == IF m.token = << >> THEN 0 ELSE m.token[1]
        rows  == IF m.run \in DOMAIN execs /\ execs[m.run].slot = Slot(m)
                 THEN HistoryRows(execs[m.run].hist, after, size) ELSE << >>
    IN /\ m.rpc = "GetHistory" /\ Admitted(m)
       /\ Answer(m, "OK", [NoValue EXCEPT !.events = rows,
                             !.token = IF Len(rows) = size THEN <<after + size>> ELSE << >>])
       /\ UNCHANGED server

\* The listing's sort key, compared as one row value.
SortKey(r) == <<execs[r].start, execs[r].slot[2], r>>

RowLess(a, b) ==
    \/ a[1] < b[1]
    \/ a[1] = b[1] /\ a[2] < b[2]
    \/ a[1] = b[1] /\ a[2] = b[2] /\ a[3] < b[3]

\* Mutant: start_time alone as the cursor.
BeyondCursorTime(r, token) == token = << >> \/ SortKey(r)[1] < token[1]

\* The rows after the cursor.
BeyondCursor(r, token) == token = << >> \/ RowLess(SortKey(r), token)

Matches(r, ns, filter) ==
    /\ execs[r].slot[1] = ns
    /\ filter = "" \/ execs[r].status = filter

\* The rows in the order of the listing, the latest start first.
Listed(rows) ==
    CHOOSE s \in [1..Cardinality(rows) -> rows] :
        \A i, j \in DOMAIN s : i < j => RowLess(SortKey(s[j]), SortKey(s[i]))

ListWorkflowExecutions(m) ==
    LET size == PageSize(m, DefaultListPageSize)
        hits == {r \in DOMAIN execs : /\ Matches(r, NamespaceOrDefault(m.ns), m.filter)
                                      /\ BeyondCursor(r, m.token)}
        all  == Listed(hits)
        page == SubSeq(all, 1, IF size < Len(all) THEN size ELSE Len(all))
    IN /\ m.rpc = "List" /\ Admitted(m)
       /\ Answer(m, "OK", [NoValue EXCEPT !.runs = page,
                             !.token = IF Len(page) = size THEN SortKey(page[size]) ELSE << >>])
       /\ UNCHANGED server

-----------------------------------------------------------------------------
(* What workers do to a run meanwhile: they answer its workflow tasks.  The *)
(* engine does not look at the run's status when it accepts an answer.      *)

\* A workflow task of the run is at a worker.  (The bound is on the answers
\* to a run that has ended, and to one that only schedules.)
Outstanding(r) == execs[r].due > 0
Extendable(r) == Outstanding(r) /\ Len(execs[r].hist) < limits.events

\* An answer that schedules something: a new task will follow from it.
WorkflowTaskProgress(r) ==
    /\ Extendable(r) /\ execs[r].status = "RUNNING"
    /\ execs' = [execs EXCEPT ![r] = Appended(@, <<Event("TaskCompleted", Nobody)>>, 0)]
    /\ UNCHANGED <<namespaces, current, net, stream>>

CloseBy(r, type, status) ==
    /\ Outstanding(r) /\ (execs[r].status # "RUNNING" => Extendable(r))
    /\ execs' = [execs EXCEPT ![r] = [Appended(@, <<Event(type, Nobody)>>, -1)
                                        EXCEPT !.status = status]]
    /\ UNCHANGED <<namespaces, current, net, stream>>

WorkflowCompletes(r) == CloseBy(r, "Completed", "COMPLETED")
WorkflowFails(r) == CloseBy(r, "Failed", "FAILED")

Continuable(r) ==
    /\ Outstanding(r) /\ (execs[r].status # "RUNNING" => Extendable(r))
    /\ Cardinality({x \in DOMAIN execs : execs[x].from # NoRun}) < limits.continued

ContinuedRows(r) ==
    [execs EXCEPT ![r] = [Appended(@, <<Event("ContinuedAsNew", Nobody)>>, -1)
                            EXCEPT !.status = "CONTINUED_AS_NEW"]]

\* The new run's request id is made up for it: no client can ever present it,
\* and no other run has it, although a run may continue more than once (two of
\* its tasks are answered).
ContinuedId(r) == <<"continued", r, Len(execs) + 1>>

\* Mutant: current_executions keeps the closed run.
ContinueKeepingCurrent(r) ==
    /\ Continuable(r) /\ Len(execs) < limits.runs
    /\ \E t \in StartTimes :
         execs' = Append(ContinuedRows(r), NewRun(execs[r].slot, ContinuedId(r), r, Nobody, t))
    /\ UNCHANGED <<namespaces, current, net, stream>>

ContinueWorkflowAsNew(r) ==
    /\ Continuable(r)
    /\ \E t \in StartTimes :
         Create(ContinuedRows(r), NewRun(execs[r].slot, ContinuedId(r), r, Nobody, t))
    /\ UNCHANGED <<namespaces, net, stream>>

Handle(m) ==
    \/ Refuse(m) \/ Missing(m) \/ ConflictsOut(m)
    \/ StartReplayed(m) \/ StartRefused(m) \/ StartWorkflowExecution(m)
    \/ SignalWorkflowExecution(m) \/ RequestCancelWorkflowExecution(m)
    \/ TerminateWorkflowExecution(m) \/ CreateNamespace(m) \/ ListNamespaces(m)
    \/ DescribeWorkflowExecution(m) \/ GetWorkflowExecutionHistory(m)
    \/ ListWorkflowExecutions(m)

Work(r) ==
    \/ WorkflowTaskProgress(r) \/ WorkflowCompletes(r)
    \/ WorkflowFails(r) \/ ContinueWorkflowAsNew(r)
=============================================================================
