------------------------------ MODULE ClientSDK ------------------------------
(***************************************************************************)
(* Callers of the frontend, through sdk/client: what its methods send, and  *)
(* what they make of the answers.  Each client works through a script of    *)
(* such calls (module Callers has the ones the repository's own tools       *)
(* make).  An RPC may fail with its outcome unknown (the request was lost,  *)
(* or the answer was, or the caller's deadline passed while the handler was *)
(* still at work); the caller then makes the same call again, a bounded     *)
(* number of times.                                                         *)
(***************************************************************************)
EXTENDS Frontend

CONSTANTS
    Options,    \* client.Options of each client: [ns, key]
    Scenarios,  \* what the clients may do, for each a sequence of calls, and
                \* within which limits
    MaxSends    \* how often a call is made before the caller gives up on it

\* A script is a sequence of calls; one that is about no workflow has 0 for
\* its id.
ASSUME ScenariosAssumption ==
    \A s \in Scenarios : \A c \in Client :
        /\ s.calls[c] \in Seq({s.calls[c][i] : i \in DOMAIN s.calls[c]})
        /\ \A i \in DOMAIN s.calls[c] : /\ s.calls[c][i].wf \in WorkflowId \cup {0}
                                        /\ s.calls[c][i].page \in Nat

VARIABLES
    script,     \* the script each client runs
    job,        \* each client's call in progress
    log,        \* each client's finished calls
    faults      \* calls that ended with their outcome unknown so far

vars == <<namespaces, current, execs, net, stream, limits, script, job, log, faults>>

\* A call of a script.  `run' "own" means the run whose id the client has
\* from its last start, Get or listing, "current" leaves the run id empty.
Call(do, wf, run, req) ==
    [do |-> do, wf |-> wf, run |-> run, req |-> req, big |-> FALSE,
     filter |-> "", page |-> 0, name |-> ""]

\* What the SDK keeps during a call: the run Get describes next, the events
\* or runs of the pages so far, the token of the next page; and, for the
\* properties, what existed when the first page was asked for.
NewJob(n, handle) ==
    [at |-> n, sends |-> 0, stage |-> "describe", run |-> handle, settled |-> NoRun,
     status |-> "", got |-> << >>, token |-> << >>, was |-> {}, handle |-> handle]

Doing(c) == script[c][job[c].at]
Busy(c) == job[c].at \in DOMAIN script[c]
May(c, do) == Busy(c) /\ stream[c].st = "closed" /\ Doing(c).do \in do

-----------------------------------------------------------------------------
(* Sending                                                                 *)

\* The request of a call on the generated stub.  Reads are numbered only as
\* far as late answers must be told apart.
Outgoing(c, rpc) ==
    LET late == \E m \in net : m.c = c /\ m.k = stream[c].k
        k == IF rpc \in {"Describe", "GetHistory", "List"} /\ ~late
             THEN stream[c].k ELSE stream[c].k + 1
    IN Request(c, k, rpc, Options[c])

\* Invoke: a new stream, a new request on the wire.
Send(c, m) ==
    /\ net' = net \cup {m}
    /\ stream' = [stream EXCEPT ![c] = [@ EXCEPT !.k = m.k, !.st = "open"]]
    /\ UNCHANGED <<namespaces, current, execs, limits, script, log, faults>>

RunOf(c) == IF Doing(c).run = "own" THEN job[c].handle ELSE NoRun

Sent(c) == job' = [job EXCEPT ![c].sends = @ + 1]

StartWorkflow(c) ==
    /\ May(c, {"start"})
    /\ Send(c, [Outgoing(c, "Start") EXCEPT !.wf = Doing(c).wf, !.req = Doing(c).req,
                                             !.big = Doing(c).big])
    /\ Sent(c)

SignalWorkflow(c) ==
    /\ May(c, {"signal"})
    /\ Send(c, [Outgoing(c, "Signal") EXCEPT !.wf = Doing(c).wf, !.run = RunOf(c),
                                              !.big = Doing(c).big])
    /\ Sent(c)

CancelWorkflow(c) ==
    /\ May(c, {"cancel"})
    /\ Send(c, [Outgoing(c, "Cancel") EXCEPT !.wf = Doing(c).wf, !.run = RunOf(c)])
    /\ Sent(c)

TerminateWorkflow(c) ==
    /\ May(c, {"terminate"})
    /\ Send(c, [Outgoing(c, "Terminate") EXCEPT !.wf = Doing(c).wf, !.run = RunOf(c)])
    /\ Sent(c)

CreateNamespaceCall(c) ==
    /\ May(c, {"create"})
    /\ Send(c, [Outgoing(c, "CreateNamespace") EXCEPT !.name = Doing(c).name])
    /\ Sent(c)

ListNamespacesCall(c) ==
    /\ May(c, {"namespaces"})
    /\ Send(c, Outgoing(c, "ListNamespaces"))
    /\ Sent(c)

\* DescribeWorkflow, on its own or as one turn of Get's loop.
DescribeWorkflow(c) ==
    /\ May(c, {"describe", "get"}) /\ job[c].stage = "describe"
    /\ Send(c, [Outgoing(c, "Describe") EXCEPT !.wf = Doing(c).wf,
                 !.run = IF Doing(c).do = "get" THEN job[c].run ELSE RunOf(c)])
    /\ UNCHANGED job

\* One page of GetWorkflowHistory; Get's fetchResult reads the run it settled
\* on.  The page size is left to the server.
HistoryRun(c) == IF Doing(c).do = "get" THEN job[c].settled ELSE RunOf(c)

\* The events a call reads: none, if it names a run of another workflow.
HistoryOf(c, r) ==
    IF r \in DOMAIN execs
       /\ execs[r].slot = <<NamespaceOrDefault(Options[c].ns), Doing(c).wf>>
    THEN execs[r].hist ELSE << >>

GetWorkflowHistory(c) ==
    /\ May(c, {"history", "get"}) /\ (Doing(c).do = "get" => job[c].stage = "fetch")
    /\ Send(c, [Outgoing(c, "GetHistory") EXCEPT !.wf = Doing(c).wf, !.run = HistoryRun(c),
                                                  !.token = job[c].token])
    /\ job' = [job EXCEPT ![c].was = IF job[c].token = << >>
                                     THEN DOMAIN HistoryOf(c, HistoryRun(c)) ELSE @]

\* How often, and where in its history, a run was closed so far: a closed run
\* may be closed again, and change its status with that.
ClosingEvents == {"Completed", "Failed", "Terminated", "ContinuedAsNew"}
Closings(r) == {i \in DOMAIN execs[r].hist : execs[r].hist[i].type \in ClosingEvents}

\* The runs a listing is about to list.
Listable(c) ==
    {[run |-> r, closings |-> Closings(r)] :
        r \in {x \in DOMAIN execs :
                 Matches(x, NamespaceOrDefault(Options[c].ns), Doing(c).filter)}}

\* One page of a listing, which the caller pages through by hand.
ListWorkflows(c) ==
    /\ May(c, {"list"})
    /\ Send(c, [Outgoing(c, "List") EXCEPT !.filter = Doing(c).filter, !.page = Doing(c).page,
                                            !.token = job[c].token])
    /\ job' = [job EXCEPT ![c].was = IF job[c].token = << >> THEN Listable(c) ELSE @]

-----------------------------------------------------------------------------
(* Returning                                                               *)

Back(c, do) == Busy(c) /\ stream[c].st = "answered" /\ Doing(c).do \in do
Answered(c) == stream[c].code
Closed(c) == stream' = [stream EXCEPT ![c] = [@ EXCEPT !.st = "closed", !.code = "",
                                                       !.val = NoValue]]

\* The outcome is unknown to a caller whose RPC failed underway.
Unknown(c) == Answered(c) = "Unavailable"

Rest == UNCHANGED <<namespaces, current, execs, net, limits, script, faults>>

\* A caller without a run id leaves out what it would need one for, and what
\* was to follow.
NextCall(c, n, handle) ==
    IF n \in DOMAIN script[c] /\ script[c][n].run = "own" /\ handle = NoRun
    THEN Len(script[c]) + 1 ELSE n

\* The call returns to the program, which goes on to its next one.
Finish(c, code, j, handle) ==
    /\ log' = [log EXCEPT ![c] = Append(@, [code |-> code, sends |-> j.sends,
                 handle |-> j.handle, run |-> j.settled, status |-> j.status,
                 got |-> j.got, was |-> j.was, k |-> stream[c].k])]
    /\ job' = [job EXCEPT ![c] = NewJob(NextCall(c, j.at + 1, handle), handle)]
    /\ Closed(c) /\ Rest

Continue(c, j) == /\ job' = [job EXCEPT ![c] = j]
                  /\ UNCHANGED log /\ Closed(c) /\ Rest

\* The single-RPC calls hand the answer on as it is.
CallReturns(c) ==
    /\ Back(c, {"start", "signal", "cancel", "terminate", "create", "namespaces", "describe"})
    /\ ~Unknown(c)
    /\ Finish(c, Answered(c), [job[c] EXCEPT !.settled = stream[c].val.run],
              IF Doing(c).do = "start" /\ Answered(c) = "OK" THEN stream[c].val.run
                                                             ELSE job[c].handle)

\* Mutant: a run that continued as new is taken for an outcome.
UnsuccessfulOrContinued == {"FAILED", "TERMINATED", "TIMED_OUT", "CONTINUED_AS_NEW"}

Unsuccessful == {"FAILED", "TERMINATED", "TIMED_OUT"}

\* Get, after a Describe: wait on, follow a continuation, or settle.
GetDescribed(c) ==
    LET v == stream[c].val
        settled == [job[c] EXCEPT !.settled = v.run, !.status = v.status]
    IN /\ Back(c, {"get"}) /\ job[c].stage = "describe" /\ Answered(c) = "OK"
       /\ \/ /\ v.status = "COMPLETED"
             /\ Continue(c, [settled EXCEPT !.stage = "fetch"])
          \/ /\ v.status \in Unsuccessful
             /\ Finish(c, "Unsuccessful", settled, v.run)
          \/ /\ v.status = "CONTINUED_AS_NEW"
             /\ Continue(c, [job[c] EXCEPT !.run = NoRun])
          \/ /\ v.status = "RUNNING"
             /\ Continue(c, [job[c] EXCEPT !.run = v.run])

\* GetWorkflowHistory's loop, and fetchResult's search for the result.
HasResult(events) == \E i \in DOMAIN events : events[i].type = "Completed"

LastPage(c) == stream[c].val.token = << >>

HistoryPaged(c) ==
    LET j == [job[c] EXCEPT !.got = @ \o stream[c].val.events, !.token = stream[c].val.token]
    IN /\ Back(c, {"history", "get"}) /\ (Doing(c).do = "get" => job[c].stage = "fetch")
       /\ Answered(c) = "OK"
       /\ \/ ~LastPage(c) /\ Continue(c, j)
          \/ /\ LastPage(c)
             /\ Finish(c, IF Doing(c).do = "get" /\ ~HasResult(j.got) THEN "NoResult" ELSE "OK",
                       j, IF Doing(c).do = "get" THEN j.settled ELSE j.handle)

ListPaged(c) ==
    LET j == [job[c] EXCEPT !.got = @ \o stream[c].val.runs, !.token = stream[c].val.token]
    IN /\ Back(c, {"list"}) /\ Answered(c) = "OK"
       /\ \/ ~LastPage(c) /\ Continue(c, j)
          \/ LastPage(c) /\ Finish(c, "OK", j, IF j.got = << >> THEN j.handle ELSE Last(j.got))

\* Any other code ends a call of several RPCs too.
CallFails(c) ==
    /\ Back(c, {"get", "history", "list"}) /\ Answered(c) # "OK" /\ ~Unknown(c)
    /\ Finish(c, Answered(c), job[c], job[c].handle)

\* Outcome unknown: the caller makes the call again, from its beginning (a
\* listing from the page it was at), or leaves it at that.
CallAgain(c) ==
    /\ Back(c, {Doing(c).do}) /\ Unknown(c)
    /\ LET sends == IF Doing(c).do \in {"get", "history", "list", "describe"}
                    THEN job[c].sends + 1 ELSE job[c].sends
           anew  == [NewJob(job[c].at, job[c].handle) EXCEPT !.sends = sends]
       IN \/ /\ sends < MaxSends
             /\ Continue(c, IF Doing(c).do = "list" THEN [job[c] EXCEPT !.sends = sends] ELSE anew)
          \/ /\ sends >= MaxSends
             /\ Finish(c, "Unavailable", job[c], job[c].handle)

-----------------------------------------------------------------------------
(* The network                                                             *)

\* The call ends for its caller (deadline, broken connection) while the
\* request may still be on its way, or its handler at work.
OutcomeUnknown(c) ==
    /\ stream[c].st = "open" /\ faults < limits.faults
    /\ stream' = [stream EXCEPT ![c] = [@ EXCEPT !.st = "answered", !.code = "Unavailable",
                                                 !.val = NoValue]]
    /\ faults' = faults + 1
    /\ UNCHANGED <<namespaces, current, execs, net, limits, script, job, log>>

\* A request nobody waits for any more may also never arrive.
RequestLost(m) ==
    /\ m \in net /\ (stream[m.c].k # m.k \/ stream[m.c].st # "open")
    /\ net' = net \ {m}
    /\ UNCHANGED <<namespaces, current, execs, stream, limits, script, job, log, faults>>

Invoke(c) ==
    \/ StartWorkflow(c) \/ SignalWorkflow(c) \/ CancelWorkflow(c) \/ TerminateWorkflow(c)
    \/ CreateNamespaceCall(c) \/ ListNamespacesCall(c) \/ DescribeWorkflow(c)
    \/ GetWorkflowHistory(c) \/ ListWorkflows(c)

Return(c) ==
    \/ CallReturns(c) \/ GetDescribed(c) \/ HistoryPaged(c) \/ ListPaged(c)
    \/ CallFails(c) \/ CallAgain(c)

Serve(m) == Handle(m) /\ UNCHANGED <<limits, script, job, log, faults>>
Worker(r) == Work(r) /\ UNCHANGED <<limits, script, job, log, faults>>

\* Every client is back from its last call and no request is left.
Done == /\ \A c \in Client : ~Busy(c)
        /\ net = {}
        /\ UNCHANGED vars

Init ==
    /\ namespaces = {"default"}
    /\ current = << >> /\ execs = << >>
    /\ net = {}
    /\ stream = [c \in Client |-> [k |-> 0, st |-> "closed", code |-> "", val |-> NoValue]]
    /\ \E s \in Scenarios : script = s.calls /\ limits = s.limits
    /\ job = [c \in Client |-> NewJob(1, NoRun)]
    /\ log = [c \in Client |-> << >>]
    /\ faults = 0

Next ==
    \/ \E c \in Client : Invoke(c) \/ Return(c) \/ OutcomeUnknown(c)
    \/ \E m \in net : Serve(m) \/ RequestLost(m)
    \/ \E r \in DOMAIN execs : Worker(r)
    \/ Done

Spec == Init /\ [][Next]_vars

\* Handlers run, callers run, and workers bring their runs to an end; no
\* fairness for the network's faults, the clock, or the workers' choice to
\* continue as new.
Finishes(r) == /\ execs[r].status = "RUNNING"
               /\ WorkflowCompletes(r) \/ WorkflowFails(r)
               /\ UNCHANGED <<limits, script, job, log, faults>>

FairSpec ==
    /\ Spec
    /\ WF_vars(\E m \in net : Serve(m))
    /\ WF_vars(\E c \in Client : Invoke(c) \/ Return(c))
    /\ WF_vars(\E r \in DOMAIN execs : Finishes(r))

-----------------------------------------------------------------------------
(* Properties                                                              *)

Logged(c, do) == {i \in DOMAIN log[c] : script[c][i].do = do}

\* A start that is made again under its request id (start.go:64) creates a
\* second run only after another run has taken the workflow over in between,
\* by a start under another id or by continuing as new: that is when
\* current_executions forgets the id.  Two runs created under one id are
\* never neighbours in the workflow's sequence of runs.
StartedOnce ==
    \A r, s \in DOMAIN execs :
        /\ r < s
        /\ execs[r].slot = execs[s].slot /\ execs[r].req = execs[s].req
        => \E x \in (r + 1)..(s - 1) : /\ execs[x].slot = execs[r].slot
                                       /\ execs[x].req # execs[r].req

\* Every send of a signal is recorded at most once, in one run; a signal that
\* was acknowledged is recorded, and one that was refused is not, however
\* late the handlers of its earlier sends run (signal.go:28: a repeated
\* signal is recorded once per send that arrives).
Records(c, k) ==
    UNION {{<<r, i>> : i \in {n \in DOMAIN execs[r].hist : execs[r].hist[n].by = <<c, k>>}} :
             r \in DOMAIN execs}

SignalsAccounted ==
    \A c \in Client :
        /\ \A k \in 1..stream[c].k : Cardinality(Records(c, k)) <= 1
        /\ \A i \in Logged(c, "signal") \cup Logged(c, "cancel") \cup Logged(c, "terminate") :
             LET at == Records(c, log[c][i].k) IN
             /\ log[c][i].code = "OK" => at # {}
             /\ log[c][i].code \notin {"OK", "Unavailable"} => at = {}

\* The run, the one it continues, the one that continues, and so on.
Ancestor(r) ==
    LET up[n \in 0..Len(execs)] ==
          IF n = 0 THEN r
          ELSE IF up[n - 1] = NoRun THEN NoRun ELSE execs[up[n - 1]].from
    IN {up[n] : n \in 0..Len(execs)}

\* The run is not the continuation of its workflow's run before it: a start
\* made it, or a run that was not the current one any more continued as new.
TookOver(x) ==
    \A y \in 1..(x - 1) :
        execs[y].slot = execs[x].slot /\ execs[x].from = y
            => \E z \in (y + 1)..(x - 1) : execs[z].slot = execs[x].slot

\* Get (client.go:198) ends on a run of its own chain of continuations, or on
\* one that has come after a run that took the workflow over; the run had
\* ended, and not by continuing; and a completed run's result is found in the
\* pages.
GetSettles ==
    \A c \in Client : \A i \in Logged(c, "get") :
        LET e == log[c][i] IN
        /\ e.code # "NoResult"
        /\ e.code \in {"OK", "Unsuccessful"} =>
             /\ execs[e.run].status # "RUNNING" /\ e.status # "CONTINUED_AS_NEW"
             /\ \/ e.handle \in Ancestor(e.run)
                \/ \E x \in (e.handle + 1)..e.run :
                     execs[x].slot = execs[e.run].slot /\ TookOver(x)

\* GetWorkflowHistory returns a prefix of the run's history, each event once
\* and in order, that has at least the events there were when it was called,
\* while signals and task answers extend the history between its pages
\* (query.go:16).
HistoryReadWhole ==
    \A c \in Client : \A i \in Logged(c, "history") :
        LET e == log[c][i]
            h == IF e.handle \in DOMAIN execs THEN execs[e.handle].hist ELSE << >>
        IN e.code = "OK" => /\ IsPrefix(e.got, h)
                            /\ e.was \subseteq DOMAIN e.got

\* A listing that is paged to its end (list.go:45) shows no run twice, and
\* shows every run that was there when its first page was asked for and that
\* matched its filter ever since, although runs start, at the same instant
\* too, and close between the pages.
ListedOnce ==
    \A c \in Client : \A i \in Logged(c, "list") :
        LET e == log[c][i] IN
        e.code = "OK" =>
             /\ \A a, b \in DOMAIN e.got : e.got[a] = e.got[b] => a = b
             /\ \A w \in e.was :
                  script[c][i].filter = "" \/ Closings(w.run) = w.closings
                     => \E a \in DOMAIN e.got : e.got[a] = w.run

\* Every Get returns: its loop never turns on a run that has continued as new
\* and is still the current one, and never waits for a run that cannot end.
Getting(c) == Busy(c) /\ Doing(c).do = "get"

GetReturns == \A c \in Client : Getting(c) ~> ~Getting(c)
=============================================================================
