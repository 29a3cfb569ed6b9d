------------------------------- MODULE Callers -------------------------------
(***************************************************************************)
(* The tools of the repository as clients of sdk/client: the calls that     *)
(* flow-cli's subcommands, the web UI's backend and the examples' starters  *)
(* make, and what each dials with.  Nobody but a program of its own gives   *)
(* StartWorkflow a request id.                                              *)
(***************************************************************************)
EXTENDS ClientSDK

Current(do, wf) == Call(do, wf, "current", "")
Own(do, wf) == Call(do, wf, "own", "")

\* A program that names its request, and then waits for the workflow.
StartAs(wf, req) == Call("start", wf, "current", req)

\* The starters of examples/: no API key, no request id.
starter(wf) == <<Current("start", wf), Own("get", wf)>>

-----------------------------------------------------------------------------
(* flow-cli: one call per invocation, the namespace left to the server.  A  *)
(* run id it is given is one that its start has printed.                    *)

cliOptions(key) == [ns |-> "", key |-> key]

cmdStart(wf, large) == [Current("start", wf) EXCEPT !.big = large]
cmdSignal(wf) == Current("signal", wf)
cmdCancel(wf) == Current("cancel", wf)
cmdDescribe(wf) == Current("describe", wf)
cmdHistory(wf) == Own("history", wf)
cmdNamespaceCreate(name) == [Current("create", 0) EXCEPT !.name = name]
cmdNamespaceList == Current("namespaces", 0)

\* -status, in any case: nothing for every status; an unknown one ends the
\* command before it has called the server.
StatusFlag ==
    [flag \in {"", "running", "completed", "failed", "terminated", "timed_out", "continued_as_new"} |->
        CASE flag = "" -> ""
          [] flag = "running" -> "RUNNING"
          [] flag = "completed" -> "COMPLETED"
          [] flag = "failed" -> "FAILED"
          [] flag = "terminated" -> "TERMINATED"
          [] flag = "timed_out" -> "TIMED_OUT"
          [] flag = "continued_as_new" -> "CONTINUED_AS_NEW"]

\* The user pages on with the token the last invocation printed.
cmdList(flag, size) == [Current("list", 0) EXCEPT !.filter = StatusFlag[flag], !.page = size]

-----------------------------------------------------------------------------
(* The web UI's backend: reads only, with the server's loopback client,     *)
(* which has no API key whatever FLOWD_API_KEYS says.                       *)

webUIClient == [ns |-> "", key |-> ""]

handleListNamespaces == Current("namespaces", 0)
handleListWorkflows(flag, size) == [Current("list", 0) EXCEPT !.filter = StatusFlag[flag], !.page = size]
handleDescribeWorkflow(wf) == Own("describe", wf)
handleGetWorkflowHistory(wf) == Own("history", wf)
=============================================================================
