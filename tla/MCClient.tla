------------------------------ MODULE MCClient ------------------------------
(***************************************************************************)
(* A program, an operator with flow-cli, and the web UI's backend, for TLC. *)
(***************************************************************************)
EXTENDS Callers

Tools == {"app", "ops", "web"}

Keys == <<[key |-> "admin", scoped |-> FALSE, names |-> {}],
          [key |-> "ops", scoped |-> TRUE, names |-> {"default"}]>>

Dialled == [app |-> [ns |-> "default", key |-> "admin"], ops |-> cliOptions("ops"),
            web |-> webUIClient]

Waits == <<StartAs(1, "req"), Own("get", 1)>>
Terminate == Current("terminate", 1)

\* runs, continuations, history length, instants, faults
Within(r, n, e, t, f) ==
    [runs |-> r, continued |-> n, events |-> e, instants |-> t, faults |-> f, keys |-> TRUE]
Open(within) == [within EXCEPT !.keys = FALSE]

Session(app, ops, web, within) ==
    [calls |-> [app |-> app, ops |-> ops, web |-> web], limits |-> within]

None == << >>

Sessions ==
    {Session(Waits, <<cmdSignal(1)>>, None, Within(3, 1, 2, 0, 1)),
     Session(<<StartAs(1, "req")>>, <<cmdSignal(1)>>, None, Within(3, 2, 6, 0, 0)),
     Session(Waits, <<Terminate>>, None, Within(3, 1, 3, 0, 1)),
     Session(Waits, <<cmdStart(1, FALSE)>>, None, Within(4, 1, 2, 0, 1)),
     Session(starter(1), None, <<handleListWorkflows("", 1), handleDescribeWorkflow(1),
                                 handleGetWorkflowHistory(1)>>, Open(Within(2, 1, 3, 0, 0))),
     Session(<<StartAs(1, "req"), Own("history", 1)>>, <<cmdCancel(1)>>, None, Within(2, 0, 3, 0, 1)),
     Session(None, <<cmdStart(1, FALSE), cmdHistory(1)>>, None, Within(2, 0, 4, 0, 1)),
     Session(<<StartAs(1, ""), StartAs(2, "")>>, <<cmdList("", 1)>>, None, Within(3, 0, 2, 1, 0)),
     Session(<<StartAs(2, ""), StartAs(1, "")>>, <<cmdList("running", 1)>>, None, Within(4, 1, 2, 1, 0)),
     Session(<<cmdNamespaceCreate("billing"), cmdNamespaceList>>,
             <<cmdStart(1, TRUE), cmdDescribe(1), cmdNamespaceCreate("billing")>>,
             <<handleListNamespaces, handleListWorkflows("", 1)>>, Within(1, 0, 2, 0, 1))}

InstanceLimits == {s.limits : s \in Sessions}
=============================================================================
