------------------------------- MODULE MCFlowd -------------------------------
(* Instances of FlowdEngine for TLC: workflow programs and client calls.   *)
EXTENDS FlowdEngine, TLC
Code == INSTANCE WorkflowCode

CONSTANTS w1, w2, p1, p2

Rpc(op, id, target, req) == [op |-> op, id |-> id, target |-> target, req |-> req]

(* A worker's answers to a task, less the activity types.                  *)
Answers(prog, h) ==
    {[i \in DOMAIN cmds |-> [kind |-> cmds[i].kind, id |-> cmds[i].id]] :
        cmds \in Code!Replay(prog, h)}

Events(h, types) == {i \in DOMAIN h : h[i].type \in types}
Cmd(kind, id) == [kind |-> kind, id |-> id]

(* SimpleWorkflow, written out: TLC evaluates Decide again and again to    *)
(* find out which fairness conditions are enabled.                         *)
DecideSimple(h) ==
    LET outs == Events(h, {"ActivityTaskCompleted", "ActivityTaskFailed"})
        last == CHOOSE i \in outs : \A j \in outs : j <= i
    IN  IF Events(h, {"ActivityTaskScheduled"}) = {}
        THEN {<<Cmd("ScheduleActivityTask", 1)>>}
        ELSE IF outs = {} THEN {<<>>}
        ELSE IF h[last].type = "ActivityTaskCompleted"
        THEN {<<Cmd("CompleteWorkflowExecution", 0)>>}
        ELSE {<<Cmd("FailWorkflowExecution", 0)>>}

(* A timer, then complete.                                                 *)
OneTimer == << <<Code!Instr("sleep", 0), Code!Instr("complete", 0)>> >>
DecideOneTimer(h) ==
    IF Events(h, {"TimerStarted"}) = {} THEN {<<Cmd("StartTimer", 1)>>}
    ELSE IF Events(h, {"TimerFired"}) = {} THEN {<<>>}
    ELSE {<<Cmd("CompleteWorkflowExecution", 0)>>}

(* Both agree with the interpreter on the histories of up to six events in *)
(* which an outcome follows its schedule event.                            *)
Sound(h, sched, outs) ==
    \A i \in Events(h, outs) : \E j \in Events(h, {sched}) : j < i
Histories(types) ==
    UNION {[1 .. n -> {Ev(t, IF t = "WorkflowTaskStarted" THEN 0 ELSE 1, 0) : t \in types}] :
              n \in 0 .. 6}

ASSUME WrittenOutAgrees ==
    /\ \A h \in Histories({"WorkflowTaskStarted", "ActivityTaskScheduled",
                           "ActivityTaskCompleted", "ActivityTaskFailed"}) :
          Sound(h, "ActivityTaskScheduled",
                {"ActivityTaskCompleted", "ActivityTaskFailed"})
          => DecideSimple(h) = Answers(Code!SimpleWorkflow, h)
    /\ \A h \in Histories({"WorkflowTaskStarted", "TimerStarted", "TimerFired"}) :
          Sound(h, "TimerStarted", {"TimerFired"})
          => DecideOneTimer(h) = Answers(OneTimer, h)

(* Continue as new once; the continued run fails at once.                  *)
ContinueOnce(h) ==
    IF h[1].ref = NoRun THEN << <<Code!Instr("continue", 0)>> >>
    ELSE << <<Code!Instr("fail", 0)>> >>
DecideContinueOnce(h) == Answers(ContinueOnce(h), h)

(* Client calls: a target of 0 means the current run.                      *)
StartOnly == {Rpc("Start", 1, 0, 1)}
StartTwice == {Rpc("Start", 1, 0, 1), Rpc("Start", 2, 0, 1)}
StartTerminate == StartOnly \cup {Rpc("Terminate", 2, 0, 1)}
StartSignal == StartOnly \cup {Rpc("Signal", 2, 0, 1)}
StartCancel == StartOnly \cup {Rpc("Cancel", 2, 1, 1)}
StartsAndTerminate ==
    StartOnly \cup {Rpc("Terminate", 2, 0, 1), Rpc("Start", 3, 0, 2)}
AllCalls == StartsAndTerminate \cup {Rpc("Signal", 4, 0, 1)}

SymProc == Permutations({p1, p2})
=============================================================================
