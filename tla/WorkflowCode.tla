---------------------------- MODULE WorkflowCode ----------------------------
(***************************************************************************)
(* What a worker makes of a run's history: a workflow function and the     *)
(* coroutines it starts, run by the cooperative dispatcher over the state  *)
(* of an Execution (sdk/internal/replayer, sdk/workflow).                  *)
(*                                                                         *)
(* A program is a sequence of coroutine bodies, body 1 being the workflow  *)
(* function; a body is a sequence of instructions:                         *)
(*   activity t    ExecuteActivity of type t                               *)
(*   get n         Get on the n-th future this coroutine obtained; a       *)
(*                 failed activity makes the function return its error     *)
(*   sleep         Sleep: start a timer and wait for it                    *)
(*   go b          Go: start a coroutine with body b                       *)
(*   handle        SetSignalHandler, with a handler that counts signals    *)
(*   onsignal n    go on at instruction n if a signal has been handled     *)
(*   oncancel n    go on at instruction n if IsCancelRequested             *)
(*   complete, fail, continue   the function's ways of returning           *)
(* Get and Sleep are the only ones that block.  A loop is written out: one *)
(* goes on further down only.                                              *)
(***************************************************************************)
EXTENDS Naturals, Sequences

Instr(op, arg) == [op |-> op, arg |-> arg]

Return == {"complete", "fail", "continue"}
Instruction ==
    [op : {"activity", "get", "sleep", "go", "handle", "onsignal", "oncancel"}
          \cup Return, arg : Nat]

IsProgram(prog) ==
    /\ prog \in Seq(Seq(Instruction)) /\ prog # << >>
    /\ \A b \in DOMAIN prog : \A n \in DOMAIN prog[b] :
          LET i == prog[b][n] IN
          /\ i.op = "go" => i.arg \in DOMAIN prog
          /\ i.op \in {"onsignal", "oncancel"} => i.arg > n

Put(f, k, v) == [x \in DOMAIN f \cup {k} |-> IF x = k THEN v ELSE f[x]]

-----------------------------------------------------------------------------
(* The dispatcher.                                                         *)

Pump == 0   \* the body of the signal pump

(* Dispatcher.Go: the coroutine is listed, and waits to be resumed.        *)
Coroutine(body) ==
    [body |-> body, pc |-> 1, futures |-> <<>>, timer |-> 0, done |-> FALSE]

Go(e, body) == [e EXCEPT !.co = Append(@, Coroutine(body))]

NewExecution ==
    [co |-> <<>>,
     scheduledActivities |-> <<>>, scheduledTimers |-> <<>>,
     outcomes |-> <<>>, fired |-> {},
     nextActivity |-> 0, nextTimer |-> 0,
     cancelRequested |-> FALSE,
     handler |-> FALSE, pump |-> FALSE, pendingSignals |-> 0, handled |-> 0,
     commands |-> <<>>, returned |-> FALSE, panicked |-> FALSE]

-----------------------------------------------------------------------------
(* What history tells an Execution.                                        *)

(* Outcomes, requests and signals: all a parked coroutine can wait for.    *)
Observe(e, ev) ==
    CASE ev.type = "ActivityTaskCompleted" ->
            [e EXCEPT !.outcomes = Put(@, ev.id, "result")]
      [] ev.type = "ActivityTaskFailed" ->
            [e EXCEPT !.outcomes = Put(@, ev.id, "failure")]
      [] ev.type = "TimerFired" -> [e EXCEPT !.fired = @ \cup {ev.id}]
      [] ev.type = "WorkflowExecutionCancelRequested" ->
            [e EXCEPT !.cancelRequested = TRUE]
      [] ev.type = "WorkflowExecutionSignaled" ->
            [e EXCEPT !.pendingSignals = @ + 1]
      [] OTHER -> e

(* A fresh Execution also learns what was scheduled before.                *)
Scan(e, ev) ==
    CASE ev.type = "ActivityTaskScheduled" ->
            [e EXCEPT !.scheduledActivities =
                Append(@, [id |-> ev.id, type |-> ev.ref])]
      [] ev.type = "TimerStarted" ->
            [e EXCEPT !.scheduledTimers = Append(@, ev.id)]
      [] OTHER -> Observe(e, ev)

LoadHistory(e, events) ==
    LET load[n \in 0 .. Len(events)] ==
            IF n = 0 THEN e ELSE Scan(load[n - 1], events[n])
    IN  load[Len(events)]

LoadNewEvents(e, events) ==
    LET load[n \in 0 .. Len(events)] ==
            IF n = 0 THEN e ELSE Observe(load[n - 1], events[n])
    IN  load[Len(events)]

(* Mutant: the commands of the rounds before stay in NewCommands.          *)
ResetOutcomeOnly(e) == [e EXCEPT !.returned = FALSE]

ResetRoundOutput(e) == [e EXCEPT !.commands = <<>>, !.returned = FALSE]

-----------------------------------------------------------------------------
(* The primitives a coroutine k calls.                                     *)

Command(kind, id, type) == [kind |-> kind, id |-> id, type |-> type]

Emit(e, c) == [e EXCEPT !.commands = Append(@, c)]

Panic(e, k) == [e EXCEPT !.panicked = TRUE, !.co[k].done = TRUE]

(* Mutant: the record is compared with the index, not the id.              *)
ScheduleActivityOffByOne(e, k, type) ==
    LET id == e.nextActivity + 1
        f == [e EXCEPT !.nextActivity = id, !.co[k].futures = Append(@, id)]
    IN  IF id <= Len(e.scheduledActivities)
        THEN IF e.scheduledActivities[id] = [id |-> e.nextActivity, type |-> type]
             THEN f ELSE Panic(f, k)
        ELSE Emit(f, Command("ScheduleActivityTask", id, type))

(* The n-th call gets number n.  A call that history has recorded must     *)
(* agree with the record and emits nothing.                                *)
ScheduleActivity(e, k, type) ==
    LET id == e.nextActivity + 1
        f == [e EXCEPT !.nextActivity = id, !.co[k].futures = Append(@, id)]
    IN  IF id <= Len(e.scheduledActivities)
        THEN IF e.scheduledActivities[id] = [id |-> id, type |-> type]
             THEN f ELSE Panic(f, k)
        ELSE Emit(f, Command("ScheduleActivityTask", id, type))

ScheduleTimer(e, k) ==
    LET id == e.nextTimer + 1
        f == [e EXCEPT !.nextTimer = id, !.co[k].timer = id]
    IN  IF id <= Len(e.scheduledTimers)
        THEN IF e.scheduledTimers[id] = id THEN f ELSE Panic(f, k)
        ELSE Emit(f, Command("StartTimer", id, 0))

(* Mutant: delivered signals stay in the backlog.                          *)
DrainKeepingBacklog(e) ==
    IF e.handler THEN [e EXCEPT !.handled = @ + e.pendingSignals] ELSE e

DrainSignals(e) ==
    IF e.handler
    THEN [e EXCEPT !.handled = @ + e.pendingSignals, !.pendingSignals = 0]
    ELSE e

(* The backlog is delivered at once, later signals by the pump coroutine.  *)
SetSignalHandler(e) ==
    LET d == DrainSignals([e EXCEPT !.handler = TRUE])
    IN  IF d.pump THEN d ELSE Go([d EXCEPT !.pump = TRUE], Pump)

ReturnKind ==
    [complete |-> "CompleteWorkflowExecution", fail |-> "FailWorkflowExecution",
     continue |-> "ContinueAsNewWorkflowExecution"]

(* runWorkflowFunc after the function returned: Complete or ContinueAsNew. *)
(* A coroutine started with Go just ends.                                  *)
Finish(e, k, how) ==
    LET f == [e EXCEPT !.co[k].done = TRUE]
    IN  IF e.co[k].body # 1 THEN f
        ELSE Emit([f EXCEPT !.returned = TRUE], Command(ReturnKind[how], 0, 0))

-----------------------------------------------------------------------------
(* A coroutine and its instructions.                                       *)

(* It has ended, or what it waits for has not come.                        *)
Parked(prog, e, k) ==
    LET c == e.co[k]
        i == prog[c.body][c.pc]
    IN  \/ c.done
        \/ /\ c.pc <= Len(prog[c.body])
           /\ \/ i.op = "get" /\ c.futures[i.arg] \notin DOMAIN e.outcomes
              \/ i.op = "sleep" /\ c.timer # 0 /\ c.timer \notin e.fired

(* One instruction; a Sleep is two, starting the timer and going on.       *)
Step(prog, e, k) ==
    LET c == e.co[k]
        i == prog[c.body][c.pc]
        next == [e EXCEPT !.co[k].pc = @ + 1]
        Jump(taken) == IF taken THEN [e EXCEPT !.co[k].pc = i.arg] ELSE next
    IN  IF c.pc > Len(prog[c.body]) THEN Finish(e, k, "complete")
        ELSE CASE i.op = "activity" -> ScheduleActivity(next, k, i.arg)
               [] i.op = "get" -> IF e.outcomes[c.futures[i.arg]] = "failure"
                                  THEN Finish(e, k, "fail") ELSE next
               [] i.op = "sleep" -> IF c.timer = 0 THEN ScheduleTimer(e, k)
                                    ELSE [next EXCEPT !.co[k].timer = 0]
               [] i.op = "go" -> Go(next, i.arg)
               [] i.op = "handle" -> SetSignalHandler(next)
               [] i.op = "onsignal" -> Jump(e.handled > 0)
               [] i.op = "oncancel" -> Jump(e.cancelRequested)
               [] OTHER -> Finish(e, k, i.op)

(* A resumed coroutine runs until it yields, returns or panics: as it only *)
(* goes forward, in no more steps than these.                              *)
Resume(prog, e, k) ==
    LET most == 2 * Len(prog[e.co[k].body]) + 1
        run[n \in 0 .. most] ==
            IF n = 0 THEN e
            ELSE LET f == run[n - 1]
                 IN  IF Parked(prog, f, k) THEN f ELSE Step(prog, f, k)
    IN  IF e.co[k].body = Pump THEN DrainSignals(e) ELSE run[most]

(* Every coroutine listed when the round begins is resumed once, in order  *)
(* of creation; one that is started meanwhile waits for the next round.    *)
ExecuteRound(prog, e) ==
    LET round[k \in 0 .. Len(e.co)] ==
            IF k = 0 THEN e
            ELSE LET f == round[k - 1]
                 IN  IF f.co[k].done THEN f ELSE Resume(prog, f, k)
    IN  round[Len(e.co)]

(* runWorkflowFunc on a new Execution: one round.                          *)
RunWorkflowFunc(prog, h) ==
    ExecuteRound(prog, Go(LoadHistory(NewExecution, h), 1))

(* The answers a worker that replays from the start may give to a task     *)
(* that carried history h: one command list, or none when replay panics.   *)
Replay(prog, h) ==
    LET e == RunWorkflowFunc(prog, h)
    IN  IF e.panicked THEN {} ELSE {e.commands}

-----------------------------------------------------------------------------
(* The repository's examples.                                              *)

(* helloworkflow: one activity, its result or its error.                   *)
SimpleWorkflow ==
    << <<Instr("activity", 0), Instr("get", 1), Instr("complete", 0)>> >>

(* countdown, with remaining ticks left: one tick per run.                 *)
CountdownWorkflow(remaining) ==
    << <<Instr("activity", 0), Instr("get", 1),
         Instr(IF remaining <= 1 THEN "complete" ELSE "continue", 0)>> >>
=============================================================================
