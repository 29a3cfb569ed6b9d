------------------------------ MODULE MCSticky ------------------------------
(* Instances of StickyWorker for TLC.                                      *)
EXTENDS StickyWorker

CONSTANTS w1, w2

(* Two activities of different types at once, a timer started between      *)
(* their results, a signal handler.                                        *)
Parallel ==
    << <<Instr("handle", 0), Instr("activity", 1), Instr("activity", 2),
         Instr("get", 1), Instr("sleep", 0), Instr("get", 2),
         Instr("complete", 0)>> >>

(* A coroutine started with Go runs an activity of its own.                *)
Background ==
    << <<Instr("go", 2), Instr("activity", 1), Instr("get", 1),
         Instr("activity", 1), Instr("get", 2), Instr("complete", 0)>>,
       <<Instr("activity", 2), Instr("get", 1)>> >>

(* Cleanup when cancelled, checked after the first activity returned.      *)
Cleanup ==
    << <<Instr("activity", 1), Instr("get", 1), Instr("oncancel", 6),
         Instr("activity", 1), Instr("get", 2), Instr("activity", 2),
         Instr("complete", 0)>> >>

OnceEach == [d \in Disturbances |-> 1]
RequestOnly == [d \in Disturbances |-> IF d = "requests" THEN 1 ELSE 0]
QueryOnly == [d \in Disturbances |-> IF d = "queries" THEN 1 ELSE 0]
=============================================================================
