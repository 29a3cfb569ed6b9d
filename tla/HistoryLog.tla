----------------------------- MODULE HistoryLog -----------------------------
(***************************************************************************)
(* What ADR-0002 (docs/adr) promises of a run's event history, with no     *)
(* transactions, leases or queues: every run owns a log of numbered        *)
(* events, a step may extend the logs of one or more runs, each by events  *)
(* numbered on from its last one, and an event once written never changes. *)
(* FlowdEngine is shown to implement this module.                          *)
(***************************************************************************)
EXTENDS Naturals

CONSTANT Run      \* run_id values

VARIABLE log      \* log[r]: event_id -> event, the rows of history_events

(* The events of a log are numbered from 1 without a gap.                  *)
IsLog(l) == \A i \in DOMAIN l : i \in Nat \ {0} /\ 1 .. i \subseteq DOMAIN l

(* l2 is l1 with zero or more events added behind its last one.            *)
Extends(l1, l2) ==
    /\ DOMAIN l1 \subseteq DOMAIN l2
    /\ \A i \in DOMAIN l1 : l2[i] = l1[i]

Init == log = [r \in Run |-> <<>>]

(* One transaction: StartWorkflowExecution, a completion, a signal ... A   *)
(* continue-as-new extends two runs at once.                               *)
Append ==
    /\ DOMAIN log' = Run
    /\ \A r \in Run : IsLog(log'[r]) /\ Extends(log[r], log'[r])

Spec == Init /\ [][Append]_log
=============================================================================
