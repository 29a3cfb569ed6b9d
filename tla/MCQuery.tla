------------------------------- MODULE MCQuery -------------------------------
(* Instances of QueryTasks for TLC.                                        *)
EXTENDS QueryTasks

CONSTANTS q1, q2
=============================================================================
