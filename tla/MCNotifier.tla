----------------------------- MODULE MCNotifier -----------------------------
(* Instances of Notifier for TLC.                                          *)
EXTENDS Notifier

CONSTANTS p1, p2, e1, e2
=============================================================================
