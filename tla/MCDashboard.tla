---------------------------- MODULE MCDashboard ----------------------------
(* Two negotiations and a cap of one.                                       *)
EXTENDS Dashboard

CONSTANTS t1, t2

=============================================================================
