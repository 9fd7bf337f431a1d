------------------------------ MODULE MCOgAnchor ------------------------------
(* An instance of InftRecords, and of OgAnchor in it, for TLC.               *)
EXTENDS InftRecords, TLC

=============================================================================
