---------------------------- MODULE MCShockFanOut ----------------------------
(* The Federal Reserve sees one node, whose card names none of the eight     *)
(* states, and which sees another, of whose state both shocks are.  A sweep  *)
(* reads the more severe one, and one id is remembered.                      *)
EXTENDS ShockFanOut

CONSTANTS GA, CA

MCLinks == {{FED, GA}, {GA, CA}}
MCSeverity == [e \in Events |-> e]
MCAffects == [e \in Events |-> CA]
MCRecognised == {FED, CA}

=============================================================================
