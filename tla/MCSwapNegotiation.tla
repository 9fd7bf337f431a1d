-------------------------- MODULE MCSwapNegotiation --------------------------
(* Three calls: a task with two continuations, or two tasks and a            *)
(* continuation of one.                                                      *)
EXTENDS SwapNegotiation, TLC

CONSTANTS c1, c2, c3

MCCalls == {c1, c2, c3}

=============================================================================
