----------------------------- MODULE MCTickLoop -----------------------------
(* Two leaves. MA announces at every tick, and CA when it has something to,  *)
(* which it has not. MA proposes a swap and CA invites to a coalition every  *)
(* other tick, not the same one; CA bids for a bond at every tick from the   *)
(* second on, and MA reflects at every tick.                                 *)
EXTENDS TickLoop

Cadences(announce, swap, coalition, bond, reflect) ==
  [k \in {"announce", "swap", "coalition", "bond", "reflect"} |->
     CASE k = "announce" -> announce [] k = "swap" -> swap
       [] k = "coalition" -> coalition [] k = "bond" -> bond [] k = "reflect" -> reflect]

MCEvery ==
  [MA |-> Cadences(1, 2, 0, 0, 1), CA |-> Cadences(1, 0, 2, 1, 0)]
MCOffset == [MA |-> 0, CA |-> 1]
MCNews == [MA |-> 2, CA |-> 0]

=============================================================================
