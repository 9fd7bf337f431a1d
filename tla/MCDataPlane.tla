---------------------------- MODULE MCDataPlane ----------------------------
(* One state; FRED and BLS have the same indicator. *)
EXTENDS DataPlane, TLC

CONSTANT CA

MCStates == {CA}
MCOrder == <<"fred", "bls">>
MCKindsOf == [source \in {"fred", "bls"} |-> {"unemployment"}]

=============================================================================
