---------------------------- MODULE MCAgentWallet ----------------------------
(* Four dollars to rebalance or to pay out.                                  *)
EXTENDS AgentWallet

CONSTANTS r1, r2

MCHoldings == {[usdc |-> 4, token |-> 0], [usdc |-> 1, token |-> 4]}

=============================================================================
