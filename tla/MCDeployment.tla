---------------------------- MODULE MCDeployment ----------------------------
(* Two states deployed first and two later, and one bond.                    *)
EXTENDS Deployment

MCPhase3 == <<"MA", "CA">>
MCPhase4 == <<"IL", "WA">>

=============================================================================
