--------------------------- MODULE MCBondAuction ---------------------------
(* One bond, two bidders and three messages. The issuer is rated with the    *)
(* shocks it knows of or, when the data plane does not answer, without: the  *)
(* bands are 550 to 825 and 500 to 750. A yield of 520 is below one floor,   *)
(* 900 above both ceilings, 600 inside both bands.                           *)
EXTENDS BondAuction, TLC

CONSTANTS t1, t2, t3, CA, NY, none, silent

MCTasks == {t1, t2, t3}
MCBidders == {CA, NY}

Calm == [reserve |-> 200, unemployment |-> 42, income |-> 60, gdp |-> Unknown,
         poverty |-> Unknown, shock |-> Unknown]
MCBands == {[floor |-> 500, ceiling |-> 750], [floor |-> 550, ceiling |-> 825]}

ASSUME RatedAssumption ==
  MCBands = {AssessCredit({}, x) : x \in {Calm, [Calm EXCEPT !.shock = 8]}}

MCBids == {[fips |-> CA, yield |-> 600, principal |-> 1],
           [fips |-> CA, yield |-> 900, principal |-> 3],
           [fips |-> NY, yield |-> 520, principal |-> 3]}

MCReports ==
  [reserve : {100, 400}, unemployment : {Unknown, 35, 90}, income : {Unknown, 45, 85},
   gdp : {Unknown, 20}, poverty : {85, 200}, shock : {Unknown, 3, 12}]

=============================================================================
