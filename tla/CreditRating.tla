---------------------------- MODULE CreditRating ----------------------------
(***************************************************************************)
(* assessCredit: the yields between which an issuer takes bids, computed   *)
(* from its reserve and from what it last read of its economy.             *)
(*                                                                         *)
(* Rates are in tenths of a percent, the reserve ratio in thousandths and  *)
(* income in thousands of dollars. A point of the score is 140 here, so    *)
(* that every quotient of the code is an integer.                          *)
(***************************************************************************)
EXTENDS Integers

CONSTANTS
  Unknown,   \* null: the indicator was not read
  Reports    \* the readings considered

Reading == Int \cup {Unknown}

ASSUME CreditAssumption ==
  /\ Unknown \notin Int
  /\ Reports \subseteq [reserve : Int, unemployment : Reading, income : Reading,
                        gdp : Reading, poverty : Reading, shock : Reading]

Points(n) == 140 * n

Clip(low, high, x) == IF x < low THEN low ELSE IF x > high THEN high ELSE x

ReserveScore(r) == Clip(0, Points(60), 21 * Clip(0, 500, r))

UnemploymentScore(p) ==
  IF p = Unknown THEN Points(10) ELSE Clip(0, Points(20), 40 * (100 - p))

IncomeScore(k) == IF k = Unknown THEN Points(10) ELSE Clip(0, Points(20), 70 * (k - 40))

PersonaPenalty(tags) ==
  IF "pension-stressed" \in tags THEN Points(8)
  ELSE IF "hurricane-exposed" \in tags THEN Points(4) ELSE 0

GrowthBonus(g) == IF g = Unknown THEN 0 ELSE Clip(- Points(5), Points(5), 14 * g)

(* Faulty variant: what poverty takes away is given.                         *)
PovertyBonus(p) == IF p = Unknown THEN 0 ELSE - Clip(0, Points(5), 7 * (p - 80))

PovertyPenalty(p) == IF p = Unknown THEN 0 ELSE Clip(0, Points(5), 7 * (p - 80))
ShockPenalty(s) == IF s = Unknown THEN 0 ELSE Clip(0, Points(6), 84 * s)

Score(tags, x) ==
  Clip(0, Points(100),
    ReserveScore(x.reserve) + UnemploymentScore(x.unemployment) + IncomeScore(x.income)
    + GrowthBonus(x.gdp)
    - (PersonaPenalty(tags) + PovertyPenalty(x.poverty) + ShockPenalty(x.shock)))

(* RATING_TABLE, from AAA down to D.                                         *)
Tiers == 1..14
MinScore == <<90, 85, 80, 75, 70, 65, 60, 55, 50, 45, 35, 25, 15, 0>>
Floor == <<300, 325, 350, 375, 400, 425, 450, 500, 550, 600, 700, 850, 1100, 1500>>
Ceiling == <<450, 475, 500, 525, 575, 625, 675, 750, 825, 900, 1100, 1400, 2000, 5000>>

TierOf(score) ==
  CHOOSE i \in Tiers : /\ score >= Points(MinScore[i])
                       /\ \A j \in Tiers : score >= Points(MinScore[j]) => i <= j

AssessCredit(tags, x) ==
  LET tier == TierOf(Score(tags, x)) IN [floor |-> Floor[tier], ceiling |-> Ceiling[tier]]

-----------------------------------------------------------------------------
(* What is known of x is known of y, and no better for x.                    *)
NotAbove(a, b) == IF a \in Int /\ b \in Int THEN a <= b ELSE a = b

Weaker(x, y) ==
  /\ NotAbove(x.reserve, y.reserve) /\ NotAbove(x.income, y.income) /\ NotAbove(x.gdp, y.gdp)
  /\ NotAbove(y.unemployment, x.unemployment) /\ NotAbove(y.poverty, x.poverty)
  /\ NotAbove(y.shock, x.shock)

Tags == {"pension-stressed", "hurricane-exposed"}

(* What an issuer asks for, next to what a sounder one of its kind would.    *)
Comparisons ==
  {[weaker |-> AssessCredit(c[1], c[2]), sounder |-> AssessCredit(c[1], c[3])] :
     c \in {d \in (SUBSET Tags) \X Reports \X Reports : Weaker(d[2], d[3])}}

=============================================================================
