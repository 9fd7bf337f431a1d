------------------------- MODULE BondAuctionProofs -------------------------
(***************************************************************************)
(* The safety of BondAuction for every set of tasks, bidders and bids,     *)
(* every credit band and every cap, by one inductive invariant, and the    *)
(* rating that sets the bands, for every reading.                          *)
(***************************************************************************)
EXTENDS BondAuction, SequenceTheorems, TLAPS

(* The rounds tasks joined agree with the auction in the map: the bids of    *)
(* the open round are exactly the unanswered ones.                           *)
RoundsAgree ==
  /\ phase # "none" => round >= 1
  /\ \A t \in Tasks :
       /\ joined[t] <= round
       /\ outcome[t] = "parked" <=> t \in Range(parked)
       /\ outcome[t] = "parked" => joined[t] = round
       /\ outcome[t] = "idle" => joined[t] = 0
       /\ phase # "none" /\ joined[t] = round => outcome[t] = "parked"

InCredit(t) == \E b \in Bands : b.floor <= bid[t].yield /\ bid[t].yield <= b.ceiling

(* While the settler runs, the bid it settles is parked, and if its bidder   *)
(* has no other bid in the round, that bid is eligible and wins.             *)
PickAgrees ==
  phase = "settling" =>
    /\ pick \in Tasks
    /\ pick \in Range(parked)
    /\ winners \subseteq {bid[pick].fips}
    /\ SoleBid(pick) => winners = {bid[pick].fips} /\ InCredit(pick)

(* The mints of the round that is open are the settler's.                    *)
LedgerAgrees ==
  /\ sent => /\ phase = "settling"
              /\ \E i \in DOMAIN ledger : /\ ledger[i].to = bid[pick].fips
                                          /\ ledger[i].round = round
  /\ \A i \in DOMAIN ledger :
       /\ 1 <= ledger[i].round /\ ledger[i].round <= round
       /\ phase # "none" /\ ledger[i].round = round
            => sent /\ ledger[i].to = bid[pick].fips

Safe ==
  /\ NoHungAuction
  /\ OneMintPerRound
  /\ OneWinnerPerRound
  /\ MintedSoleBidderAwarded
  /\ ReceiptBacked
  /\ MintWithinCredit

IInv == TypeOK /\ RoundsAgree /\ PickAgrees /\ LedgerAgrees /\ Safe

-----------------------------------------------------------------------------
(* What a parked sequence contains, element by element.                      *)
LEMMA RangeOfParked ==
  ASSUME NEW s \in Seq(Tasks)
  PROVE  /\ Range(s) \subseteq Tasks
         /\ \A i \in DOMAIN s : s[i] \in Range(s)
         /\ \A t \in Tasks : Range(Append(s, t)) = Range(s) \cup {t}
         /\ Range(<<>>) = {}
<1>1. \A i \in DOMAIN s : s[i] \in Tasks
  OBVIOUS
<1>2. ASSUME NEW t \in Tasks PROVE Range(Append(s, t)) = Range(s) \cup {t}
  <2>1. /\ Append(s, t) \in Seq(Tasks)
        /\ DOMAIN Append(s, t) = 1..(Len(s) + 1)
        /\ DOMAIN s = 1..Len(s)
        /\ Len(s) \in Nat
        /\ \A i \in 1..Len(s) : Append(s, t)[i] = s[i]
        /\ Append(s, t)[Len(s) + 1] = t
    OBVIOUS
  <2>. QED BY <2>1 DEF Range
<1>3. DOMAIN <<>> = {}
  OBVIOUS
<1>. QED BY <1>1, <1>2, <1>3 DEF Range

(* The mints on the ledger are typed, and each is of some round.             *)
LEMMA LedgerTyped ==
  ASSUME TypeOK, NEW i \in DOMAIN ledger
  PROVE  ledger[i] \in Mint /\ ledger[i].round \in Nat
<1>1. ledger \in Seq(Mint)
  BY DEF TypeOK
<1>2. ledger[i] \in Mint
  BY <1>1
<1>. QED BY <1>2 DEF Mint

(* Every mint is within the bond's declared principal.                       *)
LEMMA MintTyped ==
  ASSUME TypeOK, NEW t \in Tasks
  PROVE  [to |-> bid[t].fips, round |-> round,
          amount |-> MintAmount(t), mined |-> FALSE] \in Mint
<1>1. bid[t] \in [fips : Bidders, yield : Nat, principal : Nat]
  BY BondAssumption DEF TypeOK
<1>2. MintAmount(t) \in 0..Principal
  BY <1>1, BondAssumption DEF MintAmount
<1>. QED BY <1>1, <1>2 DEF Mint, TypeOK

(* A mint that is mined keeps its beneficiary, its amount and its round.     *)
LEMMA MinedTyped ==
  ASSUME TypeOK, NEW i \in DOMAIN ledger, MintMined(i)
  PROVE  /\ ledger' \in Seq(Mint)
         /\ DOMAIN ledger' = DOMAIN ledger
         /\ \A j \in DOMAIN ledger : /\ ledger'[j].to = ledger[j].to
                                     /\ ledger'[j].round = ledger[j].round
                                     /\ ledger[j].mined => ledger'[j].mined
<1>1. ledger \in Seq(Mint) /\ DOMAIN ledger = 1..Len(ledger)
  BY DEF TypeOK
<1>2. ledger[i] \in Mint
  BY <1>1
<1>3. [ledger[i] EXCEPT !.mined = TRUE] \in Mint
  BY <1>2 DEF Mint
<1>4. ledger' = [ledger EXCEPT ![i] = [ledger[i] EXCEPT !.mined = TRUE]]
  BY DEF MintMined
<1>5. ledger' \in Seq(Mint)
  BY <1>1, <1>3, <1>4, ExceptSeq
<1>. QED BY <1>1, <1>2, <1>4, <1>5 DEF Mint

LEMMA InitInv == Init => IInv
<1>. SUFFICES ASSUME Init PROVE IInv
  OBVIOUS
<1>1. TypeOK
  <2>1. <<>> \in Seq(Tasks) /\ <<>> \in Seq(Mint)
    OBVIOUS
  <2>. QED BY <2>1 DEF Init, TypeOK, Outcome, Phase
<1>2. RoundsAgree /\ PickAgrees /\ LedgerAgrees
  BY DEF Init, RoundsAgree, PickAgrees, LedgerAgrees, Range
<1>3. Safe
  BY DEF Init, Safe, NoHungAuction, OneMintPerRound, OneWinnerPerRound,
         MintedSoleBidderAwarded, ReceiptBacked, MintWithinCredit
<1>. QED BY <1>1, <1>2, <1>3 DEF IInv

-----------------------------------------------------------------------------
LEMMA ParkTypeOK ==
  ASSUME TypeOK, NEW t \in Tasks, Park(t) PROVE TypeOK'
<1>1. Len(parked) + 1 \in Nat /\ Append(parked, t) \in Seq(Tasks)
  BY DEF TypeOK
<1>. QED BY <1>1, BondAssumption DEF Park, TypeOK, Outcome, Phase, Armed

LEMMA ResolveTypeOK ==
  ASSUME TypeOK, NEW W, NEW settled, Resolve(W, settled) PROVE TypeOK'
<1>1. outcome' \in [Tasks -> Outcome]
  BY DEF Resolve, Answers, TypeOK, Outcome
<1>2. receipt' \in SUBSET Tasks
  BY RangeOfParked DEF Resolve, TypeOK
<1>3. parked' \in Seq(Tasks) /\ phase' \in Phase
  BY DEF Resolve, Deleted, Phase
<1>. QED BY <1>1, <1>2, <1>3 DEF Resolve, TypeOK

LEMMA NextTypeOK == TypeOK /\ NoHungAuction /\ [Next]_vars => TypeOK'
<1>. SUFFICES ASSUME TypeOK, NoHungAuction, [Next]_vars PROVE TypeOK'
  OBVIOUS
<1>1. ASSUME NEW t \in Tasks, Park(t) PROVE TypeOK'
  BY <1>1, ParkTypeOK
<1>2. ASSUME NEW t \in Tasks, RejectLate(t) PROVE TypeOK'
  BY <1>2 DEF RejectLate, TypeOK, Outcome
<1>3. CASE BeginEvaluation
  BY <1>3 DEF BeginEvaluation, TypeOK, Phase
<1>4. ASSUME NEW b \in Bands, NEW model, PickWinner(b, model) PROVE TypeOK'
  <2>1. PICK w \in DOMAIN parked, i \in DOMAIN parked :
          pick' = parked[i] /\ winners' = Awarded(b, w)
    BY <1>4 DEF PickWinner
  <2>2. pick' \in Tasks
    BY <2>1 DEF TypeOK
  <2>3. winners' \in SUBSET Bidders
    <3>1. bid[parked[w]] \in [fips : Bidders, yield : Nat, principal : Nat]
      BY BondAssumption DEF TypeOK
    <3>. QED BY <3>1, <2>1 DEF Awarded
  <2>. QED BY <1>4, <2>2, <2>3 DEF PickWinner, TypeOK, Phase
<1>5. CASE RejectAll
  BY <1>5, ResolveTypeOK DEF RejectAll
<1>6. CASE SendMint
  <2>1. pick \in Tasks
    BY <1>6 DEF SendMint, NoHungAuction, TypeOK
  <2>2. ledger' \in Seq(Mint)
    BY <1>6, <2>1, MintTyped DEF SendMint, TypeOK
  <2>. QED BY <1>6, <2>2 DEF SendMint, TypeOK
<1>10. ASSUME NEW i \in DOMAIN ledger, MintMined(i) PROVE TypeOK'
  BY <1>10, MinedTyped DEF MintMined, TypeOK
<1>7. ASSUME NEW settled, SettlerReturns(settled) PROVE TypeOK'
  BY <1>7, ResolveTypeOK DEF SettlerReturns
<1>8. CASE Restart
  <2>1. parked' \in Seq(Tasks) /\ outcome' \in [Tasks -> Outcome]
    BY <1>8 DEF Restart, TypeOK, Outcome
  <2>. QED BY <1>8, <2>1 DEF Restart, TypeOK, Phase
<1>9. CASE UNCHANGED vars
  BY <1>9 DEF vars, TypeOK
<1>. QED BY <1>1, <1>2, <1>3, <1>4, <1>5, <1>6, <1>7, <1>8, <1>9, <1>10
         DEF Next, WindowCloses, CapReached, Evaluate

-----------------------------------------------------------------------------
LEMMA ParkInv ==
  ASSUME IInv, NEW t \in Tasks, Park(t), TypeOK' PROVE IInv'
<1>1. /\ TypeOK /\ RoundsAgree /\ PickAgrees /\ LedgerAgrees
      /\ NoHungAuction /\ OneMintPerRound /\ OneWinnerPerRound
      /\ MintedSoleBidderAwarded /\ ReceiptBacked /\ MintWithinCredit
  BY DEF IInv, Safe
<1>2. /\ phase \in {"none", "open"} /\ phase' = "open" /\ ~ sent
      /\ joined[t] = 0 /\ outcome[t] = "idle"
      /\ round \in Nat /\ round' \in Nat /\ round <= round'
      /\ phase = "none" => round' = round + 1
      /\ phase = "open" => round' = round
  BY <1>1 DEF Park, Evaluating, TypeOK, Phase, RoundsAgree, LedgerAgrees
<1>3. parked' = Append(parked, t) /\ Range(parked') = Range(parked) \cup {t}
  BY <1>1, RangeOfParked DEF Park, TypeOK
<1>4. \A i \in DOMAIN ledger : 1 <= ledger[i].round /\ ledger[i].round < round'
  <2>1. \A i \in DOMAIN ledger : ledger[i].round \in Nat
    BY <1>1, LedgerTyped
  <2>. QED BY <1>1, <1>2, <2>1 DEF LedgerAgrees
<1>5. \A u \in Tasks : /\ u # t => joined'[u] = joined[u] /\ outcome'[u] = outcome[u]
                       /\ joined'[t] = round' /\ outcome'[t] = "parked"
                       /\ joined[u] \in Nat
  BY <1>1 DEF Park, TypeOK
<1>6. phase = "none" => Range(parked) = {}
  <2>1. Range(<<>>) = {}
    BY DEF Range
  <2>. QED BY <1>1, <2>1 DEF NoHungAuction
<1>7. RoundsAgree'
  <2>1. round' >= 1
    BY <1>1, <1>2 DEF RoundsAgree
  <2>2. ASSUME NEW u \in Tasks
        PROVE  /\ joined'[u] <= round'
               /\ outcome'[u] = "parked" <=> u \in Range(parked')
               /\ outcome'[u] = "parked" => joined'[u] = round'
               /\ outcome'[u] = "idle" => joined'[u] = 0
               /\ joined'[u] = round' => outcome'[u] = "parked"
    <3>1. CASE u = t
      BY <3>1, <1>2, <1>3, <1>5
    <3>2. CASE u # t
      BY <3>2, <1>1, <1>2, <1>3, <1>5, <1>6, <2>1 DEF RoundsAgree
    <3>. QED BY <3>1, <3>2
  <2>. QED BY <2>1, <2>2 DEF RoundsAgree
<1>8. PickAgrees'
  BY <1>2 DEF PickAgrees
<1>9. LedgerAgrees'
  <2>1. /\ ledger' = ledger /\ sent' = FALSE
        /\ \A i \in DOMAIN ledger : ledger[i].round \in Nat
    BY <1>1, <1>2, LedgerTyped DEF Park, TypeOK
  <2>. QED BY <1>2, <1>4, <2>1 DEF LedgerAgrees
<1>10. NoHungAuction'
  <2>1. Append(parked, t) # <<>> /\ Len(parked) \in Nat
    <3>1. parked \in Seq(Tasks)
      BY <1>1 DEF TypeOK
    <3>2. Len(Append(parked, t)) = Len(parked) + 1 /\ Len(parked) \in Nat
      BY <3>1
    <3>. QED BY <3>2
  <2>2. pick = NoTask
    BY <1>1, <1>2 DEF NoHungAuction
  <2>. QED BY <1>2, <2>1, <2>2, BondAssumption DEF NoHungAuction, Park, Armed
<1>11. OneMintPerRound'
  BY <1>1 DEF OneMintPerRound, Park
<1>12. OneWinnerPerRound'
  BY <1>1, <1>5 DEF OneWinnerPerRound, Park
<1>13. ASSUME NEW i \in DOMAIN ledger, NEW u \in Tasks,
              Paid(ledger[i], u)', SoleBid(u)'
       PROVE  u # t /\ Paid(ledger[i], u) /\ SoleBid(u)
  <2>1. u # t
    BY <1>4, <1>5, <1>2, <1>13 DEF Paid, Park
  <2>2. joined[u] = ledger[i].round /\ joined[u] >= 1
    BY <1>4, <1>5, <2>1, <1>13 DEF Paid, Park
  <2>3. SoleBid(u)
    BY <1>2, <1>5, <2>1, <2>2, <1>13 DEF SoleBid, Park
  <2>. QED BY <2>1, <2>2, <2>3, <1>13 DEF Paid, Park
<1>14. MintedSoleBidderAwarded'
  BY <1>1, <1>5, <1>13 DEF MintedSoleBidderAwarded, Park
<1>15. ReceiptBacked'
  BY <1>1, <1>2, <1>5 DEF ReceiptBacked, Park, Paid, TypeOK
<1>16. MintWithinCredit'
  BY <1>1, <1>13 DEF MintWithinCredit, Park
<1>. QED BY <1>7, <1>8, <1>9, <1>10, <1>11, <1>12, <1>14, <1>15, <1>16 DEF IInv, Safe

(* A late bid is in no round: it takes nothing from the open one.            *)
LEMMA RejectLateInv ==
  ASSUME IInv, NEW t \in Tasks, RejectLate(t), TypeOK' PROVE IInv'
<1>1. /\ TypeOK /\ RoundsAgree /\ PickAgrees /\ LedgerAgrees
      /\ NoHungAuction /\ OneMintPerRound /\ OneWinnerPerRound
      /\ MintedSoleBidderAwarded /\ ReceiptBacked /\ MintWithinCredit
  BY DEF IInv, Safe
<1>2. /\ joined[t] = 0 /\ outcome[t] = "idle" /\ phase # "none" /\ round >= 1
      /\ round \in Nat
  BY <1>1 DEF RejectLate, Evaluating, RoundsAgree, TypeOK
<1>3. \A u \in Tasks : /\ u # t => outcome'[u] = outcome[u]
                       /\ outcome'[t] = "rejected"
  BY <1>1 DEF RejectLate, TypeOK
<1>4. RoundsAgree'
  BY <1>1, <1>2, <1>3 DEF RoundsAgree, RejectLate
<1>5. PickAgrees' /\ LedgerAgrees' /\ NoHungAuction' /\ OneMintPerRound'
      /\ MintWithinCredit'
  BY <1>1 DEF RejectLate, PickAgrees, SoleBid, InCredit, LedgerAgrees,
              NoHungAuction, OneMintPerRound, MintWithinCredit, Paid
<1>6. OneWinnerPerRound'
  BY <1>1, <1>3 DEF OneWinnerPerRound, RejectLate
<1>7. MintedSoleBidderAwarded'
  <2>1. \A i \in DOMAIN ledger : ledger[i].round >= 1 /\ ledger[i].round \in Nat
    BY <1>1, LedgerTyped DEF LedgerAgrees
  <2>. QED BY <1>1, <1>2, <1>3, <2>1
           DEF MintedSoleBidderAwarded, RejectLate, Paid, SoleBid
<1>8. ReceiptBacked'
  BY <1>1, <1>2, <1>3 DEF ReceiptBacked, RejectLate, Paid, TypeOK
<1>. QED BY <1>4, <1>5, <1>6, <1>7, <1>8 DEF IInv, Safe

LEMMA BeginEvaluationInv ==
  ASSUME IInv, BeginEvaluation, TypeOK' PROVE IInv'
<1>1. RoundsAgree' /\ PickAgrees' /\ NoHungAuction'
  BY DEF IInv, Safe, BeginEvaluation, RoundsAgree, PickAgrees, NoHungAuction
<1>2. LedgerAgrees'
  BY DEF IInv, BeginEvaluation, LedgerAgrees
<1>3. /\ OneMintPerRound' /\ OneWinnerPerRound' /\ MintedSoleBidderAwarded'
      /\ ReceiptBacked' /\ MintWithinCredit'
  BY DEF IInv, Safe, BeginEvaluation, OneMintPerRound, OneWinnerPerRound, Paid,
         SoleBid, MintedSoleBidderAwarded, ReceiptBacked, MintWithinCredit
<1>. QED BY <1>1, <1>2, <1>3 DEF IInv, Safe

(* The bid handed to the settler is parked; if its bidder has no other bid   *)
(* in the round it is the very bid that won, so it is eligible and awarded.  *)
LEMMA PickWinnerInv ==
  ASSUME IInv, NEW b \in Bands, NEW model, PickWinner(b, model), TypeOK'
  PROVE  IInv'
<1>1. /\ TypeOK /\ RoundsAgree /\ PickAgrees /\ LedgerAgrees
      /\ NoHungAuction /\ OneMintPerRound /\ OneWinnerPerRound
      /\ MintedSoleBidderAwarded /\ ReceiptBacked /\ MintWithinCredit
  BY DEF IInv, Safe
<1>2. PICK w \in DOMAIN parked, i \in DOMAIN parked :
        /\ Wins(b, model, w) /\ FirstOf(w, i)
        /\ pick' = parked[i] /\ winners' = Awarded(b, w)
  BY DEF PickWinner
<1>3. /\ phase = "evaluating" /\ phase' = "settling" /\ pick = NoTask /\ ~ sent
      /\ UNCHANGED <<bid, outcome, receipt, parked, timer, queued, sent,
                     ledger, round, joined>>
  BY <1>1 DEF PickWinner, NoHungAuction, LedgerAgrees
<1>4. /\ \A j \in DOMAIN parked : parked[j] \in Tasks /\ parked[j] \in Range(parked)
      /\ \A j \in DOMAIN parked : joined[parked[j]] = round
  BY <1>1, RangeOfParked DEF TypeOK, RoundsAgree
<1>5. pick' \in Tasks /\ pick' # NoTask /\ pick' \in Range(parked)
  BY <1>2, <1>4, BondAssumption
<1>6. bid[pick'].fips = bid[parked[w]].fips /\ winners' \subseteq {bid[pick'].fips}
  BY <1>2 DEF FirstOf, Awarded
<1>7. ASSUME SoleBid(pick)'
      PROVE  winners' = {bid[pick'].fips} /\ InCredit(pick)'
  <2>1. \A j \in DOMAIN parked : bid[parked[j]].fips = bid[pick'].fips
                                   => parked[j] = pick'
    BY <1>2, <1>3, <1>4, <1>5, <1>7 DEF SoleBid
  <2>2. w \in Eligible(b)
    BY <1>2 DEF Wins, Best
  <2>3. /\ b.floor <= bid[pick'].yield /\ bid[pick'].yield <= b.ceiling
    <3>1. parked[w] = pick'
      BY <1>6, <2>1
    <3>. QED BY <2>2, <3>1 DEF Eligible
  <2>4. \A j \in DOMAIN parked : bid[parked[j]].fips = bid[pick'].fips
                                   => j \in Eligible(b)
    BY <2>1, <2>3 DEF Eligible
  <2>5. Awarded(b, w) = {bid[pick'].fips}
    BY <1>6, <2>4 DEF Awarded
  <2>. QED BY <1>2, <1>3, <2>3, <2>5 DEF InCredit
<1>8. PickAgrees'
  BY <1>3, <1>5, <1>6, <1>7 DEF PickAgrees
<1>9. RoundsAgree' /\ LedgerAgrees' /\ NoHungAuction'
  BY <1>1, <1>3, <1>5 DEF RoundsAgree, LedgerAgrees, NoHungAuction
<1>10. OneMintPerRound' /\ OneWinnerPerRound' /\ ReceiptBacked' /\ MintWithinCredit'
  BY <1>1, <1>3 DEF OneMintPerRound, OneWinnerPerRound, ReceiptBacked,
                    MintWithinCredit, Paid, SoleBid
<1>11. MintedSoleBidderAwarded'
  BY <1>1, <1>3, BondAssumption DEF MintedSoleBidderAwarded, Paid, SoleBid
<1>. QED BY <1>8, <1>9, <1>10, <1>11 DEF IInv, Safe

(* What closing a round keeps, whoever is awarded: at most one bidder, the   *)
(* minted one if it is alone, and a receipt only for the minted one.         *)
LEMMA ResolveInv ==
  ASSUME IInv, phase # "none", phase # "open", TypeOK',
         NEW W, NEW settled, Resolve(W, settled),
         \A f, g \in W : f = g,
         settled => sent /\ RoundMinted /\ W \subseteq {bid[pick].fips},
         sent /\ SoleBid(pick) => bid[pick].fips \in W
  PROVE  IInv'
<1>1. /\ TypeOK /\ RoundsAgree /\ PickAgrees /\ LedgerAgrees
      /\ NoHungAuction /\ OneMintPerRound /\ OneWinnerPerRound
      /\ MintedSoleBidderAwarded /\ ReceiptBacked /\ MintWithinCredit
  BY DEF IInv, Safe
<1>2. /\ UNCHANGED <<bid, timer, queued, ledger, round, joined>>
      /\ phase' = "none" /\ parked' = <<>> /\ pick' = NoTask /\ sent' = FALSE
      /\ \A t \in Tasks :
           outcome'[t] = IF t \in Range(parked)
                         THEN IF bid[t].fips \in W THEN "awarded" ELSE "rejected"
                         ELSE outcome[t]
  BY DEF Resolve, Deleted, Answers
<1>3. Range(parked') = {}
  BY <1>2 DEF Range
<1>4. \A t \in Tasks : /\ t \in Range(parked) <=> outcome[t] = "parked"
                       /\ t \in Range(parked) <=> joined[t] = round
  BY <1>1 DEF RoundsAgree
<1>5. RoundsAgree'
  BY <1>1, <1>2, <1>3 DEF RoundsAgree
<1>6. PickAgrees' /\ LedgerAgrees' /\ NoHungAuction'
  BY <1>1, <1>2 DEF PickAgrees, LedgerAgrees, NoHungAuction
<1>7. OneMintPerRound' /\ MintWithinCredit'
  BY <1>1, <1>2 DEF OneMintPerRound, MintWithinCredit, Paid, SoleBid
<1>8. OneWinnerPerRound'
  BY <1>1, <1>2, <1>4 DEF OneWinnerPerRound
<1>9. MintedSoleBidderAwarded'
  <2>. SUFFICES ASSUME NEW i \in DOMAIN ledger, NEW t \in Tasks,
                       Paid(ledger[i], t), SoleBid(t)
                PROVE  outcome'[t] \in {"awarded", "lost"}
    BY <1>2 DEF MintedSoleBidderAwarded, Paid, SoleBid
  <2>1. CASE t \notin Range(parked)
    BY <2>1, <1>1, <1>2, <1>4 DEF MintedSoleBidderAwarded
  <2>2. CASE t \in Range(parked)
    <3>1. sent /\ bid[t].fips = bid[pick].fips /\ joined[t] = round
      BY <2>2, <1>1, <1>4 DEF LedgerAgrees, Paid
    <3>2. pick \in Tasks /\ joined[pick] = round
      BY <3>1, <1>1, <1>4 DEF LedgerAgrees, PickAgrees
    <3>3. pick = t
      BY <3>1, <3>2 DEF SoleBid
    <3>. QED BY <2>2, <3>1, <3>3, <1>2
  <2>. QED BY <2>1, <2>2
<1>10. ReceiptBacked'
  <2>. SUFFICES ASSUME NEW t \in receipt'
                PROVE  /\ outcome'[t] = "awarded"
                       /\ \E i \in DOMAIN ledger : Paid(ledger[i], t) /\ ledger[i].mined
    BY <1>2 DEF ReceiptBacked, Paid
  <2>1. CASE t \in receipt
    BY <2>1, <1>1, <1>2, <1>4 DEF ReceiptBacked, TypeOK
  <2>2. CASE t \notin receipt
    <3>1. t \in Range(parked) /\ settled /\ bid[t].fips \in W /\ t \in Tasks
      BY <2>2, <1>1, RangeOfParked DEF Resolve, TypeOK
    <3>2. PICK i \in DOMAIN ledger : ledger[i].round = round /\ ledger[i].mined
      BY <3>1 DEF RoundMinted
    <3>3. bid[t].fips = bid[pick].fips
      BY <3>1
    <3>. QED BY <3>1, <3>2, <3>3, <1>1, <1>2, <1>4 DEF LedgerAgrees, Paid
  <2>. QED BY <2>1, <2>2
<1>. QED BY <1>5, <1>6, <1>7, <1>8, <1>9, <1>10 DEF IInv, Safe

LEMMA RejectAllInv == ASSUME IInv, RejectAll, TypeOK' PROVE IInv'
<1>1. phase = "evaluating" /\ ~ sent /\ Resolve({}, FALSE)
  BY DEF RejectAll, IInv, LedgerAgrees
<1>2. PICK W : W = {}
  OBVIOUS
<1>3. PICK settled : settled = FALSE
  OBVIOUS
<1>4. Resolve(W, settled) /\ \A f, g \in W : f = g
  BY <1>1, <1>2, <1>3
<1>. QED BY <1>1, <1>3, <1>4, ResolveInv

LEMMA SettlerReturnsInv ==
  ASSUME IInv, NEW settled \in BOOLEAN, SettlerReturns(settled), TypeOK'
  PROVE  IInv'
<1>1. phase = "settling" /\ Resolve(winners, settled)
      /\ (settled => sent /\ RoundMinted)
  BY DEF SettlerReturns
<1>2. /\ winners \subseteq {bid[pick].fips}
      /\ SoleBid(pick) => winners = {bid[pick].fips}
  BY <1>1 DEF IInv, PickAgrees
<1>. QED BY <1>1, <1>2, ResolveInv

(* A mint is sent: the round had none, and its beneficiary is the bidder the *)
(* settler holds.                                                            *)
LEMMA SendMintInv == ASSUME IInv, SendMint, TypeOK' PROVE IInv'
<1>1. /\ TypeOK /\ RoundsAgree /\ PickAgrees /\ LedgerAgrees
      /\ NoHungAuction /\ OneMintPerRound /\ OneWinnerPerRound
      /\ MintedSoleBidderAwarded /\ ReceiptBacked /\ MintWithinCredit
  BY DEF IInv, Safe
<1>2. /\ phase = "settling" /\ ~ sent /\ sent' = TRUE
      /\ UNCHANGED <<bid, outcome, receipt, phase, parked, timer, queued, pick,
                     winners, round, joined>>
  BY DEF SendMint, MintPending
<1>3. /\ pick \in Tasks /\ joined[pick] = round /\ outcome[pick] = "parked"
      /\ SoleBid(pick) => InCredit(pick)
      /\ round \in Nat /\ round >= 1
  BY <1>1, <1>2 DEF PickAgrees, RoundsAgree, TypeOK
<1>4. DEFINE n == Len(ledger) + 1
<1>5. /\ n \in DOMAIN ledger' /\ n \notin DOMAIN ledger
      /\ DOMAIN ledger' = DOMAIN ledger \cup {n}
      /\ \A i \in DOMAIN ledger : ledger'[i] = ledger[i]
      /\ ledger'[n].to = bid[pick].fips /\ ledger'[n].round = round
  <2>1. ledger \in Seq(Mint)
    BY <1>1 DEF TypeOK
  <2>2. ledger' = Append(ledger, [to |-> bid[pick].fips, round |-> round,
                                 amount |-> MintAmount(pick), mined |-> FALSE])
    BY DEF SendMint
  <2>. QED BY <2>1, <2>2
<1>. HIDE DEF n
<1>6. \A i \in DOMAIN ledger : ledger[i].round # round
  BY <1>1, <1>2 DEF LedgerAgrees
<1>7. RoundsAgree' /\ PickAgrees' /\ NoHungAuction' /\ OneWinnerPerRound'
  BY <1>1, <1>2 DEF RoundsAgree, PickAgrees, InCredit, SoleBid, NoHungAuction,
                    OneWinnerPerRound
<1>8. LedgerAgrees'
  BY <1>1, <1>2, <1>3, <1>5 DEF LedgerAgrees
<1>9. OneMintPerRound'
  BY <1>1, <1>5, <1>6 DEF OneMintPerRound
<1>10. ReceiptBacked'
  BY <1>1, <1>2, <1>5 DEF ReceiptBacked, Paid
<1>11. \A u \in Tasks : Paid(ledger'[n], u) /\ SoleBid(u) => u = pick
  BY <1>3, <1>5 DEF Paid, SoleBid
<1>12. MintedSoleBidderAwarded'
  BY <1>1, <1>2, <1>3, <1>5, <1>11 DEF MintedSoleBidderAwarded, Paid, SoleBid
<1>13. MintWithinCredit'
  BY <1>1, <1>2, <1>3, <1>5, <1>11 DEF MintWithinCredit, Paid, SoleBid, InCredit
<1>. QED BY <1>7, <1>8, <1>9, <1>10, <1>12, <1>13 DEF IInv, Safe

(* A mint that reaches the chain, even after its round, changes no round.    *)
LEMMA MintMinedInv ==
  ASSUME IInv, NEW n \in DOMAIN ledger, MintMined(n), TypeOK' PROVE IInv'
<1>1. /\ TypeOK /\ RoundsAgree /\ PickAgrees /\ LedgerAgrees
      /\ NoHungAuction /\ OneMintPerRound /\ OneWinnerPerRound
      /\ MintedSoleBidderAwarded /\ ReceiptBacked /\ MintWithinCredit
  BY DEF IInv, Safe
<1>2. /\ DOMAIN ledger' = DOMAIN ledger
      /\ \A j \in DOMAIN ledger : /\ ledger'[j].to = ledger[j].to
                                  /\ ledger'[j].round = ledger[j].round
                                  /\ ledger[j].mined => ledger'[j].mined
  BY <1>1, MinedTyped
<1>3. UNCHANGED <<bid, outcome, receipt, phase, parked, timer, queued, pick,
                  winners, sent, round, joined>>
  BY DEF MintMined
<1>4. RoundsAgree' /\ PickAgrees' /\ NoHungAuction' /\ OneWinnerPerRound'
  BY <1>1, <1>3 DEF RoundsAgree, PickAgrees, InCredit, SoleBid, NoHungAuction,
                    OneWinnerPerRound
<1>5. LedgerAgrees' /\ OneMintPerRound'
  BY <1>1, <1>2, <1>3 DEF LedgerAgrees, OneMintPerRound
<1>6. MintedSoleBidderAwarded' /\ ReceiptBacked' /\ MintWithinCredit'
  BY <1>1, <1>2, <1>3 DEF MintedSoleBidderAwarded, ReceiptBacked,
                          MintWithinCredit, Paid, SoleBid
<1>. QED BY <1>4, <1>5, <1>6 DEF IInv, Safe

(* A restart loses the open round whole, and no other.                       *)
LEMMA RestartInv == ASSUME IInv, Restart, TypeOK' PROVE IInv'
<1>1. /\ TypeOK /\ RoundsAgree /\ PickAgrees /\ LedgerAgrees
      /\ NoHungAuction /\ OneMintPerRound /\ OneWinnerPerRound
      /\ MintedSoleBidderAwarded /\ ReceiptBacked /\ MintWithinCredit
  BY DEF IInv, Safe
<1>2. /\ UNCHANGED <<bid, receipt, ledger, round, joined>>
      /\ phase' = "none" /\ parked' = <<>> /\ pick' = NoTask /\ sent' = FALSE
      /\ timer' = FALSE /\ queued' = FALSE
      /\ \A t \in Tasks :
           outcome'[t] = IF outcome[t] = "parked" THEN "lost" ELSE outcome[t]
  BY DEF Restart
<1>3. Range(parked') = {}
  BY <1>2 DEF Range
<1>4. RoundsAgree'
  BY <1>1, <1>2, <1>3 DEF RoundsAgree
<1>5. PickAgrees' /\ LedgerAgrees' /\ NoHungAuction'
  BY <1>1, <1>2 DEF PickAgrees, LedgerAgrees, NoHungAuction
<1>6. OneMintPerRound' /\ OneWinnerPerRound' /\ MintWithinCredit'
  BY <1>1, <1>2 DEF OneMintPerRound, OneWinnerPerRound, MintWithinCredit, Paid,
                    SoleBid
<1>7. MintedSoleBidderAwarded'
  BY <1>1, <1>2 DEF MintedSoleBidderAwarded, Paid, SoleBid
<1>8. ReceiptBacked'
  BY <1>1, <1>2 DEF ReceiptBacked, Paid, TypeOK
<1>. QED BY <1>4, <1>5, <1>6, <1>7, <1>8 DEF IInv, Safe

LEMMA NextInv == IInv /\ [Next]_vars => IInv'
<1>. SUFFICES ASSUME IInv, [Next]_vars PROVE IInv'
  OBVIOUS
<1>0. TypeOK'
  BY NextTypeOK DEF IInv, Safe
<1>1. ASSUME NEW t \in Tasks, Park(t) PROVE IInv'
  BY <1>0, <1>1, ParkInv
<1>2. ASSUME NEW t \in Tasks, RejectLate(t) PROVE IInv'
  BY <1>0, <1>2, RejectLateInv
<1>3. CASE BeginEvaluation
  BY <1>0, <1>3, BeginEvaluationInv
<1>4. ASSUME NEW b \in Bands, NEW model, PickWinner(b, model) PROVE IInv'
  BY <1>0, <1>4, PickWinnerInv
<1>5. CASE RejectAll
  BY <1>0, <1>5, RejectAllInv
<1>6. CASE SendMint
  BY <1>0, <1>6, SendMintInv
<1>10. ASSUME NEW i \in DOMAIN ledger, MintMined(i) PROVE IInv'
  BY <1>0, <1>10, MintMinedInv
<1>7. ASSUME NEW settled \in BOOLEAN, SettlerReturns(settled) PROVE IInv'
  BY <1>0, <1>7, SettlerReturnsInv
<1>8. CASE Restart
  BY <1>0, <1>8, RestartInv
<1>9. CASE UNCHANGED vars
  <2>1. /\ RoundsAgree' /\ PickAgrees' /\ LedgerAgrees'
    BY <1>9 DEF IInv, vars, RoundsAgree, PickAgrees, LedgerAgrees, SoleBid, InCredit
  <2>2. Safe'
    BY <1>9 DEF IInv, vars, Safe, NoHungAuction, OneMintPerRound, OneWinnerPerRound,
                MintedSoleBidderAwarded, ReceiptBacked, MintWithinCredit, Paid, SoleBid
  <2>. QED BY <1>0, <2>1, <2>2 DEF IInv
<1>. QED BY <1>1, <1>2, <1>3, <1>4, <1>5, <1>6, <1>7, <1>8, <1>9, <1>10
         DEF Next, WindowCloses, CapReached, Evaluate

-----------------------------------------------------------------------------
(* The auction never leaves its inductive invariant.                         *)
THEOREM AuctionInvariant == Spec => []IInv
<1>. QED BY InitInv, NextInv, PTL DEF Spec

(* Every variable keeps its type, and no mint exceeds the declared principal *)
(* whatever principal the bids asked for (executeBondMint's cap).            *)
THEOREM TypeCorrect == Spec => []TypeOK
<1>1. IInv => TypeOK
  BY DEF IInv
<1>. QED BY AuctionInvariant, <1>1, PTL

(* Timer, queued evaluation and settlement follow the life of the auction in *)
(* the registry's map.                                                       *)
THEOREM AuctionsNeverHang == Spec => []NoHungAuction
<1>1. IInv => NoHungAuction
  BY DEF IInv, Safe
<1>. QED BY AuctionInvariant, <1>1, PTL

(* However many bids, restarts and lost receipts, a round mints at most once.*)
THEOREM MintsAtMostOnce == Spec => []OneMintPerRound
<1>1. IInv => OneMintPerRound
  BY DEF IInv, Safe
<1>. QED BY AuctionInvariant, <1>1, PTL

(* A round awards the tasks of at most one bidder.                           *)
THEOREM AwardsAtMostOne == Spec => []OneWinnerPerRound
<1>1. IInv => OneWinnerPerRound
  BY DEF IInv, Safe
<1>. QED BY AuctionInvariant, <1>1, PTL

(* A bidder with a single bid that got the bond is never told it lost.       *)
THEOREM MintedAreTold == Spec => []MintedSoleBidderAwarded
<1>1. IInv => MintedSoleBidderAwarded
  BY DEF IInv, Safe
<1>. QED BY AuctionInvariant, <1>1, PTL

(* An award that quotes a mint is backed by one of its round, to its bidder. *)
THEOREM ReceiptsAreBacked == Spec => []ReceiptBacked
<1>1. IInv => ReceiptBacked
  BY DEF IInv, Safe
<1>. QED BY AuctionInvariant, <1>1, PTL

(* Awards and mints of a round match, both ways.                             *)
THEOREM AwardsMatch == Spec => []AwardsMatchMints
BY MintedAreTold, ReceiptsAreBacked, PTL DEF AwardsMatchMints

(* The reasoner cannot make the issuer mint a sole bid outside its credit    *)
(* bands.                                                                    *)
THEOREM MintsStayInCredit == Spec => []MintWithinCredit
<1>1. IInv => MintWithinCredit
  BY DEF IInv, Safe
<1>. QED BY AuctionInvariant, <1>1, PTL

(* No step takes an answer back: only parked bids are answered or lost.      *)
THEOREM AnswersStay == Spec => AnswersFinal
<1>1. ASSUME IInv, [Next]_vars
      PROVE  [\A t \in Tasks : outcome[t] \in {"awarded", "rejected"}
                                 => outcome'[t] = outcome[t]]_vars
  <2>1. /\ outcome \in [Tasks -> Outcome]
        /\ \A t \in Tasks : t \in Range(parked) => outcome[t] = "parked"
    BY <1>1 DEF IInv, TypeOK, RoundsAgree
  <2>2. ASSUME NEW W, NEW settled, Resolve(W, settled), NEW t \in Tasks,
               outcome[t] \in {"awarded", "rejected"}
        PROVE  outcome'[t] = outcome[t]
    BY <2>1, <2>2 DEF Resolve, Answers
  <2>. QED BY <1>1, <2>1, <2>2
           DEF Next, Park, RejectLate, WindowCloses, CapReached, BeginEvaluation,
               Evaluate, PickWinner, RejectAll, SendMint, MintMined, SettlerReturns, Restart
<1>. QED BY AuctionInvariant, <1>1, PTL DEF Spec, AnswersFinal

-----------------------------------------------------------------------------
(* Closing a round is one step of the promise: the winner is the minted one, *)
(* or nobody was minted to.                                                  *)
LEMMA ResolveKeeps ==
  ASSUME IInv, phase # "none", NEW W, NEW settled, Resolve(W, settled),
         W \subseteq Bidders, \A f, g \in W : f = g,
         sent => W \subseteq {bid[pick].fips}
  PROVE  Promise!CloseRound
<1>1. /\ TypeOK /\ RoundsAgree /\ NoHungAuction
  BY DEF IInv, Safe
<1>2. /\ bid' = bid /\ ledger' = ledger /\ sent' = FALSE
      /\ outcome' = Answers(W)
  BY DEF Resolve
<1>3. \A t \in Tasks : /\ t \in Range(parked) <=> outcome[t] = "parked"
                       /\ bid[t].fips \in Bidders
  BY <1>1, BondAssumption DEF RoundsAgree, TypeOK
<1>4. PICK f : IF W = {} THEN f = Silent ELSE W = {f}
  <2>1. CASE W = {}
    BY <2>1
  <2>2. CASE W # {}
    <3>1. PICK g : g \in W
      BY <2>2
    <3>2. W = {g}
      BY <3>1
    <3>. QED BY <2>2, <3>2
  <2>. QED BY <2>1, <2>2
<1>5. /\ f \in Bidders \cup {Silent}
      /\ \A t \in Tasks : bid[t].fips = f <=> bid[t].fips \in W
  BY <1>3, <1>4, BondAssumption
<1>6. Promise!Waiting # {}
  <2>1. parked # <<>> /\ parked \in Seq(Tasks)
    BY <1>1 DEF NoHungAuction, TypeOK
  <2>2. 1 \in DOMAIN parked
    BY <2>1
  <2>3. parked[1] \in Tasks /\ parked[1] \in Range(parked)
    BY <2>1, <2>2, RangeOfParked
  <2>. QED BY <1>3, <2>3 DEF Promise!Waiting
<1>7. f = Silent \/ (IF sent THEN bid[pick].fips ELSE Silent) \in {Silent, f}
  BY <1>4
<1>8. outcome' = [t \in Tasks |-> IF t \notin Promise!Waiting THEN outcome[t]
                   ELSE IF [u \in Tasks |-> bid[u].fips][t] = f
                        THEN "awarded" ELSE "rejected"]
  BY <1>2, <1>3, <1>5 DEF Answers, Promise!Waiting
<1>. QED BY <1>2, <1>5, <1>6, <1>7, <1>8 DEF Promise!CloseRound, Promise!Close

PromisedBond == [to : Bidders, minted : BOOLEAN]

(* A mint sent appends a bond to the promise's.                              *)
LEMMA BondsAppend ==
  ASSUME NEW s \in Seq(Mint), NEW m \in Mint
  PROVE  [i \in DOMAIN Append(s, m) |-> Bond(Append(s, m)[i])]
           = Append([i \in DOMAIN s |-> Bond(s[i])], Bond(m))
<1>. DEFINE p == [i \in 1..Len(s) |-> Bond(s[i])]
            q == [i \in 1..(Len(s) + 1) |-> Bond(Append(s, m)[i])]
<1>1. /\ Len(s) \in Nat /\ DOMAIN s = 1..Len(s)
      /\ DOMAIN Append(s, m) = 1..(Len(s) + 1)
      /\ \A i \in 1..Len(s) : s[i] \in Mint /\ Append(s, m)[i] = s[i]
      /\ Append(s, m)[Len(s) + 1] = m
  OBVIOUS
<1>2. p \in [1..Len(s) -> PromisedBond] /\ q \in [1..(Len(s) + 1) -> PromisedBond]
  BY <1>1 DEF Mint, Bond, PromisedBond
<1>3. p \in Seq(PromisedBond) /\ q \in Seq(PromisedBond) /\ Bond(m) \in PromisedBond
  <2>1. Len(s) + 1 \in Nat
    BY <1>1
  <2>. QED BY <1>1, <1>2, <2>1, SeqDef DEF Mint, Bond, PromisedBond
<1>4. /\ Len(p) = Len(s) /\ Len(q) = Len(s) + 1
      /\ \A i \in 1..Len(s) : p[i] = Bond(s[i]) /\ q[i] = Bond(s[i])
      /\ q[Len(s) + 1] = Bond(m)
  <2>1. /\ \A i \in 1..Len(s) : p[i] = Bond(s[i]) /\ q[i] = Bond(s[i])
        /\ q[Len(s) + 1] = Bond(m)
    BY <1>1
  <2>2. DOMAIN p = 1..Len(p) /\ DOMAIN q = 1..Len(q)
    BY <1>3, LenProperties
  <2>3. Len(p) = Len(s) /\ Len(q) = Len(s) + 1
    BY <1>1, <1>2, <1>3, <2>2
  <2>. QED BY <2>1, <2>3
<1>5. q = Append(p, Bond(m))
  <2>. HIDE DEF p, q
  <2>1. /\ Append(p, Bond(m)) \in Seq(PromisedBond) /\ Len(Append(p, Bond(m))) = Len(s) + 1
        /\ \A i \in 1..Len(s) : Append(p, Bond(m))[i] = p[i]
        /\ Append(p, Bond(m))[Len(s) + 1] = Bond(m)
    BY <1>1, <1>3, <1>4
  <2>2. \A i \in 1..Len(q) : q[i] = Append(p, Bond(m))[i]
    BY <1>1, <1>4, <2>1
  <2>. QED BY <1>3, <1>4, <2>1, <2>2, SeqEqual
<1>. QED BY <1>1, <1>5

(* Every step of the registry is a step of the promise or leaves it alone.   *)
LEMMA StepKeeps ==
  ASSUME IInv, IInv', [Next]_vars
  PROVE  [Promise!Next]_Promise!vars
<1>1. /\ TypeOK /\ RoundsAgree /\ PickAgrees /\ LedgerAgrees /\ NoHungAuction
  BY DEF IInv, Safe
<1>2. \A t \in Tasks : bid[t].fips \in Bidders
  BY <1>1, BondAssumption DEF TypeOK
<1>3. Promise!Waiting = {t \in Tasks : outcome[t] = "parked"}
  BY DEF Promise!Waiting
<1>4. phase # "none" => \E t \in Tasks : t \in Range(parked) /\ outcome[t] = "parked"
  <2>. SUFFICES ASSUME phase # "none"
                PROVE  \E t \in Tasks : t \in Range(parked) /\ outcome[t] = "parked"
    OBVIOUS
  <2>1. parked # <<>> /\ parked \in Seq(Tasks)
    BY <1>1 DEF NoHungAuction, TypeOK
  <2>2. 1 \in DOMAIN parked
    BY <2>1
  <2>3. parked[1] \in Tasks /\ parked[1] \in Range(parked)
    BY <2>1, <2>2, RangeOfParked
  <2>. QED BY <1>1, <2>3 DEF RoundsAgree
<1>5. ASSUME NEW t \in Tasks, Park(t) PROVE Promise!Place(t)
  <2>1. sent = FALSE
    BY <1>1, <1>5 DEF Park, Evaluating, LedgerAgrees, TypeOK
  <2>. QED BY <1>5, <2>1 DEF Park, Promise!Place
<1>6. ASSUME NEW t \in Tasks, RejectLate(t) PROVE Promise!TurnAway(t)
  <2>1. Promise!Waiting # {}
    BY <1>3, <1>4, <1>6 DEF RejectLate, Evaluating
  <2>. QED BY <1>6, <2>1 DEF RejectLate, Promise!TurnAway
<1>7. CASE BeginEvaluation
  BY <1>7 DEF BeginEvaluation, Promise!vars
<1>8. ASSUME NEW b \in Bands, NEW model, PickWinner(b, model)
      PROVE  UNCHANGED Promise!vars
  <2>1. sent = FALSE
    BY <1>1, <1>8 DEF PickWinner, LedgerAgrees, TypeOK
  <2>. QED BY <1>8, <2>1 DEF PickWinner, Promise!vars
<1>9. CASE RejectAll
  <2>1. PICK W : W = {}
    OBVIOUS
  <2>2. PICK settled : settled = FALSE
    OBVIOUS
  <2>3. phase # "none" /\ Resolve(W, settled) /\ \A f, g \in W : f = g
    BY <1>9, <2>1, <2>2 DEF RejectAll
  <2>4. Promise!CloseRound
    BY <2>1, <2>3, ResolveKeeps
  <2>. QED BY <2>4 DEF Promise!Next
<1>10. CASE SendMint
  <2>1. /\ pick \in Tasks /\ outcome[pick] = "parked" /\ sent = FALSE
        /\ sent' = TRUE /\ UNCHANGED <<bid, outcome, pick>>
    BY <1>1, <1>10 DEF SendMint, MintPending, PickAgrees, RoundsAgree, TypeOK
  <2>2. PICK f \in Bidders : f = bid[pick].fips
    BY <1>2, <2>1
  <2>3. [i \in DOMAIN ledger' |-> Bond(ledger'[i])]
          = Append([i \in DOMAIN ledger |-> Bond(ledger[i])],
                   [to |-> f, minted |-> FALSE])
    <3>1. PICK m \in Mint : /\ Bond(m) = [to |-> f, minted |-> FALSE]
                            /\ ledger' = Append(ledger, m)
      BY <1>1, <1>10, <2>1, <2>2, MintTyped DEF SendMint, Bond
    <3>2. ledger \in Seq(Mint)
      BY <1>1 DEF TypeOK
    <3>. QED BY <3>1, <3>2, BondsAppend
  <2>4. Promise!GrantTo(f)
    <3>1. \E t \in Promise!Waiting : [u \in Tasks |-> bid[u].fips][t] = f
      BY <1>3, <2>1, <2>2
    <3>2. /\ bid'[pick'].fips = f
          /\ [u \in Tasks |-> bid[u].fips]' = [u \in Tasks |-> bid[u].fips]
      BY <2>1, <2>2
    <3>. QED BY <2>1, <2>3, <3>1, <3>2 DEF Promise!GrantTo, Bond
  <2>. QED BY <2>4 DEF Promise!Next
<1>14. ASSUME NEW i \in DOMAIN ledger, MintMined(i) PROVE Promise!Next
  <2>1. ledger[i] \in Mint /\ \A j \in DOMAIN ledger : ledger[j] \in Mint
    BY <1>1, LedgerTyped
  <2>2. /\ [j \in DOMAIN ledger |-> Bond(ledger[j])]'
             = [[j \in DOMAIN ledger |-> Bond(ledger[j])] EXCEPT ![i].minted = TRUE]
        /\ ~ [j \in DOMAIN ledger |-> Bond(ledger[j])][i].minted
    BY <1>14, <2>1 DEF MintMined, Bond, Mint
  <2>3. Promise!Minted(i)
    BY <1>14, <2>2 DEF MintMined, Promise!Minted
  <2>. QED BY <2>3 DEF Promise!Next
<1>11. ASSUME NEW settled \in BOOLEAN, SettlerReturns(settled)
       PROVE  Promise!CloseRound
  <2>1. /\ winners \subseteq {bid[pick].fips} /\ winners \subseteq Bidders
        /\ phase # "none" /\ Resolve(winners, settled)
    BY <1>1, <1>11 DEF SettlerReturns, PickAgrees, TypeOK
  <2>. QED BY <2>1, ResolveKeeps
<1>12. CASE Restart
  <2>1. Promise!Waiting # {}
    BY <1>3, <1>4, <1>12 DEF Restart
  <2>2. outcome' = [t \in Tasks |-> IF t \in Promise!Waiting THEN "lost"
                                                          ELSE outcome[t]]
    BY <1>3, <1>12 DEF Restart
  <2>3. Promise!Lose
    BY <1>12, <2>1, <2>2 DEF Restart, Promise!Lose
  <2>. QED BY <2>3 DEF Promise!Next
<1>13. CASE UNCHANGED vars
  BY <1>13 DEF vars, Promise!vars
<1>. QED BY <1>5, <1>6, <1>7, <1>8, <1>9, <1>10, <1>11, <1>12, <1>13, <1>14
         DEF Next, WindowCloses, CapReached, Evaluate, Promise!Next

(* The registry implements the sealed-bid promise, restarts included; that   *)
(* every round also closes is left to the runs.                              *)
THEOREM ImplementsPromise == Spec => Promise!SafeSpec
<1>1. Init => Promise!Init
  <2>. SUFFICES ASSUME Init PROVE Promise!Init
    OBVIOUS
  <2>1. \A t \in Tasks : bid[t].fips \in Bidders
    BY BondAssumption DEF Init
  <2>. QED BY <2>1 DEF Init, Promise!Init
<1>2. IInv /\ IInv' /\ [Next]_vars => [Promise!Next]_Promise!vars
  BY StepKeeps
<1>. QED BY <1>1, <1>2, AuctionInvariant, PTL DEF Spec, Promise!SafeSpec

-----------------------------------------------------------------------------
(* The rating behind the bands. The table is monotone, and so is each part   *)
(* of the score that is added up.                                            *)

LEMMA ClipMonotone ==
  ASSUME NEW low \in Int, NEW high \in Int, low <= high, NEW m \in Int, NEW n \in Int, m <= n
  PROVE  /\ Clip(low, high, m) \in Int /\ Clip(low, high, n) \in Int
         /\ low <= Clip(low, high, m) /\ Clip(low, high, m) <= Clip(low, high, n)
         /\ Clip(low, high, n) <= high
  BY DEF Clip

LEMMA ReserveMonotone ==
  ASSUME NEW m \in Int, NEW n \in Int, m <= n
  PROVE  ReserveScore(m) \in Int /\ ReserveScore(n) \in Int /\ ReserveScore(m) <= ReserveScore(n)
<1> DEFINE c(k) == Clip(0, 500, k)
<1>1. c(m) \in Int /\ c(n) \in Int /\ c(m) <= c(n) BY ClipMonotone
<1> HIDE DEF c
<1>2. 21 * c(m) \in Int /\ 21 * c(n) \in Int /\ 21 * c(m) <= 21 * c(n) BY <1>1
<1>3. Points(60) \in Int /\ 0 <= Points(60) BY DEF Points
<1>4. QED BY <1>2, <1>3, ClipMonotone DEF ReserveScore, c

LEMMA MoreScoresMore ==
  ASSUME NEW m \in Reading, NEW n \in Reading, NotAbove(m, n)
  PROVE  /\ IncomeScore(m) \in Int /\ IncomeScore(n) \in Int /\ IncomeScore(m) <= IncomeScore(n)
         /\ GrowthBonus(m) \in Int /\ GrowthBonus(n) \in Int /\ GrowthBonus(m) <= GrowthBonus(n)
<1>0. Unknown \notin Int BY CreditAssumption DEF CreditAssumption
<1>1. CASE m = Unknown /\ n = Unknown
  BY <1>1 DEF IncomeScore, GrowthBonus, Points
<1>2. CASE m \in Int /\ n \in Int
  <2>1. m # Unknown /\ n # Unknown /\ m <= n BY <1>0, <1>2 DEF NotAbove
  <2>2. QED BY <1>2, <2>1 DEF IncomeScore, GrowthBonus, Points, Clip
<1>3. QED BY <1>0, <1>1, <1>2 DEF NotAbove, Reading

LEMMA MoreScoresLess ==
  ASSUME NEW m \in Reading, NEW n \in Reading, NotAbove(m, n)
  PROVE  /\ UnemploymentScore(m) \in Int /\ UnemploymentScore(n) \in Int
         /\ UnemploymentScore(n) <= UnemploymentScore(m)
         /\ PovertyPenalty(m) \in Int /\ PovertyPenalty(n) \in Int
         /\ PovertyPenalty(m) <= PovertyPenalty(n)
         /\ ShockPenalty(m) \in Int /\ ShockPenalty(n) \in Int /\ ShockPenalty(m) <= ShockPenalty(n)
<1>0. Unknown \notin Int BY CreditAssumption DEF CreditAssumption
<1>1. CASE m = Unknown /\ n = Unknown
  BY <1>1 DEF UnemploymentScore, PovertyPenalty, ShockPenalty, Points
<1>2. CASE m \in Int /\ n \in Int
  <2>1. m # Unknown /\ n # Unknown /\ m <= n BY <1>0, <1>2 DEF NotAbove
  <2>2. QED
    BY <1>2, <2>1 DEF UnemploymentScore, PovertyPenalty, ShockPenalty, Points, Clip
<1>3. QED BY <1>0, <1>1, <1>2 DEF NotAbove, Reading

LEMMA ScoreMonotone ==
  ASSUME NEW tags, NEW x \in Reports, NEW y \in Reports, Weaker(x, y)
  PROVE  /\ Score(tags, x) \in Nat /\ Score(tags, y) \in Nat
         /\ Score(tags, x) <= Score(tags, y)
<1>1. /\ x.reserve \in Int /\ y.reserve \in Int
      /\ {x.unemployment, x.income, x.gdp, x.poverty, x.shock} \subseteq Reading
      /\ {y.unemployment, y.income, y.gdp, y.poverty, y.shock} \subseteq Reading
  BY CreditAssumption DEF CreditAssumption
<1>2. /\ ReserveScore(x.reserve) \in Int /\ ReserveScore(y.reserve) \in Int
      /\ ReserveScore(x.reserve) <= ReserveScore(y.reserve)
  BY <1>1, ReserveMonotone DEF Weaker, NotAbove
<1>3. /\ IncomeScore(x.income) \in Int /\ IncomeScore(y.income) \in Int
      /\ IncomeScore(x.income) <= IncomeScore(y.income)
      /\ GrowthBonus(x.gdp) \in Int /\ GrowthBonus(y.gdp) \in Int
      /\ GrowthBonus(x.gdp) <= GrowthBonus(y.gdp)
  BY <1>1, MoreScoresMore DEF Weaker
<1>4. /\ UnemploymentScore(x.unemployment) \in Int /\ UnemploymentScore(y.unemployment) \in Int
      /\ UnemploymentScore(x.unemployment) <= UnemploymentScore(y.unemployment)
      /\ PovertyPenalty(x.poverty) \in Int /\ PovertyPenalty(y.poverty) \in Int
      /\ PovertyPenalty(y.poverty) <= PovertyPenalty(x.poverty)
      /\ ShockPenalty(x.shock) \in Int /\ ShockPenalty(y.shock) \in Int
      /\ ShockPenalty(y.shock) <= ShockPenalty(x.shock)
  BY <1>1, MoreScoresLess DEF Weaker
<1>5. PersonaPenalty(tags) \in Int BY DEF PersonaPenalty, Points
<1> DEFINE total(r) ==
      ReserveScore(r.reserve) + UnemploymentScore(r.unemployment) + IncomeScore(r.income)
      + GrowthBonus(r.gdp)
      - (PersonaPenalty(tags) + PovertyPenalty(r.poverty) + ShockPenalty(r.shock))
<1>6. total(x) \in Int /\ total(y) \in Int /\ total(x) <= total(y)
  BY <1>2, <1>3, <1>4, <1>5
<1>7. Score(tags, x) = Clip(0, 14000, total(x)) /\ Score(tags, y) = Clip(0, 14000, total(y))
  BY DEF Score, Points
<1> HIDE DEF total
<1>8. QED BY <1>6, <1>7 DEF Clip

(* Every score has its tier, and a lower score no earlier one.               *)
LEMMA TierExists ==
  ASSUME NEW s \in Nat
  PROVE  /\ TierOf(s) \in Tiers /\ s >= Points(MinScore[TierOf(s)])
         /\ \A j \in Tiers : s >= Points(MinScore[j]) => TierOf(s) <= j
<1> DEFINE Meets(i) == s >= Points(MinScore[i])
           First(i) == Meets(i) /\ \A j \in Tiers : Meets(j) => i <= j
<1>1. Meets(14) BY DEF Points, MinScore
<1>2. \E i \in Tiers : First(i)
  <2> HIDE DEF Meets
  <2>1. CASE Meets(1) BY <2>1 DEF Tiers
  <2>2. CASE ~ Meets(1) BY <1>1, <2>2 DEF Tiers
  <2>3. QED BY <2>1, <2>2
<1>3. QED BY <1>2 DEF TierOf

LEMMA TableMonotone ==
  ASSUME NEW i \in Tiers, NEW j \in Tiers, i <= j
  PROVE  Floor[i] <= Floor[j] /\ Ceiling[i] <= Ceiling[j]
  BY DEF Tiers, Floor, Ceiling

LEMMA BandsMonotone ==
  ASSUME NEW tags, NEW x \in Reports, NEW y \in Reports, Weaker(x, y)
  PROVE  LET bad == AssessCredit(tags, x)
             good == AssessCredit(tags, y)
         IN  /\ {bad.floor, bad.ceiling, good.floor, good.ceiling} \subseteq Int
             /\ bad.floor >= good.floor /\ bad.ceiling >= good.ceiling
<1> DEFINE s == Score(tags, x)
           t == Score(tags, y)
<1>1. s \in Nat /\ t \in Nat /\ s <= t BY ScoreMonotone
<1> HIDE DEF s, t
<1>2. /\ TierOf(s) \in Tiers /\ s >= Points(MinScore[TierOf(s)])
      /\ TierOf(t) \in Tiers /\ \A j \in Tiers : t >= Points(MinScore[j]) => TierOf(t) <= j
  BY <1>1, TierExists
<1>3. \A i \in Tiers : MinScore[i] \in Int BY DEF Tiers, MinScore
<1>4. t >= Points(MinScore[TierOf(s)]) BY <1>1, <1>2, <1>3 DEF Points
<1>5. TierOf(t) <= TierOf(s) BY <1>2, <1>4
<1>6. Floor[TierOf(t)] <= Floor[TierOf(s)] /\ Ceiling[TierOf(t)] <= Ceiling[TierOf(s)]
  BY <1>2, <1>5, TableMonotone
<1>7. \A i \in Tiers : Floor[i] \in Int /\ Ceiling[i] \in Int BY DEF Tiers, Floor, Ceiling
<1>8. QED BY <1>2, <1>6, <1>7 DEF AssessCredit, s, t

(* No bid in play is too low for an issuer that would take it if it were     *)
(* weaker in its reserve or economy, nor too high for it being weaker        *)
(* (credit-rating.ts, assessCredit, as evaluateBondAuction applies it).      *)
THEOREM WeakerPaysMore == Spec => []WorseNeverCheaper
<1>1. TypeOK => WorseNeverCheaper
  <2> SUFFICES ASSUME TypeOK, NEW i \in DOMAIN parked, NEW c \in Comparisons
               PROVE  LET y == bid[parked[i]].yield IN
                      /\ c.weaker.floor <= y => c.sounder.floor <= y
                      /\ y <= c.sounder.ceiling => y <= c.weaker.ceiling
    BY DEF WorseNeverCheaper
  <2>1. PICK d \in (SUBSET Tags) \X Reports \X Reports :
          /\ Weaker(d[2], d[3])
          /\ c = [weaker |-> AssessCredit(d[1], d[2]), sounder |-> AssessCredit(d[1], d[3])]
    BY DEF Comparisons
  <2>2. d[2] \in Reports /\ d[3] \in Reports
    BY <2>1
  <2>3. /\ {c.weaker.floor, c.weaker.ceiling, c.sounder.floor, c.sounder.ceiling} \subseteq Int
        /\ c.weaker.floor >= c.sounder.floor /\ c.weaker.ceiling >= c.sounder.ceiling
    BY <2>1, <2>2, BandsMonotone
  <2>4. bid[parked[i]].yield \in Int
    <3>1. parked[i] \in Tasks BY DEF TypeOK
    <3>2. bid[parked[i]] \in [fips : Bidders, yield : Nat, principal : Nat]
      BY <3>1, BondAssumption DEF TypeOK, BondAssumption
    <3>3. QED BY <3>2
  <2>5. QED BY <2>3, <2>4
<1>2. QED BY TypeCorrect, <1>1, PTL

=============================================================================
