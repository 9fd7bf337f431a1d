---------------------------- MODULE BondAuction ----------------------------
(***************************************************************************)
(* The issuer's side of one bond's auction: BondAuctionRegistry, the       *)
(* evaluator and the mint settler that handleBondBid gives it, and the     *)
(* BondToken the settler mints.  The registry keeps one independent        *)
(* auction per bond_id, so one bond stands for all of them.                *)
(*                                                                         *)
(* A task is one inbound A2A message/send; its bid is fixed by the         *)
(* message.  Every `await` of the code is a boundary between two actions:  *)
(* other bids arrive while the evaluator (data plane, LLM) or the mint     *)
(* transaction is pending, and the agent process can restart there.        *)
(***************************************************************************)
EXTENDS CreditRating, Sequences, Functions

CONSTANTS
  Tasks,      (* inbound bond-auction tasks                                 *)
  Bidders,    (* FIPS codes of the states that bid                          *)
  Bids,       (* what a message may offer: [fips, yield, principal]         *)
  Bands,      (* credit floors and ceilings the assessment may return       *)
  MaxBids,    (* cfg.maxBidsForEval                                         *)
  Principal,  (* the bond's declared principal                              *)
  NoTask,     (* no winning bid                                             *)
  Silent      (* the reasoner is off, failed, or named nobody eligible      *)

ASSUME BondAssumption ==
  /\ Bids \subseteq [fips : Bidders, yield : Nat, principal : Nat]
  /\ Bands \subseteq [floor : Nat, ceiling : Nat]
  /\ MaxBids \in Nat \ {0}
  /\ Principal \in Nat
  /\ NoTask \notin Tasks
  /\ Silent \notin Bidders

VARIABLES
  bid,      (* the bid each task's message carries                          *)
  outcome,  (* the promise of submitBidAndAwait, per task                   *)
  receipt,  (* tasks whose award carries mint metadata                      *)
  phase,    (* the AuctionState in the map: "none" when the key is absent   *)
  parked,   (* auction.parked, in arrival order                             *)
  timer,    (* auction.timer is armed                                       *)
  queued,   (* a runEvaluation microtask is queued                          *)
  pick,     (* the task whose bid the settler mints                         *)
  winners,  (* the bidders whose verdict is "awarded"                       *)
  sent,     (* the settler sent this round's mint transaction               *)
  ledger,   (* the mint transactions sent, in nonce order, mined or not     *)
  round,    (* history: auctions opened so far                              *)
  joined    (* history: the round a task was parked in, 0 if in none        *)

vars == <<bid, outcome, receipt, phase, parked, timer, queued, pick, winners,
          sent, ledger, round, joined>>

Outcome == {"idle", "parked", "awarded", "rejected", "lost"}
Phase == {"none", "open", "evaluating", "settling"}
Mint == [to : Bidders, amount : 0..Principal, round : Nat, mined : BOOLEAN]

(* Types, with the cap of a single mint: no more than the bond's declared    *)
(* principal, whatever the bid asked for.                                    *)
TypeOK ==
  /\ bid \in [Tasks -> Bids]
  /\ outcome \in [Tasks -> Outcome]
  /\ receipt \in SUBSET Tasks
  /\ phase \in Phase
  /\ parked \in Seq(Tasks)
  /\ timer \in BOOLEAN /\ queued \in BOOLEAN /\ sent \in BOOLEAN
  /\ pick \in Tasks \cup {NoTask}
  /\ winners \in SUBSET Bidders
  /\ ledger \in Seq(Mint)
  /\ round \in Nat
  /\ joined \in [Tasks -> Nat]

Init ==
  /\ bid \in [Tasks -> Bids]
  /\ outcome = [t \in Tasks |-> "idle"]
  /\ receipt = {} /\ phase = "none" /\ parked = <<>>
  /\ timer = FALSE /\ queued = FALSE
  /\ pick = NoTask /\ winners = {} /\ sent = FALSE
  /\ ledger = <<>> /\ round = 0 /\ joined = [t \in Tasks |-> 0]

-----------------------------------------------------------------------------
(* The evaluator: evaluateBondAuction over the parked bids.                  *)

Eligible(b) == {i \in DOMAIN parked : /\ b.floor <= bid[parked[i]].yield
                                      /\ bid[parked[i]].yield <= b.ceiling}

(* The stable sort of the eligible bids: yield ascending, then principal     *)
(* descending, then arrival.                                                 *)
Before(i, j) ==
  LET x == bid[parked[i]]  y == bid[parked[j]] IN
  \/ x.yield < y.yield
  \/ x.yield = y.yield /\ x.principal > y.principal
  \/ x.yield = y.yield /\ x.principal = y.principal /\ i < j

(* w is first in the sorted list restricted to S.                            *)
Best(S, w) == w \in S /\ \A j \in S \ {w} : Before(w, j)

(* Faulty variant: the reasoner's choice is not held to the credit band.     *)
TrustReasoner(b, model, w) ==
  Best({i \in DOMAIN parked : bid[parked[i]].fips = model}, w)

(* The winning bid: the best of the bidder the reasoner named, if it has an  *)
(* eligible bid, and the best eligible bid otherwise.                        *)
Wins(b, model, w) ==
  LET E == Eligible(b)
      M == {i \in E : bid[parked[i]].fips = model}
  IN  Best(IF M = {} THEN E ELSE M, w)

(* A faulty variant: the settler takes the first parked bid, whoever won.    *)
FirstArrival(w, i) == i = 1

(* Any one ineligible bid of a bidder turns its verdict into "rejected".     *)
Awarded(b, w) ==
  {f \in {bid[parked[w]].fips} :
     \A i \in DOMAIN parked : bid[parked[i]].fips = f => i \in Eligible(b)}

(* The registry settles with the first parked bid of the winner's FIPS.      *)
FirstOf(w, i) ==
  /\ i \in DOMAIN parked
  /\ bid[parked[i]].fips = bid[parked[w]].fips
  /\ \A j \in 1..(i - 1) : bid[parked[j]].fips # bid[parked[w]].fips

MintAmount(t) == IF bid[t].principal > Principal THEN Principal
                                                 ELSE bid[t].principal

-----------------------------------------------------------------------------
(* submitBidAndAwait.                                                        *)

(* Faulty variant: the timer is armed by the second bid.                     *)
ArmedLate(n) == n > 1 /\ n < MaxBids

(* auction.evaluating: a bid that finds it set is answered at once.          *)
Evaluating == phase \in {"evaluating", "settling"}

(* The timer once n bids are parked: armed by the first, cleared by the cap. *)
Armed(n) == n < MaxBids

(* A bid is parked; the first one opens the auction.                         *)
Park(t) ==
  LET n == Len(parked) + 1
      r == IF phase = "none" THEN round + 1 ELSE round
  IN  /\ outcome[t] = "idle"
      /\ ~ Evaluating
      /\ outcome' = [outcome EXCEPT ![t] = "parked"]
      /\ phase' = "open"
      /\ parked' = Append(parked, t)
      /\ timer' = Armed(n)
      /\ queued' = (n >= MaxBids)
      /\ round' = r
      /\ joined' = [joined EXCEPT ![t] = r]
      /\ UNCHANGED <<bid, receipt, pick, winners, sent, ledger>>

(* The window already closed: rejected without parking.                      *)
RejectLate(t) ==
  /\ outcome[t] = "idle"
  /\ Evaluating
  /\ outcome' = [outcome EXCEPT ![t] = "rejected"]
  /\ UNCHANGED <<bid, receipt, phase, parked, timer, queued, pick, winners,
                 sent, ledger, round, joined>>

-----------------------------------------------------------------------------
(* runEvaluation.                                                            *)

BeginEvaluation ==
  /\ phase = "open"
  /\ phase' = "evaluating"
  /\ timer' = FALSE
  /\ queued' = FALSE
  /\ UNCHANGED <<bid, outcome, receipt, parked, pick, winners, sent, ledger,
                 round, joined>>

WindowCloses == timer /\ BeginEvaluation

CapReached == queued /\ BeginEvaluation

(* Faulty variant: only the awarded bidders get an answer.                   *)
AnswerWinners(W) ==
  [t \in Tasks |-> IF t \in Range(parked) /\ bid[t].fips \in W
                  THEN "awarded" ELSE outcome[t]]

(* Every parked bid is answered with the verdict of its FIPS.                *)
Answers(W) ==
  [t \in Tasks |-> IF t \in Range(parked)
                  THEN IF bid[t].fips \in W THEN "awarded" ELSE "rejected"
                  ELSE outcome[t]]

(* auctions.delete(bondId): nothing of the round is left in the map.         *)
Deleted == <<>>

(* The last block of runEvaluation; `settled` when the settler returned the  *)
(* mint's metadata, which only the winner's awards carry.                    *)
Resolve(W, settled) ==
  /\ outcome' = Answers(W)
  /\ receipt' = receipt \cup {t \in Range(parked) : settled /\ bid[t].fips \in W}
  /\ phase' = "none"
  /\ parked' = Deleted
  /\ pick' = NoTask
  /\ winners' = {}
  /\ sent' = FALSE
  /\ UNCHANGED <<bid, timer, queued, ledger, round, joined>>

(* The evaluator names a winner: its bid goes to the settler.                *)
PickWinner(b, model) ==
  /\ phase = "evaluating"
  /\ \E w, i \in DOMAIN parked :
       /\ Wins(b, model, w)
       /\ FirstOf(w, i)
       /\ pick' = parked[i]
       /\ winners' = Awarded(b, w)
  /\ phase' = "settling"
  /\ UNCHANGED <<bid, outcome, receipt, parked, timer, queued, sent, ledger,
                 round, joined>>

(* No bid is eligible, the reasoner refused to award, or the evaluator       *)
(* threw: every bid is rejected and nothing is settled.                      *)
RejectAll ==
  /\ phase = "evaluating"
  /\ Resolve({}, FALSE)

(* Faulty variant: the mint is sent again while its receipt is awaited.      *)
MintAgain == TRUE

MintPending == ~ sent

(* executeBondMint: mintBond sends the transaction.                          *)
SendMint ==
  /\ phase = "settling"
  /\ MintPending
  /\ sent' = TRUE
  /\ ledger' = Append(ledger, [to |-> bid[pick].fips, round |-> round,
                              amount |-> MintAmount(pick), mined |-> FALSE])
  /\ UNCHANGED <<bid, outcome, receipt, phase, parked, timer, queued, pick,
                 winners, round, joined>>

(* A mint sent is included in a block: while the settler waits for it, or    *)
(* after it gave up on the receipt, or after the issuer restarted.           *)
MintMined(i) ==
  /\ ~ ledger[i].mined
  /\ ledger' = [ledger EXCEPT ![i].mined = TRUE]
  /\ UNCHANGED <<bid, outcome, receipt, phase, parked, timer, queued, pick,
                 winners, sent, round, joined>>

RoundMinted == \E i \in DOMAIN ledger : ledger[i].round = round /\ ledger[i].mined

(* The settler returns: the receipt of its mined mint, or null (no executor, *)
(* no wallet, a revert, no receipt in time).  The award goes out either way. *)
SettlerReturns(settled) ==
  /\ phase = "settling"
  /\ settled => sent /\ RoundMinted
  /\ Resolve(winners, settled)

(* The agent process restarts: the registry lives in its memory only.        *)
Restart ==
  /\ phase # "none"
  /\ outcome' = [t \in Tasks |-> IF outcome[t] = "parked" THEN "lost"
                                                        ELSE outcome[t]]
  /\ phase' = "none" /\ parked' = <<>>
  /\ timer' = FALSE /\ queued' = FALSE
  /\ pick' = NoTask /\ winners' = {} /\ sent' = FALSE
  /\ UNCHANGED <<bid, receipt, ledger, round, joined>>

-----------------------------------------------------------------------------
Evaluate ==
  \/ \E b \in Bands, model \in Bidders \cup {Silent} : PickWinner(b, model)
  \/ RejectAll

Next ==
  \/ \E t \in Tasks : Park(t) \/ RejectLate(t)
  \/ WindowCloses
  \/ CapReached
  \/ Evaluate
  \/ SendMint
  \/ \E i \in DOMAIN ledger : MintMined(i)
  \/ \E settled \in BOOLEAN : SettlerReturns(settled)
  \/ Restart

Spec == Init /\ [][Next]_vars

(* Timers and microtasks run; the data plane, the reasoner and the RPC node  *)
(* answer or time out.  Nobody owes the auction a bid, a mint or a restart.  *)
Fairness ==
  /\ WF_vars(WindowCloses)
  /\ WF_vars(CapReached)
  /\ WF_vars(Evaluate)
  /\ WF_vars(SettlerReturns(FALSE))

FairSpec == Spec /\ Fairness

-----------------------------------------------------------------------------
(* t is the only bid its bidder has in its round.                            *)
SoleBid(t) ==
  \A u \in Tasks : joined[u] = joined[t] /\ bid[u].fips = bid[t].fips => u = t

(* t is the bid of its round that the mint m went to.                        *)
Paid(m, t) == joined[t] = m.round /\ bid[t].fips = m.to

(* An auction in the map never hangs: while it takes bids either its timer   *)
(* is armed or its evaluation is queued, never both, and no timer outlives   *)
(* it to hit the next auction of the same bond.                              *)
NoHungAuction ==
  /\ phase = "none" <=> parked = <<>>
  /\ phase = "open" => timer # queued
  /\ phase # "open" => ~ timer /\ ~ queued
  /\ phase = "settling" <=> pick # NoTask

(* One auction sends at most one mint, whatever the order of late bids,      *)
(* receipts and restarts.                                                    *)
OneMintPerRound ==
  \A i, j \in DOMAIN ledger : ledger[i].round = ledger[j].round => i = j

(* One auction awards at most one bidder.                                    *)
OneWinnerPerRound ==
  \A t, u \in Tasks :
    outcome[t] = "awarded" /\ outcome[u] = "awarded" /\ joined[t] = joined[u]
      => bid[t].fips = bid[u].fips

(* A bidder with one bid in the round that gets the bond is told so: its     *)
(* task is never rejected once the mint is sent. One with several bids may   *)
(* be: verdicts are by bidder, and one bid out of credit rejects them all.   *)
MintedSoleBidderAwarded ==
  \A i \in DOMAIN ledger, t \in Tasks :
    Paid(ledger[i], t) /\ SoleBid(t) =>
      \/ outcome[t] \in {"awarded", "lost"}
      \/ outcome[t] = "parked" /\ pick = t

(* An award that quotes a mint transaction has one on the chain.             *)
ReceiptBacked ==
  \A t \in receipt : /\ outcome[t] = "awarded"
                     /\ \E i \in DOMAIN ledger : Paid(ledger[i], t) /\ ledger[i].mined

(* The awards a round gives and the mints it sends match, both ways: the     *)
(* sole bid that is minted is told so, and who is quoted a mint has it.      *)
AwardsMatchMints == MintedSoleBidderAwarded /\ ReceiptBacked

(* A bid that is the bidder's only one and is minted lies inside a credit    *)
(* band of the issuer, whatever the reasoner answered.                       *)
MintWithinCredit ==
  \A i \in DOMAIN ledger, t \in Tasks :
    Paid(ledger[i], t) /\ SoleBid(t) =>
      \E b \in Bands : b.floor <= bid[t].yield /\ bid[t].yield <= b.ceiling

(* An issuer that is weaker in what it reads never asks for lower yields: no *)
(* bid in play is high enough for it that a sounder one finds too low, nor   *)
(* too high for it when a sounder one would take it.                         *)
WorseNeverCheaper ==
  \A i \in DOMAIN parked, c \in Comparisons :
    LET y == bid[parked[i]].yield IN
    /\ c.weaker.floor <= y => c.sounder.floor <= y
    /\ y <= c.sounder.ceiling => y <= c.weaker.ceiling

(* An answer is final: neither a later round, nor a restart, nor a late      *)
(* receipt changes what a bidder was told.                                   *)
AnswersFinal ==
  [][\A t \in Tasks : outcome[t] \in {"awarded", "rejected"}
                        => outcome'[t] = outcome[t]]_vars

Bond(m) == [to |-> m.to, minted |-> m.mined]

(* The auction as its bidders see it.                                        *)
Promise == INSTANCE SealedBids WITH
  NoBidder <- Silent,
  fips <- [t \in Tasks |-> bid[t].fips],
  promise <- outcome,
  grantee <- IF sent THEN bid[pick].fips ELSE Silent,
  bonds <- [i \in DOMAIN ledger |-> Bond(ledger[i])]

(* The registry keeps the promise made to bidders: rounds close whole, with  *)
(* at most one winner and one mint, and every round closes or is lost.       *)
KeepsPromise == Promise!Spec

=============================================================================
