----------------------------- MODULE AgentWallet -----------------------------
(***************************************************************************)
(* The wallet of one agent and those who spend from it: the tick's         *)
(* automatic rebalance, and the handlers that pay emergency aid and, on    *)
(* the Treasury, federal transfers. Each sends transactions that are       *)
(* mined in the order of their nonces, sooner or later, and awaits their   *)
(* receipts; the tick decides on balances that it read before.             *)
(***************************************************************************)
EXTENDS Integers, Sequences

CONSTANTS
  Requests,       \* aid requests and federal transfers that may be asked for
  Amounts,        \* of them, in dollars; 0 is less than one
  Holdings,       \* balances a wallet may start with
  Bonds,          \* worth of its bonds, which nobody sells
  TargetPercent, DriftPercent, MinSwap, MaxSwap, CooldownTicks, ChainRefreshEveryN,
  Faults,         \* kinds of faults that happen
  MaxFaults       \* bound on them

ASSUME WalletAssumption ==
  /\ Amounts \subseteq Nat /\ Bonds \in Nat
  /\ Holdings \subseteq [usdc : Nat, token : Nat]
  /\ DriftPercent <= TargetPercent
  /\ {TargetPercent, DriftPercent, MinSwap, MaxSwap, CooldownTicks, MaxFaults} \subseteq Nat
  /\ MinSwap <= MaxSwap
  /\ ChainRefreshEveryN \in Nat \ {0}
  /\ Faults \subseteq {"receipt", "reverted", "rpc", "partial", "api", "crash"}

VARIABLES
  role,           \* cfg.state: a member state or the Treasury
  wallet,         \* balances on the chain
  pool,           \* transactions on their way
  live,           \* of the AgentState: what the rebalance reads
  saved,          \* the same on disk
  tick,           \* where the tick stands
  stage, kind,    \* where the handler of a request stands, and what it asks for
  amount,         \* what is asked for, and then what is offered
  answer,
  paid,           \* history: what arrived of the payments of a request
  faults

handlerVars == <<stage, kind, amount, answer>>
vars == <<role, wallet, pool, live, saved, tick, handlerVars, paid, faults>>

Unread == [usdc |-> 0, token |-> 0, read |-> FALSE]
Reading(usdc, token) == [usdc |-> usdc, token |-> token, read |-> TRUE]

Init ==
  /\ role \in {"state", "treasury"}
  /\ wallet \in Holdings
  /\ pool = <<>>
  /\ live = [seen |-> Unread, cooling |-> 0, phase |-> 0]
  /\ saved = live
  /\ tick = "idle"
  /\ stage = [r \in Requests |-> "idle"]
  /\ kind = [r \in Requests |-> "aid"]
  /\ amount = [r \in Requests |-> 0]
  /\ answer = [r \in Requests |-> "none"]
  /\ paid = [r \in Requests |-> 0]
  /\ faults = 0

Fault(f) == f \in Faults /\ faults < MaxFaults /\ faults' = faults + 1

-----------------------------------------------------------------------------
(* handleAidRequest and issue_federal_transfer                               *)

Ask(r, k, a) ==
  /\ stage[r] = "idle"
  /\ k = "federal" => role = "treasury"
  /\ stage' = [stage EXCEPT ![r] = "deciding"]
  /\ kind' = [kind EXCEPT ![r] = k]
  /\ amount' = [amount EXCEPT ![r] = a]
  /\ UNCHANGED <<role, wallet, pool, live, saved, tick, answer, paid, faults>>

Answered(r, a) ==
  /\ stage' = [stage EXCEPT ![r] = "done"]
  /\ answer' = [answer EXCEPT ![r] = a]

(* A request without a transfer to claim: an offer without settlement        *)
(* metadata, a federal transfer that is not approved.                        *)
Unsettled(r) == IF kind[r] = "aid" THEN "offered" ELSE "refused"

Total(b) == b.usdc + b.token + Bonds

(* aidFallback: a quarter, when the reserve ratio exceeds 0.10.              *)
AidFallback(r) ==
  /\ 10 * live.seen.usdc > Total(live.seen)
  /\ amount' = [amount EXCEPT ![r] = @ \div 4]

(* The reasoner's offer is not held to what was asked for. Less than a       *)
(* dollar is not transferred.                                                *)
Offer(r) ==
  /\ stage[r] = "deciding"
  /\ CASE kind[r] = "aid" ->
            AidFallback(r) \/ \E a \in Amounts : amount' = [amount EXCEPT ![r] = a]
       [] OTHER -> UNCHANGED amount
  /\ IF kind[r] = "aid" /\ amount'[r] = 0
       THEN Answered(r, "offered")
       ELSE stage' = [stage EXCEPT ![r] = "paying"] /\ UNCHANGED answer
  /\ UNCHANGED <<role, wallet, pool, live, saved, tick, kind, paid, faults>>

Decline(r) ==
  /\ stage[r] = "deciding"
  /\ Answered(r, IF kind[r] = "aid" THEN "declined" ELSE "refused")
  /\ UNCHANGED <<role, wallet, pool, live, saved, tick, kind, amount, paid, faults>>

(* payIssuer. The estimate of a transfer that the balance does not cover     *)
(* fails, whatever is on its way already.                                    *)
SendPayment(r) ==
  /\ stage[r] = "paying"
  /\ wallet.usdc >= amount[r]
  /\ pool' = Append(pool, [for |-> r, does |-> "pay", amount |-> amount[r], awaited |-> TRUE])
  /\ stage' = [stage EXCEPT ![r] = "awaiting"]
  /\ UNCHANGED <<role, wallet, live, saved, tick, kind, amount, answer, paid, faults>>

(* No executor, address or deployment; or the call throws.                   *)
CannotPay(r) ==
  /\ stage[r] = "paying"
  /\ Answered(r, Unsettled(r))
  /\ UNCHANGED <<role, wallet, pool, live, saved, tick, kind, amount, paid, faults>>

(* Faulty variant: aid does not look at the receipt's status either.         *)
SettlementUnchecked(r, success) == IF kind[r] = "aid" THEN "settled" ELSE "approved"

(* What is answered once the receipt is there: aid names a settlement if it  *)
(* succeeded, a federal transfer is approved in either case.                 *)
Settlement(r, success) ==
  IF kind[r] = "federal" THEN "approved"
  ELSE IF success THEN "settled" ELSE "offered"

(* Faulty variant: the payment is tried again.                               *)
LostAndRetried(r) ==
  /\ stage' = [stage EXCEPT ![r] = "paying"]
  /\ UNCHANGED answer

Lost(r) == Answered(r, Unsettled(r))

-----------------------------------------------------------------------------
(* The tick: read the balances, rebalance, save                              *)

Least(a, b) == IF a < b THEN a ELSE b
Clamp(v) == IF v < MinSwap THEN MinSwap ELSE Least(v, MaxSwap)

(* Faulty variant: the balances are only read when there are none.           *)
RefreshUnread(phase) == ~live.seen.read

RefreshDue(phase) == ~live.seen.read \/ phase = 0

BeginTick ==
  /\ tick = "idle"
  /\ LET phase == (live.phase + 1) % ChainRefreshEveryN
     IN /\ tick' = IF RefreshDue(phase) THEN "reading" ELSE "deciding"
        /\ live' = [live EXCEPT !.phase = phase,
                                !.cooling = IF @ = 0 THEN 0 ELSE @ - 1]
  /\ UNCHANGED <<role, wallet, pool, saved, handlerVars, paid, faults>>

(* A refresh before the decision, and one after a swap.                      *)
Refreshed(seen) ==
  /\ tick \in {"reading", "rereading"}
  /\ live' = [live EXCEPT !.seen = seen]
  /\ tick' = IF tick = "reading" THEN "deciding" ELSE "saving"
  /\ UNCHANGED <<role, wallet, pool, saved, handlerVars, paid>>

Refresh == Refreshed(Reading(wallet.usdc, wallet.token)) /\ UNCHANGED faults

RefreshFails == Fault("rpc") /\ Refreshed(live.seen)

(* The call for one token may fail within the multicall: its balance is 0.   *)
RefreshPartly ==
  /\ Fault("partial")
  /\ Refreshed(Reading(0, wallet.token)) \/ Refreshed(Reading(wallet.usdc, 0))

(* The ratio against the target, in percent of the total.                    *)
Low(b)  == 100 * b.usdc < (TargetPercent - DriftPercent) * Total(b)
High(b) == 100 * b.usdc > (TargetPercent + DriftPercent) * Total(b)

BuyAmount(b)  == Least(Clamp((TargetPercent * Total(b) - 100 * b.usdc) \div 100), b.token)
SellAmount(b) == Least(Clamp((100 * b.usdc - TargetPercent * Total(b)) \div 100), b.usdc)

(* What the rebalance does with the balances it knows: the swap and its size.*)
Swap(b) == IF Low(b) THEN [does |-> "buy_usdc", amount |-> BuyAmount(b)]
                     ELSE [does |-> "sell_usdc", amount |-> SellAmount(b)]

Rebalances ==
  /\ tick = "deciding"
  /\ role = "state" /\ live.seen.read /\ live.cooling = 0
  /\ Low(live.seen) \/ High(live.seen)
  /\ Swap(live.seen).amount > 0

(* swapExecutor.swap: a failing estimate does not keep it from being sent.   *)
SendSwap ==
  /\ Rebalances
  /\ pool' = Append(pool, [for |-> "tick", does |-> Swap(live.seen).does,
                           amount |-> Swap(live.seen).amount, awaited |-> TRUE])
  /\ tick' = "swapping"
  /\ UNCHANGED <<role, wallet, live, saved, handlerVars, paid, faults>>

(* An approval, a quote or a signature fails: no swap, and no cooldown.      *)
SwapFails ==
  /\ Rebalances
  /\ Fault("api")
  /\ tick' = "saving"
  /\ UNCHANGED <<role, wallet, pool, live, saved, handlerVars, paid>>

NoSwap ==
  /\ tick = "deciding"
  /\ ~Rebalances
  /\ tick' = "saving"
  /\ UNCHANGED <<role, wallet, pool, live, saved, handlerVars, paid, faults>>

(* The swap's receipt, whatever its status: the cooldown begins.             *)
SwapReturns ==
  /\ live' = [live EXCEPT !.cooling = CooldownTicks]
  /\ tick' = "rereading"

Save ==
  /\ tick = "saving"
  /\ saved' = live
  /\ tick' = "idle"
  /\ UNCHANGED <<role, wallet, pool, live, handlerVars, paid, faults>>

-----------------------------------------------------------------------------
(* The chain                                                                 *)

Covered(tx) == tx.amount <= IF tx.does = "buy_usdc" THEN wallet.token ELSE wallet.usdc

Applied(tx) ==
  CASE tx.does = "buy_usdc"  -> [usdc |-> wallet.usdc + tx.amount, token |-> wallet.token - tx.amount]
    [] tx.does = "sell_usdc" -> [usdc |-> wallet.usdc - tx.amount, token |-> wallet.token + tx.amount]
    [] OTHER -> [wallet EXCEPT !.usdc = @ - tx.amount]

(* The first transaction is mined, and who awaits it gets its receipt. The   *)
(* pools trade at par.                                                       *)
Mined(success) ==
  /\ pool # <<>>
  /\ LET tx == Head(pool)
     IN /\ wallet' = IF success THEN Applied(tx) ELSE wallet
        /\ paid' = IF success /\ tx.does = "pay"
                     THEN [paid EXCEPT ![tx.for] = @ + tx.amount] ELSE paid
        /\ IF tx.awaited /\ tx.does = "pay"
             THEN Answered(tx.for, Settlement(tx.for, success)) ELSE UNCHANGED <<stage, answer>>
        /\ IF tx.awaited /\ tx.does # "pay"
             THEN SwapReturns ELSE UNCHANGED <<live, tick>>
  /\ pool' = Tail(pool)
  /\ UNCHANGED <<role, saved, kind, amount>>

Mine == pool # <<>> /\ Mined(Covered(Head(pool))) /\ UNCHANGED faults

Reverts == pool # <<>> /\ Covered(Head(pool)) /\ Fault("reverted") /\ Mined(FALSE)

(* The receipt does not come in time; the transaction may be mined later.    *)
ReceiptLost(i) ==
  /\ Fault("receipt")
  /\ pool[i].awaited
  /\ pool' = [pool EXCEPT ![i].awaited = FALSE]
  /\ IF pool[i].does = "pay"
       THEN Lost(pool[i].for) /\ UNCHANGED tick
       ELSE tick' = "saving" /\ UNCHANGED <<stage, answer>>
  /\ UNCHANGED <<role, wallet, live, saved, kind, amount, paid>>

(* The process is restarted: its requests are lost, its transactions not.    *)
Crash ==
  /\ Fault("crash")
  /\ live' = saved
  /\ tick' = "idle"
  /\ stage' = [r \in Requests |-> IF stage[r] \in {"idle", "done"} THEN stage[r] ELSE "lost"]
  /\ pool' = [i \in DOMAIN pool |-> [pool[i] EXCEPT !.awaited = FALSE]]
  /\ UNCHANGED <<role, wallet, saved, kind, amount, answer, paid>>

-----------------------------------------------------------------------------
TickStep == BeginTick \/ Refresh \/ SendSwap \/ NoSwap \/ Save
Handle(r) == Offer(r) \/ Decline(r) \/ SendPayment(r) \/ CannotPay(r)

Next ==
  \/ \E r \in Requests, k \in {"aid", "federal"}, a \in Amounts : Ask(r, k, a)
  \/ \E r \in Requests : Handle(r)
  \/ TickStep \/ RefreshFails \/ RefreshPartly \/ SwapFails
  \/ Mine \/ Reverts
  \/ \E i \in DOMAIN pool : ReceiptLost(i)
  \/ Crash

Spec == Init /\ [][Next]_vars

(* The tick's timer is armed in a finally; calls return; transactions that   *)
(* were sent are mined in the end.                                           *)
FairSpec ==
  /\ Spec
  /\ WF_vars(TickStep) /\ WF_vars(Mine)
  /\ \A r \in Requests : WF_vars(Handle(r))

-----------------------------------------------------------------------------
OnItsWay(r) == {i \in DOMAIN pool : pool[i].does = "pay" /\ pool[i].for = r}

(* An aid answer that names a settlement was paid in full, and an approved   *)
(* federal transfer is no longer on its way, whatever reverted, was lost or  *)
(* competed for the balance.                                                 *)
SettledIsPaid ==
  \A r \in Requests :
    /\ answer[r] = "settled" => paid[r] = amount[r]
    /\ answer[r] = "approved" => OnItsWay(r) = {}

(* A request is paid what was offered at most, once, even when its receipt   *)
(* is lost, and never after aid was declined.                                *)
PaidOnce ==
  \A r \in Requests :
    /\ paid[r] \in {0, amount[r]}
    /\ \A i, j \in OnItsWay(r) : i = j /\ pool[i].amount = amount[r] /\ paid[r] = 0
    /\ answer[r] = "declined" \/ stage[r] \in {"idle", "deciding", "paying"}
         => paid[r] = 0 /\ OnItsWay(r) = {}

(* Nothing is left to do: the ratio is in its band, there is nothing to      *)
(* sell, or so little in all that the smallest swap, or the rounding to a    *)
(* unit, crosses the whole band.                                             *)
Balanced ==
  \/ ~(Low(wallet) \/ High(wallet))
  \/ Low(wallet) /\ wallet.token = 0
  \/ DriftPercent * Total(wallet) < 100
  \/ 2 * DriftPercent * Total(wallet) < 100 * MinSwap

(* Whatever was paid, lost, read wrong or forgotten in between, the reserve  *)
(* ratio of a state ends inside its band.                                    *)
Settles == <>[](role = "state" => Balanced)

=============================================================================
