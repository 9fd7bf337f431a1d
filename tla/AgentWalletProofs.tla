-------------------------- MODULE AgentWalletProofs --------------------------
(***************************************************************************)
(* What a request is paid, for every set of requests, amounts, holdings    *)
(* and faults. The invariant follows each payment from the handler that    *)
(* sends it into the pool, and says which stages of the handler it may     *)
(* meet when it is mined.                                                  *)
(***************************************************************************)
EXTENDS AgentWallet, TLAPS

Stages == {"idle", "deciding", "paying", "awaiting", "done", "lost"}
Answers == {"none", "offered", "declined", "refused", "settled", "approved"}
Txs == [for : Requests \cup {"tick"}, does : {"pay", "buy_usdc", "sell_usdc"},
        amount : Nat, awaited : BOOLEAN]

HandlerTypes ==
  /\ pool \in Seq(Txs)
  /\ stage \in [Requests -> Stages]
  /\ amount \in [Requests -> Nat]
  /\ answer \in [Requests -> Answers]
  /\ paid \in [Requests -> Nat]

(* A payment on its way is of what was offered, which was not paid before.   *)
Sent(i) ==
  LET r == pool[i].for
  IN pool[i].does = "pay" =>
       /\ r \in Requests
       /\ pool[i].amount = amount[r] /\ paid[r] = 0
       /\ stage[r] \in {"awaiting", "done", "lost"}
       /\ answer[r] \in {"none", "offered", "refused"}

SentOnce ==
  \A i, j \in DOMAIN pool :
    pool[i].does = "pay" /\ pool[j].does = "pay" /\ pool[i].for = pool[j].for => i = j

Early(r) == stage[r] \in {"idle", "deciding", "paying"}

Account(r) ==
  /\ paid[r] \in {0, amount[r]}
  /\ Early(r) => paid[r] = 0
  /\ answer[r] = "declined" => paid[r] = 0
  /\ answer[r] = "settled" => paid[r] = amount[r]
  /\ answer[r] = "none" \/ stage[r] = "done"

PayInv ==
  /\ HandlerTypes
  /\ \A i \in DOMAIN pool : Sent(i)
  /\ SentOnce
  /\ \A r \in Requests : Account(r)

Known == [seen : [usdc : Nat, token : Nat, read : BOOLEAN], cooling : Nat, phase : Nat]

(* No balance goes below zero, and so no swap is of less than nothing.       *)
Balances ==
  /\ wallet \in [usdc : Nat, token : Nat]
  /\ live \in Known /\ saved \in Known

IInv == PayInv /\ Balances

-----------------------------------------------------------------------------
(* A step of the handler of r that neither sends nor pays: only what is      *)
(* known of r changes, and r has nothing on its way.                         *)
LEMMA HandlerStep ==
  ASSUME PayInv, NEW r \in Requests, Early(r), UNCHANGED <<pool, paid>>, HandlerTypes',
         \A q \in Requests \ {r} : /\ stage'[q] = stage[q] /\ amount'[q] = amount[q]
                                   /\ answer'[q] = answer[q],
         Account(r)'
  PROVE  PayInv'
<1>1. \A i \in DOMAIN pool : Sent(i)'
  <2> SUFFICES ASSUME NEW i \in DOMAIN pool, pool[i].does = "pay" PROVE Sent(i)'
    BY DEF Sent
  <2>1. Sent(i)
    BY DEF PayInv
  <2>2. pool[i].for \in Requests \ {r}
    BY <2>1 DEF Sent, Early
  <2> QED BY <2>1, <2>2 DEF Sent
<1>2. SentOnce'
  BY DEF PayInv, SentOnce
<1>3. ASSUME NEW q \in Requests PROVE Account(q)'
  <2>1. CASE q = r
    BY <2>1
  <2>2. CASE q # r
    BY <2>2 DEF PayInv, Account, Early
  <2> QED BY <2>1, <2>2
<1> QED BY <1>1, <1>2, <1>3 DEF PayInv

LEMMA AskStep ==
  ASSUME PayInv, NEW r \in Requests, NEW k \in {"aid", "federal"}, NEW a \in Amounts, Ask(r, k, a)
  PROVE  PayInv'
<1>1. HandlerTypes'
  BY WalletAssumption DEF PayInv, HandlerTypes, Ask, Stages
<1>2. Account(r)'
  BY DEF PayInv, HandlerTypes, Account, Early, Ask
<1> QED BY <1>1, <1>2, HandlerStep DEF PayInv, HandlerTypes, Early, Ask

LEMMA OfferStep ==
  ASSUME PayInv, NEW r \in Requests, Offer(r)
  PROVE  PayInv'
<1>1. PICK a \in Nat : amount' = [amount EXCEPT ![r] = a]
  BY WalletAssumption DEF PayInv, HandlerTypes, Offer, AidFallback
<1>2. HandlerTypes'
  BY <1>1 DEF PayInv, HandlerTypes, Offer, Answered, Stages, Answers
<1>3. Account(r)'
  BY <1>1 DEF PayInv, HandlerTypes, Account, Early, Offer, Answered
<1> QED BY <1>1, <1>2, <1>3, HandlerStep DEF PayInv, HandlerTypes, Early, Offer, Answered

LEMMA DeclineStep ==
  ASSUME PayInv, NEW r \in Requests, Decline(r) \/ CannotPay(r)
  PROVE  PayInv'
<1>1. PICK a \in {"offered", "declined", "refused"} :
        Answered(r, a) /\ UNCHANGED <<pool, paid, amount>> /\ Early(r)
  BY DEF Decline, CannotPay, Unsettled, Early
<1>2. HandlerTypes'
  BY <1>1 DEF PayInv, HandlerTypes, Answered, Stages, Answers
<1>3. Account(r)'
  BY <1>1 DEF PayInv, HandlerTypes, Account, Early, Answered
<1> QED BY <1>1, <1>2, <1>3, HandlerStep DEF PayInv, HandlerTypes, Answered

LEMMA SendPaymentStep ==
  ASSUME PayInv, NEW r \in Requests, SendPayment(r)
  PROVE  PayInv'
<1> DEFINE tx == [for |-> r, does |-> "pay", amount |-> amount[r], awaited |-> TRUE]
<1>1. tx \in Txs /\ pool' = Append(pool, tx) /\ Early(r)
  BY DEF PayInv, HandlerTypes, SendPayment, Txs, Early
<1>2. tx.for = r /\ tx.does = "pay" /\ tx.amount = amount[r]
  OBVIOUS
<1> HIDE DEF tx
<1>3. /\ DOMAIN pool = 1..Len(pool) /\ DOMAIN pool' = 1..(Len(pool) + 1) /\ Len(pool) \in Nat
      /\ pool'[Len(pool) + 1] = tx /\ \A i \in DOMAIN pool : pool'[i] = pool[i]
  BY <1>1 DEF PayInv, HandlerTypes
<1>4. /\ stage'[r] = "awaiting" /\ answer[r] = "none" /\ paid[r] = 0
      /\ \A q \in Requests \ {r} : stage'[q] = stage[q]
      /\ UNCHANGED <<amount, answer, paid>>
  BY <1>1 DEF PayInv, HandlerTypes, SendPayment, Account, Early
<1>5. HandlerTypes'
  BY <1>1 DEF PayInv, HandlerTypes, SendPayment, Stages
<1>6. \A i \in DOMAIN pool : pool[i].does = "pay" => pool[i].for \in Requests \ {r}
  BY <1>1 DEF PayInv, Sent, Early
<1>7. \A i \in DOMAIN pool' : Sent(i)'
  <2> SUFFICES ASSUME NEW i \in DOMAIN pool' PROVE Sent(i)'
    OBVIOUS
  <2>1. CASE i = Len(pool) + 1
    BY <2>1, <1>2, <1>3, <1>4 DEF Sent
  <2>2. CASE i \in DOMAIN pool
    BY <2>2, <1>3, <1>4, <1>6 DEF PayInv, Sent
  <2> QED BY <2>1, <2>2, <1>3
<1>8. SentOnce'
  BY <1>2, <1>3, <1>6 DEF PayInv, SentOnce
<1>9. ASSUME NEW q \in Requests PROVE Account(q)'
  BY <1>4 DEF PayInv, Account, Early
<1> QED BY <1>5, <1>7, <1>8, <1>9 DEF PayInv

-----------------------------------------------------------------------------
(* The chain: the first transaction leaves the pool.                         *)

LEMMA MinedStep ==
  ASSUME PayInv, NEW success \in BOOLEAN, Mined(success)
  PROVE  PayInv'
<1> DEFINE tx == Head(pool)
<1>1. /\ pool # <<>> /\ tx \in Txs /\ tx = pool[1] /\ 1 \in DOMAIN pool
      /\ pool' = Tail(pool) /\ pool' \in Seq(Txs)
      /\ DOMAIN pool = 1..Len(pool) /\ DOMAIN pool' = 1..(Len(pool) - 1) /\ Len(pool) \in Nat
      /\ \A i \in DOMAIN pool' : pool'[i] = pool[i + 1] /\ i + 1 \in DOMAIN pool
  BY DEF PayInv, HandlerTypes, Mined
<1>2. /\ UNCHANGED amount
      /\ paid' = IF success /\ tx.does = "pay"
                   THEN [paid EXCEPT ![tx.for] = @ + tx.amount] ELSE paid
      /\ IF tx.awaited /\ tx.does = "pay"
           THEN Answered(tx.for, Settlement(tx.for, success)) ELSE UNCHANGED <<stage, answer>>
  BY DEF Mined
<1>3. Sent(1) /\ \A i \in DOMAIN pool : Sent(i)
  BY <1>1 DEF PayInv
<1> HIDE DEF tx
<1>4. CASE tx.does # "pay"
  <2>1. UNCHANGED <<amount, paid, stage, answer>>
    BY <1>2, <1>4
  <2>2. \A i \in DOMAIN pool' : Sent(i)'
    BY <2>1, <1>1, <1>3 DEF Sent
  <2>3. SentOnce'
    BY <1>1 DEF PayInv, SentOnce
  <2>4. \A q \in Requests : Account(q)'
    BY <2>1 DEF PayInv, Account, Early
  <2> QED BY <2>1, <2>2, <2>3, <2>4, <1>1 DEF PayInv, HandlerTypes
<1>5. CASE tx.does = "pay"
  <2> DEFINE r == tx.for
  <2>1. /\ r \in Requests /\ tx.amount = amount[r] /\ paid[r] = 0 /\ ~Early(r)
        /\ answer[r] \in {"none", "offered", "refused"}
    BY <1>1, <1>3, <1>5 DEF Sent, Early
  <2>2. \A i \in DOMAIN pool' : pool'[i].does = "pay" => pool'[i].for # r
    BY <1>1, <1>5 DEF PayInv, SentOnce
  <2>3. amount[r] \in Nat
    BY <2>1 DEF PayInv, HandlerTypes
  <2> HIDE DEF r
  <2>4. /\ paid'[r] = (IF success THEN amount[r] ELSE 0)
        /\ paid' \in [Requests -> Nat]
        /\ \A q \in Requests \ {r} : paid'[q] = paid[q]
    BY <1>2, <1>5, <2>1, <2>3 DEF PayInv, HandlerTypes, r
  <2>5. /\ stage' \in [Requests -> Stages] /\ answer' \in [Requests -> Answers]
        /\ \A q \in Requests \ {r} : stage'[q] = stage[q] /\ answer'[q] = answer[q]
        /\ \/ stage'[r] = stage[r] /\ answer'[r] = answer[r]
           \/ /\ stage'[r] = "done" /\ answer'[r] \in {"offered", "settled", "approved"}
              /\ answer'[r] = "settled" => success
    BY <1>2, <1>5, <2>1 DEF PayInv, HandlerTypes, Answered, Settlement, Stages, Answers, r
  <2>6. \A i \in DOMAIN pool' : Sent(i)'
    <3> SUFFICES ASSUME NEW i \in DOMAIN pool', pool'[i].does = "pay" PROVE Sent(i)'
      BY DEF Sent
    <3>1. Sent(i + 1) /\ pool'[i] = pool[i + 1] /\ pool'[i].for # r
      BY <1>1, <1>3, <2>2
    <3> QED BY <3>1, <2>4, <2>5, <1>2 DEF Sent
  <2>7. SentOnce'
    BY <1>1 DEF PayInv, SentOnce
  <2>8. ASSUME NEW q \in Requests PROVE Account(q)'
    <3>1. CASE q # r
      BY <3>1, <2>4, <2>5, <1>2 DEF PayInv, Account, Early
    <3>2. CASE q = r
      BY <3>2, <2>1, <2>3, <2>4, <2>5, <1>2 DEF PayInv, Account, Early
    <3> QED BY <3>1, <3>2
  <2> QED BY <2>4, <2>5, <2>6, <2>7, <2>8, <1>1, <1>2 DEF PayInv, HandlerTypes
<1> QED BY <1>4, <1>5

(* Nobody waits for a receipt any more: the payments stay what they are.     *)
LEMMA PaymentsStay ==
  ASSUME PayInv, DOMAIN pool' = DOMAIN pool, UNCHANGED <<amount, paid>>, HandlerTypes',
         \A i \in DOMAIN pool : /\ pool'[i].does = pool[i].does /\ pool'[i].for = pool[i].for
                                /\ pool'[i].amount = pool[i].amount,
         \A r \in Requests :
           \/ stage'[r] = stage[r] /\ answer'[r] = answer[r]
           \/ ~Early(r) /\ stage'[r] = "done" /\ answer'[r] \in {"offered", "refused"}
           \/ stage[r] # "done" /\ stage'[r] = "lost" /\ answer'[r] = answer[r]
  PROVE  PayInv'
<1>1. \A i \in DOMAIN pool' : Sent(i)'
  BY DEF PayInv, Sent, Early
<1>2. SentOnce'
  BY DEF PayInv, SentOnce
<1>3. \A r \in Requests : Account(r)'
  BY DEF PayInv, Account, Early
<1> QED BY <1>1, <1>2, <1>3 DEF PayInv

LEMMA ReceiptLostStep ==
  ASSUME PayInv, NEW i \in DOMAIN pool, ReceiptLost(i)
  PROVE  PayInv'
<1>1. /\ pool[i] \in Txs /\ pool[i].awaited /\ UNCHANGED <<amount, paid>>
      /\ pool' = [pool EXCEPT ![i].awaited = FALSE]
      /\ IF pool[i].does = "pay" THEN Lost(pool[i].for) ELSE UNCHANGED <<stage, answer>>
  BY DEF PayInv, HandlerTypes, ReceiptLost
<1>2. [pool[i] EXCEPT !.awaited = FALSE] \in Txs
  BY <1>1 DEF Txs
<1>3. pool' \in Seq(Txs) /\ DOMAIN pool' = DOMAIN pool
  BY <1>1, <1>2 DEF PayInv, HandlerTypes
<1>4. \A j \in DOMAIN pool : /\ pool'[j].does = pool[j].does /\ pool'[j].for = pool[j].for
                             /\ pool'[j].amount = pool[j].amount
  <2> SUFFICES ASSUME NEW j \in DOMAIN pool
               PROVE  /\ pool'[j].does = pool[j].does /\ pool'[j].for = pool[j].for
                      /\ pool'[j].amount = pool[j].amount
    OBVIOUS
  <2>1. pool[j] \in Txs
    BY DEF PayInv, HandlerTypes
  <2>2. pool'[j] = IF j = i THEN [pool[i] EXCEPT !.awaited = FALSE] ELSE pool[j]
    BY <1>1 DEF PayInv, HandlerTypes
  <2> QED BY <2>1, <2>2 DEF Txs
<1>5. CASE pool[i].does = "pay"
  <2> DEFINE r == pool[i].for
  <2>1. r \in Requests /\ ~Early(r)
    BY <1>5 DEF PayInv, Sent, Early
  <2>2. PICK a \in {"offered", "refused"} : Answered(r, a)
    BY <1>1, <1>5 DEF Lost, Unsettled
  <2> HIDE DEF r
  <2>3. HandlerTypes'
    BY <1>1, <1>3, <2>1, <2>2 DEF PayInv, HandlerTypes, Answered, Stages, Answers
  <2>4. \A q \in Requests :
          \/ stage'[q] = stage[q] /\ answer'[q] = answer[q]
          \/ ~Early(q) /\ stage'[q] = "done" /\ answer'[q] \in {"offered", "refused"}
    BY <2>1, <2>2 DEF PayInv, HandlerTypes, Answered
  <2> QED BY <1>1, <1>3, <1>4, <2>3, <2>4, PaymentsStay
<1>6. CASE pool[i].does # "pay"
  <2>1. HandlerTypes'
    BY <1>1, <1>3, <1>6 DEF PayInv, HandlerTypes
  <2> QED BY <1>1, <1>3, <1>4, <1>6, <2>1, PaymentsStay
<1> QED BY <1>5, <1>6

LEMMA CrashStep ==
  ASSUME PayInv, Crash
  PROVE  PayInv'
<1>1. /\ UNCHANGED <<amount, answer, paid>>
      /\ stage' = [r \in Requests |-> IF stage[r] \in {"idle", "done"} THEN stage[r] ELSE "lost"]
      /\ pool' = [i \in DOMAIN pool |-> [pool[i] EXCEPT !.awaited = FALSE]]
  BY DEF Crash
<1>2. \A i \in DOMAIN pool : pool[i] \in Txs
  BY DEF PayInv, HandlerTypes
<1>3. \A i \in DOMAIN pool : [pool[i] EXCEPT !.awaited = FALSE] \in Txs
  BY <1>2 DEF Txs
<1>4. DOMAIN pool = 1..Len(pool) /\ Len(pool) \in Nat
  BY DEF PayInv, HandlerTypes
<1>5. pool' \in Seq(Txs) /\ DOMAIN pool' = DOMAIN pool
  BY <1>1, <1>3, <1>4
<1>6. \A i \in DOMAIN pool : /\ pool'[i].does = pool[i].does /\ pool'[i].for = pool[i].for
                             /\ pool'[i].amount = pool[i].amount
  BY <1>1, <1>2 DEF Txs
<1>7. HandlerTypes'
  BY <1>1, <1>5 DEF PayInv, HandlerTypes, Stages
<1>8. \A r \in Requests :
        \/ stage'[r] = stage[r] /\ answer'[r] = answer[r]
        \/ stage[r] # "done" /\ stage'[r] = "lost" /\ answer'[r] = answer[r]
  BY <1>1
<1> QED BY <1>1, <1>5, <1>6, <1>7, <1>8, PaymentsStay

-----------------------------------------------------------------------------
(* The tick sends swaps, and touches no payment.                             *)

LEMMA SwapAmount ==
  ASSUME NEW b \in [usdc : Nat, token : Nat, read : BOOLEAN]
  PROVE  Swap(b).does \in {"buy_usdc", "sell_usdc"} /\ Swap(b).amount \in Nat
<1>1. Total(b) \in Nat
  BY WalletAssumption DEF Total
<1>2. ASSUME NEW v \in Int PROVE Clamp(v) \in Nat
  BY WalletAssumption DEF Clamp, Least
<1>3. BuyAmount(b) \in Nat
  <2>1. (TargetPercent * Total(b) - 100 * b.usdc) \div 100 \in Int
    BY <1>1, WalletAssumption
  <2> QED BY <2>1, <1>2 DEF BuyAmount, Least
<1>4. SellAmount(b) \in Nat
  <2>1. (100 * b.usdc - TargetPercent * Total(b)) \div 100 \in Int
    BY <1>1, WalletAssumption
  <2> QED BY <2>1, <1>2 DEF SellAmount, Least
<1> QED BY <1>3, <1>4 DEF Swap

LEMMA SendSwapStep ==
  ASSUME IInv, SendSwap
  PROVE  PayInv'
<1> DEFINE tx == [for |-> "tick", does |-> Swap(live.seen).does,
                  amount |-> Swap(live.seen).amount, awaited |-> TRUE]
<1>1. UNCHANGED <<stage, amount, answer, paid>> /\ pool' = Append(pool, tx)
  BY DEF SendSwap, handlerVars
<1>2. tx \in Txs /\ tx.does # "pay"
  BY SwapAmount DEF IInv, Balances, Known, Txs
<1> HIDE DEF tx
<1>3. /\ pool' \in Seq(Txs) /\ DOMAIN pool' = 1..(Len(pool) + 1) /\ DOMAIN pool = 1..Len(pool)
      /\ Len(pool) \in Nat
      /\ pool'[Len(pool) + 1] = tx /\ \A i \in DOMAIN pool : pool'[i] = pool[i]
  BY <1>1, <1>2 DEF IInv, PayInv, HandlerTypes
<1>4. \A i \in DOMAIN pool' : pool'[i].does = "pay" => i \in DOMAIN pool
  BY <1>2, <1>3
<1>5. \A i \in DOMAIN pool' : Sent(i)'
  BY <1>1, <1>3, <1>4 DEF IInv, PayInv, Sent
<1>6. SentOnce'
  BY <1>3, <1>4 DEF IInv, PayInv, SentOnce
<1>7. \A r \in Requests : Account(r)'
  BY <1>1 DEF IInv, PayInv, Account, Early
<1> QED BY <1>1, <1>3, <1>5, <1>6, <1>7 DEF IInv, PayInv, HandlerTypes

(* The other steps of the tick.                                              *)
LEMMA PaymentsUntouched ==
  ASSUME PayInv, UNCHANGED <<pool, stage, amount, answer, paid>>
  PROVE  PayInv'
<1>1. HandlerTypes'
  BY DEF PayInv, HandlerTypes
<1>2. (\A i \in DOMAIN pool' : Sent(i)') /\ SentOnce'
  BY DEF PayInv, Sent, SentOnce
<1>3. \A r \in Requests : Account(r)'
  BY DEF PayInv, Account, Early
<1> QED BY <1>1, <1>2, <1>3 DEF PayInv

LEMMA MinedBalances ==
  ASSUME IInv, NEW success \in BOOLEAN, success => Covered(Head(pool)), Mined(success)
  PROVE  Balances'
<1> DEFINE tx == Head(pool)
<1>1. tx \in Txs
  BY DEF IInv, PayInv, HandlerTypes, Mined
<1>2. wallet' = IF success THEN Applied(tx) ELSE wallet
  BY DEF Mined
<1>3. live' = [live EXCEPT !.cooling = CooldownTicks] \/ live' = live
  BY DEF Mined, SwapReturns
<1>4. saved' = saved
  BY DEF Mined
<1>5. success => Covered(tx)
  OBVIOUS
<1> HIDE DEF tx
<1>6. wallet' \in [usdc : Nat, token : Nat]
  BY <1>1, <1>2, <1>5 DEF IInv, Balances, Applied, Covered, Txs
<1>7. live' \in Known
  BY <1>3, WalletAssumption DEF IInv, Balances, Known
<1> QED BY <1>4, <1>6, <1>7 DEF IInv, Balances

LEMMA TickBalances ==
  ASSUME IInv, TickStep \/ RefreshFails \/ RefreshPartly \/ SwapFails
  PROVE  Balances'
<1>1. CASE BeginTick
  <2> DEFINE phase == (live.phase + 1) % ChainRefreshEveryN
  <2>1. phase \in Nat
    BY WalletAssumption DEF IInv, Balances, Known
  <2>2. /\ live' = [live EXCEPT !.phase = phase, !.cooling = IF @ = 0 THEN 0 ELSE @ - 1]
        /\ UNCHANGED <<wallet, saved>>
    BY <1>1 DEF BeginTick
  <2> DEFINE cooling == IF live.cooling = 0 THEN 0 ELSE live.cooling - 1
  <2>3. cooling \in Nat
    BY DEF IInv, Balances, Known
  <2>4. live' = [live EXCEPT !.phase = phase, !.cooling = cooling]
    BY <2>2
  <2> HIDE DEF phase, cooling
  <2>5. live' \in Known
    BY <2>1, <2>3, <2>4 DEF IInv, Balances, Known
  <2> QED BY <2>2, <2>5 DEF IInv, Balances
<1>2. CASE Refresh \/ RefreshFails \/ RefreshPartly
  <2>1. PICK b \in [usdc : Nat, token : Nat, read : BOOLEAN] : Refreshed(b)
    BY <1>2 DEF Refresh, RefreshFails, RefreshPartly, Reading, IInv, Balances, Known
  <2> QED BY <2>1 DEF Refreshed, IInv, Balances, Known
<1>3. CASE SendSwap \/ NoSwap \/ Save \/ SwapFails
  BY <1>3 DEF SendSwap, NoSwap, Save, SwapFails, IInv, Balances
<1> QED BY <1>1, <1>2, <1>3 DEF TickStep

-----------------------------------------------------------------------------
LEMMA InitIInv == Init => IInv
<1> SUFFICES ASSUME Init PROVE IInv
  OBVIOUS
<1>1. HandlerTypes /\ pool = <<>>
  BY DEF Init, HandlerTypes, Stages, Answers
<1>2. (\A i \in DOMAIN pool : Sent(i)) /\ SentOnce
  BY <1>1 DEF SentOnce
<1>3. \A r \in Requests : Account(r)
  BY DEF Init, Account
<1>4. Balances
  BY WalletAssumption DEF Init, Balances, Known, Unread
<1> QED BY <1>1, <1>2, <1>3, <1>4 DEF IInv, PayInv

LEMMA NextIInv == IInv /\ [Next]_vars => IInv'
<1> SUFFICES ASSUME IInv, [Next]_vars PROVE IInv'
  OBVIOUS
<1>1. PayInv
  BY DEF IInv
<1>2. ASSUME NEW r \in Requests, NEW k \in {"aid", "federal"}, NEW a \in Amounts, Ask(r, k, a)
      PROVE  IInv'
  <2>1. Balances'
    BY <1>2 DEF Ask, IInv, Balances
  <2> QED BY <1>1, <1>2, <2>1, AskStep DEF IInv
<1>3. ASSUME NEW r \in Requests, Handle(r) PROVE IInv'
  <2>1. Balances'
    BY <1>3 DEF Handle, Offer, Decline, SendPayment, CannotPay, IInv, Balances
  <2>2. PayInv'
    BY <1>1, <1>3, OfferStep, DeclineStep, SendPaymentStep DEF Handle
  <2> QED BY <2>1, <2>2 DEF IInv
<1>4. CASE TickStep \/ RefreshFails \/ RefreshPartly \/ SwapFails
  <2>1. CASE SendSwap
    BY <2>1, SendSwapStep, TickBalances DEF IInv, TickStep
  <2>2. CASE BeginTick \/ Refresh \/ NoSwap \/ Save \/ RefreshFails \/ RefreshPartly \/ SwapFails
    <3>1. UNCHANGED <<pool, stage, amount, answer, paid>>
      BY <2>2 DEF BeginTick, Refresh, NoSwap, Save, RefreshFails, RefreshPartly, SwapFails,
                  Refreshed, handlerVars
    <3> QED BY <1>1, <1>4, <3>1, PaymentsUntouched, TickBalances DEF IInv
  <2> QED BY <1>4, <2>1, <2>2 DEF TickStep
<1>5. CASE Mine \/ Reverts
  <2>1. PICK success \in BOOLEAN : Mined(success) /\ (success => Covered(Head(pool)))
    <3>1. CASE Mine
      <4>1. Covered(Head(pool)) \in BOOLEAN
        BY DEF Covered
      <4> QED BY <3>1, <4>1 DEF Mine
    <3>2. CASE Reverts
      BY <3>2 DEF Reverts
    <3> QED BY <1>5, <3>1, <3>2
  <2> QED BY <1>1, <2>1, MinedStep, MinedBalances DEF IInv
<1>6. ASSUME NEW i \in DOMAIN pool, ReceiptLost(i) PROVE IInv'
  <2>1. Balances'
    BY <1>6 DEF ReceiptLost, IInv, Balances
  <2> QED BY <1>1, <1>6, <2>1, ReceiptLostStep DEF IInv
<1>7. CASE Crash
  <2>1. Balances'
    BY <1>7 DEF Crash, IInv, Balances
  <2> QED BY <1>1, <1>7, <2>1, CrashStep DEF IInv
<1>8. CASE UNCHANGED vars
  BY <1>1, <1>8, PaymentsUntouched DEF vars, handlerVars, IInv, Balances
<1> QED BY <1>2, <1>3, <1>4, <1>5, <1>6, <1>7, <1>8 DEF Next

LEMMA Inductive == Spec => []IInv
BY InitIInv, NextIInv, PTL DEF Spec

-----------------------------------------------------------------------------
(* The swap that is awaited. While one is, the tick stands still and so does *)
(* what it knows of its balances; that it is the only one is what makes its  *)
(* receipt that of the swap the tick waits for.                              *)
AwaitedSwap(i) == pool[i].does # "pay" /\ pool[i].awaited

(* A swap that leaves the balances b nearer to the target, or beyond it by   *)
(* less than the smallest swap, and that sells no more than there is.        *)
Aimed(tx, b) ==
  LET target == TargetPercent * Total(b)
  IN \/ /\ tx.does = "buy_usdc" /\ Low(b) /\ tx.amount <= b.token
        /\ tx.amount <= MinSwap \/ 100 * (b.usdc + tx.amount) <= target
     \/ /\ tx.does = "sell_usdc" /\ High(b) /\ tx.amount <= b.usdc
        /\ tx.amount <= MinSwap \/ 100 * (b.usdc - tx.amount) >= target

OneSwapAwaited == \A i, j \in DOMAIN pool : AwaitedSwap(i) /\ AwaitedSwap(j) => i = j

AwaitedIsAimed ==
  \A i \in DOMAIN pool :
    AwaitedSwap(i) =>
      tick = "swapping" /\ pool[i].amount \in 1..MaxSwap /\ Aimed(pool[i], live.seen)

SwapInv == OneSwapAwaited /\ AwaitedIsAimed

(* A gap that is rounded down to a unit, raised to the smallest swap and cut *)
(* to the largest is one of these two, or not above the gap.                 *)
LEMMA ClampedGap ==
  ASSUME NEW gap \in Int
  PROVE  LET a == Clamp(gap \div 100)
         IN a \in Nat /\ a <= MaxSwap /\ (a <= MinSwap \/ 100 * a <= gap)
<1> DEFINE d == gap \div 100
<1>1. d \in Int /\ 100 * d <= gap
  OBVIOUS
<1> HIDE DEF d
<1>2. /\ Clamp(d) \in Nat /\ Clamp(d) <= MaxSwap
      /\ Clamp(d) <= MinSwap \/ 100 * Clamp(d) <= gap
  BY <1>1, WalletAssumption DEF Clamp, Least
<1> QED BY <1>2 DEF d

LEMMA SwapIsAimed ==
  ASSUME NEW b \in [usdc : Nat, token : Nat, read : BOOLEAN], Low(b) \/ High(b)
  PROVE  Swap(b).amount <= MaxSwap /\ Aimed(Swap(b), b)
<1> DEFINE target == TargetPercent * Total(b)
<1>1. Total(b) \in Nat
  BY WalletAssumption DEF Total
<1>2. target \in Nat
  BY <1>1, WalletAssumption
<1>3. b.usdc \in Nat /\ b.token \in Nat
  OBVIOUS
<1>4. CASE Low(b)
  <2> DEFINE a == Clamp((target - 100 * b.usdc) \div 100)
  <2>1. a \in Nat /\ a <= MaxSwap /\ (a <= MinSwap \/ 100 * a <= target - 100 * b.usdc)
    <3>1. target - 100 * b.usdc \in Int
      BY <1>2, <1>3
    <3> QED BY <3>1, ClampedGap
  <2>2. Swap(b) = [does |-> "buy_usdc", amount |-> Least(a, b.token)]
    BY <1>4 DEF Swap, BuyAmount
  <2> HIDE DEF a, target
  <2>3. LET v == Least(a, b.token)
        IN v <= MaxSwap /\ v <= b.token /\ (v <= MinSwap \/ 100 * (b.usdc + v) <= target)
    BY <2>1, <1>2, <1>3, WalletAssumption DEF Least
  <2> QED BY <1>4, <2>2, <2>3 DEF Aimed, target
<1>5. CASE ~Low(b)
  <2> DEFINE a == Clamp((100 * b.usdc - target) \div 100)
  <2>1. a \in Nat /\ a <= MaxSwap /\ (a <= MinSwap \/ 100 * a <= 100 * b.usdc - target)
    <3>1. 100 * b.usdc - target \in Int
      BY <1>2, <1>3
    <3> QED BY <3>1, ClampedGap
  <2>2. Swap(b) = [does |-> "sell_usdc", amount |-> Least(a, b.usdc)] /\ High(b)
    BY <1>5 DEF Swap, SellAmount
  <2> HIDE DEF a, target
  <2>3. LET v == Least(a, b.usdc)
        IN v <= MaxSwap /\ v <= b.usdc /\ (v <= MinSwap \/ 100 * (b.usdc - v) >= target)
    BY <2>1, <1>2, <1>3, WalletAssumption DEF Least
  <2> QED BY <2>2, <2>3 DEF Aimed, target
<1> QED BY <1>4, <1>5

(* A step that sends no swap and leaves the tick alone, or one that ends the *)
(* wait for the receipt, keeps what is awaited.                              *)
LEMMA NoneAwaited ==
  ASSUME SwapInv, tick # "swapping", NEW i \in DOMAIN pool
  PROVE  ~AwaitedSwap(i)
BY DEF SwapInv, AwaitedIsAimed

LEMMA AwaitedStays ==
  ASSUME SwapInv, UNCHANGED <<pool, tick>>, UNCHANGED live \/ tick # "swapping"
  PROVE  SwapInv'
<1>1. CASE UNCHANGED live
  BY <1>1 DEF SwapInv, OneSwapAwaited, AwaitedIsAimed, AwaitedSwap, Aimed, Low, High, Total
<1>2. CASE tick # "swapping"
  BY <1>2, NoneAwaited DEF SwapInv, OneSwapAwaited, AwaitedIsAimed, AwaitedSwap
<1> QED BY <1>1, <1>2

LEMMA SendSwapAimed ==
  ASSUME IInv, SwapInv, SendSwap
  PROVE  SwapInv'
<1> DEFINE swap == Swap(live.seen)
           tx == [for |-> "tick", does |-> swap.does, amount |-> swap.amount, awaited |-> TRUE]
<1>1. /\ tick = "deciding" /\ tick' = "swapping" /\ UNCHANGED live
      /\ pool' = Append(pool, tx) /\ swap.amount > 0
      /\ Low(live.seen) \/ High(live.seen)
  BY DEF SendSwap, Rebalances
<1>2. swap.does \in {"buy_usdc", "sell_usdc"} /\ swap.amount \in Nat
  BY SwapAmount DEF IInv, Balances, Known
<1>3. swap.amount <= MaxSwap /\ Aimed(swap, live.seen)
  BY <1>1, SwapIsAimed DEF IInv, Balances, Known
<1> HIDE DEF swap
<1>4. tx.amount \in 1..MaxSwap /\ Aimed(tx, live.seen)
  BY <1>1, <1>2, <1>3, WalletAssumption DEF Aimed
<1> HIDE DEF tx
<1>5. /\ DOMAIN pool = 1..Len(pool) /\ DOMAIN pool' = 1..(Len(pool) + 1) /\ Len(pool) \in Nat
      /\ pool'[Len(pool) + 1] = tx /\ \A i \in DOMAIN pool : pool'[i] = pool[i]
  BY <1>1 DEF IInv, PayInv, HandlerTypes
<1>6. \A i \in DOMAIN pool' : AwaitedSwap(i)' => pool'[i] = tx /\ i = Len(pool) + 1
  BY <1>1, <1>5, NoneAwaited DEF AwaitedSwap
<1> QED BY <1>1, <1>4, <1>6
        DEF SwapInv, OneSwapAwaited, AwaitedIsAimed, Aimed, Low, High, Total

LEMMA SendPaymentAimed ==
  ASSUME IInv, SwapInv, NEW r \in Requests, SendPayment(r)
  PROVE  SwapInv'
<1> DEFINE tx == [for |-> r, does |-> "pay", amount |-> amount[r], awaited |-> TRUE]
<1>1. UNCHANGED <<tick, live>> /\ pool' = Append(pool, tx)
  BY DEF SendPayment
<1>2. tx.does = "pay"
  OBVIOUS
<1> HIDE DEF tx
<1>3. /\ DOMAIN pool = 1..Len(pool) /\ DOMAIN pool' = 1..(Len(pool) + 1) /\ Len(pool) \in Nat
      /\ pool'[Len(pool) + 1] = tx /\ \A i \in DOMAIN pool : pool'[i] = pool[i]
  BY <1>1 DEF IInv, PayInv, HandlerTypes
<1>4. \A i \in DOMAIN pool' :
        AwaitedSwap(i)' => i \in DOMAIN pool /\ pool'[i] = pool[i] /\ AwaitedSwap(i)
  BY <1>2, <1>3 DEF AwaitedSwap
<1> QED BY <1>1, <1>4
        DEF SwapInv, OneSwapAwaited, AwaitedIsAimed, Aimed, Low, High, Total

LEMMA MinedAimed ==
  ASSUME IInv, SwapInv, NEW success \in BOOLEAN, Mined(success)
  PROVE  SwapInv'
<1>1. /\ pool # <<>> /\ Head(pool) = pool[1] /\ 1 \in DOMAIN pool
      /\ DOMAIN pool = 1..Len(pool) /\ DOMAIN pool' = 1..(Len(pool) - 1) /\ Len(pool) \in Nat
      /\ \A i \in DOMAIN pool' : pool'[i] = pool[i + 1] /\ i + 1 \in DOMAIN pool
  BY DEF IInv, PayInv, HandlerTypes, Mined
<1>2. \A i \in DOMAIN pool' : AwaitedSwap(i)' => AwaitedSwap(i + 1)
  BY <1>1 DEF AwaitedSwap
<1>3. OneSwapAwaited'
  <2> SUFFICES ASSUME NEW i \in DOMAIN pool', NEW j \in DOMAIN pool',
                      AwaitedSwap(i)', AwaitedSwap(j)'
               PROVE  i = j
    BY DEF OneSwapAwaited
  <2>1. i + 1 = j + 1
    BY <1>1, <1>2 DEF SwapInv, OneSwapAwaited
  <2> QED BY <2>1, <1>1
<1>4. CASE AwaitedSwap(1)
  <2>1. \A i \in DOMAIN pool' : ~AwaitedSwap(i)'
    BY <1>1, <1>2, <1>4 DEF SwapInv, OneSwapAwaited
  <2> QED BY <1>3, <2>1 DEF SwapInv, AwaitedIsAimed
<1>5. CASE ~AwaitedSwap(1)
  <2>1. UNCHANGED <<live, tick>>
    BY <1>1, <1>5 DEF Mined, AwaitedSwap
  <2> QED BY <1>1, <1>2, <1>3, <2>1
          DEF SwapInv, AwaitedIsAimed, Aimed, Low, High, Total
<1> QED BY <1>4, <1>5

LEMMA ReceiptLostAimed ==
  ASSUME IInv, SwapInv, NEW i \in DOMAIN pool, ReceiptLost(i)
  PROVE  SwapInv'
<1>1. /\ pool' = [pool EXCEPT ![i].awaited = FALSE] /\ pool[i] \in Txs /\ pool[i].awaited
      /\ UNCHANGED live
      /\ pool[i].does = "pay" => UNCHANGED tick
  BY DEF ReceiptLost, IInv, PayInv, HandlerTypes
<1>2. ASSUME NEW j \in DOMAIN pool', AwaitedSwap(j)'
      PROVE  j \in DOMAIN pool /\ j # i /\ AwaitedSwap(j) /\ pool'[j] = pool[j]
  <2>1. pool'[j] = IF j = i THEN [pool[i] EXCEPT !.awaited = FALSE] ELSE pool[j]
    BY <1>1 DEF IInv, PayInv, HandlerTypes
  <2>2. j # i
    BY <1>1, <1>2, <2>1 DEF AwaitedSwap, Txs
  <2> QED BY <1>1, <1>2, <2>1, <2>2 DEF AwaitedSwap
<1>3. OneSwapAwaited'
  BY <1>2 DEF SwapInv, OneSwapAwaited
<1>4. CASE AwaitedSwap(i)
  BY <1>2, <1>3, <1>4 DEF SwapInv, OneSwapAwaited, AwaitedIsAimed
<1>5. CASE ~AwaitedSwap(i)
  <2>1. UNCHANGED tick
    BY <1>1, <1>5 DEF AwaitedSwap
  <2> QED BY <1>1, <1>2, <1>3, <2>1
          DEF SwapInv, AwaitedIsAimed, Aimed, Low, High, Total
<1> QED BY <1>4, <1>5

LEMMA CrashAimed ==
  ASSUME IInv, Crash
  PROVE  SwapInv'
<1>1. pool' = [i \in DOMAIN pool |-> [pool[i] EXCEPT !.awaited = FALSE]]
  BY DEF Crash
<1>2. \A i \in DOMAIN pool : pool[i] \in Txs
  BY DEF IInv, PayInv, HandlerTypes
<1>3. \A i \in DOMAIN pool' : ~AwaitedSwap(i)'
  BY <1>1, <1>2 DEF AwaitedSwap, Txs
<1> QED BY <1>3 DEF SwapInv, OneSwapAwaited, AwaitedIsAimed

LEMMA InitAimed == Init => SwapInv
BY DEF Init, SwapInv, OneSwapAwaited, AwaitedIsAimed

LEMMA NextAimed == IInv /\ SwapInv /\ [Next]_vars => SwapInv'
<1> SUFFICES ASSUME IInv, SwapInv, [Next]_vars PROVE SwapInv'
  OBVIOUS
<1>1. ASSUME NEW r \in Requests, NEW k \in {"aid", "federal"}, NEW a \in Amounts, Ask(r, k, a)
      PROVE  SwapInv'
  BY <1>1, AwaitedStays DEF Ask
<1>2. ASSUME NEW r \in Requests, Handle(r) PROVE SwapInv'
  <2>1. CASE Offer(r) \/ Decline(r) \/ CannotPay(r)
    BY <2>1, AwaitedStays DEF Offer, Decline, CannotPay
  <2> QED BY <1>2, <2>1, SendPaymentAimed DEF Handle
<1>3. CASE TickStep \/ RefreshFails \/ RefreshPartly \/ SwapFails
  <2>1. CASE SendSwap
    BY <2>1, SendSwapAimed
  <2>2. ASSUME tick # "swapping", tick' # "swapping", UNCHANGED pool PROVE SwapInv'
    BY <2>2, NoneAwaited DEF SwapInv, OneSwapAwaited, AwaitedIsAimed, AwaitedSwap
  <2>3. CASE BeginTick
    BY <2>2, <2>3 DEF BeginTick
  <2>4. CASE Refresh \/ RefreshFails \/ RefreshPartly
    BY <2>2, <2>4 DEF Refresh, RefreshFails, RefreshPartly, Refreshed
  <2>5. CASE NoSwap \/ Save \/ SwapFails
    BY <2>2, <2>5 DEF NoSwap, Save, SwapFails, Rebalances
  <2> QED BY <1>3, <2>1, <2>3, <2>4, <2>5 DEF TickStep
<1>4. CASE Mine \/ Reverts
  <2>1. Covered(Head(pool)) \in BOOLEAN
    BY DEF Covered
  <2>2. PICK success \in BOOLEAN : Mined(success)
    BY <1>4, <2>1 DEF Mine, Reverts
  <2> QED BY <2>2, MinedAimed
<1>5. ASSUME NEW i \in DOMAIN pool, ReceiptLost(i) PROVE SwapInv'
  BY <1>5, ReceiptLostAimed
<1>6. CASE Crash
  BY <1>6, CrashAimed
<1>7. CASE UNCHANGED vars
  BY <1>7, AwaitedStays DEF vars
<1> QED BY <1>1, <1>2, <1>3, <1>4, <1>5, <1>6, <1>7 DEF Next

-----------------------------------------------------------------------------
(* No sequence of payments, swaps, lost receipts and restarts takes a wallet *)
(* or what the agent believes of it below zero, though the swaps are decided *)
(* on balances that are old, partial or spent meanwhile.                     *)
THEOREM BalancesHold == Spec => []Balances
<1>1. IInv => Balances
  BY DEF IInv
<1> QED BY <1>1, Inductive, PTL

(* What handleAidRequest names as settled was paid in full, and a federal    *)
(* transfer that is reported as approved is no longer on its way.            *)
THEOREM SettledHolds == Spec => []SettledIsPaid
<1>1. IInv => SettledIsPaid
  <2> SUFFICES ASSUME IInv, NEW r \in Requests
               PROVE  /\ answer[r] = "settled" => paid[r] = amount[r]
                      /\ answer[r] = "approved" => OnItsWay(r) = {}
    BY DEF SettledIsPaid
  <2>1. answer[r] = "settled" => paid[r] = amount[r]
    BY DEF IInv, PayInv, Account
  <2>2. \A i \in OnItsWay(r) : answer[r] # "approved"
    BY DEF IInv, PayInv, Sent, OnItsWay
  <2> QED BY <2>1, <2>2
<1> QED BY <1>1, Inductive, PTL

(* Whatever happens to receipts and processes, executeAidTransfer and        *)
(* issue_federal_transfer pay a request once at most, what was offered.      *)
THEOREM PaidOnceHolds == Spec => []PaidOnce
<1>1. IInv => PaidOnce
  <2> SUFFICES ASSUME IInv, NEW r \in Requests
               PROVE  /\ paid[r] \in {0, amount[r]}
                      /\ \A i, j \in OnItsWay(r) :
                           i = j /\ pool[i].amount = amount[r] /\ paid[r] = 0
                      /\ answer[r] = "declined" \/ stage[r] \in {"idle", "deciding", "paying"}
                           => paid[r] = 0 /\ OnItsWay(r) = {}
    BY DEF PaidOnce
  <2>1. Account(r)
    BY DEF IInv, PayInv
  <2>2. \A i \in OnItsWay(r) : /\ pool[i].amount = amount[r] /\ paid[r] = 0
                               /\ ~Early(r) /\ answer[r] # "declined"
    BY DEF IInv, PayInv, Sent, OnItsWay, Early
  <2>3. \A i, j \in OnItsWay(r) : i = j
    BY DEF IInv, PayInv, SentOnce, OnItsWay
  <2> QED BY <2>1, <2>2, <2>3 DEF Account, Early
<1> QED BY <1>1, Inductive, PTL

(* The swap that maybeAutoRebalance awaits is the only one, it goes towards  *)
(* the target by its balances, past it by less than the smallest swap, and   *)
(* is of no more than they hold: for every target, band, size and fault.     *)
THEOREM SwapsStayAimed == Spec => []SwapInv
BY InitAimed, NextAimed, Inductive, PTL DEF Spec

=============================================================================
