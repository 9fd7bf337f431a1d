----------------------------- MODULE Deployment -----------------------------
(***************************************************************************)
(* The scripts that put the contracts on chain and write the address books *)
(* the agents start from.  A script reads a book, sends transactions and   *)
(* writes the book, some after every state and some only when it ends; it  *)
(* may be stopped, or lose a receipt, at any of its awaits, and is then    *)
(* run again.  They are run by hand, one at a time.                        *)
(*                                                                         *)
(* A state's token is known by its number on the chain.  Amounts are       *)
(* counted in what one pool takes: 100k tokens and 100k USDC.  The USDC    *)
(* for the agents and the Treasury, which is topped up as the deployer's   *)
(* is, the gas of the Fed and the Treasury, the 0G side of fund-agents.ts, *)
(* which is its Unichain side again, and the approvals are left out: no    *)
(* later step depends on them, and one that fails stops the script as its  *)
(* next step may.                                                          *)
(***************************************************************************)
EXTENDS Integers, Sequences, SequencesExt, FiniteSets

CONSTANTS
  Phase3,      (* STATES of deploy-contracts.ts, in order                    *)
  Phase4,      (* PHASE4_STATES of deploy-phase4-onchain.ts, in order        *)
  Bonds,       (* the SPECs of deploy-bond.ts and deploy-phase4-bond.ts      *)
  ToAgent,     (* STATE_TOKEN_TO_AGENT                                       *)
  Ether,       (* what the deployer has for gas, beyond what it keeps        *)
  MaxMishaps   (* bound: stopped scripts, lost receipts, stale reads         *)

States == ToSet(Phase3) \cup ToSet(Phase4)

(* Faulty variant: what is minted is enough for a second pool.               *)
SupplyForTwo == ToAgent + 2

(* What is minted is what the agent gets and one pool.                       *)
Supply == ToAgent + 1

Gas4 == 1      (* ETH_PER_NEW_AGENT                                          *)
GasFund == 2   (* UNICHAIN_TARGET                                            *)

ASSUME DeploymentAssumption ==
  /\ ToSet(Phase3) \cap ToSet(Phase4) = {}
  /\ Phase3 \in Seq(States) /\ Phase4 \in Seq(States) /\ Phase3 # <<>>
  /\ ToAgent \in Nat /\ ToAgent > 1
  /\ Ether \in Nat /\ MaxMishaps \in Nat

VARIABLES
  chain,   (* tokens, pools, positions, iNFTs and balances                   *)
  disk,    (* the address books of Unichain and of 0G                        *)
  mem,     (* the running script's copy of them, and the token whose pool    *)
           (* its node may not show yet                                      *)
  todo,    (* what the running script has still to do                        *)
  mishaps  (* stopped scripts, lost receipts and stale reads, so far         *)

deployVars == <<chain, disk, mem, todo, mishaps>>

NoToken == 0
NoPosition == 0

Copy(d, book) == [book |-> book, infts |-> d.infts, unseen |-> NoToken]

(* No book yet, and the book of a script that starts one.                    *)
NoBook == [tokens |-> [s \in States |-> NoToken], pools |-> <<>>, bonds |-> {}]

DeployInit ==
  /\ chain = [tokens |-> <<>>, pools |-> {}, positions |-> <<>>, infts |-> {},
              usdc |-> 0, gas |-> [s \in States |-> 0], ether |-> Ether]
  /\ disk = [book |-> NoBook, infts |-> {}]
  /\ mem = Copy(disk, NoBook) /\ todo = <<>> /\ mishaps = 0

-----------------------------------------------------------------------------
(* What a script does, in order; its loops pass by the states that the book  *)
(* does not name.                                                            *)
Step(op, s) == [op |-> op, of |-> s]
Once(op) == <<Step(op, "all")>>
Each(op, order) == [i \in DOMAIN order |-> Step(op, order[i])]
EachInTurn(op1, op2, op3, order) ==
  [i \in 1..3 * Len(order) |->
     Step(<<op1, op2, op3>>[1 + ((i - 1) % 3)], order[1 + ((i - 1) \div 3)])]

Idle == todo = <<>>
BookExists == disk.book # NoBook
Seeded == disk.book.pools # <<>>

(* The operator's order: seed-pools.ts ran, if only as far as a first mint.  *)
SeedingRan == Seeded \/ chain.positions # <<>>

Named(book) == {s \in States : book.tokens[s] # NoToken}
Order == Phase3 \o Phase4

Begin(steps, book) ==
  /\ Idle
  /\ todo' = steps
  /\ mem' = Copy(disk, book)
  /\ UNCHANGED <<chain, disk, mishaps>>

(* deploy-contracts.ts: everything anew; the book is written at the end.     *)
DeployContracts ==
  /\ ~BookExists
  /\ Begin(Once("usdc") \o Each("token", Phase3)
             \o <<Step("lpUsdc", Len(Phase3))>> \o Each("grant", Phase3) \o Once("write"), NoBook)

(* seed-pools.ts: the pools of all tokens named, recorded at the end.        *)
EnoughUsdc == BookExists /\ chain.usdc >= Cardinality(Named(disk.book))

SeedPools ==
  /\ EnoughUsdc
  /\ Begin(EachInTurn("create", "look", "seed", Order) \o Once("write"),
           [disk.book EXCEPT !.pools = <<>>])

(* seed-pools-retry.ts: the entries without a position, then the addresses.  *)
RetrySeeds ==
  /\ Seeded
  /\ Begin(Each("retry", Order) \o Once("backfill") \o Once("write"), disk.book)

(* deploy-phase4-onchain.ts: the book is written after the tokens.  Run      *)
(* before seed-pools.ts, it would leave too little USDC for all the pools.   *)
DeployPhase4 ==
  /\ SeedingRan
  /\ Begin(Each("token", Phase4) \o Once("write") \o Each("grant", Phase4)
             \o <<Step("lpUsdc", Len(Phase4))>> \o Each("gas", Phase4) \o Once("write"), disk.book)

(* seed-phase4-pools.ts: the book is written after every pool.               *)
SeedPhase4 ==
  /\ Seeded
  /\ Begin(EachInTurn("create", "mint", "write", Phase4), disk.book)

(* deploy-bond.ts and deploy-phase4-bond.ts.                                 *)
DeployBond(b) ==
  /\ BookExists
  /\ b \notin disk.book.bonds
  /\ Begin(<<Step("bond", b)>> \o Once("write"), disk.book)

(* fund-agents.ts: nothing is sent unless all of it can be.                  *)
TopUp(s) == GasFund - chain.gas[s]
EnoughEther ==
  BookExists /\ MapThenSumSet(TopUp, Named(disk.book)) <= chain.ether

FundAgents ==
  /\ EnoughEther
  /\ Begin(Each("topUp", Order), disk.book)

(* mint-inft.ts: the iNFTs of all states, recorded at the end.               *)
MintInfts == Begin(Each("inft", Order) \o Once("writeInfts"), disk.book)

-----------------------------------------------------------------------------
Now(op) == ~Idle /\ Head(todo).op = op
Of == Head(todo).of
Token == mem.book.tokens[Of]
NotNamed == Token = NoToken

Goes(m) == todo' = Tail(todo) /\ mem' = m /\ UNCHANGED disk
Stops == todo' = <<>> /\ mem' = Copy(disk, disk.book) /\ UNCHANGED disk

Mishap == mishaps < MaxMishaps /\ mishaps' = mishaps + 1

(* A transaction whose receipt is awaited.  The script may be stopped before *)
(* it was sent, or after, with the chain changed and the memory lost.        *)
Transact(c, m) ==
  \/ chain' = c /\ Goes(m) /\ UNCHANGED mishaps
  \/ chain' \in {chain, c} /\ Stops /\ Mishap

Skip == Goes(mem) /\ UNCHANGED <<chain, mishaps>>
Reverts == Stops /\ UNCHANGED <<chain, mishaps>>

DeployUsdc ==
  /\ Now("usdc")
  /\ Transact([chain EXCEPT !.usdc = 0], mem)

(* Faulty variant: the book is not looked at.                                *)
NeverNamed(s) == FALSE

(* deploy-phase4-onchain.ts looks whether its book names the token.          *)
AlreadyNamed(s) == mem.book.tokens[s] # NoToken

DeployToken ==
  /\ Now("token")
  /\ \/ AlreadyNamed(Of) /\ Skip
     \/ /\ ~AlreadyNamed(Of)
        /\ Transact([chain EXCEPT !.tokens = Append(@, [deployer |-> Supply, agent |-> 0])],
                    [mem EXCEPT !.book.tokens[Of] = Len(chain.tokens) + 1])

(* The transfer of the agent's share, skipped when the agent has it.         *)
Grant ==
  /\ Now("grant")
  /\ LET t == chain.tokens[Token] IN
     \/ t.agent >= ToAgent /\ Skip
     \/ t.agent < ToAgent /\ t.deployer < ToAgent /\ Reverts
     \/ /\ t.agent < ToAgent /\ t.deployer >= ToAgent
        /\ Transact([chain EXCEPT !.tokens[Token] =
                       [deployer |-> t.deployer - ToAgent, agent |-> t.agent + ToAgent]], mem)

(* The deployer's USDC for the pools: minted at first, then topped up.       *)
MintLpUsdc ==
  /\ Now("lpUsdc")
  /\ \/ chain.usdc >= Of /\ Skip
     \/ chain.usdc < Of /\ Transact([chain EXCEPT !.usdc = Of], mem)

FundGas ==
  /\ Now("gas")
  /\ LET need == Gas4 - chain.gas[Of] IN
     \/ need <= 0 /\ Skip
     \/ need > chain.ether /\ Reverts
     \/ /\ need > 0 /\ need <= chain.ether
        /\ Transact([chain EXCEPT !.gas[Of] = Gas4, !.ether = @ - need], mem)

(* fund-agents.ts goes on when a transfer fails.                             *)
SendTopUp ==
  /\ Now("topUp")
  /\ \/ (NotNamed \/ TopUp(Of) <= 0) /\ Skip
     \/ /\ ~NotNamed /\ TopUp(Of) > 0
        /\ Transact([chain EXCEPT !.gas[Of] = GasFund, !.ether = @ - TopUp(Of)], mem)
     \/ ~NotNamed /\ TopUp(Of) > 0 /\ Mishap /\ Goes(mem) /\ UNCHANGED chain

-----------------------------------------------------------------------------
HasPosition(s) ==
  s \in DOMAIN mem.book.pools /\ mem.book.pools[s].position # NoPosition

(* createAndInitializePoolIfNecessary, unless the entry has its position.    *)
CreatePool ==
  /\ Now("create")
  /\ \/ (NotNamed \/ HasPosition(Of)) /\ Skip
     \/ /\ ~NotNamed /\ ~HasPosition(Of)
        /\ Transact([chain EXCEPT !.pools = @ \cup {Token}],
                    [mem EXCEPT !.unseen = IF Token \in chain.pools THEN NoToken ELSE Token])

Enter(s, position, known) ==
  [mem EXCEPT !.book.pools =
     [p \in DOMAIN @ \cup {s} |->
        IF p = s THEN [position |-> position, known |-> known] ELSE @[p]]]

(* seed-pools.ts asks for the pool's address; a node behind answers zero.    *)
LookAtPool ==
  /\ Now("look")
  /\ UNCHANGED chain
  /\ \/ NotNamed /\ Skip
     \/ ~NotNamed /\ Goes(Enter(Of, NoPosition, TRUE)) /\ UNCHANGED mishaps
     \/ ~NotNamed /\ mem.unseen = Token /\ Mishap /\ Goes(Enter(Of, NoPosition, FALSE))
     \/ ~NotNamed /\ Stops /\ Mishap

CanMint == Token \in chain.pools /\ chain.usdc >= 1 /\ chain.tokens[Token].deployer >= 1

MintPosition(known) ==
  Transact([chain EXCEPT !.usdc = @ - 1, !.tokens[Token].deployer = @ - 1,
                         !.positions = Append(@, Token)],
           Enter(Of, Len(chain.positions) + 1, known))

(* The mint of seed-pools.ts.  On a node that does not show the pool yet it  *)
(* reverts, and its receipt is not looked at: the entry keeps position 0.    *)
SeedPool ==
  /\ Now("seed")
  /\ \/ NotNamed /\ Skip
     \/ ~NotNamed /\ CanMint /\ MintPosition(mem.book.pools[Of].known)
     \/ ~NotNamed /\ mem.unseen = Token /\ Mishap /\ Goes(mem) /\ UNCHANGED chain
     \/ ~NotNamed /\ ~CanMint /\ Reverts

(* The mint of the other two, once the node shows the pool: that of          *)
(* seed-pools-retry.ts is for the entries there are.                         *)
MintUnless(done) ==
  \/ done /\ Skip
  \/ ~done /\ CanMint /\ MintPosition(TRUE)
  \/ ~done /\ ~CanMint /\ Reverts

MintPool == Now("mint") /\ MintUnless(NotNamed \/ HasPosition(Of))

RetryPool ==
  Now("retry") /\ MintUnless(Of \notin DOMAIN mem.book.pools \/ HasPosition(Of))

(* Faulty variant: only entries without a position are asked for again.      *)
BackfilledEmpty(pools) ==
  [s \in DOMAIN pools |->
     [pools[s] EXCEPT !.known = @ \/ pools[s].position = NoPosition]]

(* seed-pools-retry.ts asks again for the addresses that were zero.          *)
Backfilled(pools) == [s \in DOMAIN pools |-> [pools[s] EXCEPT !.known = TRUE]]

Backfill ==
  /\ Now("backfill")
  /\ Goes([mem EXCEPT !.book.pools = Backfilled(@)])
  /\ UNCHANGED <<chain, mishaps>>

DeployBondToken ==
  /\ Now("bond")
  /\ Transact(chain, [mem EXCEPT !.book.bonds = @ \cup {Of}])

(* A bundle is uploaded and the token minted, unless the state has its own.  *)
(* If it does not unseal, or the chain does not show what was minted, the    *)
(* script goes on without an entry for it.                                   *)
MintInft ==
  /\ Now("inft")
  /\ LET minted == [chain EXCEPT !.infts = @ \cup {Of}] IN
     \/ Of \in chain.infts /\ Skip
     \/ Of \notin chain.infts /\ Transact(minted, [mem EXCEPT !.infts = @ \cup {Of}])
     \/ Of \notin chain.infts /\ chain' \in {chain, minted} /\ Mishap /\ Goes(mem)

(* writeFileSync of the script's copy.                                       *)
WriteBook ==
  /\ \/ Now("write") /\ disk' = [disk EXCEPT !.book = mem.book]
     \/ Now("writeInfts") /\ disk' = [disk EXCEPT !.infts = mem.infts]
  /\ todo' = Tail(todo)
  /\ mem' = [mem EXCEPT !.unseen = NoToken]
  /\ UNCHANGED <<chain, mishaps>>

-----------------------------------------------------------------------------
Begins ==
  \/ DeployContracts \/ SeedPools \/ RetrySeeds \/ DeployPhase4 \/ SeedPhase4
  \/ FundAgents \/ MintInfts \/ \E b \in Bonds : DeployBond(b)

Runs ==
  \/ DeployUsdc \/ DeployToken \/ Grant \/ MintLpUsdc \/ FundGas \/ SendTopUp
  \/ CreatePool \/ LookAtPool \/ SeedPool \/ MintPool \/ RetryPool \/ Backfill
  \/ DeployBondToken \/ MintInft \/ WriteBook

DeployNext == Begins \/ Runs

DeploySpec == DeployInit /\ [][DeployNext]_deployVars

(* A transaction returns or throws, and whoever deploys runs every script    *)
(* again and again, as long as it does not refuse at once.                   *)
RunAgain ==
  /\ WF_deployVars(Runs)
  /\ []<><<DeployContracts \/ BookExists>>_deployVars
  /\ []<><<SeedPools \/ ~EnoughUsdc>>_deployVars
  /\ []<><<RetrySeeds \/ ~Seeded>>_deployVars
  /\ []<><<DeployPhase4 \/ ~SeedingRan>>_deployVars
  /\ []<><<SeedPhase4 \/ ~Seeded>>_deployVars
  /\ []<><<FundAgents \/ ~EnoughEther>>_deployVars
  /\ []<><<MintInfts>>_deployVars
  /\ \A b \in Bonds : []<><<DeployBond(b) \/ ~BookExists \/ b \in disk.book.bonds>>_deployVars

DeployFairSpec == DeploySpec /\ RunAgain

-----------------------------------------------------------------------------
(* A position the book names was minted, with the token that the book names  *)
(* for its state: the agents trade on that pool.                             *)
RecordedIsReal ==
  /\ \A s \in DOMAIN disk.book.pools :
       LET p == disk.book.pools[s].position IN
       p # NoPosition => /\ p \in DOMAIN chain.positions
                         /\ chain.positions[p] = disk.book.tokens[s]
  /\ disk.infts \subseteq chain.infts

PositionsOf(t) == {p \in DOMAIN chain.positions : chain.positions[p] = t}

(* However often the scripts are stopped and run again, no agent gets its    *)
(* share twice, the book names no token of phase 3 whose agent has not got   *)
(* its share, and no pool of a token whose agent has got it takes a second   *)
(* position.  (One whose agent has not may: seeded twice, it leaves too few  *)
(* for the agent.)                                                           *)
SpentOnce ==
  /\ \A t \in DOMAIN chain.tokens :
       /\ chain.tokens[t].agent <= ToAgent
       /\ chain.tokens[t].agent = ToAgent => Cardinality(PositionsOf(t)) <= 1
  /\ \A s \in ToSet(Phase3) :
       LET t == disk.book.tokens[s] IN t # NoToken => chain.tokens[t].agent = ToAgent

(* What was minted by a script that was stopped before it wrote the book.    *)
Unrecorded ==
  \E p \in DOMAIN chain.positions :
    \A s \in DOMAIN disk.book.pools : disk.book.pools[s].position # p

(* Minted for by two runs before its agent got its share.                    *)
SeededTwice == \E t \in DOMAIN chain.tokens : Cardinality(PositionsOf(t)) > 1

(* Run again and again, the scripts leave every state with its token, share, *)
(* gas, pool and iNFT, and the book names them.  A stopped run may leave     *)
(* behind what no later one records: then pools may be missing, or that      *)
(* iNFT, and of a token seeded twice and those after it the agents' share;   *)
(* but never a token of the book, gas or a bond.                             *)
ReadyInTheEnd ==
  <>[] /\ \A s \in States :
            /\ disk.book.tokens[s] # NoToken
            /\ chain.tokens[disk.book.tokens[s]].agent = ToAgent \/ SeededTwice
            /\ chain.gas[s] = GasFund
            /\ \/ /\ s \in DOMAIN disk.book.pools
                  /\ disk.book.pools[s].position # NoPosition /\ disk.book.pools[s].known
               \/ mishaps > 0 /\ Unrecorded
            /\ s \in disk.infts \/ (mishaps > 0 /\ s \in chain.infts)
       /\ disk.book.bonds = Bonds

=============================================================================
