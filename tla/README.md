# Federated Reserve: TLA+ models and proofs

The Federated Reserve runs one agent per US state, and one each for the Federal
Reserve (FED) and the Treasury. Agents find each other on a peer-to-peer mesh,
announce indicators and rates, negotiate swaps, bonds, coalitions and emergency
aid over A2A tasks, settle on a test chain, and keep their state on disk and on
0G storage. An observer collects telemetry for a dashboard, and a data plane
caches public economic data for the agents.

This directory holds models of the parts where order, failure and restarts
decide whether the program is right, what TLC checks of them, and what TLAPS
proves.

## Inventory

Paths are relative to `src/packages/` unless they start with `src/`.

| Component | State it keeps | Hard behaviour | What makes it correct |
|---|---|---|---|
| **Sealed-bid bond auction** (`agent/src/a2a/bond-auction-registry.ts`, `executor.ts` 847-1209) | one auction per bond: parked bids, timer, `evaluating` | bids arrive while the evaluator or the mint is awaited; lost receipts; restarts | one winner and one mint per round, the minted bidder is told, every bid answered |
| **Credit rating** (`shared/src/credit-rating.ts`) | none | table boundaries, readings that are missing | a weaker issuer never asks for lower yields |
| **Agent memory on 0G** (`agent/src/og-storage-memory.ts`, `memory.ts`) | local mirror, manifest, log buffer, flush timer, upload chain | crash at any await, failing uploads and writes, torn files | a restart never resumes from something older than what was saved; no log entry is lost, duplicated or reordered |
| **Swap negotiation** (`executor.ts` 184-520) | the task and its history, running handlers | duplicated and late messages, a settlement awaited without a status | one swap, on terms both sides agreed to |
| **Federal coalition** (`executor.ts` 530-834) | the task | a counter that nobody follows up, a revised invite | the revised invite's answer is the last |
| **Tick loop, initiation, broadcast, reflection** (`tick.ts`, `initiate.ts`, `broadcast.ts`, `reflect.ts`) | tick count, what it announced, reflection hash, the log | ticks of two agents that await each other's handlers; announcements without sequence numbers; a cost guard over a log it writes to | ticks go on, announcements arrive in order, an idle agent stops paying |
| **Aid, federal transfers, auto-rebalance** (`executor.ts` 1210-1420, `mcp/server.ts` 201-282, `tick.ts` 558-707, `chain-reader.ts`) | balances on the chain and as last read, cooldown | decisions on old or partial readings; reverted and lost transactions | what is called paid was paid, at most once; the reserve ratio ends in its band |
| **Peer discovery, shock fan-out** (`discovery.ts`, `tick.ts` 266-447) | known peers, cached cards, a bounded set of seen ids | peers that leave, cached failures, lost answers, a trimmed set | each shock reaches the state it affects, and not again without need |
| **iNFT anchoring** (`agent/src/og-anchor.ts`, `og-anchor-bootstrap.ts`, `og-reader.ts`, `og-inft/src/contract.ts`, four of `src/scripts`) | policy, two anchors in flight, the ceremony's locals, the address book, the transcript | anchors mined late, a ceremony beside a running agent, copies of the token read at other times | the token names the agent's last state in the end; the recipient's token is readable and left alone; what is written of it agrees |
| **Observer store, dashboard** (`observer/src`, `frontend/hooks/use-observer.ts`) | negotiations, histories, events; the browser's view | telemetry out of order, polls that cross the stream, lost connections | an ended negotiation stays ended, the caps hold, the view becomes what is so |
| **Data plane** (`data-plane/src`) | two caches and their files, a rate limit bucket | two callers of one refresh, failed writes, restarts, retries | nothing goes back to an older observation; files catch up; every source returns |
| **Contracts** (`src/contracts/src`) | tokens, iNFT metadata | calls in any order | metadata follows the token's owner |
| **Deployment scripts** (nine of `src/scripts`) | the address books, the chain | a script stopped anywhere and run again | what the book names exists; nothing is spent twice; every state ends up ready |
| Server, clients, reasoner, state, og-inft library | little or none | – | modelled where their callers await them |
| Dashboard pages, schemas and tables, gates, spikes, containers | – | – | presentation, types, or run by hand; not modelled |

How they interact: the tick loop calls data plane, chain, peers and memory in
turn and shares one live `AgentState` object with the A2A handlers, so a handler
may change the state at any await of the tick. Agents talk by A2A tasks
(`message/send`, answered when the handler's promise resolves) and MCP tool
calls. Minting, transfers and metadata updates are transactions that are sent,
then awaited, and may be mined after the wait was given up. Telemetry is
fire-and-forget.

`PROJECT.json` lists every component with its status, every hazard with its
line, and for every definition the source lines that it models.

## Modules

| Module | Models |
|---|---|
| `BondAuction` | the registry, the evaluator and the settler of one bond, at one action per stretch of code between two awaits |
| `SealedBids` | what a bidder may rely on: the abstract specification of `BondAuction` |
| `CreditRating` | `assessCredit`, as integer arithmetic |
| `BondAuctionProofs` | the inductive invariant, the safety theorems, the refinement of `SealedBids`, and that the rating is monotone |
| `OgStorageMemory`, `OgStorageMemoryProofs` | one agent's memory: process, live state, mirror, manifest, log buffer, upload queue, faults |
| `SavedState` | what an agent may rely on of its memory: the abstract specification of `OgStorageMemory` |
| `SwapNegotiation` | `negotiate-bilateral-swap`: the responder's handler, the task store, the swap of a settlement |
| `SwapAgreement` | what two states may rely on: the abstract specification of `SwapNegotiation` |
| `SwapNegotiationProofs` | its inductive invariant, its safety theorems and the refinement |
| `TickLoop`, `TickLoopProofs` | the ticks of several agents: announcements, swap, coalition and bond initiation, the peers' handlers, reflection; the proofs include `ShockFanOut`'s |
| `AgentWallet`, `AgentWalletProofs` | one wallet, the rebalance, aid and federal transfers that spend from it, and its transactions |
| `MeshDiscovery` | who knows whom, while nodes end and start |
| `ShockFanOut` | the FED's sweep over the peers that `MeshDiscovery` gives it |
| `INFT7857` | one token of the contract: owner, URI, metadata hash, sealed key |
| `OgAnchor` | the anchors an agent sends for its token, the transfer ceremony, the transactions of both |
| `InftRecords`, `OgAnchorProofs` | what scripts and a running agent write down of the token; the proofs of `OgAnchor`, `InftRecords` and `Deployment` |
| `RateLimiter` | the token bucket |
| `SourceFetch` | one refresh of one source: workers, batches, the limiter, retries |
| `DataPlane`, `DataPlaneProofs` | the refreshes of all sources, the two caches, their files, restarts; the proofs include `RateLimiter`'s and `SourceFetch`'s |
| `ObserverStore`, `ObserverStoreProofs` | the observer's store: ingest, trim, expiry, what it reads; the proofs include `Dashboard`'s |
| `Dashboard` | one browser on that store: polls, socket, reducer |
| `Deployment` | nine scripts, the address books and the chain |
| `MC...` | instances for TLC |

`ShockFanOut` extends `MeshDiscovery`, `Dashboard` extends `ObserverStore`,
`SourceFetch` extends `RateLimiter`, `BondAuction` extends `CreditRating`, `InftRecords` extends
`OgAnchor`, which acts on `INFT7857`: each of these runs checks them together. The
bands of yields that `MCBondAuction` gives the auction are those of two readings;
an assumption that TLC evaluates says so.

### BondAuction and CreditRating

The registry's map holds one independent auction per `bond_id`, so the model has
one bond. `phase` is the map entry (`none`: no key; `open`; `evaluating` and
`settling`: `auction.evaluating` is set, the evaluator or the settler is
awaited). `parked` is `auction.parked`; `timer` and `queued` are the armed
timeout and the `queueMicrotask` of the cap. `Park` and `RejectLate` are the two
branches of `submitBidAndAwait`, `WindowCloses` and `CapReached` the two ways
into `runEvaluation`, `PickWinner` and `RejectAll` the evaluator's outcomes,
`SendMint`, `MintMined` and `SettlerReturns` the settler, `Restart` a new
process. `outcome` is the promise each caller awaits; `receipt` the tasks whose
award quotes a mint transaction. `ledger` is the chain's view, a list of mint
transactions sent, each mined sooner, later or never. `round` and `joined` are
history, used by properties and by `ledger` only.

The reasoner may name any bidder or nobody; the credit assessment may return any
of the bands in `Bands`. Text and telemetry are left out. The sort is modelled by
its order (`Before`), since only its first element within a set is ever used.

`CreditRating` scales every rate so that each quotient of the code is an integer
(a point of the score is 140). Readings may be missing (`Unknown`).

### OgStorageMemory

`phase` is where the process's main line stands: `down`, `hydrating`, `boot`
(loaded, not yet saved), `idle` between ticks, `ticking`, `saving`, `stopping`.
`live` is the `AgentState` object, as a tick count and a revision that names its
content; `mirror` is `state.json`, `disk` is `og-manifest.json`, both possibly
`Torn`; `manifest` is the in-memory one. `jobs` and `job` are the `inFlight`
chain: queued state uploads and flushes, and the one that runs. Log entries are
numbered. `acked`, `first`, `evicted` and `missed` are history. Every await of the
state's and the uploads' code is a boundary: the mirror's write, the download, the
upload, the manifest's write. `AppendLog` is the stretch after the mirror has the
entry; the await of that write is left out, since nothing is read before it that is
used after it: a crash in it leaves an entry in `log.jsonl` at most, which no
property counts.

Faults are injected by kind (`Faults`) up to `MaxFaults`: a crash, an upload, a
download, a mirror write or a manifest write that fails, and `slow`, an upload
that outlives its tick. A crash during a file write leaves the old file, the new
one, or a torn one; `writeFile` truncates before it writes and the code uses
neither a temporary file nor a rename. A blob that cannot be decrypted or
verified is a failed download. `memory.shutdown()` is not modelled: no code calls
it (the process's own shutdown in `index.ts` is `Stop`).

`SavedState` knows of all this only whether the agent is up (`phase \in Running`),
the revision it runs on, the newest there was, and the last one it was told was
saved (`acked`): a state that comes up lies between the last two. The exception is an
anchor that is `Misleading`: its content is of an earlier tick than it claims, since
its upload outlived a tick, or a start could not download it and went on without it
(`missed`). A restart that turns to such an anchor may lose what was saved after its
content; then `Promised` takes `acked` back to what the anchor has, and `SavedState`
admits it while the copy elsewhere is `doubtful`. Nothing else may take it back.

### SwapNegotiation

A call is one `message/send` request and the handler it starts, so `pc`,
`verdict`, `rounds`, `leg` and `told` are the handler's locals and results: where
it stands, what `decideOnProposal` or `decideOnCounter` returned (`cap` is the
round cap), `ctx.task.history.length`, the swap it sent and the `legs.responder`
it told. `state` and `history` are the task in the store, `answer` what the
request got. The branches of `handleNegotiateSwap` are one action each, split at
the awaits of the reasoner and of the swap. The terms of a swap are left out: an
accept settles the terms it names and no later step depends on them.

The A2A SDK is not in the repository. As the code uses it, the first final
status of a task answers every request that waits on the task and closes its
event bus, later statuses are not heard, and a message to a finished or unknown
task is refused. `Replies` is how many of the responder's replies the store may
add to the task's history. If it adds one, the first continuation is already
round three, so the cap answers every counter; if it adds none, a patient
initiator never reaches the cap. Both are checked. An initiator may write again, or
cancel, at any time, while its last message is being settled too: handlers of one
task then run side by side. `crowded` is history: the tasks on which somebody wrote
while a call waited. `SwapAgreement` says what holds for every task (it ends once; a
call swaps for it once at most, if it was taken while the task was open) and what
more holds for one that is not crowded (one swap, and none if it is refused).

### TickLoop

`tick` is `state.tickCount`, kept modulo the cadences, and `phase` what the tick
awaits: the announcements, one of the three negotiations, or the reflection.
`Begin` is the start of a tick up to its first await, and each later action is
the stretch from one await to the next. `news` names by version what the data
plane has for an agent (for the FED: the rate it would set), `own` what it
announced, `heard` what each peer last got. `calls` are the announcements of a
`Promise.all`. `task` is the last negotiation an agent began, as its handler in
the peer sees it, and `waits` the agents whose tick awaits the answer: handlers
(`AnswerSwap`, `Settle`, `AnswerInvite`, `Revise`, `AnswerRevised`, `AnswerBid`)
run whatever their own agent's tick does. A call may fail before or after its
handler took it (`CallFails`, `AnswerLost`); the model assumes that the AXL node
does not deliver a call it has reported as failed. `log` is its newest entries,
from which `Fingerprint` hashes those that are not reflections. The observer is
told of every round without being awaited: that is `ObserverStore`'s `Telemetry`.

### AgentWallet

`wallet` is the chain's balance, `live.seen` what `state.chainBalances` says,
`saved` what a crash goes back to. `tick` is where the tick stands: refreshing,
about to swap, or saving. The handlers of two requests run beside it; `stage` is
where each is, between the decision, the transfer and its receipt. `pool` is the
transactions in nonce order, mined or reverted first to last. Faults: a lost or a
reverted receipt, a failed or partly failed refresh (`chain-reader.ts` counts a
balance it could not read as zero), a failed quote, a crash.

### MeshDiscovery and ShockFanOut

`known` and the refresh of each node are `MeshDiscovery`'s; an answer to
`share_topology` brings the answerer's own list. A sweep takes the worst `TopN`
active shocks that are not in `recently`, one per state, and walks the peers for
the one whose card names the state; `card` caches also failures, until they
expire. The sweep recognises the names of eight states (`Recognised`): the card of
an agent of any other state, those of the observer tier in `shared/src/states.ts`,
is cached like a failure. `handled` counts what an agent did; `excuse` the lost answers, trimmed
ids and restarts for which it may be sent again.

### INFT7857, OgAnchor and InftRecords

`INFT7857` has the contract's functions as operators on the token's four
variables; `OgAnchor` sends transactions to it. A bundle is named by the version
of the state and log it was made of, so that `encryptedURI` and `metadataHash`
agree when they name the same bundle.

The two `Slots` are the anchors that `inFlight` admits. `pc` is where the anchor of
a slot stands: `Save` is `saveState` with the policy (`AnchorReason`), `MakeBundle`
the stretch after the log was read, `Upload` the upload's end, `Send` and
`SendReverts` the wallet's estimate and its transaction, `Record` and `Finish` the
stretches before and after the anchor's own log entry. `CallFails`,
`MinedReverted` and `ReceiptTimesOut` are the errors that `recordFailure` counts;
only the revert of an estimate names both `execution reverted` and
`updateMetadata`, and disables the pipeline. `lastAnchored` is the version the
baseline of the policy was read from: the live object, after all awaits.
`version # lastAnchored` stands for the deltas of value, ratio and composition,
which may also be too small to count: then `Save` is not taken. The startup
offset and the minimum interval only delay a save.

`pool` holds the transactions of each account in nonce order; the chain mines the
first of any account at any time. A receipt nobody waits for is dropped
(`Abandoned`). The ceremony is run by hand, at most once, at any time: it reads
the token, sends the transfer with the hash it read as its proof (`MockOracle`
returns the proof's first word), looks at the new owner, downloads the blob and
compares its hash, one call after the other.

`InftRecords` adds the copies. `book` is the token's entry in `0g-galileo.json`,
`transcript` what the ceremony files at its end (`WriteTranscript` reads the URI once
more); `Sync` is `sync-inft-manifest.ts`. `BuildBegins`, `AskOwner` and `WriteManifest`
are `build-inft-manifest.ts`: it reads the book, asks the chain for the owner, and
writes that owner beside the book's URI and hash to `manifest`. `AuditBegins` to
`AuditEnds` are `decrypt-inft.ts` with a key that somebody has: four views, read one
after the other, and a proof (`audited`) of what was read, if the key opens it and the
hash is the bundle's. In both files the field `sealed`, which the scripts do not
write, is history: of which book the manifest was made, and whose key opened the
token. The two start once the transfer is sent, since before it the token and the book
have one owner, and each start takes one of the faults, which bounds them. A running
agent keeps the owner it read in the book at its start (`expected`) and at
each tick saves what the chain says (`RefreshStatus`; a failed read saves that there
is no token, `InftReadFails`). `SignerOf` is the choice of `og-anchor-bootstrap.ts`:
an override, the agent's own key, else the deployer, who is the contract's admin.

### DataPlane, SourceFetch, RateLimiter

`DataPlane` runs `refreshOnce` twice over, for the loop and for `POST /refresh`:
`stage` is the source a caller awaits and `merged` its `stateSnapshots`. A cache
has its map (`mem`), its file (`disk`), the flushes that wait (`queued`) and the
one that writes (`writing`). An observation is a source and the release it was
read from, so "older" is a comparison of releases. What a source returns, all of
its states or some, is a choice; `SourceFetch` is how it comes about: the
workers' shared cursor, one limiter, attempts and delays. `RateLimiter` is
`acquire`, its queue and its timers, which fire late by up to `MaxLate`.

### ObserverStore and Dashboard

Things are named by the event that brought them. `IngestNegotiationRound` with
`Trim` is the one with history; `HydrateFromMemory`, `LoadInfts` and `UpdateMesh`
are the periodic reads. The browser's `poll` is an HTTP request whose answer is
fixed when the server reads it and applied when it arrives, `channel` the socket,
`Received` the reducer with its caps.

### Deployment

`disk` is the address books (`book`, and the recorded iNFTs), `chain` the tokens,
positions, gas and the rest, `mem` the running script's copy of the books and
`todo` what it has still to do: a loop has a step for every state, which passes by
a state that the book does not name. A script may stop before or after any
transaction, and a node may answer with an old state. They are run one at a time,
in any order that their own checks admit, with two of the operator's: Phase 4 is
deployed after `seed-pools.ts` ran, if only as far as a first mint (`SeedingRan`), and
`deploy-contracts.ts`, which starts from nothing when it is run again, is run while
there is no book. Neither script checks this itself.

## Runs

All runs pass: 12 runs, 40 properties, each with a mutant of the code's definition under
which TLC finds the property violated (`PROJECT.json`, `mutants`).

| Run | Question | Time |
|---|---|---|
| `bond_auction` | do late bids, window, cap, reasoner, mint, receipts and restarts keep one mint per round, within credit, and tell the minted bidder; does the auction implement `SealedBids`; does a weaker issuer never ask for lower yields? | 15 s |
| `og_memory` | does a running process keep every log entry, under every fault, and is every entry anchored if uploads succeed? | 65 s |
| `og_memory_recovery` | does the memory implement `SavedState` (a restart resumes from the last saved state or a later one, but for a misleading anchor), does the anchor never go back, are the batches on 0G the log in order, without duplicates, under slow and failed uploads, failed downloads, failed state writes and crashes? | 95 s |
| `swap_negotiation` | is every request answered, and do the handlers implement `SwapAgreement` (one swap per task, none for a refused one, unless somebody wrote while a call waited), with messages and cancellations at any await? | 45 s |
| `tick_loop` | do announcements arrive in order, does every tick end although ticks may wait for each other's handlers, does an agent without news stop paying for reflections? | 18 s |
| `agent_wallet` | is what is called paid paid, at most once, and does the reserve ratio end in its band, whatever was decided on old or partial readings? | 110 s |
| `shock_fan_out` | is every shock of a recognised state handled, and none sent again without need, with lost answers, a trimmed set, restarts, and nodes that leave and come back? | 95 s |
| `inft_anchor` | does a transferred token stay as it was, do transcript, book, manifest and proof agree with it whenever they are made, is anchoring given up only when the token is gone, does a passed ceremony leave a readable token, and do token and dashboard catch up with the agent? | 125 s |
| `data_plane` | do two callers of a refresh never put an older observation over a newer one, do the files catch up, does refreshing go on? | 26 s |
| `source_fetch` | is everything a source is asked for settled, once, within the rate and the retries, and does it return? | 46 s |
| `telemetry` | does a late round reopen nothing, does the trim drop nothing open, does the stream miss nothing, does the browser show the truth in the end? | 43 s |
| `deployment` | does the book name only what exists, is nothing spent twice, is every state ready in the end? | 55 s |

### Bounds

*Auction.* Two bidders and three tasks are the least in which one bidder has two
bids next to a rival; a cap of two lets both the window and the cap close a
round, a third bid arrive late, and a second round follow. The bids at 520,
600 and 900 basis points lie below one floor, inside both bands and above both
ceilings;
principals on either side of the declared one make the cap on a mint bite. The
216 readings `WorseNeverCheaper` compares take two or three values of each
indicator, missing among them for four of the six.

*Memory.* Batches of two entries, a manifest of at most two batches, three
entries: enough for a full batch, a timer flush, a requeue in front of a newer
entry, and, as timer flushes leave short batches, an eviction. `MaxRev` bounds
ticks and handler writes together; three let the tick and the revision advance
independently across a restart. `og_memory_recovery` spends its states on those
and has two entries; the order of the log is proved for any number. Two faults
per behaviour reach every pair (say, a slow upload and then a crash).
`og_memory_recovery` admits every fault but a failed manifest write, after which
`LogInOrder` does not hold: the requeued batch is already named, and goes out twice.

*Swap.* Three calls are a task with two continuations, or two tasks and a
continuation of one; tasks share only the process that restarts. Two continuations
of one task are also an accept and its repetition, or two messages that cross. One
restart meets every stage of a handler.

*Tick loop.* Two leaves: all that matters in a wait is who waits for whom. One
announces at every tick, in two versions of its news, so that an older one could be
overtaken; the other has none, since a peer takes an announcement in one step.
Swaps, coalitions and bonds come at different ticks so that every pair of
negotiations meets. A window of three entries is less than what two ticks log, so
entries leave it. The FED, a leaf but for its negotiations, announces through the
same actions and is left out.

*Wallet.* Four dollars in two mixes, a bond of one, a band from 25 to 75 percent,
swaps of two or three dollars: both directions, both clamps, and payments that
cross the band. Two requests compete for the balance; two faults pair up.

*Mesh.* A line of three nodes: the one that is affected is two hops from the FED,
behind one whose name is not recognised. Two shocks of its state, of which a sweep
reads the more severe and one id is remembered: the lesser is owed when the other is
over or was not there, and sending it trims the other. One lost call. A shock of the
unrecognised node's state is not in the run: a sweep skips it, and nothing is owed.

*iNFT.* One version after the first, two transactions of an account on their way
and one fault: enough for two anchors in flight with different bundles, one of
them failing or losing its receipt, or a restart between them, and a transfer
before, between and after both. Or, in the fault's place, one script that builds the
manifest or files a proof, each read of which may come at any time between the
transfer's send and the end; no code of the model reads what it writes. The proof has
them together, with any number of faults and of scripts. The heartbeat is one tick,
since only its having passed is looked at.

*Data plane.* One state and two sources that share an indicator, two releases,
two manual refreshes, two faults. *Sources.* Two workers, two items of two
series, one retry, two failures. *Telemetry.* Two negotiations over a cap of one,
two inputs, one lost connection or poll, one poll under way: larger caps only
delay the trims. *Deployment.* Two states of each phase and one bond, since
scripts treat a first and a later state differently; two faults, the second of
which may hit the rerun.

Deadlock is not checked: every bound ends some behaviours, and an idle registry,
a process that is down or a script that has run owe nobody a step.

### Fairness

*Auction.* Weak fairness of the window, of the cap's microtask, of the evaluator
(`runEvaluation` catches its errors, so it always returns) and of the settler's
return (`waitForTransactionReceipt` times out). No fairness of bids, of mints or
of mining.

*Memory.* Weak fairness of the flush timer, of the start of a queued job, and of
the end, good or bad, of an upload and of a manifest write. None of ticks,
appended entries, crashes or restarts.

*Swap.* Weak fairness of the reasoner's answer (any error of it is caught) and of
the end of a settlement (`executeResponderLeg` catches every error, and the
receipt's wait times out). None of messages, of mining or of restarts.

*Tick loop.* Weak fairness of each agent's tick, of the handlers of its
negotiations and of the delivery of its announcements: timers fire, and a call
returns or fails. The code sets no timeout on these calls, so this is also an
assumption about the peer. None of news, of revised invites or of faults.

*Wallet.* Weak fairness of the tick, of mining, and of each handler. *Mesh.* Weak
fairness of the sweep's steps, of each node's refresh, and of the expiry of a
cached card. *Data plane.* Weak fairness of the loop's timer, of each caller's
refresh and of each queue's flushes. *Sources.* Weak fairness of the limiter's
timers and of each worker. *Telemetry.* Weak fairness of the observer's periodic
reads, of the browser's reconnection, of deliveries and of polls; none of
telemetry, which is fire-and-forget. *Deployment.* A script that runs goes on or
stops, and each is run again as long as its own checks admit it: an assumption on
the operator that `ReadyInTheEnd` is about.

*iNFT.* Weak fairness of ticks and of saves (every tick of a running agent saves),
and of the end of each stage of an anchor: an upload or a call returns or throws.
Of ticks, too, that the status is read again. None of changes, faults, restarts, the
ceremony or the scripts. `RecordsCatchUp` assumes of the
environment that the chain mines what was sent, that failures end (`MaxFaults`),
and that the state and log at some point stop changing (`MaxVersion`).

## What the models and the code also show

These follow from reading the models beside the code. Each is reachable in its
model, or is a sentence of a comment that the code does not keep; none has a run of its
own, and the properties above are stated so that they admit these and no more.

*Auction*
* `evaluateBondAuction` gives one verdict per bidder, and one ineligible bid makes
  it `rejected` (`executor.ts:985`), even when another bid of the same bidder wins
  and is minted; the comment at line 921 gives the winner `awarded`.
  `AwardsMatchMints` therefore has the minted told so only if they have one bid.
* Each mint is capped at its bond's principal, but a bond is auctioned again after
  each round and nothing keeps the sum.
* The comment at `credit-rating.ts:96` has a reserve of 20% score 50; the code
  gives 30. A reading that is missing counts as neutral, so losing a bad one
  raises the rating.

*Memory*
* A state upload serializes the state first and reads `state.tickCount` for its
  anchor after the upload, when a later tick may have begun. After a crash the
  mislabelled blob then wins over a newer local mirror, although
  `og-storage-memory.ts:226` prefers the remote one only from a strictly later tick.
* A start that cannot download a later anchor goes on from the older mirror. Its next
  saves may reach no later tick than the anchor claims; the start after it then
  downloads that anchor, over what was saved meanwhile.
* A failed flush puts its entries back without arming the timer: they wait for the
  next `appendLog`.
* A crash in the middle of the mirror's write leaves a file on which `loadState`
  throws before it looks at 0G.

*Swap*
* A continuation leaves no trace in the task until its settlement ends, so an
  accept repeated meanwhile, as `scripts/test-a2a-negotiate.sh` does when its call
  does not succeed, swaps a second time: a proposal that is countered, an accept, its
  swap, a second accept, its swap. `execute.ts:13` has one swap per negotiation. A
  cancellation meanwhile is told although the swap goes out.
* The reasoner is told that it may counter a counter; the handler settles whatever
  is not a reject, at the initiator's terms.
* A settlement whose swap was sent but whose receipt did not come says that there
  was no leg; a leg that reverted is reported as an executed swap.

*Tick loop*
* `initiate.ts:12-14` says that initiation never blocks the tick loop. The tick
  awaits `callRemoteA2a`, which sets no timeout: a bond bid holds its bidder's tick
  for the auction's window and mint, and a silent peer for as long as it is silent.
* A reflection is itself one of the 20 entries the next one reads. It is not hashed,
  but it pushes out one that is: with nothing new, the hash may change once more, and
  the LLM be called, until reflections and announcements alternate in a fixed pattern.
* The FED's "Last announced rate" reads `state.receivedFedRates`, which its own
  broadcast never reaches.
* No tick follows up a countered swap or coalition. They stay open in the observer,
  and the trim stops at the oldest open one.

*Wallet*
* `chain-reader.ts` counts a balance it cannot read as zero, although its header
  says it never fakes data; a rebalance may act on it, and the next ones repair it.
* The Treasury approves a transfer whatever its receipt says. Aid whose receipt is
  lost is offered without metadata, and the requester may ask, and be paid, again.

*Mesh*
* Two agents that name a departed one to each other keep it for ever. The 20 shocks
  that a sweep reads include those already sent, so lesser ones wait.
* `resolvePeerPubkeyByAbbr` knows eight state names: a shock for any other state is
  never signalled, although its agent answers a signal like every other, and
  `tick.ts:262` has each affected state signalled.

*iNFT*
* The ceremony reads the hash, then sends it as the proof of a transfer that keeps the
  URI: an anchor mined in between leaves the recipient the new URI with the old hash.
  The verification notices, but the token is transferred by then, and the recipient's
  key is only written down after it passed; the header has it saved (line 10).
* `build-inft-manifest.ts` run between a transfer and the sync takes the owner from the
  chain, URI and hash from the book: the manifest names the recipient beside the bundle
  of the mint, which is no longer the token's once an anchor was mined. Line 138 calls
  it honest after transfers. Also without a transfer it shows that bundle, although
  `docker/entrypoint-observer.sh:113` has it built at each start lest it freeze.
* `decrypt-inft.ts` reads URI and hash in two calls: with an anchor mined in between it
  reports a bundle that "has been tampered with".
* `og-reader.ts` keeps the owner of the book as of the start of the process: after a
  sync a running agent goes on to report a mismatch until it is restarted.
* `mint-inft.ts` run again after a transfer takes the recipient's token for one to mint,
  and the mint reverts; `deploy-0g.ts` run again overwrites the book without its iNFTs.

*Data plane.* A state's snapshot is replaced as a whole by what one refresh got,
although `fred.ts:13-14` promises last-known values. `rate-limit.ts:11-15` has
releases an interval apart; after a late timer two may be closer, and what holds is
the rate over any span (`BoundedRate`).

*Observer.* A late round of a negotiation that was trimmed creates it anew, as open.

*Deployment*
* A script stopped between a position's mint and the book's write leaves a pool that
  no later run can record, and later pools behind it are not seeded.
* Two positions may be minted for a token of Phase 4 whose agent has no share yet: the
  seeding skips the mints of early pools on a node that is behind, so USDC is left;
  the deployment of Phase 4 stops before its grants; the seeding of Phase 4 stops after
  a mint, and is run again. Each takes 100k of the deployer's tokens, the grant then
  reverts for ever. Four faults reach it; `SpentOnce` is about tokens whose agent has
  its share, and about those of Phase 3, which no book names before.
  `ReadyInTheEnd` excepts the share once a token was seeded twice.
* `mint-inft.ts` records its iNFTs at its end and skips those minted before: stopped
  between, or when it could not verify what it minted and went on, it leaves iNFTs that
  no run records, and their agents never anchor (`og-anchor-bootstrap.ts:41`).
* The deployer's USDC for pools is minted again after it was spent. Phase 4 deployed
  before Phase 3 is seeded leaves the seeding's check of its funds unsatisfiable. A
  rerun of the Phase 4 grants reverts once an agent has traded tokens away.

## Proofs

TLAPS proves, for every value of the constants that satisfies the module's named
assumption:

`BondAuctionProofs`: `IInv` is an invariant of `BondAuction`, and from it come every
safety invariant of `bond_auction`, that a round awards at most one bidder, that no
answer changes, and that each step, restarts included, implements a step of
`SealedBids` or a stutter. The safety properties are not inductive. `IInv` adds what
ties the map entry to the history: a task is parked exactly while its outcome says
so, and parked tasks are those that joined the current round and wait; a round's
mint, once sent, is to the bidder of `pick` and to no other; a pick is a parked bid
whose bidder, if it has that bid only, is the round's winner and lies in a band;
rounds in the ledger are never in the future. `WeakerPaysMore` proves
`WorseNeverCheaper` for any set of readings: each part of the score is monotone, a
score is clipped monotonically, and a lower score has a tier no better, along which
floors and ceilings rise.

`OgStorageMemoryProofs`: for every batch size, cap, bound and set of faults,
`NoEntryLost`. Alone it is not inductive: a process that is down must hold nothing
(`DownIsEmpty`), what is being written must be a state (`WritingAgrees`), and a
batch that is uploaded but not yet persisted must already be in the manifest or
evicted from it (`UploadedIsNamed`), or the end of its job would lose it.
`LogStaysInOrder` adds that the batch in flight is ascending, that no number is
ahead of the log (`Seen`), and that the file a restart loads is in order
(`DiskInOrder`). It assumes that manifest writes succeed.
`ResumesFromTheSaved` and `AnchorsStayNewest` assume nothing of the faults, and what
they except is in their statement: what a start takes from a misleading anchor, and an
anchor that a start could not download. Both come from `ResumeInv`. A restart picks by
tick, so the invariant relates ticks to what was saved: whatever a restart would prefer
to the mirror has at least the last saved revision or is misleading (`AnchorsSound`, and
`UploadIsLive` for what is going to be an anchor), the file on 0G is not ahead of the
manifest in memory (`RemoteBehind`), and that one is not ahead of the live state
(`LiveAhead`), but in a process that went on without an anchor it could not download
(`WentWithout`), or that could not write what it downloaded: it goes on from an older
state, yet saves and uploads nothing (`Mute`). `MemoryImplementsSavedState`, again for
every set of faults, comes from the same invariant: what a restart resumes from lies
between the revision last saved (`HasSaved`) and the newest (`RevsKnown`), and what a
save has written between the one last saved and the live one (`WritesLive`).

`SwapNegotiationProofs`: for every set of calls, any number of restarts and of
counted replies, and messages and cancellations at any time, that `SwapNegotiation`
implements `SwapAgreement`; and, for every task that nobody wrote to while a call on it
waited, `OneSwapPerTask`, and that it is never swapped for once it is refused. For the
others neither holds (a repeated accept is a counterexample); what holds of them is in
`SwapAgreement`. The invariant's core is `WaitingIsBusy` and `BusyWaits`: while its task
is open a handler runs exactly while its request waits; only a crowded task has two
handlers (`OneAtATime`) or ends under one that runs on (`BusyIsOpen`); and
`SwappedIsSettled`: a swap belongs to a settlement that goes on, is told, or was lost with
the process, or to one that ran on after its crowded task had ended.

`TickLoopProofs`: for any agents, cadences and faults, `HeardInOrder`. The invariant
says that an announcement on its way is the one its agent waits for
(`CallsCurrent`), that an agent that awaits an answer is in a negotiation
(`WaitsInitiating`), and that no peer has heard what was not announced
(`NobodyAhead`). So when the next announcement leaves, none of the last is under way. And of
`ShockFanOut`, for any nodes, shocks, caps and faults, `HandledOnce`: it is inductive
once it is said where a sweep stands (`NotYetSent`): no shock that it has yet to send,
or whose answer it awaits, is remembered, and the one it awaits is not among those it
has yet to send.

`AgentWalletProofs`: no balance falls below zero, what is called settled was paid in
full, and no request is paid twice, for any amounts, thresholds and faults. The
invariant ties each request's stage and answer to what is in the pool for it, at most
one payment (`SentOnce`), and to what was mined (`Account`). `SwapsStayAimed` adds that
at most one swap is awaited (`OneSwapAwaited`), so that its receipt is the one the tick
waits for, and that the tick and its readings stand still meanwhile; the rest is
arithmetic (`SwapIsAimed`): the gap is rounded down, so only the raise to the smallest
swap can take a wallet past its target.

`OgAnchorProofs`, of the specification of `InftRecords`: for every heartbeat, any
number of versions, transactions and faults and either signer, `DisabledIsFinal` and
`PassedIsReadable`. The invariants
are inductive together: the pool's type makes a mined transaction's bundle one the
agent has made, and `PassedIsReadable` rests on the owner never changing back.
`HandedOverIsKept` proves `RecipientKeeps` under the assumption that the agent signs
with its own wallet: with the admin's key, an anchor mined after the transfer
overwrites the recipient's token. Under the same assumption `RecordsKept` proves
`RecordsAgree` with both scripts running between all of this: a book, and a manifest made
of it, has a URI and a hash of one bundle and names the recipient only when it is the
owner (`MadeOfBook`), and what an audit has read call by call, once it has read that the
recipient owns the token, is what the token is, since that token no longer changes
(`AuditInv`). What it needs beside is that a token with its first owner has no
transcript and no passed ceremony, and that the bundle a ceremony verified is the one
the token names. Of `Deployment`, for any states of either phase, share, gas and number
of stopped scripts, lost receipts and stale reads, `RecordedIsReal` and `SpentOnce`.
Their invariant is one of conservation: what the deployer and the agent hold of a token
and the positions minted of it add up to its supply (`ChainOK`), and the share goes over
whole. The rest is about what a book may name at the step a script has reached: both
the file's and the running script's copy name existing tokens and positions (`DiskOK`,
`MemOK`), and a script that made a token of Phase 3 grants its share before it writes
(`TodoOK`).

`DataPlaneProofs`: for any states, sources, releases and faults, that files catch up
and that nothing goes back to an older observation; and of `RateLimiter`, for every
interval and however late the timers, `BoundedRate`. `NeverOlder` rests on one
refresh running at a time (`Guarded`) and on what it has being as new as all that the
cache has (`Fresh`). `BoundedRate` needs what the bucket remembers of the releases:
its next slot is a full interval later for each of them (`Pacing`). Of `SourceFetch`,
for any workers, batches, pauses, retries and failures, `AllSettled`: what was taken
from the shared cursor is settled or in the hands of a worker that goes on with it
(`TakenIsKept`), and a worker ends only when nothing is left to take
(`DoneAtTheEnd`). `SettlesOnce` and `RetriesEnd` need that no two workers hold the same
item (`Apart`), that nothing ahead of the cursor was touched (`AheadUntouched`), and that
the requests made for a series are as many as its worker's attempts (`Counts`).
`SourceKeepsRate` is `RateIsBounded` for a whole source: each step of its workers is a
step of the limiter or leaves it alone. `RefreshesLeaveNothing`, of `DataPlane`, says what
must hold for the next refresh to come. `ChainWaits` and `SleeperWaits` say that the limiter's queue holds
only workers that wait for it, each once: what a timer releases is a request that
somebody still makes.

`ObserverStoreProofs`: for every cap and any telemetry, that the store is over its
cap only when its oldest negotiation is open, and that an ended one stays ended; that
the store under a browser is that same store (`BrowserOnlyReads`); and
`StreamMissesNothing`, for any telemetry and number of lost connections, of which the
run has a few. What a browser comes to show is a fold over the messages on their way
(`AfterAll`), so the proof is by induction over their number, written with a set of
naturals instead of a predicate (`SetOfAllNaturals`). The invariant is `StreamInv`: a
channel holds events behind at most one snapshot (`ChannelShape`), a snapshot on its way
makes good whatever is shown (`SnapshotRepairs`), and without one, what is shown and the
events on their way make what the store holds (`NothingMissed`).

Only model-checked: everything under fairness (`KeepsPromise`'s liveness part,
`EveryEntryAnchored`, `EveryCallAnswered`, `TicksGoOn`, `IdleStopsPaying`, `Settles`,
`EveryShockHandled`, `RecordsCatchUp`, `RefreshesGoOn`, `Returns`, `Converges`,
`ReadyInTheEnd`). Every safety invariant and every action property of the runs is proved as
well, `ImplementsAgreement` and `KeepsSaved` as refinements, and the safety part of
`KeepsPromise` as `ImplementsPromise`. Some theorems say more than a run does:
`RefreshesLeaveNothing`, `RetriesEnd`, `SwapsStayAimed`, and invariants that a refinement
which TLC checks entails, such as `OneSwapPerTask` and `ResumesFromSaved`.

## Not modelled

* A second iNFT, `clone`, `authorizeUsage`, `setOracle` and the transfers inherited
  from ERC-721: no program of the repository calls them.
* The dashboard's pages and components, which present the observer's snapshot; the
  schemas, personas, tables and deployment files: they have no behaviour to check.
  With the gate scripts, spikes and container files they are the larger part of the
  lines that no definition maps.
* The gate and smoke scripts: they test a running mesh and leave nothing behind that
  the program reads.
* The parsing of public data, the LLM's prompts, wording and labels; any answer that
  passes its schema is a choice of the model.
* The start of a process: configuration, the waits for the AXL node, the registration
  of services.
* The read-only routes of data plane and observer.
* Cryptography, the A2A SDK, OpenZeppelin's and Uniswap's contracts, which are not in
  the repository or have no state the program depends on.
* Of the deployment scripts: approvals, USDC for agents and the Treasury, the gas that
  Phase 4 sends to the Fed and the Treasury, the 0G side of `fund-agents.ts` (its
  Unichain side again, on another chain), torn writes of the book, two scripts at once,
  `deploy-0g.ts`.
