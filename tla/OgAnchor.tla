------------------------------- MODULE OgAnchor -------------------------------
(***************************************************************************)
(* The iNFT of an agent: the anchors that OgAnchoredMemory sends for it,   *)
(* at one action per stretch of code between two awaits, the transfer      *)
(* ceremony of scripts/transfer-inft.ts, and the transactions of both on   *)
(* their way to the contract.                                              *)
(*                                                                         *)
(* A bundle is the version of the agent's state and log it was made of.    *)
(***************************************************************************)
EXTENDS INFT7857, Naturals, Sequences

CONSTANTS
  Signer,          \* the account that signs updateMetadata
  TickHeartbeat,   \* policy.tickHeartbeat
  MaxVersion,      \* bound on changes of the state
  MaxPool,         \* bound on transactions of an account on their way
  MaxFaults        \* bound on failing calls, lost receipts, restarts, scripts

ASSUME AnchorAssumption ==
  /\ Signer \in {"agent", "admin"}
  /\ TickHeartbeat \in Nat \ {0}
  /\ MaxVersion \in Nat /\ MaxPool \in Nat /\ MaxFaults \in Nat

(* inFlight is the number of slots that are not idle.                        *)
Slots == {1, 2}

VARIABLES
  version,          \* of the live state and log
  decisionPending,
  tickGap,          \* state.tickCount - lastAnchoredTick, up to the heartbeat
  anchored,         \* stats.successes > 0
  lastAnchored,     \* the version lastAnchoredState was read from
  disabled,         \* permanentlyDisabled
  pc,               \* where the anchor in each slot stands
  bundle,           \* what it anchors, until it is sent
  receipt,          \* of its transaction
  pool,             \* transactions on their way, per account in nonce order
  ceremony,         \* where the transfer ceremony stands
  proof,            \* metadataHashBefore, as the ceremony read it
  fetched,          \* the bundle whose blob the ceremony downloaded
  faults

process == <<decisionPending, tickGap, anchored, lastAnchored, disabled>>
slots == <<pc, bundle, receipt>>
transfer == <<ceremony, proof, fetched>>
vars == <<token, version, process, slots, pool, transfer, faults>>

Versions == 0..MaxVersion

Tx == [kind : {"update", "transfer"}, bundle : Versions, slot : {0} \cup Slots]

Init ==
  /\ Mint("agent", 0)
  /\ version = 0
  /\ decisionPending = FALSE
  /\ tickGap = 0
  /\ anchored = FALSE
  /\ lastAnchored = 0
  /\ disabled = FALSE
  /\ pc = [s \in Slots |-> "idle"]
  /\ bundle = [s \in Slots |-> 0]
  /\ receipt = [s \in Slots |-> "none"]
  /\ pool = [a \in Accounts |-> <<>>]
  /\ ceremony = "none"
  /\ proof = 0
  /\ fetched = 0
  /\ faults = 0

At(s, place) == pc[s] = place
Moves(s, place) == pc' = [pc EXCEPT ![s] = place]
Drops(s) == bundle' = [bundle EXCEPT ![s] = 0]
Faulty == faults < MaxFaults /\ faults' = faults + 1

-----------------------------------------------------------------------------
(* The agent.                                                                *)

Change ==
  /\ version < MaxVersion
  /\ version' = version + 1
  /\ UNCHANGED <<token, process, slots, pool, transfer, faults>>

LogDecision ==
  /\ version < MaxVersion
  /\ version' = version + 1
  /\ decisionPending' = TRUE
  /\ UNCHANGED <<token, tickGap, anchored, lastAnchored, disabled, slots, pool, transfer, faults>>

Tick ==
  /\ tickGap < TickHeartbeat
  /\ tickGap' = tickGap + 1
  /\ UNCHANGED <<token, version, decisionPending, anchored, lastAnchored, disabled, slots, pool,
                 transfer, faults>>

(* As AnchorReason, but without the heartbeat.                               *)
ReasonWithoutHeartbeat ==
  ~ disabled /\ (~ anchored \/ decisionPending \/ version # lastAnchored)

(* A change may be too small to count; then the state is saved unanchored.   *)
AnchorReason ==
  /\ ~ disabled
  /\ \/ ~ anchored
     \/ decisionPending
     \/ tickGap = TickHeartbeat
     \/ version # lastAnchored

-----------------------------------------------------------------------------
(* An anchor: maybeAnchor and runAnchor.                                     *)

(* Slots are alike: inFlight only counts them.                               *)
FreeSlot ==
  IF At(1, "idle") THEN 1 ELSE IF At(2, "idle") THEN 2 ELSE 0

Save(s) ==
  /\ s = FreeSlot
  /\ AnchorReason
  /\ Moves(s, "reading")
  /\ UNCHANGED <<token, version, process, bundle, receipt, pool, transfer, faults>>

(* The bundle is made of the live state after the log was read.              *)
MakeBundle(s) ==
  /\ At(s, "reading")
  /\ bundle' = [bundle EXCEPT ![s] = version]
  /\ Moves(s, "uploading")
  /\ UNCHANGED <<token, version, process, receipt, pool, transfer, faults>>

Upload(s) ==
  /\ At(s, "uploading")
  /\ Moves(s, "sending")
  /\ UNCHANGED <<token, version, process, bundle, receipt, pool, transfer, faults>>

(* The wallet estimates the call before it sends the transaction.            *)
Send(s) ==
  /\ At(s, "sending")
  /\ MayUpdate(Signer)
  /\ Len(pool[Signer]) < MaxPool
  /\ pool' = [pool EXCEPT ![Signer] =
       Append(@, [kind |-> "update", bundle |-> bundle[s], slot |-> s])]
  /\ Drops(s)
  /\ Moves(s, "waiting")
  /\ UNCHANGED <<token, version, process, receipt, transfer, faults>>

(* An estimate that reverts ends anchoring for the life of the process.      *)
SendReverts(s) ==
  /\ At(s, "sending")
  /\ ~ MayUpdate(Signer)
  /\ disabled' = TRUE
  /\ Drops(s)
  /\ Moves(s, "idle")
  /\ UNCHANGED <<token, version, decisionPending, tickGap, anchored, lastAnchored, receipt, pool,
                 transfer, faults>>

(* As CallFails, but any failure that names the call ends anchoring.         *)
CallFailsForGood(s) ==
  /\ pc[s] \in {"reading", "uploading", "sending"}
  /\ Faulty
  /\ disabled' = TRUE
  /\ Drops(s)
  /\ Moves(s, "idle")
  /\ UNCHANGED <<token, version, decisionPending, tickGap, anchored, lastAnchored, receipt, pool,
                 transfer>>

(* The upload or the node fails: recordFailure, and the slot is free.        *)
CallFails(s) ==
  /\ pc[s] \in {"reading", "uploading", "sending"}
  /\ Faulty
  /\ Drops(s)
  /\ Moves(s, "idle")
  /\ UNCHANGED <<token, version, process, receipt, pool, transfer>>

(* A successful anchor takes its baseline from the live state.               *)
Record(s) ==
  /\ At(s, "waiting") /\ receipt[s] = "success"
  /\ receipt' = [receipt EXCEPT ![s] = "none"]
  /\ anchored' = TRUE
  /\ tickGap' = 0
  /\ lastAnchored' = version
  /\ Moves(s, "logging")
  /\ UNCHANGED <<token, version, decisionPending, disabled, bundle, pool, transfer, faults>>

(* The anchor's own log entry is written, then the slot is free.             *)
Finish(s) ==
  /\ At(s, "logging")
  /\ decisionPending' = FALSE
  /\ Moves(s, "idle")
  /\ UNCHANGED <<token, version, tickGap, anchored, lastAnchored, disabled, bundle, receipt, pool,
                 transfer, faults>>

(* A transaction mined as reverted fails the anchor but disables nothing.    *)
MinedReverted(s) ==
  /\ At(s, "waiting") /\ receipt[s] = "reverted"
  /\ receipt' = [receipt EXCEPT ![s] = "none"]
  /\ Moves(s, "idle")
  /\ UNCHANGED <<token, version, process, bundle, pool, transfer, faults>>

(* Nobody waits any more for the transactions of these slots.                *)
Abandoned(abandoned) ==
  [a \in Accounts |-> [i \in DOMAIN pool[a] |->
     IF pool[a][i].slot \in abandoned THEN [pool[a][i] EXCEPT !.slot = 0] ELSE pool[a][i]]]

(* waitForReceipt gives up; the transaction may be mined all the same.       *)
ReceiptTimesOut(s) ==
  /\ At(s, "waiting")
  /\ Faulty
  /\ pool' = Abandoned({s})
  /\ receipt' = [receipt EXCEPT ![s] = "none"]
  /\ Moves(s, "idle")
  /\ UNCHANGED <<token, version, process, bundle, transfer>>

Restart ==
  /\ Faulty
  /\ decisionPending' = FALSE
  /\ tickGap' = 0
  /\ anchored' = FALSE
  /\ lastAnchored' = 0
  /\ disabled' = FALSE
  /\ pc' = [s \in Slots |-> "idle"]
  /\ bundle' = [s \in Slots |-> 0]
  /\ receipt' = [s \in Slots |-> "none"]
  /\ pool' = Abandoned(Slots)
  /\ UNCHANGED <<token, version, transfer>>

-----------------------------------------------------------------------------
(* The chain mines the transactions of an account in nonce order.            *)

Mined(a, kind) ==
  /\ pool[a] # <<>> /\ Head(pool[a]).kind = kind
  /\ pool' = [pool EXCEPT ![a] = Tail(@)]

Receipt(tx, status) ==
  receipt' = [s \in Slots |-> IF s = tx.slot THEN status ELSE receipt[s]]

MineUpdate ==
  /\ Mined(Signer, "update")
  /\ UpdateMetadata(Signer, Head(pool[Signer]).bundle)
  /\ Receipt(Head(pool[Signer]), "success")
  /\ UNCHANGED <<version, process, pc, bundle, transfer, faults>>

RevertUpdate ==
  /\ Mined(Signer, "update")
  /\ ~ MayUpdate(Signer)
  /\ Receipt(Head(pool[Signer]), "reverted")
  /\ UNCHANGED <<token, version, process, pc, bundle, transfer, faults>>

MineTransfer ==
  /\ Mined("agent", "transfer")
  /\ Transfer("agent", "agent", "recipient", Head(pool["agent"]).bundle)
  /\ UNCHANGED <<version, process, slots, transfer, faults>>

-----------------------------------------------------------------------------
(* The transfer ceremony, run by hand while the agent may be running.        *)

(* The owner reads the token and checks that the key sealed to it opens.     *)
ReadToken ==
  /\ ceremony = "none"
  /\ tokenOwner = "agent" /\ sealedKey = "agent"
  /\ proof' = metadataHash
  /\ ceremony' = "read"
  /\ UNCHANGED <<token, version, process, slots, pool, fetched, faults>>

SendTransfer ==
  /\ ceremony = "read"
  /\ pool' = [pool EXCEPT !["agent"] =
       Append(@, [kind |-> "transfer", bundle |-> proof, slot |-> 0])]
  /\ ceremony' = "sent"
  /\ UNCHANGED <<token, version, process, slots, proof, fetched, faults>>

CheckRotation ==
  /\ ceremony = "sent" /\ tokenOwner = "recipient"
  /\ ceremony' = IF sealedKey = "recipient" THEN "rotated" ELSE "failed"
  /\ UNCHANGED <<token, version, process, slots, pool, proof, fetched, faults>>

(* The recipient downloads the blob of the URI and opens it with its key.    *)
FetchBlob ==
  /\ ceremony = "rotated"
  /\ fetched' = encryptedURI
  /\ ceremony' = "fetched"
  /\ UNCHANGED <<token, version, process, slots, pool, proof, faults>>

(* As Verify, but the hash is not compared.                                  *)
VerifyOwner ==
  /\ ceremony = "fetched"
  /\ ceremony' = "passed"
  /\ UNCHANGED <<token, version, process, slots, pool, proof, fetched, faults>>

Verify ==
  /\ ceremony = "fetched"
  /\ ceremony' = IF fetched = metadataHash THEN "passed" ELSE "failed"
  /\ UNCHANGED <<token, version, process, slots, pool, proof, fetched, faults>>

(* The script dies: a call fails, or its receipt does not come.              *)
CeremonyDies ==
  /\ ceremony \in {"read", "sent", "rotated", "fetched"}
  /\ ceremony' = "failed"
  /\ UNCHANGED <<token, version, process, slots, pool, proof, fetched, faults>>

Answered(s) == Record(s) \/ MinedReverted(s)

Anchor(s) ==
  \/ Save(s) \/ MakeBundle(s) \/ Upload(s)
  \/ Send(s) \/ SendReverts(s) \/ CallFails(s)
  \/ Answered(s) \/ ReceiptTimesOut(s) \/ Finish(s)

Mining == MineUpdate \/ RevertUpdate \/ MineTransfer

Ceremony ==
  \/ ReadToken \/ SendTransfer
  \/ CheckRotation \/ FetchBlob \/ Verify
  \/ CeremonyDies

Next ==
  \/ Change \/ LogDecision \/ Tick \/ Restart
  \/ \E s \in Slots : Anchor(s)
  \/ Mining
  \/ Ceremony

Spec == Init /\ [][Next]_vars

Fairness ==
  /\ WF_vars(Tick)
  /\ WF_vars(\E s \in Slots : Save(s))
  /\ WF_vars(Mining)
  /\ \A s \in Slots :
       WF_vars(MakeBundle(s) \/ Upload(s) \/ Send(s) \/ SendReverts(s) \/ Answered(s) \/ Finish(s))

-----------------------------------------------------------------------------
(* Every variable keeps its type.                                            *)
TypeOK ==
  /\ tokenOwner \in {"agent", "recipient"} /\ sealedKey \in {"agent", "recipient"}
  /\ encryptedURI \in Versions /\ metadataHash \in Versions
  /\ version \in Versions
  /\ decisionPending \in BOOLEAN /\ anchored \in BOOLEAN /\ disabled \in BOOLEAN
  /\ tickGap \in 0..TickHeartbeat
  /\ lastAnchored \in Versions
  /\ pc \in [Slots -> {"idle", "reading", "uploading", "sending", "waiting", "logging"}]
  /\ bundle \in [Slots -> Versions]
  /\ receipt \in [Slots -> {"none", "success", "reverted"}]
  /\ pool \in [Accounts -> Seq(Tx)]
  /\ ceremony \in {"none", "read", "sent", "rotated", "fetched", "passed", "failed"}
  /\ proof \in Versions /\ fetched \in Versions
  /\ faults \in 0..MaxFaults

(* Once the token is transferred, no anchor of its former owner changes it,  *)
(* not even one sent before and mined after the transfer.                    *)
RecipientKeeps ==
  [][tokenOwner = "recipient" => UNCHANGED token]_vars

(* Anchoring is only given up for good when the token is really gone         *)
(* ("caller is no longer the iNFT owner").                                   *)
DisabledIsFinal == disabled => tokenOwner # "agent"

(* A ceremony that reports PASS leaves the recipient a token whose blob it   *)
(* can decrypt and verify, and it stays so ("Embedded intelligence           *)
(* verified").                                                               *)
PassedIsReadable ==
  ceremony = "passed" =>
    tokenOwner = "recipient" /\ sealedKey = "recipient" /\ encryptedURI = metadataHash

=============================================================================
