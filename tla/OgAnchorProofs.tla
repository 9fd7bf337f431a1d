---------------------------- MODULE OgAnchorProofs ----------------------------
(***************************************************************************)
(* What is on chain. A token that was handed over stays as it is: for      *)
(* every number of versions, every heartbeat, any pool and any number of   *)
(* faults, when the agent signs its anchors with its own wallet. And what  *)
(* the deployment scripts name exists, and nothing is spent twice: for any *)
(* states, share, gas and number of stopped scripts.                       *)
(***************************************************************************)
EXTENDS InftRecords, Deployment, FiniteSetTheorems, TLAPS

(* What the ceremony has checked so far holds on, whoever may update.        *)
CeremonyInv ==
  /\ ceremony \in {"rotated", "fetched"} => tokenOwner = "recipient" /\ sealedKey = "recipient"
  /\ ceremony = "fetched" => fetched = encryptedURI \/ encryptedURI = metadataHash

IInv == TypeOK /\ DisabledIsFinal /\ PassedIsReadable /\ CeremonyInv

LEMMA InitInv == Init => IInv
<1>. SUFFICES ASSUME Init PROVE IInv
  OBVIOUS
<1>1. 0 \in Versions /\ 0 \in 0..TickHeartbeat /\ 0 \in 0..MaxFaults
  BY AnchorAssumption DEF Versions
<1>2. <<>> \in Seq(Tx)
  OBVIOUS
<1>3. pool \in [Accounts -> Seq(Tx)]
  BY <1>2 DEF Init
<1>4. bundle \in [Slots -> Versions]
  BY <1>1 DEF Init
<1>. QED
  BY <1>1, <1>3, <1>4 DEF Init, IInv, TypeOK, DisabledIsFinal, PassedIsReadable, CeremonyInv, Mint

-----------------------------------------------------------------------------
(* The pool of transactions keeps its type.                                  *)

LEMMA AppendTyped ==
  ASSUME TypeOK, NEW a \in Accounts, NEW tx \in Tx,
         pool' = [pool EXCEPT ![a] = Append(@, tx)]
  PROVE  pool' \in [Accounts -> Seq(Tx)]
<1>1. Append(pool[a], tx) \in Seq(Tx)
  BY DEF TypeOK
<1>. QED BY <1>1 DEF TypeOK

LEMMA MinedTyped ==
  ASSUME TypeOK, NEW a \in Accounts, NEW kind, Mined(a, kind)
  PROVE  /\ pool' \in [Accounts -> Seq(Tx)]
         /\ Head(pool[a]) \in Tx
<1>1. pool[a] \in Seq(Tx) /\ pool[a] # <<>>
  BY DEF TypeOK, Mined
<1>2. Tail(pool[a]) \in Seq(Tx) /\ Head(pool[a]) \in Tx
  BY <1>1
<1>. QED BY <1>2 DEF TypeOK, Mined

LEMMA AbandonedTyped ==
  ASSUME TypeOK, NEW abandoned
  PROVE  Abandoned(abandoned) \in [Accounts -> Seq(Tx)]
<1>1. SUFFICES ASSUME NEW a \in Accounts
               PROVE  [i \in DOMAIN pool[a] |->
                         IF pool[a][i].slot \in abandoned
                         THEN [pool[a][i] EXCEPT !.slot = 0] ELSE pool[a][i]] \in Seq(Tx)
  BY DEF Abandoned
<1>2. pool[a] \in Seq(Tx)
  BY DEF TypeOK
<1>3. \A i \in DOMAIN pool[a] : pool[a][i] \in Tx
  BY <1>2
<1>4. \A tx \in Tx : [tx EXCEPT !.slot = 0] \in Tx
  BY DEF Tx
<1>5. DOMAIN pool[a] = 1..Len(pool[a]) /\ Len(pool[a]) \in Nat
  BY <1>2
<1>. QED BY <1>3, <1>4, <1>5

LEMMA DropsTyped ==
  ASSUME TypeOK, NEW s \in Slots, Drops(s)
  PROVE  bundle' \in [Slots -> Versions]
<1>1. 0 \in Versions
  BY AnchorAssumption DEF Versions
<1>. QED BY <1>1 DEF TypeOK, Drops

LEMMA ReceiptTyped ==
  ASSUME TypeOK, NEW tx, NEW mined \in {"success", "reverted"}, Receipt(tx, mined)
  PROVE  receipt' \in [Slots -> {"none", "success", "reverted"}]
<1>. QED BY DEF TypeOK, Receipt

LEMMA FaultyTyped ==
  ASSUME TypeOK, Faulty
  PROVE  faults' \in 0..MaxFaults
<1>. QED BY AnchorAssumption DEF TypeOK, Faulty

-----------------------------------------------------------------------------
(* Each step keeps the invariant.                                            *)

LEMMA AgentSteps ==
  ASSUME IInv, Change \/ LogDecision \/ Tick
  PROVE  IInv'
<1>0. ASSUME version < MaxVersion, version' = version + 1 PROVE version' \in Versions
  BY <1>0, AnchorAssumption DEF IInv, TypeOK, Versions
<1>1. CASE Change
  <2>1. version' \in Versions
    BY <1>0, <1>1 DEF Change
  <2>. QED
    BY <1>1, <2>1 DEF IInv, TypeOK, DisabledIsFinal, PassedIsReadable, CeremonyInv, Change, token,
       process, slots, transfer
<1>2. CASE LogDecision
  <2>1. version' \in Versions
    BY <1>0, <1>2 DEF LogDecision
  <2>. QED
    BY <1>2, <2>1 DEF IInv, TypeOK, DisabledIsFinal, PassedIsReadable, CeremonyInv, LogDecision,
       token, slots, transfer
<1>3. CASE Tick
  BY <1>3, AnchorAssumption DEF IInv, TypeOK, DisabledIsFinal, PassedIsReadable, CeremonyInv, Tick,
     token, slots, transfer
<1>. QED BY <1>1, <1>2, <1>3

LEMMA PipelineSteps ==
  ASSUME IInv, NEW s \in Slots,
         Save(s) \/ MakeBundle(s) \/ Upload(s) \/ CallFails(s) \/ Record(s) \/ Finish(s)
           \/ MinedReverted(s)
  PROVE  IInv'
<1>1. CASE Save(s)
  BY <1>1 DEF IInv, TypeOK, DisabledIsFinal, PassedIsReadable, CeremonyInv, Save, Moves, token,
     process, transfer
<1>2. CASE MakeBundle(s)
  BY <1>2 DEF IInv, TypeOK, DisabledIsFinal, PassedIsReadable, CeremonyInv, MakeBundle, Moves,
     token, process, transfer
<1>3. CASE Upload(s)
  BY <1>3 DEF IInv, TypeOK, DisabledIsFinal, PassedIsReadable, CeremonyInv, Upload, Moves, token,
     process, transfer
<1>4. CASE CallFails(s)
  <2>1. bundle' \in [Slots -> Versions]
    BY <1>4, DropsTyped DEF IInv, CallFails
  <2>2. faults' \in 0..MaxFaults
    BY <1>4, FaultyTyped DEF IInv, CallFails
  <2>. QED
    BY <1>4, <2>1, <2>2 DEF IInv, TypeOK, DisabledIsFinal, PassedIsReadable, CeremonyInv,
       CallFails, Moves, token, process, transfer
<1>5. CASE Record(s)
  BY <1>5, AnchorAssumption DEF IInv, TypeOK, DisabledIsFinal, PassedIsReadable, CeremonyInv,
     Record, Moves, token, transfer
<1>6. CASE Finish(s)
  BY <1>6 DEF IInv, TypeOK, DisabledIsFinal, PassedIsReadable, CeremonyInv, Finish, Moves, token,
     transfer
<1>7. CASE MinedReverted(s)
  BY <1>7 DEF IInv, TypeOK, DisabledIsFinal, PassedIsReadable, CeremonyInv, MinedReverted, Moves,
     token, process, transfer
<1>. QED BY <1>1, <1>2, <1>3, <1>4, <1>5, <1>6, <1>7

LEMMA SendSteps ==
  ASSUME IInv, NEW s \in Slots, Send(s) \/ SendReverts(s) \/ ReceiptTimesOut(s)
  PROVE  IInv'
<1>1. CASE Send(s)
  <2>1. [kind |-> "update", bundle |-> bundle[s], slot |-> s] \in Tx
    BY DEF IInv, TypeOK, Tx
  <2>2. pool' \in [Accounts -> Seq(Tx)]
    BY <1>1, <2>1, AppendTyped, AnchorAssumption DEF IInv, Send, Accounts
  <2>3. bundle' \in [Slots -> Versions]
    BY <1>1, DropsTyped DEF IInv, Send
  <2>. QED
    BY <1>1, <2>2, <2>3 DEF IInv, TypeOK, DisabledIsFinal, PassedIsReadable, CeremonyInv, Send,
       Moves, token, process, transfer
(* An estimate reverts when neither the agent nor the admin may update.      *)
<1>2. CASE SendReverts(s)
  <2>1. tokenOwner # "agent"
    BY <1>2, AnchorAssumption DEF SendReverts, MayUpdate
  <2>2. bundle' \in [Slots -> Versions]
    BY <1>2, DropsTyped DEF IInv, SendReverts
  <2>. QED
    BY <1>2, <2>1, <2>2 DEF IInv, TypeOK, DisabledIsFinal, PassedIsReadable, CeremonyInv,
       SendReverts, Moves, token, transfer
<1>3. CASE ReceiptTimesOut(s)
  <2>1. pool' \in [Accounts -> Seq(Tx)]
    BY <1>3, AbandonedTyped DEF IInv, ReceiptTimesOut
  <2>2. faults' \in 0..MaxFaults
    BY <1>3, FaultyTyped DEF IInv, ReceiptTimesOut
  <2>3. /\ pc' \in [Slots -> {"idle", "reading", "uploading", "sending", "waiting", "logging"}]
        /\ receipt' \in [Slots -> {"none", "success", "reverted"}]
    BY <1>3 DEF IInv, TypeOK, ReceiptTimesOut, Moves
  <2>4. UNCHANGED <<token, version, process, bundle, transfer>>
    BY <1>3 DEF ReceiptTimesOut
  <2>. QED
    BY <2>1, <2>2, <2>3, <2>4 DEF IInv, TypeOK, DisabledIsFinal, PassedIsReadable, CeremonyInv,
       token, process, transfer
<1>. QED BY <1>1, <1>2, <1>3

LEMMA RestartStep ==
  ASSUME IInv, Restart
  PROVE  IInv'
<1>1. pool' \in [Accounts -> Seq(Tx)]
  BY AbandonedTyped DEF IInv, Restart
<1>2. faults' \in 0..MaxFaults
  BY FaultyTyped DEF IInv, Restart
<1>3. 0 \in Versions /\ 0 \in 0..TickHeartbeat
  BY AnchorAssumption DEF Versions
<1>4. /\ pc' \in [Slots -> {"idle", "reading", "uploading", "sending", "waiting", "logging"}]
      /\ bundle' \in [Slots -> Versions]
      /\ receipt' \in [Slots -> {"none", "success", "reverted"}]
  BY <1>3 DEF Restart
<1>5. /\ UNCHANGED <<token, version, transfer>>
      /\ decisionPending' = FALSE /\ tickGap' = 0 /\ anchored' = FALSE /\ lastAnchored' = 0
      /\ disabled' = FALSE
  BY DEF Restart
<1>. QED
  BY <1>1, <1>2, <1>3, <1>4, <1>5 DEF IInv, TypeOK, DisabledIsFinal, PassedIsReadable, CeremonyInv,
     token, transfer

LEMMA MiningSteps ==
  ASSUME IInv, Mining
  PROVE  IInv'
<1>1. CASE MineUpdate
  <2>1. Signer \in Accounts
    BY AnchorAssumption DEF Accounts
  <2>2. Head(pool[Signer]) \in Tx /\ pool' \in [Accounts -> Seq(Tx)]
    BY <1>1, <2>1, MinedTyped DEF IInv, MineUpdate
  <2>3. receipt' \in [Slots -> {"none", "success", "reverted"}]
    BY <1>1, ReceiptTyped DEF IInv, MineUpdate
  <2>4. Head(pool[Signer]).bundle \in Versions
    BY <2>2 DEF Tx
  <2>. QED
    BY <1>1, <2>2, <2>3, <2>4 DEF IInv, TypeOK, DisabledIsFinal, PassedIsReadable, CeremonyInv,
       MineUpdate, UpdateMetadata, process, transfer
<1>2. CASE RevertUpdate
  <2>1. Signer \in Accounts
    BY AnchorAssumption DEF Accounts
  <2>2. pool' \in [Accounts -> Seq(Tx)]
    BY <1>2, <2>1, MinedTyped DEF IInv, RevertUpdate
  <2>3. receipt' \in [Slots -> {"none", "success", "reverted"}]
    BY <1>2, ReceiptTyped DEF IInv, RevertUpdate
  <2>. QED
    BY <1>2, <2>2, <2>3 DEF IInv, TypeOK, DisabledIsFinal, PassedIsReadable, CeremonyInv,
       RevertUpdate, token, process, transfer
<1>3. CASE MineTransfer
  <2>1. "agent" \in Accounts
    BY DEF Accounts
  <2>2. Head(pool["agent"]) \in Tx /\ pool' \in [Accounts -> Seq(Tx)]
    BY <1>3, <2>1, MinedTyped DEF IInv, MineTransfer
  <2>3. Head(pool["agent"]).bundle \in Versions
    BY <2>2 DEF Tx
  <2>. QED
    BY <1>3, <2>2, <2>3 DEF IInv, TypeOK, DisabledIsFinal, PassedIsReadable, CeremonyInv,
       MineTransfer, Transfer, process, slots, transfer
<1>. QED BY <1>1, <1>2, <1>3 DEF Mining

LEMMA CeremonySteps ==
  ASSUME IInv, Ceremony
  PROVE  IInv'
<1>1. CASE ReadToken
  BY <1>1 DEF IInv, TypeOK, DisabledIsFinal, PassedIsReadable, CeremonyInv, ReadToken, token,
     process, slots
<1>2. CASE SendTransfer
  <2>1. [kind |-> "transfer", bundle |-> proof, slot |-> 0] \in Tx
    BY DEF IInv, TypeOK, Tx
  <2>2. pool' \in [Accounts -> Seq(Tx)]
    BY <1>2, <2>1, AppendTyped DEF IInv, SendTransfer, Accounts
  <2>. QED
    BY <1>2, <2>2 DEF IInv, TypeOK, DisabledIsFinal, PassedIsReadable, CeremonyInv, SendTransfer,
       token, process, slots
<1>3. CASE CheckRotation
  BY <1>3 DEF IInv, TypeOK, DisabledIsFinal, PassedIsReadable, CeremonyInv, CheckRotation, token,
     process, slots
<1>4. CASE FetchBlob
  BY <1>4 DEF IInv, TypeOK, DisabledIsFinal, PassedIsReadable, CeremonyInv, FetchBlob, token,
     process, slots
<1>5. CASE Verify
  BY <1>5 DEF IInv, TypeOK, DisabledIsFinal, PassedIsReadable, CeremonyInv, Verify, token, process,
     slots
<1>6. CASE CeremonyDies
  BY <1>6 DEF IInv, TypeOK, DisabledIsFinal, PassedIsReadable, CeremonyInv, CeremonyDies, token,
     process, slots
<1>. QED BY <1>1, <1>2, <1>3, <1>4, <1>5, <1>6 DEF Ceremony

LEMMA StutterStep ==
  ASSUME IInv, UNCHANGED vars
  PROVE  IInv'
<1>. QED
  BY DEF IInv, TypeOK, DisabledIsFinal, PassedIsReadable, CeremonyInv, vars, token, process, slots,
     transfer

LEMMA NextInv == IInv /\ [Next]_vars => IInv'
<1>. SUFFICES ASSUME IInv, [Next]_vars PROVE IInv'
  OBVIOUS
<1>1. CASE Change \/ LogDecision \/ Tick
  BY <1>1, AgentSteps
<1>2. CASE Restart
  BY <1>2, RestartStep
<1>3. ASSUME NEW s \in Slots, Anchor(s) PROVE IInv'
  BY <1>3, PipelineSteps, SendSteps DEF Anchor, Answered
<1>4. CASE Mining
  BY <1>4, MiningSteps
<1>5. CASE Ceremony
  BY <1>5, CeremonySteps
<1>6. CASE UNCHANGED vars
  BY <1>6, StutterStep
<1>. QED BY <1>1, <1>2, <1>3, <1>4, <1>5, <1>6 DEF Next

(* A status whose token is not read, or a script by hand that begins.        *)
OnlyFaulty == Faulty /\ UNCHANGED <<token, version, process, slots, pool, transfer>>

(* The steps of InftRecords are steps of OgAnchor, but for those and for a   *)
(* ceremony that dies without its transcript.                                *)
LEMMA RecordsSteps ==
  ASSUME [RecordsNext]_allVars
  PROVE  [Next]_vars \/ TranscriptLost \/ OnlyFaulty
<1>1. CASE AgentOrChain \/ RestartReads
  BY <1>1 DEF AgentOrChain, RestartReads, Next
<1>2. CASE Scripts
  BY <1>2 DEF Scripts, WriteTranscript, Sync, BuildBegins, WriteManifest, AskOwner, AuditBegins,
     AuditUri, AuditHash, AuditEnds, AuditDies, Starts, OnlyFaulty
<1>3. CASE Status
  BY <1>3 DEF Status, RefreshStatus, InftReadFails, OnlyFaulty
<1>4. CASE UNCHANGED allVars
  BY <1>4 DEF allVars
<1>. QED BY <1>1, <1>2, <1>3, <1>4 DEF RecordsNext

LEMMA RecordsNextInv == IInv /\ [RecordsNext]_allVars => IInv'
<1>. SUFFICES ASSUME IInv, [RecordsNext]_allVars PROVE IInv'
  OBVIOUS
<1>1. CASE [Next]_vars
  BY <1>1, NextInv
<1>2. CASE TranscriptLost
  BY <1>2 DEF IInv, TypeOK, DisabledIsFinal, PassedIsReadable, CeremonyInv, TranscriptLost, token,
     process, slots
<1>3. CASE OnlyFaulty
  <2>1. faults' \in 0..MaxFaults
    BY <1>3, FaultyTyped DEF IInv, OnlyFaulty
  <2>. QED
    BY <1>3, <2>1 DEF IInv, TypeOK, DisabledIsFinal, PassedIsReadable, CeremonyInv, OnlyFaulty,
       token, process, slots, transfer
<1>. QED BY <1>1, <1>2, <1>3, RecordsSteps

(* IInv holds in every reachable state, whoever signs the anchors.           *)
THEOREM AnchorInvariant == RecordsSpec => []IInv
<1>1. InitRecords => IInv
  BY InitInv DEF InitRecords
<1>. QED BY <1>1, RecordsNextInv, PTL DEF RecordsSpec

(* Every variable keeps its type, the transactions on their way included.    *)
THEOREM TypeCorrect == RecordsSpec => []TypeOK
<1>1. IInv => TypeOK
  BY DEF IInv
<1>. QED BY <1>1, AnchorInvariant, PTL

(* The agent never gives up anchoring a token that it still owns.            *)
THEOREM DisabledOnlyWhenGone == RecordsSpec => []DisabledIsFinal
<1>1. IInv => DisabledIsFinal
  BY DEF IInv
<1>. QED BY <1>1, AnchorInvariant, PTL

(* A token whose ceremony passed is the recipient's, sealed to it, and       *)
(* verifiable, for ever.                                                     *)
THEOREM PassedStaysReadable == RecordsSpec => []PassedIsReadable
<1>1. IInv => PassedIsReadable
  BY DEF IInv
<1>. QED BY <1>1, AnchorInvariant, PTL

-----------------------------------------------------------------------------
(* From here on the agent signs its anchors with its own wallet.             *)

LEMMA TokenKept ==
  ASSUME Signer = "agent", [RecordsNext]_allVars, tokenOwner = "recipient"
  PROVE  UNCHANGED token
<1>1. CASE Mining
  <2>1. ~ MineUpdate /\ ~ MineTransfer
    BY DEF MineUpdate, UpdateMetadata, MayUpdate, MineTransfer, Transfer
  <2>. QED BY <1>1, <2>1 DEF Mining, RevertUpdate
<1>2. CASE Change \/ LogDecision \/ Tick \/ Restart
  BY <1>2 DEF Change, LogDecision, Tick, Restart
<1>3. ASSUME NEW s \in Slots, Anchor(s) PROVE UNCHANGED token
  BY <1>3 DEF Anchor, Answered, Save, MakeBundle, Upload, Send, SendReverts, CallFails, Record,
     MinedReverted, ReceiptTimesOut, Finish
<1>4. CASE Ceremony
  BY <1>4 DEF Ceremony, ReadToken, SendTransfer, CheckRotation, FetchBlob, Verify, CeremonyDies
<1>5. CASE TranscriptLost \/ OnlyFaulty \/ UNCHANGED vars
  BY <1>5 DEF TranscriptLost, OnlyFaulty, vars
<1>. QED BY <1>1, <1>2, <1>3, <1>4, <1>5, RecordsSteps DEF Next

(* With the agent's own wallet as signer, nothing touches a token after it   *)
(* was handed over (UpdateMetadata and Transfer check the owner when the     *)
(* transaction is mined).                                                    *)
THEOREM HandedOverIsKept ==
  ASSUME Signer = "agent"
  PROVE  RecordsSpec => RecipientKeeps
<1>1. ASSUME [RecordsNext]_allVars PROVE [tokenOwner = "recipient" => UNCHANGED token]_vars
  BY <1>1, TokenKept
<1>. QED BY <1>1, PTL DEF RecordsSpec, RecipientKeeps

-----------------------------------------------------------------------------
(* The records.  What a script has read or copied was true when it did, and  *)
(* nothing of the token changes after it was handed over.                    *)

(* A record that the book, or a copy of it, may hold: that of the recipient  *)
(* is the token.                                                             *)
MadeOfBook(record) ==
  /\ record.uri = record.hash
  /\ record.owner = "recipient" => tokenOwner = "recipient"
  /\ record.sealed = "recipient" => record = OnChain /\ tokenOwner = "recipient"

(* What decrypt-inft.ts has read so far.                                     *)
AuditInv ==
  /\ script.key \in {"agent", "recipient"} /\ script.seen.owner \in {"agent", "recipient"}
  /\ script.key = "recipient" => script.seen.owner = "recipient"
  /\ script.seen.owner = "recipient" =>
       /\ tokenOwner = "recipient"
       /\ script.at \in {"hash", "sealed"} => script.seen.uri = encryptedURI
       /\ script.at = "sealed" => script.seen.hash = metadataHash

RInv ==
  /\ IInv
  /\ RecordsTypeOK
  /\ tokenOwner = "recipient" => sealedKey = "recipient"
  /\ ceremony \in {"fetched", "passed"} => fetched = encryptedURI
  /\ transcript # NoRecord => transcript = OnChain /\ tokenOwner = "recipient"
  /\ transcript.uri = transcript.hash
  /\ MadeOfBook(book) /\ MadeOfBook(manifest)
  /\ book.owner = "recipient" => book.sealed = "recipient"
  /\ audited.owner = audited.sealed
  /\ audited.owner = "recipient" => audited = OnChain /\ tokenOwner = "recipient"
  /\ script.at \in {"asking", "writing"} => MadeOfBook(script.seen)
  /\ script.at = "asking" /\ script.seen.owner = "recipient" => script.seen.sealed = "recipient"
  /\ script.at \in {"uri", "hash", "sealed"} => AuditInv

(* A step of the chain, the agent or the ceremony, before the hand-over.     *)
LEMMA BeforeHandOver ==
  ASSUME RInv, AgentOrChain, tokenOwner = "agent"
  PROVE  /\ tokenOwner' = "recipient" => sealedKey' = "recipient"
         /\ ceremony' \notin {"fetched", "passed"}
<1>0. ceremony \notin {"rotated", "fetched", "passed"} /\ sealedKey \in {"agent", "recipient"}
  BY DEF RInv, IInv, TypeOK, PassedIsReadable, CeremonyInv
<1>1. CASE Change \/ LogDecision \/ Tick
  BY <1>0, <1>1 DEF Change, LogDecision, Tick, token, transfer
<1>2. ASSUME NEW s \in Slots, Anchor(s) PROVE UNCHANGED <<token, transfer>>
  BY <1>2 DEF Anchor, Answered, Save, MakeBundle, Upload, Send, SendReverts, CallFails, Record,
     MinedReverted, ReceiptTimesOut, Finish
<1>3. CASE Mining
  BY <1>0, <1>3 DEF Mining, MineUpdate, UpdateMetadata, RevertUpdate, MineTransfer, Transfer, token,
     transfer
<1>4. CASE Ceremony
  BY <1>0, <1>4 DEF Ceremony, ReadToken, SendTransfer, CheckRotation, FetchBlob, Verify,
     CeremonyDies, token
<1>5. CASE UNCHANGED <<token, transfer>>
  BY <1>0, <1>5 DEF token, transfer
<1>. QED BY <1>1, <1>2, <1>3, <1>4, <1>5 DEF AgentOrChain

(* And after it, when the token stays as it is.                              *)
LEMMA AfterHandOver ==
  ASSUME RInv, AgentOrChain, tokenOwner = "recipient"
  PROVE  ceremony' \in {"fetched", "passed"} => fetched' = encryptedURI
<1>1. CASE Ceremony
  BY <1>1 DEF RInv, Ceremony, ReadToken, SendTransfer, CheckRotation, FetchBlob, Verify, CeremonyDies
<1>2. CASE UNCHANGED transfer
  BY <1>2 DEF RInv, transfer
<1>3. ASSUME NEW s \in Slots, Anchor(s) PROVE UNCHANGED transfer
  BY <1>3 DEF Anchor, Answered, Save, MakeBundle, Upload, Send, SendReverts, CallFails, Record,
     MinedReverted, ReceiptTimesOut, Finish
<1>4. CASE Change \/ LogDecision \/ Tick \/ Mining
  BY <1>2, <1>4 DEF Change, LogDecision, Tick, Mining, MineUpdate, RevertUpdate, MineTransfer
<1>. QED BY <1>1, <1>2, <1>3, <1>4 DEF AgentOrChain

LEMMA RecordsInvNext ==
  ASSUME Signer = "agent", RInv, [RecordsNext]_allVars
  PROVE  RInv'
<1>1. IInv'
  BY RecordsNextInv DEF RInv
<1>0. NoRecord \in RecordType /\ NoScript \in ScriptType /\ NoScript.at = "idle"
  BY AnchorAssumption DEF NoRecord, NoScript, RecordType, ScriptType, Owners, Versions
<1>2. tokenOwner \in {"agent", "recipient"} /\ OnChain \in RecordType
  BY DEF RInv, IInv, TypeOK, OnChain, RecordType, Owners
<1>3. tokenOwner = "recipient" => UNCHANGED <<token, OnChain>>
  BY TokenKept DEF token, OnChain
<1>. USE DEF MadeOfBook, AuditInv
<1>4. CASE AgentOrChain
  <2>0. UNCHANGED copies /\ (RecordsTypeOK => RecordsTypeOK')
    BY <1>4 DEF AgentOrChain, copies, files, reports, RecordsTypeOK
  <2>1. CASE tokenOwner = "agent"
    BY <1>1, <1>4, <2>0, <2>1, BeforeHandOver DEF RInv, copies, files, reports
  <2>2. CASE tokenOwner = "recipient"
    BY <1>1, <1>3, <1>4, <2>0, <2>2, AfterHandOver DEF RInv, copies, files, reports, token
  <2>. QED BY <1>2, <2>1, <2>2
<1>5. CASE RestartReads
  <2>1. RecordsTypeOK'
    BY <1>5 DEF RInv, RestartReads, RecordsTypeOK, LoadOgDeployments, RecordType, files
  <2>. QED
    BY <1>1, <1>5, <2>1 DEF RInv, RestartReads, Restart, files, token, transfer, OnChain
<1>6. CASE WriteTranscript
  <2>1. tokenOwner = "recipient" /\ transcript' = OnChain /\ encryptedURI = metadataHash
    BY <1>6 DEF WriteTranscript, RInv, IInv, PassedIsReadable, OnChain
  <2>2. UNCHANGED <<vars, book, manifest, audited, expected, status, script>>
    BY <1>6 DEF WriteTranscript, reports
  <2>. QED
    BY <1>1, <1>2, <1>3, <2>1, <2>2 DEF RInv, RecordsTypeOK, OnChain, vars, token, transfer
<1>7. CASE TranscriptLost
  BY <1>1, <1>7 DEF RInv, RecordsTypeOK, TranscriptLost, token, copies, files, reports, OnChain
<1>8. CASE Sync
  <2>1. tokenOwner = "recipient" /\ book' = OnChain /\ transcript = OnChain
    BY <1>8 DEF Sync, RInv
  <2>2. sealedKey = "recipient"
    BY <2>1 DEF RInv
  <2>3. UNCHANGED <<vars, transcript, manifest, audited, expected, status, script>>
    BY <1>8 DEF Sync, reports
  <2>. QED
    BY <1>1, <1>2, <2>1, <2>2, <2>3 DEF RInv, RecordsTypeOK, vars, token, transfer, OnChain
<1>9. CASE BuildBegins
  <2>1. script' \in ScriptType /\ script'.at = "asking" /\ script'.seen = book
    BY <1>9 DEF BuildBegins, RInv, RecordsTypeOK, NoScript, ScriptType, Owners, NoRecord
  <2>2. UNCHANGED <<token, transfer, files, reports>>
    BY <1>9 DEF BuildBegins
  <2>. QED
    BY <1>1, <2>1, <2>2 DEF RInv, RecordsTypeOK, files, reports, token, transfer, OnChain
<1>10. CASE AskOwner
  <2>0. PICK owner \in {tokenOwner, script.seen.owner} :
          script' = [script EXCEPT !.at = "writing", !.seen.owner = owner]
    BY <1>10 DEF AskOwner
  <2>1. script \in ScriptType /\ script.at = "asking" /\ owner \in Owners
    BY <1>2, <1>10 DEF AskOwner, RInv, RecordsTypeOK, ScriptType, RecordType, Owners
  <2>2. /\ script' \in ScriptType /\ script'.at = "writing"
        /\ script'.seen = [script.seen EXCEPT !.owner = owner] /\ script.seen \in RecordType
    BY <2>0, <2>1 DEF ScriptType, RecordType
  <2>3. MadeOfBook(script'.seen)
    BY <2>1, <2>2 DEF RInv, RecordType, OnChain
  <2>4. UNCHANGED <<vars, files, reports>>
    BY <1>10 DEF AskOwner
  <2>. HIDE <2>0
  <2>. QED
    BY <1>1, <2>2, <2>3, <2>4 DEF RInv, RecordsTypeOK, files, reports, vars, token, transfer, OnChain
<1>11. CASE WriteManifest
  <2>1. script' \in ScriptType /\ script'.at = "idle" /\ manifest' \in RecordType
    BY <1>0, <1>11 DEF WriteManifest, RInv, RecordsTypeOK, ScriptType
  <2>2. MadeOfBook(manifest')
    BY <1>11 DEF WriteManifest, RInv
  <2>3. UNCHANGED <<vars, book, transcript, audited, expected, status>>
    BY <1>11 DEF WriteManifest, reports
  <2>. QED
    BY <1>1, <2>1, <2>2, <2>3 DEF RInv, RecordsTypeOK, vars, token, transfer, OnChain
<1>12. CASE AuditBegins
  <2>1. PICK key \in KnownKeys :
          script' = [at |-> "uri", key |-> key, seen |-> [NoRecord EXCEPT !.owner = tokenOwner]]
    BY <1>12 DEF AuditBegins
  <2>2. key \in {"agent", "recipient"} /\ (key = "recipient" => tokenOwner = "recipient")
    BY DEF KnownKeys, RInv
  <2>3. /\ script' \in ScriptType /\ script'.at = "uri"
        /\ script'.key = key /\ script'.seen.owner = tokenOwner
    BY <1>2, <2>1, <2>2, AnchorAssumption DEF NoRecord, ScriptType, RecordType, Owners, Versions
  <2>4. UNCHANGED <<token, transfer, files, reports>>
    BY <1>12 DEF AuditBegins
  <2>. HIDE <2>1
  <2>. QED
    BY <1>1, <1>2, <2>2, <2>3, <2>4 DEF RInv, RecordsTypeOK, files, reports, token, transfer, OnChain
<1>13. CASE AuditUri
  <2>1. script \in ScriptType /\ script.at = "uri" /\ encryptedURI \in Versions
    BY <1>13 DEF AuditUri, RInv, RecordsTypeOK, IInv, TypeOK
  <2>2. /\ script' \in ScriptType /\ script'.at = "hash" /\ script'.key = script.key
        /\ script'.seen.owner = script.seen.owner /\ script'.seen.uri = encryptedURI
    BY <1>13, <2>1 DEF AuditUri, ScriptType, RecordType
  <2>3. UNCHANGED <<vars, files, reports>>
    BY <1>13 DEF AuditUri
  <2>. QED
    BY <1>1, <2>1, <2>2, <2>3 DEF RInv, RecordsTypeOK, files, reports, vars, token, transfer, OnChain
<1>14. CASE AuditHash
  <2>1. script \in ScriptType /\ script.at = "hash" /\ metadataHash \in Versions
    BY <1>14 DEF AuditHash, RInv, RecordsTypeOK, IInv, TypeOK
  <2>2. /\ script' \in ScriptType /\ script'.at = "sealed" /\ script'.key = script.key
        /\ script'.seen.owner = script.seen.owner /\ script'.seen.uri = script.seen.uri
        /\ script'.seen.hash = metadataHash
    BY <1>14, <2>1 DEF AuditHash, ScriptType, RecordType
  <2>3. UNCHANGED <<vars, files, reports>>
    BY <1>14 DEF AuditHash
  <2>. QED
    BY <1>1, <2>1, <2>2, <2>3 DEF RInv, RecordsTypeOK, files, reports, vars, token, transfer, OnChain
<1>15. CASE AuditEnds
  <2>1. /\ script \in ScriptType /\ script.at = "sealed"
        /\ script' \in ScriptType /\ script'.at = "idle"
    BY <1>0, <1>15 DEF AuditEnds, RInv, RecordsTypeOK
  <2>2. /\ audited' \in RecordType /\ audited'.owner = audited'.sealed
        /\ audited'.owner = "recipient" => audited' = OnChain /\ tokenOwner = "recipient"
    <3>1. CASE audited' = audited
      BY <3>1 DEF RInv, RecordsTypeOK
    <3>2. CASE /\ Unseals(script.key, sealedKey)
               /\ audited' = [owner |-> script.seen.owner, uri |-> script.seen.uri,
                              hash |-> script.seen.hash, sealed |-> script.key]
      <4>1. script.key = sealedKey
        BY <3>2 DEF Unseals
      <4>2. audited'.owner = audited'.sealed
        BY <1>2, <2>1, <3>2, <4>1 DEF RInv
      <4>3. audited' \in RecordType
        BY <2>1, <3>2 DEF ScriptType, RecordType
      <4>4. ASSUME script.seen.owner = "recipient" PROVE audited' = OnChain /\ tokenOwner = "recipient"
        BY <2>1, <3>2, <4>1, <4>4 DEF RInv, OnChain
      <4>. QED BY <3>2, <4>2, <4>3, <4>4
    <3>. QED BY <1>15, <3>1, <3>2 DEF AuditEnds
  <2>3. UNCHANGED <<vars, book, transcript, manifest, expected, status>>
    BY <1>15 DEF AuditEnds, reports
  <2>. QED
    BY <1>1, <2>1, <2>2, <2>3 DEF RInv, RecordsTypeOK, vars, token, transfer, OnChain
<1>16. CASE AuditDies
  BY <1>0, <1>1, <1>16 DEF RInv, RecordsTypeOK, AuditDies, vars, token, transfer, files, reports,
     OnChain
<1>17. CASE Status \/ UNCHANGED allVars
  <2>1. Report \in StatusType /\ NoInft \in StatusType
    <3>1. (expected = tokenOwner) \in BOOLEAN
      OBVIOUS
    <3>. QED BY <1>2, <3>1 DEF Report, NoInft, StatusType, Owners
  <2>2. UNCHANGED <<token, transfer, files, expected, script>>
    BY <1>17 DEF Status, RefreshStatus, InftReadFails, allVars, vars, copies, reports
  <2>3. status' \in StatusType
    BY <1>17, <2>1 DEF RInv, RecordsTypeOK, Status, RefreshStatus, InftReadFails, allVars, copies,
       reports
  <2>. QED
    BY <1>1, <2>2, <2>3 DEF RInv, RecordsTypeOK, token, transfer, files, OnChain
<1>. QED
  BY <1>4, <1>5, <1>6, <1>7, <1>8, <1>9, <1>10, <1>11, <1>12, <1>13, <1>14, <1>15, <1>16, <1>17
     DEF RecordsNext, Scripts

(* What is written down of the token and of its recipient agrees with the    *)
(* chain (WriteTranscript, Sync, build-inft-manifest.ts and decrypt-inft.ts  *)
(* read at different times).                                                 *)
THEOREM RecordsKept ==
  ASSUME Signer = "agent"
  PROVE  RecordsSpec => []RecordsAgree
<1>1. InitRecords => RInv
  <2>1. 0 \in Versions
    BY AnchorAssumption DEF Versions
  <2>. QED
    BY <2>1, InitInv DEF InitRecords, Init, Mint, RInv, RecordsTypeOK, MadeOfBook, OnChain, NoScript,
       NoRecord, Report, RecordType, StatusType, ScriptType, Owners
<1>2. RInv /\ [RecordsNext]_allVars => RInv'
  BY RecordsInvNext
<1>3. RInv => RecordsAgree
  BY DEF RInv, RecordsAgree, MadeOfBook
<1>. QED BY <1>1, <1>2, <1>3, PTL DEF RecordsSpec

-----------------------------------------------------------------------------
(* The scripts that put the contracts on chain and write the address books.  *)
Ops == {"usdc", "token", "lpUsdc", "grant", "write", "create", "look", "seed", "retry",
        "backfill", "gas", "mint", "bond", "topUp", "inft", "writeInfts"}
Steps == [op : Ops, of : States \cup Bonds \cup {"all"} \cup Nat]

(* What is minted is with the deployer, with the agent, or in a pool; a pool *)
(* is for a token there is, and so is a position.                            *)
Positioned(c, t) == {p \in DOMAIN c.positions : c.positions[p] = t}

ChainOK(c) ==
  /\ c = [tokens |-> c.tokens, pools |-> c.pools, positions |-> c.positions,
          infts |-> c.infts, usdc |-> c.usdc, gas |-> c.gas, ether |-> c.ether]
  /\ c.tokens \in Seq([deployer : Nat, agent : {0, ToAgent}])
  /\ c.pools \subseteq 1..Len(c.tokens)
  /\ c.positions \in Seq(1..Len(c.tokens))
  /\ \A t \in 1..Len(c.tokens) :
       /\ IsFiniteSet(Positioned(c, t))
       /\ c.tokens[t].deployer + c.tokens[t].agent + Cardinality(Positioned(c, t)) = Supply

(* A book names tokens there are, and positions of them.                     *)
BookOK(b, c) ==
  /\ b = [tokens |-> b.tokens, pools |-> b.pools, bonds |-> b.bonds]
  /\ b.tokens \in [States -> 0..Len(c.tokens)]
  /\ \A s \in DOMAIN b.pools :
       LET p == b.pools[s].position IN
       p # NoPosition => p \in DOMAIN c.positions /\ c.positions[p] = b.tokens[s]

HasShare(c, t) == c.tokens[t].agent = ToAgent

DiskOK(d, c) ==
  /\ d = [book |-> d.book, infts |-> d.infts]
  /\ BookOK(d.book, c) /\ d.infts \subseteq c.infts
  /\ \A s \in ToSet(Phase3) : d.book.tokens[s] # NoToken => HasShare(c, d.book.tokens[s])

MemOK(m, c) ==
  /\ m = [book |-> m.book, infts |-> m.infts, unseen |-> m.unseen]
  /\ BookOK(m.book, c) /\ m.infts \subseteq c.infts

(* A grant to s follows step i, and no write comes before it.                *)
Awaits(td, i, s) ==
  \E k \in DOMAIN td :
    /\ k > i /\ td[k] = Step("grant", s)
    /\ \A j \in 1..k : td[j].op # "write"

(* A token of phase 3 is granted before the book is written.                 *)
TodoOK(td, b, c) ==
  /\ td \in Seq(Steps)
  /\ \A i \in DOMAIN td : td[i].op = "create" => td[i].of \in States
  /\ \A i \in DOMAIN td :
       td[i].op = "token" /\ td[i].of \in ToSet(Phase3) => Awaits(td, i, td[i].of)
  /\ \A s \in ToSet(Phase3) :
       b.tokens[s] # NoToken => HasShare(c, b.tokens[s]) \/ Awaits(td, 0, s)

DeployInv ==
  ChainOK(chain) /\ DiskOK(disk, chain) /\ MemOK(mem, chain)
    /\ TodoOK(todo, mem.book, chain)

-----------------------------------------------------------------------------
(* What the chain has it keeps.                                              *)
Keeps(c, d) ==
  /\ Len(c.tokens) <= Len(d.tokens)
  /\ \A t \in 1..Len(c.tokens) : HasShare(c, t) => HasShare(d, t)
  /\ \A p \in DOMAIN c.positions : p \in DOMAIN d.positions /\ d.positions[p] = c.positions[p]
  /\ c.infts \subseteq d.infts

LEMMA BookStays ==
  ASSUME NEW b, NEW c, NEW d, ChainOK(c), ChainOK(d), Keeps(c, d), BookOK(b, c)
  PROVE  BookOK(b, d)
<1>1. Len(c.tokens) \in Nat /\ Len(d.tokens) \in Nat /\ Len(c.tokens) <= Len(d.tokens)
  BY DEF ChainOK, Keeps
<1>2. b.tokens \in [States -> 0..Len(d.tokens)]
  <2>1. 0..Len(c.tokens) \subseteq 0..Len(d.tokens) BY <1>1
  <2>2. b.tokens \in [States -> 0..Len(c.tokens)] BY DEF BookOK
  <2>3. QED BY <2>1, <2>2
<1>3. QED BY <1>2 DEF BookOK, Keeps

LEMMA DiskStays ==
  ASSUME NEW x, NEW c, NEW d, ChainOK(c), ChainOK(d), Keeps(c, d), DiskOK(x, c)
  PROVE  DiskOK(x, d)
<1>1. BookOK(x.book, d) BY BookStays DEF DiskOK
<1>2. ASSUME NEW s \in ToSet(Phase3), x.book.tokens[s] # NoToken
      PROVE  HasShare(d, x.book.tokens[s])
  <2>1. HasShare(c, x.book.tokens[s]) BY <1>2 DEF DiskOK
  <2>2. s \in States BY DEF States
  <2>3. x.book.tokens[s] \in 0..Len(c.tokens) BY <2>2 DEF DiskOK, BookOK
  <2>4. Len(c.tokens) \in Nat BY DEF ChainOK
  <2>5. x.book.tokens[s] \in 1..Len(c.tokens) BY <1>2, <2>3, <2>4 DEF NoToken
  <2>6. QED BY <2>1, <2>5 DEF Keeps
<1>3. QED BY <1>1, <1>2 DEF DiskOK, Keeps

LEMMA MemStays ==
  ASSUME NEW m, NEW c, NEW d, ChainOK(c), ChainOK(d), Keeps(c, d), MemOK(m, c)
  PROVE  MemOK(m, d)
<1>1. BookOK(m.book, d) BY BookStays DEF MemOK
<1>2. QED BY <1>1 DEF MemOK, Keeps

(* A script that mishaps leaves nothing to do; the next one reads the book.    *)
LEMMA NothingAwaited ==
  ASSUME NEW c, NEW x, DiskOK(x, c)
  PROVE  MemOK(Copy(x, x.book), c) /\ TodoOK(<<>>, x.book, c)
<1>1. MemOK(Copy(x, x.book), c) BY DEF DiskOK, MemOK, Copy
<1>2. TodoOK(<<>>, x.book, c) BY DEF DiskOK, TodoOK
<1>3. QED BY <1>1, <1>2

LEMMA StopKeeps ==
  ASSUME DeployInv, NEW c, ChainOK(c), Keeps(chain, c), Stops, chain' \in {chain, c}
  PROVE  DeployInv'
<1>1. ChainOK(chain') /\ DiskOK(disk, chain')
  BY DiskStays DEF DeployInv
<1>2. disk' = disk /\ todo' = <<>> /\ mem' = Copy(disk, disk.book) BY DEF Stops
<1>3. mem'.book = disk.book BY <1>2 DEF Copy
<1>4. QED BY <1>1, <1>2, <1>3, NothingAwaited DEF DeployInv

LEMMA KeepsSelf == ASSUME NEW c PROVE Keeps(c, c)
  BY DEF Keeps

(* A step done: the steps after it still come in order.                      *)
LEMMA AwaitsOn ==
  ASSUME NEW td \in Seq(Steps), td # <<>>, NEW i \in Nat, NEW s, Awaits(td, i, s),
         i >= 1 \/ Head(td) # Step("grant", s)
  PROVE  Head(td).op # "write" /\ Awaits(Tail(td), IF i >= 1 THEN i - 1 ELSE 0, s)
<1>1. PICK k \in DOMAIN td : /\ k > i /\ td[k] = Step("grant", s)
                             /\ \A j \in 1..k : td[j].op # "write"
  BY DEF Awaits
<1>2. /\ Len(td) \in Nat \ {0} /\ DOMAIN td = 1..Len(td) /\ Head(td) = td[1]
      /\ DOMAIN Tail(td) = 1..(Len(td) - 1)
      /\ \A j \in 1..(Len(td) - 1) : Tail(td)[j] = td[j + 1]
  OBVIOUS
<1>3. k # 1 /\ k \in 1..Len(td) BY <1>1, <1>2
<1>4. k - 1 \in 1..(Len(td) - 1) /\ k - 1 > (IF i >= 1 THEN i - 1 ELSE 0)
  BY <1>1, <1>2, <1>3
<1>5. Tail(td)[k - 1] = Step("grant", s) BY <1>1, <1>2, <1>4
<1>6. \A j \in 1..(k - 1) : Tail(td)[j].op # "write"
  BY <1>1, <1>2, <1>3
<1>7. Head(td).op # "write" BY <1>1, <1>2, <1>3
<1>8. QED BY <1>2, <1>4, <1>5, <1>6, <1>7 DEF Awaits

LEMMA TodoOn ==
  ASSUME NEW td, td # <<>>, NEW b, NEW c, NEW bn, NEW cn, TodoOK(td, b, c),
         \A s \in ToSet(Phase3) :
           bn.tokens[s] # NoToken =>
             \/ HasShare(cn, bn.tokens[s])
             \/ Head(td) = Step("token", s)
             \/ /\ bn.tokens[s] = b.tokens[s] /\ Head(td) # Step("grant", s)
                /\ ~HasShare(c, b.tokens[s])
  PROVE  TodoOK(Tail(td), bn, cn)
<1>1. /\ td \in Seq(Steps) /\ Tail(td) \in Seq(Steps)
      /\ Len(td) \in Nat \ {0} /\ DOMAIN td = 1..Len(td) /\ Head(td) = td[1]
      /\ DOMAIN Tail(td) = 1..(Len(td) - 1)
      /\ \A j \in 1..(Len(td) - 1) : Tail(td)[j] = td[j + 1] /\ j + 1 \in DOMAIN td
  BY DEF TodoOK
<1>2. \A i \in DOMAIN Tail(td) : Tail(td)[i].op = "create" => Tail(td)[i].of \in States
  BY <1>1 DEF TodoOK
<1>3. ASSUME NEW i \in DOMAIN Tail(td),
             Tail(td)[i].op = "token" /\ Tail(td)[i].of \in ToSet(Phase3)
      PROVE  Awaits(Tail(td), i, Tail(td)[i].of)
  <2>1. Tail(td)[i] = td[i + 1] /\ i + 1 \in DOMAIN td /\ i \in Nat BY <1>1
  <2>2. Awaits(td, i + 1, Tail(td)[i].of) BY <1>3, <2>1 DEF TodoOK
  <2>3. i + 1 \in Nat /\ i + 1 >= 1 /\ (i + 1) - 1 = i BY <2>1
  <2>4. Awaits(Tail(td), IF i + 1 >= 1 THEN (i + 1) - 1 ELSE 0, Tail(td)[i].of)
    BY <1>1, <2>2, <2>3, AwaitsOn
  <2>5. QED BY <2>3, <2>4
<1>4. ASSUME NEW s \in ToSet(Phase3), bn.tokens[s] # NoToken
      PROVE  HasShare(cn, bn.tokens[s]) \/ Awaits(Tail(td), 0, s)
  <2>1. CASE HasShare(cn, bn.tokens[s]) BY <2>1
  <2>2. CASE Head(td) = Step("token", s)
    <3>1. 1 \in DOMAIN td /\ td[1].op = "token" /\ td[1].of = s BY <1>1, <2>2 DEF Step
    <3>2. Awaits(td, 1, s) BY <3>1 DEF TodoOK
    <3>3. Awaits(Tail(td), IF 1 >= 1 THEN 1 - 1 ELSE 0, s) BY <1>1, <3>2, AwaitsOn
    <3>4. QED BY <3>3
  <2>3. CASE /\ bn.tokens[s] = b.tokens[s] /\ Head(td) # Step("grant", s)
             /\ ~HasShare(c, b.tokens[s])
    <3>1. Awaits(td, 0, s) BY <1>4, <2>3 DEF TodoOK
    <3>2. Awaits(Tail(td), IF 0 >= 1 THEN 0 - 1 ELSE 0, s) BY <1>1, <2>3, <3>1, AwaitsOn
    <3>3. QED BY <3>2
  <2>4. QED BY <1>4, <2>1, <2>2, <2>3
<1>5. QED BY <1>1, <1>2, <1>3, <1>4 DEF TodoOK

(* A transaction keeps the invariant when what it does, does.                *)
LEMMA TransactKeeps ==
  ASSUME DeployInv, todo # <<>>, NEW c, NEW m, ChainOK(c), Keeps(chain, c), MemOK(m, c),
         TodoOK(Tail(todo), m.book, c), Transact(c, m)
  PROVE  DeployInv'
<1>1. CASE chain' = c /\ Goes(m)
  <2>1. DiskOK(disk, c) BY DiskStays DEF DeployInv
  <2>2. disk' = disk /\ mem' = m /\ todo' = Tail(todo) BY <1>1 DEF Goes
  <2>3. QED BY <1>1, <2>1, <2>2 DEF DeployInv
<1>2. CASE chain' \in {chain, c} /\ Stops BY <1>2, StopKeeps
<1>3. QED BY <1>1, <1>2 DEF Transact

LEMMA GoKeeps ==
  ASSUME DeployInv, todo # <<>>, NEW m, MemOK(m, chain), TodoOK(Tail(todo), m.book, chain),
         Goes(m), UNCHANGED chain
  PROVE  DeployInv'
  BY DEF DeployInv, Goes

(* A step that neither mints nor grants a token.                             *)
LEMMA TodoPlain ==
  ASSUME DeployInv, todo # <<>>, NEW c, NEW m, Keeps(chain, c),
         Head(todo).op \notin {"token", "grant"},
         m.book.tokens = mem.book.tokens
  PROVE  TodoOK(Tail(todo), m.book, c)
<1>1. TodoOK(todo, mem.book, chain) BY DEF DeployInv
<1>2. ASSUME NEW s \in ToSet(Phase3), m.book.tokens[s] # NoToken,
             ~HasShare(c, m.book.tokens[s])
      PROVE  /\ m.book.tokens[s] = mem.book.tokens[s] /\ Head(todo) # Step("grant", s)
             /\ ~HasShare(chain, mem.book.tokens[s])
  <2>1. Head(todo) # Step("grant", s) BY DEF Step
  <2>2. s \in States BY DEF States
  <2>3. mem.book.tokens[s] \in 0..Len(chain.tokens) BY <2>2 DEF DeployInv, MemOK, BookOK
  <2>4. Len(chain.tokens) \in Nat BY DEF DeployInv, ChainOK
  <2>5. mem.book.tokens[s] \in 1..Len(chain.tokens) BY <1>2, <2>3, <2>4 DEF NoToken
  <2>6. QED BY <1>2, <2>1, <2>5 DEF Keeps
<1>3. QED BY <1>1, <1>2, TodoOn

LEMMA SkipKeeps ==
  ASSUME DeployInv, todo # <<>>, Head(todo).op \notin {"token", "grant"}, Skip
  PROVE  DeployInv'
  BY GoKeeps, TodoPlain, KeepsSelf DEF DeployInv, Skip

LEMMA RevertKeeps == ASSUME DeployInv, Reverts PROVE DeployInv'
  BY StopKeeps, KeepsSelf DEF DeployInv, Reverts

LEMMA PlainKeeps ==
  ASSUME DeployInv, todo # <<>>, Head(todo).op \notin {"token", "grant"},
         NEW c, NEW m, ChainOK(c), Keeps(chain, c), MemOK(m, c),
         m.book.tokens = mem.book.tokens, Transact(c, m)
  PROVE  DeployInv'
  BY TransactKeeps, TodoPlain

(* Balances of the deployer and the gas of the agents.                       *)
LEMMA FundsKeep ==
  ASSUME NEW c, NEW d, ChainOK(c), d.tokens = c.tokens, d.positions = c.positions,
         d.infts = c.infts, d.pools = c.pools,
         d = [tokens |-> d.tokens, pools |-> d.pools, positions |-> d.positions,
              infts |-> d.infts, usdc |-> d.usdc, gas |-> d.gas, ether |-> d.ether]
  PROVE  ChainOK(d) /\ Keeps(c, d)
<1>1. \A t : Positioned(d, t) = Positioned(c, t) BY DEF Positioned
<1>2. Len(c.tokens) \in Nat BY DEF ChainOK
<1>3. ChainOK(d) BY <1>1 DEF ChainOK
<1>4. Keeps(c, d) BY <1>2 DEF Keeps, HasShare
<1>5. QED BY <1>3, <1>4

LEMMA FundTransacts ==
  ASSUME DeployInv, todo # <<>>, Head(todo).op \notin {"token", "grant"},
         NEW c, Transact(c, mem),
         c.tokens = chain.tokens, c.positions = chain.positions,
         c.infts = chain.infts, c.pools = chain.pools,
         c = [tokens |-> c.tokens, pools |-> c.pools, positions |-> c.positions,
              infts |-> c.infts, usdc |-> c.usdc, gas |-> c.gas, ether |-> c.ether]
  PROVE  DeployInv'
<1>1. ChainOK(c) /\ Keeps(chain, c) BY FundsKeep DEF DeployInv
<1>2. MemOK(mem, c) BY <1>1, MemStays DEF DeployInv
<1>3. QED BY <1>1, <1>2, PlainKeeps

LEMMA MoneyKeeps ==
  ASSUME DeployInv, DeployUsdc \/ MintLpUsdc \/ FundGas \/ SendTopUp
  PROVE  DeployInv'
<1>0. chain = [tokens |-> chain.tokens, pools |-> chain.pools, positions |-> chain.positions,
               infts |-> chain.infts, usdc |-> chain.usdc, gas |-> chain.gas,
               ether |-> chain.ether]
  BY DEF DeployInv, ChainOK
<1>1. CASE DeployUsdc
  <2>1. todo # <<>> /\ Head(todo).op = "usdc" BY <1>1 DEF DeployUsdc, Now, Idle
  <2> DEFINE c == [chain EXCEPT !.usdc = 0]
  <2>2. Transact(c, mem) BY <1>1 DEF DeployUsdc
  <2>3. c = [tokens |-> c.tokens, pools |-> c.pools, positions |-> c.positions,
             infts |-> c.infts, usdc |-> c.usdc, gas |-> c.gas, ether |-> c.ether]
    BY <1>0
  <2>4. c.tokens = chain.tokens /\ c.positions = chain.positions
        /\ c.infts = chain.infts /\ c.pools = chain.pools
    BY <1>0
  <2> HIDE DEF c
  <2>5. QED BY <2>1, <2>2, <2>3, <2>4, FundTransacts
<1>2. CASE MintLpUsdc
  <2>1. todo # <<>> /\ Head(todo).op = "lpUsdc" BY <1>2 DEF MintLpUsdc, Now, Idle
  <2>2. CASE Skip BY <2>1, <2>2, SkipKeeps
  <2>3. ASSUME NEW u, Transact([chain EXCEPT !.usdc = u], mem) PROVE DeployInv'
    <3> DEFINE c == [chain EXCEPT !.usdc = u]
    <3>1. Transact(c, mem) BY <2>3
    <3>3. c = [tokens |-> c.tokens, pools |-> c.pools, positions |-> c.positions,
               infts |-> c.infts, usdc |-> c.usdc, gas |-> c.gas, ether |-> c.ether]
      BY <1>0
    <3>4. c.tokens = chain.tokens /\ c.positions = chain.positions
          /\ c.infts = chain.infts /\ c.pools = chain.pools
      BY <1>0
    <3> HIDE DEF c
    <3>5. QED BY <2>1, <3>1, <3>3, <3>4, FundTransacts
  <2>4. QED BY <1>2, <2>2, <2>3 DEF MintLpUsdc
<1>3. ASSUME todo # <<>>, Head(todo).op \notin {"token", "grant"},
             NEW g, NEW e, Transact([chain EXCEPT !.gas[Of] = g, !.ether = e], mem)
      PROVE  DeployInv'
  <2> DEFINE c == [chain EXCEPT !.gas[Of] = g, !.ether = e]
  <2> DEFINE n == [chain.gas EXCEPT ![Of] = g]
  <2>1. Transact(c, mem) BY <1>3
  <2>2. c = [chain EXCEPT !.gas = n, !.ether = e] OBVIOUS
  <2> HIDE DEF c, n
  <2>3. c = [tokens |-> c.tokens, pools |-> c.pools, positions |-> c.positions,
             infts |-> c.infts, usdc |-> c.usdc, gas |-> c.gas, ether |-> c.ether]
    BY <1>0, <2>2
  <2>4. c.tokens = chain.tokens /\ c.positions = chain.positions
        /\ c.infts = chain.infts /\ c.pools = chain.pools
    BY <1>0, <2>2
  <2>5. QED BY <1>3, <2>1, <2>3, <2>4, FundTransacts
<1>4. CASE FundGas
  <2>1. todo # <<>> /\ Head(todo).op = "gas" BY <1>4 DEF FundGas, Now, Idle
  <2>2. CASE Skip BY <2>1, <2>2, SkipKeeps
  <2>3. CASE Reverts BY <2>3, RevertKeeps
  <2>4. QED BY <1>3, <1>4, <2>1, <2>2, <2>3 DEF FundGas
<1>5. CASE SendTopUp
  <2>1. todo # <<>> /\ Head(todo).op = "topUp" BY <1>5 DEF SendTopUp, Now, Idle
  <2>2. CASE Skip BY <2>1, <2>2, SkipKeeps
  <2>3. CASE Goes(mem) /\ UNCHANGED chain
    BY <2>1, <2>3, GoKeeps, TodoPlain, KeepsSelf DEF DeployInv
  <2>4. QED BY <1>3, <1>5, <2>1, <2>2, <2>3 DEF SendTopUp
<1>6. QED BY <1>1, <1>2, <1>4, <1>5

-----------------------------------------------------------------------------
LEMMA ElementOf == ASSUME NEW S, NEW q \in Seq(S), NEW i \in DOMAIN q PROVE q[i] \in S
  OBVIOUS

LEMMA SequenceOf ==
  ASSUME NEW S, NEW n \in Nat, NEW f \in [1..n -> S] PROVE f \in Seq(S) /\ Len(f) = n
  OBVIOUS

(* A new token: the deployer has it all.                                     *)
LEMMA NewToken ==
  ASSUME NEW c, ChainOK(c), NEW d,
         d = [c EXCEPT !.tokens = Append(@, [deployer |-> Supply, agent |-> 0])]
  PROVE  ChainOK(d) /\ Keeps(c, d) /\ Len(d.tokens) = Len(c.tokens) + 1
<1> DEFINE new == [deployer |-> Supply, agent |-> 0]
<1>0. c = [tokens |-> c.tokens, pools |-> c.pools, positions |-> c.positions,
           infts |-> c.infts, usdc |-> c.usdc, gas |-> c.gas, ether |-> c.ether]
  BY DEF ChainOK
<1>1. /\ d = [tokens |-> d.tokens, pools |-> d.pools, positions |-> d.positions,
              infts |-> d.infts, usdc |-> d.usdc, gas |-> d.gas, ether |-> d.ether]
      /\ d.tokens = Append(c.tokens, new) /\ d.pools = c.pools
      /\ d.positions = c.positions /\ d.infts = c.infts
  BY <1>0
<1>2. Supply \in Nat /\ new \in [deployer : Nat, agent : {0, ToAgent}]
  BY DeploymentAssumption DEF Supply
<1>3. c.tokens \in Seq([deployer : Nat, agent : {0, ToAgent}]) BY DEF ChainOK
<1> HIDE DEF new
<1>4. /\ d.tokens \in Seq([deployer : Nat, agent : {0, ToAgent}])
      /\ Len(c.tokens) \in Nat /\ Len(d.tokens) = Len(c.tokens) + 1
      /\ \A t \in 1..Len(c.tokens) : d.tokens[t] = c.tokens[t]
      /\ d.tokens[Len(c.tokens) + 1] = new
  BY <1>1, <1>2, <1>3
<1>5. Keeps(c, d) BY <1>1, <1>4 DEF Keeps, HasShare
<1>6. \A t : Positioned(d, t) = Positioned(c, t) BY <1>1 DEF Positioned
<1>7. c.positions \in Seq(1..Len(c.tokens)) /\ c.pools \subseteq 1..Len(c.tokens)
  BY DEF ChainOK
<1>8. 1..Len(c.tokens) \subseteq 1..Len(d.tokens) BY <1>4
<1>9. d.positions \in Seq(1..Len(d.tokens)) /\ d.pools \subseteq 1..Len(d.tokens)
  BY <1>1, <1>7, <1>8
<1>10. ASSUME NEW t \in 1..Len(d.tokens)
       PROVE  /\ IsFiniteSet(Positioned(d, t))
              /\ d.tokens[t].deployer + d.tokens[t].agent
                   + Cardinality(Positioned(d, t)) = Supply
  <2>1. CASE t \in 1..Len(c.tokens) BY <1>4, <1>6, <2>1 DEF ChainOK
  <2>2. CASE t = Len(c.tokens) + 1
    <3>1. \A p \in DOMAIN c.positions : c.positions[p] # t BY <1>4, <1>7, <2>2
    <3>2. Positioned(d, t) = {} BY <1>6, <3>1 DEF Positioned
    <3>3. IsFiniteSet({}) /\ Cardinality({}) = 0 BY FS_EmptySet
    <3>4. new.deployer = Supply /\ new.agent = 0 BY DEF new
    <3>5. d.tokens[t] = new BY <1>4, <2>2
    <3>6. IsFiniteSet(Positioned(d, t)) /\ Cardinality(Positioned(d, t)) = 0 BY <3>2, <3>3
    <3>7. QED BY <1>2, <3>4, <3>5, <3>6
  <2>3. QED BY <1>4, <2>1, <2>2
<1>11. ChainOK(d) BY <1>1, <1>4, <1>9, <1>10 DEF ChainOK
<1>12. QED BY <1>4, <1>5, <1>11

LEMMA HeadStep ==
  ASSUME DeployInv, todo # <<>>
  PROVE  Head(todo) = Step(Head(todo).op, Of)
<1>1. todo \in Seq(Steps) BY DEF DeployInv, TodoOK
<1>2. Head(todo) \in Steps BY <1>1
<1>3. QED BY <1>2 DEF Steps, Step, Of

LEMMA TokenKeeps ==
  ASSUME DeployInv, DeployToken PROVE DeployInv'
<1>1. todo # <<>> /\ Head(todo).op = "token" BY DEF DeployToken, Now, Idle
<1>2. Head(todo) = Step("token", Of) BY <1>1, HeadStep
<1>3. /\ TodoOK(todo, mem.book, chain) /\ ChainOK(chain) /\ BookOK(mem.book, chain)
      /\ mem = [book |-> mem.book, infts |-> mem.infts, unseen |-> mem.unseen]
      /\ mem.infts \subseteq chain.infts
      /\ mem.book = [tokens |-> mem.book.tokens, pools |-> mem.book.pools,
                     bonds |-> mem.book.bonds]
      /\ mem.book.tokens \in [States -> 0..Len(chain.tokens)]
  BY DEF DeployInv, MemOK, BookOK
<1>4. CASE Skip
  <2>1. TodoOK(Tail(todo), mem.book, chain)
    <3>1. \A s : Head(todo) # Step("grant", s) BY <1>2 DEF Step
    <3>2. QED BY <1>1, <1>3, <3>1, TodoOn
  <2>2. QED BY <1>1, <1>4, <2>1, GoKeeps DEF DeployInv, Skip
<1>5. ASSUME ~AlreadyNamed(Of),
             Transact([chain EXCEPT !.tokens =
                             Append(@, [deployer |-> Supply, agent |-> 0])],
                      [mem EXCEPT !.book.tokens[Of] = Len(chain.tokens) + 1])
      PROVE  DeployInv'
  <2> DEFINE n == Len(chain.tokens) + 1
             c == [chain EXCEPT !.tokens = Append(@, [deployer |-> Supply, agent |-> 0])]
             m == [mem EXCEPT !.book.tokens[Of] = n]
             named == [mem.book.tokens EXCEPT ![Of] = n]
             b == [mem.book EXCEPT !.tokens = named]
  <2>1. ChainOK(c) /\ Keeps(chain, c) /\ Len(c.tokens) = n BY <1>3, NewToken
  <2>2. Transact(c, m) BY <1>5
  <2>3. m = [mem EXCEPT !.book = b] OBVIOUS
  <2>4. n \in 0..n /\ 0..Len(chain.tokens) \subseteq 0..n BY <1>3 DEF ChainOK
  <2>5. named \in [States -> 0..n] BY <1>3, <2>4
  <2>6. \A s \in States : s # Of => named[s] = mem.book.tokens[s] BY <1>3
  <2> HIDE DEF c, m, named, n
  <2>7. /\ b = [tokens |-> b.tokens, pools |-> b.pools, bonds |-> b.bonds]
        /\ b.tokens = named /\ b.pools = mem.book.pools
    BY <1>3
  <2> HIDE DEF b
  <2>8. /\ m = [book |-> m.book, infts |-> m.infts, unseen |-> m.unseen]
        /\ m.book = b /\ m.infts = mem.infts
    BY <1>3, <2>3
  <2>9. ASSUME NEW s \in DOMAIN b.pools, b.pools[s].position # NoPosition
        PROVE  /\ b.pools[s].position \in DOMAIN c.positions
               /\ c.positions[b.pools[s].position] = b.tokens[s]
    <3> DEFINE p == b.pools[s].position
    <3>1. p \in DOMAIN chain.positions /\ chain.positions[p] = mem.book.tokens[s]
      BY <1>3, <2>7, <2>9 DEF BookOK
    <3>2. p \in DOMAIN c.positions /\ c.positions[p] = mem.book.tokens[s]
      BY <2>1, <3>1 DEF Keeps
    <3>3. mem.book.tokens[s] \in 1..Len(chain.tokens)
      <4>1. chain.positions \in Seq(1..Len(chain.tokens)) BY <1>3 DEF ChainOK
      <4>2. chain.positions[p] \in 1..Len(chain.tokens) BY <3>1, <4>1, ElementOf
      <4>3. QED BY <3>1, <4>2
    <3>4. mem.book.tokens[s] # 0 BY <3>3
    <3>5. s # Of BY <1>5, <3>4 DEF AlreadyNamed, NoToken
    <3>6. named[s] = mem.book.tokens[s] BY <1>3, <3>5 DEF named
    <3>7. QED BY <2>7, <3>2, <3>6
  <2>10. MemOK(m, c)
    <3>1. BookOK(b, c) BY <2>1, <2>5, <2>7, <2>9 DEF BookOK
    <3>2. QED BY <1>3, <2>1, <2>8, <3>1 DEF MemOK, Keeps
  <2>11. ASSUME NEW s \in ToSet(Phase3), m.book.tokens[s] # NoToken,
                ~HasShare(c, m.book.tokens[s]), Head(todo) # Step("token", s)
         PROVE  /\ m.book.tokens[s] = mem.book.tokens[s] /\ Head(todo) # Step("grant", s)
                /\ ~HasShare(chain, mem.book.tokens[s])
    <3>1. s # Of /\ s \in States BY <1>2, <2>11 DEF States
    <3>2. m.book.tokens[s] = mem.book.tokens[s] BY <2>6, <2>7, <2>8, <3>1
    <3>3. mem.book.tokens[s] \in 1..Len(chain.tokens)
      BY <1>3, <2>11, <3>1, <3>2 DEF ChainOK, NoToken
    <3>4. Head(todo) # Step("grant", s) BY <1>2 DEF Step
    <3>5. QED BY <2>1, <2>11, <3>2, <3>3, <3>4 DEF Keeps
  <2>12. TodoOK(Tail(todo), m.book, c) BY <1>1, <1>3, <2>11, TodoOn
  <2>13. QED BY <1>1, <2>1, <2>2, <2>10, <2>12, TransactKeeps
<1>6. QED BY <1>4, <1>5 DEF DeployToken

(* The agent's share, out of what the deployer has.                          *)
LEMMA ShareGiven ==
  ASSUME NEW c, ChainOK(c), NEW t, NEW d,
         t \in DOMAIN c.tokens => c.tokens[t].agent < ToAgent /\ c.tokens[t].deployer >= ToAgent,
         d = [c EXCEPT !.tokens[t] = [deployer |-> c.tokens[t].deployer - ToAgent,
                                      agent |-> c.tokens[t].agent + ToAgent]]
  PROVE  ChainOK(d) /\ Keeps(c, d) /\ (t \in DOMAIN c.tokens => HasShare(d, t))
<1> DEFINE new == [deployer |-> c.tokens[t].deployer - ToAgent,
                   agent |-> c.tokens[t].agent + ToAgent]
           ts == [c.tokens EXCEPT ![t] = new]
<1>0. d = [c EXCEPT !.tokens = ts] OBVIOUS
<1> HIDE DEF ts
<1>1. /\ d = [tokens |-> d.tokens, pools |-> d.pools, positions |-> d.positions,
              infts |-> d.infts, usdc |-> d.usdc, gas |-> d.gas, ether |-> d.ether]
      /\ d.tokens = ts /\ d.pools = c.pools
      /\ d.positions = c.positions /\ d.infts = c.infts
  BY <1>0 DEF ChainOK
<1>2. c.tokens \in Seq([deployer : Nat, agent : {0, ToAgent}]) BY DEF ChainOK
<1>3. ToAgent \in Nat /\ ToAgent # 0 BY DeploymentAssumption
<1>4. t \in DOMAIN c.tokens =>
        /\ new \in [deployer : Nat, agent : {0, ToAgent}] /\ new.agent = ToAgent
        /\ new.deployer + new.agent = c.tokens[t].deployer + c.tokens[t].agent
  <2>1. SUFFICES ASSUME t \in DOMAIN c.tokens
                 PROVE  /\ new \in [deployer : Nat, agent : {0, ToAgent}] /\ new.agent = ToAgent
                        /\ new.deployer + new.agent = c.tokens[t].deployer + c.tokens[t].agent
    OBVIOUS
  <2>2. c.tokens[t] \in [deployer : Nat, agent : {0, ToAgent}] BY <1>2, <2>1, ElementOf
  <2>3. c.tokens[t].agent = 0 /\ c.tokens[t].deployer \in Nat /\ c.tokens[t].deployer >= ToAgent
    BY <1>3, <2>1, <2>2
  <2>4. QED BY <1>3, <2>3
<1> HIDE DEF new
<1>5. /\ DOMAIN ts = DOMAIN c.tokens /\ Len(ts) = Len(c.tokens)
      /\ ts \in Seq([deployer : Nat, agent : {0, ToAgent}])
      /\ \A u \in DOMAIN c.tokens : ts[u] = IF u = t THEN new ELSE c.tokens[u]
      /\ DOMAIN c.tokens = 1..Len(c.tokens)
  <2> DEFINE S == [deployer : Nat, agent : {0, ToAgent}]
  <2>1. t \in DOMAIN c.tokens => new \in S BY <1>4
  <2>2. c.tokens \in Seq(S) BY <1>2
  <2>3. ts = [c.tokens EXCEPT ![t] = new] BY DEF ts
  <2> HIDE DEF S
  <2>4. /\ DOMAIN ts = DOMAIN c.tokens /\ Len(ts) = Len(c.tokens) /\ ts \in Seq(S)
        /\ \A u \in DOMAIN c.tokens : ts[u] = IF u = t THEN new ELSE c.tokens[u]
        /\ DOMAIN c.tokens = 1..Len(c.tokens)
    <3>1. /\ DOMAIN c.tokens = 1..Len(c.tokens) /\ Len(c.tokens) \in Nat
          /\ c.tokens \in [1..Len(c.tokens) -> S]
      BY <2>2
    <3>2. ts \in [1..Len(c.tokens) -> S] BY <2>1, <2>3, <3>1
    <3>3. ts \in Seq(S) /\ Len(ts) = Len(c.tokens) BY <3>1, <3>2, SequenceOf
    <3>4. \A u \in DOMAIN c.tokens : ts[u] = IF u = t THEN new ELSE c.tokens[u] BY <2>3
    <3>5. QED BY <3>1, <3>2, <3>3, <3>4
  <2>5. QED BY <2>4 DEF S
<1>6. Keeps(c, d)
  <2>1. \A u \in 1..Len(c.tokens) : HasShare(c, u) => HasShare(d, u)
    BY <1>1, <1>4, <1>5 DEF HasShare
  <2>2. Len(c.tokens) <= Len(d.tokens) BY <1>1, <1>2, <1>5
  <2>3. QED BY <1>1, <2>1, <2>2 DEF Keeps
<1>7. \A u : Positioned(d, u) = Positioned(c, u) BY <1>1 DEF Positioned
<1>8. ASSUME NEW u \in 1..Len(d.tokens)
      PROVE  /\ IsFiniteSet(Positioned(d, u))
             /\ d.tokens[u].deployer + d.tokens[u].agent
                  + Cardinality(Positioned(d, u)) = Supply
  <2>1. u \in DOMAIN c.tokens BY <1>1, <1>5
  <2>2. d.tokens[u].deployer + d.tokens[u].agent = c.tokens[u].deployer + c.tokens[u].agent
    BY <1>1, <1>4, <1>5, <2>1
  <2>3. QED BY <1>5, <1>7, <2>1, <2>2 DEF ChainOK
<1>9. ChainOK(d) BY <1>1, <1>5, <1>8 DEF ChainOK
<1>10. t \in DOMAIN c.tokens => HasShare(d, t) BY <1>1, <1>4, <1>5 DEF HasShare
<1>11. QED BY <1>6, <1>9, <1>10

LEMMA GrantKeeps ==
  ASSUME DeployInv, Grant PROVE DeployInv'
<1>1. todo # <<>> /\ Head(todo).op = "grant" BY DEF Grant, Now, Idle
<1>2. Head(todo) = Step("grant", Of) BY <1>1, HeadStep
<1>3. /\ TodoOK(todo, mem.book, chain) /\ ChainOK(chain) /\ MemOK(mem, chain)
      /\ mem.book.tokens \in [States -> 0..Len(chain.tokens)]
      /\ chain.tokens \in Seq([deployer : Nat, agent : {0, ToAgent}])
      /\ Len(chain.tokens) \in Nat /\ DOMAIN chain.tokens = 1..Len(chain.tokens)
  BY DEF DeployInv, MemOK, BookOK, ChainOK
(* After the grant, whose state is of phase 3 has its share.                 *)
<1>4. ASSUME NEW c, Keeps(chain, c), Token \in DOMAIN chain.tokens => HasShare(c, Token)
      PROVE  TodoOK(Tail(todo), mem.book, c)
  <2>1. ASSUME NEW s \in ToSet(Phase3), mem.book.tokens[s] # NoToken,
               ~HasShare(c, mem.book.tokens[s])
        PROVE  Head(todo) # Step("grant", s) /\ ~HasShare(chain, mem.book.tokens[s])
    <3>1. s \in States BY DEF States
    <3>2. mem.book.tokens[s] \in 1..Len(chain.tokens) BY <1>3, <2>1, <3>1 DEF NoToken
    <3>3. s # Of BY <1>3, <1>4, <2>1, <3>2 DEF Token
    <3>4. Head(todo) # Step("grant", s) BY <1>2, <3>3 DEF Step
    <3>5. QED BY <1>4, <2>1, <3>2, <3>4 DEF Keeps
  <2>2. QED BY <1>1, <1>3, <2>1, TodoOn
<1>5. CASE chain.tokens[Token].agent >= ToAgent /\ Skip
  <2>1. Token \in DOMAIN chain.tokens => HasShare(chain, Token)
    <3>1. SUFFICES ASSUME Token \in DOMAIN chain.tokens PROVE HasShare(chain, Token)
      OBVIOUS
    <3> DEFINE t == Token
    <3> HIDE DEF t
    <3>2. t \in DOMAIN chain.tokens BY <3>1 DEF t
    <3> DEFINE S == [deployer : Nat, agent : {0, ToAgent}]
    <3>0. chain.tokens \in Seq(S) BY <1>3
    <3> HIDE DEF S
    <3>3. chain.tokens[t] \in S BY <3>0, <3>2, ElementOf
    <3>4. chain.tokens[t].agent >= ToAgent BY <1>5 DEF t
    <3>5. chain.tokens[t].agent = ToAgent BY <3>3, <3>4, DeploymentAssumption DEF S
    <3>6. QED BY <3>5 DEF HasShare, t
  <2>2. TodoOK(Tail(todo), mem.book, chain) BY <1>4, <2>1, KeepsSelf
  <2>3. QED BY <1>1, <1>3, <1>5, <2>2, GoKeeps DEF Skip
<1>6. CASE Reverts BY <1>6, RevertKeeps
<1>7. ASSUME chain.tokens[Token].agent < ToAgent,
             chain.tokens[Token].deployer >= ToAgent,
             Transact([chain EXCEPT !.tokens[Token] =
                         [deployer |-> chain.tokens[Token].deployer - ToAgent,
                          agent |-> chain.tokens[Token].agent + ToAgent]], mem)
      PROVE  DeployInv'
  <2> DEFINE c == [chain EXCEPT !.tokens[Token] =
                     [deployer |-> chain.tokens[Token].deployer - ToAgent,
                      agent |-> chain.tokens[Token].agent + ToAgent]]
  <2>1. /\ ChainOK(c) /\ Keeps(chain, c)
        /\ (Token \in DOMAIN chain.tokens => HasShare(c, Token))
    BY <1>3, <1>7, ShareGiven
  <2>2. Transact(c, mem) BY <1>7
  <2> HIDE DEF c
  <2>3. MemOK(mem, c) BY <1>3, <2>1, MemStays
  <2>4. TodoOK(Tail(todo), mem.book, c) BY <1>4, <2>1
  <2>5. QED BY <1>1, <2>1, <2>2, <2>3, <2>4, TransactKeeps
<1>8. QED BY <1>5, <1>6, <1>7 DEF Grant

-----------------------------------------------------------------------------
(* An entry of the book is for what is at its position.                      *)
LEMMA EnterKeeps ==
  ASSUME NEW c, MemOK(mem, c), NEW s, NEW position, NEW known,
         position # NoPosition =>
           position \in DOMAIN c.positions /\ c.positions[position] = mem.book.tokens[s]
  PROVE  /\ MemOK(Enter(s, position, known), c)
         /\ Enter(s, position, known).book.tokens = mem.book.tokens
<1> DEFINE entry == [position |-> position, known |-> known]
           ps == [p \in DOMAIN mem.book.pools \cup {s} |->
                    IF p = s THEN entry ELSE mem.book.pools[p]]
           b == [mem.book EXCEPT !.pools = ps]
           m == Enter(s, position, known)
<1>1. m = [mem EXCEPT !.book = b] BY DEF Enter
<1>2. \A p \in DOMAIN ps : ps[p] = IF p = s THEN entry ELSE mem.book.pools[p] OBVIOUS
<1>3. DOMAIN ps = DOMAIN mem.book.pools \cup {s} OBVIOUS
<1>4. entry.position = position OBVIOUS
<1> HIDE DEF ps, m, entry
<1>5. /\ b = [tokens |-> b.tokens, pools |-> b.pools, bonds |-> b.bonds]
      /\ b.tokens = mem.book.tokens /\ b.pools = ps
  BY DEF MemOK, BookOK
<1> HIDE DEF b
<1>6. /\ m = [book |-> m.book, infts |-> m.infts, unseen |-> m.unseen]
      /\ m.book = b /\ m.infts = mem.infts
  BY <1>1 DEF MemOK
<1>7. ASSUME NEW p \in DOMAIN b.pools, b.pools[p].position # NoPosition
      PROVE  /\ b.pools[p].position \in DOMAIN c.positions
             /\ c.positions[b.pools[p].position] = b.tokens[p]
  <2>1. CASE p = s BY <1>2, <1>4, <1>5, <1>7, <2>1
  <2>2. CASE p # s BY <1>2, <1>3, <1>5, <1>7, <2>2 DEF MemOK, BookOK
  <2>3. QED BY <2>1, <2>2
<1>8. BookOK(b, c) BY <1>5, <1>7 DEF MemOK, BookOK
<1>9. MemOK(m, c) BY <1>6, <1>8 DEF MemOK
<1>10. QED BY <1>5, <1>6, <1>9 DEF m

(* The deployer's part of a token goes into its pool, for a position.        *)
LEMMA PositionMinted ==
  ASSUME NEW c, ChainOK(c), NEW t \in c.pools,
         c.tokens[t].deployer >= 1, NEW d,
         d = [c EXCEPT !.usdc = @ - 1, !.tokens[t].deployer = @ - 1,
                       !.positions = Append(@, t)]
  PROVE  /\ ChainOK(d) /\ Keeps(c, d) /\ t # NoToken
         /\ Len(c.positions) + 1 \in DOMAIN d.positions
         /\ Len(c.positions) + 1 # NoPosition
         /\ d.positions[Len(c.positions) + 1] = t
<1> DEFINE S == [deployer : Nat, agent : {0, ToAgent}]
           new == [c.tokens[t] EXCEPT !.deployer = @ - 1]
           ts == [c.tokens EXCEPT ![t] = new]
           ps == Append(c.positions, t)
           p == Len(c.positions) + 1
<1>0. d = [c EXCEPT !.usdc = c.usdc - 1, !.tokens = ts, !.positions = ps] OBVIOUS
<1> HIDE DEF ts, ps
<1>1. /\ d = [tokens |-> d.tokens, pools |-> d.pools, positions |-> d.positions,
              infts |-> d.infts, usdc |-> d.usdc, gas |-> d.gas, ether |-> d.ether]
      /\ d.tokens = ts /\ d.pools = c.pools /\ d.positions = ps /\ d.infts = c.infts
  BY <1>0 DEF ChainOK
<1>2. /\ c.tokens \in Seq(S) /\ DOMAIN c.tokens = 1..Len(c.tokens) /\ Len(c.tokens) \in Nat
      /\ c.positions \in Seq(1..Len(c.tokens)) /\ t \in 1..Len(c.tokens)
  BY DEF ChainOK
<1>3. c.tokens[t] \in S BY <1>2, ElementOf
<1>4. /\ new \in S /\ new.agent = c.tokens[t].agent
      /\ new.deployer = c.tokens[t].deployer - 1
  BY <1>3
<1> HIDE DEF S, new
<1>5. /\ ts \in Seq(S) /\ Len(ts) = Len(c.tokens)
      /\ \A u \in 1..Len(c.tokens) : ts[u] = IF u = t THEN new ELSE c.tokens[u]
  <2>1. c.tokens \in [1..Len(c.tokens) -> S] BY <1>2
  <2>2. ts \in [1..Len(c.tokens) -> S] BY <1>4, <2>1 DEF ts
  <2>3. QED BY <1>2, <2>1, <2>2, SequenceOf DEF ts
<1>6. /\ ps \in Seq(1..Len(c.tokens)) /\ DOMAIN ps = DOMAIN c.positions \cup {p}
      /\ p \notin DOMAIN c.positions /\ p # 0
      /\ \A q \in DOMAIN c.positions : ps[q] = c.positions[q]
      /\ ps[p] = t
  <2>1. Len(c.positions) \in Nat /\ DOMAIN c.positions = 1..Len(c.positions) BY <1>2
  <2>2. ps = Append(c.positions, t) BY DEF ps
  <2>3. /\ ps \in Seq(1..Len(c.tokens)) /\ DOMAIN ps = 1..p /\ ps[p] = t
        /\ \A q \in DOMAIN c.positions : ps[q] = c.positions[q]
    BY <1>2, <2>1, <2>2
  <2>4. 1..p = 1..Len(c.positions) \cup {p} /\ p \notin 1..Len(c.positions) /\ p # 0 BY <2>1
  <2>5. QED BY <2>1, <2>3, <2>4
<1>7. Keeps(c, d)
  <2>1. \A u \in 1..Len(c.tokens) : d.tokens[u].agent = c.tokens[u].agent BY <1>1, <1>4, <1>5
  <2>2. Len(c.tokens) <= Len(d.tokens) BY <1>1, <1>2, <1>5
  <2>3. \A q \in DOMAIN c.positions : q \in DOMAIN d.positions /\ d.positions[q] = c.positions[q]
    BY <1>1, <1>6
  <2>4. QED BY <1>1, <2>1, <2>2, <2>3 DEF Keeps, HasShare
<1>8. ASSUME NEW u \in 1..Len(d.tokens)
      PROVE  /\ IsFiniteSet(Positioned(d, u))
             /\ d.tokens[u].deployer + d.tokens[u].agent
                  + Cardinality(Positioned(d, u)) = Supply
  <2>1. /\ u \in 1..Len(c.tokens) /\ IsFiniteSet(Positioned(c, u))
        /\ c.tokens[u].deployer + c.tokens[u].agent + Cardinality(Positioned(c, u)) = Supply
    BY <1>1, <1>5 DEF ChainOK
  <2>2. CASE u # t
    <3>1. Positioned(d, u) = Positioned(c, u) BY <1>1, <1>6, <2>2 DEF Positioned
    <3>2. d.tokens[u] = c.tokens[u] BY <1>1, <1>5, <2>1, <2>2
    <3>3. QED BY <2>1, <3>1, <3>2
  <2>3. CASE u = t
    <3>1. Positioned(d, t) = Positioned(c, t) \cup {p} /\ p \notin Positioned(c, t)
      <4>1. p \notin Positioned(c, t) BY <1>6 DEF Positioned
      <4>2. \A q : q \in Positioned(d, t) <=> q \in Positioned(c, t) \/ q = p
        <5>1. TAKE q
        <5>2. CASE q = p BY <1>1, <1>6, <5>2 DEF Positioned
        <5>3. CASE q # p BY <1>1, <1>6, <5>3 DEF Positioned
        <5>4. QED BY <5>2, <5>3
      <4>3. QED BY <4>1, <4>2
    <3>2. IsFiniteSet(Positioned(c, t)) BY <2>1, <2>3
    <3>3. /\ IsFiniteSet(Positioned(d, t)) /\ Cardinality(Positioned(c, t)) \in Nat
          /\ Cardinality(Positioned(d, t)) = Cardinality(Positioned(c, t)) + 1
      <4> DEFINE P == Positioned(c, t)
      <4>1. IsFiniteSet(P) /\ p \notin P BY <3>1, <3>2
      <4> HIDE DEF P
      <4>2. IsFiniteSet(P \cup {p}) /\ Cardinality(P \cup {p}) = Cardinality(P) + 1
        BY <4>1, FS_AddElement
      <4>3. Cardinality(P) \in Nat BY <4>1, FS_CardinalityType
      <4>4. QED BY <3>1, <4>2, <4>3 DEF P
    <3>4. d.tokens[t] = new BY <1>1, <1>2, <1>5
    <3>5. c.tokens[t].deployer \in Nat /\ c.tokens[t].agent \in Nat
      BY <1>3, DeploymentAssumption DEF S
    <3>6. c.tokens[t].deployer + c.tokens[t].agent + Cardinality(Positioned(c, t)) = Supply
      BY <2>1, <2>3
    <3>7. d.tokens[t].deployer + d.tokens[t].agent + Cardinality(Positioned(d, t)) = Supply
      <4> DEFINE x == c.tokens[t].deployer
                 y == c.tokens[t].agent
                 n == Cardinality(Positioned(c, t))
      <4>1. x \in Nat /\ y \in Nat /\ n \in Nat /\ x + y + n = Supply BY <3>3, <3>5, <3>6
      <4>2. d.tokens[t].deployer = x - 1 /\ d.tokens[t].agent = y BY <1>4, <3>4
      <4>3. Cardinality(Positioned(d, t)) = n + 1 BY <3>3
      <4> HIDE DEF x, y, n
      <4>4. (x - 1) + y + (n + 1) = Supply BY <4>1
      <4>5. QED BY <4>2, <4>3, <4>4
    <3>8. QED BY <2>3, <3>3, <3>7
  <2>4. QED BY <2>2, <2>3
<1>9. ChainOK(d)
  <2>1. c.pools \subseteq 1..Len(c.tokens) BY DEF ChainOK
  <2>2. QED BY <1>1, <1>5, <1>6, <1>8, <2>1 DEF ChainOK, S
<1>10. QED BY <1>1, <1>2, <1>6, <1>7, <1>9 DEF NoToken, NoPosition

LEMMA ShapeOfMem ==
  ASSUME MemOK(mem, chain)
  PROVE  /\ mem = [book |-> mem.book, infts |-> mem.infts, unseen |-> mem.unseen]
         /\ mem.book = [tokens |-> mem.book.tokens, pools |-> mem.book.pools,
                        bonds |-> mem.book.bonds]
  BY DEF MemOK, BookOK

LEMMA MintTransacts ==
  ASSUME DeployInv, todo # <<>>,
         Head(todo).op \notin {"token", "grant"}, CanMint, NEW known, MintPosition(known)
  PROVE  DeployInv'
<1> DEFINE c == [chain EXCEPT !.usdc = @ - 1, !.tokens[Token].deployer = @ - 1,
                              !.positions = Append(@, Token)]
           m == Enter(Of, Len(chain.positions) + 1, known)
<1>1. Transact(c, m) BY DEF MintPosition
<1>2. Token \in chain.pools /\ chain.tokens[Token].deployer >= 1 BY DEF CanMint
<1>3. ChainOK(chain) /\ MemOK(mem, chain) BY DEF DeployInv
<1>4. /\ ChainOK(c) /\ Keeps(chain, c)
      /\ Len(chain.positions) + 1 \in DOMAIN c.positions
      /\ c.positions[Len(chain.positions) + 1] = Token
  BY <1>2, <1>3, PositionMinted
<1> HIDE DEF c
<1>5. MemOK(mem, c) BY <1>3, <1>4, MemStays
<1>6. MemOK(m, c) /\ m.book.tokens = mem.book.tokens
  BY <1>4, <1>5, EnterKeeps DEF Token
<1> HIDE DEF m
<1>7. QED BY <1>1, <1>4, <1>6, PlainKeeps

LEMMA MintKeeps ==
  ASSUME DeployInv, SeedPool \/ MintPool \/ RetryPool
  PROVE  DeployInv'
<1>1. todo # <<>> /\ Head(todo).op \in {"seed", "mint", "retry"}
  BY DEF SeedPool, MintPool, RetryPool, Now, Idle
<1>2. Head(todo).op \notin {"token", "grant"} BY <1>1
<1>3. CASE Skip BY <1>1, <1>2, <1>3, SkipKeeps
<1>4. CASE Reverts BY <1>4, RevertKeeps
<1>5. ASSUME NEW known, CanMint, MintPosition(known) PROVE DeployInv'
  BY <1>1, <1>2, <1>5, MintTransacts
<1>6. CASE Goes(mem) /\ UNCHANGED chain
  BY <1>1, <1>2, <1>6, GoKeeps, TodoPlain, KeepsSelf DEF DeployInv
<1>7. QED BY <1>3, <1>4, <1>5, <1>6 DEF SeedPool, MintPool, RetryPool, MintUnless

LEMMA CreateKeeps == ASSUME DeployInv, CreatePool PROVE DeployInv'
<1>1. todo # <<>> /\ Head(todo).op = "create" BY DEF CreatePool, Now, Idle
<1>2. /\ ChainOK(chain) /\ MemOK(mem, chain) /\ TodoOK(todo, mem.book, chain)
      /\ mem.book.tokens \in [States -> 0..Len(chain.tokens)] /\ Len(chain.tokens) \in Nat
      /\ todo \in Seq(Steps)
  BY DEF DeployInv, MemOK, BookOK, ChainOK, TodoOK
<1>3. CASE Skip BY <1>1, <1>3, SkipKeeps
<1>4. ASSUME NEW u, ~NotNamed,
             Transact([chain EXCEPT !.pools = @ \cup {Token}], [mem EXCEPT !.unseen = u])
      PROVE  DeployInv'
  <2> DEFINE ps == chain.pools \cup {Token}
             c == [chain EXCEPT !.pools = ps]
             m == [mem EXCEPT !.unseen = u]
  <2>1. Transact(c, m) BY <1>4
  <2>2. Of \in States
    <3>1. 1 \in DOMAIN todo /\ todo[1].op = "create" /\ Of = todo[1].of
      BY <1>1, <1>2 DEF Of
    <3>2. QED BY <1>2, <3>1 DEF TodoOK
  <2>3. Token \in 1..Len(chain.tokens)
    BY <1>2, <1>4, <2>2 DEF Token, NotNamed, NoToken
  <2>4. ps \subseteq 1..Len(chain.tokens) BY <1>2, <2>3 DEF ChainOK
  <2> HIDE DEF ps
  <2>5. /\ c = [tokens |-> c.tokens, pools |-> c.pools, positions |-> c.positions,
                infts |-> c.infts, usdc |-> c.usdc, gas |-> c.gas, ether |-> c.ether]
        /\ c.tokens = chain.tokens /\ c.pools = ps
        /\ c.positions = chain.positions /\ c.infts = chain.infts
    BY <1>2 DEF ChainOK
  <2>6. /\ m = [book |-> m.book, infts |-> m.infts, unseen |-> m.unseen]
        /\ m.book = mem.book /\ m.infts = mem.infts
    BY <1>2, ShapeOfMem
  <2> HIDE DEF c, m
  <2>7. \A t : Positioned(c, t) = Positioned(chain, t) BY <2>5 DEF Positioned
  <2>8. ChainOK(c) BY <1>2, <2>4, <2>5, <2>7 DEF ChainOK
  <2>9. Keeps(chain, c) BY <1>2, <2>5 DEF Keeps, HasShare
  <2>10. MemOK(mem, c) BY <1>2, <2>8, <2>9, MemStays
  <2>11. MemOK(m, c) BY <2>6, <2>10 DEF MemOK
  <2>12. QED BY <1>1, <2>1, <2>6, <2>8, <2>9, <2>11, PlainKeeps
<1>5. QED BY <1>3, <1>4 DEF CreatePool

LEMMA LookKeeps == ASSUME DeployInv, LookAtPool PROVE DeployInv'
<1>1. todo # <<>> /\ Head(todo).op = "look" /\ UNCHANGED chain
  BY DEF LookAtPool, Now, Idle
<1>2. MemOK(mem, chain) BY DEF DeployInv
<1>3. CASE Skip BY <1>1, <1>3, SkipKeeps
<1>4. ASSUME NEW known, Goes(Enter(Of, NoPosition, known)) PROVE DeployInv'
  <2> DEFINE m == Enter(Of, NoPosition, known)
  <2>1. MemOK(m, chain) /\ m.book.tokens = mem.book.tokens BY <1>2, EnterKeeps
  <2>2. Goes(m) BY <1>4
  <2> HIDE DEF m
  <2>3. TodoOK(Tail(todo), m.book, chain) BY <1>1, <2>1, TodoPlain, KeepsSelf
  <2>4. QED BY <1>1, <2>1, <2>2, <2>3, GoKeeps
<1>5. CASE Stops BY <1>1, <1>5, StopKeeps, KeepsSelf DEF DeployInv
<1>6. QED BY <1>3, <1>4, <1>5 DEF LookAtPool

-----------------------------------------------------------------------------
LEMMA BackfillKeeps == ASSUME DeployInv, Backfill PROVE DeployInv'
<1>1. todo # <<>> /\ Head(todo).op = "backfill" /\ UNCHANGED chain
  BY DEF Backfill, Now, Idle
<1>2. MemOK(mem, chain) BY DEF DeployInv
<1> DEFINE ps == Backfilled(mem.book.pools)
           b == [mem.book EXCEPT !.pools = ps]
           m == [mem EXCEPT !.book.pools = Backfilled(@)]
<1>3. Goes(m) BY DEF Backfill
<1>4. m = [mem EXCEPT !.book = b] OBVIOUS
<1>5. DOMAIN ps = DOMAIN mem.book.pools
  BY DEF Backfilled
<1>6. ASSUME NEW s \in DOMAIN mem.book.pools, ps[s].position # NoPosition
      PROVE  /\ ps[s].position \in DOMAIN chain.positions
             /\ chain.positions[ps[s].position] = mem.book.tokens[s]
  <2>1. ps[s] = [mem.book.pools[s] EXCEPT !.known = TRUE] BY DEF Backfilled
  <2>2. ps[s].position = mem.book.pools[s].position BY <1>6, <2>1
  <2>3. QED BY <1>2, <1>6, <2>2 DEF MemOK, BookOK
<1> HIDE DEF ps, m
<1>7. /\ b = [tokens |-> b.tokens, pools |-> b.pools, bonds |-> b.bonds]
      /\ b.tokens = mem.book.tokens /\ b.pools = ps
  BY <1>2, ShapeOfMem
<1> HIDE DEF b
<1>8. /\ m = [book |-> m.book, infts |-> m.infts, unseen |-> m.unseen]
      /\ m.book = b /\ m.infts = mem.infts
  BY <1>2, <1>4, ShapeOfMem
<1>9. BookOK(b, chain) BY <1>2, <1>5, <1>6, <1>7 DEF BookOK, MemOK
<1>10. MemOK(m, chain) BY <1>2, <1>8, <1>9 DEF MemOK
<1>11. TodoOK(Tail(todo), m.book, chain) BY <1>1, <1>7, <1>8, TodoPlain, KeepsSelf
<1>12. QED BY <1>1, <1>3, <1>10, <1>11, GoKeeps

LEMMA BondKeeps == ASSUME DeployInv, DeployBondToken PROVE DeployInv'
<1>1. todo # <<>> /\ Head(todo).op = "bond" BY DEF DeployBondToken, Now, Idle
<1>2. ChainOK(chain) /\ MemOK(mem, chain) BY DEF DeployInv
<1> DEFINE bs == mem.book.bonds \cup {Of}
           b == [mem.book EXCEPT !.bonds = bs]
           m == [mem EXCEPT !.book.bonds = @ \cup {Of}]
<1>3. Transact(chain, m) BY DEF DeployBondToken
<1>4. m = [mem EXCEPT !.book = b] OBVIOUS
<1> HIDE DEF bs, m
<1>5. /\ b = [tokens |-> b.tokens, pools |-> b.pools, bonds |-> b.bonds]
      /\ b.tokens = mem.book.tokens /\ b.pools = mem.book.pools
  BY <1>2, ShapeOfMem
<1> HIDE DEF b
<1>6. /\ m = [book |-> m.book, infts |-> m.infts, unseen |-> m.unseen]
      /\ m.book = b /\ m.infts = mem.infts
  BY <1>2, <1>4, ShapeOfMem
<1>7. BookOK(b, chain) BY <1>2, <1>5 DEF BookOK, MemOK
<1>8. MemOK(m, chain) BY <1>2, <1>6, <1>7 DEF MemOK
<1>9. QED BY <1>1, <1>2, <1>3, <1>5, <1>6, <1>8, PlainKeeps, KeepsSelf

LEMMA InftKeeps == ASSUME DeployInv, MintInft PROVE DeployInv'
<1>1. todo # <<>> /\ Head(todo).op = "inft" BY DEF MintInft, Now, Idle
<1>2. ChainOK(chain) /\ MemOK(mem, chain) BY DEF DeployInv
<1> DEFINE minted == chain.infts \cup {Of}
           known == mem.infts \cup {Of}
           c == [chain EXCEPT !.infts = @ \cup {Of}]
           m == [mem EXCEPT !.infts = @ \cup {Of}]
<1>3. /\ mem.infts \subseteq chain.infts => known \subseteq minted
      /\ chain.infts \subseteq minted
  OBVIOUS
<1>4. /\ c = [chain EXCEPT !.infts = minted] /\ m = [mem EXCEPT !.infts = known]
      /\ Skip \/ Transact(c, m) \/ (chain' \in {chain, c} /\ Goes(mem))
  BY DEF MintInft
<1> HIDE DEF minted, known, c, m
<1>5. /\ c = [tokens |-> c.tokens, pools |-> c.pools, positions |-> c.positions,
              infts |-> c.infts, usdc |-> c.usdc, gas |-> c.gas, ether |-> c.ether]
      /\ c.tokens = chain.tokens /\ c.pools = chain.pools
      /\ c.positions = chain.positions /\ c.infts = minted
  BY <1>2, <1>4 DEF ChainOK
<1>6. /\ m = [book |-> m.book, infts |-> m.infts, unseen |-> m.unseen]
      /\ m.book = mem.book /\ m.infts = known
  BY <1>2, <1>4, ShapeOfMem
<1>7. \A t : Positioned(c, t) = Positioned(chain, t) BY <1>5 DEF Positioned
<1>8. ChainOK(c) BY <1>2, <1>5, <1>7 DEF ChainOK
<1>9. Len(chain.tokens) \in Nat BY <1>2 DEF ChainOK
<1>10. Keeps(chain, c) BY <1>3, <1>5, <1>9 DEF Keeps, HasShare
<1>11. MemOK(mem, c) BY <1>2, <1>8, <1>10, MemStays
<1>12. MemOK(m, c) BY <1>2, <1>3, <1>5, <1>6, <1>11 DEF MemOK
<1>13. CASE Skip BY <1>1, <1>13, SkipKeeps
<1>14. CASE Transact(c, m) BY <1>1, <1>6, <1>8, <1>10, <1>12, <1>14, PlainKeeps
<1>15. CASE chain' \in {chain, c} /\ Goes(mem)
  <2>1. /\ ChainOK(chain') /\ MemOK(mem, chain') /\ Keeps(chain, chain')
    BY <1>2, <1>8, <1>10, <1>11, <1>15, KeepsSelf
  <2>2. TodoOK(Tail(todo), mem.book, chain') BY <1>1, <2>1, TodoPlain
  <2>3. DiskOK(disk, chain') BY <1>2, <2>1, DiskStays DEF DeployInv
  <2>4. QED BY <1>15, <2>1, <2>2, <2>3 DEF DeployInv, Goes
<1>16. QED BY <1>4, <1>13, <1>14, <1>15

(* When the book is written, no grant of phase 3 is awaited any more.        *)
LEMMA WriteKeeps == ASSUME DeployInv, WriteBook PROVE DeployInv'
<1> DEFINE m == [mem EXCEPT !.unseen = NoToken]
<1>1. /\ todo # <<>> /\ Head(todo).op \in {"write", "writeInfts"} /\ UNCHANGED chain
      /\ todo' = Tail(todo) /\ mem' = m
  BY DEF WriteBook, Now, Idle
<1>2. /\ ChainOK(chain) /\ MemOK(mem, chain) /\ DiskOK(disk, chain)
      /\ TodoOK(todo, mem.book, chain) /\ todo \in Seq(Steps)
  BY DEF DeployInv, TodoOK
<1>3. /\ m = [book |-> m.book, infts |-> m.infts, unseen |-> m.unseen]
      /\ m.book = mem.book /\ m.infts = mem.infts
  BY <1>2, ShapeOfMem
<1> HIDE DEF m
<1>4. MemOK(m, chain) BY <1>2, <1>3 DEF MemOK
<1>5. TodoOK(Tail(todo), m.book, chain) BY <1>1, <1>3, TodoPlain, KeepsSelf
<1>6. CASE Head(todo).op = "write"
  <2>1. disk' = [disk EXCEPT !.book = mem.book] BY <1>6 DEF WriteBook, Now
  <2>2. /\ disk' = [book |-> disk'.book, infts |-> disk'.infts]
        /\ disk'.book = mem.book /\ disk'.infts = disk.infts
    BY <1>2, <2>1 DEF DiskOK
  <2>3. ASSUME NEW s \in ToSet(Phase3), mem.book.tokens[s] # NoToken
        PROVE  HasShare(chain, mem.book.tokens[s])
    <3>1. HasShare(chain, mem.book.tokens[s]) \/ Awaits(todo, 0, s) BY <1>2, <2>3 DEF TodoOK
    <3>2. Head(todo) # Step("grant", s) BY <1>6 DEF Step
    <3>3. Awaits(todo, 0, s) => Head(todo).op # "write" BY <1>1, <1>2, <3>2, AwaitsOn
    <3>4. QED BY <1>6, <3>1, <3>3
  <2>4. DiskOK(disk', chain) BY <1>2, <2>2, <2>3 DEF DiskOK, MemOK
  <2>5. QED BY <1>1, <1>2, <1>4, <1>5, <2>4 DEF DeployInv
<1>7. CASE Head(todo).op = "writeInfts"
  <2>1. disk' = [disk EXCEPT !.infts = mem.infts] BY <1>7 DEF WriteBook, Now
  <2>2. /\ disk' = [book |-> disk'.book, infts |-> disk'.infts]
        /\ disk'.book = disk.book /\ disk'.infts = mem.infts
    BY <1>2, <2>1 DEF DiskOK
  <2>3. DiskOK(disk', chain) BY <1>2, <2>2 DEF DiskOK, MemOK
  <2>4. QED BY <1>1, <1>2, <1>4, <1>5, <2>3 DEF DeployInv
<1>8. QED BY <1>1, <1>6, <1>7

-----------------------------------------------------------------------------
(* What a script is begun with.                                              *)
PlanOK(td) ==
  /\ td \in Seq(Steps)
  /\ \A i \in DOMAIN td :
       /\ td[i].op = "create" => td[i].of \in States
       /\ td[i].op = "token" => td[i].of \notin ToSet(Phase3)

LEMMA Orders ==
  /\ Phase3 \in Seq(States) /\ Phase4 \in Seq(States)
  /\ Order \in Seq(States)
  /\ \A i \in DOMAIN Phase4 : Phase4[i] \notin ToSet(Phase3)
  /\ \A i \in DOMAIN Phase3 : Phase3[i] \in ToSet(Phase3)
<1>1. Phase3 \in Seq(States) /\ Phase4 \in Seq(States) BY DeploymentAssumption
<1>2. Order \in Seq(States) BY <1>1 DEF Order
<1>3. \A i \in DOMAIN Phase4 : Phase4[i] \in ToSet(Phase4) BY DEF ToSet
<1>4. \A i \in DOMAIN Phase3 : Phase3[i] \in ToSet(Phase3) BY DEF ToSet
<1>5. QED BY <1>1, <1>2, <1>3, <1>4, DeploymentAssumption

LEMMA PlanOnce ==
  ASSUME NEW op \in Ops \ {"create", "token"}, NEW x \in Bonds \cup {"all"} \cup Nat
  PROVE  PlanOK(<<Step(op, x)>>)
<1>1. Step(op, x) \in Steps /\ Step(op, x).op = op BY DEF Step, Steps
<1>2. QED BY <1>1 DEF PlanOK

LEMMA EachOf ==
  ASSUME NEW op \in Ops, NEW order \in Seq(States)
  PROVE  /\ Each(op, order) \in Seq(Steps) /\ Len(Each(op, order)) = Len(order)
         /\ Len(order) \in Nat /\ DOMAIN order = 1..Len(order)
         /\ DOMAIN Each(op, order) = 1..Len(order)
         /\ \A i \in 1..Len(order) :
              Each(op, order)[i] = Step(op, order[i]) /\ order[i] \in States
<1>1. DOMAIN order = 1..Len(order) /\ Len(order) \in Nat OBVIOUS
<1>2. \A i \in 1..Len(order) : order[i] \in States BY <1>1, ElementOf
<1>3. \A x \in States : Step(op, x) \in Steps BY DEF Step, Steps
<1> DEFINE e == Each(op, order)
<1>4. /\ DOMAIN e = 1..Len(order) /\ \A i \in 1..Len(order) : e[i] = Step(op, order[i])
      /\ e \in [1..Len(order) -> Steps]
  BY <1>1, <1>2, <1>3 DEF Each
<1> HIDE DEF e
<1>5. e \in Seq(Steps) /\ Len(e) = Len(order) BY <1>1, <1>4, SequenceOf
<1>6. QED BY <1>1, <1>2, <1>4, <1>5 DEF e

LEMMA PlanEach ==
  ASSUME NEW op \in Ops, NEW order \in Seq(States),
         op = "token" => \A i \in DOMAIN order : order[i] \notin ToSet(Phase3)
  PROVE  PlanOK(Each(op, order))
<1>1. \A x : Step(op, x).op = op /\ Step(op, x).of = x BY DEF Step
<1>2. QED BY <1>1, EachOf DEF PlanOK

LEMMA PlanInTurn ==
  ASSUME NEW op1 \in Ops \ {"token"}, NEW op2 \in Ops \ {"token"}, NEW op3 \in Ops \ {"token"},
         NEW order \in Seq(States)
  PROVE  PlanOK(EachInTurn(op1, op2, op3, order))
<1> DEFINE n == 3 * Len(order)
           e == EachInTurn(op1, op2, op3, order)
<1>1. DOMAIN order = 1..Len(order) /\ Len(order) \in Nat OBVIOUS
<1>2. ASSUME NEW i \in 1..n
      PROVE  e[i] \in Steps /\ e[i].of \in States /\ e[i].op # "token"
  <2> DEFINE a == 1 + ((i - 1) % 3)
             b == 1 + ((i - 1) \div 3)
             o == <<op1, op2, op3>>[a]
             s == order[b]
  <2>1. i \in Nat /\ 1 <= i /\ i <= 3 * Len(order) BY <1>1
  <2>2. a \in {1, 2, 3} BY <2>1
  <2>3. b \in 1..Len(order) BY <1>1, <2>1
  <2>4. o \in Ops \ {"token"} BY <2>2
  <2>5. s \in States BY <1>1, <2>3, ElementOf
  <2>6. e[i] = Step(o, s) BY DEF EachInTurn
  <2> HIDE DEF e, o, s
  <2>7. QED BY <2>4, <2>5, <2>6 DEF Step, Steps
<1>3. DOMAIN e = 1..n /\ n \in Nat BY <1>1 DEF EachInTurn
<1>4. e \in [1..n -> Steps]
  <2>1. e = [i \in 1..n |-> e[i]] BY DEF EachInTurn
  <2> HIDE DEF e, n
  <2>2. QED BY <1>2, <2>1
<1> HIDE DEF e, n
<1>5. e \in Seq(Steps) BY <1>3, <1>4, SequenceOf
<1>6. QED BY <1>2, <1>3, <1>5 DEF PlanOK, e

LEMMA PlanOn ==
  ASSUME NEW p, NEW q, PlanOK(p), PlanOK(q) PROVE PlanOK(p \o q)
<1>1. /\ p \in Seq(Steps) /\ q \in Seq(Steps) /\ p \o q \in Seq(Steps)
      /\ DOMAIN p = 1..Len(p) /\ DOMAIN q = 1..Len(q) /\ Len(p) \in Nat /\ Len(q) \in Nat
      /\ DOMAIN (p \o q) = 1..(Len(p) + Len(q))
  BY DEF PlanOK
<1>2. ASSUME NEW i \in DOMAIN (p \o q)
      PROVE  \/ i \in DOMAIN p /\ (p \o q)[i] = p[i]
             \/ i - Len(p) \in DOMAIN q /\ (p \o q)[i] = q[i - Len(p)]
  BY <1>1
<1>3. QED BY <1>1, <1>2 DEF PlanOK

LEMMA BeginKeeps ==
  ASSUME DeployInv, NEW steps, NEW copy, Begin(steps, copy), BookOK(copy, chain),
         PlanOK(steps), copy.tokens = disk.book.tokens
  PROVE  DeployInv'
<1>1. /\ todo' = steps /\ mem' = Copy(disk, copy) /\ chain' = chain /\ disk' = disk
      /\ mem'.book = copy
  BY DEF Begin, Copy
<1>2. MemOK(mem', chain) BY <1>1 DEF MemOK, Copy, DeployInv, DiskOK
<1>3. TodoOK(steps, copy, chain)
  <2>1. \A i \in DOMAIN steps : ~(steps[i].op = "token" /\ steps[i].of \in ToSet(Phase3))
    BY DEF PlanOK
  <2>2. \A s \in ToSet(Phase3) :
          copy.tokens[s] # NoToken => HasShare(chain, copy.tokens[s])
    BY DEF DeployInv, DiskOK
  <2>3. /\ steps \in Seq(Steps)
        /\ \A i \in DOMAIN steps : steps[i].op = "create" => steps[i].of \in States
    BY DEF PlanOK
  <2>4. QED BY <2>1, <2>2, <2>3 DEF TodoOK
<1>4. QED BY <1>1, <1>2, <1>3 DEF DeployInv

LEMMA JoinOf ==
  ASSUME NEW p, NEW q, p \in Seq(Steps), q \in Seq(Steps)
  PROVE  /\ p \o q \in Seq(Steps) /\ Len(p \o q) = Len(p) + Len(q)
         /\ \A i \in 1..Len(p) : (p \o q)[i] = p[i]
         /\ \A i \in 1..Len(q) : (p \o q)[Len(p) + i] = q[i]
  OBVIOUS

(* deploy-contracts.ts grants every token that it mints, and then writes.    *)
LEMMA DeployContractsKeeps ==
  ASSUME DeployInv, DeployContracts PROVE DeployInv'
<1> DEFINE n == Len(Phase3)
           u == Once("usdc")
           t == Each("token", Phase3)
           l == <<Step("lpUsdc", n)>>
           g == Each("grant", Phase3)
           w == Once("write")
           td == u \o t \o l \o g \o w
<1>1. /\ todo' = td /\ mem' = Copy(disk, NoBook) /\ chain' = chain /\ disk' = disk
      /\ mem'.book = NoBook
  BY DEF DeployContracts, Begin, Copy
<1>2. /\ NoBook.tokens = [s \in States |-> NoToken] /\ NoBook.pools = <<>>
      /\ NoBook = [tokens |-> NoBook.tokens, pools |-> NoBook.pools,
                       bonds |-> NoBook.bonds]
  BY DEF NoBook
<1>3. BookOK(NoBook, chain)
  <2>1. 0 \in 0..Len(chain.tokens) BY DEF DeployInv, ChainOK
  <2>2. NoBook.tokens \in [States -> 0..Len(chain.tokens)] BY <1>2, <2>1 DEF NoToken
  <2>3. QED BY <1>2, <2>2 DEF BookOK
<1>4. MemOK(mem', chain) BY <1>1, <1>3 DEF MemOK, Copy, DeployInv, DiskOK
<1>5. /\ Phase3 \in Seq(States) /\ n \in Nat /\ n >= 0
      /\ \A i \in 1..n : Phase3[i] \in ToSet(Phase3)
  BY Orders
<1>6. /\ t \in Seq(Steps) /\ Len(t) = n /\ \A i \in 1..n : t[i] = Step("token", Phase3[i])
      /\ g \in Seq(Steps) /\ Len(g) = n /\ \A i \in 1..n : g[i] = Step("grant", Phase3[i])
  <2>1. "token" \in Ops /\ "grant" \in Ops BY DEF Ops
  <2>2. QED BY <1>5, <2>1, EachOf
<1>7. /\ u \in Seq(Steps) /\ Len(u) = 1 /\ u[1] = Step("usdc", "all")
      /\ l \in Seq(Steps) /\ Len(l) = 1 /\ l[1] = Step("lpUsdc", n)
      /\ w \in Seq(Steps) /\ Len(w) = 1 /\ w[1] = Step("write", "all")
  <2>1. n \in Nat BY <1>5
  <2> HIDE DEF n
  <2>2. QED BY <2>1 DEF Once, Step, Steps, Ops
<1>8. \A op, x : Step(op, x).op = op /\ Step(op, x).of = x BY DEF Step
<1> HIDE DEF n, u, t, l, g, w, td
<1> DEFINE a == u \o t
           b == a \o l
           c == b \o g
<1>9. /\ a \in Seq(Steps) /\ Len(a) = 1 + n
      /\ \A i \in 1..1 : a[i] = u[i]
      /\ \A i \in 1..n : a[1 + i] = t[i]
  <2>1. u \in Seq(Steps) /\ t \in Seq(Steps) BY <1>6, <1>7
  <2>2. /\ u \o t \in Seq(Steps) /\ Len(u \o t) = Len(u) + Len(t)
        /\ \A i \in 1..Len(u) : (u \o t)[i] = u[i]
        /\ \A i \in 1..Len(t) : (u \o t)[Len(u) + i] = t[i]
    BY <2>1, JoinOf
  <2>3. QED BY <1>6, <1>7, <2>2
<1> HIDE DEF a
<1>10. /\ b \in Seq(Steps) /\ Len(b) = (1 + n) + 1
       /\ \A i \in 1..(1 + n) : b[i] = a[i]
       /\ \A i \in 1..1 : b[(1 + n) + i] = l[i]
  <2>1. a \in Seq(Steps) /\ l \in Seq(Steps) BY <1>7, <1>9
  <2>2. /\ a \o l \in Seq(Steps) /\ Len(a \o l) = Len(a) + Len(l)
        /\ \A i \in 1..Len(a) : (a \o l)[i] = a[i]
        /\ \A i \in 1..Len(l) : (a \o l)[Len(a) + i] = l[i]
    BY <2>1, JoinOf
  <2>3. QED BY <1>7, <1>9, <2>2
<1> HIDE DEF b
<1>11. /\ c \in Seq(Steps) /\ Len(c) = ((1 + n) + 1) + n
       /\ \A i \in 1..((1 + n) + 1) : c[i] = b[i]
       /\ \A i \in 1..n : c[((1 + n) + 1) + i] = g[i]
  <2>1. b \in Seq(Steps) /\ g \in Seq(Steps) BY <1>6, <1>10
  <2>2. /\ b \o g \in Seq(Steps) /\ Len(b \o g) = Len(b) + Len(g)
        /\ \A i \in 1..Len(b) : (b \o g)[i] = b[i]
        /\ \A i \in 1..Len(g) : (b \o g)[Len(b) + i] = g[i]
    BY <2>1, JoinOf
  <2>3. QED BY <1>6, <1>10, <2>2
<1> HIDE DEF c
<1>a. td = c \o w BY DEF a, b, c, td
<1>12. /\ td \in Seq(Steps) /\ Len(td) = (((1 + n) + 1) + n) + 1
       /\ \A i \in 1..(((1 + n) + 1) + n) : td[i] = c[i]
       /\ \A i \in 1..1 : td[(((1 + n) + 1) + n) + i] = w[i]
  <2>1. c \in Seq(Steps) /\ w \in Seq(Steps) BY <1>7, <1>11
  <2>2. /\ c \o w \in Seq(Steps) /\ Len(c \o w) = Len(c) + Len(w)
        /\ \A i \in 1..Len(c) : (c \o w)[i] = c[i]
        /\ \A i \in 1..Len(w) : (c \o w)[Len(c) + i] = w[i]
    BY <2>1, JoinOf
  <2>3. QED BY <1>7, <1>11, <2>2, <1>a
<1>b. (1 + n) + 1 = n + 2 /\ ((1 + n) + 1) + n = (n + 2) + n BY <1>5
<1>13. /\ td[1].op = "usdc" /\ td[n + 2].op = "lpUsdc"
       /\ \A i \in 1..n : td[1 + i] = Step("token", Phase3[i])
       /\ \A i \in 1..n : td[(n + 2) + i] = Step("grant", Phase3[i])
       /\ td[((n + 2) + n) + 1].op = "write"
  <2>1. td[1].op = "usdc"
    <3>1. 1 \in 1..(1 + n) /\ 1 \in 1..(n + 2) /\ 1 \in 1..((n + 2) + n) BY <1>5
    <3>2. QED BY <1>7, <1>8, <1>9, <1>10, <1>b, <1>11, <1>12, <3>1
  <2>2. td[n + 2].op = "lpUsdc"
    <3>1. n + 2 \in 1..(n + 2) /\ n + 2 \in 1..((n + 2) + n) BY <1>5
    <3>2. QED BY <1>7, <1>8, <1>10, <1>b, <1>11, <1>12, <3>1
  <2>3. ASSUME NEW i \in 1..n
        PROVE  /\ td[1 + i] = Step("token", Phase3[i])
               /\ td[(n + 2) + i] = Step("grant", Phase3[i])
    <3>1. /\ 1 + i \in 1..(1 + n) /\ 1 + i \in 1..(n + 2) /\ 1 + i \in 1..((n + 2) + n)
          /\ (n + 2) + i \in 1..((n + 2) + n)
      BY <1>5
    <3>2. td[1 + i] = c[1 + i] /\ c[1 + i] = b[1 + i] /\ b[1 + i] = a[1 + i] /\ a[1 + i] = t[i]
      BY <1>9, <1>10, <1>b, <1>11, <1>12, <3>1
    <3>3. td[(n + 2) + i] = c[(n + 2) + i] /\ c[(n + 2) + i] = g[i]
      BY <1>b, <1>11, <1>12, <3>1
    <3>4. QED BY <1>6, <3>2, <3>3
  <2>4. td[((n + 2) + n) + 1].op = "write" BY <1>5, <1>7, <1>8, <1>12, <1>b
  <2>5. QED BY <2>1, <2>2, <2>3, <2>4
<1>14. ASSUME NEW i \in DOMAIN td
       PROVE  \/ i = 1 \/ i = n + 2 \/ i = ((n + 2) + n) + 1
              \/ \E j \in 1..n : i = 1 + j
              \/ \E j \in 1..n : i = (n + 2) + j
  <2>1. i \in 1..(((n + 2) + n) + 1) BY <1>12, <1>b
  <2>2. CASE 1 < i /\ i < n + 2
    <3>1. i - 1 \in 1..n /\ i = 1 + (i - 1) BY <1>5, <2>1, <2>2
    <3>2. QED BY <3>1
  <2>3. CASE n + 2 < i /\ i < ((n + 2) + n) + 1
    <3>1. i - (n + 2) \in 1..n /\ i = (n + 2) + (i - (n + 2)) BY <1>5, <2>1, <2>3
    <3>2. QED BY <3>1
  <2>4. QED BY <1>5, <2>1, <2>2, <2>3
<1>15. \A i \in DOMAIN td : td[i].op # "create" BY <1>8, <1>13, <1>14
<1>16. ASSUME NEW i \in DOMAIN td, td[i].op = "token"
       PROVE  Awaits(td, i, td[i].of)
  <2>1. PICK j \in 1..n : i = 1 + j BY <1>8, <1>13, <1>14, <1>16
  <2> DEFINE k == (n + 2) + j
  <2>2. k \in DOMAIN td /\ k > i BY <1>5, <1>12, <1>b, <2>1
  <2>3. td[k] = Step("grant", td[i].of) BY <1>8, <1>13, <2>1
  <2>4. ASSUME NEW m \in 1..k PROVE td[m].op # "write"
    <3>1. m \in DOMAIN td /\ m # ((n + 2) + n) + 1 BY <1>5, <1>12, <1>b, <2>1
    <3>2. QED BY <1>8, <1>13, <1>14, <3>1
  <2>5. QED BY <2>2, <2>3, <2>4 DEF Awaits
<1>17. TodoOK(td, NoBook, chain)
  <2>1. \A s \in ToSet(Phase3) : NoBook.tokens[s] = NoToken BY <1>2 DEF States
  <2>2. QED BY <1>12, <1>15, <1>16, <2>1 DEF TodoOK
<1>18. QED BY <1>1, <1>4, <1>17 DEF DeployInv

LEMMA BeginsKeep == ASSUME DeployInv, Begins PROVE DeployInv'
<1> USE Orders
<1>1. CASE DeployContracts BY <1>1, DeployContractsKeeps
<1>2. BookOK(disk.book, chain) BY DEF DeployInv, DiskOK
<1>3. /\ "all" \in Bonds \cup {"all"} \cup Nat /\ Len(Phase4) \in Nat
      /\ {"write", "backfill", "lpUsdc", "writeInfts", "bond"} \subseteq Ops \ {"create", "token"}
      /\ {"create", "look", "seed", "mint", "write"} \subseteq Ops \ {"token"}
      /\ {"retry", "token", "grant", "gas", "topUp", "inft"} \subseteq Ops
  BY DEF Ops
<1>4. /\ PlanOK(Once("write")) /\ PlanOK(Once("backfill"))
      /\ PlanOK(Once("writeInfts")) /\ PlanOK(<<Step("lpUsdc", Len(Phase4))>>)
  BY <1>3, PlanOnce DEF Once
<1>5. CASE SeedPools
  <2> DEFINE none == <<>>
             b == [disk.book EXCEPT !.pools = none]
  <2>1. PlanOK(EachInTurn("create", "look", "seed", Order)) BY <1>3, PlanInTurn
  <2>2. PlanOK(EachInTurn("create", "look", "seed", Order) \o Once("write"))
    BY <1>4, <2>1, PlanOn
  <2>3. /\ b = [tokens |-> b.tokens, pools |-> b.pools, bonds |-> b.bonds]
        /\ b.tokens = disk.book.tokens /\ b.pools = <<>>
    <3>1. disk.book = [tokens |-> disk.book.tokens, pools |-> disk.book.pools,
                       bonds |-> disk.book.bonds]
      BY <1>2 DEF BookOK
    <3> HIDE DEF none
    <3>2. /\ b = [tokens |-> b.tokens, pools |-> b.pools, bonds |-> b.bonds]
          /\ b.tokens = disk.book.tokens /\ b.pools = none
      BY <3>1
    <3>3. QED BY <3>2 DEF none
  <2>4. Begin(EachInTurn("create", "look", "seed", Order) \o Once("write"), b)
    BY <1>5 DEF SeedPools
  <2> HIDE DEF b
  <2>5. BookOK(b, chain) BY <1>2, <2>3 DEF BookOK
  <2>6. QED BY <2>2, <2>3, <2>4, <2>5, BeginKeeps
<1>6. CASE RetrySeeds
  <2>1. PlanOK(Each("retry", Order)) BY <1>3, PlanEach
  <2>2. PlanOK(Each("retry", Order) \o Once("backfill") \o Once("write"))
    BY <1>4, <2>1, PlanOn
  <2>3. QED BY <1>2, <1>6, <2>2, BeginKeeps DEF RetrySeeds
<1>7. CASE DeployPhase4
  <2>1. /\ PlanOK(Each("token", Phase4)) /\ PlanOK(Each("grant", Phase4))
        /\ PlanOK(Each("gas", Phase4))
    BY <1>3, PlanEach
  <2> DEFINE p == Each("token", Phase4) \o Once("write")
             q == p \o Each("grant", Phase4)
             r == q \o <<Step("lpUsdc", Len(Phase4))>>
             t == r \o Each("gas", Phase4)
  <2>2. PlanOK(p) BY <1>4, <2>1, PlanOn
  <2> HIDE DEF p
  <2>3. PlanOK(q) BY <2>1, <2>2, PlanOn
  <2> HIDE DEF q
  <2>4. PlanOK(r) BY <1>4, <2>3, PlanOn
  <2> HIDE DEF r
  <2>5. PlanOK(t) BY <2>1, <2>4, PlanOn
  <2> HIDE DEF t
  <2>6. PlanOK(t \o Once("write")) BY <1>4, <2>5, PlanOn
  <2>7. Begin(t \o Once("write"), disk.book) BY <1>7 DEF DeployPhase4, t, r, q, p
  <2>8. QED BY <1>2, <2>6, <2>7, BeginKeeps
<1>8. CASE SeedPhase4
  <2>1. PlanOK(EachInTurn("create", "mint", "write", Phase4)) BY <1>3, PlanInTurn
  <2>2. QED BY <1>2, <1>8, <2>1, BeginKeeps DEF SeedPhase4
<1>9. CASE FundAgents
  <2>1. PlanOK(Each("topUp", Order)) BY <1>3, PlanEach
  <2>2. QED BY <1>2, <1>9, <2>1, BeginKeeps DEF FundAgents
<1>10. CASE MintInfts
  <2>1. PlanOK(Each("inft", Order)) BY <1>3, PlanEach
  <2>2. PlanOK(Each("inft", Order) \o Once("writeInfts")) BY <1>4, <2>1, PlanOn
  <2>3. QED BY <1>2, <1>10, <2>2, BeginKeeps DEF MintInfts
<1>11. ASSUME NEW x \in Bonds, DeployBond(x) PROVE DeployInv'
  <2>1. PlanOK(<<Step("bond", x)>>) BY <1>3, PlanOnce
  <2>2. PlanOK(<<Step("bond", x)>> \o Once("write")) BY <1>4, <2>1, PlanOn
  <2>3. QED BY <1>2, <1>11, <2>2, BeginKeeps DEF DeployBond
<1>12. QED BY <1>1, <1>5, <1>6, <1>7, <1>8, <1>9, <1>10, <1>11 DEF Begins

LEMMA DeployInitKeeps == DeployInit => DeployInv
<1> SUFFICES ASSUME DeployInit PROVE DeployInv OBVIOUS
<1>1. /\ chain = [tokens |-> <<>>, pools |-> {}, positions |-> <<>>, infts |-> {},
                  usdc |-> 0, gas |-> [s \in States |-> 0], ether |-> Ether]
      /\ disk = [book |-> NoBook, infts |-> {}]
      /\ mem = Copy(disk, NoBook) /\ todo = <<>>
  BY DEF DeployInit
<1>2. /\ chain.tokens = <<>> /\ chain.pools = {} /\ chain.positions = <<>> /\ chain.infts = {}
      /\ disk.book = NoBook /\ disk.infts = {}
  BY <1>1
<1>3. ChainOK(chain)
  <2>1. chain = [tokens |-> chain.tokens, pools |-> chain.pools, positions |-> chain.positions,
                 infts |-> chain.infts, usdc |-> chain.usdc, gas |-> chain.gas,
                 ether |-> chain.ether]
    BY <1>1
  <2>2. QED BY <1>2, <2>1 DEF ChainOK
<1>4. /\ NoBook.tokens = [s \in States |-> NoToken] /\ NoBook.pools = <<>>
      /\ NoBook = [tokens |-> NoBook.tokens, pools |-> NoBook.pools,
                       bonds |-> NoBook.bonds]
  BY DEF NoBook
<1>5. BookOK(NoBook, chain) BY <1>2, <1>4 DEF BookOK, NoToken
<1>6. DiskOK(disk, chain)
  <2>1. \A s \in ToSet(Phase3) : NoBook.tokens[s] = NoToken BY <1>4 DEF States
  <2>2. QED BY <1>1, <1>2, <1>5, <2>1 DEF DiskOK
<1>7. mem = Copy(disk, disk.book) /\ mem.book = disk.book BY <1>1, <1>2 DEF Copy
<1>8. QED BY <1>1, <1>3, <1>6, <1>7, NothingAwaited DEF DeployInv

LEMMA DeployNextKeeps == DeployInv /\ [DeployNext]_deployVars => DeployInv'
<1> SUFFICES ASSUME DeployInv, [DeployNext]_deployVars PROVE DeployInv' OBVIOUS
<1>1. CASE UNCHANGED deployVars BY <1>1 DEF deployVars, DeployInv
<1>2. CASE Begins BY <1>2, BeginsKeep
<1>3. CASE Runs
  BY <1>3, MoneyKeeps, TokenKeeps, GrantKeeps, CreateKeeps, LookKeeps, MintKeeps,
     BackfillKeeps, BondKeeps, InftKeeps, WriteKeeps DEF Runs
<1>4. QED BY <1>1, <1>2, <1>3 DEF DeployNext

(* What the book names exists: a position it names was minted, with the      *)
(* token it names for that state (deploy-contracts.ts, seed-pools.ts and the *)
(* others), wherever the scripts were stopped.                               *)
THEOREM BookNamesWhatIs == DeploySpec => []RecordedIsReal
<1>1. DeployInv => RecordedIsReal
  BY DEF DeployInv, DiskOK, BookOK, RecordedIsReal
<1>2. QED BY <1>1, DeployInitKeeps, DeployNextKeeps, PTL DEF DeploySpec

(* Nothing is spent twice (deploy-phase4-onchain.ts, seed-phase4-pools.ts):  *)
(* what was minted is the agent's share and one position.                    *)
THEOREM NothingSpentTwice == DeploySpec => []SpentOnce
<1>1. DeployInv => SpentOnce
  <2> SUFFICES ASSUME DeployInv PROVE SpentOnce OBVIOUS
  <2>1. /\ chain.tokens \in Seq([deployer : Nat, agent : {0, ToAgent}])
        /\ DOMAIN chain.tokens = 1..Len(chain.tokens)
        /\ ToAgent \in Nat /\ ToAgent > 1
    BY DeploymentAssumption DEF DeployInv, ChainOK
  <2>2. ASSUME NEW t \in DOMAIN chain.tokens
        PROVE  /\ chain.tokens[t].agent <= ToAgent
               /\ chain.tokens[t].agent = ToAgent => Cardinality(PositionsOf(t)) <= 1
    <3> DEFINE x == chain.tokens[t].deployer
               y == chain.tokens[t].agent
               n == Cardinality(PositionsOf(t))
               S == [deployer : Nat, agent : {0, ToAgent}]
    <3>1. chain.tokens \in Seq(S) BY <2>1
    <3>2. chain.tokens[t] \in S
      <4> HIDE DEF S
      <4>1. QED BY <3>1, ElementOf
    <3>3. x \in Nat /\ y \in {0, ToAgent} BY <3>2
    <3>4. PositionsOf(t) = Positioned(chain, t) BY DEF PositionsOf, Positioned
    <3>5. IsFiniteSet(PositionsOf(t)) /\ x + y + n = ToAgent + 1
      BY <2>1, <3>4 DEF DeployInv, ChainOK, Supply
    <3>6. n \in Nat BY <3>5, FS_CardinalityType
    <3> HIDE DEF x, y, n, S
    <3>7. y <= ToAgent /\ (y = ToAgent => n <= 1) BY <2>1, <3>3, <3>5, <3>6
    <3>8. QED BY <3>7 DEF y, n
  <2>3. ASSUME NEW s \in ToSet(Phase3), disk.book.tokens[s] # NoToken
        PROVE  chain.tokens[disk.book.tokens[s]].agent = ToAgent
    BY <2>3 DEF DeployInv, DiskOK, HasShare
  <2>4. QED BY <2>2, <2>3 DEF SpentOnce
<1>2. QED BY <1>1, DeployInitKeeps, DeployNextKeeps, PTL DEF DeploySpec

=============================================================================
