----------------------------- MODULE InftRecords -----------------------------
(***************************************************************************)
(* What is written down about an agent's iNFT, beside the chain: the entry *)
(* of contracts/deployments/0g-galileo.json, the transcript of the         *)
(* transfer ceremony, the manifest of build-inft-manifest.ts, and the      *)
(* status that a running agent reports of its token.                       *)
(*                                                                         *)
(* Each is a copy taken at another time: the scripts read the token one    *)
(* call after the other, while the agent of OgAnchor goes on.              *)
(***************************************************************************)
EXTENDS OgAnchor

CONSTANTS
  SignerOverride,  \* the account of OG_ANCHOR_SIGNER_PK, or "none"
  OwnKey           \* a private key of the agent's own is configured

SignerOf(override, ownKey) ==
  CASE override # "none" -> override
    [] ownKey -> "agent"
    [] OTHER -> "admin"

ASSUME SignerAssumption == Signer = SignerOf(SignerOverride, OwnKey)

VARIABLES
  book,        \* the entry of the token in 0g-galileo.json
  transcript,  \* of the transfer ceremony, in .data/inft-transfers
  manifest,    \* the token's entry in .data/inft-manifest.json
  audited,     \* the proof of decrypt-inft.ts, in .data/inft-proofs
  expected,    \* the owner in the book as the running agent read it at its start
  status,      \* state.ogStatus.inft, as a tick leaves it in state.json
  script       \* the script that is running, and what it has read

files == <<book, transcript, manifest, audited>>
reports == <<expected, status>>
copies == <<files, reports, script>>
allVars == <<vars, copies>>

(* The token as the chain has it, field by field.                            *)
OnChain == [owner |-> tokenOwner, uri |-> encryptedURI, hash |-> metadataHash,
            sealed |-> sealedKey]

NoRecord == [owner |-> "nobody", uri |-> 0, hash |-> 0, sealed |-> "nobody"]
NoScript == [at |-> "idle", key |-> "nobody", seen |-> NoRecord]
NoInft == [owner |-> "nobody", matches |-> FALSE]
Report == [owner |-> tokenOwner, matches |-> expected = tokenOwner]

(* mint-inft.ts wrote the entry when it minted the token; the agent has run  *)
(* before, and its first report was logged (a LogDecision).                  *)
InitRecords ==
  /\ Init
  /\ book = OnChain
  /\ transcript = NoRecord
  /\ manifest = NoRecord
  /\ audited = NoRecord
  /\ expected = tokenOwner
  /\ status = Report
  /\ script = NoScript

-----------------------------------------------------------------------------
(* The transfer ceremony files its transcript, then sync-inft-manifest.ts    *)
(* brings the book up to date.                                               *)

(* The URI is read once more.                                                *)
WriteTranscript ==
  /\ ceremony = "passed" /\ transcript = NoRecord
  /\ transcript' = [owner |-> "recipient", uri |-> encryptedURI, hash |-> fetched,
                    sealed |-> "recipient"]
  /\ UNCHANGED <<vars, book, manifest, audited, reports, script>>

(* The script dies here: the recipient's key was in its memory only.         *)
TranscriptLost ==
  /\ ceremony = "passed" /\ transcript = NoRecord
  /\ ceremony' = "failed"
  /\ UNCHANGED <<token, version, process, slots, pool, proof, fetched, faults, copies>>

(* As Sync, but only the owner is copied.                                    *)
SyncOwner ==
  /\ transcript # NoRecord /\ book.owner # transcript.owner
  /\ book' = [book EXCEPT !.owner = transcript.owner]
  /\ UNCHANGED <<vars, transcript, manifest, audited, reports, script>>

Sync ==
  /\ transcript # NoRecord /\ book.owner # transcript.owner
  /\ book' = transcript
  /\ UNCHANGED <<vars, transcript, manifest, audited, reports, script>>

-----------------------------------------------------------------------------
(* Scripts run by hand, one at a time; no code of the model reads what they  *)
(* write.                                                                    *)

(* Bound: once the transfer is sent, since before it the token and the book  *)
(* have one owner; and within the bound on faults.                           *)
Starts == script = NoScript /\ ceremony \notin {"none", "read"} /\ Faulty

(* build-inft-manifest.ts reads the book, then asks the chain for the owner. *)
BuildBegins ==
  /\ Starts
  /\ script' = [NoScript EXCEPT !.at = "asking", !.seen = book]
  /\ UNCHANGED <<token, version, process, slots, pool, transfer, files, reports>>

(* The node may not answer: then the owner of the book is taken.             *)
AskOwner ==
  /\ script.at = "asking"
  /\ \E owner \in {tokenOwner, script.seen.owner} :
       script' = [script EXCEPT !.at = "writing", !.seen.owner = owner]
  /\ UNCHANGED <<vars, files, reports>>

(* The URI and the hash are the book's.  The manifest has no sealed key; its *)
(* place here says of which book it was made.                                *)
WriteManifest ==
  /\ script.at = "writing"
  /\ manifest' = script.seen
  /\ script' = NoScript
  /\ UNCHANGED <<vars, book, transcript, audited, reports>>

(* The recipient's private key is found in the transcript only.              *)
KnownKeys ==
  {"agent"} \cup (IF transcript = NoRecord THEN {} ELSE {"recipient"})

(* decrypt-inft.ts calls the views one after the other: owner, URI, hash and *)
(* sealed key.                                                               *)
AuditBegins ==
  /\ Starts
  /\ \E key \in KnownKeys :
       script' = [at |-> "uri", key |-> key, seen |-> [NoRecord EXCEPT !.owner = tokenOwner]]
  /\ UNCHANGED <<token, version, process, slots, pool, transfer, files, reports>>

AuditUri ==
  /\ script.at = "uri"
  /\ script' = [script EXCEPT !.at = "hash", !.seen.uri = encryptedURI]
  /\ UNCHANGED <<vars, files, reports>>

AuditHash ==
  /\ script.at = "hash"
  /\ script' = [script EXCEPT !.at = "sealed", !.seen.hash = metadataHash]
  /\ UNCHANGED <<vars, files, reports>>

Unseals(key, sealed) == key = sealed

(* A proof is filed of what was read if the key unseals and the bundle of    *)
(* the URI has the hash; the key is noted beside it.                         *)
AuditEnds ==
  /\ script.at = "sealed"
  /\ audited' = IF Unseals(script.key, sealedKey) /\ script.seen.uri = script.seen.hash
                THEN [owner |-> script.seen.owner, uri |-> script.seen.uri,
                      hash |-> script.seen.hash, sealed |-> script.key]
                ELSE audited
  /\ script' = NoScript
  /\ UNCHANGED <<vars, book, transcript, manifest, reports>>

(* The node or 0G storage does not answer: nothing is filed.                 *)
AuditDies ==
  /\ script.at \in {"uri", "hash", "sealed"}
  /\ script' = NoScript
  /\ UNCHANGED <<vars, files, reports>>

-----------------------------------------------------------------------------
(* The running agent reports the owner of its token.                         *)

LoadOgDeployments == book

(* A start reads the book once, and the state as it was saved.               *)
RestartReads ==
  /\ Restart
  /\ expected' = LoadOgDeployments.owner
  /\ UNCHANGED <<files, status, script>>

(* Between the reads and the save of its tick a report can only be lost.     *)
RefreshStatus ==
  /\ status' = Report
  /\ UNCHANGED <<vars, files, expected, script>>

(* The balance is read and the token is not.                                 *)
InftReadFails ==
  /\ status' = NoInft
  /\ Faulty
  /\ UNCHANGED <<token, version, process, slots, pool, transfer, files, expected, script>>

-----------------------------------------------------------------------------

AgentOrChain ==
  /\ \/ Change \/ LogDecision \/ Tick
     \/ \E s \in Slots : Anchor(s)
     \/ Mining
     \/ Ceremony
  /\ UNCHANGED copies

Scripts ==
  \/ WriteTranscript \/ TranscriptLost \/ Sync
  \/ BuildBegins \/ AskOwner \/ WriteManifest
  \/ AuditBegins \/ AuditUri \/ AuditHash \/ AuditEnds \/ AuditDies

Status == RefreshStatus \/ InftReadFails

RecordsNext == AgentOrChain \/ RestartReads \/ Scripts \/ Status

RecordsSpec == InitRecords /\ [][RecordsNext]_allVars

RecordsFairness ==
  /\ Fairness
  /\ WF_allVars(RefreshStatus)

RecordsFairSpec == RecordsSpec /\ RecordsFairness

-----------------------------------------------------------------------------
Owners == {"agent", "recipient", "nobody"}
RecordType == [owner : Owners, uri : Versions, hash : Versions, sealed : Owners]
StatusType == [owner : Owners, matches : BOOLEAN]
ScriptType ==
  [at : {"idle", "asking", "writing", "uri", "hash", "sealed"}, key : Owners, seen : RecordType]

(* Every file and report keeps its type.                                     *)
RecordsTypeOK ==
  /\ {book, transcript, manifest, audited} \subseteq RecordType
  /\ expected \in Owners
  /\ status \in StatusType
  /\ script \in ScriptType

(* What is written down about the recipient agrees with the chain, though    *)
(* each file was read call by call and written at another time.  The         *)
(* transcript, a synced book and a manifest made of that book are the token, *)
(* field by field; a manifest made before the sync may name the recipient    *)
(* beside the bundle of the mint, but never a recipient that is none, nor    *)
(* the URI of one bundle with the hash of another; and a proof names as      *)
(* owner whoever's key opened the token, and for the recipient what it owns. *)
RecordsAgree ==
  /\ transcript # NoRecord => transcript = OnChain
  /\ book.owner = "recipient" => book = OnChain
  /\ manifest.uri = manifest.hash
  /\ manifest.owner = "recipient" => tokenOwner = "recipient"
  /\ manifest.sealed = "recipient" => manifest = OnChain
  /\ audited.owner = audited.sealed
  /\ audited.owner = "recipient" => audited = OnChain

(* Whatever fails on the way, in the end the token names the agent's last    *)
(* state, unless it was transferred, and the dashboard is shown the token's  *)
(* owner, and whether the book of the running agent agrees.                  *)
RecordsCatchUp ==
  <>[]( /\ tokenOwner = "recipient" \/ encryptedURI = version
        /\ status = Report)

=============================================================================
