------------------------------- MODULE INFT7857 -------------------------------
(***************************************************************************)
(* One token of the contract INFT7857, as a mined call of its functions    *)
(* leaves it.  A bundle stands for the blob its URI names as well as for   *)
(* the plaintext its hash commits to; the two agree when they are the same *)
(* bundle.  "admin" owns the contract, the other accounts may own tokens.  *)
(***************************************************************************)
VARIABLES
  tokenOwner,    \* _ownerOf(tokenId)
  encryptedURI,  \* the bundle whose blob the URI names
  metadataHash,  \* the bundle the hash commits to
  sealedKey      \* the account the symmetric key is sealed to

token == <<tokenOwner, encryptedURI, metadataHash, sealedKey>>

Accounts == {"agent", "recipient", "admin"}

Mint(to, bundle) ==
  /\ tokenOwner = to
  /\ encryptedURI = bundle
  /\ metadataHash = bundle
  /\ sealedKey = to

(* As MayUpdate, but the sender is not checked.                              *)
AnyoneUpdates(sender) == sender \in Accounts

MayUpdate(sender) == sender \in {tokenOwner, "admin"}

UpdateMetadata(sender, bundle) ==
  /\ MayUpdate(sender)
  /\ encryptedURI' = bundle
  /\ metadataHash' = bundle
  /\ UNCHANGED <<tokenOwner, sealedKey>>

(* The oracle takes the new hash from the proof; the URI stays.              *)
Transfer(sender, from, to, newHash) ==
  /\ tokenOwner = from /\ sender \in {from, "admin"}
  /\ sealedKey' = to
  /\ metadataHash' = newHash
  /\ tokenOwner' = to
  /\ UNCHANGED encryptedURI

=============================================================================
