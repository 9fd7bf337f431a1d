------------------------- MODULE MCOgStorageMemory -------------------------
(* A memory whose state and log are small enough to crash at every await.    *)
EXTENDS OgStorageMemory, TLC

CONSTANTS absent, torn

=============================================================================
