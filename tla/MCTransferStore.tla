--------------------------- MODULE MCTransferStore ---------------------------
(* TransferStore for TLC, over the bounds of its configuration.             *)
EXTENDS TransferStore
=============================================================================
