--------------------------- MODULE MCBlobRetention ---------------------------
(* BlobRetention for TLC.                                                    *)
EXTENDS BlobRetention, TLC
==============================================================================
