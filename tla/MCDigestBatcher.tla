--------------------------- MODULE MCDigestBatcher ---------------------------
(* Instance of DigestBatcher for TLC.  MaxBatch is 2, so both kinds of flush *)
(* happen, and five alerts fill two batches and start a third.               *)
EXTENDS DigestBatcher

=============================================================================
