-------------------------- MODULE MCUploadOperation --------------------------
(* Two uploads for TLC: a plain batch, and one that changes a monitored month *)
(* and needs a confirmed exclusion, beside the unleased writers.              *)
EXTENDS UploadOperation
=============================================================================
