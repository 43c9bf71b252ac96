---------------------------- MODULE MCUploadLease ----------------------------
(* Three calls of the lease for TLC, one of them a health probe. *)
EXTENDS UploadLease
=============================================================================
