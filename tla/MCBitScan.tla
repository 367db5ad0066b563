----------------------------- MODULE MCBitScan -----------------------------
(* Instances of module BitScan for TLC. *)
EXTENDS BitScan
=============================================================================
