----------------------------- MODULE MCParallel -----------------------------
(* Instances of Parallel for TLC.  The cfg files choose which of the two   *)
(* providers use QUIC, and what may fail.                                  *)
EXTENDS Parallel
=============================================================================
