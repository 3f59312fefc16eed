---------------------------- MODULE MCSequential ----------------------------
(* Instances of Sequential for TLC.  The cfg files choose the number of    *)
(* providers, which of them use QUIC, and what may fail.                   *)
EXTENDS Sequential
=============================================================================
