------------------------------- MODULE MCSpsc -------------------------------
(* Instance of Spsc for TLC: a ring of two slots that can be full, enough  *)
(* pushes to go round it twice, and every idle backend.                    *)
EXTENDS Spsc

AllBackends == {"AmdMwaitx", "IntelUmwait", "SpinLoop"}

=============================================================================
