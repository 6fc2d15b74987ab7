------------------------- MODULE MCBootstrapHarness -------------------------
(* Instances of BootstrapHarness for TLC. *)
EXTENDS BootstrapHarness
=============================================================================
