---------------------------- MODULE MCLifecycle ----------------------------
(* Instances of Lifecycle for TLC. *)
EXTENDS Lifecycle, TLC

CONSTANTS gate, child

\* The two processes are told apart by Keeper, so there is no symmetry.
MCProcs == {gate, child}
SomeJobs == {"run_started", "execution_boundary_entered"}
=============================================================================
