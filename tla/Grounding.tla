----------------------------- MODULE Grounding -----------------------------
(***************************************************************************)
(* The execution state a synthesis prompt is given as "authoritative       *)
(* runtime state" (src/chia_work/runtime_grounding.py): a function of the  *)
(* events of a cycle and of its indexed, hash-verified artifacts.          *)
(***************************************************************************)
EXTENDS LifecycleEvents

GroundedStates == {"NOT_REQUESTED", "PROPOSAL_RECORDED", "REQUESTED", "EXECUTING",
                   "REJECTED", "COMPLETED", "FAILED"}

\* log: the events of the cycle; indexed: the verified artifacts of the cycle;
\* observed: the status in observation.json, "none" when there is none.
ExecutionState(log, indexed, observed) ==
    CASE Count(log, "execution_failed") > 0                    -> "FAILED"
      [] /\ Count(log, "execution_failed") = 0
         /\ observed = "EXECUTED"
         /\ Count(log, "execution_completed") > 0              -> "COMPLETED"
      [] /\ Count(log, "execution_failed") = 0
         /\ observed = "REJECTED"                              -> "REJECTED"
      [] OTHER ->
         IF Count(log, "execution_boundary_entered") > 0 THEN "EXECUTING"
         ELSE IF "request" \in indexed THEN "REQUESTED"
         ELSE IF "proposal" \in indexed THEN "PROPOSAL_RECORDED"
         ELSE "NOT_REQUESTED"
=============================================================================
