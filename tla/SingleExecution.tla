-------------------------- MODULE SingleExecution --------------------------
(***************************************************************************)
(* What the takeover gate promises about one run directory, whatever       *)
(* crashes, restarts, timeouts and storage faults happen inside: governance *)
(* decides once, only an approved run requests an execution, and a request *)
(* is carried out at most once.                                            *)
(***************************************************************************)
EXTENDS Naturals

VARIABLES decision,    \* "none", "APPROVED" or "REJECTED"
          requested,   \* an execution request is on record
          executions   \* dispatches of the typed action to CHIA

Init == decision = "none" /\ requested = FALSE /\ executions = 0

Decide == /\ decision = "none"
          /\ decision' \in {"APPROVED", "REJECTED"}
          /\ UNCHANGED <<requested, executions>>

Request == /\ decision = "APPROVED" /\ ~requested
           /\ requested' = TRUE
           /\ UNCHANGED <<decision, executions>>

Execute == /\ requested /\ executions = 0
           /\ executions' = 1
           /\ UNCHANGED <<decision, requested>>

Next == Decide \/ Request \/ Execute

vars == <<decision, requested, executions>>

Spec == Init /\ [][Next]_vars
=============================================================================
