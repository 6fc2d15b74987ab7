---------------------------- MODULE EvidenceLog ----------------------------
(***************************************************************************)
(* What a lifecycle stream promises its readers, with no locks, processes, *)
(* hash chain or storage: "an append-only event stream" (the docstring of  *)
(* ExecutionLifecycle) that a terminal event closes for good.  Lifecycle   *)
(* (one step per load, lock and write) and TakeoverGate (a whole run) are  *)
(* both shown to implement it.                                             *)
(***************************************************************************)
EXTENDS LifecycleEvents

VARIABLE log        \* the events a verified reader sees, oldest first

Init == log = << >>

\* One event is added at the end of a log that no terminal event has closed.
Record(type) == /\ ~HasTerminal(log)
                /\ log' = Append(log, type)

Next == \E type \in EventTypes : Record(type)

Spec == Init /\ [][Next]_log
=============================================================================
