-------------------------- MODULE LifecycleEvents --------------------------
(***************************************************************************)
(* Vocabulary shared by every module that looks at an execution lifecycle  *)
(* stream: the event types the repository appends and the counters that    *)
(* are derived from them.  A log is a sequence of event types; everything  *)
(* else an event carries (timestamp, ids, free text) is left out, except   *)
(* where the module Lifecycle models the hash chain.                       *)
(***************************************************************************)
EXTENDS Naturals, Sequences, FiniteSets

\* The four event types a counter is kept for (_EVENT_COUNTERS).
CountedTypes == {"execution_request_created", "execution_boundary_entered",
                 "execution_completed", "execution_failed"}

EventTypes == CountedTypes \cup {"run_started", "cycle_started", "terminal"}

Count(log, type) == Cardinality({i \in DOMAIN log : log[i] = type})

HasTerminal(log) == \E i \in DOMAIN log : log[i] = "terminal"

\* ExecutionLifecycle.counters(): one count per counted type.
Counters(log) == [t \in CountedTypes |-> Count(log, t)]
=============================================================================
