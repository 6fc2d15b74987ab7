---------------------------- MODULE SafetyPolicy ----------------------------
(***************************************************************************)
(* SafetyGate.evaluate (src/chia_work/safety.py) over an action reduced to *)
(* what its rules look at.  The rules are tried in the order of the code   *)
(* and the first one that applies decides; when none does, the action is   *)
(* allowed.  A Commands value says which fragments the command holds:      *)
(* "own" is the one typed operation of a known target, "chia" any other    *)
(* text that starts with "chia:", "meta" a generic command with a shell    *)
(* metacharacter.  "other_config" stands for an unapproved config, config  *)
(* package or build target, "other_path" for an unapproved checkout.       *)
(***************************************************************************)
EXTENDS Naturals, Sequences

Kinds == {"BUILD", "SIMULATE", "MODIFY_CONFIG", "RUN_BENCHMARK", "SHELL"}

DefaultAllowed == Kinds \ {"SHELL"}

KnownTargets == {"smoke", "verilator", "sanity", "mvin"}

Actions == [kind : Kinds,
            target : KnownTargets \cup {"blank", "other"},
            command : {"missing", "own", "chia", "plain", "meta", "blocked"},
            config : {"approved", "other_config", "other_path"},
            budget : {"ok", "not_integer", "outside"}]  \* jobs, timeouts, cycles, payload

Rule(applies, decision) == [applies |-> applies, decision |-> decision]

\* The generic checks: all that S1 has.
GenericRules(a) ==
    << Rule(a.target = "blank", "REPAIR"),
       Rule(a.kind \notin DefaultAllowed, "DENY"),
       Rule(a.command \in {"blocked", "meta"}, "DENY"),
       Rule(a.kind # "MODIFY_CONFIG" /\ a.command = "missing", "REPAIR") >>

RequiredKind(target) == IF target = "verilator" THEN "BUILD" ELSE "RUN_BENCHMARK"

\* _known_target_policy; the smoke target has no configuration and its budget
\* is the length of its payload.
TargetRules(a) ==
    << Rule(a.kind # RequiredKind(a.target), "REPAIR"),
       Rule(a.command # "own", "DENY"),
       Rule(a.target # "smoke" /\ a.config # "approved", "DENY"),
       Rule(a.target # "smoke" /\ a.budget = "not_integer", "REPAIR"),
       Rule(a.budget = "outside", "REPAIR") >>

RulesFor(a, semantic) ==
    GenericRules(a) \o (IF semantic /\ a.target \in KnownTargets THEN TargetRules(a) ELSE << >>)

Hits(rules) == {i \in DOMAIN rules : rules[i].applies}

FirstHit(rules) == CHOOSE i \in Hits(rules) : \A j \in Hits(rules) : i <= j

Evaluate(a, semantic) ==
    LET rules == RulesFor(a, semantic)
    IN  IF Hits(rules) = {} THEN "ALLOW" ELSE rules[FirstHit(rules)].decision

-----------------------------------------------------------------------------
\* The variants U0 to S4 (src/chia_work/variants.py).
Variants == {"U0", "S1", "S2", "S3", "S4"}

SafetyEnabled(variant) == variant # "U0"
SemanticPolicyEnabled(variant) == variant \in {"S2", "S3", "S4"}
VerificationEnabled(variant) == variant \in {"S3", "S4"}
RecoveryEnabled(variant) == variant = "S4"
=============================================================================
