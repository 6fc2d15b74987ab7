------------------------- MODULE AgenticLoopProofs -------------------------
(***************************************************************************)
(* The agentic loop, for every set of proposals and every number of        *)
(* retries of either kind, and the frozen suite that runs it, for every    *)
(* schedule.  What is executed: an action that the policy allows is what   *)
(* the policy is meant to allow (AllowedIsSafe), and only an action that   *)
(* the policy allowed is executed (LoopInv).  What is recorded: History,   *)
(* Retrying, Told and Accounted relate the attempts to what happened.      *)
(* What the suite writes: SuiteInv, over the loop's invariant.             *)
(***************************************************************************)
EXTENDS FrozenSuite, FiniteSetTheorems, TLAPS

\* The first rule that applies exists: at least one does, and a rule list is
\* finite.
LEMMA FirstHitExists ==
    ASSUME NEW H \in SUBSET (1..9), H # {}
    PROVE  \E i \in H : \A j \in H : i <= j
<1>1. CASE 1 \in H
  BY <1>1
<1>2. CASE 1 \notin H /\ 2 \in H
  BY <1>2
<1>3. CASE 1 \notin H /\ 2 \notin H /\ 3 \in H
  BY <1>3
<1>4. CASE 1 \notin H /\ 2 \notin H /\ 3 \notin H /\ 4 \in H
  BY <1>4
<1>5. CASE H \subseteq 5..9
  <2>1. CASE 5 \in H
    BY <1>5, <2>1
  <2>2. CASE 5 \notin H /\ 6 \in H
    BY <1>5, <2>2
  <2>3. CASE 5 \notin H /\ 6 \notin H /\ 7 \in H
    BY <1>5, <2>3
  <2>4. CASE 5 \notin H /\ 6 \notin H /\ 7 \notin H /\ 8 \in H
    BY <1>5, <2>4
  <2>5. CASE 5 \notin H /\ 6 \notin H /\ 7 \notin H /\ 8 \notin H
    <3>1. \A i \in H : i = 9
      BY <1>5, <2>5
    <3>2. 9 \in H
      BY <3>1
    <3> QED
      BY <3>1, <3>2
  <2> QED
    BY <2>1, <2>2, <2>3, <2>4, <2>5
<1> QED
  BY <1>1, <1>2, <1>3, <1>4, <1>5

\* No rule of either list allows an action: allowing is what is left when none
\* applies.
LEMMA RulesRefuse ==
    ASSUME NEW a \in Actions, NEW semantic \in BOOLEAN
    PROVE  LET rules == RulesFor(a, semantic)
           IN  /\ DOMAIN rules \subseteq 1..9
               /\ \A i \in DOMAIN rules : rules[i].decision # "ALLOW"
  BY DEF RulesFor, GenericRules, TargetRules, Rule

\* An action is allowed only if no rule applies to it.
LEMMA AllowedHitsNothing ==
    ASSUME NEW a \in Actions, NEW semantic \in BOOLEAN, Evaluate(a, semantic) = "ALLOW"
    PROVE  Hits(RulesFor(a, semantic)) = {}
<1> DEFINE rules == RulesFor(a, semantic)
<1>1. /\ DOMAIN rules \subseteq 1..9
      /\ \A i \in DOMAIN rules : rules[i].decision # "ALLOW"
  BY RulesRefuse
<1>2. SUFFICES ASSUME Hits(rules) # {} PROVE FALSE
  OBVIOUS
<1> HIDE DEF rules
<1>3. Hits(rules) \in SUBSET (1..9)
  BY <1>1 DEF Hits
<1>4. FirstHit(rules) \in Hits(rules)
  BY <1>2, <1>3, FirstHitExists DEF FirstHit
<1>5. rules[FirstHit(rules)].decision # "ALLOW"
  BY <1>1, <1>4 DEF Hits
<1>6. Evaluate(a, semantic) = rules[FirstHit(rules)].decision
  BY <1>2 DEF Evaluate, rules
<1> QED
  BY <1>5, <1>6

\* An action that the semantic policy allows.
Safe(a) ==
    /\ a.kind # "SHELL" /\ a.command \notin {"blocked", "meta"}
    /\ a.target \in KnownTargets =>
         /\ a.command = "own" /\ a.kind = RequiredKind(a.target)
         /\ a.target # "smoke" => a.config = "approved" /\ a.budget = "ok"

\* No generic rule applies to an action that S1 or better allows.
LEMMA AllowedPassesGeneric ==
    ASSUME NEW a \in Actions, NEW semantic \in BOOLEAN, Evaluate(a, semantic) = "ALLOW"
    PROVE  /\ Hits(GenericRules(a)) = {}
           /\ a.kind # "SHELL" /\ a.command \notin {"blocked", "meta"}
<1>1. Hits(RulesFor(a, semantic)) = {}
  BY AllowedHitsNothing
<1>2. \A i \in 1..4 : ~GenericRules(a)[i].applies
  BY <1>1 DEF Hits, RulesFor, GenericRules, TargetRules, Rule
<1>3. Hits(GenericRules(a)) = {}
  BY <1>2 DEF Hits, GenericRules
<1>4. ~GenericRules(a)[2].applies /\ ~GenericRules(a)[3].applies
  BY <1>2
<1>5. a.kind \in DefaultAllowed
  BY <1>4 DEF GenericRules, Rule
<1>6. a.command \notin {"blocked", "meta"}
  BY <1>4 DEF GenericRules, Rule
<1> QED
  BY <1>3, <1>5, <1>6 DEF DefaultAllowed

\* The semantic policy only narrows the generic one: what S2 lets through, S1
\* lets through too (safety.py:211-214).
THEOREM SemanticOnlyNarrows ==
    ASSUME NEW a \in Actions, Evaluate(a, TRUE) = "ALLOW"
    PROVE  Evaluate(a, FALSE) = "ALLOW"
<1>1. Hits(GenericRules(a)) = {}
  BY AllowedPassesGeneric
<1>2. RulesFor(a, FALSE) = GenericRules(a)
  BY DEF RulesFor, GenericRules, Rule
<1> QED
  BY <1>1, <1>2 DEF Evaluate

\* What the semantic policy allows is safe.
LEMMA AllowedIsSafe ==
    ASSUME NEW a \in Actions, Evaluate(a, TRUE) = "ALLOW"
    PROVE  Safe(a)
<1>1. a.kind # "SHELL" /\ a.command \notin {"blocked", "meta"}
  BY AllowedPassesGeneric
<1>2. SUFFICES ASSUME a.target \in KnownTargets
               PROVE  /\ a.command = "own" /\ a.kind = RequiredKind(a.target)
                      /\ a.target # "smoke" => a.config = "approved" /\ a.budget = "ok"
  BY <1>1 DEF Safe
<1>3. Hits(RulesFor(a, TRUE)) = {}
  BY AllowedHitsNothing
<1>4. \A i \in 5..9 : ~RulesFor(a, TRUE)[i].applies
  BY <1>2, <1>3 DEF Hits, RulesFor, GenericRules, TargetRules, Rule
<1>5. \A i \in 1..5 : ~TargetRules(a)[i].applies
  BY <1>2, <1>4 DEF RulesFor, GenericRules, TargetRules, Rule
<1>6. /\ ~TargetRules(a)[1].applies /\ ~TargetRules(a)[2].applies
      /\ ~TargetRules(a)[3].applies /\ ~TargetRules(a)[4].applies
      /\ ~TargetRules(a)[5].applies
  BY <1>5
<1>8. a.kind = RequiredKind(a.target) /\ a.command = "own" /\ a.budget # "outside"
  BY <1>6 DEF TargetRules, Rule
<1>9. a.target # "smoke" => a.config = "approved" /\ a.budget # "not_integer"
  BY <1>6 DEF TargetRules, Rule
<1>7. a.budget \in {"ok", "not_integer", "outside"}
  BY DEF Actions
<1> QED
  BY <1>7, <1>8, <1>9

\* The policy refuses nothing it is meant to allow: the own operation of a known
\* target, of the required kind, within its configuration and its budget, passes
\* under every variant (safety.py:97-217).
THEOREM OwnOperationPasses ==
    ASSUME NEW a \in Actions, NEW semantic \in BOOLEAN,
           a.target \in KnownTargets, a.command = "own", a.kind = RequiredKind(a.target),
           a.target # "smoke" => a.config = "approved", a.budget = "ok"
    PROVE  Evaluate(a, semantic) = "ALLOW"
<1>1. a.target # "blank" /\ a.kind \in {"BUILD", "RUN_BENCHMARK"}
  BY DEF KnownTargets, RequiredKind
<1>2. \A i \in 1..4 : ~GenericRules(a)[i].applies
  <2>1. /\ ~GenericRules(a)[1].applies /\ ~GenericRules(a)[2].applies
        /\ ~GenericRules(a)[3].applies /\ ~GenericRules(a)[4].applies
    BY <1>1 DEF GenericRules, Rule, DefaultAllowed, Kinds
  <2> QED
    BY <2>1
<1>3. \A i \in 1..5 : ~TargetRules(a)[i].applies
  <2>1. /\ ~TargetRules(a)[1].applies /\ ~TargetRules(a)[2].applies
        /\ ~TargetRules(a)[3].applies /\ ~TargetRules(a)[4].applies
        /\ ~TargetRules(a)[5].applies
    BY <1>1 DEF TargetRules, Rule
  <2> QED
    BY <2>1
<1>4. \A i \in DOMAIN RulesFor(a, semantic) : ~RulesFor(a, semantic)[i].applies
  BY <1>2, <1>3 DEF RulesFor, GenericRules, TargetRules, Rule
<1>5. Hits(RulesFor(a, semantic)) = {}
  BY <1>4 DEF Hits
<1> QED
  BY <1>5 DEF Evaluate

-----------------------------------------------------------------------------
\* Types, with what the induction needs besides: attempts are records, an action
\* has been chosen before it is gated, and a retry is left while the loop runs.
Attempt == [source : {"gemini", "controlled_seed"}, action : Proposals,
            decision : {"NONE", "ALLOW", "DENY", "REPAIR"},
            result : ToolResult \cup {NoResult},
            verification : {"DISABLED", "NOT_RUN", "PASS", "FAIL"},
            retries : 0..MaxApiRetries, told : Seq({"rejected", "failed"})]

LoopTypes ==
    /\ TypeOK
    /\ attempts \in Seq(Attempt)
    /\ pc \in {"gate", "execute", "record"} => action \in Proposals
    /\ pc \in {"propose", "gate", "execute", "record"} => Len(attempts) <= MaxRetries

\* A run begins with these types.
LEMMA InitTypes == Init => LoopTypes
<1> SUFFICES ASSUME Init PROVE LoopTypes
  OBVIOUS
<1>1. << >> \in Seq(Attempt) /\ << >> \in Seq({"rejected", "failed"}) /\ Len(<< >>) = 0
  OBVIOUS
<1>2. MaxRetries \in Nat /\ 0 \in 0..MaxApiRetries
  BY LoopAssumption
<1> QED
  BY <1>1, <1>2 DEF Init, LoopTypes, TypeOK

\* A decision of the policy is one of three.
LEMMA EvaluateType ==
    ASSUME NEW a \in Actions, NEW semantic \in BOOLEAN
    PROVE  Evaluate(a, semantic) \in {"ALLOW", "DENY", "REPAIR"}
<1> DEFINE rules == RulesFor(a, semantic)
<1>1. /\ DOMAIN rules \subseteq 1..9
      /\ \A i \in DOMAIN rules : rules[i].decision \in {"DENY", "REPAIR"}
  BY DEF RulesFor, GenericRules, TargetRules, Rule
<1>2. CASE Hits(rules) = {}
  BY <1>2 DEF Evaluate
<1>3. CASE Hits(rules) # {}
  <2> HIDE DEF rules
  <2>1. Hits(rules) \in SUBSET (1..9)
    BY <1>1 DEF Hits
  <2>2. FirstHit(rules) \in DOMAIN rules
    BY <1>3, <2>1, FirstHitExists DEF FirstHit, Hits
  <2>3. Evaluate(a, semantic) = rules[FirstHit(rules)].decision
    BY <1>3 DEF Evaluate, rules
  <2> QED
    BY <1>1, <2>2, <2>3
<1> QED
  BY <1>2, <1>3

\* Every executor answers with a tool result.
LEMMA AnswersType ==
    ASSUME NEW ex \in Executors, NEW a
    PROVE  Answers(ex, a) \subseteq ToolResult
<1>1. Raised(ex) \subseteq ToolResult
  BY DEF Raised
<1>2. ASSUME NEW sim \in NodeResult, NEW program \in NodeResult, NEW run \in NodeResult,
             NEW marker \in BOOLEAN
      PROVE  /\ Pipeline(ex, sim, program, run, marker) \in ToolResult
             /\ Built(sim, marker) \in ToolResult
  BY <1>2 DEF Pipeline, Simulated, Built, Outcome, NodeResult, ToolResult
<1>3. Returned(ex) \subseteq ToolResult
  <2>1. CASE ex = "chia"
    BY <2>1 DEF Returned
  <2>2. CASE ex \in {"mvin", "sanity"}
    BY <1>2, <2>2 DEF Returned
  <2>3. CASE ex = "build"
    BY <1>2, <2>3 DEF Returned
  <2> QED
    BY <2>1, <2>2, <2>3 DEF Executors
<1> QED
  BY <1>1, <1>3 DEF Answers

\* Every step of the loop keeps its types.
LEMMA StepTypes == LoopTypes /\ [Next]_loopVars => LoopTypes'
<1> SUFFICES ASSUME LoopTypes, [Next]_loopVars PROVE LoopTypes'
  OBVIOUS
<1> USE DEF LoopTypes, TypeOK, task, attempt
<1>1. CASE TakeSeed
  BY <1>1 DEF TakeSeed
<1>8. CASE ProposalRetried
  BY <1>8, LoopAssumption DEF ProposalRetried, AsksModel, RetriesLeft
<1>2. CASE Propose
  BY <1>2 DEF Propose, AsksModel
<1>3. CASE ProposeFails
  BY <1>3 DEF ProposeFails, AsksModel
<1>4. CASE Gate
  <2>1. SemanticPolicyEnabled(variant) \in BOOLEAN
    BY DEF SemanticPolicyEnabled
  <2>2. action \in Actions
    BY <1>4, LoopAssumption DEF Gate
  <2>3. decision' \in {"NONE", "ALLOW", "DENY", "REPAIR"}
    BY <1>4, <2>1, <2>2, EvaluateType DEF Gate
  <2> QED
    BY <1>4, <2>3 DEF Gate
<1>5. CASE Execute
  <2>1. result' \in ToolResult
    BY <1>5, AnswersType DEF Execute
  <2> QED
    BY <1>5, <2>1 DEF Execute
<1>6. CASE Record
  <2> DEFINE new == [source |-> source, action |-> action, decision |-> decision,
                     result |-> result,
                     verification |-> Verification(VerificationEnabled(variant), result),
                     retries |-> apiRetries, told |-> context]
  <2>1. Verification(VerificationEnabled(variant), result)
           \in {"DISABLED", "NOT_RUN", "PASS", "FAIL"}
    BY DEF Verification
  <2>2. new \in Attempt
    BY <1>6, <2>1 DEF Record, Attempt
  <2>3. attempts' = Append(attempts, new)
    BY <1>6 DEF Record
  <2> HIDE DEF new
  <2>4. attempts' \in Seq(Attempt) /\ Len(attempts') = Len(attempts) + 1
    BY <2>2, <2>3
  <2>5. Len(attempts) \in Nat /\ MaxRetries \in Nat
    BY LoopAssumption
  <2>6. Len(attempts) <= MaxRetries
    BY <1>6 DEF Record
  <2>7. pc' = "propose" => Len(attempts') <= MaxRetries
    BY <1>6, <2>4, <2>5, <2>6 DEF Record, Stops
  <2>8. context' \in Seq({"rejected", "failed"}) /\ pc' \in {"done", "propose"}
    <3>1. context \in Seq({"rejected", "failed"}) /\ Feedback \in {"rejected", "failed"}
      BY DEF Feedback
    <3>2. \/ pc' = "done" /\ context' = context
          \/ pc' = "propose" /\ context' = Append(context, Feedback)
      BY <1>6 DEF Record
    <3> HIDE DEF LoopTypes, TypeOK
    <3> QED BY <3>1, <3>2
  <2>9. \A i \in DOMAIN attempts' : /\ attempts'[i].action \in Proposals
                                   /\ attempts'[i].result \in ToolResult \cup {NoResult}
    <3> SUFFICES ASSUME NEW i \in DOMAIN attempts'
                 PROVE  /\ attempts'[i].action \in Proposals
                        /\ attempts'[i].result \in ToolResult \cup {NoResult}
      OBVIOUS
    <3>1. attempts'[i] \in Attempt
      BY <2>4
    <3> QED
      BY <3>1 DEF Attempt
  <2>10. Len(attempts') <= MaxRetries + 1
    BY <2>4, <2>5, <2>6
  <2>11. UNCHANGED <<task, attempt, requests, proposed, dispatched>> /\ apiRetries' = 0
    BY <1>6 DEF Record, NewRetries
  <2>12. apiRetries' \in 0..MaxApiRetries
    BY <2>11, LoopAssumption
  <2> QED
    BY <2>4, <2>7, <2>8, <2>9, <2>10, <2>11, <2>12
<1>7. CASE UNCHANGED loopVars
  <2>1. /\ variant' = variant /\ seeded' = seeded /\ executor' = executor /\ pc' = pc
        /\ action' = action /\ source' = source /\ decision' = decision /\ result' = result
        /\ context' = context /\ attempts' = attempts /\ proposed' = proposed
        /\ apiRetries' = apiRetries /\ requests' = requests /\ dispatched' = dispatched
    BY <1>7 DEF loopVars
  <2> QED
    BY <2>1
<1> QED
  BY <1>1, <1>2, <1>3, <1>4, <1>5, <1>6, <1>7, <1>8 DEF Next

\* The loop keeps its types; in particular it never makes more than
\* MaxRetries + 1 attempts (agentic_loop.py:59, 134).
THEOREM LoopTypeCorrect == Spec => []TypeOK
<1>1. LoopTypes => TypeOK
  BY DEF LoopTypes
<1> QED
  BY <1>1, InitTypes, StepTypes, PTL DEF Spec

-----------------------------------------------------------------------------
\* The policy allowed this action, if the variant has the semantic policy.
Cleared(a) == SemanticPolicyEnabled(variant) => Evaluate(a, TRUE) = "ALLOW"

\* An action is on its way to an executor, or was executed, only if it was cleared.
LoopInv ==
    /\ pc = "execute" \/ (pc = "record" /\ result.ran) => Cleared(action)
    /\ \A i \in DOMAIN attempts : Executed(i) => Cleared(attempts[i].action)

\* Every step keeps it: only Gate lets an action through, and only a cleared one.
LEMMA StepCleared == LoopTypes /\ LoopInv /\ [Next]_loopVars => LoopInv'
<1> SUFFICES ASSUME LoopTypes, LoopInv, [Next]_loopVars PROVE LoopInv'
  OBVIOUS
<1> USE DEF LoopInv, Cleared, Executed, task, attempt
<1>1. CASE TakeSeed
  BY <1>1 DEF TakeSeed
<1>8. CASE ProposalRetried
  BY <1>8 DEF ProposalRetried
<1>2. CASE Propose
  BY <1>2 DEF Propose, AsksModel
<1>3. CASE ProposeFails
  BY <1>3 DEF ProposeFails, AsksModel
<1>4. CASE Gate
  <2>1. ASSUME pc' = "execute", SemanticPolicyEnabled(variant)
        PROVE  Evaluate(action, TRUE) = "ALLOW"
    <3>1. SemanticPolicyEnabled(variant) = TRUE /\ SafetyEnabled(variant)
      BY <2>1 DEF SemanticPolicyEnabled, SafetyEnabled
    <3>2. decision' = Evaluate(action, TRUE)
      BY <1>4, <3>1 DEF Gate
    <3>3. Permits(decision')
      BY <1>4, <2>1 DEF Gate
    <3>4. action \in Actions
      BY <1>4, LoopAssumption DEF Gate, LoopTypes
    <3> QED
      BY <3>2, <3>3, <3>4, EvaluateType DEF Permits
  <2>2. ~result'.ran
    BY <1>4 DEF Gate, NoResult
  <2>3. UNCHANGED <<variant, action, attempts>>
    BY <1>4 DEF Gate
  <2> QED
    BY <2>1, <2>2, <2>3
<1>5. CASE Execute
  BY <1>5 DEF Execute
<1>6. CASE Record
  <2> DEFINE new == [source |-> source, action |-> action, decision |-> decision,
                     result |-> result,
                     verification |-> Verification(VerificationEnabled(variant), result),
                     retries |-> apiRetries, told |-> context]
  <2>1. attempts' = Append(attempts, new) /\ UNCHANGED variant /\ pc = "record"
    BY <1>6 DEF Record
  <2>2. new.action = action /\ new.result = result
    OBVIOUS
  <2> HIDE DEF new
  <2>3. attempts \in Seq(Attempt)
    BY DEF LoopTypes
  <2>4. \A i \in DOMAIN attempts' : \/ i \in DOMAIN attempts /\ attempts'[i] = attempts[i]
                                    \/ attempts'[i] = new
    BY <2>1, <2>3
  <2>5. pc' \in {"done", "propose"}
    BY <1>6 DEF Record
  <2>6. ASSUME NEW i \in DOMAIN attempts', attempts'[i].result.ran,
               SemanticPolicyEnabled(variant)
        PROVE  Evaluate(attempts'[i].action, TRUE) = "ALLOW"
    BY <2>1, <2>2, <2>4, <2>6
  <2> QED
    BY <2>1, <2>5, <2>6
<1>7. CASE UNCHANGED loopVars
  BY <1>7 DEF loopVars
<1> QED
  BY <1>1, <1>2, <1>3, <1>4, <1>5, <1>6, <1>7, <1>8 DEF Next

\* What was cleared is what the policy is meant to allow.
LEMMA ClearedIsAllowed == LoopTypes /\ LoopInv => ExecutedWasAllowed
<1> SUFFICES ASSUME LoopTypes, LoopInv,
                    NEW i \in DOMAIN attempts, Executed(i), SemanticPolicyEnabled(variant)
             PROVE  Safe(attempts[i].action)
  BY DEF ExecutedWasAllowed, Safe
<1>1. attempts[i].action \in Actions
  BY LoopAssumption DEF LoopTypes, TypeOK
<1>2. Evaluate(attempts[i].action, TRUE) = "ALLOW"
  BY DEF LoopInv, Cleared
<1> QED
  BY <1>1, <1>2, AllowedIsSafe

\* Under S2 to S4 an action reaches an executor only if it is what the policy is
\* meant to allow, whatever is proposed and however often it is repaired.
THEOREM ExecutedIsAllowed == Spec => []ExecutedWasAllowed
<1>1. Init => LoopInv
  BY DEF Init, LoopInv
<1> QED
  BY <1>1, ClearedIsAllowed, InitTypes, StepTypes, StepCleared, PTL DEF Spec
-----------------------------------------------------------------------------
\* The history.

\* The attempt that Record appends.
Current ==
    [source |-> source, action |-> action, decision |-> decision, result |-> result,
     verification |-> Verification(VerificationEnabled(variant), result),
     retries |-> apiRetries, told |-> context]

\* What Record does to the history: the current attempt is its new last one.
LEMMA Recorded ==
    ASSUME LoopTypes, Record
    PROVE  /\ attempts' \in Seq(Attempt) /\ Len(attempts) \in Nat
           /\ DOMAIN attempts = 1..Len(attempts) /\ DOMAIN attempts' = 1..(Len(attempts) + 1)
           /\ Len(attempts') = Len(attempts) + 1
           /\ \A i \in 1..Len(attempts) : attempts'[i] = attempts[i]
           /\ attempts'[Len(attempts) + 1] = Current
           /\ \A i \in 1..(Len(attempts) + 1) : i \in 1..Len(attempts) \/ i = Len(attempts) + 1
<1>1. attempts' = Append(attempts, Current)
  BY DEF Record, Current
<1>2. Current \in Attempt
  BY LoopAssumption DEF Current, Attempt, LoopTypes, TypeOK, Record, Verification
<1>3. attempts \in Seq(Attempt)
  BY DEF LoopTypes
<1> QED
  BY <1>1, <1>2, <1>3

Unfinished == pc \in {"propose", "gate", "execute", "record"}

\* No executor verifies what is not a success.
Honest(r) ==
    /\ r.ran /\ r.verified => r.status = "success"
    /\ r.boundary /\ r.verified => r.exit0

\* Every executor answers honestly, whatever the nodes behind it answer.
LEMMA AnswersHonest ==
    ASSUME NEW ex \in Executors, NEW a, NEW r \in Answers(ex, a)
    PROVE  r.ran /\ Honest(r)
<1>1. ASSUME r \in Raised(ex) PROVE r.ran /\ Honest(r)
  BY <1>1 DEF Raised, ToolResult, Honest
<1>2. ASSUME NEW sim \in NodeResult, NEW program \in NodeResult, NEW run \in NodeResult,
             NEW marker \in BOOLEAN
      PROVE  /\ LET p == Pipeline(ex, sim, program, run, marker) IN p.ran /\ Honest(p)
             /\ LET b == Built(sim, marker) IN b.ran /\ Honest(b)
  BY DEF Pipeline, Simulated, Built, Outcome, NodeResult, Honest
<1>3. ASSUME r \in Returned(ex) PROVE r.ran /\ Honest(r)
  <2>1. CASE ex = "chia"
    <3>1. r \in ToolResult /\ r.status = "success" /\ r.exit0
      BY <1>3, <2>1 DEF Returned
    <3>2. r.ran = TRUE
      BY <3>1 DEF ToolResult
    <3> QED
      BY <3>1, <3>2 DEF Honest
  <2>2. CASE ex \in {"mvin", "sanity"}
    BY <1>2, <1>3, <2>2 DEF Returned
  <2>3. CASE ex = "build"
    BY <1>2, <1>3, <2>3 DEF Returned
  <2> QED
    BY <2>1, <2>2, <2>3 DEF Executors
<1> QED
  BY <1>1, <1>3 DEF Answers

\* What is true of a recorded attempt: it ran if and only if the policy let it,
\* and its verification is that of its result.
Truthful(a) ==
    /\ a.result.ran <=> Permits(a.decision)
    /\ SafetyEnabled(variant) => a.decision # "NONE"
    /\ a.verification = Verification(VerificationEnabled(variant), a.result)
    /\ Honest(a.result)

History ==
    /\ \A i \in DOMAIN attempts : Truthful(attempts[i])
    /\ pc \in {"execute", "record"} /\ SafetyEnabled(variant) => decision # "NONE"
    /\ pc = "execute" => Permits(decision)
    /\ pc = "record" => (result.ran <=> Permits(decision)) /\ Honest(result)
    /\ pc = "done" => attempts # << >>

\* Every step keeps the recorded attempts truthful.
LEMMA StepHistory == LoopTypes /\ History /\ [Next]_loopVars => History'
<1> SUFFICES ASSUME LoopTypes, History, [Next]_loopVars PROVE History'
  OBVIOUS
<1> USE DEF History, Truthful, task, attempt
<1>1. CASE TakeSeed
  BY <1>1 DEF TakeSeed
<1>2. CASE ProposalRetried
  BY <1>2 DEF ProposalRetried
<1>3. CASE Propose
  BY <1>3 DEF Propose, AsksModel
<1>4. CASE ProposeFails
  BY <1>4 DEF ProposeFails
<1>5. CASE Gate
  <2>1. SafetyEnabled(variant) => decision' \in {"ALLOW", "DENY", "REPAIR"}
    <3>1. action \in Actions /\ SemanticPolicyEnabled(variant) \in BOOLEAN
      BY <1>5, LoopAssumption DEF Gate, LoopTypes, SemanticPolicyEnabled
    <3> QED
      BY <1>5, <3>1, EvaluateType DEF Gate
  <2>2. ~result'.ran /\ Honest(result')
    BY <1>5 DEF Gate, NoResult, Honest
  <2>3. pc' = IF Permits(decision') THEN "execute" ELSE "record"
    BY <1>5 DEF Gate
  <2>4. UNCHANGED <<variant, attempts>>
    BY <1>5 DEF Gate
  <2> QED
    BY <2>1, <2>2, <2>3, <2>4
<1>6. CASE Execute
  <2>1. result'.ran /\ Honest(result')
    BY <1>6, AnswersHonest DEF Execute, LoopTypes, TypeOK
  <2> QED
    BY <1>6, <2>1 DEF Execute
<1>7. CASE Record
  <2>1. Truthful(Current)
    BY <1>7 DEF Record, Current
  <2>2. \A i \in DOMAIN attempts' : Truthful(attempts'[i])
    BY <1>7, <2>1, Recorded
  <2>3. pc' \in {"done", "propose"} /\ variant' = variant /\ attempts' # << >>
    BY <1>7, Recorded DEF Record
  <2> QED
    BY <2>2, <2>3
<1>8. CASE UNCHANGED loopVars
  BY <1>8 DEF loopVars
<1> QED
  BY <1>1, <1>2, <1>3, <1>4, <1>5, <1>6, <1>7, <1>8 DEF Next

\* The recorded attempts are truthful in every reachable state.
LEMMA HistoryHolds == Spec => [](LoopTypes /\ History)
<1>1. Init => History
  BY DEF Init, History
<1> QED
  BY <1>1, InitTypes, StepTypes, StepHistory, PTL DEF Spec

\* The counters of a truthful attempt agree with its verdict.
LEMMA HonestCounters == LoopTypes /\ History => CountersAgreeWithVerdict
<1> SUFFICES ASSUME LoopTypes, History, NEW i \in DOMAIN attempts
             PROVE  LET a == attempts[i]
                        c == ExecutionCounters(a.result)
                    IN  /\ a.verification = "PASS" =>
                              c.failures = 0 /\ a.result.status = "success"
                        /\ a.verification = "FAIL" => c.completions = 0
                        /\ c.completions + c.failures <= 1
                        /\ c.entries <= c.completions + c.failures
  BY DEF CountersAgreeWithVerdict
<1> DEFINE r == attempts[i].result
<1>1. attempts[i].verification = Verification(VerificationEnabled(variant), r) /\ Honest(r)
  BY DEF History, Truthful
<1>2. r \in ToolResult \cup {NoResult}
  BY DEF LoopTypes, TypeOK
<1> HIDE DEF r
<1>3. attempts[i].verification = "PASS" => r.ran /\ r.exit0 /\ r.verified
  BY <1>1 DEF Verification
<1>4. attempts[i].verification = "FAIL" => r.ran /\ ~(r.exit0 /\ r.verified)
  BY <1>1 DEF Verification
<1>5. r.status = "success" => r.status # "error"
  OBVIOUS
<1> QED
  BY <1>1, <1>2, <1>3, <1>4, <1>5 DEF Honest, ExecutionCounters, ToolResult, NoResult, r

\* The verdict of a record agrees with its status and its counters, whatever
\* executor filled them in (runner.py:79-86, 111-117).
THEOREM VerdictAgrees == Spec => []CountersAgreeWithVerdict
<1> QED
  BY HonestCounters, HistoryHolds, PTL

-----------------------------------------------------------------------------
\* What a retry is made of: every attempt but the last missed, and the proposals
\* were told so.

Missed(a) == ~a.result.ran \/ a.verification = "FAIL"

Became(a) == IF a.result.ran THEN "failed" ELSE "rejected"

\* While the loop runs, all it recorded missed; when it is done, all but the last
\* attempt did, and the last one passed, or no retry was left, or none is made.
Retrying ==
    /\ Unfinished =>
         /\ attempts # << >> => RecoveryEnabled(variant)
         /\ Len(context) = Len(attempts)
         /\ \A i \in 1..Len(attempts) : Missed(attempts[i])
         /\ \A i \in 1..Len(attempts) : context[i] = Became(attempts[i])
    /\ pc = "done" =>
         /\ \A i \in 1..(Len(attempts) - 1) : Missed(attempts[i])
         /\ Len(attempts) > 1 => RecoveryEnabled(variant)
         /\ RecoveryEnabled(variant) => \/ Last.verification = "PASS"
                                        \/ Len(attempts) = MaxRetries + 1

\* An attempt that does not end the loop missed, and its feedback says how.
LEMMA NotStopped ==
    ASSUME LoopTypes, History, pc = "record", ~Stops
    PROVE  Missed(Current) /\ Feedback = Became(Current) /\ RecoveryEnabled(variant)
<1>1. RecoveryEnabled(variant) /\ (SafetyBlocked \/ VerificationFailed)
  BY DEF Stops
<1>2. SafetyEnabled(variant)
  BY <1>1 DEF RecoveryEnabled, SafetyEnabled
<1>3. decision \in {"ALLOW", "DENY", "REPAIR"}
  BY <1>2 DEF History, LoopTypes, TypeOK
<1>4. result.ran <=> decision = "ALLOW"
  BY <1>3 DEF History, Permits
<1>5. /\ Current.result = result
      /\ Current.verification = Verification(VerificationEnabled(variant), result)
  BY DEF Current
<1>6. CASE SafetyBlocked
  BY <1>1, <1>4, <1>5, <1>6 DEF SafetyBlocked, Missed, Became, Feedback
<1>7. CASE ~SafetyBlocked
  BY <1>1, <1>3, <1>4, <1>5, <1>7 DEF SafetyBlocked, VerificationFailed, Missed, Became, Feedback
<1> QED
  BY <1>6, <1>7

\* Under S4 an attempt that was neither blocked nor failed has passed.
LEMMA NeitherIsPass ==
    ASSUME LoopTypes, History, pc = "record", RecoveryEnabled(variant),
           ~SafetyBlocked, ~VerificationFailed
    PROVE  Current.verification = "PASS"
<1>1. SafetyEnabled(variant) /\ VerificationEnabled(variant) = TRUE
  BY DEF RecoveryEnabled, SafetyEnabled, VerificationEnabled
<1>2. decision = "ALLOW"
  BY <1>1 DEF History, LoopTypes, TypeOK, SafetyBlocked
<1>3. result.ran
  BY <1>2 DEF History, Permits
<1> QED
  BY <1>1, <1>3 DEF Current, VerificationFailed, Verification

\* Every step keeps it; Record either ends the loop or adds an attempt that missed.
LEMMA StepRetrying == LoopTypes /\ History /\ Retrying /\ [Next]_loopVars => Retrying'
<1> SUFFICES ASSUME LoopTypes, History, Retrying, [Next]_loopVars PROVE Retrying'
  OBVIOUS
<1>1. CASE pc' = "raised"
  BY <1>1 DEF Retrying, Unfinished
<1>2. CASE Record
  <2> DEFINE n == Len(attempts)
  <2>1. /\ attempts' \in Seq(Attempt) /\ n \in Nat
        /\ DOMAIN attempts = 1..n /\ Len(attempts') = n + 1
        /\ \A i \in 1..n : attempts'[i] = attempts[i]
        /\ attempts'[n + 1] = Current
        /\ \A i \in 1..(n + 1) : i \in 1..n \/ i = n + 1
    BY <1>2, Recorded
  <2>2. /\ n # 0 => RecoveryEnabled(variant)
        /\ Len(context) = n
        /\ \A i \in 1..n : Missed(attempts[i])
        /\ \A i \in 1..n : context[i] = Became(attempts[i])
    BY <1>2, <2>1 DEF Retrying, Unfinished, Record
  <2>3. pc = "record" /\ variant' = variant /\ n <= MaxRetries /\ MaxRetries \in Nat
    BY <1>2, LoopAssumption DEF Record, task, LoopTypes
  <2>4. \A i \in 1..n : Missed(attempts'[i])
    BY <2>1, <2>2
  <2>5. CASE Stops
    <3>1. pc' = "done"
      BY <1>2, <2>5 DEF Record
    <3>2. Last' = Current
      BY <2>1 DEF Last
    <3>3. RecoveryEnabled(variant) => Current.verification = "PASS" \/ n = MaxRetries
      <4>1. RecoveryEnabled(variant) => n >= MaxRetries \/ (~SafetyBlocked /\ ~VerificationFailed)
        BY <2>5 DEF Stops
      <4>2. n >= MaxRetries => n = MaxRetries
        <5>1. n \in Nat /\ MaxRetries \in Nat /\ n <= MaxRetries
          BY <2>1, <2>3
        <5> HIDE DEF n
        <5> QED
          BY <5>1
      <4> QED
        BY <2>3, <4>1, <4>2, NeitherIsPass
    <3>4. \A i \in 1..(Len(attempts') - 1) : Missed(attempts'[i])
      BY <2>1, <2>4
    <3>5. Len(attempts') > 1 => RecoveryEnabled(variant')
      BY <2>1, <2>2, <2>3
    <3>6. RecoveryEnabled(variant') => \/ Last.verification' = "PASS"
                                      \/ Len(attempts') = MaxRetries + 1
      BY <2>1, <2>3, <3>2, <3>3
    <3> QED
      BY <3>1, <3>4, <3>5, <3>6 DEF Retrying, Unfinished
  <2>6. CASE ~Stops
    <3>1. Missed(Current) /\ Feedback = Became(Current) /\ RecoveryEnabled(variant)
      BY <2>3, <2>6, NotStopped
    <3>2. pc' = "propose" /\ context' = Append(context, Feedback)
      BY <1>2, <2>6 DEF Record
    <3>3. context \in Seq({"rejected", "failed"}) /\ Feedback \in {"rejected", "failed"}
      BY DEF LoopTypes, TypeOK, Feedback
    <3>4. /\ Len(context') = n + 1
          /\ \A i \in 1..n : context'[i] = context[i]
          /\ context'[n + 1] = Feedback
      BY <2>1, <2>2, <3>2, <3>3
    <3>5. \A i \in 1..(n + 1) : Missed(attempts'[i])
      BY <2>1, <2>4, <3>1
    <3>6. \A i \in 1..(n + 1) : context'[i] = Became(attempts'[i])
      BY <2>1, <2>2, <3>1, <3>4
    <3> QED
      BY <2>1, <2>3, <3>1, <3>2, <3>4, <3>5, <3>6 DEF Retrying, Unfinished
  <2> QED
    BY <2>5, <2>6
<1>3. CASE TakeSeed \/ ProposalRetried \/ Propose \/ Gate \/ Execute \/ UNCHANGED loopVars
  <2>1. UNCHANGED <<variant, context, attempts>> /\ (pc' = "done" => pc = "done")
        /\ (Unfinished' => Unfinished)
    BY <1>3 DEF TakeSeed, ProposalRetried, Propose, Gate, Execute, loopVars, task, attempt,
                AsksModel, Unfinished
  <2> QED
    BY <2>1 DEF Retrying, Last
<1>4. ProposeFails => pc' = "raised"
  BY DEF ProposeFails
<1> QED
  BY <1>1, <1>2, <1>3, <1>4 DEF Next

\* The history of a run that goes on is one of misses in every reachable state.
LEMMA RetryingHolds == Spec => [](LoopTypes /\ History /\ Retrying)
<1>1. Init => Retrying
  BY DEF Init, Retrying, Unfinished
<1>2. Init => History
  BY DEF Init, History
<1> QED
  BY <1>1, <1>2, InitTypes, StepTypes, StepHistory, StepRetrying, PTL DEF Spec

\* A run whose attempts but the last missed recovered only if the last one passed.
LEMMA RetriesRecover == LoopTypes /\ History /\ Retrying => RecoveredAfterFailure
<1> SUFFICES ASSUME LoopTypes, History, Retrying, pc = "done"
             PROVE  /\ \A i \in 1..RetryCount : ~Executed(i) \/ attempts[i].verification = "FAIL"
                    /\ RecoveryEnabled(variant) => \/ Last.verification = "PASS"
                                                   \/ RetryCount = MaxRetries
                    /\ Recovered <=> RetryCount > 0 /\ Last.verification = "PASS"
  BY DEF RecoveredAfterFailure
<1>1. Len(attempts) \in Nat /\ attempts # << >> /\ attempts \in Seq(Attempt)
  BY DEF LoopTypes, History
<1>2. Len(attempts) \in DOMAIN attempts
  BY <1>1
<1>3. Truthful(Last)
  BY <1>2 DEF History, Last
<1>4. \A i \in 1..RetryCount : ~Executed(i) \/ attempts[i].verification = "FAIL"
  BY DEF Retrying, RetryCount, Missed, Executed
<1>5. RecoveryEnabled(variant) => Last.verification = "PASS" \/ RetryCount = MaxRetries
  BY <1>1, LoopAssumption DEF Retrying, RetryCount
<1>6. RetryCount > 0 <=> Len(attempts) > 1
  BY <1>1 DEF RetryCount
<1>7. Len(attempts) > 1 => RecoveryEnabled(variant)
  BY DEF Retrying
<1>8. RecoveryEnabled(variant) => VerificationEnabled(variant) /\ SafetyEnabled(variant)
  BY DEF RecoveryEnabled, VerificationEnabled, SafetyEnabled
<1>9. Last.verification = "PASS" /\ SafetyEnabled(variant) => Last.decision = "ALLOW"
  <2> SUFFICES ASSUME Last.verification = "PASS", SafetyEnabled(variant)
               PROVE  Last.decision = "ALLOW"
    OBVIOUS
  <2>1. Last.result.ran
    BY <1>3 DEF Truthful, Verification
  <2> QED
    BY <1>3, <2>1 DEF Truthful, Permits
<1> QED
  BY <1>4, <1>5, <1>6, <1>7, <1>8, <1>9 DEF Recovered

\* A success is never retried, a run under S4 gives up only after all its retries,
\* and "recovered" is claimed exactly when the last of several attempts passed
\* (agentic_loop.py:130-135, 154-162).
THEOREM RecoveryIsEarned == Spec => []RecoveredAfterFailure
<1> QED
  BY RetriesRecover, RetryingHolds, PTL

-----------------------------------------------------------------------------
\* The feedback.

\* Every recorded attempt was told what became of the ones before it.
Told == \A i \in DOMAIN attempts :
           /\ Len(attempts[i].told) = i - 1
           /\ \A k \in 1..(i - 1) : attempts[i].told[k] = Became(attempts[k])

\* Every step keeps it; a proposal is told the feedback of all attempts so far.
LEMMA StepTold == LoopTypes /\ Retrying /\ Told /\ [Next]_loopVars => Told'
<1> SUFFICES ASSUME LoopTypes, Retrying, Told, [Next]_loopVars PROVE Told'
  OBVIOUS
<1>1. CASE Record
  <2> DEFINE n == Len(attempts)
  <2>1. /\ n \in Nat /\ DOMAIN attempts = 1..n /\ DOMAIN attempts' = 1..(n + 1)
        /\ \A i \in 1..n : attempts'[i] = attempts[i]
        /\ attempts'[n + 1] = Current
        /\ \A i \in 1..(n + 1) : i \in 1..n \/ i = n + 1
    BY <1>1, Recorded
  <2>2. Len(context) = n /\ \A i \in 1..n : context[i] = Became(attempts[i])
    BY <1>1 DEF Retrying, Unfinished, Record
  <2>3. Current.told = context
    BY DEF Current
  <2>4. ASSUME NEW i \in 1..(n + 1)
        PROVE  /\ Len(attempts'[i].told) = i - 1
               /\ \A k \in 1..(i - 1) : attempts'[i].told[k] = Became(attempts'[k])
    <3>1. \A k \in 1..(i - 1) : k \in 1..n
      BY <2>1
    <3>2. CASE i \in 1..n
      BY <2>1, <3>1, <3>2 DEF Told
    <3>3. CASE i = n + 1
      BY <2>1, <2>2, <2>3, <3>1, <3>3
    <3> QED
      BY <2>1, <3>2, <3>3
  <2> QED
    BY <2>1, <2>4 DEF Told
<1>2. CASE ~Record
  <2>1. attempts' = attempts
    BY <1>2 DEF Next, TakeSeed, ProposalRetried, Propose, ProposeFails, Gate, Execute, loopVars
  <2> QED
    BY <2>1 DEF Told
<1> QED
  BY <1>1, <1>2

\* What was told is the history.
LEMMA ToldIsHistory == LoopTypes /\ Told => FeedbackMatchesHistory
BY DEF Told, FeedbackMatchesHistory, Became, Executed

\* Each proposal is told, in order, what became of every earlier attempt, whatever
\* the number of retries (agentic_loop.py:137-149).
THEOREM FeedbackIsHistory == Spec => []FeedbackMatchesHistory
<1>1. Init => Told
  BY DEF Init, Told
<1> QED
  BY <1>1, ToldIsHistory, RetryingHolds, StepTold, PTL DEF Spec

-----------------------------------------------------------------------------
\* The accounts.

\* An execution, or a proposal, that the attempt under way will be recorded with.
Executing == IF pc = "record" /\ result.ran THEN 1 ELSE 0

Choosing == IF pc # "propose" /\ source = "gemini" THEN 1 ELSE 0

\* While the loop runs, every call is recorded or belongs to the attempt under way.
Accounted ==
    /\ IsFiniteSet(ApiRetryEvents)
    /\ Unfinished => /\ dispatched = ToolCallCount + Executing
                     /\ proposed = AgentProposalCount + Choosing
                     /\ requests = proposed + ApiRetryCount + apiRetries
    /\ CallsAccounted

\* Counting the elements of a range that have a property, one more at a time.
LEMMA CountNext ==
    ASSUME NEW n \in Nat, NEW S, NEW T, S \subseteq 1..n,
           T = S \/ T = S \cup {n + 1}
    PROVE  /\ Cardinality(S) \in Nat
           /\ Cardinality(T) = Cardinality(S) + (IF n + 1 \in T THEN 1 ELSE 0)
<1>1. IsFiniteSet(S)
  <2>1. 1 \in Int /\ n \in Int
    OBVIOUS
  <2>2. IsFiniteSet(1..n)
    BY <2>1, FS_Interval
  <2> QED
    BY <2>2, FS_Subset
<1>2. Cardinality(S) \in Nat
  BY <1>1, FS_CardinalityType
<1>3. n + 1 \notin S
  OBVIOUS
<1>4. CASE T = S
  BY <1>2, <1>3, <1>4
<1>5. CASE T = S \cup {n + 1}
  <2>1. Cardinality(T) = Cardinality(S) + 1
    BY <1>1, <1>3, <1>5, FS_AddElement
  <2>2. n + 1 \in T
    BY <1>5
  <2> QED
    BY <1>2, <2>1, <2>2
<1> QED
  BY <1>4, <1>5

\* What a record adds to the three counters.
LEMMA RecordCounts ==
    ASSUME LoopTypes, Record, IsFiniteSet(ApiRetryEvents)
    PROVE  /\ ToolCallCount \in Nat /\ AgentProposalCount \in Nat /\ ApiRetryCount \in Nat
           /\ ToolCallCount' = ToolCallCount + (IF result.ran THEN 1 ELSE 0)
           /\ AgentProposalCount' = AgentProposalCount + (IF source = "gemini" THEN 1 ELSE 0)
           /\ ApiRetryCount' = ApiRetryCount + apiRetries
           /\ IsFiniteSet(ApiRetryEvents')
<1> DEFINE n == Len(attempts)
<1>1. /\ n \in Nat /\ DOMAIN attempts = 1..n /\ DOMAIN attempts' = 1..(n + 1)
      /\ \A i \in 1..n : attempts'[i] = attempts[i]
      /\ attempts'[n + 1] = Current
      /\ \A i \in 1..(n + 1) : i \in 1..n \/ i = n + 1
  BY Recorded
<1>2. /\ Current.result = result /\ Current.source = source
      /\ Current.retries = apiRetries
  BY DEF Current
<1>3. apiRetries \in Nat
  BY LoopAssumption DEF LoopTypes, TypeOK
<1> HIDE DEF n
<1>10. n + 1 \in 1..(n + 1) /\ \A i \in 1..n : i \in 1..(n + 1) /\ i # n + 1
  BY <1>1
<1>4. ToolCallCount \in Nat /\ ToolCallCount' = ToolCallCount + (IF result.ran THEN 1 ELSE 0)
  <2> DEFINE S == {i \in 1..n : attempts[i].result.ran}
             T == {i \in 1..(n + 1) : attempts'[i].result.ran}
  <2>1. S \subseteq 1..n
    OBVIOUS
  <2>2. n + 1 \in T <=> result.ran
    BY <1>1, <1>2, <1>10
  <2>3. T = S \/ T = S \cup {n + 1}
    BY <1>1, <1>10
  <2>4. ToolCallCount = Cardinality(S) /\ ToolCallCount' = Cardinality(T)
    BY <1>1 DEF ToolCallCount, Executed
  <2> HIDE DEF S, T
  <2>5. n \in Nat
    BY <1>1
  <2>6. /\ Cardinality(S) \in Nat
        /\ Cardinality(T) = Cardinality(S) + (IF n + 1 \in T THEN 1 ELSE 0)
    BY <2>1, <2>3, <2>5, CountNext
  <2> QED
    BY <2>2, <2>4, <2>6
<1>5. /\ AgentProposalCount \in Nat
      /\ AgentProposalCount' = AgentProposalCount + (IF source = "gemini" THEN 1 ELSE 0)
  <2> DEFINE S == {i \in 1..n : attempts[i].source = "gemini"}
             T == {i \in 1..(n + 1) : attempts'[i].source = "gemini"}
  <2>1. S \subseteq 1..n
    OBVIOUS
  <2>2. n + 1 \in T <=> source = "gemini"
    BY <1>1, <1>2, <1>10
  <2>3. T = S \/ T = S \cup {n + 1}
    BY <1>1, <1>10
  <2>4. AgentProposalCount = Cardinality(S) /\ AgentProposalCount' = Cardinality(T)
    BY <1>1 DEF AgentProposalCount
  <2> HIDE DEF S, T
  <2>5. n \in Nat
    BY <1>1
  <2>6. /\ Cardinality(S) \in Nat
        /\ Cardinality(T) = Cardinality(S) + (IF n + 1 \in T THEN 1 ELSE 0)
    BY <2>1, <2>3, <2>5, CountNext
  <2> QED
    BY <2>2, <2>4, <2>6
<1>6. /\ ApiRetryCount \in Nat /\ ApiRetryCount' = ApiRetryCount + apiRetries
      /\ IsFiniteSet(ApiRetryEvents')
  <2> DEFINE E == ApiRetryEvents
             New == {n + 1} \X (1..apiRetries)
  <2>1. E = UNION {{i} \X (1..attempts[i].retries) : i \in 1..n}
    BY <1>1 DEF ApiRetryEvents
  <2>2. ApiRetryEvents' = UNION {{i} \X (1..attempts'[i].retries) : i \in 1..(n + 1)}
    BY <1>1 DEF ApiRetryEvents
  <2>3. ApiRetryEvents' = E \cup New
    <3>1. ASSUME NEW e PROVE e \in ApiRetryEvents' <=> e \in E \cup New
      <4>1. e \in E <=> \E i \in 1..n : e \in {i} \X (1..attempts[i].retries)
        BY <2>1
      <4>2. e \in ApiRetryEvents' <=>
               \E i \in 1..(n + 1) : e \in {i} \X (1..attempts'[i].retries)
        BY <2>2
      <4>3. attempts'[n + 1].retries = apiRetries
        BY <1>1, <1>2
      <4> HIDE DEF E
      <4> QED
        BY <1>1, <1>10, <4>1, <4>2, <4>3
    <3> QED
      BY <3>1
  <2>4. E \cap New = {}
    <3> SUFFICES ASSUME NEW e \in E, e \in New PROVE FALSE
      OBVIOUS
    <3>1. PICK i \in 1..n : e \in {i} \X (1..attempts[i].retries)
      BY <2>1
    <3>2. e[1] = i /\ e[1] = n + 1
      BY <3>1
    <3> QED
      BY <1>10, <3>2
  <2>5. IsFiniteSet(New) /\ Cardinality(New) = apiRetries
    <3>1. IsFiniteSet({n + 1}) /\ Cardinality({n + 1}) = 1
      BY FS_Singleton
    <3>2. IsFiniteSet(1..apiRetries) /\ Cardinality(1..apiRetries) = apiRetries
      BY <1>3, FS_Interval
    <3>3. IsFiniteSet(New) /\ Cardinality(New) = 1 * Cardinality(1..apiRetries)
      BY <3>1, <3>2, FS_Product
    <3> QED
      BY <1>3, <3>2, <3>3
  <2>6. IsFiniteSet(E) /\ Cardinality(E) \in Nat
    BY FS_CardinalityType
  <2>7. ApiRetryCount = Cardinality(E) /\ ApiRetryCount' = Cardinality(ApiRetryEvents')
    BY DEF ApiRetryCount
  <2> HIDE DEF E, New
  <2>8. /\ IsFiniteSet(E \cup New)
        /\ Cardinality(E \cup New) = Cardinality(E) + Cardinality(New) - Cardinality(E \cap New)
    BY <2>5, <2>6, FS_Union
  <2>9. Cardinality(E \cap New) = 0
    BY <2>4, FS_EmptySet
  <2> QED
    BY <1>3, <2>3, <2>5, <2>6, <2>7, <2>8, <2>9
<1> QED
  BY <1>4, <1>5, <1>6

\* The three counters of the record are numbers.
LEMMA CountTypes ==
    ASSUME LoopTypes, IsFiniteSet(ApiRetryEvents)
    PROVE  ToolCallCount \in Nat /\ AgentProposalCount \in Nat /\ ApiRetryCount \in Nat
<1>1. DOMAIN attempts = 1..Len(attempts) /\ Len(attempts) \in Int /\ 1 \in Int
  BY DEF LoopTypes
<1>2. IsFiniteSet(DOMAIN attempts)
  BY <1>1, FS_Interval
<1>3. /\ IsFiniteSet({i \in DOMAIN attempts : Executed(i)})
      /\ IsFiniteSet({i \in DOMAIN attempts : attempts[i].source = "gemini"})
  BY <1>2, FS_Subset
<1> QED
  BY <1>3, FS_CardinalityType DEF ToolCallCount, AgentProposalCount, ApiRetryCount

\* Every step keeps the accounts.
LEMMA StepAccounted == LoopTypes /\ Accounted /\ [Next]_loopVars => Accounted'
<1> SUFFICES ASSUME LoopTypes, Accounted, [Next]_loopVars PROVE Accounted'
  OBVIOUS
<1>1. CASE Record
  <2>1. /\ ToolCallCount \in Nat /\ AgentProposalCount \in Nat /\ ApiRetryCount \in Nat
        /\ ToolCallCount' = ToolCallCount + (IF result.ran THEN 1 ELSE 0)
        /\ AgentProposalCount' = AgentProposalCount + (IF source = "gemini" THEN 1 ELSE 0)
        /\ ApiRetryCount' = ApiRetryCount + apiRetries
        /\ IsFiniteSet(ApiRetryEvents')
    BY <1>1, RecordCounts DEF Accounted
  <2>2. /\ pc = "record" /\ pc' \in {"done", "propose"} /\ apiRetries' = 0
        /\ UNCHANGED <<requests, proposed, dispatched>>
    BY <1>1 DEF Record, NewRetries
  <2>3. /\ dispatched = ToolCallCount + (IF result.ran THEN 1 ELSE 0)
        /\ proposed = AgentProposalCount + (IF source = "gemini" THEN 1 ELSE 0)
        /\ requests = proposed + ApiRetryCount + apiRetries
    BY <2>2 DEF Accounted, Unfinished, Executing, Choosing
  <2>4. Executing' = 0 /\ (Unfinished' => Choosing' = 0)
    BY <2>2 DEF Executing, Choosing, Unfinished
  <2>5. /\ dispatched' = ToolCallCount' /\ proposed' = AgentProposalCount'
        /\ requests' = proposed' + ApiRetryCount'
    <3>1. apiRetries \in Nat /\ requests \in Nat /\ proposed \in Nat
      BY LoopAssumption DEF LoopTypes, TypeOK
    <3> QED
      BY <2>1, <2>2, <2>3, <3>1
  <2>6. /\ dispatched' \in Nat /\ proposed' \in Nat /\ requests' \in Nat
        /\ ToolCallCount' \in Nat /\ AgentProposalCount' \in Nat /\ ApiRetryCount' \in Nat
    BY <2>1, <2>2, <2>5 DEF LoopTypes, TypeOK
  <2>7. CallsAccounted'
    BY <2>5 DEF CallsAccounted
  <2> QED
    BY <2>1, <2>2, <2>4, <2>5, <2>6, <2>7 DEF Accounted
<1>2. CASE ~Record
  <2>1. attempts' = attempts
    BY <1>2 DEF Next, TakeSeed, ProposalRetried, Propose, ProposeFails, Gate, Execute, loopVars
  <2>2. /\ ApiRetryEvents' = ApiRetryEvents /\ ToolCallCount' = ToolCallCount
        /\ AgentProposalCount' = AgentProposalCount /\ ApiRetryCount' = ApiRetryCount
    BY <2>1 DEF ApiRetryEvents, ToolCallCount, AgentProposalCount, ApiRetryCount, Executed
  <2>3. /\ ToolCallCount \in Nat /\ AgentProposalCount \in Nat /\ ApiRetryCount \in Nat
        /\ requests \in Nat /\ proposed \in Nat /\ dispatched \in Nat /\ apiRetries \in Nat
    BY CountTypes, LoopAssumption DEF Accounted, LoopTypes, TypeOK
  <2>4. IsFiniteSet(ApiRetryEvents') /\ IsFiniteSet(ApiRetryEvents)
    BY <2>2 DEF Accounted
  <2>5. ASSUME pc \in {"propose", "gate", "execute"}
        PROVE  /\ dispatched = ToolCallCount
               /\ proposed = AgentProposalCount + Choosing
               /\ requests = proposed + ApiRetryCount + apiRetries
    BY <2>3, <2>5 DEF Accounted, Unfinished, Executing
  <2>6. CASE TakeSeed \/ Gate
    <3>1. /\ pc \in {"propose", "gate"} /\ pc' \in {"gate", "execute", "record"}
          /\ UNCHANGED <<requests, proposed, dispatched, apiRetries>>
          /\ Choosing' = Choosing /\ Executing' = 0
      BY <2>6 DEF TakeSeed, Gate, Choosing, Executing, NoResult
    <3> QED
      BY <2>2, <2>3, <2>4, <2>5, <3>1 DEF Accounted, CallsAccounted
  <2>7. CASE ProposalRetried
    <3>1. /\ pc = "propose" /\ pc' = "propose" /\ apiRetries' = apiRetries + 1
          /\ requests' = requests + 1 /\ UNCHANGED <<proposed, dispatched>>
      BY <2>7 DEF ProposalRetried, AsksModel
    <3>2. Choosing' = Choosing /\ Executing' = 0
      BY <3>1 DEF Choosing, Executing
    <3>3. requests' = proposed + ApiRetryCount + (apiRetries + 1)
      BY <2>3, <2>5, <3>1
    <3> QED
      BY <2>2, <2>3, <2>4, <2>5, <3>1, <3>2, <3>3 DEF Accounted, CallsAccounted
  <2>8. CASE Propose
    <3>1. /\ pc = "propose" /\ pc' = "gate" /\ source' = "gemini"
          /\ requests' = requests + 1 /\ proposed' = proposed + 1
          /\ UNCHANGED <<dispatched, apiRetries>>
      BY <2>8 DEF Propose, AsksModel
    <3>2. Choosing = 0 /\ Choosing' = 1 /\ Executing' = 0
      BY <3>1 DEF Choosing, Executing
    <3>3. requests' = proposed' + ApiRetryCount + apiRetries /\ proposed' = AgentProposalCount + 1
      BY <2>3, <2>5, <3>1, <3>2
    <3> QED
      BY <2>2, <2>3, <2>4, <2>5, <3>1, <3>2, <3>3 DEF Accounted, CallsAccounted
  <2>9. CASE ProposeFails
    <3>1. pc' = "raised"
      BY <2>9 DEF ProposeFails
    <3> QED
      BY <2>4, <3>1 DEF Accounted, CallsAccounted, Unfinished
  <2>10. CASE Execute
    <3>1. /\ pc = "execute" /\ pc' = "record" /\ dispatched' = dispatched + 1
          /\ UNCHANGED <<source, requests, proposed, apiRetries>>
      BY <2>10 DEF Execute
    <3>2. result'.ran
      BY <2>10, AnswersHonest DEF Execute, LoopTypes, TypeOK
    <3>3. Executing' = 1 /\ Choosing' = Choosing
      BY <3>1, <3>2 DEF Choosing, Executing
    <3>4. dispatched' = ToolCallCount + 1
      BY <2>3, <2>5, <3>1
    <3> QED
      BY <2>2, <2>3, <2>4, <2>5, <3>1, <3>3, <3>4 DEF Accounted, CallsAccounted
  <2>11. CASE UNCHANGED loopVars
    <3>1. /\ pc' = pc /\ UNCHANGED <<requests, proposed, dispatched, apiRetries>>
          /\ Choosing' = Choosing /\ Executing' = Executing
      BY <2>11 DEF loopVars, attempt, Choosing, Executing
    <3> QED
      BY <2>2, <3>1 DEF Accounted, CallsAccounted, Unfinished
  <2> QED
    BY <1>2, <2>6, <2>7, <2>8, <2>9, <2>10, <2>11 DEF Next
<1> QED
  BY <1>1, <1>2

\* A run begins with nothing to account for.
LEMMA InitAccounted == Init => Accounted
<1> SUFFICES ASSUME Init PROVE Accounted
  OBVIOUS
<1>1. attempts = << >> /\ DOMAIN attempts = {}
  BY DEF Init
<1>2. ApiRetryEvents = {} /\ {i \in DOMAIN attempts : Executed(i)} = {}
      /\ {i \in DOMAIN attempts : attempts[i].source = "gemini"} = {}
  BY <1>1 DEF ApiRetryEvents
<1>3. /\ ToolCallCount = 0 /\ AgentProposalCount = 0 /\ ApiRetryCount = 0
      /\ IsFiniteSet(ApiRetryEvents)
  BY <1>2, FS_EmptySet DEF ToolCallCount, AgentProposalCount, ApiRetryCount
<1>4. /\ pc = "propose" /\ dispatched = 0 /\ proposed = 0 /\ requests = 0 /\ apiRetries = 0
      /\ Executing = 0 /\ Choosing = 0
  BY DEF Init, Executing, Choosing
<1> QED
  BY <1>3, <1>4 DEF Accounted, CallsAccounted

\* The final record accounts for every executor call, every proposal and every
\* request that was made, each once, for any number of retries of either kind
\* (agentic_loop.py:154, 166-169, 178-183).
THEOREM EveryCallCounted == Spec => []CallsAccounted
<1>1. Accounted => CallsAccounted
  BY DEF Accounted
<1> QED
  BY <1>1, InitTypes, StepTypes, InitAccounted, StepAccounted, PTL DEF Spec

-----------------------------------------------------------------------------
\* All that is known of the loop, in one inductive invariant.
LoopHolds == LoopTypes /\ LoopInv /\ History /\ Retrying /\ Told /\ Accounted

\* The invariant holds when a run begins.
LEMMA InitLoop == Init => LoopHolds
<1>1. Init => LoopInv /\ History /\ Retrying /\ Told
  BY DEF Init, LoopInv, History, Retrying, Unfinished, Told
<1> QED
  BY <1>1, InitTypes, InitAccounted DEF LoopHolds

\* Every step of the loop keeps it.
LEMMA StepLoop == LoopHolds /\ [Next]_loopVars => LoopHolds'
  BY StepTypes, StepCleared, StepHistory, StepRetrying, StepTold, StepAccounted DEF LoopHolds

-----------------------------------------------------------------------------
\* Why a run ends: a measure that every step of the loop lowers.

\* The most steps one attempt takes.
StepsPerAttempt == MaxApiRetries + 4

\* The most steps this attempt has left.
StepsLeft == CASE pc = "propose" -> 4 + (MaxApiRetries - apiRetries)
               [] pc = "gate"    -> 3
               [] pc = "execute" -> 2
               [] pc = "record"  -> 1
               [] OTHER          -> 0

AttemptsLeft == MaxRetries + 1 - Len(attempts)

LoopMeasure ==
    (IF Unfinished THEN AttemptsLeft - 1 ELSE 0) * StepsPerAttempt + StepsLeft

LoopBound == (MaxRetries + 1) * StepsPerAttempt

\* A product with one more of its first factor.
LEMMA OneMore == \A a, b \in Nat : (a + 1) * b = a * b + b /\ a * b \in Nat
  BY SMT

\* A product grows with its first factor.
LEMMA TimesMonotone ==
    ASSUME NEW a \in Nat, NEW b \in Nat, NEW c \in Nat, a <= c
    PROVE  a * b <= c * b
<1>1. PICK d \in Nat : c = a + d
  <2>1. c - a \in Nat /\ c = a + (c - a)
    OBVIOUS
  <2> QED BY <2>1
<1>2. c * b = a * b + d * b
  BY <1>1, SMT
<1>3. d * b \in Nat /\ a * b \in Nat
  BY OneMore
<1> QED BY <1>2, <1>3

\* The measure is a number, no greater than its bound.
LEMMA MeasureType == LoopTypes => LoopMeasure \in 0..LoopBound
<1> SUFFICES ASSUME LoopTypes PROVE LoopMeasure \in 0..LoopBound
  OBVIOUS
<1>1. /\ MaxRetries \in Nat /\ MaxApiRetries \in Nat /\ StepsPerAttempt \in Nat
      /\ Len(attempts) \in Nat /\ apiRetries \in 0..MaxApiRetries
      /\ StepsPerAttempt = MaxApiRetries + 4
  BY LoopAssumption DEF LoopTypes, TypeOK, StepsPerAttempt
<1>2. StepsLeft \in 0..StepsPerAttempt
  BY <1>1 DEF StepsLeft
<1> DEFINE n == IF Unfinished THEN AttemptsLeft - 1 ELSE 0
<1>3. n \in 0..MaxRetries
  BY <1>1 DEF LoopTypes, Unfinished, AttemptsLeft
<1>4. n * StepsPerAttempt \in Nat /\ n * StepsPerAttempt <= MaxRetries * StepsPerAttempt
  BY <1>1, <1>3, OneMore, TimesMonotone
<1>5. LoopBound = MaxRetries * StepsPerAttempt + StepsPerAttempt
  BY <1>1, OneMore DEF LoopBound
<1>6. MaxRetries * StepsPerAttempt \in Nat
  BY <1>1, OneMore
<1>7. LoopMeasure = n * StepsPerAttempt + StepsLeft
  BY DEF LoopMeasure
<1> HIDE DEF n
<1> QED
  BY <1>1, <1>2, <1>4, <1>5, <1>6, <1>7

\* Every step of the loop lowers the measure: the steps of an attempt go on towards
\* Record, which leaves one attempt less.
LEMMA StepLowers ==
    ASSUME LoopTypes, Next
    PROVE  LoopMeasure' < LoopMeasure
<1>1. /\ MaxRetries \in Nat /\ MaxApiRetries \in Nat /\ StepsPerAttempt \in Nat
      /\ Len(attempts) \in Nat /\ apiRetries \in 0..MaxApiRetries
      /\ StepsPerAttempt = MaxApiRetries + 4 /\ StepsPerAttempt' = StepsPerAttempt
  BY LoopAssumption DEF LoopTypes, TypeOK, StepsPerAttempt
<1> DEFINE n == AttemptsLeft - 1
<1>2. Unfinished /\ n \in Nat /\ Len(attempts) <= MaxRetries
  BY <1>1 DEF Next, TakeSeed, ProposalRetried, Propose, ProposeFails, AsksModel, Gate, Execute,
              Record, LoopTypes, Unfinished, AttemptsLeft
<1>3. n * StepsPerAttempt \in Nat /\ LoopMeasure = n * StepsPerAttempt + StepsLeft
  BY <1>1, <1>2, OneMore DEF LoopMeasure
<1>4. CASE ~Record /\ ~ProposeFails
  <2>1. /\ attempts' = attempts /\ Unfinished' /\ StepsLeft' < StepsLeft
        /\ StepsLeft \in Nat /\ StepsLeft' \in Nat
    <3>1. CASE TakeSeed \/ Propose
      BY <1>1, <3>1 DEF TakeSeed, Propose, AsksModel, StepsLeft, Unfinished
    <3>2. CASE ProposalRetried
      BY <1>1, <3>2 DEF ProposalRetried, AsksModel, RetriesLeft, StepsLeft, Unfinished
    <3>3. CASE Gate \/ Execute
      BY <1>1, <3>3 DEF Gate, Execute, StepsLeft, Unfinished
    <3> QED
      BY <1>4, <3>1, <3>2, <3>3 DEF Next
  <2>2. LoopMeasure' = n * StepsPerAttempt + StepsLeft'
    BY <1>1, <2>1 DEF LoopMeasure, AttemptsLeft
  <2> HIDE DEF n
  <2> QED
    BY <1>3, <2>1, <2>2
<1>5. CASE ProposeFails
  <2>1. StepsLeft' = 0 /\ ~Unfinished' /\ StepsLeft \in Nat /\ StepsLeft > 0
    BY <1>1, <1>5 DEF ProposeFails, AsksModel, StepsLeft, Unfinished
  <2>2. LoopMeasure' = 0 * StepsPerAttempt + 0
    BY <1>1, <2>1 DEF LoopMeasure
  <2> HIDE DEF n
  <2> QED
    BY <1>1, <1>3, <2>1, <2>2
<1>6. CASE Record
  <2>1. StepsLeft = 1 /\ apiRetries' = 0 /\ Len(attempts') = Len(attempts) + 1
    BY <1>6, Recorded DEF Record, StepsLeft, NewRetries
  <2>2. CASE pc' = "done"
    <3>1. LoopMeasure' = 0 * StepsPerAttempt + 0
      BY <1>1, <2>2 DEF LoopMeasure, Unfinished, StepsLeft
    <3> HIDE DEF n
    <3> QED
      BY <1>1, <1>3, <2>1, <3>1
  <2>3. CASE pc' = "propose"
    <3>1. Unfinished' /\ StepsLeft' = StepsPerAttempt
      BY <1>1, <2>1, <2>3 DEF Unfinished, StepsLeft
    <3>2. Len(attempts) < MaxRetries
      BY <1>1, <1>6, <2>3 DEF Record, Stops
    <3>3. AttemptsLeft' - 1 = n - 1 /\ n - 1 \in Nat
      BY <1>1, <2>1, <3>2 DEF AttemptsLeft
    <3>4. LoopMeasure' = (n - 1) * StepsPerAttempt + StepsPerAttempt
      BY <1>1, <3>1, <3>3 DEF LoopMeasure
    <3>5. ((n - 1) + 1) * StepsPerAttempt = (n - 1) * StepsPerAttempt + StepsPerAttempt
      BY <1>1, <3>3, OneMore
    <3>6. (n - 1) + 1 = n
      BY <1>2
    <3>7. LoopMeasure' = n * StepsPerAttempt
      BY <3>4, <3>5, <3>6
    <3> HIDE DEF n
    <3> QED
      BY <1>3, <2>1, <3>7
  <2> QED
    BY <1>6, <2>2, <2>3 DEF Record
<1> QED
  BY <1>4, <1>5, <1>6

\* A run of the loop has at most LoopBound steps, whatever is proposed, answered or
\* blocked: each step lowers a number that begins no higher (agentic_loop.py:59-149,
\* gemini_agent.py:53-86).
THEOREM LoopDescends ==
    Spec => [](LoopMeasure \in 0..LoopBound) /\ [][LoopMeasure' < LoopMeasure]_loopVars
<1>1. LoopTypes /\ [Next]_loopVars => [LoopMeasure' < LoopMeasure]_loopVars
  BY StepLowers
<1> QED
  BY <1>1, MeasureType, InitTypes, StepTypes, PTL DEF Spec

-----------------------------------------------------------------------------
\* The suite: what it wrote, whatever was killed and started again.

RowType == [run : Nat, variant : Variants, whole : BOOLEAN,
            verification : {"DISABLED", "NOT_RUN", "PASS", "FAIL"}, success : BOOLEAN]

WarmupType == [run : Nat, whole : BOOLEAN, success : BOOLEAN]

SuiteTypes ==
    /\ suite \in {"idle", "clear", "clear_warmup", "warmup", "task", "loop"}
    /\ runs \in 0..MaxRuns /\ (suite # "idle" => runs > 0)
    /\ warmups \in Seq(WarmupType) /\ \A i \in DOMAIN warmups : warmups[i].run \in 1..runs
    /\ rows \in Seq(RowType) /\ Len(rows) <= Len(Plan)

\* A warm-up of process r passed.
Warmed(r) == \E i \in DOMAIN warmups : warmups[i].run = r /\ warmups[i].success

\* Between its warm-up and its end a process has the output to itself: all rows
\* are its own and whole, and one task of the schedule at least is left.
Writing ==
    /\ suite \in {"clear_warmup", "warmup"} => rows = << >>
    /\ suite \in {"task", "loop"} =>
         /\ \A i \in DOMAIN rows : rows[i].run = runs /\ rows[i].whole
         /\ Len(rows) < Len(Plan)
         /\ Warmed(runs)
    /\ suite = "loop" => variant = Plan[Len(rows) + 1]

Output == RowsFollowPlan /\ RowsSound

SuiteInv == LoopHolds /\ SuiteTypes /\ Writing /\ Output

\* What the suite adds to a file is one line at its end.
LEMMA Appended ==
    ASSUME NEW T, NEW s \in Seq(T), NEW line \in T, NEW t, t = Append(s, line)
    PROVE  /\ t \in Seq(T) /\ Len(s) \in Nat /\ Len(t) = Len(s) + 1
           /\ DOMAIN s = 1..Len(s) /\ DOMAIN t = 1..(Len(s) + 1)
           /\ \A i \in DOMAIN s : i \in DOMAIN t /\ t[i] = s[i]
           /\ Len(s) + 1 \in DOMAIN t /\ t[Len(s) + 1] = line
           /\ \A i \in DOMAIN t : i \in DOMAIN s \/ i = Len(s) + 1
  OBVIOUS

\* The rows of one process are counted by their number.
LEMMA RowsCounted ==
    ASSUME NEW s \in Seq(RowType), \A i \in DOMAIN s : s[i].run = runs
    PROVE  Rows(s) = Len(s)
<1>1. Len(s) \in Nat /\ DOMAIN s = 1..Len(s)
  OBVIOUS
<1>2. {i \in DOMAIN s : s[i].run = runs} = 1..Len(s)
  BY <1>1
<1>3. 1 \in Int /\ Len(s) \in Int
  BY <1>1
<1>4. Cardinality(1..Len(s)) = Len(s)
  <2>1. Cardinality(1..Len(s)) = IF 1 > Len(s) THEN 0 ELSE Len(s) - 1 + 1
    BY <1>3, FS_Interval
  <2> QED
    BY <1>1, <2>1
<1> QED
  BY <1>2, <1>4 DEF Rows

\* The loop of a task moves as the loop does, except when a task is started.
LEMMA LoopOrStart == [SuiteNext]_vars => StartTask \/ [Next]_loopVars
  BY DEF SuiteNext, SuiteStep, Start, ClearRows, ClearWarmup, Warmup, LoopStep, AppendRow,
         TaskRaises, Kill, vars

\* A task is started as the loop starts.
LEMMA StartIsInit ==
    ASSUME SuiteInv, StartTask
    PROVE  Init'
<1>1. Plan[Rows(rows) + 1] \in Variants
  <2>1. rows \in Seq(RowType) /\ Rows(rows) = Len(rows) /\ Len(rows) < Len(Plan)
    BY RowsCounted DEF StartTask, SuiteInv, SuiteTypes, Writing
  <2>2. Len(rows) + 1 \in 1..Len(Plan)
    BY <2>1, SuiteAssumption
  <2> QED
    BY <2>1, <2>2, SuiteAssumption
<1>2. seeded \in BOOLEAN /\ executor \in Executors
  BY DEF SuiteInv, LoopHolds, LoopTypes, TypeOK
<1> QED
  BY <1>1, <1>2 DEF StartTask, NewHistory, Init

\* Every step of the suite keeps what is known of the loop.
LEMMA StepSuiteLoop == SuiteInv /\ [SuiteNext]_vars => LoopHolds'
<1>1. SuiteInv /\ [SuiteNext]_vars => Init' \/ (LoopHolds /\ [Next]_loopVars)
  BY LoopOrStart, StartIsInit DEF SuiteInv
<1> QED
  BY <1>1, InitLoop, StepLoop, PTL

\* What is true of the two files and their process survives a step that writes to
\* neither and does not start a task.
LEMMA StepSuite ==
    ASSUME SuiteInv, [SuiteNext]_vars
    PROVE  SuiteTypes' /\ Writing' /\ Output'
<1> USE DEF SuiteInv, LoopHolds
<1>1. /\ MaxRuns \in Nat /\ Len(Plan) \in Nat /\ runs \in Nat /\ Len(rows) \in Nat
  BY SuiteAssumption DEF SuiteTypes
<1>2. CASE \E overwrite \in BOOLEAN : Start(overwrite)
  <2>1. PICK overwrite \in BOOLEAN : Start(overwrite)
    BY <1>2
  <2>2. /\ runs' = runs + 1 /\ runs < MaxRuns /\ UNCHANGED <<warmups, rows>>
        /\ suite' \in {"idle", "clear", "warmup"}
        /\ suite' = "warmup" => rows = << >>
    BY <2>1 DEF Start, MayStart
  <2>3. SuiteTypes'
    BY <1>1, <2>2 DEF SuiteTypes
  <2>4. Writing' /\ Output'
    BY <2>2 DEF Writing, Output, RowsFollowPlan, RowsSound
  <2> QED
    BY <2>3, <2>4
<1>3. CASE ClearRows
  BY <1>1, <1>3 DEF ClearRows, SuiteTypes, Writing, Output, RowsFollowPlan, RowsSound
<1>4. CASE ClearWarmup
  <2>1. /\ suite = "clear_warmup" /\ suite' = "warmup" /\ warmups' = << >>
        /\ UNCHANGED <<runs, rows>> /\ rows = << >>
    BY <1>4 DEF ClearWarmup, Writing
  <2> QED
    BY <1>1, <2>1 DEF SuiteTypes, Writing, Output, RowsFollowPlan, RowsSound
<1>5. CASE Warmup
  <2>1. PICK r \in Returned("mvin") \cup Raised("mvin") :
           /\ warmups' = Append(warmups, [run |-> runs, whole |-> TRUE,
                                          success |-> r.exit0 /\ r.verified])
           /\ suite' = IF r.exit0 /\ r.verified THEN "task" ELSE "idle"
    BY <1>5 DEF Warmup
  <2> DEFINE line == [run |-> runs, whole |-> TRUE, success |-> r.exit0 /\ r.verified]
  <2>2. line \in WarmupType /\ line.run = runs /\ (line.success <=> r.exit0 /\ r.verified)
    BY <1>1 DEF WarmupType
  <2>3. warmups' = Append(warmups, line)
    BY <2>1
  <2>4. /\ suite = "warmup" /\ UNCHANGED <<runs, rows>> /\ rows = << >>
        /\ suite' \in {"task", "idle"} /\ (suite' = "task" => line.success)
    BY <1>5, <2>1, <2>2 DEF Warmup, Writing
  <2> HIDE DEF line
  <2>5. /\ warmups' \in Seq(WarmupType)
        /\ \A i \in DOMAIN warmups' : \/ i \in DOMAIN warmups /\ warmups'[i] = warmups[i]
                                      \/ warmups'[i] = line
        /\ Len(warmups) + 1 \in DOMAIN warmups' /\ warmups'[Len(warmups) + 1] = line
    BY <2>2, <2>3, Appended DEF SuiteTypes
  <2>6. SuiteTypes'
    <3>1. runs \in 0..MaxRuns /\ runs \in 1..runs
      BY <1>1, <2>4 DEF SuiteTypes
    <3>2. \A i \in DOMAIN warmups' : warmups'[i].run \in 1..runs
      BY <2>2, <2>5, <3>1 DEF SuiteTypes
    <3>3. runs > 0
      BY <1>1, <2>4 DEF SuiteTypes
    <3>4. rows' \in Seq(RowType) /\ Len(rows') <= Len(Plan) /\ runs' = runs
      BY <2>4 DEF SuiteTypes
    <3>5. suite' \in {"idle", "clear", "clear_warmup", "warmup", "task", "loop"}
      BY <2>4
    <3>6. \A i \in DOMAIN warmups' : warmups'[i].run \in 1..runs'
      BY <3>2, <3>4
    <3> QED
      BY <2>5, <3>1, <3>3, <3>4, <3>5, <3>6 DEF SuiteTypes
  <2>7. suite' = "task" => Warmed(runs)'
    BY <2>2, <2>4, <2>5 DEF Warmed
  <2>8. Len(rows') < Len(Plan)
    BY <1>1, <2>4, SuiteAssumption
  <2>9. Writing'
    <3>1. \A i \in DOMAIN rows' : FALSE
      BY <2>4
    <3>2. suite' # "loop" /\ (suite' \in {"clear_warmup", "warmup"} => rows' = << >>)
      BY <2>4
    <3>3. suite' \in {"task", "loop"} => suite' = "task" /\ Warmed(runs)'
      BY <2>4, <2>7
    <3> QED
      BY <2>8, <3>1, <3>2, <3>3 DEF Writing
  <2>10. Output'
    BY <2>4 DEF Output, RowsFollowPlan, RowsSound
  <2> QED
    BY <2>6, <2>9, <2>10
<1>6. CASE StartTask
  <2>1. /\ suite = "task" /\ suite' = "loop" /\ UNCHANGED <<runs, warmups, rows>>
        /\ variant' = Plan[Rows(rows) + 1]
    BY <1>6 DEF StartTask
  <2>2. Rows(rows) = Len(rows)
    BY <2>1, RowsCounted DEF SuiteTypes, Writing
  <2>3. SuiteTypes' /\ Output'
    BY <2>1 DEF SuiteTypes, Output, RowsFollowPlan, RowsSound
  <2>4. Writing'
    BY <2>1, <2>2 DEF Writing, Warmed
  <2> QED
    BY <2>3, <2>4
<1>7. CASE LoopStep
  <2>1. UNCHANGED <<suite, runs, warmups, rows>> /\ variant' = variant
    BY <1>7 DEF LoopStep, suiteVars, Next, TakeSeed, ProposalRetried, Propose, ProposeFails, Gate,
                Execute, Record, task
  <2> QED
    BY <2>1 DEF SuiteTypes, Writing, Warmed, Output, RowsFollowPlan, RowsSound
<1>10. CASE TaskRaises
  <2>1. suite' = "idle" /\ UNCHANGED <<runs, warmups, rows>>
    BY <1>10 DEF TaskRaises
  <2> QED
    BY <2>1 DEF SuiteTypes, Writing, Output, RowsFollowPlan, RowsSound
<1>11. CASE UNCHANGED vars
  <2>1. UNCHANGED <<suite, runs, warmups, rows>> /\ variant' = variant
    BY <1>11 DEF vars, suiteVars, loopVars, task
  <2> QED
    BY <2>1 DEF SuiteTypes, Writing, Warmed, Output, RowsFollowPlan, RowsSound
<1>8. ASSUME NEW line \in RowType, rows' = Append(rows, line),
             suite = "loop", line.run = runs, UNCHANGED <<runs, warmups, variant>>,
             line.whole => line.variant = variant,
             line.success => line.verification \in {"PASS", "DISABLED"},
             suite' \in {"idle", "task"}, suite' = "task" => line.whole,
             suite' = "task" => Rows(rows') # Len(Plan)
      PROVE  SuiteTypes' /\ Writing' /\ Output'
  <2> DEFINE n == Len(rows)
  <2>1. /\ rows' \in Seq(RowType) /\ Len(rows') = n + 1 /\ DOMAIN rows = 1..n
        /\ \A i \in DOMAIN rows : i \in DOMAIN rows' /\ rows'[i] = rows[i]
        /\ n + 1 \in DOMAIN rows' /\ rows'[n + 1] = line
        /\ \A i \in DOMAIN rows' : i \in DOMAIN rows \/ i = n + 1
    BY <1>8, Appended DEF SuiteTypes
  <2>2. /\ \A i \in DOMAIN rows : rows[i].run = runs /\ rows[i].whole
        /\ n < Len(Plan) /\ Warmed(runs) /\ variant = Plan[n + 1]
    BY <1>8 DEF Writing
  <2>3. \A i \in DOMAIN rows' : rows'[i].run = runs
    BY <1>8, <2>1, <2>2
  <2>4. Len(rows') <= Len(Plan)
    BY <1>1, <2>1, <2>2
  <2>5. SuiteTypes'
    BY <1>8, <2>1, <2>4 DEF SuiteTypes
  <2>6. Writing'
    <3>1. suite' = "task" => \A i \in DOMAIN rows' : rows'[i].whole
      BY <1>8, <2>1, <2>2
    <3>2. suite' = "task" => Len(rows') < Len(Plan)
      <4>1. Rows(rows') = Len(rows')
        BY <2>1, <2>3, RowsCounted
      <4> QED
        BY <1>1, <1>8, <2>1, <2>4, <4>1
    <3> QED
      BY <1>8, <2>2, <2>3, <3>1, <3>2 DEF Writing, Warmed
  <2>7. RowsFollowPlan'
    <3>1. 1 \in DOMAIN rows'
      BY <1>1, <2>1
    <3>2. \A i \in DOMAIN rows : rows[i].variant = Plan[i]
      BY <2>2 DEF Output, RowsFollowPlan
    <3>3. \A i \in DOMAIN rows' : rows'[i].whole => rows'[i].variant = Plan[i]
      BY <1>8, <2>1, <2>2, <3>2
    <3>4. \A i \in DOMAIN rows' : ~rows'[i].whole => i = n + 1
      BY <2>1, <2>2
    <3> QED
      BY <2>1, <2>3, <3>1, <3>3, <3>4 DEF RowsFollowPlan
  <2>8. RowsSound'
    <3>1. 1 \in DOMAIN rows'
      BY <1>1, <2>1
    <3>2. \E i \in DOMAIN warmups' : warmups'[i].run = rows'[1].run /\ warmups'[i].success
      BY <1>8, <2>2, <2>3, <3>1 DEF Warmed
    <3>3. \A i \in DOMAIN rows' :
             rows'[i].success => rows'[i].verification \in {"PASS", "DISABLED"}
      BY <1>8, <2>1 DEF Output, RowsSound
    <3> QED
      BY <3>2, <3>3 DEF RowsSound
  <2> QED
    BY <2>5, <2>6, <2>7, <2>8 DEF Output
<1>9. CASE AppendRow
  <2> DEFINE line == Row(variant, Last.verification, Objective(Last.result, Last.action))
  <2>1. /\ rows' = Append(rows, line) /\ suite = "loop" /\ pc = "done"
        /\ suite' = IF Rows(rows') = Len(Plan) THEN "idle" ELSE "task"
        /\ UNCHANGED <<runs, warmups, variant>>
    BY <1>9 DEF AppendRow, loopVars, task
  <2>2. attempts \in Seq(Attempt) /\ attempts # << >>
    BY <2>1 DEF LoopTypes, History
  <2>3. Len(attempts) \in DOMAIN attempts
    BY <2>2
  <2>4. Last \in Attempt /\ Truthful(Last)
    BY <2>2, <2>3 DEF Last, History
  <2>5. Objective(Last.result, Last.action) =>
           Last.result.ran /\ Last.result.exit0 /\ Last.result.verified
    BY DEF Objective
  <2>6. Objective(Last.result, Last.action) => Last.verification \in {"PASS", "DISABLED"}
    BY <2>4, <2>5 DEF Truthful, Verification
  <2>7. Objective(Last.result, Last.action) \in BOOLEAN
    BY DEF Objective
  <2>8. Last.verification \in {"DISABLED", "NOT_RUN", "PASS", "FAIL"} /\ variant \in Variants
    BY <2>4 DEF Attempt, LoopTypes, TypeOK
  <2>9. /\ line \in RowType /\ line.run = runs /\ line.variant = variant /\ line.whole
        /\ line.success => line.verification \in {"PASS", "DISABLED"}
    BY <1>1, <2>6, <2>7, <2>8 DEF Row, RowType
  <2> HIDE DEF line
  <2> QED
    BY <1>8, <2>1, <2>9
<1>12. CASE Kill
  <2>1. suite' = "idle" /\ suite # "idle" /\ UNCHANGED <<runs, variant>>
    BY <1>12 DEF Kill, loopVars, task
  <2>2. CASE UNCHANGED <<warmups, rows>>
    BY <2>1, <2>2 DEF SuiteTypes, Writing, Output, RowsFollowPlan, RowsSound
  <2>3. CASE /\ suite = "warmup" /\ UNCHANGED rows
             /\ warmups' = Append(warmups, [run |-> runs, whole |-> FALSE, success |-> FALSE])
    <3> DEFINE line == [run |-> runs, whole |-> FALSE, success |-> FALSE]
    <3>1. line \in WarmupType /\ line.run = runs
      BY <1>1 DEF WarmupType
    <3>2. warmups' = Append(warmups, line)
      BY <2>3
    <3> HIDE DEF line
    <3>3. /\ warmups' \in Seq(WarmupType)
          /\ \A i \in DOMAIN warmups' : \/ i \in DOMAIN warmups /\ warmups'[i] = warmups[i]
                                        \/ warmups'[i] = line
      BY <3>1, <3>2, Appended DEF SuiteTypes
    <3>4. runs \in 0..MaxRuns /\ runs \in 1..runs
      BY <1>1, <2>1 DEF SuiteTypes
    <3>5. \A i \in DOMAIN warmups' : warmups'[i].run \in 1..runs
      BY <3>1, <3>3, <3>4 DEF SuiteTypes
    <3>6. SuiteTypes'
      BY <2>1, <2>3, <3>3, <3>4, <3>5 DEF SuiteTypes
    <3>7. rows' = << >>
      BY <2>3 DEF Writing
    <3>8. Writing' /\ Output'
      BY <2>1, <3>7 DEF Writing, Output, RowsFollowPlan, RowsSound
    <3> QED
      BY <3>6, <3>8
  <2>4. CASE /\ suite = "loop" /\ pc = "done" /\ UNCHANGED warmups
             /\ rows' = Append(rows, Torn)
    <3>1. Torn \in RowType /\ Torn.run = runs /\ ~Torn.whole /\ ~Torn.success
      BY <1>1 DEF Torn, RowType, Variants
    <3> QED
      BY <1>8, <2>1, <2>4, <3>1
  <2> QED
    BY <1>12, <2>2, <2>3, <2>4 DEF Kill
<1> QED
  BY <1>2, <1>3, <1>4, <1>5, <1>6, <1>7, <1>9, <1>10, <1>11, <1>12 DEF SuiteNext, SuiteStep

\* The invariant of the suite holds in every reachable state.
LEMMA SuiteInvHolds == SuiteSpec => []SuiteInv
<1>1. SuiteInit => SuiteInv
  <2> SUFFICES ASSUME SuiteInit PROVE SuiteInv
    OBVIOUS
  <2>1. LoopHolds
    BY InitLoop DEF SuiteInit
  <2>2. /\ suite = "idle" /\ runs = 0 /\ warmups = << >> /\ rows = << >>
    BY DEF SuiteInit
  <2>3. << >> \in Seq(WarmupType) /\ << >> \in Seq(RowType) /\ Len(<< >>) = 0
        /\ DOMAIN << >> = {}
    OBVIOUS
  <2>4. SuiteTypes
    BY <2>2, <2>3, SuiteAssumption DEF SuiteTypes
  <2>5. Writing /\ Output
    BY <2>2 DEF Writing, Output, RowsFollowPlan, RowsSound
  <2> QED
    BY <2>1, <2>4, <2>5 DEF SuiteInv
<1>2. SuiteInv /\ [SuiteNext]_vars => SuiteInv'
  BY StepSuiteLoop, StepSuite DEF SuiteInv
<1> QED
  BY <1>1, <1>2, PTL DEF SuiteSpec

\* The suite keeps its types, the loop's among them, for any schedule; it never
\* writes more rows than the schedule has entries (run_frozen_h1_suite.py:112).
THEOREM SuiteTypeCorrect == SuiteSpec => []SuiteTypeOK
<1>1. SuiteInv => SuiteTypeOK
  BY DEF SuiteInv, SuiteTypes, SuiteTypeOK, LoopHolds, LoopTypes
<1> QED
  BY <1>1, SuiteInvHolds, PTL

\* However often the suite is killed and started again, its output is a prefix of
\* the schedule, of one process and whole but for its last row
\* (run_frozen_h1_suite.py:80-86, 112-150).
THEOREM OutputIsPrefix == SuiteSpec => []RowsFollowPlan
<1>1. SuiteInv => RowsFollowPlan
  BY DEF SuiteInv, Output
<1> QED
  BY <1>1, SuiteInvHolds, PTL

\* Rows stand beside a passing warm-up of the process that wrote them, and no row
\* calls a failed verification a success (run_frozen_h1_suite.py:49-61, 106-108).
THEOREM OutputIsSound == SuiteSpec => []RowsSound
<1>1. SuiteInv => RowsSound
  BY DEF SuiteInv, Output
<1> QED
  BY <1>1, SuiteInvHolds, PTL
\* Each task of the suite keeps what a single run of the loop keeps, though the
\* tasks follow each other in one process and any of them may be killed: what it
\* executes is allowed, what it records is honest, complete and accounted for
\* (run_frozen_h1_suite.py:112-150, agentic_loop.py:51-184).
THEOREM TasksKeepTheLoop ==
    SuiteSpec => [](/\ ExecutedWasAllowed /\ RecoveredAfterFailure /\ FeedbackMatchesHistory
                    /\ CallsAccounted /\ CountersAgreeWithVerdict)
<1>1. SuiteInv => /\ ExecutedWasAllowed /\ RecoveredAfterFailure /\ FeedbackMatchesHistory
                  /\ CallsAccounted /\ CountersAgreeWithVerdict
  BY ClearedIsAllowed, RetriesRecover, ToldIsHistory, HonestCounters
     DEF SuiteInv, LoopHolds, Accounted
<1> QED
  BY <1>1, SuiteInvHolds, PTL
-----------------------------------------------------------------------------
\* Why a process of the suite ends: a measure that every step but a start lowers.

\* The most steps one task takes, with its start and its row.
StepsPerTask == LoopBound + 2

TasksLeft == Len(Plan) - Len(rows)

SuiteMeasure ==
    CASE suite = "clear"        -> Len(Plan) * StepsPerTask + 3
      [] suite = "clear_warmup" -> Len(Plan) * StepsPerTask + 2
      [] suite = "warmup"       -> Len(Plan) * StepsPerTask + 1
      [] suite = "task"         -> TasksLeft * StepsPerTask
      [] suite = "loop"         -> (TasksLeft - 1) * StepsPerTask + LoopMeasure + 1
      [] OTHER                  -> 0

\* What the steps below need to know of the products.
LEMMA TaskSteps ==
    ASSUME SuiteInv
    PROVE  /\ LoopBound \in Nat /\ StepsPerTask \in Nat /\ StepsPerTask = LoopBound + 2
           /\ Len(Plan) \in Nat /\ Len(rows) \in Nat
           /\ LoopMeasure \in 0..LoopBound
           /\ Len(Plan) * StepsPerTask \in Nat
           /\ TasksLeft \in Nat /\ TasksLeft * StepsPerTask \in Nat
           /\ suite \in {"task", "loop"} =>
                /\ TasksLeft - 1 \in Nat /\ (TasksLeft - 1) * StepsPerTask \in Nat
                /\ TasksLeft * StepsPerTask = (TasksLeft - 1) * StepsPerTask + StepsPerTask
<1>1. MaxRetries + 1 \in Nat /\ StepsPerAttempt \in Nat
  BY LoopAssumption DEF StepsPerAttempt
<1>2. LoopBound \in Nat
  BY <1>1, OneMore DEF LoopBound
<1>3. StepsPerTask \in Nat /\ StepsPerTask = LoopBound + 2
  BY <1>2 DEF StepsPerTask
<1>4. Len(Plan) \in Nat /\ Len(rows) \in Nat /\ Len(rows) <= Len(Plan)
  BY SuiteAssumption DEF SuiteInv, SuiteTypes
<1>5. TasksLeft \in Nat
  BY <1>4 DEF TasksLeft
<1>6. TasksLeft * StepsPerTask \in Nat /\ Len(Plan) * StepsPerTask \in Nat
  BY <1>3, <1>4, <1>5, OneMore
<1>7. ASSUME suite \in {"task", "loop"}
      PROVE  /\ TasksLeft - 1 \in Nat /\ (TasksLeft - 1) * StepsPerTask \in Nat
             /\ TasksLeft * StepsPerTask = (TasksLeft - 1) * StepsPerTask + StepsPerTask
  <2>1. Len(rows) < Len(Plan)
    BY <1>7 DEF SuiteInv, Writing
  <2>2. TasksLeft - 1 \in Nat /\ (TasksLeft - 1) + 1 = TasksLeft
    BY <1>4, <2>1 DEF TasksLeft
  <2> QED
    BY <1>3, <2>2, OneMore
<1>8. LoopMeasure \in 0..LoopBound
  BY MeasureType DEF SuiteInv, LoopHolds
<1> QED
  BY <1>2, <1>3, <1>4, <1>5, <1>6, <1>7, <1>8

\* The measure of the loop is a number in the next state too.
LEMMA MeasureTypeNext == LoopTypes' => (LoopMeasure \in 0..LoopBound)'
  BY MeasureType, PTL

\* Every step of a process, or its end, lowers the measure of the suite.
LEMMA SuiteStepLowers ==
    ASSUME SuiteInv, SuiteInv', SuiteStep \/ Kill
    PROVE  SuiteMeasure' < SuiteMeasure
<1> DEFINE P == StepsPerTask
           A == Len(Plan) * P
           T == TasksLeft * P
           B == (TasksLeft - 1) * P
<1>1. /\ LoopBound \in Nat /\ P = LoopBound + 2 /\ P \in Nat
      /\ Len(Plan) \in Nat /\ Len(rows) \in Nat /\ LoopMeasure \in 0..LoopBound
      /\ A \in Nat /\ T \in Nat
      /\ suite \in {"task", "loop"} => B \in Nat /\ T = B + P
  BY TaskSteps
<1>2. LoopMeasure' \in 0..LoopBound
  <2>1. LoopTypes'
    BY DEF SuiteInv, LoopHolds
  <2> QED
    BY <2>1, MeasureTypeNext DEF LoopBound, StepsPerAttempt
<1>3. P' = P /\ A' = A
  BY DEF StepsPerTask, LoopBound, StepsPerAttempt
<1>4. CASE ClearRows
  BY <1>1, <1>3, <1>4 DEF ClearRows, SuiteMeasure
<1>5. CASE ClearWarmup
  BY <1>1, <1>3, <1>5 DEF ClearWarmup, SuiteMeasure
<1>6. CASE Warmup
  <2>1. suite = "warmup" /\ rows' = rows /\ rows = << >> /\ suite' \in {"task", "idle"}
    BY <1>6 DEF Warmup, SuiteInv, Writing
  <2>2. TasksLeft' = Len(Plan)
    BY <1>1, <2>1 DEF TasksLeft
  <2>3. SuiteMeasure = A + 1 /\ SuiteMeasure' \in {A, 0}
    BY <1>3, <2>1, <2>2 DEF SuiteMeasure
  <2> HIDE DEF A
  <2> QED
    BY <1>1, <2>3
<1>7. CASE StartTask
  <2>1. suite = "task" /\ suite' = "loop" /\ rows' = rows
    BY <1>7 DEF StartTask
  <2>2. SuiteMeasure = T /\ SuiteMeasure' = B + LoopMeasure' + 1
    BY <1>3, <2>1 DEF SuiteMeasure, TasksLeft
  <2> HIDE DEF P, T, B
  <2> QED
    BY <1>1, <1>2, <2>1, <2>2
<1>8. CASE LoopStep
  <2>1. suite = "loop" /\ suite' = "loop" /\ rows' = rows /\ LoopMeasure' < LoopMeasure
    BY <1>8, StepLowers DEF LoopStep, suiteVars, SuiteInv, LoopHolds
  <2>2. SuiteMeasure = B + LoopMeasure + 1 /\ SuiteMeasure' = B + LoopMeasure' + 1
    BY <1>3, <2>1 DEF SuiteMeasure, TasksLeft
  <2> HIDE DEF P, T, B
  <2>3. B \in Nat /\ LoopMeasure \in Nat /\ LoopMeasure' \in Nat
    BY <1>1, <1>2, <2>1
  <2>4. \A x, y \in Nat : x < y => B + x + 1 < B + y + 1
    BY <2>3
  <2>5. B + LoopMeasure' + 1 < B + LoopMeasure + 1
    BY <2>1, <2>3, <2>4
  <2> QED
    BY <2>2, <2>5
<1>9. CASE AppendRow
  <2>1. suite = "loop" /\ suite' \in {"idle", "task"}
    BY <1>9 DEF AppendRow
  <2>2. TasksLeft' = TasksLeft - 1
    <3>1. Len(rows') = Len(rows) + 1
      BY <1>9 DEF AppendRow, SuiteInv, SuiteTypes
    <3> QED
      BY <1>1, <3>1 DEF TasksLeft
  <2>3. SuiteMeasure = B + LoopMeasure + 1 /\ SuiteMeasure' \in {B, 0}
    BY <1>3, <2>1, <2>2 DEF SuiteMeasure
  <2> HIDE DEF P, T, B
  <2> QED
    BY <1>1, <2>1, <2>3
<1>10. CASE TaskRaises \/ Kill
  <2>1. suite # "idle" /\ suite' = "idle"
    BY <1>10 DEF TaskRaises, Kill
  <2>2. SuiteMeasure' = 0
    BY <2>1 DEF SuiteMeasure
  <2>3. /\ suite \in {"clear", "clear_warmup", "warmup"} => SuiteMeasure \in {A + 1, A + 2, A + 3}
        /\ suite = "task" => SuiteMeasure = T
        /\ suite = "loop" => SuiteMeasure = B + LoopMeasure + 1
    BY DEF SuiteMeasure
  <2>4. suite \in {"clear", "clear_warmup", "warmup", "task", "loop"}
    BY <2>1 DEF SuiteInv, SuiteTypes
  <2> HIDE DEF P, T, B, A
  <2> QED
    BY <1>1, <2>2, <2>3, <2>4
<1> QED
  BY <1>4, <1>5, <1>6, <1>7, <1>8, <1>9, <1>10 DEF SuiteStep

\* A process of the suite makes boundedly many steps: each lowers a natural number
\* that only the start of a process raises (run_frozen_h1_suite.py:80-163).  That
\* it makes them is the fairness of the scheduler.
THEOREM SuiteDescends ==
    SuiteSpec => [][(\E overwrite \in BOOLEAN : Start(overwrite))
                       \/ SuiteMeasure' < SuiteMeasure]_vars
<1>1. SuiteInv /\ SuiteInv' /\ [SuiteNext]_vars
         => [(\E overwrite \in BOOLEAN : Start(overwrite)) \/ SuiteMeasure' < SuiteMeasure]_vars
  BY SuiteStepLowers DEF SuiteNext
<1> QED
  BY <1>1, SuiteInvHolds, PTL DEF SuiteSpec
=============================================================================
