---------------------------- MODULE AgenticLoop ----------------------------
(***************************************************************************)
(* One call of run_agentic_task (src/chia_work/agentic_loop.py) with the   *)
(* run_action of src/chia_work/runner.py inside it: propose, gate, execute,*)
(* verify and, under S4, repair.  A proposal is a series of requests       *)
(* (src/chia_work/gemini_agent.py), an execution of the Gemmini executors  *)
(* two builds and a simulation.  A step ends where the environment, the    *)
(* model service or an executor, answers.                                  *)
(***************************************************************************)
EXTENDS SafetyPolicy, FiniteSets

CONSTANTS
    Proposals,     \* the actions the model may propose, or a caller may seed
    MaxRetries,    \* max_retries of run_agentic_task
    MaxApiRetries  \* api_max_retries of GeminiTypedActionAgent

ASSUME LoopAssumption ==
    Proposals \subseteq Actions /\ MaxRetries \in Nat /\ MaxApiRetries \in Nat

VARIABLES
    variant,     \* U0 to S4
    seeded,      \* the caller supplied initial_action
    executor,    \* one of Executors
    pc,          \* where the loop is
    action,      \* the action of this attempt
    source,      \* where it came from
    decision,    \* what SafetyGate said of it, "NONE" under U0
    result,      \* the tool result of this attempt, or NoResult
    context,     \* the feedback the next proposal is given
    attempts,    \* the attempt history
    apiRetries,  \* the length of retry_events of this proposal
    requests,    \* ghost: requests sent to the model service
    proposed,    \* ghost: actions the model returned
    dispatched   \* ghost: executor calls

task == <<variant, seeded, executor>>
attempt == <<action, source, decision, result>>
loopVars == <<task, pc, attempt, context, attempts, apiRetries, requests, proposed,
              dispatched>>

\* ChiaLocalExecutor, and the executors of gemmini_mvin_mvout.py,
\* gemmini_sanity.py and gemmini_adapter.py.
Executors == {"chia", "mvin", "sanity", "build"}

NoAction == [kind |-> "NONE"]

-----------------------------------------------------------------------------
\* run_action

ToolResult == [ran : {TRUE}, status : {"success", "failed", "error"}, exit0 : BOOLEAN,
               verified : BOOLEAN, boundary : BOOLEAN]

NoResult == [ran |-> FALSE, status |-> "error", exit0 |-> FALSE, verified |-> FALSE,
             boundary |-> FALSE]

\* An executor that raises is recorded as an error; the CHIA adapter marks the
\* exception when it was past the boundary.
Raised(ex) == {r \in ToolResult : /\ r.status = "error" /\ ~r.exit0 /\ ~r.verified
                                  /\ r.boundary => ex = "chia"}

\* What a build or run node of CHIA returns; nothing ties the two fields.
NodeResult == [success : BOOLEAN, exit0 : BOOLEAN]

Outcome(status, exit0, verified) ==
    [ran |-> TRUE, status |-> status, exit0 |-> exit0, verified |-> verified,
     boundary |-> FALSE]

\* Mutant of Simulated: the marker alone verifies a run.
MarkerVerifies(ex, run, marker) ==
    Outcome(IF run.success THEN "success" ELSE "failed", run.exit0,
            IF ex = "mvin" THEN run.success /\ run.exit0 ELSE marker)

\* The run node answered.  mvin_mvout is its own oracle, by its exit code; the
\* sanity program must have printed its marker, whatever its exit code.
Simulated(ex, run, marker) ==
    Outcome(IF run.success THEN "success" ELSE "failed", run.exit0,
            run.success /\ IF ex = "mvin" THEN run.exit0 ELSE marker)

\* The simulator and the program are built at the same time, then the program
\* is run; the first of the three that failed gives the result.
Pipeline(ex, sim, program, run, marker) ==
    IF ~sim.success THEN Outcome("failed", sim.exit0, FALSE)
    ELSE IF ~program.success THEN Outcome("failed", program.exit0, FALSE)
    ELSE Simulated(ex, run, marker)

\* GemminiChiselBuildExecutor: a simulator is built and must not be empty.
Built(sim, binary) ==
    Outcome(IF sim.success THEN "success" ELSE "failed", sim.exit0,
            sim.success /\ sim.exit0 /\ binary)

\* What an executor returns, for every answer of the nodes behind it.  The
\* verified flag of the CHIA round trip is its own comparison of the answer.
Returned(ex) ==
    CASE ex = "chia" -> {r \in ToolResult : r.status = "success" /\ r.exit0 /\ r.boundary}
      [] ex \in {"mvin", "sanity"} ->
            {Pipeline(ex, sim, program, run, marker) :
               sim \in NodeResult, program \in NodeResult, run \in NodeResult,
               marker \in BOOLEAN}
      [] ex = "build" -> {Built(sim, binary) : sim \in NodeResult, binary \in BOOLEAN}

\* The Gemmini executors accept one kind of action each.
Accepts(ex, a) ==
    CASE ex = "chia" -> TRUE
      [] ex \in {"mvin", "sanity"} -> a.kind = "RUN_BENCHMARK"
      [] ex = "build" -> a.kind = "BUILD"

Answers(ex, a) == Raised(ex) \cup (IF Accepts(ex, a) THEN Returned(ex) ELSE {})

Verification(enabled, r) ==
    IF ~enabled THEN "DISABLED"
    ELSE IF ~r.ran THEN "NOT_RUN"
    ELSE IF r.exit0 /\ r.verified THEN "PASS" ELSE "FAIL"

\* Mutant of ExecutionCounters: a mismatch counts as a completion.
CountsUnverified(r) ==
    [entries |-> IF r.boundary THEN 1 ELSE 0,
     completions |-> IF r.boundary /\ r.status = "success" THEN 1 ELSE 0,
     failures |-> IF r.ran /\ r.status = "error" THEN 1 ELSE 0]

ExecutionCounters(r) ==
    [entries |-> IF r.boundary THEN 1 ELSE 0,
     completions |-> IF r.boundary /\ r.status = "success" /\ r.verified THEN 1 ELSE 0,
     failures |-> IF \/ r.boundary /\ (r.status # "success" \/ ~r.verified)
                     \/ r.ran /\ r.status = "error" THEN 1 ELSE 0]

-----------------------------------------------------------------------------
\* run_agentic_task

Init ==
    /\ variant \in Variants /\ seeded \in BOOLEAN /\ executor \in Executors
    /\ pc = "propose" /\ action = NoAction /\ source = "gemini"
    /\ decision = "NONE" /\ result = NoResult
    /\ context = << >> /\ attempts = << >>
    /\ apiRetries = 0 /\ requests = 0 /\ proposed = 0 /\ dispatched = 0

UsesSeed == seeded /\ attempts = << >>

TakeSeed ==
    /\ pc = "propose" /\ UsesSeed
    /\ pc' = "gate"
    /\ action' \in Proposals /\ source' = "controlled_seed"
    /\ UNCHANGED <<task, decision, result, context, attempts, apiRetries, requests, proposed,
                   dispatched>>

AsksModel == pc = "propose" /\ ~UsesSeed

\* Mutant of RetriesLeft: one request too many.
RetriesLeftLate == apiRetries <= MaxApiRetries

RetriesLeft == apiRetries < MaxApiRetries

\* The service answers 429 or 503 and the request is sent again.
ProposalRetried ==
    /\ AsksModel /\ RetriesLeft
    /\ apiRetries' = apiRetries + 1 /\ requests' = requests + 1
    /\ UNCHANGED <<task, pc, attempt, context, attempts, proposed, dispatched>>

Propose ==
    /\ AsksModel
    /\ pc' = "gate"
    /\ action' \in Proposals /\ source' = "gemini"
    /\ requests' = requests + 1 /\ proposed' = proposed + 1
    /\ UNCHANGED <<task, decision, result, context, attempts, apiRetries, dispatched>>

\* agent.propose raises: no credentials, and no request; a permanent error, a
\* last 429 or 503, or an answer that breaks the schema.
ProposeFails ==
    /\ AsksModel
    /\ pc' = "raised"
    /\ requests' \in {requests, requests + 1} /\ (requests' = requests => apiRetries = 0)
    /\ UNCHANGED <<task, attempt, context, attempts, apiRetries, proposed, dispatched>>

\* Mutant of Permits: only a denial stops an action.
StopsDenialsOnly(d) == d # "DENY"

Permits(d) == d \in {"NONE", "ALLOW"}

Gate ==
    /\ pc = "gate"
    /\ decision' = IF SafetyEnabled(variant)
                   THEN Evaluate(action, SemanticPolicyEnabled(variant)) ELSE "NONE"
    /\ result' = NoResult
    /\ pc' = IF Permits(decision') THEN "execute" ELSE "record"
    /\ UNCHANGED <<task, action, source, context, attempts, apiRetries, requests, proposed,
                   dispatched>>

Execute ==
    /\ pc = "execute"
    /\ pc' = "record"
    /\ result' \in Answers(executor, action)
    /\ dispatched' = dispatched + 1
    /\ UNCHANGED <<task, action, source, decision, context, attempts, apiRetries, requests,
                   proposed>>

SafetyBlocked == decision \in {"DENY", "REPAIR"}

VerificationFailed == Verification(VerificationEnabled(variant), result) = "FAIL"

\* Mutant of Stops: one attempt too many.
StopsLate == \/ ~RecoveryEnabled(variant)
             \/ ~SafetyBlocked /\ ~VerificationFailed
             \/ Len(attempts) > MaxRetries

\* Mutant of Stops: a passing attempt does not end the loop.
StopsAtCapOnly == ~RecoveryEnabled(variant) \/ Len(attempts) >= MaxRetries

\* The three conditions under which the loop ends after this attempt.
Stops == \/ ~RecoveryEnabled(variant)
         \/ ~SafetyBlocked /\ ~VerificationFailed
         \/ Len(attempts) >= MaxRetries

\* Mutant of Feedback: a denial is reported as a failed run.
FeedbackOnRepairOnly == IF decision = "REPAIR" THEN "rejected" ELSE "failed"

Feedback == IF SafetyBlocked THEN "rejected" ELSE "failed"

\* Mutant of NewRetries: the list of retry events outlives its proposal.
KeepsRetries == apiRetries

\* The next proposal begins a list of its own.
NewRetries == 0

Record ==
    /\ pc = "record"
    /\ attempts' = Append(attempts,
          [source |-> source, action |-> action, decision |-> decision, result |-> result,
           verification |-> Verification(VerificationEnabled(variant), result),
           retries |-> apiRetries, told |-> context])
    /\ apiRetries' = NewRetries
    /\ IF Stops THEN pc' = "done" /\ UNCHANGED context
       ELSE pc' = "propose" /\ context' = Append(context, Feedback)
    /\ UNCHANGED <<task, attempt, requests, proposed, dispatched>>

Next == \/ TakeSeed \/ ProposalRetried \/ Propose \/ ProposeFails
        \/ Gate \/ Execute \/ Record

Spec == Init /\ [][Next]_loopVars

-----------------------------------------------------------------------------
\* The final record

Executed(i) == attempts[i].result.ran

Last == attempts[Len(attempts)]

Recovered == /\ RecoveryEnabled(variant)
             /\ Len(attempts) > 1
             /\ Last.decision = "ALLOW"
             /\ VerificationEnabled(variant) => Last.verification = "PASS"

\* Mutant of ToolCallCount: retries that were blocked count as tool calls.
CountsAttempts == Len(attempts)

ToolCallCount == Cardinality({i \in DOMAIN attempts : Executed(i)})

AgentProposalCount == Cardinality({i \in DOMAIN attempts : attempts[i].source = "gemini"})

RetryCount == Len(attempts) - 1

\* The retry events of every attempt, one after the other.
ApiRetryEvents == UNION {{i} \X (1..attempts[i].retries) : i \in DOMAIN attempts}

ApiRetryCount == Cardinality(ApiRetryEvents)

-----------------------------------------------------------------------------
\* Type invariant of the module.
TypeOK ==
    /\ variant \in Variants /\ seeded \in BOOLEAN /\ executor \in Executors
    /\ pc \in {"propose", "gate", "execute", "record", "done", "raised"}
    /\ action \in Proposals \cup {NoAction} /\ source \in {"gemini", "controlled_seed"}
    /\ decision \in {"NONE", "ALLOW", "DENY", "REPAIR"}
    /\ result \in ToolResult \cup {NoResult}
    /\ context \in Seq({"rejected", "failed"})
    /\ \A i \in DOMAIN attempts : /\ attempts[i].action \in Proposals
                                 /\ attempts[i].result \in ToolResult \cup {NoResult}
    /\ Len(attempts) <= MaxRetries + 1
    /\ apiRetries \in 0..MaxApiRetries
    /\ requests \in Nat /\ proposed \in Nat /\ dispatched \in Nat

\* Whatever was proposed, corrected and proposed again, an action reached an
\* executor under S2 to S4 only if it is harmless by the generic rules and, for
\* a known target, is that target's own operation within its configuration and
\* budget (safety.py:97-217); a repair request never lets an action through.
ExecutedWasAllowed ==
    \A i \in DOMAIN attempts : Executed(i) /\ SemanticPolicyEnabled(variant) =>
        LET a == attempts[i].action
        IN  /\ a.kind # "SHELL" /\ a.command \notin {"blocked", "meta"}
            /\ a.target \in KnownTargets =>
                 /\ a.command = "own" /\ a.kind = RequiredKind(a.target)
                 /\ a.target # "smoke" => a.config = "approved" /\ a.budget = "ok"

\* A success is never retried, a run under S4 gives up only after all its
\* retries, and "recovered" is claimed exactly when the last of several attempts
\* passed (agentic_loop.py:130-135, 154-162).
RecoveredAfterFailure ==
    pc = "done" =>
        /\ \A i \in 1..RetryCount : ~Executed(i) \/ attempts[i].verification = "FAIL"
        /\ RecoveryEnabled(variant) => \/ Last.verification = "PASS"
                                       \/ RetryCount = MaxRetries
        /\ Recovered <=> RetryCount > 0 /\ Last.verification = "PASS"

\* Each proposal is told, in order, what became of every earlier attempt: that
\* it was rejected when it never ran, that it failed when it did
\* (agentic_loop.py:137-149).
FeedbackMatchesHistory ==
    \A i \in DOMAIN attempts :
        /\ Len(attempts[i].told) = i - 1
        /\ \A k \in 1..(i - 1) :
              attempts[i].told[k] = IF Executed(k) THEN "failed" ELSE "rejected"

\* The final record accounts for every call that was made: no executor call, no
\* proposal and no request to the model service is missing from it or counted
\* twice, and a seed is not a proposal (agentic_loop.py:154, 166-169, 178-183,
\* gemini_agent.py:53-86).
CallsAccounted ==
    pc = "done" => /\ ToolCallCount = dispatched
                   /\ AgentProposalCount = proposed
                   /\ AgentProposalCount + ApiRetryCount = requests

\* The verdict of a record agrees with its status and its counters, whatever
\* executor filled them in: a PASS is a success and holds no failure, a FAIL no
\* completion, nothing is both, and an entry past the boundary ended one way or
\* the other (runner.py:79-86, 111-117, gemmini_sanity.py:104-111,
\* gemmini_mvin_mvout.py:171-216).
CountersAgreeWithVerdict ==
    \A i \in DOMAIN attempts :
        LET c == ExecutionCounters(attempts[i].result)
        IN  /\ attempts[i].verification = "PASS" =>
                  c.failures = 0 /\ attempts[i].result.status = "success"
            /\ attempts[i].verification = "FAIL" => c.completions = 0
            /\ c.completions + c.failures <= 1
            /\ c.entries <= c.completions + c.failures

\* What a run executed is in the history it returns: "Every attempt is retained."
\* (agentic_loop.py:49).  A run that raises returns no history.
EveryAttemptRetained ==
    /\ pc = "done" => ToolCallCount = dispatched
    /\ pc = "raised" => dispatched = 0
=============================================================================
