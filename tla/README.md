# A verification project for chia-work

TLA+ modules, TLC configurations and TLAPS proofs for the Python program under
`src/`: an agent harness in which a council of model-driven roles proposes one
typed action, governance reviews it, a safety gate checks it and a child
process executes it on a CHIA/Ray cluster, while every step leaves hash-chained
evidence on disk. The second half of the program runs the same kind of action
in a propose / gate / execute / verify / repair loop for an ablation experiment
(variants U0 to S4).

Everything here is translated from the source. `PROJECT.json` maps each
definition to the lines it models.

## 1. Inventory

Paths are relative to `src/src/chia_work/` unless they start with `scripts/`.

| Part | State | Operations | Interacts with |
|---|---|---|---|
| Lifecycle stream, `observability.py` | `lifecycle_events.jsonl`, the flock on it, the `lifecycle/` artifacts | `append`, `terminal`, `persist`, `validate_lifecycle_artifacts`, `counters` | written by the gate and by its child, read by grounding |
| Takeover gate, `takeover_gate.py` | run directory, phase, call and invocation counters, proposal, reviews | `run`/`_run`: hierarchy, proposal, review, decision, request, dispatch, observation, synthesis | model calls, governance, artifact store, child by `subprocess.run` with a timeout |
| Child executor, `bridge/takeover_executor.py` | none of its own | validate, gate, execute, print one JSON line | started by the gate, appends to the same stream |
| CHIA adapter, `chia_adapter.py` | none | boundary event, remote call, digest check, result event | Ray |
| Grounding, `runtime_grounding.py` | none | classify artifacts, derive the execution state, refuse prompts | reads stream and index |
| Governance, `council/governance.py` | commitments, revealed flag, vetoes, decisions | `commit_review`, `reveal_all`, `record_veto`, `decide`, `persist_decision` | gate, artifact store |
| Artifact store, `council/artifacts.py` | files and `ledger/artifact-index.jsonl` | `write_json`, `write_text`: write once, then index | everything that leaves a record |
| Bridge, `bridge/council_chia_bridge.py` | none | `validate_request` | gate and child |
| Repair loop, `agentic_loop.py`, `runner.py`, `variants.py` | attempts, feedback | `run_agentic_task`, `run_action` | model, safety gate, executors |
| Safety policy, `safety.py`, `actions.py` | none | `evaluate` | loop, gate, child |
| Frozen suite, `scripts/run_frozen_h1_suite.py`, `structured_log.py` | two JSONL outputs | warm-up, tasks, rows | repair loop |
| Model calls, `council/agents.py` | retry counts, `_last_call_at` shared by all agents | `call`: pace, request, validate, retry, back off | gate, the Gemini service |
| Action proposals, `gemini_agent.py` | retry events of one proposal | `propose`, `_call_with_transient_retries` | loop, the Gemini service |
| Bootstrap harness, `council/harness.py`, `council/runtime.py` | limits, invocation counter, the artifacts its caller holds | `start`, `make_roles`, `create_l2`, `make_tasks`, `run_l3`, three report writers | artifact store |
| Gemmini executors, `gemmini_*.py` | none | build, workload, simulation | Chipyard nodes |
| Hardware pilot, `scripts/submit_hardware_pilot_*.sh`, `scripts/run_real_hardware_pilot.py` | two evidence files per pilot | refuse, submit; unlink, warm up, append rows | Ray, repair loop |
| Watchers, `scripts/watch_ray_job_evidence.sh`, `scripts/stop_and_freeze_ray_job.sh` | manifest, marker, copies, `logs/<job>.log` | poll or stop a job, freeze its files | Ray, the pilot's files |
| Schemas, preflight, reports | none | | |

What is hard in this code, and what it must get right:

* **One stream, two processes.** Gate and child append to one file under a
  flock; `terminal()` and `persist()` read it outside. The chain must never
  break, a terminal event must seal the stream, its counters must not claim
  what did not happen.
* **Short writes and kills.** `os.write` may write part of a line, fsync may
  fail, a process may die anywhere. What was acknowledged must not be missing from
  what a reader is given.
* **A gate restarted on its directory while its first child still runs.**
  Only write-once `mission.json` stands between that and a second execution.
* **A timeout against a late answer.** `subprocess.run(timeout=180)` kills the
  child; the verdict must not call a run rejected that crossed the boundary.
* **Swallowed evidence errors.** Appends are best effort; grounding, verdict
  and archive must not say more than the evidence does.
* **Budgets.** 20 model calls and 24 invocations have to suffice; each call may
  hide several service requests, and the wall time is only looked at before a call.
* **Retries.** Schema errors, transient errors and exceptions that hide others
  alternate in one loop, between sleeps measured against a shared clock.
* **Governance in any call order**, with reviewers who edit after committing.
* **Repair.** A corrected proposal is gated again, the feedback is about the
  attempt it follows, the counts and the `recovered` flag are about what ran.
* **A suite killed half way.** Its rows must not be continued by another run.
* **A directory written half way.** Files exist before they are complete,
  index lines can be torn, an operation of six writes can fail at each of them, and
  a second harness knows nothing of the first. Nothing may cite what is not there.
* **Evidence frozen by a process other than its writer.** The state of a job is
  known only from the text of a CLI that may fail; submissions may overlap.

## 2. Modules

| Module | Models | Notes |
|---|---|---|
| `LifecycleEvents` | event types, counters | shared by the next four |
| `EvidenceLog` | **abstract**: an append-only log closed by one terminal event | |
| `Lifecycle` | `ExecutionLifecycle`, one step per load, lock and write, any number of processes | implements `EvidenceLog` |
| `LifecycleProofs`, `LifecyclePromises` | theorems about `Lifecycle` | section 6 |
| `Grounding` | `build_execution_grounding` for one cycle | operators |
| `SingleExecution` | **abstract**: one decision, at most one request and one execution | |
| `TakeoverGate` | `GateRunner`, the child and the adapter, crash and restart | implements `SingleExecution` |
| `GateProofs` | theorems about `TakeoverGate` | section 6 |
| `Governance` | `Governance` in any call order | |
| `GovernanceProofs` | theorems about `Governance` | section 6 |
| `ArtifactStore` | `ArtifactStore` as the steps of one write, torn index lines, the readers | |
| `BootstrapHarness` | `BootstrapHarness` as lists of writes, with failures, kills and restarts | extends `ArtifactStore` |
| `BootstrapProofs` | theorems about `BootstrapHarness` and its store | section 6 |
| `ModelCall` | `ADKJsonAgent.call` under `GateRunner._call` and `_check_limits`, with time | |
| `ModelCallProofs` | theorems about `ModelCall` | section 6 |
| `SafetyPolicy` | `SafetyGate.evaluate`, the variants | operators |
| `AgenticLoop` | `run_agentic_task`, `run_action`, `propose` with its retries, what the executors answer | extends `SafetyPolicy` |
| `AgenticLoopProofs` | theorems about `AgenticLoop`, `SafetyPolicy` and `FrozenSuite` | section 6 |
| `FrozenSuite` | the frozen H1 suite around the loop | extends `AgenticLoop` |
| `PilotJobs` | hardware pilots as Ray jobs, the watcher, `stop_and_freeze` | |
| `PilotProofs` | theorems about `PilotJobs` | section 6 |
| `MC*` | instances for TLC | |

How state and steps correspond to the code:

* **`Lifecycle`.** `stream` holds the lines a verified reader accepts; `tail`
  says what follows the last accepted line: nothing, bytes that break the
  stream, or a complete line that lacks only its newline. `pc[p]` is the place of
  process `p` inside `append`, `terminal` or `persist`. A digest is a number
  that no two computed events share (in the code, a SHA-256 over text that holds
  the previous digest and a microsecond timestamp). `append` is call, `Acquire` (flock), `Compute` or `Refuse`
  (load, verify, check for a terminal event), then one of four ends of the write.
  `persist` is one step per artifact, each of which reads the stream again. `index` tells
  whether the artifact index still parses; the gate stores other artifacts in it (`Keeper`),
  and a write that fails or is killed may cut off its line there, too.
  The constant `ShortWrites` chooses how a short `os.write` may end: `"torn"`
  leaves a line no reader accepts, `"open"` leaves the whole line without its newline.
* **`TakeoverGate`.** `at` is the next step of `_run()`, one step per model
  call, artifact write, append or wait. A step that may raise in the code has an
  action that raises here (`StepFails`, `OverBudget`, `GroundingFails`,
  `RejectAction`, `MissionLocked`, `ChildFailed`, `TimesOut`); `HandleException`
  is the `except` block, `Close`, `Persist` and one `PersistPart` for each of the four
  artifacts what follows it. `copies` are the parts that were written whole, `cut` says that a gate
  was killed inside `persist()`. Appends are atomic here, which is what `EvidenceLog` says and `Lifecycle` implements; a fault
  drops an append or tears the stream. `child` runs beside the gate and goes on
  when the gate is killed. `ChildMayDeny` lets the child's SafetyGate deny what
  the gate's allowed; both evaluate the same policy, so it is more than the code does.
* **`Governance`.** A review is what its holder has at the moment; editing it
  after `commit_review` is an action, because the object is mutable and only its
  digest is kept. `reveal_all` sets `_revealed` first, as the code does. `commits` counts the
  accepted calls of `commit_review`, so that a review that replaces another is seen.
  The filter `v.valid` is left out: every veto `record_veto` makes is valid.
* **`ArtifactStore`.** A write is `Begin` (the path is free), `Open` (the file is
  there, empty), `Fill`, `Index`; `Interrupted` may end it between any two, and
  `IndexTorn` in the middle of the index line, which is then unreadable or lacks
  only its newline (`unended`). What is appended after that shares the line and is
  lost with it. The module has no `Next`: its user says what is written.
* **`BootstrapHarness`.** An operation is the list of its writes (`todo`); what it
  wrote so far is `got`, and joins `known` when the last write succeeded, which
  is when the code returns the records. `Raises` ends an operation, `Killed` also
  forgets what is known and sets the counter back, as a new process does.
  An artifact is named by its kind and the numbers of what it belongs to; the numbers are
  the `uuid4` identifiers, of which no two are equal. An operation's arguments are artifacts the
  caller holds. `write_l2_report` is given all leaf artifacts its caller holds for that L2.
* **`ModelCall`.** `now` is `time.monotonic()`. `SendPaced` is `_pace_calls` with its
  sleep, `Respond` the request, its answer and the `except` clauses, `Backoff` the sleep of a
  service retry. A reply is what the service answered and what closing the runner
  raised; `Verdict` is `is_transient_service_error` along `__cause__` and
  `__context__`. `Work` is everything else the gate does between calls: its writes, its decision,
  its child, for any time and also when the wall time is over.
* **`PilotJobs`.** `ray` is the state of a job, before that where its submit script
  is. `Says` is what the text of `ray job status` is taken for: the state, none,
  or a failure when the text is an error with that word in it (`misled`). Job, watcher and
  `stop_and_freeze` are processes that interleave at every file they touch.
  A killed watcher is dead; `StartWatch` is somebody who starts one, the first or another.
  Its marker is opened, which empties it, and then written.
  `pair` tells whether the files have the default names, which
  `stop_and_freeze` copies, or those a submit script names and guards.
* **`SafetyPolicy`.** The rules of `evaluate` as an ordered list, of which the
  first that applies decides. An action is reduced to what the rules look at.
* **`AgenticLoop`.** One iteration of the `for` is `TakeSeed` or `Propose` (or
  `ProposeFails`), each with the API retries of that proposal, `Gate`, `Execute`
  when allowed, and `Record`, which appends the attempt, decides whether to stop and
  writes the feedback. `Execute` answers as one of the executors does, the
  Gemmini pipeline by the way its build, workload and simulation end.
  `proposed`, `dispatched` and the like are ghosts that count the calls really made.
* **`FrozenSuite`.** `LoopStep` is a step of the loop while a task runs. `Kill`
  may fall inside `append_jsonl` and leave a torn row.

## 3. Runs

| Run | Configuration | What it shows | States |
|---|---|---|---|
| `lifecycle_log` | 2 processes, 4 calls, 2 faults, torn writes | the chain, `EvidenceLog` | 793k |
| `lifecycle_all_faults` | 2 processes, 4 calls, 1 fault, torn and open writes, fair | what readers are given, sealing, terminal counters, late persist, calls return | 219k |
| `gate` | 2 to 4 roles, 2 faults, 2 gate processes, fair | everything claimed of whole runs, the refinement, termination | 402k |
| `governance` | 2 proposals, 2 reviewers, 5 commits, edits | commitments bind, rejections are final, persisted decisions stand | 321k |
| `bootstrap` | 1 role, 2 tasks, 2 agents, 6 identifiers, 2 faults | what is indexed verifies and rests on what verifies, files are immutable, agents stay within their limit | 2.2M |
| `agentic_loop` | all variants and executors, 5 actions, 2 retries, 1 API retry | what is executed, told, counted, claimed recovered | 125k |
| `frozen_suite` | 3 processes, schedule of 3 | rows follow the schedule, warm-up, oracle, the suite ends | 32k |
| `model_call` | 2 budgeted calls, 1 schema retry, 2 backoffs, other work until time 36 | requests, asking time and pace bounded, retries earned, calls end | 956k |
| `pilot_jobs` | 2 submissions, watcher and `stop_and_freeze` on one, 1 fault | what is frozen and vouched for, whose rows may be lost, the marker comes | 1.3M |
| `lifecycle_lost_ack` | open writes | *violation*: an acknowledged event becomes unreadable | |
| `governance_reveal` | 1 proposal | *violation*: a decision after a reveal that raised | |
| `agentic_attempts_lost` | as `agentic_loop` | *violation*: executed attempts in no record | |

`CHECK_DEADLOCK FALSE` everywhere: calls, faults and starts are bounded, runs
and loops end, and a gate that may not be restarted any more has nothing to do.

### Bounds and why they are enough

* **Lifecycle.** Two processes are all there are (gate and child); four calls
  let both append, one terminate and one persist, in every interleaving, with a call
  left over to land on what a fault left. Two faults let a fault hit the result
  of another; one suffices with `"open"`, whose harm needs one fault and one
  append. The safety theorems hold for any number of processes, calls and faults.
* **Gate.** The prompt allows 2 to 4 roles; 3 is the most the budget carries
  (`ExpectedChainFits`), 4 runs out of it. `Reviews = 4` and the two limits are the
  code's. Two starts: the second follows a crash anywhere, inside `persist()` and
  during the first child's life included, or a run that is over; the safety theorems
  hold for any number of starts. Two faults: one append of the gate and one of the child, or
  an append and the archive.
* **Governance.** The comparison in `reveal_all` is over sets of reviewers, the
  rulings over vetoes of one proposal: two of each make them differ. Five commits
  (`MaxCommits`) are one for each pair and one that replaces another.
* **Loop.** Two retries are the default and what the manifest uses. The five actions
  go through the policy in every way that decides differently by variant.
* **Suite.** The schedule has a variant that executes everything, one that
  retries and one that verifies without retry; three processes allow two
  restarts, with and without `--overwrite`.
* **Harness.** Two tasks with a limit of two agents make both the limit per role and
  the total bite. Six identifiers let a cycle, a role, its tasks, two agents and one report be
  made, or a second cycle be tried. Two faults: a torn line and what is
  appended to it, or a write that raises and a harness started again.
* **Model call.** The retries are the code's (one schema retry, two backoffs). Two calls are
  what pacing and kept counters need. Time is in units of half the interval: latencies
  shorter than the interval and longer. Other work may begin until 36 (`LastWork`), beyond
  the wall time of 5 and the longest call of 28, so that a late call would break the bound.
* **Pilot jobs.** Two submissions are an overlap; the third file owner adds
  nothing to who loses rows to whom. One variant row and a warm-up line stand for a
  complete pilot, none for one that died early. Two polls: one before the last and the last.
  One fault is a misread status or a killed watcher, which another one may follow.

### Fairness

* `Lifecycle!FairSpec`: weak fairness of every step of a process that is
  running. The kernel schedules it, `os.write` and `fsync` return or raise.
  flock promises no order between waiters; weak fairness is enough since a
  bounded number of calls compete.
* `TakeoverGate!FairSpec`: weak fairness of the gate's own step. A model call
  returns or raises, and `subprocess.run` ends by its timeout. The child is owed
  nothing: `RunEnds` holds although it may hang. Kills are not fair.
* `ModelCall!FairSpec`: weak fairness of a call that was begun. The Gemini client is
  given no timeout, so that a request ends is owed to the service, not to this code.
* `PilotJobs!FairSpec`: a watcher that lives is scheduled, nobody is owed to start one, and `ray job status` tells the true
  state sooner or later; a failed poll is one not taken. Nothing else is fair, jobs may run for ever.
* `FrozenSuite!FairSuiteSpec`: the suite's process is scheduled, its executor and its
  model answer or raise.

## 4. Properties

Each module with variables that has a run has one type invariant. All are proved; `gate`
and `frozen_suite` also check theirs. The properties, by the hazard they are about:

* *Stream*: `ChainUnbroken`, `TerminalSeals`, `ReadsOnlyGrow`, `AckedReadable` (violated),
  `TerminalNeverOverclaims`, `LatePersistValidates`, `CallsReturn`,
  `ImplementsEvidenceLog`.
* *Restarts and races of the gate*: `ImplementsSingleExecution`,
  `DispatchIsGoverned`, `PreExecutionVerdict`, `ArchiveComplete`, `RunEnds`.
* *Evidence against claims*: `EvidenceSound`, `GroundingTruthful`.
* *Budget and time*: `ExpectedChainFits`, `RequestsBounded`, `OvertimeBounded`.
* *Retries*: `RetriesAreEarned`, `RequestsPaced`, `CallEnds`.
* *Governance*: `CommitmentsBind`, `DecisionsStand`, `DecidedAfterReveal`.
* *Store and hierarchy*: `IndexSound`, `Immutable`, `LineageVerified`, `AgentsBounded`.
* *Loop*: `ExecutedWasAllowed`, `RecoveredAfterFailure`,
  `FeedbackMatchesHistory`, `CallsAccounted`, `CountersAgreeWithVerdict`,
  `EveryAttemptRetained`.
* *Suite*: `RowsFollowPlan`, `RowsSound`, `SuiteEnds`.
* *Pilots*: `FrozenWhenOver`, `ManifestsVouch`, `OnlyOverlapsLoseRows`, `TerminalIsMarked`.

Definitions whose comment begins "Mutant of" are plausible mistakes in the code.
Each property has one that makes its run fail; none is part of a specification.

## 5. Where code and documentation differ

Shown by a violation run each:

1. **A lost newline loses an acknowledged event** (`observability.py:128`). The bytes
   of a short write stay. If only the newline is missing the line verifies, the next
   `append()` returns normally, and both are unreadable from then on.
2. **`decide()` after a failed reveal** (`council/governance.py:45`).
3. **Attempts are lost when a retry's proposal raises** (`agentic_loop.py:69`).

Known deviations that no violation run shows. Most of them are the reason for a condition in a
property that does hold:

* With four roles a full run needs 1 + 3*4 + 1 + 1 + 4 + 1 + 1 = 21 model calls and
  `max_model_calls` is 20 (`takeover_gate.py:217`), though the prompt allows 2 to 4 roles
  (`takeover_gate.py:401`): it raises before its last call, after it executed.
  Hence the three roles of `ExpectedChainFits`.
* A step that fails after a verified execution makes the run's terminal status
  EXECUTION_FAILED (`takeover_gate.py:335`), while the grounding of the same evidence says
  COMPLETED: only the boundary count is looked at.
* A run that fails before `mission.json` is written closes the stream but does
  not lock the directory. A second run with the same `TAKEOVER_RUN_ID` gets to
  the executor with every append refused: an execution without evidence. Hence
  `starts = 1` in `EvidenceSound` and `GroundingTruthful`.
* The restarted gate picks its terminal status from counters that a surviving
  child of the first may still change: STOPPED beside a boundary entry. Hence
  `starts = 1` in `PreExecutionVerdict`.
* After a torn write every reader raises for good, and with it `terminal()` and `persist()`:
  what was acknowledged is on disk and no method returns it. Hence `~Unreadable'` in
  `ReadsOnlyGrow`.
* `persist()` does not look at the artifact index; the validator reads it first, whole
  (`observability.py:220-224`). A line that any failed write cut off there makes it reject a
  `persist()` that completed. Hence `IndexParses` in `LatePersistValidates`.
* A gate killed inside `persist()` leaves part of the four write-once artifacts, perhaps one half
  written. A restarted gate can neither replace nor complete them and swallows the refusal.
  Hence `cut` in `ArchiveComplete`.
* `max_wall_time` is looked at before model calls only (`takeover_gate.py:215`). After a
  last review that came late the gate still decides and runs its child, for up to 180 s, and
  raises at the next call (lines 489-547). Hence `OvertimeBounded` bounds the asking, not the run.
* A watcher that is killed is started by nobody, and leaves a marker half written if it was
  killed in it. Hence `watch = "dead"` in `TerminalIsMarked`.
* `terminal()` reads the counters before it takes the lock. They may be too
  small, never too large: `TerminalNeverOverclaims` is one-sided.
* A fragment left by a failed append makes the next grounded prompt raise, so a
  "best-effort" write does change the run. Hence `faults = 0` in the
  properties about what evidence must exist.
* `reveal_all` compares the reviewers of all proposals together: with
  two proposals one may be decided without a required review. A second `decide()`
  after a late veto replaces a record marked immutable; what is on disk stands
  (`DecisionsStand`).
* Two writers of one path both find it free; `Immutable` holds for one writer.
* A Gemmini run whose simulation fails has verification FAIL and no execution
  failure in its counters: it has no boundary and its status is not "error".
* `max_l2_per_cycle` and `max_l3_per_l2` bound one call of `make_roles` or
  `make_tasks` each, not the cycle or the L2; `max_model_calls`, `max_cycles` and
  `max_wall_time` of the harness are never looked at. What does bound a run
  directory is `mission.json`, which admits one cycle (`AgentsBounded`). By the same file, a crash
  between it and `cycle.json` locks the directory for good.
* A torn index line makes `all_refs()` raise for the whole directory. Hence
  `AllRefsReads` in `LineageVerified`.
* Both evidence scripts take an error text that contains "failed" for the state
  FAILED, although `stop_and_freeze_ray_job.sh:44` is "refusing to guess"; and
  `stop_and_freeze` goes on after its 30 polls when the job still runs. Hence `misled` and
  `polls = MaxPolls` in `FrozenWhenOver` and `ManifestsVouch`.
* Two submissions that overlap both find the files free, and the later job unlinks the rows
  of the earlier: the case `OnlyOverlapsLoseRows` leaves out.
* `stop_and_freeze` copies the default file names, not those the submit scripts
  name: of such a pilot it freezes only the logs. And both scripts save the log as
  `logs/<job>.log`, so the second makes the first one's hash stale.
* An mvin_mvout binary that is already there is used without `force_build`,
  whatever source it was built from (`gemmini_mvin_mvout.py:114`). When the `get()` of the
  simulator raises, nobody waits for the workload build that runs beside it (line 168).
* The objective oracle of the suite looks at the configuration and not at
  the checkout: under U0 and S1 a success may be of another checkout.

## 6. Proofs

TLAPS proves these for every value of the constants that the named assumptions admit:
any set of processes, number of calls and faults and (where not said) any `ShortWrites`;
any number of roles and reviews, budgets, faults and gate processes on one directory;
any set of proposals, number of retries and frozen schedule; any limits, backoffs, interval
and latencies; any proposals and reviewers; any limits of a harness, number of artifacts,
faults and restarts; any jobs, polls and faults. Every safety property of a passing run is
among them, the refinements included.

| Theorem | Module | Property |
|---|---|---|
| `TypeCorrect` | `LifecycleProofs` | the type invariant |
| `InvariantHolds` | `LifecycleProofs` | `ChainInv`, the inductive invariant |
| `ChainHolds` | `LifecycleProofs` | `ChainUnbroken` |
| `SealHolds` | `LifecycleProofs` | `TerminalSeals` |
| `ReadersNeverLose` | `LifecyclePromises` | `ReadsOnlyGrow` |
| `Implementation` | `LifecyclePromises` | `ImplementsEvidenceLog`, when `"open" \notin ShortWrites` |
| `NeverOverclaims` | `LifecyclePromises` | `TerminalNeverOverclaims` |
| `LatePersistHolds` | `LifecyclePromises` | `LatePersistValidates` |
| `CallsDescend` | `LifecycleProofs` | a call takes at most 9 steps, waiters wait for one nearer its end |
| `TypeCorrect` | `GateProofs` | `TypeOK` of the gate |
| `GovernedDispatch` | `GateProofs` | `DispatchIsGoverned` |
| `OneExecution` | `GateProofs` | `ImplementsSingleExecution` |
| `ChainFits` | `GateProofs` | `ExpectedChainFits`, when `14 + Reviews <= MaxModelCalls` |
| `CompleteArchive` | `GateProofs` | `ArchiveComplete` |
| `VerdictBeforeExecution` | `GateProofs` | `PreExecutionVerdict` |
| `SoundEvidence` | `GateProofs` | `EvidenceSound` |
| `TruthfulGrounding` | `GateProofs` | `GroundingTruthful` |
| `GateDescends` | `GateProofs` | a gate process takes at most 16 * `max_model_calls` + 15 steps |
| `LoopTypeCorrect` | `AgenticLoopProofs` | the type invariant of the loop |
| `ExecutedIsAllowed` | `AgenticLoopProofs` | `ExecutedWasAllowed` |
| `SemanticOnlyNarrows` | `AgenticLoopProofs` | what S2 allows, S1 allows |
| `OwnOperationPasses` | `AgenticLoopProofs` | what the policy is meant to allow, it allows |
| `VerdictAgrees` | `AgenticLoopProofs` | `CountersAgreeWithVerdict` |
| `RecoveryIsEarned` | `AgenticLoopProofs` | `RecoveredAfterFailure` |
| `FeedbackIsHistory` | `AgenticLoopProofs` | `FeedbackMatchesHistory` |
| `EveryCallCounted` | `AgenticLoopProofs` | `CallsAccounted` |
| `LoopDescends` | `AgenticLoopProofs` | a run takes at most (retries + 1) * (API retries + 4) steps |
| `SuiteTypeCorrect` | `AgenticLoopProofs` | `SuiteTypeOK` |
| `OutputIsPrefix` | `AgenticLoopProofs` | `RowsFollowPlan` |
| `OutputIsSound` | `AgenticLoopProofs` | `RowsSound` |
| `TasksKeepTheLoop` | `AgenticLoopProofs` | the loop's properties, in every task of the suite |
| `SuiteDescends` | `AgenticLoopProofs` | every step of a suite process but its start lowers a number |
| `TypeCorrect` | `ModelCallProofs` | the type invariant of a call |
| `RequestsAreBounded` | `ModelCallProofs` | `RequestsBounded` |
| `OvertimeIsBounded` | `ModelCallProofs` | `OvertimeBounded` |
| `RequestsArePaced` | `ModelCallProofs` | `RequestsPaced` |
| `EveryRetryIsEarned` | `ModelCallProofs` | `RetriesAreEarned` |
| `CallDescends` | `ModelCallProofs` | every step of a call lowers a number |
| `TypeCorrect` | `GovernanceProofs` | the type invariant of governance |
| `CommitmentsAreBinding` | `GovernanceProofs` | `CommitmentsBind` |
| `DecisionsAreFinal` | `GovernanceProofs` | `DecisionsStand` |
| `TypeCorrect` | `BootstrapProofs` | the type invariant of harness and store |
| `IndexIsSound` | `BootstrapProofs` | `IndexSound` |
| `ArtifactsAreImmutable` | `BootstrapProofs` | `Immutable` |
| `LineageIsVerified` | `BootstrapProofs` | `LineageVerified` |
| `AgentsAreBounded` | `BootstrapProofs` | `AgentsBounded` |
| `TypeCorrect` | `PilotProofs` | the type invariant of the pilots |
| `RowsAreGuarded` | `PilotProofs` | `OnlyOverlapsLoseRows` |
| `FrozenIsOver` | `PilotProofs` | `FrozenWhenOver` |
| `ManifestsAreTrue` | `PilotProofs` | `ManifestsVouch` |

The argument for the stream. `ChainUnbroken` is not inductive: that an event extends the last
digest is decided in `Compute` and used in `Write`, some steps later. `ChainInv`
adds that whoever is past the flock holds it, and that what a process inside the lock
computed from the stream is still true of it. From it follow the chain and, because
`Compute` refuses a sealed stream, that a terminal event is final. The other
theorems each add a conjunct:

* `ReadsOnlyGrow` needs `ShowsAcked`, that while no reader raises every acknowledged event is
  a line of the stream, and that no step turns a stream that raises into one that reads.
* `ImplementsEvidenceLog` needs that the tail never holds a readable line (`NeverOpen`),
  which is where the condition on `ShortWrites` comes from: with `"open"` an event is read
  and lost again, as `lifecycle_lost_ack` shows.
* `TerminalNeverOverclaims` needs `SeenBacked`: what `terminal()` has counted
  is in the stream, which only grows.
* `LatePersistValidates` needs `PersistInv`: once the stream is sealed every
  snapshot `persist()` takes is of the same stream, so files written in
  different calls agree. They validate while the index parses.

The argument for the gate. What makes the one execution unique is `mission.json`: the first
file of a run, which the store never replaces. `WriteOnce` says that while it is not there
nothing else of a run is, and that a gate process past the step that writes it is the one that
wrote it, so a second decision, request or dispatch has no process to come from.
`Dispatched` says what the child was started for and that it dispatches once, whether or not its
gate still lives; `Passing` that a run on its way to PASS has collected a verified answer.
These three (`Control`) are inductive and give `DispatchIsGoverned` and, step by step, the
refinement of `SingleExecution`. The rest is about the evidence of such a run:

* `Chain` gives the number of calls made at each step as a function of the roles and reviews
  done, which is what the budget has to exceed. `ChainFits` assumes that it does for three
  roles: 14 calls and one per review. The code has 4 review functions and a limit of 20
  (`takeover_gate.py:35-39`).
* `EventsOf` says which events there can be whatever was lost: none without what it
  reports. `Whole` says which there must be when nothing was lost. With the order of the
  events (`Ordered`) they are `Evidence`, from which the archive and the general part of
  `EvidenceSound` and `GroundingTruthful` follow for every run.
* `FirstRun` says that in a first run the stream stays open until the run ends, and
  that then its child has ended, too: a timeout kills it before the verdict is written.
  Without it `PreExecutionVerdict` would not survive a child that enters the boundary late.
* `Story` gives the stream of a first run that lost nothing, line by line at each step. It is
  what the final synthesis is grounded in and what `TAKEOVER_GATE_PASS` rests on.

The argument for the loop. No rule of the policy allows anything: an action is
allowed when no rule applies to it (`AllowedHitsNothing`), so it satisfies the
negation of every rule's condition (`AllowedIsSafe`), and since the generic rules
come first in both lists S2 narrows S1. `ExecutedWasAllowed` is not inductive:
it says nothing of an action that has passed the gate and is not yet recorded.
`LoopInv` adds that such an action was cleared. The other properties speak of a finished run or
of recorded attempts, and need to know what is under way: `History` that a recorded attempt
ran exactly if the policy let it and has the verification of its result; `Retrying` that while
the loop runs everything it recorded missed; `Told` that the feedback grows with the
attempts; `Accounted` that each call made so far is recorded or belongs to the attempt
under way. The last compares sums over all attempts with counters; the lemmas on how
such a sum grows by one attempt are proved from cardinalities, without induction.

The argument for the suite. `StartTask` puts the loop back into an initial state, and every
step of a task is a step of the loop or leaves it alone, so the loop's invariant
(`LoopHolds`) is one of the suite (`TasksKeepTheLoop`). `Writing` adds that from its warm-up to
its end a process has the output to itself: the output was absent or has been removed, all rows
are its own and whole, and a task is left to run. A killed process may leave a torn row, but the
next one refuses to start beside it, or removes it first.

The argument for a model call. Each reply of the call in progress was paid for by a
retry counter or is the last one, and the counters have bounds; `OvertimeBounded`
adds that a call begins inside the wall time, whatever time passed between the calls, and that
each of its requests and sleeps has a longest duration (`TimeCounted`); `RequestsPaced` that `_last_call_at` is the start of the last request.
`Earned` ties the retry counters to the replies seen: `schema_attempts` is the number of bad
answers among them and `service_retries` that of transient ones.

The argument for governance. A review is shown only after `_revealed` was set
(`ShownOnlyRevealed`), after which `commit_review` refuses every review, hidden or not; a rejected proposal still has
the veto it was rejected for (`RejectedIsVetoed`), so a later ruling is the same.

The argument for store and harness. `StoreInv` says what is on disk between the steps of a
write: the path being written is not indexed, an indexed one holds what its line says
and has one line. `PlanInv` says of every operation that a write cites only what its caller
held or what comes earlier in the list, and that the role of a held agent is held. `Cited`
joins them: while the index reads, what is held is indexed, so the line that is appended
cites earlier lines; a torn line falsifies the premise for good, because lines are never
repaired. `AgentsBounded` rests on `MissionFirst`: a harness that holds nothing writes
`mission.json` before all others or nothing at all, so the only harness that creates agents
is the one whose counter has counted them all.

The argument for pilots. A job past its warm-up has left a line, which stays until a job
unlinks it, and only a job that was checked before does that (`OnlyOverlapsLoseRows`). An
ended job writes nothing, so what a script copied or hashed when the last job had ended is
still there when it finishes (`ManifestsVouch`).

Why things end. Five theorems give a number that every step of a call, of a gate process, of
the loop, of a suite process or of a model call lowers, faults and failures
included. The liveness runs then check what is left: that such a step can be taken
until the end is reached, and is, under the fairness of section 3.

Each inductive invariant of the gate, the loop and the suite was model-checked on the instance
of its run before it was proved.

The assumptions are those named in the modules (`GateAssumption`, `LifecycleAssumption`,
`LoopAssumption`, `CallAssumption` and so on) and, for `Implementation` and
`ChainFits`, the conditions in the table. One
idealisation is in the models and not in the proofs: digests do not collide.

Only model-checked: liveness (`CallsReturn`, `RunEnds`, `SuiteEnds`, `CallEnds`,
`TerminalIsMarked`; fairness and ENABLED are beyond the prover). The three violations are
counterexamples and need no proof.

## 7. What is not modelled

* The text of events, prompts and records. One effect of it is known:
  `splitlines()` also splits at U+2028, U+2029 and U+0085, which are written unescaped,
  so an event that holds one makes the stream unreadable. To a run that is a torn
  stream, which `TakeoverGate` has.
* JSON that parses and is not what the reader expects.
* The recursive search for shell keys in the bridge (`_reject_shell`): what `_run`
  builds has none, and it is a look-up without state.
* Several cycles in one stream: a gate writes one cycle per directory.
* The build trees: the two concurrent builds of `gemmini_mvin_mvout.py` and who holds the
  Chipyard directory. What an executor answers is modelled for every way its nodes end.
* Two harnesses that run over one directory at the same time; the code has no lock, and
  the program starts one.
* The 180 s timeout as a duration: in `TakeoverGate` it may fire at any moment while the gate waits.
  The wall time is modelled in `ModelCall`, where calls take time.
* The grants and templates of `council/runtime.py`, `council/schemas.py`: data
  and look-ups. The other runners, preflight, smoke and reporting scripts: one-shot
  programs that read files or call one modelled component and print.
* Ray, Chipyard, the kernel and the Gemini service, except for what they may answer.

## 8. Plan

Done: the lifecycle stream; gate, child and adapter; governance; store and bootstrap
harness; policy, loop and suite; model calls; pilots and watchers. All have their runs
and the proofs of all their safety properties.

Next, to prove: a number that the watcher and `stop_and_freeze` lower (`TerminalIsMarked`), and
that the gate's Governance calls are a behaviour of `Governance` with one proposal.

Next, to extend the model: `Grounding` over several cycles in one stream and with all artifact
states; `RequestShape`, `_reject_shell` as a recursive operator over small nested values,
checked against a reference definition (TLC only).
