---------------------------- MODULE TakeoverGate ----------------------------
(***************************************************************************)
(* One run directory of the takeover gate: GateRunner                      *)
(* (src/chia_work/takeover_gate.py), the child process it dispatches the   *)
(* typed action to (bridge/takeover_executor.py) and the CHIA adapter that *)
(* runs inside the child (chia_adapter.py), over the evidence they leave   *)
(* on disk.  The gate process may be killed at any point and started again *)
(* on the same directory (TAKEOVER_RUN_ID names it); its child survives.   *)
(*                                                                         *)
(* Appends to the lifecycle stream are atomic here: Lifecycle shows that   *)
(* they implement EvidenceLog.  The four writes of persist() are steps of   *)
(* their own: it runs at the very end, and a gate killed inside it leaves   *)
(* paths that the next one is refused.  A gate killed inside any write of   *)
(* _run() has locked mission.json, which stops the next one before it       *)
(* reaches that path.  What a model writes is reduced to what the           *)
(* control flow looks at: how many roles, whether it vetoes, whether it    *)
(* requests execution and whether the action is the exposed one.           *)
(***************************************************************************)
EXTENDS Grounding

CONSTANTS
    RoleCounts,      \* how many roles L0 may ask for
    Reviews,         \* number of review functions
    MaxModelCalls,   \* TAKEOVER_LIMITS["max_model_calls"]
    MaxInvocations,  \* TAKEOVER_LIMITS["max_total_agent_invocations"]
    ChildMayDeny,    \* the child's SafetyGate may deny what the gate's allowed
    Tears,           \* a failed append may leave a fragment that breaks the stream
    MaxFaults,       \* bound: faults of the evidence storage
    MaxStarts        \* bound: gate processes started on this directory

ASSUME GateAssumption ==
    /\ RoleCounts \subseteq Nat \ {0}
    /\ Reviews \in Nat \ {0}
    /\ MaxModelCalls \in Nat /\ MaxInvocations \in Nat
    /\ ChildMayDeny \in BOOLEAN /\ Tears \in BOOLEAN
    /\ MaxFaults \in Nat /\ MaxStarts \in Nat \ {0}

VARIABLES
    \* On disk.
    events,      \* readable events of the lifecycle stream
    torn,        \* the stream no longer loads: every load and append raises
    verdict,     \* what the terminal event says, or NoVerdict
    files,       \* artifacts written and indexed
    decision,    \* status in the decision artifact
    action,      \* typed action in request.json
    observed,    \* status in observation.json
    taken,       \* paths of lifecycle/ that exist
    copies,      \* those that persist() wrote completely
    archive,     \* what lifecycle/events.jsonl says once it is complete
    \* In the gate process.
    at,          \* the next step of GateRunner
    phase,       \* self._phase
    calls,       \* self.model_calls
    invocations, \* self.invocations
    role, roles, \* the role being worked on and how many there are
    draft,       \* the proposal: does it request execution, of which action
    commits,     \* reviews committed so far
    vetoed,      \* some review vetoes
    ending,      \* terminal status chosen by run()
    outcome,     \* what run() returned
    \* In the child process.
    child,       \* where it is
    answer,      \* what it prints
    \* Ghosts and bounds.
    executions,  \* dispatches of the action to a CHIA worker
    cut,         \* a gate process was killed while it wrote a path of lifecycle/
    faults, starts

stream == <<events, torn, verdict, faults>>
kept == <<taken, copies, archive, cut>>
records == <<files, decision, action, observed, kept>>
memory == <<calls, invocations, role, roles, draft, commits, vetoed>>
result == <<ending, outcome>>
childVars == <<child, answer, executions>>
vars == <<stream, records, at, phase, memory, result, childVars, starts>>

Phases == {"INITIALIZATION", "HIERARCHY", "PROPOSAL", "GOVERNANCE", "ACTION_VALIDATION",
           "EXECUTION_DISPATCH", "SAFETY_GATE", "EXECUTION_BACKEND", "VERIFIER", "COMPLETE"}

Statuses == {"COMPLETED", "REJECTED", "STOPPED", "EXECUTION_FAILED", "VERIFICATION_FAILED"}

Actions == {"none", "exposed", "outside"}

NoVerdict == [status |-> "none", phase |-> "INITIALIZATION", boundary |-> FALSE]

NoArchive == << >>

\* What persist() writes, in this order.
Parts == {"events", "counters", "interventions", "terminal"}

\* The steps of persist().
Saving == {"persist", "reload"} \cup Parts

\* The steps of _run() that call a model, in the order of a run.
CallSteps == {"direction", "task", "leaf", "summary", "presynthesis", "proposal",
              "review", "synthesis", "next"}

\* Those whose prompt holds the grounding, which loads the stream unguarded.
GroundedSteps == {"summary", "presynthesis", "synthesis"}

\* Every step inside the try block of run().
RunSteps == CallSteps \cup {"mission", "cycle", "role", "decide", "request",
                            "announce", "dispatch", "waiting", "observe"}

Init ==
    /\ events = << >> /\ torn = FALSE /\ verdict = NoVerdict
    /\ files = {} /\ decision = "none" /\ action = "none" /\ observed = "none"
    /\ taken = {} /\ copies = {} /\ archive = NoArchive /\ cut = FALSE
    /\ at = "start" /\ phase = "INITIALIZATION"
    /\ calls = 0 /\ invocations = 0 /\ role = 0 /\ roles = 0
    /\ draft = [wants |-> FALSE, action |-> "none"]
    /\ commits = 0 /\ vetoed = FALSE
    /\ ending = "none" /\ outcome = "none"
    /\ child = "none" /\ answer = "none" /\ executions = 0
    /\ faults = 0 /\ starts = 1

-----------------------------------------------------------------------------
\* The evidence stream.

Boundary == Count(events, "execution_boundary_entered") > 0

Closed == torn \/ HasTerminal(events)

\* A storage fault: the append raises, nothing is written or a fragment is.
AppendFault == /\ faults < MaxFaults
               /\ faults' = faults + 1
               /\ torn' \in IF Tears THEN BOOLEAN ELSE {FALSE}
               /\ UNCHANGED <<events, verdict>>

\* _emit_lifecycle and record_event swallow what append() raises.
Emit(type) ==
    \/ ~Closed /\ events' = Append(events, type) /\ UNCHANGED <<torn, verdict, faults>>
    \/ Closed /\ UNCHANGED stream
    \/ ~Closed /\ AppendFault

\* _terminal_lifecycle: an existing terminal event stays the only one.
EmitTerminal(status, ph) ==
    \/ /\ ~Closed
       /\ events' = Append(events, "terminal")
       /\ verdict' = [status |-> status, phase |-> ph, boundary |-> Boundary]
       /\ UNCHANGED <<torn, faults>>
    \/ Closed /\ UNCHANGED stream
    \/ ~Closed /\ AppendFault
-----------------------------------------------------------------------------
\* The gate process: control flow shared by its steps.

Go(from, to) == at = from /\ at' = to

\* _run() raises at this step.
Raises(from) == at = from /\ at' = "raised" /\ UNCHANGED <<ending, outcome>>

BudgetLeft == calls < MaxModelCalls

Grounded == at \in GroundedSteps => ~torn

\* Mutant of ModelCall: the schema retry is charged to the budget too.
CountsRetries(from, to) == Go(from, to) /\ BudgetLeft /\ Grounded /\ calls' = calls + 2

\* _call: one more model call, when the budget and the grounding allow it.
ModelCall(from, to) == Go(from, to) /\ BudgetLeft /\ Grounded /\ calls' = calls + 1

\* _check_limits refuses the call.
OverBudget ==
    /\ at \in CallSteps /\ ~BudgetLeft /\ Grounded
    /\ Raises(at)
    /\ UNCHANGED <<stream, records, phase, memory, childVars, starts>>

\* execution_grounding_context raises: the stream does not load.
GroundingFails ==
    /\ at \in GroundedSteps /\ torn
    /\ Raises(at)
    /\ UNCHANGED <<stream, records, phase, memory, childVars, starts>>

\* Whatever else a step raises: the model call fails or exceeds the wall time,
\* its output breaks the schema, L0 answers COMPLETE, L2 returns several
\* tasks, an artifact cannot be written.
StepFails ==
    /\ at \in RunSteps \ {"announce", "waiting", "observe"}
    /\ Raises(at)
    /\ UNCHANGED <<stream, records, phase, memory, childVars, starts>>
-----------------------------------------------------------------------------
\* run() and the hierarchy part of _run()

Start ==
    /\ Go("start", "mission")
    /\ Emit("run_started")
    /\ phase' = "HIERARCHY"
    /\ UNCHANGED <<records, memory, result, childVars, starts>>

Overwrites(path) == TRUE   \* mutant of Fresh: the exists check is dropped

\* The store refuses a path it already holds.
Fresh(path) == path \notin files

WriteMission ==
    /\ Fresh("mission") /\ Go("mission", "cycle")
    /\ files' = files \cup {"mission"}
    /\ UNCHANGED <<stream, decision, action, observed, kept, phase, memory, result,
                   childVars, starts>>

\* A second run on the directory: mission.json is locked.
MissionLocked ==
    /\ ~Fresh("mission") /\ Raises("mission")
    /\ UNCHANGED <<stream, records, phase, memory, childVars, starts>>

OpenCycle ==
    /\ Go("cycle", "direction")
    /\ Emit("cycle_started")
    /\ UNCHANGED <<records, phase, memory, result, childVars, starts>>

\* L0's initial direction, with decision CONTINUE.
InitialDirection ==
    /\ ModelCall("direction", "role")
    /\ roles' \in RoleCounts
    /\ UNCHANGED <<stream, records, phase, invocations, role, draft, commits, vetoed, result,
                   childVars, starts>>

\* The head of the loop over roles; only the L2 increment is checked.
NextRole ==
    /\ role < roles
    /\ invocations' = invocations + 1
    /\ IF invocations' > MaxInvocations
       THEN Raises("role") /\ UNCHANGED role
       ELSE Go("role", "task") /\ role' = role + 1 /\ UNCHANGED result
    /\ UNCHANGED <<stream, records, phase, calls, roles, draft, commits, vetoed, childVars,
                   starts>>

DecomposeRole ==
    /\ ModelCall("task", "leaf")
    /\ invocations' = invocations + 1
    /\ UNCHANGED <<stream, records, phase, role, roles, draft, commits, vetoed, result,
                   childVars, starts>>

RunLeaf ==
    /\ ModelCall("leaf", "summary")
    /\ UNCHANGED <<stream, records, phase, invocations, role, roles, draft, commits, vetoed,
                   result, childVars, starts>>

SummarizeRole ==
    /\ ModelCall("summary", "role")
    /\ UNCHANGED <<stream, records, phase, invocations, role, roles, draft, commits, vetoed,
                   result, childVars, starts>>

RolesDone ==
    /\ role = roles /\ Go("role", "presynthesis")
    /\ UNCHANGED <<stream, records, phase, memory, result, childVars, starts>>

PreProposalSynthesis ==
    /\ ModelCall("presynthesis", "proposal")
    /\ phase' = "PROPOSAL"
    /\ UNCHANGED <<stream, records, invocations, role, roles, draft, commits, vetoed, result,
                   childVars, starts>>
-----------------------------------------------------------------------------
\* Proposal and governance

Propose ==
    /\ ModelCall("proposal", "review")
    /\ draft' \in [wants : BOOLEAN, action : Actions]
    /\ files' = files \cup {"proposal"}
    /\ phase' = "GOVERNANCE"
    /\ UNCHANGED <<stream, decision, action, observed, kept, invocations, role, roles,
                   commits, vetoed, result, childVars, starts>>

\* One independent review: the call and the commit.
Review ==
    /\ ModelCall("review", IF commits + 1 = Reviews THEN "decide" ELSE "review")
    /\ commits' = commits + 1
    /\ \E veto \in BOOLEAN : vetoed' = (vetoed \/ veto)
    /\ UNCHANGED <<stream, records, phase, invocations, role, roles, draft, result, childVars,
                   starts>>

\* Mutant of Ruling: the last verdict, not the recorded vetoes, decides.
MajorityRuling == "APPROVED"

Ruling == IF vetoed THEN "REJECTED" ELSE "APPROVED"

Asks == draft.wants /\ draft.action # "none"

\* Reveal, record the vetoes, decide, write the decision; then leave _run()
\* normally unless the run is approved and asks for execution.
Decide ==
    /\ at = "decide"
    /\ decision' = Ruling
    /\ files' = files \cup {"decision"}
    /\ \/ /\ Ruling = "APPROVED" /\ Asks
          /\ at' = "request" /\ phase' = "ACTION_VALIDATION"
          /\ UNCHANGED result
       \/ /\ ~(Ruling = "APPROVED" /\ Asks)
          /\ at' = "closing"
          /\ IF Ruling = "REJECTED"
             THEN ending' = "REJECTED" /\ outcome' = "VETOED" /\ phase' = "GOVERNANCE"
             ELSE ending' = "STOPPED" /\ outcome' = "NO_REQUEST" /\ phase' = "PROPOSAL"
       \/ Raises("decide") /\ UNCHANGED phase   \* writing the trace fails
    /\ UNCHANGED <<stream, action, observed, kept, memory, childVars, starts>>
-----------------------------------------------------------------------------
\* The execution request and its dispatch

\* validate_exposed_action
Exposed == draft.action = "exposed"

RejectAction ==
    /\ ~Exposed /\ Raises("request")
    /\ UNCHANGED <<stream, records, phase, memory, childVars, starts>>

WriteRequest ==
    /\ Exposed /\ Go("request", "announce")
    /\ action' = draft.action
    /\ files' = files \cup {"request"}
    /\ UNCHANGED <<stream, decision, observed, kept, phase, memory, result, childVars, starts>>

AnnounceRequest ==
    /\ Go("announce", "dispatch")
    /\ Emit("execution_request_created")
    /\ UNCHANGED <<records, phase, memory, result, childVars, starts>>

\* _execute_once: validate_request accepts what Decide and WriteRequest built.
\* A child that cannot be started at all is one that dies at once.
Dispatch ==
    /\ Go("dispatch", "waiting")
    /\ phase' = "EXECUTION_DISPATCH"
    /\ child' = "starting"
    /\ UNCHANGED <<stream, records, memory, result, answer, executions, starts>>

\* subprocess.run returns: exit status 0 and JSON on stdout.
Collect ==
    /\ child = "exited" /\ Go("waiting", "observe")
    /\ UNCHANGED <<stream, records, phase, memory, result, childVars, starts>>

\* subprocess.run returns a failure: another exit status, or no JSON.
ChildFailed ==
    /\ child = "dead" /\ Raises("waiting")
    /\ UNCHANGED <<stream, records, phase, memory, childVars, starts>>

NeverTimesOut == FALSE   \* mutant of TimesOut: subprocess.run without a timeout

\* 180 seconds are over: subprocess.run kills the child and raises.
TimesOut ==
    /\ child \notin {"exited", "dead"}
    /\ Raises("waiting")
    /\ child' = "dead"
    /\ UNCHANGED <<stream, records, phase, memory, answer, executions, starts>>

\* What observation.json says of the child's answer.
StatusOf(reply) == IF reply \in {"verified", "mismatch"} THEN "EXECUTED" ELSE "REJECTED"

\* The phase the answer moves the run to, before observation.json is written.
AnswerPhase == CASE answer = "denied" -> "SAFETY_GATE"
                 [] answer = "error"  -> "EXECUTION_BACKEND"
                 [] OTHER             -> phase

WriteObservation ==
    /\ observed' = StatusOf(answer)
    /\ files' = files \cup {"observation"}

\* The answer is recorded and judged; only then a mismatch becomes the phase
\* VERIFIER.  Writing the observation or its trace may fail in between.
Observe ==
    /\ at = "observe"
    /\ IF answer = "denied" THEN EmitTerminal("REJECTED", "SAFETY_GATE") ELSE UNCHANGED stream
    /\ \/ /\ WriteObservation
          /\ phase' = IF answer = "mismatch" THEN "VERIFIER" ELSE AnswerPhase
          /\ IF answer = "verified" THEN at' = "synthesis" /\ UNCHANGED result
             ELSE Raises("observe")
       \/ /\ WriteObservation \/ UNCHANGED <<observed, files>>
          /\ phase' = AnswerPhase
          /\ Raises("observe")
    /\ UNCHANGED <<decision, action, kept, memory, childVars, starts>>

Synthesize ==
    /\ ModelCall("synthesis", "next")
    /\ UNCHANGED <<stream, records, phase, invocations, role, roles, draft, commits, vetoed,
                   result, childVars, starts>>

NextDirection ==
    /\ ModelCall("next", "closing")
    /\ ending' = "COMPLETED" /\ outcome' = "PASS" /\ phase' = "COMPLETE"
    /\ UNCHANGED <<stream, records, invocations, role, roles, draft, commits, vetoed,
                   childVars, starts>>
-----------------------------------------------------------------------------
\* The end of run()

EndsWithPhase == phase   \* mutant of FailureStatus: phase and status are swapped

\* Mutant of FailureStatus: only the phase is looked at, not the boundary.
StatusByPhase ==
    IF phase = "VERIFIER" THEN "VERIFICATION_FAILED"
    ELSE IF phase \in {"ACTION_VALIDATION", "EXECUTION_DISPATCH", "SAFETY_GATE"}
         THEN "REJECTED" ELSE "STOPPED"

\* The terminal status of a run that raised; counters() that raises counts 0.
FailureStatus ==
    IF phase = "VERIFIER" THEN "VERIFICATION_FAILED"
    ELSE IF Boundary /\ ~torn THEN "EXECUTION_FAILED"
    ELSE IF phase \in {"ACTION_VALIDATION", "EXECUTION_DISPATCH", "SAFETY_GATE"}
         THEN "REJECTED" ELSE "STOPPED"

\* Mutant of HandleException: the terminal event is left out on a failure.
SkipsTerminal ==
    /\ Go("raised", "persist")
    /\ ending' = FailureStatus /\ outcome' = "RAISED"
    /\ UNCHANGED <<stream, records, phase, memory, childVars, starts>>

HandleException ==
    /\ Go("raised", "closing")
    /\ ending' = FailureStatus /\ outcome' = "RAISED"
    /\ UNCHANGED <<stream, records, phase, memory, childVars, starts>>

Close ==
    /\ Go("closing", "persist")
    /\ EmitTerminal(ending, phase)
    /\ UNCHANGED <<records, phase, memory, result, childVars, starts>>

\* persist() begins with a verified load; what it raises is swallowed.  An empty
\* stream gets a run_started first.
Persist ==
    /\ at = "persist"
    /\ \/ torn /\ at' = "done" /\ UNCHANGED stream
       \/ ~torn /\ events # << >> /\ at' = "events" /\ UNCHANGED stream
       \/ /\ ~torn /\ events = << >>
          /\ \/ /\ at' = "reload" /\ events' = <<"run_started">>
                /\ UNCHANGED <<torn, verdict, faults>>
             \/ at' = "done" /\ AppendFault
    /\ UNCHANGED <<records, phase, memory, result, childVars, starts>>

Reload ==
    /\ Go("reload", IF torn THEN "done" ELSE "events")
    /\ UNCHANGED <<stream, records, phase, memory, result, childVars, starts>>

\* persist() gets as far as creating this path: counters() and terminal_event()
\* load the stream again, and a path that exists is refused.
Creates(part) ==
    /\ part \notin taken
    /\ part \in {"counters", "terminal"} => ~torn
    /\ part = "terminal" => HasTerminal(events)

After(part) == CASE part = "events"        -> "counters"
                 [] part = "counters"      -> "interventions"
                 [] part = "interventions" -> "terminal"
                 [] OTHER                  -> "done"

\* One write-once artifact of persist(); then run() returns or raises again.
PersistPart ==
    /\ at \in Parts
    /\ IF Creates(at)
       THEN /\ taken' = taken \cup {at} /\ copies' = copies \cup {at}
            /\ archive' = IF at = "events" THEN events ELSE archive
            /\ at' = After(at)
       ELSE at' = "done" /\ UNCHANGED <<taken, copies, archive>>
    /\ UNCHANGED <<stream, files, decision, action, observed, cut, phase, memory, result,
                   childVars, starts>>

\* A write that does not complete leaves nothing, or its path.
LeavesBehind(part) ==
    /\ \/ UNCHANGED taken
       \/ Creates(part) /\ taken' = taken \cup {part}
    /\ UNCHANGED <<copies, archive>>

PersistFails ==
    /\ at \in Parts
    /\ faults < MaxFaults /\ faults' = faults + 1
    /\ LeavesBehind(at)
    /\ at' = "done"
    /\ UNCHANGED <<events, torn, verdict, files, decision, action, observed, cut, phase, memory,
                   result, childVars, starts>>
-----------------------------------------------------------------------------
\* The child process and, inside it, the CHIA adapter

\* It fails before the boundary: its input was cut off, or Ray does not start.
ChildRejects ==
    /\ child = "starting" /\ child' = "exited" /\ answer' = "error"
    /\ UNCHANGED <<stream, records, at, phase, memory, result, executions, starts>>

ChildDenies ==
    /\ ChildMayDeny
    /\ child = "starting" /\ child' = "exited" /\ answer' = "denied"
    /\ EmitTerminal("REJECTED", "SAFETY_GATE")
    /\ UNCHANGED <<records, at, phase, memory, result, executions, starts>>

\* Mutant of EnterBoundary: the event is left for after the dispatch.
EnterSilently ==
    /\ child = "starting" /\ child' = "remote"
    /\ UNCHANGED <<stream, records, at, phase, memory, result, answer, executions, starts>>

EnterBoundary ==
    /\ child = "starting" /\ child' = "remote"
    /\ Emit("execution_boundary_entered")
    /\ UNCHANGED <<records, at, phase, memory, result, answer, executions, starts>>

\* get(chia_identity_worker.chia_remote(...)): the worker's answer matches the
\* expected digest, does not match it, or the call raises.
RemoteCall ==
    /\ child = "remote" /\ child' = "recording"
    /\ executions' = executions + 1
    /\ answer' \in {"verified", "mismatch", "error"}
    /\ UNCHANGED <<stream, records, at, phase, memory, result, starts>>

\* Mutant of RecordResult: only a failure is recorded.
RecordsFailuresOnly ==
    /\ child = "recording" /\ child' = "exited"
    /\ IF answer = "verified" THEN UNCHANGED stream ELSE Emit("execution_failed")
    /\ UNCHANGED <<records, at, phase, memory, result, answer, executions, starts>>

\* Mutant of RecordResult: a mismatch is recorded as a completion.
RecordAnyResult ==
    /\ child = "recording" /\ child' = "exited"
    /\ Emit(IF answer = "error" THEN "execution_failed" ELSE "execution_completed")
    /\ UNCHANGED <<records, at, phase, memory, result, answer, executions, starts>>

RecordResult ==
    /\ child = "recording" /\ child' = "exited"
    /\ Emit(IF answer = "verified" THEN "execution_completed" ELSE "execution_failed")
    /\ UNCHANGED <<records, at, phase, memory, result, answer, executions, starts>>

ChildDies ==
    /\ child \in {"starting", "remote", "recording"} /\ child' = "dead"
    /\ UNCHANGED <<stream, records, at, phase, memory, result, answer, executions, starts>>
-----------------------------------------------------------------------------
\* The gate process is killed; its child, if any, goes on.
Crash ==
    /\ at \notin {"down", "done"} /\ starts < MaxStarts
    /\ at' = "down"
    /\ IF at \in Parts THEN LeavesBehind(at) ELSE UNCHANGED <<taken, copies, archive>>
    /\ cut' = (cut \/ at \in Parts)
    /\ UNCHANGED <<stream, files, decision, action, observed, phase, memory, result, childVars,
                   starts>>

\* main() on the same directory again: after a crash, or to retry a run.
Restart ==
    /\ at \in {"down", "done"} /\ starts < MaxStarts
    /\ starts' = starts + 1
    /\ at' = "start" /\ phase' = "INITIALIZATION"
    /\ calls' = 0 /\ invocations' = 0 /\ role' = 0 /\ roles' = 0
    /\ draft' = [wants |-> FALSE, action |-> "none"]
    /\ commits' = 0 /\ vetoed' = FALSE
    /\ ending' = "none" /\ outcome' = "none"
    /\ UNCHANGED <<stream, records, childVars>>

GateStep ==
    \/ Start \/ WriteMission \/ MissionLocked \/ OpenCycle \/ InitialDirection
    \/ NextRole \/ DecomposeRole \/ RunLeaf \/ SummarizeRole \/ RolesDone
    \/ PreProposalSynthesis \/ Propose \/ Review \/ Decide
    \/ RejectAction \/ WriteRequest \/ AnnounceRequest \/ Dispatch
    \/ Collect \/ ChildFailed \/ TimesOut \/ Observe \/ Synthesize \/ NextDirection
    \/ OverBudget \/ GroundingFails \/ StepFails
    \/ HandleException \/ Close \/ Persist \/ Reload \/ PersistPart \/ PersistFails

ChildStep == ChildRejects \/ ChildDenies \/ EnterBoundary \/ RemoteCall \/ RecordResult
             \/ ChildDies

Next == GateStep \/ ChildStep \/ Crash \/ Restart

Spec == Init /\ [][Next]_vars

\* The gate process runs: a model call returns or raises, and subprocess.run
\* ends by its timeout whatever the child does, which is owed no fairness.
FairSpec == Spec /\ WF_vars(GateStep)
-----------------------------------------------------------------------------
\* Type invariant of the module.
TypeOK ==
    /\ events \in Seq(EventTypes) /\ torn \in BOOLEAN
    /\ verdict \in [status : Statuses \cup {"none"}, phase : Phases, boundary : BOOLEAN]
    /\ files \subseteq {"mission", "proposal", "decision", "request", "observation"}
    /\ decision \in {"none", "APPROVED", "REJECTED"}
    /\ action \in Actions /\ observed \in {"none", "EXECUTED", "REJECTED"}
    /\ taken \subseteq Parts /\ copies \subseteq taken
    /\ archive \in Seq(EventTypes) /\ cut \in BOOLEAN
    /\ at \in RunSteps \cup Saving \cup {"start", "raised", "closing", "done", "down"}
    /\ phase \in Phases
    /\ calls \in Nat /\ invocations \in Nat /\ role \in Nat /\ roles \in RoleCounts \cup {0}
    /\ draft \in [wants : BOOLEAN, action : Actions]
    /\ commits \in Nat /\ vetoed \in BOOLEAN
    /\ ending \in Statuses \cup {"none"}
    /\ outcome \in {"none", "PASS", "VETOED", "NO_REQUEST", "RAISED"}
    /\ child \in {"none", "starting", "remote", "recording", "exited", "dead"}
    /\ answer \in {"none", "verified", "mismatch", "error", "denied"}
    /\ executions \in Nat /\ faults \in Nat /\ starts \in Nat

\* Whatever is killed, restarted, timed out or lost, one directory sees one
\* decision, one request that the decision approved, one execution: the
\* write-once mission.json is what stops a second run (takeover_gate.py:394).
Governed == INSTANCE SingleExecution WITH requested <- action # "none"
ImplementsSingleExecution == Governed!Spec

\* No child is ever started for a run that a reviewer vetoed, or for an action
\* outside the exposed surface, and what it is started for is on disk.
DispatchIsGoverned ==
    child # "none" => /\ decision = "APPROVED" /\ action = "exposed"
                      /\ {"mission", "proposal", "decision", "request"} \subseteq files
                      /\ at \in {"waiting", "observe"} => ~vetoed

\* Without restarts, a terminal event that says the run was rejected or stopped
\* before execution never coexists with a boundary entry, and when no append
\* was lost it means that nothing ran, then or later: a child that outlives
\* its timeout would break it (tests/test_observability.py:319).
PreExecutionVerdict ==
    (starts = 1 /\ verdict.status \in {"REJECTED", "STOPPED"})
        => ~verdict.boundary /\ (faults = 0 => executions = 0)

\* When no append was lost, results come after the boundary event and that
\* after the request event, through any crash, restart or timeout; and a
\* TAKEOVER_GATE_PASS is backed by the complete evidence of one execution,
\* closed by a COMPLETED terminal event.  The second part is for first runs: one
\* that fails before mission.json closes the stream without locking the
\* directory, and a second run then executes with every append refused.
EvidenceSound ==
    /\ faults = 0 => \A i \in DOMAIN events :
         /\ events[i] \in {"execution_completed", "execution_failed"}
               => \E j \in 1..(i - 1) : events[j] = "execution_boundary_entered"
         /\ events[i] = "execution_boundary_entered"
               => \E j \in 1..(i - 1) : events[j] = "execution_request_created"
    /\ (at = "done" /\ outcome = "PASS" /\ faults = 0 /\ starts = 1) =>
         /\ events = <<"run_started", "cycle_started", "execution_request_created",
                       "execution_boundary_entered", "execution_completed", "terminal">>
         /\ verdict = [status |-> "COMPLETED", phase |-> "COMPLETE", boundary |-> TRUE]
         /\ observed = "EXECUTED" /\ executions = 1

\* When no evidence write failed, every run that ends leaves a closed stream, after
\* crashes and restarts too, and a full copy of it unless a gate was killed while
\* it wrote that copy (takeover_gate.py:349, 370): what such a gate left behind
\* locks the paths.  And a copy of the stream that was completed is complete: it
\* is the closed stream, whoever wrote it and whatever was killed.
ArchiveComplete ==
    faults = 0 =>
      /\ at = "done" => HasTerminal(events) /\ (cut \/ copies = Parts)
      /\ "events" \in copies => HasTerminal(events) /\ archive = events

\* The grounding tells the model the truth: it says COMPLETED only of an action
\* that was dispatched once and whose digest the adapter verified, whatever
\* appends were lost; prompts written before the proposal are grounded in "not
\* requested" and, when no append was lost, the final synthesis of a first run
\* in "completed".
GroundingTruthful ==
    LET state == ExecutionState(events, files, observed) IN
    /\ state = "COMPLETED" => answer = "verified" /\ executions = 1
    /\ at \in {"summary", "presynthesis"} => state = "NOT_REQUESTED"
    /\ at = "synthesis" /\ faults = 0 /\ starts = 1 => state = "COMPLETED"

\* A run with three roles, the chain the budget was sized for, never runs out of
\* model calls, vetoed, rejected and failing runs included
\* (tests/test_takeover_gate.py:238).
ExpectedChainFits == at \in CallSteps /\ roles <= 3 => BudgetLeft

\* A gate process that is not killed ends its run, even when its child hangs.
RunEnds == at \notin {"down", "done"} ~> at \in {"down", "done"}
=============================================================================
