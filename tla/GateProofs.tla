----------------------------- MODULE GateProofs -----------------------------
(***************************************************************************)
(* Theorems about TakeoverGate, for every bound on the budgets, the        *)
(* storage faults and the gate processes started on a directory.           *)
(*                                                                         *)
(* What makes the one execution unique is mission.json: it is the first    *)
(* file of a run, the store never replaces it, and every gate process that *)
(* is past the step that writes it is the one that wrote it.  WriteOnce    *)
(* says what that leaves possible at each step; the invariants on the      *)
(* evidence are then invariants on what such a run has appended.           *)
(***************************************************************************)
EXTENDS TakeoverGate, FiniteSetTheorems, SequenceTheorems, TLAPS

-----------------------------------------------------------------------------
\* Types.

\* Every variable starts in its set.
LEMMA InitTypes == Init => TypeOK
<1> SUFFICES ASSUME Init PROVE TypeOK
  OBVIOUS
<1>1. events \in Seq(EventTypes) /\ archive \in Seq(EventTypes)
  BY DEF Init, NoArchive
<1>2. verdict \in [status : Statuses \cup {"none"}, phase : Phases, boundary : BOOLEAN]
  BY DEF Init, NoVerdict, Phases
<1>3. draft \in [wants : BOOLEAN, action : Actions]
  BY DEF Init, Actions
<1> QED
  BY <1>1, <1>2, <1>3, GateAssumption DEF Init, TypeOK, Actions, Phases

\* An append, whether it is done, swallowed or fails, keeps the stream typed.
LEMMA EmitTypes ==
  ASSUME TypeOK, NEW type \in EventTypes, Emit(type)
  PROVE  (events \in Seq(EventTypes) /\ torn \in BOOLEAN /\ faults \in Nat
          /\ verdict \in [status : Statuses \cup {"none"}, phase : Phases, boundary : BOOLEAN])'
<1>1. CASE events' = Append(events, type) /\ UNCHANGED <<torn, verdict, faults>>
  BY <1>1 DEF TypeOK
<1>2. CASE UNCHANGED stream
  BY <1>2 DEF TypeOK, stream
<1>3. CASE AppendFault
  <2>1. torn' \in BOOLEAN
    BY <1>3 DEF AppendFault
  <2> QED
    BY <1>3, <2>1 DEF TypeOK, AppendFault
<1> QED
  BY <1>1, <1>2, <1>3 DEF Emit

\* So does the append of the terminal event.
LEMMA EmitTerminalTypes ==
  ASSUME TypeOK, NEW status \in Statuses \cup {"none"}, NEW ph \in Phases,
         EmitTerminal(status, ph)
  PROVE  (events \in Seq(EventTypes) /\ torn \in BOOLEAN /\ faults \in Nat
          /\ verdict \in [status : Statuses \cup {"none"}, phase : Phases, boundary : BOOLEAN])'
<1>1. "terminal" \in EventTypes /\ Boundary \in BOOLEAN
  BY DEF EventTypes, Boundary
<1>2. CASE /\ events' = Append(events, "terminal")
           /\ verdict' = [status |-> status, phase |-> ph, boundary |-> Boundary]
           /\ UNCHANGED <<torn, faults>>
  BY <1>1, <1>2 DEF TypeOK
<1>3. CASE UNCHANGED stream
  BY <1>3 DEF TypeOK, stream
<1>4. CASE AppendFault
  <2>1. torn' \in BOOLEAN
    BY <1>4 DEF AppendFault
  <2> QED
    BY <1>4, <2>1 DEF TypeOK, AppendFault
<1> QED
  BY <1>2, <1>3, <1>4 DEF EmitTerminal

\* Every step of the gate, of its child and of the scheduler keeps the types.
LEMMA StepTypes == TypeOK /\ [Next]_vars => TypeOK'
<1> SUFFICES ASSUME TypeOK, [Next]_vars PROVE TypeOK'
  OBVIOUS
<1> USE GateAssumption DEF TypeOK, Go, Raises, ModelCall, RunSteps, CallSteps,
      GroundedSteps, Phases, Actions, Statuses, Saving, kept
<1>1. CASE Start
  BY <1>1, EmitTypes DEF Start, EventTypes, records, memory, result, childVars
<1>2. CASE WriteMission
  BY <1>2 DEF WriteMission, stream, memory, result, childVars
<1>3. CASE MissionLocked \/ OverBudget \/ GroundingFails \/ StepFails
  <2>1. CASE MissionLocked
    BY <2>1 DEF MissionLocked, stream, records, memory, childVars
  <2>2. CASE OverBudget
    BY <2>2 DEF OverBudget, stream, records, memory, childVars
  <2>3. CASE GroundingFails
    BY <2>3 DEF GroundingFails, stream, records, memory, childVars
  <2>4. CASE StepFails
    BY <2>4 DEF StepFails, stream, records, memory, childVars
  <2> QED
    BY <1>3, <2>1, <2>2, <2>3, <2>4
<1>4. CASE OpenCycle
  BY <1>4, EmitTypes DEF OpenCycle, EventTypes, records, memory, result, childVars
<1>5. CASE InitialDirection
  BY <1>5 DEF InitialDirection, stream, records, result, childVars
<1>6. CASE NextRole
  BY <1>6 DEF NextRole, stream, records, result, childVars
<1>7. CASE DecomposeRole \/ RunLeaf \/ SummarizeRole \/ Synthesize
  <2>1. CASE DecomposeRole
    BY <2>1 DEF DecomposeRole, stream, records, result, childVars
  <2>2. CASE RunLeaf
    BY <2>2 DEF RunLeaf, stream, records, result, childVars
  <2>3. CASE SummarizeRole
    BY <2>3 DEF SummarizeRole, stream, records, result, childVars
  <2>4. CASE Synthesize
    BY <2>4 DEF Synthesize, stream, records, result, childVars
  <2> QED
    BY <1>7, <2>1, <2>2, <2>3, <2>4
<1>8. CASE RolesDone \/ PreProposalSynthesis
  <2>1. CASE RolesDone
    BY <2>1 DEF RolesDone, stream, records, memory, result, childVars
  <2>2. CASE PreProposalSynthesis
    BY <2>2 DEF PreProposalSynthesis, stream, records, memory, result, childVars
  <2> QED
    BY <1>8, <2>1, <2>2
<1>9. CASE Propose
  BY <1>9 DEF Propose, stream, result, childVars
<1>10. CASE Review
  BY <1>10 DEF Review, stream, records, result, childVars
<1>11. CASE Decide
  BY <1>11 DEF Decide, Ruling, stream, memory, result, childVars
<1>12. CASE RejectAction \/ Collect \/ ChildFailed
  <2>1. CASE RejectAction
    BY <2>1 DEF RejectAction, stream, records, memory, result, childVars
  <2>2. CASE Collect
    BY <2>2 DEF Collect, stream, records, memory, result, childVars
  <2>3. CASE ChildFailed
    BY <2>3 DEF ChildFailed, stream, records, memory, result, childVars
  <2> QED
    BY <1>12, <2>1, <2>2, <2>3
<1>13. CASE WriteRequest
  BY <1>13 DEF WriteRequest, stream, memory, result, childVars
<1>14. CASE AnnounceRequest
  BY <1>14, EmitTypes DEF AnnounceRequest, EventTypes, CountedTypes, records, memory, result,
     childVars
<1>15. CASE Dispatch \/ TimesOut
  <2>1. CASE Dispatch
    BY <2>1 DEF Dispatch, stream, records, memory, result
  <2>2. CASE TimesOut
    BY <2>2 DEF TimesOut, stream, records, memory, result
  <2> QED
    BY <1>15, <2>1, <2>2
<1>16. CASE Observe
  <2>1. (events \in Seq(EventTypes) /\ torn \in BOOLEAN /\ faults \in Nat
         /\ verdict \in [status : Statuses \cup {"none"}, phase : Phases, boundary : BOOLEAN])'
    BY <1>16, EmitTerminalTypes DEF Observe, stream
  <2>2. AnswerPhase \in Phases /\ StatusOf(answer) \in {"EXECUTED", "REJECTED"}
    BY DEF AnswerPhase, StatusOf
  <2>3. /\ observed' \in {"none", "EXECUTED", "REJECTED"}
        /\ files' \subseteq files \cup {"observation"}
        /\ phase' \in Phases
    BY <1>16, <2>2 DEF Observe, WriteObservation
  <2>4. /\ at' \in {"synthesis", "raised"}
        /\ UNCHANGED <<ending, outcome, decision, action, kept, memory, childVars, starts>>
    BY <1>16 DEF Observe, result
  <2> QED
    BY <2>1, <2>3, <2>4 DEF memory, childVars
<1>17. CASE NextDirection
  BY <1>17 DEF NextDirection, stream, records, childVars
<1>18. CASE HandleException
  BY <1>18 DEF HandleException, FailureStatus, stream, records, memory, childVars
<1>19. CASE Close
  BY <1>19, EmitTerminalTypes DEF Close, records, memory, result, childVars
<1>20. CASE Persist
  <2>1. <<"run_started">> \in Seq(EventTypes)
    BY DEF EventTypes
  <2>2. events' \in Seq(EventTypes) /\ (torn \in BOOLEAN)' /\ (faults \in Nat)'
        /\ UNCHANGED verdict
    <3>1. CASE AppendFault
      <4>1. (torn \in BOOLEAN)'
        BY <3>1 DEF AppendFault
      <4> QED
        BY <3>1, <4>1 DEF AppendFault
    <3>2. CASE ~AppendFault
      BY <1>20, <2>1, <3>2 DEF Persist, stream
    <3> QED
      BY <3>1, <3>2
  <2>3. at' \in {"done", "events", "reload"} /\ UNCHANGED <<records, phase, memory, result,
                                                           childVars, starts>>
    BY <1>20 DEF Persist
  <2> QED
    BY <2>2, <2>3 DEF records, memory, result, childVars, Parts
<1>21. CASE ChildRejects \/ RemoteCall \/ ChildDies
  <2>1. CASE ChildRejects
    BY <2>1 DEF ChildRejects, stream, records, memory, result
  <2>2. CASE RemoteCall
    BY <2>2 DEF RemoteCall, stream, records, memory, result
  <2>3. CASE ChildDies
    BY <2>3 DEF ChildDies, stream, records, memory, result
  <2> QED
    BY <1>21, <2>1, <2>2, <2>3
<1>22. CASE ChildDenies
  BY <1>22, EmitTerminalTypes DEF ChildDenies, records, memory, result
<1>23. CASE EnterBoundary \/ RecordResult
  <2>1. CASE EnterBoundary
    BY <2>1, EmitTypes DEF EnterBoundary, EventTypes, CountedTypes, records, memory, result
  <2>2. CASE RecordResult
    BY <2>2, EmitTypes DEF RecordResult, EventTypes, CountedTypes, records, memory, result
  <2> QED
    BY <1>23, <2>1, <2>2
<1>24. CASE Crash
  <2>1. /\ (taken \subseteq Parts)' /\ (copies \subseteq taken)' /\ UNCHANGED archive
        /\ (cut \in BOOLEAN)'
    BY <1>24 DEF Crash, LeavesBehind
  <2>2. at' = "down" /\ UNCHANGED <<stream, files, decision, action, observed, phase, memory,
                                    result, childVars, starts>>
    BY <1>24 DEF Crash
  <2> QED
    BY <2>1, <2>2 DEF stream, memory, result, childVars
<1>25. CASE Restart
  <2>1. draft' \in [wants : BOOLEAN, action : Actions]
    BY <1>25 DEF Restart
  <2>2. starts' \in Nat
    BY <1>25 DEF Restart
  <2>3. (vetoed \in BOOLEAN)'
    BY <1>25 DEF Restart
  <2> QED
    BY <1>25, <2>1, <2>2, <2>3 DEF Restart, stream, records, childVars
<1>26. CASE UNCHANGED vars
  BY <1>26 DEF vars, stream, records, memory, result, childVars
<1>27. CASE Reload
  BY <1>27 DEF Reload, Parts, stream, records, memory, result, childVars
<1>28. CASE PersistPart
  <2>1. (taken \subseteq Parts)' /\ (copies \subseteq taken)' /\ (archive \in Seq(EventTypes))'
    BY <1>28 DEF PersistPart
  <2>2. at' \in Parts \cup {"done"}
    BY <1>28 DEF PersistPart, After, Parts
  <2>3. UNCHANGED <<stream, files, decision, action, observed, cut, phase, memory, result,
                    childVars, starts>>
    BY <1>28 DEF PersistPart
  <2> QED
    BY <2>1, <2>2, <2>3 DEF stream, memory, result, childVars
<1>29. CASE PersistFails
  <2>1. (taken \subseteq Parts)' /\ (copies \subseteq taken)' /\ UNCHANGED archive
    BY <1>29 DEF PersistFails, LeavesBehind
  <2>2. (faults \in Nat)'
    BY <1>29 DEF PersistFails
  <2>3. at' = "done" /\ UNCHANGED <<events, torn, verdict, files, decision, action, observed, cut,
                                    phase, memory, result, childVars, starts>>
    BY <1>29 DEF PersistFails
  <2> QED
    BY <2>1, <2>2, <2>3 DEF memory, result, childVars
<1> QED
  BY <1>1, <1>2, <1>3, <1>4, <1>5, <1>6, <1>7, <1>8, <1>9, <1>10, <1>11, <1>12, <1>13, <1>14,
     <1>15, <1>16, <1>17, <1>18, <1>19, <1>20, <1>21, <1>22, <1>23, <1>24, <1>25, <1>26, <1>27,
     <1>28, <1>29
     DEF Next, GateStep, ChildStep

\* Every variable of the gate, of its child and of their directory stays in its
\* set, whatever fails and however often the gate is started.
THEOREM TypeCorrect == Spec => []TypeOK
<1> QED
  BY InitTypes, StepTypes, PTL DEF Spec
-----------------------------------------------------------------------------
\* One decision, one request, one execution.

\* The steps of _run(), in the order of a run, up to the decision and after it.
Deliberating == {"cycle", "direction", "role", "task", "leaf", "summary", "presynthesis",
                 "proposal", "review", "decide"}
Approved == {"request", "announce", "dispatch", "waiting", "observe", "synthesis", "next"}
Drafted == {"review", "decide"} \cup Approved
Requested == {"announce", "dispatch", "waiting", "observe", "synthesis", "next"}

\* The child is a process: it can still append to the stream.
Running == {"starting", "remote", "recording"}

\* Nothing of a run is on disk before mission.json is.
Untouched ==
    /\ decision = "none" /\ action = "none" /\ observed = "none"
    /\ files = {}
    /\ child = "none"

\* mission.json makes the process past it the only one that ever is.
WriteOnce ==
    /\ "mission" \notin files => Untouched
    /\ at \in Deliberating \cup Approved => "mission" \in files
    /\ at \in Deliberating => decision = "none"
    /\ at \in Deliberating \ {"review", "decide"}
          => {"proposal", "decision", "request", "observation"} \cap files = {}
    /\ at \in Drafted => "proposal" \in files
    /\ at \in Approved => decision = "APPROVED" /\ "decision" \in files /\ ~vetoed
    /\ at \in Deliberating \cup {"request"} => action = "none"
    /\ at \in Requested => action = "exposed" /\ "request" \in files
    /\ at \in Deliberating \cup {"request", "announce", "dispatch"} => child = "none"
    /\ at \in Deliberating \cup {"request", "announce", "dispatch", "waiting"}
          => observed = "none"

\* What the child was started for, and that it dispatches the action once.
Dispatched ==
    /\ action # "none" => decision = "APPROVED"
    /\ child # "none" => /\ decision = "APPROVED" /\ action = "exposed"
                         /\ {"mission", "proposal", "decision", "request"} \subseteq files
    /\ child \in {"none", "starting", "remote"} => executions = 0
    /\ child \in {"none"} \cup Running => answer # "denied"
    /\ child \in {"none", "starting", "remote"} => answer = "none"
    /\ child = "recording" => executions = 1
    /\ executions \in {0, 1}
    /\ answer \in {"verified", "mismatch"} => executions = 1
    /\ answer = "denied" => executions = 0
    /\ at = "waiting" => child # "none"
    /\ at \in {"observe", "synthesis", "next"} => child = "exited"
    /\ at \in {"synthesis", "next"} => observed = "EXECUTED" /\ answer = "verified"

\* A run that passes has collected a verified answer and closes as COMPLETED.
Passing ==
    outcome = "PASS" =>
      /\ at \in Saving \cup {"closing", "done", "down"}
      /\ child = "exited" /\ answer = "verified" /\ observed = "EXECUTED"
      /\ at = "closing" => ending = "COMPLETED" /\ phase = "COMPLETE"

Control == WriteOnce /\ Dispatched /\ Passing

\* Nothing has been written, decided or started yet.
LEMMA InitControl == Init => Control
BY DEF Init, Control, WriteOnce, Untouched, Dispatched, Passing, Deliberating, Approved, Drafted,
   Requested, Running

\* Every step keeps Control; MissionLocked and WriteMission are the two that
\* tell the one run of a directory from the others.
LEMMA StepControl == TypeOK /\ Control /\ [Next]_vars => Control'
<1> SUFFICES ASSUME TypeOK, Control, [Next]_vars PROVE Control'
  OBVIOUS
<1> USE DEF Control, WriteOnce, Untouched, Dispatched, Passing, Deliberating, Approved,
      Drafted, Requested, Running, Go, Raises, ModelCall, RunSteps, CallSteps, GroundedSteps,
      Saving, Parts
<1>1. CASE Start
  BY <1>1 DEF Start, records, memory, result, childVars
<1>2. CASE WriteMission
  BY <1>2 DEF WriteMission, Fresh, stream, memory, result, childVars
<1>3. CASE \/ MissionLocked \/ OverBudget \/ GroundingFails \/ StepFails \/ RejectAction
           \/ Collect \/ ChildFailed \/ Crash
  BY <1>3 DEF MissionLocked, Fresh, OverBudget, GroundingFails, StepFails, RejectAction,
     Collect, ChildFailed, Crash, stream, records, memory, result, childVars
<1>4. CASE OpenCycle
  BY <1>4 DEF OpenCycle, records, memory, result, childVars
<1>5. CASE \/ InitialDirection \/ NextRole \/ DecomposeRole \/ RunLeaf \/ SummarizeRole
           \/ RolesDone \/ PreProposalSynthesis \/ Review \/ Synthesize
  BY <1>5 DEF InitialDirection, NextRole, DecomposeRole, RunLeaf, SummarizeRole, RolesDone,
     PreProposalSynthesis, Review, Synthesize, stream, records, memory, result, childVars
<1>6. CASE Propose
  BY <1>6 DEF Propose, stream, result, childVars
<1>7. CASE Decide
  BY <1>7 DEF Decide, Ruling, stream, memory, result, childVars
<1>8. CASE WriteRequest
  BY <1>8 DEF WriteRequest, Exposed, stream, memory, result, childVars
<1>9. CASE AnnounceRequest
  BY <1>9 DEF AnnounceRequest, records, memory, result, childVars
<1>10. CASE Dispatch
  BY <1>10 DEF Dispatch, stream, records, memory, result
<1>11. CASE TimesOut
  BY <1>11 DEF TimesOut, stream, records, memory
<1>12. CASE Observe
  BY <1>12 DEF Observe, WriteObservation, StatusOf, TypeOK, stream, memory, result,
     childVars
<1>13. CASE NextDirection
  BY <1>13 DEF NextDirection, stream, records, childVars
<1>14. CASE HandleException
  BY <1>14 DEF HandleException, stream, records, memory, childVars
<1>15. CASE Close
  BY <1>15 DEF Close, records, memory, result, childVars
<1>16. CASE Persist
  BY <1>16 DEF Persist, records, memory, result, childVars
<1>17. CASE ChildRejects
  BY <1>17 DEF ChildRejects, stream, records, memory, result
<1>18. CASE ChildDenies
  BY <1>18 DEF ChildDenies, records, memory, result
<1>19. CASE EnterBoundary
  BY <1>19 DEF EnterBoundary, records, memory, result
<1>20. CASE RemoteCall
  BY <1>20 DEF RemoteCall, stream, records, memory, result
<1>21. CASE RecordResult
  BY <1>21 DEF RecordResult, records, memory, result
<1>22. CASE ChildDies
  BY <1>22 DEF ChildDies, stream, records, memory, result, childVars
<1>23. CASE Restart
  BY <1>23 DEF Restart, stream, records, childVars
<1>24. CASE UNCHANGED vars
  BY <1>24 DEF vars, stream, records, memory, result, childVars
<1>25. CASE Reload \/ PersistPart \/ PersistFails
  BY <1>25 DEF Reload, PersistPart, PersistFails, After, records, memory, result, childVars
<1> QED
  BY <1>1, <1>2, <1>3, <1>4, <1>5, <1>6, <1>7, <1>8, <1>9, <1>10, <1>11, <1>12, <1>13,
     <1>14, <1>15, <1>16, <1>17, <1>18, <1>19, <1>20, <1>21, <1>22, <1>23, <1>24, <1>25
     DEF Next, GateStep, ChildStep

\* Control is an invariant.
LEMMA Controlled == Spec => [](TypeOK /\ Control)
<1>1. Init => TypeOK /\ Control
  BY InitTypes, InitControl
<1>2. TypeOK /\ Control /\ [Next]_vars => (TypeOK /\ Control)'
  BY StepTypes, StepControl
<1> QED
  BY <1>1, <1>2, PTL DEF Spec

\* No child process is ever started for a run that a reviewer vetoed or for an
\* action outside the exposed surface, and what it was started for is on disk
\* (takeover_gate.py:510-528), whatever process is killed and started again.
THEOREM GovernedDispatch == Spec => []DispatchIsGoverned
<1>1. Control => DispatchIsGoverned
  BY DEF Control, WriteOnce, Dispatched, DispatchIsGoverned, Approved
<1> QED
  BY <1>1, Controlled, PTL

\* Only three steps touch what SingleExecution is about.
LEMMA OtherSteps ==
  ASSUME [Next]_vars
  PROVE  Decide \/ WriteRequest \/ RemoteCall \/ UNCHANGED <<decision, action, executions>>
<1> USE DEF stream, records, kept, memory, result, childVars
<1>1. CASE \/ Start \/ WriteMission \/ MissionLocked \/ OpenCycle \/ InitialDirection
           \/ NextRole \/ DecomposeRole \/ RunLeaf \/ SummarizeRole \/ RolesDone
  BY <1>1 DEF Start, WriteMission, MissionLocked, OpenCycle, InitialDirection, NextRole,
     DecomposeRole, RunLeaf, SummarizeRole, RolesDone
<1>2. CASE \/ PreProposalSynthesis \/ Propose \/ Review \/ RejectAction \/ AnnounceRequest
           \/ Dispatch \/ Collect \/ ChildFailed \/ TimesOut \/ Observe
  BY <1>2 DEF PreProposalSynthesis, Propose, Review, RejectAction, AnnounceRequest, Dispatch,
     Collect, ChildFailed, TimesOut, Observe
<1>3. CASE \/ Synthesize \/ NextDirection \/ OverBudget \/ GroundingFails \/ StepFails
           \/ HandleException \/ Close \/ Persist \/ Reload \/ PersistPart \/ PersistFails
  BY <1>3 DEF Synthesize, NextDirection, OverBudget, GroundingFails, StepFails, HandleException,
     Close, Persist, Reload, PersistPart, PersistFails
<1>4. CASE \/ ChildRejects \/ ChildDenies \/ EnterBoundary \/ RecordResult \/ ChildDies
           \/ Crash \/ Restart \/ UNCHANGED vars
  BY <1>4 DEF ChildRejects, ChildDenies, EnterBoundary, RecordResult, ChildDies, Crash, Restart,
     vars
<1> QED
  BY <1>1, <1>2, <1>3, <1>4 DEF Next, GateStep, ChildStep

\* A directory sees at most one decision, one request that the decision approved
\* and one dispatch of the action: every step of the gate, of its child and of
\* the gate processes started on the directory later is a step of
\* SingleExecution or leaves its variables alone.
THEOREM OneExecution == Spec => ImplementsSingleExecution
<1>1. Init => Governed!Init
  BY DEF Init, Governed!Init
<1>2. TypeOK /\ Control /\ [Next]_vars => [Governed!Next]_(Governed!vars)
  <2> SUFFICES ASSUME TypeOK, Control, [Next]_vars,
                      ~UNCHANGED <<decision, action, executions>>
               PROVE  Governed!Next
    BY DEF Governed!vars
  <2>1. CASE Decide
    BY <2>1 DEF Decide, Ruling, Control, WriteOnce, Deliberating, childVars, Governed!Next,
       Governed!Decide
  <2>2. CASE WriteRequest
    BY <2>2 DEF WriteRequest, Exposed, Go, Control, WriteOnce, Deliberating, Approved, childVars,
       Governed!Next, Governed!Request
  <2>3. CASE RemoteCall
    BY <2>3 DEF RemoteCall, records, Control, Dispatched, Governed!Next, Governed!Execute
  <2>4. Decide \/ WriteRequest \/ RemoteCall
    BY OtherSteps
  <2> QED
    BY <2>1, <2>2, <2>3, <2>4
<1> QED
  BY <1>1, <1>2, Controlled, PTL DEF Spec, ImplementsSingleExecution, Governed!Spec
-----------------------------------------------------------------------------
\* The call budget.

\* self.model_calls at each step.
Chain ==
    /\ role <= roles /\ commits <= Reviews
    /\ at \in {"start", "mission", "cycle", "direction"} => calls = 0 /\ role = 0 /\ roles = 0
    /\ at \in {"start", "mission"} \cup (Deliberating \ {"review", "decide"}) => commits = 0
    /\ at = "role" => calls = 1 + 3 * role
    /\ at = "task" => calls + 2 = 3 * role
    /\ at = "leaf" => calls + 1 = 3 * role
    /\ at = "summary" => calls = 3 * role
    /\ at = "presynthesis" => calls = 1 + 3 * roles
    /\ at = "proposal" => calls = 2 + 3 * roles
    /\ at = "review" => calls = 3 + 3 * roles + commits /\ commits < Reviews
    /\ at \in {"decide"} \cup (Approved \ {"next"}) => calls = 3 + 3 * roles + Reviews
    /\ at = "next" => calls = 4 + 3 * roles + Reviews

\* No call has been made yet.
LEMMA InitChain == Init => Chain
BY GateAssumption DEF Init, Chain, Deliberating, Approved

\* Every call is paid for once, at the step that makes it.
LEMMA StepChain == TypeOK /\ Chain /\ [Next]_vars => Chain'
<1> SUFFICES ASSUME TypeOK, Chain, [Next]_vars PROVE Chain'
  OBVIOUS
<1> USE GateAssumption DEF TypeOK, Chain, Deliberating, Approved, Go, Raises, ModelCall, RunSteps,
      CallSteps, GroundedSteps
<1>1. CASE Start
  BY <1>1 DEF Start, records, memory, result, childVars
<1>2. CASE WriteMission
  BY <1>2 DEF WriteMission, stream, memory, result, childVars
<1>3. CASE MissionLocked
  BY <1>3 DEF MissionLocked, stream, records, memory, childVars
<1>4. CASE OpenCycle
  BY <1>4 DEF OpenCycle, records, memory, result, childVars
<1>5. CASE InitialDirection
  BY <1>5 DEF InitialDirection, stream, records, result, childVars
<1>6. CASE NextRole
  <2>1. CASE invocations' > MaxInvocations
    BY <1>6, <2>1 DEF NextRole, stream, records, childVars
  <2>2. CASE ~(invocations' > MaxInvocations)
    BY <1>6, <2>2 DEF NextRole, stream, records, childVars
  <2> QED BY <2>1, <2>2
<1>7. CASE DecomposeRole
  BY <1>7 DEF DecomposeRole, stream, records, result, childVars
<1>8. CASE RunLeaf
  BY <1>8 DEF RunLeaf, stream, records, result, childVars
<1>9. CASE SummarizeRole
  BY <1>9 DEF SummarizeRole, stream, records, result, childVars
<1>10. CASE RolesDone
  BY <1>10 DEF RolesDone, stream, records, memory, result, childVars
<1>11. CASE PreProposalSynthesis
  BY <1>11 DEF PreProposalSynthesis, stream, records, result, childVars
<1>12. CASE Propose
  BY <1>12 DEF Propose, stream, result, childVars
<1>13. CASE Review
  BY <1>13 DEF Review, stream, records, result, childVars
<1>14. CASE Decide
  BY <1>14 DEF Decide, stream, memory, result, childVars
<1>15. CASE RejectAction
  BY <1>15 DEF RejectAction, stream, records, memory, childVars
<1>16. CASE WriteRequest
  BY <1>16 DEF WriteRequest, stream, memory, result, childVars
<1>17. CASE AnnounceRequest
  BY <1>17 DEF AnnounceRequest, records, memory, result, childVars
<1>18. CASE Dispatch
  BY <1>18 DEF Dispatch, stream, records, memory, result
<1>19. CASE Collect
  BY <1>19 DEF Collect, stream, records, memory, result, childVars
<1>20. CASE ChildFailed
  BY <1>20 DEF ChildFailed, stream, records, memory, childVars
<1>21. CASE TimesOut
  BY <1>21 DEF TimesOut, stream, records, memory
<1>22. CASE Observe
  BY <1>22 DEF Observe, stream, memory, result, childVars
<1>23. CASE Synthesize
  BY <1>23 DEF Synthesize, stream, records, result, childVars
<1>24. CASE NextDirection
  BY <1>24 DEF NextDirection, stream, records, childVars
<1>25. CASE OverBudget
  BY <1>25 DEF OverBudget, stream, records, memory, childVars
<1>26. CASE GroundingFails
  BY <1>26 DEF GroundingFails, stream, records, memory, childVars
<1>27. CASE StepFails
  BY <1>27 DEF StepFails, stream, records, memory, childVars
<1>28. CASE HandleException
  BY <1>28 DEF HandleException, stream, records, memory, childVars
<1>29. CASE Close
  BY <1>29 DEF Close, records, memory, result, childVars
<1>30. CASE Persist \/ Reload \/ PersistPart \/ PersistFails
  BY <1>30 DEF Persist, Reload, PersistPart, PersistFails, After, Parts, memory, result, childVars
<1>31. CASE ChildRejects
  BY <1>31 DEF ChildRejects, stream, records, memory, result
<1>32. CASE ChildDenies
  BY <1>32 DEF ChildDenies, records, memory, result
<1>33. CASE EnterBoundary
  BY <1>33 DEF EnterBoundary, records, memory, result
<1>34. CASE RemoteCall
  BY <1>34 DEF RemoteCall, stream, records, memory, result
<1>35. CASE RecordResult
  BY <1>35 DEF RecordResult, records, memory, result
<1>36. CASE ChildDies
  BY <1>36 DEF ChildDies, stream, records, memory, result, childVars
<1>37. CASE Crash
  BY <1>37 DEF Crash, stream, records, memory, result, childVars
<1>38. CASE Restart
  BY <1>38 DEF Restart, stream, records, childVars
<1>39. CASE UNCHANGED vars
  BY <1>39 DEF vars, stream, records, memory, result, childVars
<1> QED
  BY <1>1, <1>2, <1>3, <1>4, <1>5, <1>6, <1>7, <1>8, <1>9, <1>10, <1>11, <1>12, <1>13,
     <1>14, <1>15, <1>16, <1>17, <1>18, <1>19, <1>20, <1>21, <1>22, <1>23, <1>24, <1>25,
     <1>26, <1>27, <1>28, <1>29, <1>30, <1>31, <1>32, <1>33, <1>34, <1>35, <1>36, <1>37,
     <1>38, <1>39
     DEF Next, GateStep, ChildStep

\* A run with up to three roles never runs out of model calls, when the budget is
\* the 14 calls of a run with three roles and the reviews, or more: the code has
\* 20 and 4 (takeover_gate.py:35-39).
THEOREM ChainFits ==
  ASSUME 14 + Reviews <= MaxModelCalls
  PROVE  Spec => []ExpectedChainFits
<1>1. TypeOK /\ Chain => ExpectedChainFits
  BY GateAssumption DEF TypeOK, Chain, Approved, ExpectedChainFits, BudgetLeft, CallSteps
<1>2. Init => TypeOK /\ Chain
  BY InitTypes, InitChain
<1>3. TypeOK /\ Chain /\ [Next]_vars => (TypeOK /\ Chain)'
  BY StepTypes, StepChain
<1> QED
  BY <1>1, <1>2, <1>3, PTL DEF Spec
-----------------------------------------------------------------------------
\* The evidence.

\* The stream holds an event of this type.
Has(log, type) == \E i \in DOMAIN log : log[i] = type

\* Which events there can be, whatever was lost.
EventsOf ==
    /\ child \in {"none", "starting"} \/ answer = "denied"
          => ~Has(events, "execution_boundary_entered")
    /\ child \in {"none"} \cup Running
          => ~Has(events, "execution_completed") /\ ~Has(events, "execution_failed")
    /\ Has(events, "execution_completed") => answer = "verified" /\ child = "exited"
    /\ verdict.status # "none" => HasTerminal(events)

\* The copy of a stream that lost nothing: whoever is past a part of persist() has
\* written it, or a gate was killed in there; a process that finds a path finds
\* them all then.
Copied ==
    /\ "events" \in copies => HasTerminal(events) /\ archive = events
    /\ ~cut =>
         /\ taken = copies
         /\ at = "done" => copies = Parts
         /\ at \notin Parts => copies \in {{}, Parts}
         /\ at = "events" => copies \in {{}, Parts}
         /\ at = "counters" => copies = {"events"}
         /\ at = "interventions" => copies = {"events", "counters"}
         /\ at = "terminal" => copies = {"events", "counters", "interventions"}

\* A stream that lost nothing loads, and says what has happened unless it was
\* closed before.
Whole ==
    faults = 0 =>
      /\ ~torn
      /\ at = "dispatch" \/ child # "none"
            => Has(events, "execution_request_created") \/ HasTerminal(events)
      /\ child \in {"remote", "recording"}
            => Has(events, "execution_boundary_entered") \/ HasTerminal(events)
      /\ at \in Saving \cup {"done"} => HasTerminal(events)
      /\ Copied

\* The first part of EvidenceSound, for any stream.
Ordered(log) ==
    \A i \in DOMAIN log :
      /\ log[i] \in {"execution_completed", "execution_failed"}
            => \E j \in 1..(i - 1) : log[j] = "execution_boundary_entered"
      /\ log[i] = "execution_boundary_entered"
            => \E j \in 1..(i - 1) : log[j] = "execution_request_created"

Evidence == EventsOf /\ Whole /\ (faults = 0 => Ordered(events))

\* An append adds its type to those the stream holds, and nothing else.
LEMMA LogAppend ==
  ASSUME NEW log \in Seq(EventTypes), NEW type \in EventTypes
  PROVE  /\ \A t \in EventTypes : Has(Append(log, type), t) <=> Has(log, t) \/ t = type
         /\ HasTerminal(Append(log, type)) <=> HasTerminal(log) \/ type = "terminal"
<1> DEFINE new == Append(log, type)
<1>1. new \in Seq(EventTypes) /\ DOMAIN new = 1..(Len(log) + 1) /\ DOMAIN log = 1..Len(log)
  OBVIOUS
<1>2. \A i \in 1..Len(log) : new[i] = log[i]
  OBVIOUS
<1>3. new[Len(log) + 1] = type /\ Len(log) + 1 \in 1..(Len(log) + 1)
  OBVIOUS
<1>4. \A i \in 1..(Len(log) + 1) : i \in 1..Len(log) \/ i = Len(log) + 1
  OBVIOUS
<1>5. 1..Len(log) \subseteq 1..(Len(log) + 1)
  OBVIOUS
<1> HIDE DEF new
<1>6. \A t \in EventTypes : Has(new, t) <=> Has(log, t) \/ t = type
  BY <1>1, <1>2, <1>3, <1>4, <1>5 DEF Has
<1>7. HasTerminal(new) <=> HasTerminal(log) \/ type = "terminal"
  BY <1>1, <1>2, <1>3, <1>4, <1>5 DEF HasTerminal
<1> QED
  BY <1>6, <1>7 DEF new

\* A result may follow a boundary entry and that a request: the order stays.
LEMMA OrderedAppend ==
  ASSUME NEW log \in Seq(EventTypes), NEW type \in EventTypes, Ordered(log),
         type \in {"execution_completed", "execution_failed"}
            => Has(log, "execution_boundary_entered"),
         type = "execution_boundary_entered" => Has(log, "execution_request_created")
  PROVE  Ordered(Append(log, type))
<1> DEFINE new == Append(log, type)
<1>1. DOMAIN new = 1..(Len(log) + 1) /\ DOMAIN log = 1..Len(log) /\ Len(log) \in Nat
  OBVIOUS
<1>2. (\A i \in 1..Len(log) : new[i] = log[i]) /\ new[Len(log) + 1] = type
  OBVIOUS
<1> HIDE DEF new
<1>3. ASSUME NEW i \in 1..Len(log), NEW u, \E j \in 1..(i - 1) : log[j] = u
      PROVE  \E j \in 1..(i - 1) : new[j] = u
  <2>1. PICK j \in 1..(i - 1) : log[j] = u
    BY <1>3
  <2>2. j \in 1..Len(log)
    BY <1>1
  <2> QED
    BY <1>2, <2>1, <2>2
<1>4. ASSUME NEW u, Has(log, u)
      PROVE  \E j \in 1..((Len(log) + 1) - 1) : new[j] = u
  <2>1. PICK j \in 1..Len(log) : log[j] = u
    BY <1>1, <1>4 DEF Has
  <2>2. j \in 1..((Len(log) + 1) - 1) /\ new[j] = u
    BY <1>1, <1>2, <2>1
  <2> QED
    BY <2>2
<1>5. ASSUME NEW i \in DOMAIN new
      PROVE  /\ new[i] \in {"execution_completed", "execution_failed"}
                  => \E j \in 1..(i - 1) : new[j] = "execution_boundary_entered"
             /\ new[i] = "execution_boundary_entered"
                  => \E j \in 1..(i - 1) : new[j] = "execution_request_created"
  <2>1. CASE i \in 1..Len(log)
    <3>1. new[i] = log[i] /\ i \in DOMAIN log
      BY <1>1, <1>2, <2>1
    <3> QED
      BY <1>3, <2>1, <3>1 DEF Ordered
  <2>2. CASE i = Len(log) + 1
    BY <1>2, <1>4, <2>2
  <2> QED
    BY <1>1, <1>5, <2>1, <2>2
<1> QED
  BY <1>5 DEF Ordered, new

\* What an append does to the stream, and what it does when nothing is lost.
LEMMA EmitLog ==
  ASSUME TypeOK, NEW type \in EventTypes \ {"terminal"}, Emit(type)
  PROVE  /\ \A t \in EventTypes : Has(events', t) => Has(events, t) \/ t = type
         /\ \A t \in EventTypes : Has(events, t) => Has(events', t)
         /\ HasTerminal(events') <=> HasTerminal(events)
         /\ HasTerminal(events) => events' = events
         /\ verdict' = verdict
         /\ faults' = 0 => faults = 0
         /\ faults' = 0 /\ ~torn =>
              /\ ~torn'
              /\ events' = IF HasTerminal(events) THEN events ELSE Append(events, type)
              /\ Has(events', type) \/ HasTerminal(events')
              /\ Ordered(events)
                 /\ (type \in {"execution_completed", "execution_failed"} /\ ~HasTerminal(events)
                       => Has(events, "execution_boundary_entered"))
                 /\ (type = "execution_boundary_entered" /\ ~HasTerminal(events)
                       => Has(events, "execution_request_created"))
                 => Ordered(events')
<1>1. CASE ~Closed /\ events' = Append(events, type) /\ UNCHANGED <<torn, verdict, faults>>
  <2>1. events \in Seq(EventTypes) /\ type \in EventTypes /\ ~HasTerminal(events)
    BY <1>1 DEF TypeOK, Closed
  <2>2. /\ \A t \in EventTypes : Has(events', t) <=> Has(events, t) \/ t = type
        /\ HasTerminal(events') <=> HasTerminal(events) \/ type = "terminal"
    BY <1>1, <2>1, LogAppend
  <2>3. Ordered(events)
        /\ (type \in {"execution_completed", "execution_failed"}
              => Has(events, "execution_boundary_entered"))
        /\ (type = "execution_boundary_entered" => Has(events, "execution_request_created"))
        => Ordered(events')
    BY <1>1, <2>1, OrderedAppend
  <2> QED
    BY <1>1, <2>1, <2>2, <2>3
<1>2. CASE Closed /\ UNCHANGED stream
  BY <1>2 DEF stream, Closed
<1>3. CASE ~Closed /\ AppendFault
  <2>1. faults' # 0 /\ UNCHANGED <<events, verdict>>
    BY <1>3 DEF AppendFault, TypeOK
  <2> QED
    BY <2>1, <1>3 DEF Closed
<1> QED
  BY <1>1, <1>2, <1>3 DEF Emit

\* The same for the terminal event, which a closed stream already has.
LEMMA EmitTerminalLog ==
  ASSUME TypeOK, NEW status \in Statuses \cup {"none"}, NEW ph \in Phases,
         EmitTerminal(status, ph)
  PROVE  /\ \A t \in EventTypes \ {"terminal"} : Has(events', t) <=> Has(events, t)
         /\ HasTerminal(events) => HasTerminal(events') /\ events' = events
         /\ \/ verdict' = verdict
            \/ /\ ~Closed /\ HasTerminal(events') /\ events' = Append(events, "terminal")
               /\ verdict' = [status |-> status, phase |-> ph, boundary |-> Boundary]
         /\ faults' = 0 => faults = 0
         /\ faults' = 0 /\ ~torn =>
              /\ ~torn' /\ HasTerminal(events')
              /\ ~HasTerminal(events) =>
                   /\ events' = Append(events, "terminal")
                   /\ verdict' = [status |-> status, phase |-> ph, boundary |-> Boundary]
              /\ Ordered(events) => Ordered(events')
<1>1. CASE /\ ~Closed
           /\ events' = Append(events, "terminal")
           /\ verdict' = [status |-> status, phase |-> ph, boundary |-> Boundary]
           /\ UNCHANGED <<torn, faults>>
  <2>1. events \in Seq(EventTypes) /\ "terminal" \in EventTypes /\ ~HasTerminal(events)
    BY <1>1 DEF TypeOK, Closed, EventTypes
  <2>2. /\ \A t \in EventTypes : Has(events', t) <=> Has(events, t) \/ t = "terminal"
        /\ HasTerminal(events')
    BY <1>1, <2>1, LogAppend
  <2>3. Ordered(events) => Ordered(events')
    BY <1>1, <2>1, OrderedAppend
  <2> QED
    BY <1>1, <2>1, <2>2, <2>3
<1>2. CASE Closed /\ UNCHANGED stream
  BY <1>2 DEF stream, Closed
<1>3. CASE ~Closed /\ AppendFault
  <2>1. faults' # 0 /\ UNCHANGED <<events, verdict>>
    BY <1>3 DEF AppendFault, TypeOK
  <2> QED
    BY <2>1, <1>3 DEF Closed
<1> QED
  BY <1>1, <1>2, <1>3 DEF EmitTerminal

\* An empty stream claims nothing.
LEMMA InitEvidence == Init => Evidence
<1> SUFFICES ASSUME Init PROVE Evidence
  OBVIOUS
<1>1. events = << >> /\ DOMAIN events = {}
  BY DEF Init
<1>2. (\A t \in EventTypes : ~Has(events, t)) /\ ~HasTerminal(events) /\ Ordered(events)
  BY <1>1 DEF Has, HasTerminal, Ordered
<1> QED
  BY <1>2 DEF Init, Evidence, EventsOf, Whole, Copied, NoVerdict, Running, Saving, Parts,
     EventTypes, CountedTypes

\* When nothing is lost, persist() of a closed stream changes nothing in it.
LEMMA PersistLoads ==
  ASSUME TypeOK, Persist, faults' = 0, faults = 0 => ~torn /\ HasTerminal(events)
  PROVE  faults = 0 /\ at' = "events" /\ UNCHANGED stream
<1>1. ASSUME AppendFault PROVE FALSE
  <2>1. faults' = faults + 1
    BY <1>1 DEF AppendFault
  <2> QED
    BY <2>1 DEF TypeOK
<1>2. faults = 0
  BY <1>1 DEF Persist, stream
<1>3. ~torn /\ events # << >>
  BY <1>2 DEF HasTerminal
<1> QED
  BY <1>2, <1>3 DEF Persist, stream

\* Every step keeps Evidence: no append claims more than has happened.
LEMMA StepEvidence == TypeOK /\ Control /\ Evidence /\ [Next]_vars => Evidence'
<1> SUFFICES ASSUME TypeOK, Control, Evidence, [Next]_vars PROVE Evidence'
  OBVIOUS
<1>0. /\ {"run_started", "cycle_started", "execution_request_created",
          "execution_boundary_entered", "execution_completed", "execution_failed"}
              \subseteq EventTypes \ {"terminal"}
      /\ faults \in Nat
  BY DEF EventTypes, CountedTypes, TypeOK
<1> USE <1>0 DEF Evidence, EventsOf, Whole, Copied, Running, Go, Raises, ModelCall, RunSteps,
      CallSteps, GroundedSteps, Saving, Parts, kept
<1>1. CASE Start
  BY <1>1, EmitLog DEF Start, records, memory, result, childVars
<1>2. CASE WriteMission
  BY <1>2 DEF WriteMission, stream, memory, result, childVars
<1>3. CASE \/ MissionLocked \/ OverBudget \/ GroundingFails \/ StepFails \/ RejectAction
           \/ Collect \/ ChildFailed
  BY <1>3 DEF MissionLocked, OverBudget, GroundingFails, StepFails, RejectAction, Collect,
     ChildFailed, stream, records, memory, result, childVars
<1>4. CASE OpenCycle
  BY <1>4, EmitLog DEF OpenCycle, records, memory, result, childVars
<1>5. CASE \/ InitialDirection \/ NextRole \/ DecomposeRole \/ RunLeaf \/ SummarizeRole
           \/ RolesDone \/ PreProposalSynthesis \/ Review \/ Synthesize
  BY <1>5 DEF InitialDirection, NextRole, DecomposeRole, RunLeaf, SummarizeRole, RolesDone,
     PreProposalSynthesis, Review, Synthesize, stream, records, memory, result, childVars
<1>6. CASE Propose
  BY <1>6 DEF Propose, stream, result, childVars
<1>7. CASE Decide
  BY <1>7 DEF Decide, stream, memory, result, childVars
<1>8. CASE WriteRequest
  BY <1>8 DEF WriteRequest, stream, memory, result, childVars
<1>9. CASE AnnounceRequest
  BY <1>9, EmitLog DEF AnnounceRequest, records, memory, result, childVars
<1>10. CASE Dispatch
  BY <1>10 DEF Dispatch, Control, Dispatched, WriteOnce, stream, records, memory, result
<1>11. CASE TimesOut
  BY <1>11 DEF TimesOut, Control, Dispatched, WriteOnce, stream, records, memory
<1>12. CASE Observe
  <2>1. CASE answer = "denied"
    <3>1. EmitTerminal("REJECTED", "SAFETY_GATE")
      BY <1>12, <2>1 DEF Observe
    <3>2. "REJECTED" \in Statuses /\ "SAFETY_GATE" \in Phases
      BY DEF Statuses, Phases
    <3>3. UNCHANGED <<child, answer, kept>> /\ at = "observe" /\ at' = "raised"
      BY <1>12, <2>1 DEF Observe, childVars
    <3> QED
      BY <3>1, <3>2, <3>3, EmitTerminalLog DEF Control, Dispatched
  <2>2. CASE answer # "denied"
    BY <1>12, <2>2 DEF Observe, WriteObservation, Control, Dispatched, stream, childVars
  <2> QED
    BY <2>1, <2>2
<1>13. CASE NextDirection
  BY <1>13 DEF NextDirection, stream, records, childVars
<1>14. CASE HandleException
  BY <1>14 DEF HandleException, stream, records, memory, childVars
<1>15. CASE Close
  <2>1. EmitTerminal(ending, phase) /\ ending \in Statuses \cup {"none"} /\ phase \in Phases
    BY <1>15 DEF Close, TypeOK
  <2> QED
    BY <1>15, <2>1, EmitTerminalLog DEF Close, records, childVars
<1>16. CASE Persist
  <2>1. faults' = 0 => faults = 0 /\ events' = events /\ ~torn' /\ at' = "events"
    <3>1. at = "persist"
      BY <1>16 DEF Persist
    <3>2. faults = 0 => ~torn /\ HasTerminal(events)
      BY <3>1
    <3>3. faults' = 0 => faults = 0 /\ at' = "events" /\ UNCHANGED stream
      BY <1>16, <3>2, PersistLoads
    <3> QED
      BY <3>2, <3>3 DEF stream
  <2>2. Append(<< >>, "run_started") = <<"run_started">> /\ "run_started" \in EventTypes
        /\ events \in Seq(EventTypes)
    BY DEF EventTypes, TypeOK
  <2>3. \/ events' = events
        \/ events = << >> /\ events' = Append(events, "run_started")
    BY <1>16, <2>2 DEF Persist, AppendFault, stream
  <2>4. /\ \A t \in EventTypes \ {"run_started"} : Has(events', t) <=> Has(events, t)
        /\ HasTerminal(events) => HasTerminal(events')
    <3>1. CASE events' = Append(events, "run_started")
      BY <2>2, <3>1, LogAppend
    <3>2. CASE events' = events
      BY <3>2
    <3> QED
      BY <2>3, <3>1, <3>2
  <2>5. /\ {"execution_boundary_entered", "execution_completed", "execution_failed"}
              \subseteq EventTypes \ {"run_started"}
        /\ at = "persist" /\ UNCHANGED <<verdict, records, child, answer>>
    BY <1>16 DEF Persist, AppendFault, stream, EventTypes, CountedTypes, childVars
  <2> QED
    BY <2>1, <2>4, <2>5 DEF records
<1>17. CASE ChildRejects
  BY <1>17 DEF ChildRejects, Control, Dispatched, WriteOnce, stream, records, memory, result
<1>18. CASE ChildDenies
  <2>1. EmitTerminal("REJECTED", "SAFETY_GATE") /\ "REJECTED" \in Statuses
        /\ "SAFETY_GATE" \in Phases
    BY <1>18 DEF ChildDenies, Statuses, Phases
  <2> QED
    BY <1>18, <2>1, EmitTerminalLog DEF ChildDenies, Control, Dispatched, records
<1>19. CASE EnterBoundary
  BY <1>19, EmitLog DEF EnterBoundary, Control, Dispatched, WriteOnce, records, memory,
     result
<1>20. CASE RemoteCall
  BY <1>20 DEF RemoteCall, Control, Dispatched, WriteOnce, stream, records, memory, result
<1>21. CASE RecordResult
  BY <1>21, EmitLog DEF RecordResult, Control, Dispatched, WriteOnce, records, memory,
     result
<1>22. CASE ChildDies
  BY <1>22 DEF ChildDies, stream, records, memory, result, childVars
<1>23. CASE Restart
  BY <1>23 DEF Restart, stream, records, childVars
<1>24. CASE UNCHANGED vars
  BY <1>24 DEF vars, stream, records, memory, result, childVars
<1>25. CASE Reload \/ PersistPart \/ PersistFails
  <2>1. CASE Reload
    BY <2>1 DEF Reload, stream, records, memory, result, childVars
  <2>2. CASE PersistPart
    BY <2>2 DEF PersistPart, Creates, After, Parts, stream, memory, result, childVars
  <2>3. CASE PersistFails
    BY <2>3 DEF PersistFails, memory, result, childVars
  <2> QED
    BY <1>25, <2>1, <2>2, <2>3
<1>26. CASE Crash
  BY <1>26 DEF Crash, LeavesBehind, stream, memory, result, childVars
<1> QED
  BY <1>1, <1>2, <1>3, <1>4, <1>5, <1>6, <1>7, <1>8, <1>9, <1>10, <1>11, <1>12, <1>13,
     <1>14, <1>15, <1>16, <1>17, <1>18, <1>19, <1>20, <1>21, <1>22, <1>23, <1>24, <1>25, <1>26
     DEF Next, GateStep, ChildStep

\* The counters the code derives say whether the stream holds a type.
LEMMA CountHas ==
  ASSUME NEW log \in Seq(EventTypes), NEW type
  PROVE  Count(log, type) \in Nat /\ (Count(log, type) > 0 <=> Has(log, type))
<1> DEFINE C == {i \in DOMAIN log : log[i] = type}
<1>1. IsFiniteSet(C)
  <2>1. IsFiniteSet(1..Len(log)) /\ C \subseteq 1..Len(log)
    BY FS_Interval
  <2> QED
    BY <2>1, FS_Subset
<1>2. Cardinality(C) \in Nat /\ (Cardinality(C) = 0 <=> C = {})
  BY <1>1, FS_CardinalityType, FS_EmptySet
<1>3. C # {} <=> Has(log, type)
  BY DEF Has
<1> QED
  BY <1>2, <1>3 DEF Count

\* Evidence is an invariant.
LEMMA Evident == Spec => [](TypeOK /\ Control /\ Evidence)
<1>1. Init => TypeOK /\ Control /\ Evidence
  BY InitTypes, InitControl, InitEvidence
<1>2. TypeOK /\ Control /\ Evidence /\ [Next]_vars => (TypeOK /\ Control /\ Evidence)'
  BY StepTypes, StepControl, StepEvidence
<1> QED
  BY <1>1, <1>2, PTL DEF Spec

\* When no evidence write failed, every run that ends leaves a closed stream, and
\* a full copy of it unless a gate was killed while it wrote one; and a completed
\* copy of the stream is the closed stream, whatever was killed
\* (takeover_gate.py:349, 370, observability.py:169-213).
THEOREM CompleteArchive == Spec => []ArchiveComplete
<1>1. Evidence => ArchiveComplete
  BY DEF Evidence, Whole, Copied, ArchiveComplete
<1> QED
  BY <1>1, Evident, PTL
-----------------------------------------------------------------------------
\* The first run on a directory.

\* While the first process has not ended, the stream is open unless the child
\* has denied the action; when it has ended, so has its child.
FirstRun ==
    /\ starts >= 1
    /\ starts = 1 =>
         /\ at \in {"start", "mission"} => child = "none"
         /\ at \in Saving \cup {"raised", "closing", "done"} => child \notin Running
         /\ HasTerminal(events) => child \notin Running
         /\ at \in RunSteps \cup {"start"} /\ answer # "denied" => ~HasTerminal(events)
         /\ at = "closing" /\ outcome = "PASS" => ~HasTerminal(events)
         /\ at = "closing" /\ ending \in {"REJECTED", "STOPPED"}
               => torn \/ ~Has(events, "execution_boundary_entered")
         /\ verdict.status \in {"REJECTED", "STOPPED"}
               => ~verdict.boundary /\ ~Has(events, "execution_boundary_entered")
         /\ faults = 0 /\ (child \in {"remote", "recording"} \/ executions # 0)
               => Has(events, "execution_boundary_entered")

\* The stream is open and no child runs.
LEMMA InitFirstRun == Init => FirstRun
<1> SUFFICES ASSUME Init PROVE FirstRun
  OBVIOUS
<1>1. ~HasTerminal(events)
  BY DEF Init, HasTerminal
<1> QED
  BY <1>1 DEF Init, FirstRun, Running, NoVerdict

\* What _terminal_lifecycle reads of the counters.
LEMMA BoundaryHas ==
  ASSUME TypeOK PROVE Boundary <=> Has(events, "execution_boundary_entered")
BY CountHas DEF TypeOK, Boundary

\* Every step keeps FirstRun: what the terminal event of a first run says of the
\* boundary cannot be overtaken by its child.
LEMMA StepFirstRun == TypeOK /\ Control /\ Evidence /\ FirstRun /\ [Next]_vars => FirstRun'
<1> SUFFICES ASSUME TypeOK, Control, Evidence, FirstRun, [Next]_vars PROVE FirstRun'
  OBVIOUS
<1>0. /\ {"run_started", "cycle_started", "execution_request_created",
          "execution_boundary_entered", "execution_completed", "execution_failed"}
              \subseteq EventTypes \ {"terminal"}
      /\ faults \in Nat /\ starts \in Nat
      /\ Boundary <=> Has(events, "execution_boundary_entered")
  BY BoundaryHas DEF EventTypes, CountedTypes, TypeOK
<1> USE <1>0 DEF FirstRun, Running, Control, WriteOnce, Dispatched, Go, Raises, ModelCall,
      RunSteps, CallSteps, GroundedSteps, Deliberating, Approved, Saving, Parts
<1>1. CASE Start
  BY <1>1, EmitLog DEF Start, Evidence, EventsOf, Whole, records, memory, result, childVars
<1>2. CASE WriteMission
  BY <1>2 DEF WriteMission, stream, memory, result, childVars
<1>3. CASE \/ MissionLocked \/ OverBudget \/ GroundingFails \/ StepFails \/ RejectAction
           \/ Collect \/ ChildFailed \/ Crash
  BY <1>3 DEF MissionLocked, OverBudget, GroundingFails, StepFails, RejectAction, Collect,
     ChildFailed, Crash, stream, records, memory, result, childVars
<1>4. CASE OpenCycle
  BY <1>4, EmitLog DEF OpenCycle, Evidence, EventsOf, Whole, records, memory, result,
     childVars
<1>5. CASE \/ InitialDirection \/ NextRole \/ DecomposeRole \/ RunLeaf \/ SummarizeRole
           \/ RolesDone \/ PreProposalSynthesis \/ Review \/ Synthesize
  BY <1>5 DEF InitialDirection, NextRole, DecomposeRole, RunLeaf, SummarizeRole, RolesDone,
     PreProposalSynthesis, Review, Synthesize, stream, records, memory, result, childVars
<1>6. CASE Propose
  BY <1>6 DEF Propose, stream, result, childVars
<1>7. CASE Decide
  BY <1>7 DEF Decide, Evidence, EventsOf, Ruling, stream, memory, result, childVars
<1>8. CASE WriteRequest
  BY <1>8 DEF WriteRequest, stream, memory, result, childVars
<1>9. CASE AnnounceRequest
  BY <1>9, EmitLog DEF AnnounceRequest, Evidence, EventsOf, Whole, records, memory, result,
     childVars
<1>10. CASE Dispatch
  BY <1>10 DEF Dispatch, stream, records, memory, result
<1>11. CASE TimesOut
  BY <1>11 DEF TimesOut, stream, records, memory
<1>12. CASE Observe
  <2>1. CASE answer = "denied"
    <3>1. EmitTerminal("REJECTED", "SAFETY_GATE")
      BY <1>12, <2>1 DEF Observe
    <3>2. "REJECTED" \in Statuses /\ "SAFETY_GATE" \in Phases
      BY DEF Statuses, Phases
    <3>3. UNCHANGED <<child, answer, executions, ending, outcome, starts>>
          /\ at = "observe" /\ at' = "raised"
      BY <1>12, <2>1 DEF Observe, childVars
    <3>4. ~Has(events, "execution_boundary_entered")
      BY <2>1 DEF Evidence, EventsOf
    <3> QED
      BY <2>1, <3>1, <3>2, <3>3, <3>4, EmitTerminalLog
  <2>2. CASE answer # "denied"
    BY <1>12, <2>2 DEF Observe, stream, childVars, result
  <2> QED
    BY <2>1, <2>2
<1>13. CASE NextDirection
  BY <1>13 DEF NextDirection, stream, records, childVars
<1>14. CASE HandleException
  BY <1>14 DEF HandleException, FailureStatus, stream, records, memory, childVars
<1>15. CASE Close
  <2>1. EmitTerminal(ending, phase) /\ ending \in Statuses \cup {"none"} /\ phase \in Phases
    BY <1>15 DEF Close, TypeOK
  <2> QED
    BY <1>15, <2>1, EmitTerminalLog DEF Close, records, result, childVars, Closed
<1>16. CASE Persist
  <2>1. /\ HasTerminal(events) => events' = events
        /\ Has(events', "execution_boundary_entered") => Has(events, "execution_boundary_entered")
        /\ faults' = 0 => faults = 0 /\ events' = events
    <3>1. faults' = 0 => faults = 0 /\ events' = events
      BY <1>16, PersistLoads DEF Persist, Evidence, Whole, stream
    <3>2. events' = events \/ (events = << >> /\ events' = <<"run_started">>)
      BY <1>16 DEF Persist, AppendFault, stream
    <3>3. ASSUME events' = <<"run_started">>
          PROVE  ~Has(events', "execution_boundary_entered")
      BY <3>3 DEF Has
    <3> QED
      BY <3>1, <3>2, <3>3 DEF HasTerminal
  <2>2. /\ at = "persist" /\ at' \in {"done", "events", "reload"}
        /\ UNCHANGED <<verdict, result, childVars, starts>>
    BY <1>16 DEF Persist, AppendFault, stream
  <2> QED
    BY <2>1, <2>2 DEF Evidence, EventsOf, Whole, result, childVars
<1>17. CASE ChildRejects
  BY <1>17 DEF ChildRejects, stream, records, memory, result
<1>18. CASE ChildDenies
  <2>1. EmitTerminal("REJECTED", "SAFETY_GATE") /\ "REJECTED" \in Statuses
        /\ "SAFETY_GATE" \in Phases
    BY <1>18 DEF ChildDenies, Statuses, Phases
  <2> QED
    BY <1>18, <2>1, EmitTerminalLog DEF ChildDenies, Evidence, EventsOf, records, result
<1>19. CASE EnterBoundary
  BY <1>19, EmitLog DEF EnterBoundary, Evidence, EventsOf, Whole, records, memory, result
<1>20. CASE RemoteCall
  BY <1>20 DEF RemoteCall, Evidence, Whole, stream, records, memory, result
<1>21. CASE RecordResult
  BY <1>21, EmitLog DEF RecordResult, Evidence, EventsOf, Whole, records, memory, result
<1>22. CASE ChildDies
  BY <1>22 DEF ChildDies, stream, records, memory, result, childVars
<1>23. CASE Restart
  BY <1>23 DEF Restart, stream, records, childVars
<1>24. CASE UNCHANGED vars
  BY <1>24 DEF vars, stream, records, memory, result, childVars
<1>25. CASE Reload \/ PersistPart \/ PersistFails
  BY <1>25 DEF Reload, PersistPart, PersistFails, After, stream, records, memory, result,
     childVars
<1> QED
  BY <1>1, <1>2, <1>3, <1>4, <1>5, <1>6, <1>7, <1>8, <1>9, <1>10, <1>11, <1>12, <1>13,
     <1>14, <1>15, <1>16, <1>17, <1>18, <1>19, <1>20, <1>21, <1>22, <1>23, <1>24, <1>25
     DEF Next, GateStep, ChildStep

\* FirstRun is an invariant.
LEMMA FirstRuns == Spec => [](TypeOK /\ Control /\ Evidence /\ FirstRun)
<1>1. Init => FirstRun
  BY InitFirstRun
<1>2. TypeOK /\ Control /\ Evidence /\ FirstRun /\ [Next]_vars => FirstRun'
  BY StepFirstRun
<1> QED
  BY <1>1, <1>2, Evident, PTL DEF Spec

\* A terminal event of a first run that says rejected or stopped never coexists
\* with a boundary entry, and when nothing was lost it means that nothing ran,
\* then or later (tests/test_observability.py:319).
THEOREM VerdictBeforeExecution == Spec => []PreExecutionVerdict
<1>1. FirstRun => PreExecutionVerdict
  BY DEF FirstRun, Dispatched, Control, PreExecutionVerdict
<1> QED
  BY <1>1, FirstRuns, PTL

\* The stream of a first run that has lost nothing, step by step.
Started == Append(<< >>, "run_started")
Opened == Append(Started, "cycle_started")
Requesting == Append(Opened, "execution_request_created")
Entered == Append(Requesting, "execution_boundary_entered")
Verified == Append(Entered, "execution_completed")
Sealed == Append(Verified, "terminal")

Story ==
    starts = 1 /\ faults = 0 =>
      /\ at = "start" => events = << >>
      /\ at \in {"mission", "cycle"} => events = Started
      /\ at \in (Deliberating \ {"cycle"}) \cup {"request", "announce"} => events = Opened
      /\ at = "dispatch" => events = Requesting
      /\ at \in {"waiting", "observe"} =>
           /\ child = "starting" => events = Requesting
           /\ child \in {"remote", "recording"} => events = Entered
           /\ child = "exited" /\ answer = "verified" => events = Verified
      /\ at \in {"synthesis", "next"} => events = Verified
      /\ at = "closing" /\ outcome = "PASS" => events = Verified
      /\ at \in Saving \cup {"done"} /\ outcome = "PASS" =>
           /\ events = Sealed
           /\ verdict = [status |-> "COMPLETED", phase |-> "COMPLETE", boundary |-> TRUE]

\* An append, element by element.
LEMMA NextLine ==
  ASSUME NEW log \in Seq(EventTypes), NEW type \in EventTypes, NEW new,
         new = Append(log, type)
  PROVE  /\ new \in Seq(EventTypes) /\ Len(new) = Len(log) + 1
         /\ new[Len(log) + 1] = type
         /\ \A i \in 1..Len(log) : new[i] = log[i]
OBVIOUS

\* The stream of a run whose action was verified, element by element.
LEMMA Lines ==
  /\ Verified \in Seq(EventTypes) /\ Len(Verified) = 5
  /\ Verified[1] = "run_started" /\ Verified[2] = "cycle_started"
  /\ Verified[3] = "execution_request_created" /\ Verified[4] = "execution_boundary_entered"
  /\ Verified[5] = "execution_completed"
<1>1. Started \in Seq(EventTypes) /\ Len(Started) = 1 /\ Started[1] = "run_started"
  BY DEF Started, EventTypes
<1>2. 1 \in 1..1 /\ {1, 2} \subseteq 1..2 /\ {1, 2, 3} \subseteq 1..3 /\ {1, 2, 3, 4} \subseteq 1..4
  OBVIOUS
<1>3. "cycle_started" \in EventTypes /\ Opened = Append(Started, "cycle_started")
  BY DEF Opened, EventTypes
<1>4. /\ Opened \in Seq(EventTypes) /\ Len(Opened) = 2
      /\ Opened[1] = "run_started" /\ Opened[2] = "cycle_started"
  BY <1>1, <1>2, <1>3, NextLine
<1>5. /\ "execution_request_created" \in EventTypes
      /\ Requesting = Append(Opened, "execution_request_created")
  BY DEF Requesting, EventTypes, CountedTypes
<1>6. /\ Requesting \in Seq(EventTypes) /\ Len(Requesting) = 3
      /\ Requesting[1] = "run_started" /\ Requesting[2] = "cycle_started"
      /\ Requesting[3] = "execution_request_created"
  BY <1>2, <1>4, <1>5, NextLine
<1>7. /\ "execution_boundary_entered" \in EventTypes
      /\ Entered = Append(Requesting, "execution_boundary_entered")
  BY DEF Entered, EventTypes, CountedTypes
<1>8. /\ Entered \in Seq(EventTypes) /\ Len(Entered) = 4
      /\ Entered[1] = "run_started" /\ Entered[2] = "cycle_started"
      /\ Entered[3] = "execution_request_created" /\ Entered[4] = "execution_boundary_entered"
  BY <1>2, <1>6, <1>7, NextLine
<1>9. /\ "execution_completed" \in EventTypes
      /\ Verified = Append(Entered, "execution_completed")
  BY DEF Verified, EventTypes, CountedTypes
<1> QED
  BY <1>2, <1>8, <1>9, NextLine

\* The stream of a run that passes, as EvidenceSound spells it.
LEMMA SealedIs ==
  Sealed = <<"run_started", "cycle_started", "execution_request_created",
             "execution_boundary_entered", "execution_completed", "terminal">>
<1> DEFINE full == <<"run_started", "cycle_started", "execution_request_created",
                     "execution_boundary_entered", "execution_completed", "terminal">>
<1>1. Sealed \in Seq(EventTypes) /\ full \in Seq(EventTypes)
  BY Lines DEF Sealed, EventTypes, CountedTypes
<1>2. Len(full) = 6
  OBVIOUS
<1>3. \A i \in 1..6 : i \in 1..5 \/ i = 6
  OBVIOUS
<1>4. /\ Len(Sealed) = 6 /\ Sealed[6] = "terminal"
      /\ \A i \in 1..5 : Sealed[i] = Verified[i]
  <2>1. "terminal" \in EventTypes /\ Sealed = Append(Verified, "terminal")
    BY DEF EventTypes, Sealed
  <2> QED
    BY <2>1, Lines, NextLine
<1>5. /\ full[1] = "run_started" /\ full[2] = "cycle_started"
      /\ full[3] = "execution_request_created" /\ full[4] = "execution_boundary_entered"
      /\ full[5] = "execution_completed" /\ full[6] = "terminal"
  OBVIOUS
<1> HIDE DEF full
<1>6. \A i \in 1..5 : i \in {1, 2, 3, 4, 5}
  OBVIOUS
<1>7. \A i \in 1..5 : Verified[i] = full[i]
  BY <1>5, <1>6, Lines
<1>8. \A i \in 1..6 : Sealed[i] = full[i]
  BY <1>3, <1>4, <1>5, <1>7
<1>9. Sealed = full
  BY <1>1, <1>2, <1>4, <1>8, SeqEqual
<1> QED
  BY <1>9 DEF full

\* The story starts with an empty stream.
LEMMA InitStory == Init => Story
BY DEF Init, Story, Deliberating

\* Every step keeps Story: the process appends the next line or none.
LEMMA StepStory ==
  TypeOK /\ Control /\ Evidence /\ FirstRun /\ Story /\ [Next]_vars => Story'
<1> SUFFICES ASSUME TypeOK, Control, Evidence, FirstRun, Story, [Next]_vars,
                    starts' = 1, faults' = 0
             PROVE  Story'
  BY DEF Story
<1>0. /\ {"run_started", "cycle_started", "execution_request_created",
          "execution_boundary_entered", "execution_completed", "execution_failed"}
              \subseteq EventTypes \ {"terminal"}
      /\ faults \in Nat /\ starts \in Nat
      /\ Boundary <=> Has(events, "execution_boundary_entered")
  BY BoundaryHas DEF EventTypes, CountedTypes, TypeOK
<1> USE <1>0 DEF Story, Started, Opened, Requesting, Entered, Verified, Sealed, Evidence,
      Whole, Control, WriteOnce, Dispatched, Passing, FirstRun, Go, Raises, ModelCall,
      RunSteps, CallSteps, GroundedSteps, Deliberating, Approved, Saving, Parts
<1>1. CASE Start
  BY <1>1, EmitLog DEF Start, records, memory, result, childVars
<1>2. CASE WriteMission
  BY <1>2 DEF WriteMission, stream, memory, result, childVars
<1>3. CASE \/ MissionLocked \/ OverBudget \/ GroundingFails \/ StepFails \/ RejectAction
           \/ Collect \/ ChildFailed \/ Crash
  BY <1>3 DEF MissionLocked, OverBudget, GroundingFails, StepFails, RejectAction, Collect,
     ChildFailed, Crash, stream, records, memory, result, childVars
<1>4. CASE OpenCycle
  BY <1>4, EmitLog DEF OpenCycle, records, memory, result, childVars
<1>5. CASE \/ InitialDirection \/ NextRole \/ DecomposeRole \/ RunLeaf \/ SummarizeRole
           \/ RolesDone \/ PreProposalSynthesis \/ Review \/ Synthesize
  BY <1>5 DEF InitialDirection, NextRole, DecomposeRole, RunLeaf, SummarizeRole, RolesDone,
     PreProposalSynthesis, Review, Synthesize, stream, records, memory, result, childVars
<1>6. CASE Propose
  BY <1>6 DEF Propose, stream, result, childVars
<1>7. CASE Decide
  BY <1>7 DEF Decide, stream, memory, result, childVars
<1>8. CASE WriteRequest
  BY <1>8 DEF WriteRequest, stream, memory, result, childVars
<1>9. CASE AnnounceRequest
  BY <1>9, EmitLog DEF AnnounceRequest, records, memory, result, childVars
<1>10. CASE Dispatch
  BY <1>10 DEF Dispatch, stream, records, memory, result
<1>11. CASE TimesOut
  BY <1>11 DEF TimesOut, stream, records, memory
<1>12. CASE Observe
  <2>1. CASE answer = "verified"
    BY <1>12, <2>1 DEF Observe, stream, childVars, result
  <2>2. CASE answer # "verified"
    BY <1>12, <2>2 DEF Observe, childVars, result
  <2> QED
    BY <2>1, <2>2
<1>13. CASE NextDirection
  BY <1>13 DEF NextDirection, stream, records, childVars
<1>14. CASE HandleException
  BY <1>14 DEF HandleException, stream, records, memory, childVars
<1>15. CASE Close
  <2>1. EmitTerminal(ending, phase) /\ ending \in Statuses \cup {"none"} /\ phase \in Phases
    BY <1>15 DEF Close, TypeOK
  <2>2. at' = "persist" /\ outcome' = outcome /\ at = "closing" /\ starts = 1
    BY <1>15 DEF Close, result
  <2>3. ASSUME outcome = "PASS"
        PROVE  /\ events' = Sealed
               /\ verdict' = [status |-> "COMPLETED", phase |-> "COMPLETE", boundary |-> TRUE]
    <3>1. faults = 0 /\ ~torn /\ ~HasTerminal(events) /\ events = Verified
      BY <2>1, <2>2, <2>3, EmitTerminalLog
    <3>2. Boundary
      BY <2>2, <2>3, <3>1
    <3>3. Boundary = TRUE
      BY <3>2 DEF Boundary
    <3>4. ending = "COMPLETED" /\ phase = "COMPLETE"
      BY <2>2, <2>3
    <3>5. /\ events' = Append(events, "terminal")
          /\ verdict' = [status |-> ending, phase |-> phase, boundary |-> Boundary]
      BY <2>1, <3>1, EmitTerminalLog
    <3> QED
      BY <3>1, <3>3, <3>4, <3>5
  <2> QED
    BY <2>2, <2>3
<1>16. CASE Persist
  <2>1. faults = 0 /\ events' = events /\ UNCHANGED verdict
    <3>1. at = "persist"
      BY <1>16 DEF Persist
    <3> QED
      BY <1>16, <3>1, PersistLoads DEF stream
  <2>2. /\ at = "persist" /\ at' \in {"done", "events", "reload"}
        /\ UNCHANGED <<result, childVars, starts>>
    BY <1>16 DEF Persist
  <2> QED
    BY <2>1, <2>2 DEF result, childVars
<1>17. CASE ChildRejects
  BY <1>17 DEF ChildRejects, stream, records, memory, result
<1>18. CASE ChildDenies
  BY <1>18 DEF ChildDenies, records, result
<1>19. CASE EnterBoundary
  BY <1>19, EmitLog DEF EnterBoundary, records, memory, result
<1>20. CASE RemoteCall
  BY <1>20 DEF RemoteCall, stream, records, memory, result
<1>21. CASE RecordResult
  BY <1>21, EmitLog DEF RecordResult, records, memory, result
<1>22. CASE ChildDies
  BY <1>22 DEF ChildDies, stream, records, memory, result, childVars
<1>23. CASE Restart
  BY <1>23 DEF Restart, stream, records, childVars
<1>24. CASE UNCHANGED vars
  BY <1>24 DEF vars, stream, records, memory, result, childVars
<1>25. CASE Reload \/ PersistPart \/ PersistFails
  BY <1>25 DEF Reload, PersistPart, PersistFails, After, stream, records, memory, result,
     childVars
<1> QED
  BY <1>1, <1>2, <1>3, <1>4, <1>5, <1>6, <1>7, <1>8, <1>9, <1>10, <1>11, <1>12, <1>13,
     <1>14, <1>15, <1>16, <1>17, <1>18, <1>19, <1>20, <1>21, <1>22, <1>23, <1>24, <1>25
     DEF Next, GateStep, ChildStep

\* Story is an invariant.
LEMMA Stories == Spec => [](TypeOK /\ Control /\ Evidence /\ Story)
<1>1. Init => Story
  BY InitStory
<1>2. TypeOK /\ Control /\ Evidence /\ FirstRun /\ Story /\ [Next]_vars => Story'
  BY StepStory
<1> QED
  BY <1>1, <1>2, FirstRuns, PTL DEF Spec

\* In a stream that has lost nothing, results come after the boundary event and
\* that after the request event, through any crash, restart or timeout; and the
\* TAKEOVER_GATE_PASS of a first run is backed by the complete evidence of one
\* execution (takeover_gate.py:519-553, chia_adapter.py:108-146).
THEOREM SoundEvidence == Spec => []EvidenceSound
<1>1. TypeOK /\ Control /\ Evidence /\ Story => EvidenceSound
  <2> SUFFICES ASSUME TypeOK, Control, Evidence, Story PROVE EvidenceSound
    OBVIOUS
  <2>1. ASSUME faults = 0 PROVE Ordered(events)
    BY <2>1 DEF Evidence
  <2>2. ASSUME at = "done", outcome = "PASS", faults = 0, starts = 1
        PROVE  /\ events = Sealed
               /\ verdict = [status |-> "COMPLETED", phase |-> "COMPLETE", boundary |-> TRUE]
               /\ observed = "EXECUTED" /\ executions = 1
    BY <2>2 DEF Story, Control, Passing, Dispatched
  <2> QED
    BY <2>1, <2>2, SealedIs DEF EvidenceSound, Ordered
<1> QED
  BY <1>1, Stories, PTL

\* The grounding says COMPLETED only of an action that was dispatched once and
\* verified; it says NOT_REQUESTED in every prompt before the proposal, and
\* COMPLETED in the final synthesis of a first run that has lost nothing
\* (runtime_grounding.py:135-148).
THEOREM TruthfulGrounding == Spec => []GroundingTruthful
<1>1. TypeOK /\ Control /\ Evidence /\ Story => GroundingTruthful
  <2> SUFFICES ASSUME TypeOK, Control, Evidence, Story PROVE GroundingTruthful
    OBVIOUS
  <2> DEFINE state == ExecutionState(events, files, observed)
             counted(t) == Count(events, t) > 0
  <2>1. \A t : (Count(events, t) > 0 <=> Has(events, t)) /\ Count(events, t) \in Nat
    BY CountHas DEF TypeOK
  <2>2. ASSUME state = "COMPLETED" PROVE answer = "verified" /\ executions = 1
    <3>1. Count(events, "execution_completed") > 0
      BY <2>2 DEF ExecutionState
    <3> QED
      BY <2>1, <3>1 DEF Evidence, EventsOf, Control, Dispatched
  <2>3. ASSUME at \in {"summary", "presynthesis"} PROVE state = "NOT_REQUESTED"
    <3>1. child = "none" /\ observed = "none" /\ files \cap {"proposal", "request"} = {}
      BY <2>3 DEF Control, WriteOnce, Deliberating
    <3>2. \A t \in {"execution_failed", "execution_completed", "execution_boundary_entered"} :
             Count(events, t) = 0
      BY <2>1, <3>1 DEF Evidence, EventsOf
    <3> QED
      BY <3>1, <3>2 DEF ExecutionState
  <2>4. ASSUME at = "synthesis", faults = 0, starts = 1 PROVE state = "COMPLETED"
    <3>1. events = Verified /\ observed = "EXECUTED"
      BY <2>4 DEF Story, Control, Dispatched
    <3>2. Has(Verified, "execution_completed") /\ ~Has(Verified, "execution_failed")
      <4>1. \A i \in 1..5 : i \in {1, 2, 3, 4, 5}
        OBVIOUS
      <4> QED
        BY <4>1, Lines DEF Has
    <3>3. Count(events, "execution_failed") = 0 /\ Count(events, "execution_completed") > 0
      BY <2>1, <3>1, <3>2
    <3> QED
      BY <3>1, <3>3 DEF ExecutionState
  <2> QED
    BY <2>2, <2>3, <2>4 DEF GroundingTruthful
<1> QED
  BY <1>1, Stories, PTL

-----------------------------------------------------------------------------
\* How long a gate process can run.

\* How far the end of run() is when no model is called any more.  The loops of
\* _run(), over roles and over reviews, all pass through a model call.
Rank ==
    CASE at \in {"done", "down"}             -> 0
      [] at = "terminal"                     -> 1
      [] at = "interventions"                -> 2
      [] at = "counters"                     -> 3
      [] at = "events"                       -> 4
      [] at = "reload"                       -> 5
      [] at = "persist"                      -> 6
      [] at = "closing"                      -> 7
      [] at = "raised"                       -> 8
      [] at \in CallSteps                    -> 9
      [] at \in {"observe", "role", "cycle"} -> 10
      [] at \in {"waiting", "mission"}       -> 11
      [] at \in {"dispatch", "start"}        -> 12
      [] at = "announce"                     -> 13
      [] at = "request"                      -> 14
      [] at = "decide"                       -> 15

\* A model call is worth more than all that can follow it up to the next one.
GateMeasure == 16 * (MaxModelCalls - calls) + Rank

\* The budget is never overdrawn.
Budgeted == calls <= MaxModelCalls

\* A step of the gate is a model call within the budget, or brings it nearer to
\* its end.
LEMMA GateMoves ==
  ASSUME TypeOK, GateStep
  PROVE  /\ Rank \in 0..15 /\ Rank' \in 0..15
         /\ \/ calls' = calls /\ Rank' < Rank
            \/ BudgetLeft /\ calls' = calls + 1 /\ Rank = 9
<1> USE DEF Go, Raises, ModelCall, Rank, CallSteps
<1>1. CASE Start \/ WriteMission \/ MissionLocked \/ OpenCycle
  BY <1>1 DEF Start, WriteMission, MissionLocked, OpenCycle, memory
<1>2. CASE InitialDirection \/ DecomposeRole \/ RunLeaf \/ SummarizeRole
  BY <1>2 DEF InitialDirection, DecomposeRole, RunLeaf, SummarizeRole
<1>3. CASE PreProposalSynthesis \/ Propose \/ Review
  BY <1>3 DEF PreProposalSynthesis, Propose, Review
<1>4. CASE Synthesize \/ NextDirection
  BY <1>4 DEF Synthesize, NextDirection
<1>5. CASE NextRole \/ RolesDone
  BY <1>5 DEF NextRole, RolesDone, memory
<1>6. CASE Decide
  <2>1. at = "decide" /\ at' \in {"request", "closing", "raised"} /\ calls' = calls
    BY <1>6 DEF Decide, memory
  <2>2. Rank = 15
    BY <2>1
  <2>3. Rank' \in {14, 7, 8}
    BY <2>1
  <2> HIDE DEF Rank
  <2> QED
    BY <2>1, <2>2, <2>3
<1>7. CASE RejectAction \/ WriteRequest \/ AnnounceRequest \/ Dispatch
  BY <1>7 DEF RejectAction, WriteRequest, AnnounceRequest, Dispatch, memory
<1>8. CASE Collect \/ ChildFailed \/ TimesOut
  BY <1>8 DEF Collect, ChildFailed, TimesOut, memory
<1>9. CASE Observe
  <2>1. at = "observe" /\ at' \in {"synthesis", "raised"} /\ calls' = calls
    BY <1>9 DEF Observe, memory
  <2>2. Rank = 10
    BY <2>1
  <2>3. Rank' \in {8, 9}
    BY <2>1
  <2> HIDE DEF Rank
  <2> QED
    BY <2>1, <2>2, <2>3
<1>10. CASE OverBudget \/ GroundingFails
  BY <1>10 DEF OverBudget, GroundingFails, GroundedSteps, memory
<1>11. CASE StepFails
  BY <1>11 DEF StepFails, RunSteps, memory
<1>12. CASE HandleException \/ Close \/ Persist \/ Reload
  BY <1>12 DEF HandleException, Close, Persist, Reload, memory
<1>13. CASE PersistPart \/ PersistFails
  BY <1>13 DEF PersistPart, PersistFails, After, Parts, memory
<1> QED
  BY <1>1, <1>2, <1>3, <1>4, <1>5, <1>6, <1>7, <1>8, <1>9, <1>10, <1>11, <1>12, <1>13
     DEF GateStep

\* The budget stays within its limit: _check_limits looks before each call
\* (takeover_gate.py:217), and a new process begins at zero.
LEMMA StepBudgeted == TypeOK /\ Budgeted /\ [Next]_vars => Budgeted'
<1> SUFFICES ASSUME TypeOK, Budgeted, [Next]_vars PROVE Budgeted'
  OBVIOUS
<1>1. calls \in Nat /\ MaxModelCalls \in Nat
  BY GateAssumption DEF TypeOK
<1>2. CASE GateStep
  BY <1>1, <1>2, GateMoves DEF Budgeted, BudgetLeft
<1>3. CASE ChildStep
  <2>1. calls' = calls
    BY <1>3 DEF ChildStep, ChildRejects, ChildDenies, EnterBoundary, RemoteCall,
       RecordResult, ChildDies, memory
  <2> QED
    BY <2>1 DEF Budgeted
<1>4. CASE Crash
  BY <1>4 DEF Crash, memory, Budgeted
<1>5. CASE Restart
  BY <1>1, <1>5 DEF Restart, Budgeted
<1>6. CASE UNCHANGED vars
  BY <1>6 DEF vars, memory, Budgeted
<1> QED
  BY <1>2, <1>3, <1>4, <1>5, <1>6 DEF Next

\* A gate process makes at most 16 * max_model_calls + 15 steps, however many roles
\* L0 asks for, whatever fails and whatever its child does: each step lowers a
\* natural number that only a new process sets back (takeover_gate.py:213-223,
\* 388-597).  It is what of RunEnds does not rest on the scheduler.
THEOREM GateDescends ==
  Spec => /\ [](GateMeasure \in 0..(16 * MaxModelCalls + 15))
          /\ [][GateStep => GateMeasure' < GateMeasure]_vars
          /\ [][ChildStep => GateMeasure' = GateMeasure]_vars
<1>1. Init => Budgeted
  BY GateAssumption DEF Init, Budgeted
<1>2. TypeOK /\ Budgeted => GateMeasure \in 0..(16 * MaxModelCalls + 15)
  <2> SUFFICES ASSUME TypeOK, Budgeted PROVE GateMeasure \in 0..(16 * MaxModelCalls + 15)
    OBVIOUS
  <2>1. calls \in 0..MaxModelCalls /\ MaxModelCalls \in Nat
    BY GateAssumption DEF TypeOK, Budgeted
  <2>2. Rank \in 0..15
    BY DEF TypeOK, Rank, RunSteps, CallSteps, Saving, Parts
  <2> QED
    BY <2>1, <2>2 DEF GateMeasure
<1>3. TypeOK /\ Budgeted /\ GateStep => GateMeasure' < GateMeasure
  <2> SUFFICES ASSUME TypeOK, Budgeted, GateStep PROVE GateMeasure' < GateMeasure
    OBVIOUS
  <2>1. calls \in Nat /\ MaxModelCalls \in Nat
    BY GateAssumption DEF TypeOK
  <2>2. GateMeasure' = 16 * (MaxModelCalls - calls') + Rank'
    BY DEF GateMeasure
  <2>3. GateMeasure = 16 * (MaxModelCalls - calls) + Rank
    BY DEF GateMeasure
  <2> QED
    BY <2>1, <2>2, <2>3, GateMoves
<1>4. ChildStep => GateMeasure' = GateMeasure
  BY DEF ChildStep, ChildRejects, ChildDenies, EnterBoundary, RemoteCall, RecordResult,
     ChildDies, memory, GateMeasure, Rank
<1>5. Spec => []Budgeted
  BY <1>1, StepBudgeted, TypeCorrect, PTL DEF Spec
<1>6. Spec => [](GateMeasure \in 0..(16 * MaxModelCalls + 15))
  BY <1>2, <1>5, TypeCorrect, PTL
<1>7. Spec => [][GateStep => GateMeasure' < GateMeasure]_vars
  BY <1>3, <1>5, TypeCorrect, PTL DEF Spec
<1>8. Spec => [][ChildStep => GateMeasure' = GateMeasure]_vars
  BY <1>4, PTL DEF Spec
<1> QED
  BY <1>6, <1>7, <1>8
=============================================================================
