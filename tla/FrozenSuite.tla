---------------------------- MODULE FrozenSuite ----------------------------
(***************************************************************************)
(* scripts/run_frozen_h1_suite.py: a warm-up, then one run_agentic_task    *)
(* per entry of the frozen schedule, one row appended for each.  The       *)
(* process may be killed anywhere and be started again on its two output   *)
(* files, with or without --overwrite.                                     *)
(***************************************************************************)
EXTENDS AgenticLoop

CONSTANTS
    Plan,       \* the variant schedule, flattened
    MaxRuns     \* bound: processes started

ASSUME SuiteAssumption == Plan \in Seq(Variants) /\ Plan # << >> /\ MaxRuns \in Nat

VARIABLES
    suite,      \* where the process is, "idle" when there is none
    runs,       \* processes started
    warmups,    \* the lines of warmup_output; the file is there iff not empty
    rows        \* the lines of output; the file is there iff not empty

suiteVars == <<suite, runs, warmups, rows>>
vars == <<loopVars, suiteVars>>

\* Mutant of Objective: the oracle trusts the status.
TrustsStatus(r, a) == r.ran /\ r.status = "success" /\ a.config # "other_config"

\* posthoc_h1_success: it looks at the Gemmini result alone, never at the
\* variant, the decision or the checkout the action named.
Objective(r, a) == r.ran /\ r.exit0 /\ r.verified /\ a.config # "other_config"

Row(v, verification, success) ==
    [run |-> runs, variant |-> v, whole |-> TRUE, verification |-> verification,
     success |-> success]

Torn == [run |-> runs, variant |-> "U0", whole |-> FALSE, verification |-> "NOT_RUN",
         success |-> FALSE]

SuiteInit ==
    /\ Init /\ ~seeded /\ executor = "mvin" /\ variant = Plan[1]
    /\ suite = "idle" /\ runs = 0 /\ warmups = << >> /\ rows = << >>

-----------------------------------------------------------------------------
\* Mutant of MayStart: existing outputs are not looked for.
AlwaysStarts(overwrite) == TRUE

MayStart(overwrite) == overwrite \/ (rows = << >> /\ warmups = << >>)

\* A process that is refused exits and leaves both files alone.
Start(overwrite) ==
    /\ suite = "idle" /\ runs < MaxRuns
    /\ runs' = runs + 1
    /\ suite' = IF ~MayStart(overwrite) THEN "idle" ELSE IF overwrite THEN "clear" ELSE "warmup"
    /\ UNCHANGED <<loopVars, warmups, rows>>

\* The two files are removed one after the other, the rows first.
ClearRows ==
    /\ suite = "clear" /\ suite' = "clear_warmup"
    /\ rows' = << >>
    /\ UNCHANGED <<loopVars, runs, warmups>>

ClearWarmup ==
    /\ suite = "clear_warmup" /\ suite' = "warmup"
    /\ warmups' = << >>
    /\ UNCHANGED <<loopVars, runs, rows>>

\* Mutant of Warmup: a failed warm-up does not stop the suite.
WarmupNeverStops ==
    /\ suite = "warmup" /\ suite' = "task"
    /\ \E r \in Returned("mvin") \cup Raised("mvin") :
          warmups' = Append(warmups, [run |-> runs, whole |-> TRUE,
                                      success |-> r.exit0 /\ r.verified])
    /\ UNCHANGED <<loopVars, runs, rows>>

\* The warm-up action is the approved one of the manifest.
Warmup ==
    /\ suite = "warmup"
    /\ \E r \in Returned("mvin") \cup Raised("mvin") :
          /\ warmups' = Append(warmups, [run |-> runs, whole |-> TRUE,
                                         success |-> r.exit0 /\ r.verified])
          /\ suite' = IF r.exit0 /\ r.verified THEN "task" ELSE "idle"
    /\ UNCHANGED <<loopVars, runs, rows>>

Rows(s) == Cardinality({i \in DOMAIN s : s[i].run = runs})

\* Mutant of NewHistory: the list of attempts outlives its task.
KeepsHistory == attempts' = attempts

NewHistory == attempts' = << >>

\* The process counts the tasks it ran, it does not read the file back.
StartTask ==
    /\ suite = "task" /\ suite' = "loop"
    /\ variant' = Plan[Rows(rows) + 1]
    /\ pc' = "propose" /\ action' = NoAction /\ source' = "gemini"
    /\ decision' = "NONE" /\ result' = NoResult
    /\ context' = << >> /\ NewHistory
    /\ apiRetries' = 0 /\ requests' = 0 /\ proposed' = 0 /\ dispatched' = 0
    /\ UNCHANGED <<seeded, executor, runs, warmups, rows>>

LoopStep == suite = "loop" /\ Next /\ UNCHANGED suiteVars

AppendRow ==
    /\ suite = "loop" /\ pc = "done"
    /\ rows' = Append(rows, Row(variant, Last.verification, Objective(Last.result, Last.action)))
    /\ suite' = IF Rows(rows') = Len(Plan) THEN "idle" ELSE "task"
    /\ UNCHANGED <<loopVars, runs, warmups>>

\* Mutant of TaskRaises: the task is tried again until it answers.
RetriesForever ==
    /\ suite = "loop" /\ pc = "raised" /\ suite' = "task"
    /\ UNCHANGED <<loopVars, runs, warmups, rows>>

\* An exception of the loop is not caught: the process ends.
TaskRaises ==
    /\ suite = "loop" /\ pc = "raised" /\ suite' = "idle"
    /\ UNCHANGED <<loopVars, runs, warmups, rows>>

\* The process is killed, possibly inside append_jsonl.
Kill ==
    /\ suite # "idle" /\ suite' = "idle"
    /\ UNCHANGED <<loopVars, runs>>
    /\ \/ UNCHANGED <<warmups, rows>>
       \/ /\ suite = "warmup" /\ UNCHANGED rows
          /\ warmups' = Append(warmups, [run |-> runs, whole |-> FALSE, success |-> FALSE])
       \/ /\ suite = "loop" /\ pc = "done" /\ UNCHANGED warmups
          /\ rows' = Append(rows, Torn)

SuiteStep == \/ ClearRows \/ ClearWarmup \/ Warmup
             \/ StartTask \/ LoopStep \/ AppendRow \/ TaskRaises

SuiteNext == (\E overwrite \in BOOLEAN : Start(overwrite)) \/ SuiteStep \/ Kill

SuiteSpec == SuiteInit /\ [][SuiteNext]_vars

\* A process that is not killed is scheduled.
FairSuiteSpec == SuiteSpec /\ WF_vars(SuiteStep)

-----------------------------------------------------------------------------
\* Type invariant of the module.
SuiteTypeOK ==
    /\ TypeOK
    /\ suite \in {"idle", "clear", "clear_warmup", "warmup", "task", "loop"}
    /\ runs \in 0..MaxRuns
    /\ \A i \in DOMAIN warmups : warmups[i].run \in 1..runs
    /\ Len(rows) <= Len(Plan)

\* However often the suite was killed and started again, the rows of the output
\* are a prefix of the frozen schedule, all of one process, whole except for the
\* last one (run_frozen_h1_suite.py:80-86, 112-150).
RowsFollowPlan ==
    \A i \in DOMAIN rows :
        /\ rows[i].run = rows[1].run
        /\ rows[i].whole => rows[i].variant = Plan[i]
        /\ ~rows[i].whole => i = Len(rows)

\* Rows stand in the output only beside a passing warm-up of the process that
\* wrote them (run_frozen_h1_suite.py:106-108), also when it was killed between
\* the two unlinks of --overwrite; and none is an objective success of what a
\* verifying variant called FAIL or did not run (run_frozen_h1_suite.py:49-61,
\* runner.py:79-86).
RowsSound ==
    /\ rows # << >> => \E i \in DOMAIN warmups :
                          warmups[i].run = rows[1].run /\ warmups[i].success
    /\ \A i \in DOMAIN rows : rows[i].success => rows[i].verification \in {"PASS", "DISABLED"}

\* A suite that is not killed comes to its end: the schedule is finished, the
\* warm-up failed or a task raised (run_frozen_h1_suite.py:112-163).
SuiteEnds == suite # "idle" ~> suite = "idle"
=============================================================================
