-------------------------- MODULE BootstrapHarness --------------------------
(***************************************************************************)
(* The bootstrap harness (src/chia_work/council/harness.py): the L0-L3     *)
(* hierarchy of one run directory written through the artifact store.  An  *)
(* operation of the harness is a list of writes: `todo` holds those still  *)
(* to make, and a caller holds the artifacts of an operation (`known`)     *)
(* only when all its writes succeeded.  A write may raise (the caller goes *)
(* on with what it holds) and the process may be killed and started again  *)
(* over the same directory (nothing is held, the counter starts at zero).  *)
(*                                                                         *)
(* An artifact is named <<kind, ancestors>>: the numbers of the cycle, the *)
(* role, the L2, the task and the L3 it belongs to, each drawn once        *)
(* (ident, uuid4).  The name stands for its path and for its id.           *)
(***************************************************************************)
EXTENDS ArtifactStore, FiniteSets

CONSTANTS
    MaxL2,            \* max_l2_per_cycle: roles of one make_roles call
    MaxL3,            \* max_l3_per_l2: tasks of one make_tasks call
    MaxInvocations,   \* max_total_agent_invocations
    MaxIdents,        \* bound: numbers drawn
    MaxFaults         \* bound: writes that raise and processes killed

ASSUME HarnessAssumption ==
    /\ MaxL2 \in Nat /\ MaxL3 \in Nat /\ MaxInvocations \in Nat
    /\ MaxIdents \in Nat /\ MaxFaults \in Nat

VARIABLES
    todo,          \* writes the running operation has still to make
    got,           \* artifacts it has written
    known,         \* artifacts of the operations that returned
    invocations,
    idents,        \* numbers drawn so far
    faults

harnessVars == <<todo, got, known, invocations, idents, faults>>
vars == <<storeVars, harnessVars>>

Artifact(name, lineage) == [path |-> name, digest |-> idents, lineage |-> lineage]

Init ==
    /\ StoreInit
    /\ todo = << >> /\ got = {} /\ known = {}
    /\ invocations = 0 /\ idents = 0 /\ faults = 0

\* An operation is called: it draws n numbers and makes these writes.
Writes(artifacts, n) ==
    /\ todo = << >> /\ step = "idle"
    /\ idents + n <= MaxIdents
    /\ idents' = idents + n
    /\ todo' = artifacts
    /\ UNCHANGED <<storeVars, got, known, faults>>

Drawn(i) == idents + i

\* A run directory has one mission, at a fixed path.
Mission == <<"mission", << >> >>

Start ==
    /\ Writes(<<Artifact(Mission, {}),
                Artifact(<<"cycle", <<Drawn(1)>> >>, {Mission})>>, 1)
    /\ UNCHANGED invocations

\* The caller names the direction's lineage: none, as the test does.
WriteL0Outputs(c) ==
    /\ Writes(<<Artifact(<<"direction", c>>, {}),
                Artifact(<<"decision", c>>, {<<"direction", c>>})>>, 1)
    /\ UNCHANGED invocations

\* A call with more names than max_l2_per_cycle raises before any write.
MakeRoles(c, n) ==
    /\ n <= MaxL2
    /\ Writes([i \in 1..n |-> Artifact(<<"role", Append(c, Drawn(i))>>, {})], n)
    /\ UNCHANGED invocations

\* Mutant of Admitted: the counter is compared before it is incremented.
AdmittedBeforeCount == invocations <= MaxInvocations

\* _count_invocation compares the counter it has incremented.
Admitted == invocations + 1 <= MaxInvocations

\* An agent is created: counted, then refused or written.
Invokes(artifacts) ==
    /\ invocations <= MaxInvocations
    /\ invocations' = invocations + 1
    /\ Admitted
    /\ Writes(artifacts, 1)

\* _count_invocation raises, the counter stays incremented.
InvocationRefused ==
    /\ todo = << >> /\ step = "idle"
    /\ \E k \in known : k[1] \in {"role", "task"}
    /\ invocations <= MaxInvocations
    /\ ~Admitted
    /\ invocations' = invocations + 1
    /\ UNCHANGED <<storeVars, todo, got, known, idents, faults>>

CreateL2(r) ==
    Invokes(<<Artifact(<<"agent", Append(r, Drawn(1))>>, {<<"role", r>>})>>)

\* A call with more tasks than the role's max_l3 raises before any write.
MakeTasks(a, n) ==
    LET role == <<"role", SubSeq(a, 1, 2)>> IN
    /\ n <= MaxL3
    /\ Writes([i \in 1..n |-> Artifact(<<"task", Append(a, Drawn(i))>>, {role})], n)
    /\ UNCHANGED invocations

LeafKinds == {"result", "analysis", "evidence", "l3_manifest"}

\* Mutant of Bundle: the manifest is written before the evidence it lists.
ManifestEarly(base, t) ==
    <<Artifact(<<"result", base>>, {<<"task", t>>}),
      Artifact(<<"analysis", base>>, {<<"result", base>>}),
      Artifact(<<"l3_manifest", base>>, {<<k, base>> : k \in {"result", "analysis", "evidence"}}),
      Artifact(<<"evidence", base>>, {<<"task", t>>})>>

\* The artifacts of a leaf executor.
Bundle(base, t) ==
    <<Artifact(<<"result", base>>, {<<"task", t>>}),
      Artifact(<<"analysis", base>>, {<<"result", base>>}),
      Artifact(<<"evidence", base>>, {<<"task", t>>}),
      Artifact(<<"l3_manifest", base>>, {<<k, base>> : k \in {"result", "analysis", "evidence"}})>>

RunL3(t) == Invokes(Bundle(Append(t, Drawn(1)), t))

Under(a, kinds) == {k \in known : k[1] \in kinds /\ SubSeq(k[2], 1, Len(a)) = a}

\* The report of an L2, on the leaf artifacts its tasks returned.
Report(a, leaves) ==
    LET report == <<"report", a>> IN
    <<Artifact(report, leaves),
      Artifact(<<"summary", a>>, {report}),
      Artifact(<<"evidence_refs", a>>, leaves),
      Artifact(<<"l2_manifest", a>>, {report})>>

WriteL2Report(a) == Writes(Report(a, Under(a, LeafKinds)), 1) /\ UNCHANGED invocations

ReportKinds == {"report", "summary", "evidence_refs", "l2_manifest"}

SynthesisKinds == {"state", "task_graph", "open_questions", "active_vetoes", "cycle_summary"}

\* The synthesis of a cycle, on the artifacts the L2 reports returned.
Synthesis(c, reports) ==
    LET state == <<"state", c>> IN
    <<Artifact(state, reports),
      Artifact(<<"task_graph", c>>, reports),
      Artifact(<<"open_questions", c>>, {state}),
      Artifact(<<"active_vetoes", c>>, {state}),
      Artifact(<<"cycle_summary", c>>, {state}),
      Artifact(<<"l1_manifest", c>>, {<<k, c>> : k \in SynthesisKinds})>>

WriteL1Outputs(c) == Writes(Synthesis(c, Under(c, ReportKinds)), 1) /\ UNCHANGED invocations

Operation ==
    \/ Start
    \/ \E k \in known :
          \/ k[1] = "cycle" /\ (WriteL0Outputs(k[2]) \/ WriteL1Outputs(k[2]))
          \/ k[1] = "cycle" /\ \E n \in 1..MaxL2 : MakeRoles(k[2], n)
          \/ k[1] = "role" /\ CreateL2(k[2])
          \/ k[1] = "agent" /\ (WriteL2Report(k[2]) \/ \E n \in 1..MaxL3 : MakeTasks(k[2], n))
          \/ k[1] = "task" /\ RunL3(k[2])

NextWrite ==
    /\ todo # << >>
    /\ Begin(Head(todo))
    /\ UNCHANGED harnessVars

Writing == (Open \/ Fill) /\ UNCHANGED harnessVars

\* A write is complete; the last one of an operation returns its artifacts.
Written ==
    LET last == Tail(todo) = << >>
        all  == got \cup {job.path} IN
    /\ Index
    /\ todo' = Tail(todo)
    /\ got' = IF last THEN {} ELSE all
    /\ known' = IF last THEN known \cup all ELSE known
    /\ UNCHANGED <<invocations, idents, faults>>

GivesUp == todo' = << >> /\ got' = {}

\* locked artifact already exists
Locked ==
    /\ todo # << >> /\ step = "idle" /\ ~Free(Head(todo).path)
    /\ GivesUp
    /\ UNCHANGED <<storeVars, known, invocations, idents, faults>>

\* A write raises: the operation returns nothing.
Raises ==
    /\ faults < MaxFaults
    /\ Interrupted \/ IndexTorn
    /\ GivesUp
    /\ faults' = faults + 1
    /\ UNCHANGED <<known, invocations, idents>>

\* The process dies; another harness is made over the directory.
Killed ==
    /\ faults < MaxFaults
    /\ \/ Interrupted \/ IndexTorn
       \/ step = "idle" /\ UNCHANGED storeVars
    /\ GivesUp
    /\ known' = {} /\ invocations' = 0
    /\ faults' = faults + 1
    /\ UNCHANGED idents

Next == \/ Operation \/ InvocationRefused
        \/ NextWrite \/ Writing \/ Written \/ Locked
        \/ Raises \/ Killed

Spec == Init /\ [][Next]_vars
-----------------------------------------------------------------------------
\* Type invariant of the module; the write in progress is the next one to do.
TypeOK ==
    /\ DOMAIN file \subseteq Names /\ \A p \in DOMAIN file : file[p] \in Nat \cup {Partial}
    /\ index \in Seq(References \cup {Torn})
    /\ unended \in BOOLEAN /\ (unended => index # << >>)
    /\ step \in {"idle", "free", "open", "filled"}
    /\ todo \in Seq(References)
    /\ step # "idle" => todo # << >> /\ job = Head(todo)
    /\ got \subseteq Names /\ known \subseteq Names
    /\ invocations \in Nat /\ idents \in 0..MaxIdents /\ faults \in 0..MaxFaults

\* Whatever write is interrupted, torn or repeated, and whoever reads the index
\* meanwhile: a path that is indexed at all is indexed once and verifies, so
\* grounding never reports AMBIGUOUS_INDEX or UNVERIFIED (runtime_grounding.py:43-53).
IndexSound == \A p \in DOMAIN file : ArtifactState(p) \in {"UNINDEXED", "PRESENT"}

\* A complete artifact never changes: "Immutable file-backed memory"
\* (artifacts.py:1).
Immutable ==
    [][\A p \in DOMAIN file :
         file[p] # Partial => p \in DOMAIN file' /\ file'[p] = file[p]]_vars

\* While the index can be read, everything an artifact cites (the files a
\* manifest lists, the leaves a report rests on) was indexed before it and
\* verifies: an operation that failed half-way is never built upon, and a
\* torn line is never passed over (artifacts.py:107-110).
LineageVerified ==
    AllRefsReads =>
      \A i \in DOMAIN index : index[i] # Torn =>
        \A p \in index[i].lineage :
          \E j \in Matching(p) : j < i /\ file[p] = index[j].digest

\* The agents of a run directory never exceed max_total_agent_invocations,
\* however often a harness is started over it with its counter at zero: the
\* mission file admits one cycle (harness.py:39, :106-109).
AgentsBounded ==
    Cardinality({p \in DOMAIN file : p[1] \in {"agent", "result"}}) <= MaxInvocations
=============================================================================
