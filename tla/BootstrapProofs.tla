-------------------------- MODULE BootstrapProofs --------------------------
(***************************************************************************)
(* Theorems about BootstrapHarness and the ArtifactStore under it, for all *)
(* limits and any number of artifacts, failed writes and restarts.         *)
(***************************************************************************)
EXTENDS BootstrapHarness, FiniteSetTheorems, SequenceTheorems, TLAPS

\* What an artifact's name says of its ancestors: a cycle has one number, a role
\* two, and an L2 agent is made for a role its caller held.
Named(p) ==
    /\ p[1] = "cycle" => Len(p[2]) = 1
    /\ p[1] = "role" => Len(p[2]) = 2
    /\ p[1] = "agent" => <<"role", SubSeq(p[2], 1, 2)>> \in known

\* The writes of an operation: each cites what its caller held or what is
\* written before it.
Planned(s) ==
    \A i \in DOMAIN s :
       /\ Named(s[i].path)
       /\ \A p \in s[i].lineage : p \in known \/ \E j \in 1..(i - 1) : s[j].path = p

IsAgent(p) == p[1] \in {"agent", "result"}

\* One agent at most is made by an operation, which has then counted it.
NoAgent(s) == \A i \in DOMAIN s : ~IsAgent(s[i].path)

OneAgent(s) ==
    \E a : \A i \in DOMAIN s : IsAgent(s[i].path) => s[i].path = a

KnownNamed == \A k \in known : Named(k)

USE DEF Kinds

LEMMA NameType ==
  ASSUME NEW k \in Kinds, NEW s \in Seq(Nat)
  PROVE  <<k, s>> \in Names
BY DEF Names

LEMMA NameParts ==
  ASSUME NEW k \in Names
  PROVE  k[1] \in Kinds /\ k[2] \in Seq(Nat) /\ k = <<k[1], k[2]>>
BY DEF Names

LEMMA ArtifactType ==
  ASSUME TypeOK, NEW p \in Names, NEW l \in SUBSET Names
  PROVE  Artifact(p, l) \in References
BY HarnessAssumption DEF TypeOK, Artifact, References

LEMMA Longer ==
  ASSUME NEW c \in Seq(Nat), NEW d \in Nat
  PROVE  /\ Append(c, d) \in Seq(Nat) /\ Len(Append(c, d)) = Len(c) + 1
         /\ \A i \in 1..Len(c) : Append(c, d)[i] = c[i]
OBVIOUS

LEMMA RolePrefix ==
  ASSUME NEW r \in Seq(Nat), Len(r) = 2, NEW d \in Nat
  PROVE  SubSeq(Append(r, d), 1, 2) = r
<1> DEFINE t == Append(r, d)
           u == SubSeq(t, 1, 2)
<1>1. \A i \in 1..2 : t[i] = r[i] /\ t[i] \in Nat
  <2>1. \A i \in 1..2 : i \in 1..Len(r)
    OBVIOUS
  <2>2. \A i \in 1..Len(r) : t[i] = r[i]
    BY Longer
  <2>3. \A i \in 1..Len(r) : r[i] \in Nat
    OBVIOUS
  <2> HIDE DEF t
  <2> QED BY <2>1, <2>2, <2>3
<1>2. u \in Seq(Nat) /\ Len(u) = 2 /\ \A i \in 1..2 : u[i] = t[i]
  <2> HIDE DEF t
  <2>1. /\ u \in Seq(Nat)
        /\ Len(u) = IF 1 <= 2 THEN 2 - 1 + 1 ELSE 0
        /\ \A i \in 1..(2 - 1 + 1) : u[i] = t[1 + i - 1]
    BY <1>1, SubSeqProperties
  <2> HIDE DEF u
  <2> QED BY <2>1
<1> HIDE DEF t, u
<1>3. \A i \in 1..2 : u[i] = r[i]
  BY <1>1, <1>2
<1>4. u \in [1..2 -> Nat] /\ r \in [1..2 -> Nat]
  <2>1. \A q \in Seq(Nat) : q \in [1..Len(q) -> Nat]
    OBVIOUS
  <2> QED BY <1>2, <2>1
<1>5. u = r
  BY <1>3, <1>4
<1> QED BY <1>5 DEF t, u

-----------------------------------------------------------------------------

\* The writes of each operation are well typed, well planned, and make one agent
\* at most.
LEMMA StartPlan ==
  ASSUME TypeOK
  PROVE  LET s == <<Artifact(Mission, {}), Artifact(<<"cycle", <<Drawn(1)>> >>, {Mission})>>
         IN  s \in Seq(References) /\ Planned(s) /\ NoAgent(s)
<1> DEFINE s == <<Artifact(Mission, {}), Artifact(<<"cycle", <<Drawn(1)>> >>, {Mission})>>
<1>1. Drawn(1) \in Nat
  BY HarnessAssumption DEF TypeOK, Drawn
<1>2. Mission \in Names /\ <<"cycle", <<Drawn(1)>> >> \in Names
  <2>1. << >> \in Seq(Nat) /\ <<Drawn(1)>> \in Seq(Nat)
    BY <1>1
  <2> QED BY <2>1, NameType DEF Mission
<1>3. s \in Seq(References)
  <2>1. Artifact(Mission, {}) \in References
    BY <1>2, ArtifactType
  <2>2. Artifact(<<"cycle", <<Drawn(1)>> >>, {Mission}) \in References
    BY <1>2, ArtifactType
  <2> QED BY <2>1, <2>2
<1>4. Planned(s) /\ NoAgent(s)
  BY DEF Planned, NoAgent, Named, IsAgent, Artifact, Mission
<1> QED BY <1>3, <1>4

LEMMA L0Plan ==
  ASSUME TypeOK, NEW c \in Seq(Nat)
  PROVE  LET s == <<Artifact(<<"direction", c>>, {}),
                    Artifact(<<"decision", c>>, {<<"direction", c>>})>>
         IN  s \in Seq(References) /\ Planned(s) /\ NoAgent(s)
<1> DEFINE s == <<Artifact(<<"direction", c>>, {}),
                  Artifact(<<"decision", c>>, {<<"direction", c>>})>>
<1>1. s \in Seq(References)
  <2>1. <<"direction", c>> \in Names /\ <<"decision", c>> \in Names
    BY NameType
  <2>2. Artifact(<<"direction", c>>, {}) \in References
    BY <2>1, ArtifactType
  <2>3. Artifact(<<"decision", c>>, {<<"direction", c>>}) \in References
    BY <2>1, ArtifactType
  <2> QED BY <2>2, <2>3
<1>2. /\ DOMAIN s = 1..2
      /\ s[1].path = <<"direction", c>> /\ s[1].lineage = {}
      /\ s[2].path = <<"decision", c>> /\ s[2].lineage = {<<"direction", c>>}
  BY DEF Artifact
<1> HIDE DEF s
<1>3. Planned(s) /\ NoAgent(s)
  BY <1>2 DEF Planned, NoAgent, Named, IsAgent
<1> QED BY <1>1, <1>3 DEF s

LEMMA RolesPlan ==
  ASSUME TypeOK, NEW c \in Seq(Nat), Len(c) = 1, NEW n \in Nat
  PROVE  LET s == [i \in 1..n |-> Artifact(<<"role", Append(c, Drawn(i))>>, {})]
         IN  s \in Seq(References) /\ Planned(s) /\ NoAgent(s)
<1> DEFINE s == [i \in 1..n |-> Artifact(<<"role", Append(c, Drawn(i))>>, {})]
<1>1. \A i \in 1..n : s[i] \in References
  <2> TAKE i \in 1..n
  <2>0. Drawn(i) \in Nat
    BY HarnessAssumption DEF TypeOK, Drawn
  <2>1. <<"role", Append(c, Drawn(i))>> \in Names
    BY <2>0, Longer, NameType
  <2> QED BY <2>1, ArtifactType
<1>2. s \in Seq(References)
  BY <1>1
<1>3. Planned(s) /\ NoAgent(s)
  <2> SUFFICES ASSUME NEW i \in 1..n
               PROVE  /\ Named(s[i].path) /\ s[i].lineage = {} /\ ~IsAgent(s[i].path)
    BY DEF Planned, NoAgent
  <2>1. s[i].path = <<"role", Append(c, Drawn(i))>> /\ s[i].lineage = {}
    BY DEF Artifact
  <2>2. Len(Append(c, Drawn(i))) = 2
    <3>1. Drawn(i) \in Nat
      BY HarnessAssumption DEF TypeOK, Drawn
    <3>2. Len(Append(c, Drawn(i))) = Len(c) + 1
      BY <3>1, Longer
    <3> QED BY <3>2
  <2> HIDE DEF s
  <2> QED BY <2>1, <2>2 DEF Named, IsAgent
<1> QED BY <1>2, <1>3

LEMMA AgentPlan ==
  ASSUME TypeOK, NEW r \in Seq(Nat), <<"role", r>> \in known, Len(r) = 2
  PROVE  LET s == <<Artifact(<<"agent", Append(r, Drawn(1))>>, {<<"role", r>>})>>
         IN  s \in Seq(References) /\ Planned(s) /\ OneAgent(s)
<1> DEFINE p == <<"agent", Append(r, Drawn(1))>>
           s == <<Artifact(p, {<<"role", r>>})>>
<1>0. Drawn(1) \in Nat
  BY HarnessAssumption DEF TypeOK, Drawn
<1>1. p \in Names /\ <<"role", r>> \in Names
  BY <1>0, Longer, NameType
<1>2. s \in Seq(References)
  <2>1. Artifact(p, {<<"role", r>>}) \in References
    BY <1>1, ArtifactType
  <2> QED BY <2>1
<1>3. s[1].path = p /\ s[1].lineage = {<<"role", r>>} /\ DOMAIN s = {1}
  BY DEF Artifact
<1>4. Named(p)
  <2>1. SubSeq(Append(r, Drawn(1)), 1, 2) = r
    BY <1>0, RolePrefix
  <2> QED BY <2>1 DEF Named
<1>5. Planned(s)
  BY <1>3, <1>4 DEF Planned
<1>6. OneAgent(s)
  BY <1>3 DEF OneAgent
<1> QED BY <1>2, <1>5, <1>6

LEMMA TasksPlan ==
  ASSUME TypeOK, KnownNamed, NEW a \in Seq(Nat), <<"agent", a>> \in known, NEW n \in Nat
  PROVE  LET s == [i \in 1..n |-> Artifact(<<"task", Append(a, Drawn(i))>>,
                                           {<<"role", SubSeq(a, 1, 2)>>})]
         IN  s \in Seq(References) /\ Planned(s) /\ NoAgent(s)
<1> DEFINE role == <<"role", SubSeq(a, 1, 2)>>
           s == [i \in 1..n |-> Artifact(<<"task", Append(a, Drawn(i))>>, {role})]
<1>1. role \in known
  BY DEF KnownNamed, Named
<1>2. \A i \in 1..n : s[i] \in References
  <2> TAKE i \in 1..n
  <2>0. Drawn(i) \in Nat
    BY HarnessAssumption DEF TypeOK, Drawn
  <2>1. <<"task", Append(a, Drawn(i))>> \in Names
    BY <2>0, Longer, NameType
  <2>2. role \in Names
    BY <1>1 DEF TypeOK
  <2> QED BY <2>1, <2>2, ArtifactType
<1>3. s \in Seq(References)
  <2>1. s \in [1..n -> References]
    <3> HIDE DEF role
    <3> QED BY <1>2
  <2> HIDE DEF s
  <2> QED BY <2>1
<1>4. Planned(s) /\ NoAgent(s)
  <2> SUFFICES ASSUME NEW i \in 1..n
               PROVE  Named(s[i].path) /\ s[i].lineage = {role} /\ ~IsAgent(s[i].path)
    BY <1>1 DEF Planned, NoAgent
  <2>1. s[i].path = <<"task", Append(a, Drawn(i))>> /\ s[i].lineage = {role}
    BY DEF Artifact
  <2> HIDE DEF s, role
  <2> QED BY <2>1 DEF Named, IsAgent
<1> QED BY <1>3, <1>4

LEMMA BundlePlan ==
  ASSUME TypeOK, NEW t \in Seq(Nat), <<"task", t>> \in known
  PROVE  LET s == Bundle(Append(t, Drawn(1)), t)
         IN  s \in Seq(References) /\ Planned(s) /\ OneAgent(s)
<1> DEFINE base == Append(t, Drawn(1))
           s == Bundle(base, t)
           files == {<<k, base>> : k \in {"result", "analysis", "evidence"}}
<1>0. base \in Seq(Nat)
  <2>1. Drawn(1) \in Nat
    BY HarnessAssumption DEF TypeOK, Drawn
  <2> QED BY <2>1, Longer
<1>1. /\ <<"task", t>> \in Names /\ <<"result", base>> \in Names /\ <<"analysis", base>> \in Names
      /\ <<"evidence", base>> \in Names /\ <<"l3_manifest", base>> \in Names
  BY <1>0, NameType
<1>2. files = {<<"result", base>>, <<"analysis", base>>, <<"evidence", base>>}
  OBVIOUS
<1> HIDE DEF base, files
<1>3. s = <<Artifact(<<"result", base>>, {<<"task", t>>}),
            Artifact(<<"analysis", base>>, {<<"result", base>>}),
            Artifact(<<"evidence", base>>, {<<"task", t>>}),
            Artifact(<<"l3_manifest", base>>, files)>>
  BY DEF Bundle, files
<1>4. s \in Seq(References)
  <2>1. Artifact(<<"result", base>>, {<<"task", t>>}) \in References
    BY <1>1, ArtifactType
  <2>2. Artifact(<<"analysis", base>>, {<<"result", base>>}) \in References
    BY <1>1, ArtifactType
  <2>3. Artifact(<<"evidence", base>>, {<<"task", t>>}) \in References
    BY <1>1, ArtifactType
  <2>4. files \in SUBSET Names
    BY <1>1, <1>2
  <2>5. Artifact(<<"l3_manifest", base>>, files) \in References
    BY <1>1, <2>4, ArtifactType
  <2> HIDE DEF s
  <2> QED BY <1>3, <2>1, <2>2, <2>3, <2>5
<1>5. /\ DOMAIN s = 1..4
      /\ s[1].path = <<"result", base>> /\ s[1].lineage = {<<"task", t>>}
      /\ s[2].path = <<"analysis", base>> /\ s[2].lineage = {<<"result", base>>}
      /\ s[3].path = <<"evidence", base>> /\ s[3].lineage = {<<"task", t>>}
      /\ s[4].path = <<"l3_manifest", base>> /\ s[4].lineage = files
  BY <1>3 DEF Artifact
<1> HIDE DEF s
<1>6. Planned(s)
  <2> SUFFICES ASSUME NEW i \in 1..4
               PROVE  /\ Named(s[i].path)
                      /\ \A p \in s[i].lineage : p \in known \/ \E j \in 1..(i - 1) : s[j].path = p
    BY <1>5 DEF Planned
  <2>1. Named(s[i].path)
    BY <1>5 DEF Named
  <2>2. CASE i = 4
    <3>1. 1 \in 1..3 /\ 2 \in 1..3 /\ 3 \in 1..3
      OBVIOUS
    <3>2. \A p \in files : s[1].path = p \/ s[2].path = p \/ s[3].path = p
      BY <1>2, <1>5
    <3>3. \A p \in files : \E j \in 1..3 : s[j].path = p
      BY <3>1, <3>2
    <3> QED BY <1>5, <2>1, <2>2, <3>3
  <2>3. CASE i = 1 \/ i = 3
    BY <1>5, <2>1, <2>3
  <2>4. CASE i = 2
    <3>1. 1 \in 1..(i - 1) /\ s[1].path = <<"result", base>>
      BY <1>5, <2>4
    <3> QED BY <1>5, <2>1, <2>4, <3>1
  <2> QED BY <2>2, <2>3, <2>4
<1>7. OneAgent(s)
  <2>1. \A i \in DOMAIN s : IsAgent(s[i].path) => s[i].path = <<"result", base>>
    BY <1>5 DEF IsAgent
  <2> QED BY <2>1 DEF OneAgent
<1> QED BY <1>4, <1>6, <1>7 DEF s, base

LEMMA ReportPlan ==
  ASSUME TypeOK, NEW a \in Seq(Nat), NEW leaves \in SUBSET known
  PROVE  LET s == Report(a, leaves) IN s \in Seq(References) /\ Planned(s) /\ NoAgent(s)
<1> DEFINE report == <<"report", a>>
           s == Report(a, leaves)
<1>1. /\ report \in Names /\ <<"summary", a>> \in Names
      /\ <<"evidence_refs", a>> \in Names /\ <<"l2_manifest", a>> \in Names
  BY NameType
<1>2. leaves \in SUBSET Names
  BY DEF TypeOK
<1>3. s = <<Artifact(report, leaves), Artifact(<<"summary", a>>, {report}),
            Artifact(<<"evidence_refs", a>>, leaves), Artifact(<<"l2_manifest", a>>, {report})>>
  BY DEF Report
<1>4. s \in Seq(References)
  <2>1. Artifact(report, leaves) \in References
    BY <1>1, <1>2, ArtifactType
  <2>2. Artifact(<<"summary", a>>, {report}) \in References
    BY <1>1, ArtifactType
  <2>3. Artifact(<<"evidence_refs", a>>, leaves) \in References
    BY <1>1, <1>2, ArtifactType
  <2>4. Artifact(<<"l2_manifest", a>>, {report}) \in References
    BY <1>1, ArtifactType
  <2> HIDE DEF s
  <2> QED BY <1>3, <2>1, <2>2, <2>3, <2>4
<1>5. /\ DOMAIN s = 1..4
      /\ s[1].path = report /\ s[1].lineage = leaves
      /\ s[2].path = <<"summary", a>> /\ s[2].lineage = {report}
      /\ s[3].path = <<"evidence_refs", a>> /\ s[3].lineage = leaves
      /\ s[4].path = <<"l2_manifest", a>> /\ s[4].lineage = {report}
  BY <1>3 DEF Artifact
<1> HIDE DEF s
<1>6. Planned(s)
  <2> SUFFICES ASSUME NEW i \in 1..4
               PROVE  /\ Named(s[i].path)
                      /\ \A p \in s[i].lineage : p \in known \/ \E j \in 1..(i - 1) : s[j].path = p
    BY <1>5 DEF Planned
  <2>1. Named(s[i].path)
    BY <1>5 DEF Named
  <2>2. i = 2 \/ i = 4 => 1 \in 1..(i - 1)
    OBVIOUS
  <2> HIDE DEF report
  <2> QED BY <1>5, <2>1, <2>2
<1>7. NoAgent(s)
  BY <1>5 DEF NoAgent, IsAgent
<1> QED BY <1>4, <1>6, <1>7 DEF s

LEMMA SynthesisPlan ==
  ASSUME TypeOK, NEW c \in Seq(Nat), NEW reports \in SUBSET known
  PROVE  LET s == Synthesis(c, reports) IN s \in Seq(References) /\ Planned(s) /\ NoAgent(s)
<1> DEFINE state == <<"state", c>>
           files == {<<k, c>> : k \in SynthesisKinds}
           s == Synthesis(c, reports)
<1>1. /\ state \in Names /\ <<"task_graph", c>> \in Names
      /\ <<"open_questions", c>> \in Names /\ <<"active_vetoes", c>> \in Names
      /\ <<"cycle_summary", c>> \in Names /\ <<"l1_manifest", c>> \in Names
  BY NameType
<1>2. reports \in SUBSET Names
  BY DEF TypeOK
<1>3. files = {state, <<"task_graph", c>>, <<"open_questions", c>>, <<"active_vetoes", c>>,
               <<"cycle_summary", c>>}
  BY DEF SynthesisKinds
<1> HIDE DEF files
<1>4. s = <<Artifact(state, reports), Artifact(<<"task_graph", c>>, reports),
            Artifact(<<"open_questions", c>>, {state}), Artifact(<<"active_vetoes", c>>, {state}),
            Artifact(<<"cycle_summary", c>>, {state}), Artifact(<<"l1_manifest", c>>, files)>>
  BY DEF Synthesis, files
<1>5. s \in Seq(References)
  <2>1. /\ Artifact(state, reports) \in References
        /\ Artifact(<<"task_graph", c>>, reports) \in References
    BY <1>1, <1>2, ArtifactType
  <2>2. /\ Artifact(<<"open_questions", c>>, {state}) \in References
        /\ Artifact(<<"active_vetoes", c>>, {state}) \in References
        /\ Artifact(<<"cycle_summary", c>>, {state}) \in References
    BY <1>1, ArtifactType
  <2>3. files \in SUBSET Names
    BY <1>1, <1>3
  <2>4. Artifact(<<"l1_manifest", c>>, files) \in References
    BY <1>1, <2>3, ArtifactType
  <2> HIDE DEF s
  <2> QED BY <1>4, <2>1, <2>2, <2>4
<1>6. /\ DOMAIN s = 1..6
      /\ s[1].path = state /\ s[1].lineage = reports
      /\ s[2].path = <<"task_graph", c>> /\ s[2].lineage = reports
      /\ s[3].path = <<"open_questions", c>> /\ s[3].lineage = {state}
      /\ s[4].path = <<"active_vetoes", c>> /\ s[4].lineage = {state}
      /\ s[5].path = <<"cycle_summary", c>> /\ s[5].lineage = {state}
      /\ s[6].path = <<"l1_manifest", c>> /\ s[6].lineage = files
  BY <1>4 DEF Artifact
<1> HIDE DEF s
<1>7. \A i \in 1..6 : Named(s[i].path) /\ ~IsAgent(s[i].path)
  BY <1>6 DEF Named, IsAgent
<1>8. \A p \in files : \E j \in 1..5 : s[j].path = p
  <2>1. 1 \in 1..5 /\ 2 \in 1..5 /\ 3 \in 1..5 /\ 4 \in 1..5 /\ 5 \in 1..5
    OBVIOUS
  <2> HIDE DEF state
  <2> QED BY <1>3, <1>6, <2>1
<1>9. Planned(s)
  <2> SUFFICES ASSUME NEW i \in 1..6
               PROVE  \A p \in s[i].lineage : p \in known \/ \E j \in 1..(i - 1) : s[j].path = p
    BY <1>6, <1>7 DEF Planned
  <2>1. i \in {3, 4, 5} => 1 \in 1..(i - 1)
    OBVIOUS
  <2> HIDE DEF state
  <2>2. CASE i = 6
    BY <1>6, <1>8, <2>2
  <2>3. CASE i # 6
    BY <1>6, <2>1, <2>3
  <2> QED BY <2>2, <2>3
<1> QED BY <1>5, <1>6, <1>7, <1>9 DEF s, NoAgent

-----------------------------------------------------------------------------
\* What every operation begins with: an idle store and a list of writes.
Begun ==
    /\ todo = << >> /\ step = "idle"
    /\ UNCHANGED <<storeVars, got, known, faults>>
    /\ idents' \in 0..MaxIdents
    /\ todo' \in Seq(References) /\ Planned(todo')

\* It makes no agent, or one, which it has counted.
Counted ==
    \/ NoAgent(todo') /\ UNCHANGED invocations
    \/ /\ OneAgent(todo')
       /\ invocations' = invocations + 1 /\ invocations' <= MaxInvocations

LEMMA WritesBegin ==
  ASSUME TypeOK, NEW s, s \in Seq(References), Planned(s), NEW n \in Nat, Writes(s, n)
  PROVE  Begun /\ todo' = s
<1>1. idents' \in 0..MaxIdents
  BY HarnessAssumption DEF TypeOK, Writes
<1>2. todo' = s
  BY DEF Writes
<1> QED BY <1>1, <1>2 DEF Writes, Begun

LEMMA OperationBegins ==
  ASSUME TypeOK, KnownNamed, Operation
  PROVE  /\ Begun /\ Counted /\ invocations' \in Nat
         /\ known = {} => todo' = <<Artifact(Mission, {}),
                                   Artifact(<<"cycle", <<Drawn(1)>> >>, {Mission})>>
<1> USE DEF Counted
<1>0. invocations \in Nat
  BY DEF TypeOK
<1>1. CASE Start
  BY <1>0, <1>1, StartPlan, WritesBegin DEF Start
<1>2. ASSUME NEW k \in known,
             \/ k[1] = "cycle" /\ (WriteL0Outputs(k[2]) \/ WriteL1Outputs(k[2]))
             \/ k[1] = "cycle" /\ \E n \in 1..MaxL2 : MakeRoles(k[2], n)
             \/ k[1] = "role" /\ CreateL2(k[2])
             \/ k[1] = "agent" /\ (WriteL2Report(k[2]) \/ \E n \in 1..MaxL3 : MakeTasks(k[2], n))
             \/ k[1] = "task" /\ RunL3(k[2])
      PROVE  Begun /\ Counted /\ invocations' \in Nat
  <2>1. k[2] \in Seq(Nat) /\ k = <<k[1], k[2]>>
    BY NameParts DEF TypeOK
  <2>2. /\ k[1] = "cycle" => Len(k[2]) = 1
        /\ k[1] = "role" => Len(k[2]) = 2
    BY DEF KnownNamed, Named
  <2>3. CASE WriteL0Outputs(k[2])
    BY <1>0, <2>1, <2>3, L0Plan, WritesBegin DEF WriteL0Outputs
  <2>4. CASE WriteL1Outputs(k[2])
    <3>1. Under(k[2], ReportKinds) \in SUBSET known
      BY DEF Under
    <3> QED BY <1>0, <2>1, <2>4, <3>1, SynthesisPlan, WritesBegin DEF WriteL1Outputs
  <2>5. ASSUME k[1] = "cycle", NEW n \in 1..MaxL2, MakeRoles(k[2], n)
        PROVE  Begun /\ Counted /\ invocations' \in Nat
    <3>1. n \in Nat
      BY HarnessAssumption
    <3> QED BY <1>0, <2>1, <2>2, <2>5, <3>1, RolesPlan, WritesBegin DEF MakeRoles
  <2>6. CASE k[1] = "role" /\ CreateL2(k[2])
    <3>1. <<"role", k[2]>> \in known /\ Len(k[2]) = 2
      BY <2>1, <2>2, <2>6
    <3> DEFINE s == <<Artifact(<<"agent", Append(k[2], Drawn(1))>>, {<<"role", k[2]>>})>>
    <3>2. s \in Seq(References) /\ Planned(s) /\ OneAgent(s)
      BY <2>1, <3>1, AgentPlan
    <3>3. Writes(s, 1) /\ invocations' = invocations + 1 /\ invocations + 1 <= MaxInvocations
      BY <2>6 DEF CreateL2, Invokes, Admitted
    <3> HIDE DEF s
    <3>4. Begun /\ todo' = s
      BY <3>2, <3>3, WritesBegin
    <3> QED BY <1>0, <3>2, <3>3, <3>4
  <2>7. CASE WriteL2Report(k[2])
    <3>1. Under(k[2], LeafKinds) \in SUBSET known
      BY DEF Under
    <3> QED BY <1>0, <2>1, <2>7, <3>1, ReportPlan, WritesBegin DEF WriteL2Report
  <2>8. ASSUME k[1] = "agent", NEW n \in 1..MaxL3, MakeTasks(k[2], n)
        PROVE  Begun /\ Counted /\ invocations' \in Nat
    <3>1. n \in Nat
      BY HarnessAssumption
    <3> DEFINE s == [i \in 1..n |-> Artifact(<<"task", Append(k[2], Drawn(i))>>,
                                              {<<"role", SubSeq(k[2], 1, 2)>>})]
    <3>2. <<"agent", k[2]>> \in known
      BY <2>1, <2>8
    <3>3. s \in Seq(References) /\ Planned(s) /\ NoAgent(s)
      BY <2>1, <3>1, <3>2, TasksPlan
    <3>4. Writes(s, n) /\ UNCHANGED invocations
      BY <2>8 DEF MakeTasks
    <3> HIDE DEF s
    <3>5. Begun /\ todo' = s
      BY <3>1, <3>3, <3>4, WritesBegin
    <3> QED BY <1>0, <3>3, <3>4, <3>5
  <2>9. CASE k[1] = "task" /\ RunL3(k[2])
    BY <1>0, <2>1, <2>9, BundlePlan, WritesBegin DEF RunL3, Invokes, Admitted
  <2> QED BY <1>2, <2>3, <2>4, <2>5, <2>6, <2>7, <2>8, <2>9
<1> QED BY <1>1, <1>2 DEF Operation

-----------------------------------------------------------------------------

LEMMA AppendedLine ==
  ASSUME TypeOK, NEW line \in References \cup {Torn}
  PROVE  /\ Appended(line) \in Seq(References \cup {Torn}) /\ Appended(line) # << >>
         /\ \A i \in DOMAIN Appended(line) :
               \/ Appended(line)[i] = Torn
               \/ i \in DOMAIN index /\ Appended(line)[i] = index[i]
               \/ ~unended /\ i = Len(index) + 1 /\ Appended(line)[i] = line
         /\ DOMAIN index \subseteq DOMAIN Appended(line)
<1>1. CASE unended
  <2>1. index # << >> /\ index \in Seq(References \cup {Torn})
    BY <1>1 DEF TypeOK
  <2>2. Len(index) \in DOMAIN index
    BY <2>1
  <2>3. Appended(line) = [index EXCEPT ![Len(index)] = Torn]
    BY <1>1 DEF Appended
  <2>4. /\ Appended(line) \in Seq(References \cup {Torn})
        /\ DOMAIN Appended(line) = DOMAIN index
    BY <2>1, <2>2, <2>3
  <2>5. Appended(line) # << >>
    BY <2>2, <2>4
  <2> QED BY <2>1, <2>2, <2>3, <2>4, <2>5
<1>2. CASE ~unended
  BY <1>2 DEF Appended, TypeOK
<1> QED BY <1>1, <1>2

LEMMA IndexTypes ==
  ASSUME TypeOK, step = "filled"
  PROVE  Index \/ IndexTorn =>
           /\ index' \in Seq(References \cup {Torn}) /\ index' # << >>
           /\ unended' \in BOOLEAN /\ step' = "idle" /\ UNCHANGED <<file, job>>
<1>1. job \in References
  BY HeadTailProperties DEF TypeOK
<1>2. CASE Index
  BY <1>1, <1>2, AppendedLine DEF Index
<1>3. CASE IndexTorn
  BY <1>1, <1>3, AppendedLine DEF IndexTorn
<1> QED BY <1>2, <1>3

LEMMA TypeStep == TypeOK /\ KnownNamed /\ [Next]_vars => TypeOK'
<1> SUFFICES ASSUME TypeOK, KnownNamed, [Next]_vars PROVE TypeOK'
  OBVIOUS
<1> USE HarnessAssumption
<1>0. todo # << >> => Head(todo) \in References /\ Tail(todo) \in Seq(References)
  BY HeadTailProperties DEF TypeOK
<1>1. CASE Operation
  <2>1. Begun /\ invocations' \in Nat
    BY <1>1, OperationBegins
  <2>2. /\ todo' \in Seq(References) /\ idents' \in 0..MaxIdents /\ step = "idle"
        /\ UNCHANGED <<storeVars, got, known, faults>>
    BY <2>1 DEF Begun
  <2> QED BY <2>1, <2>2 DEF TypeOK, storeVars
<1>2. CASE InvocationRefused
  BY <1>2 DEF InvocationRefused, TypeOK, storeVars
<1>3. CASE NextWrite
  BY <1>0, <1>3 DEF NextWrite, Begin, TypeOK, harnessVars
<1>4. CASE Writing
  <2>1. step # "idle" /\ job \in References
    BY <1>0, <1>4 DEF Writing, Open, Fill, TypeOK
  <2>2. job.path \in Names /\ job.digest \in Nat
    BY <2>1 DEF References
  <2>3. \A v \in Nat \cup {Partial} : Fills(job.path, v) =>
           DOMAIN file' \subseteq Names /\ \A p \in DOMAIN file' : file'[p] \in Nat \cup {Partial}
    BY <2>2 DEF Fills, TypeOK
  <2>4. step' \in {"open", "filled"} /\ UNCHANGED <<index, unended, job, harnessVars>>
    BY <1>4 DEF Writing, Open, Fill
  <2>5. DOMAIN file' \subseteq Names /\ \A p \in DOMAIN file' : file'[p] \in Nat \cup {Partial}
    BY <1>4, <2>2, <2>3 DEF Writing, Open, Fill
  <2> QED BY <2>1, <2>4, <2>5 DEF TypeOK, harnessVars
<1>5. CASE Written
  <2>1. step = "filled" /\ Index
    BY <1>5 DEF Written, Index
  <2>2. job \in References /\ job.path \in Names
    BY <1>0, <2>1 DEF TypeOK, References
  <2> QED BY <1>0, <1>5, <2>1, <2>2, IndexTypes DEF Written, TypeOK
<1>6. CASE Locked
  BY <1>6 DEF Locked, GivesUp, TypeOK, storeVars
<1>7. ASSUME Interrupted \/ IndexTorn \/ (UNCHANGED storeVars /\ step = "idle")
      PROVE  /\ index' \in Seq(References \cup {Torn}) /\ (unended' => index' # << >>)
             /\ unended' \in BOOLEAN /\ step' = "idle" /\ UNCHANGED file
  <2>1. CASE Interrupted
    BY <2>1 DEF Interrupted, TypeOK
  <2>2. CASE IndexTorn
    BY <2>2, IndexTypes DEF IndexTorn
  <2>3. CASE UNCHANGED storeVars /\ step = "idle"
    BY <2>3 DEF storeVars, TypeOK
  <2> QED BY <1>7, <2>1, <2>2, <2>3
<1>8. CASE Raises
  BY <1>7, <1>8 DEF Raises, GivesUp, TypeOK
<1>9. CASE Killed
  BY <1>7, <1>9 DEF Killed, GivesUp, TypeOK
<1>10. CASE UNCHANGED vars
  BY <1>10 DEF vars, storeVars, harnessVars, TypeOK
<1> QED BY <1>1, <1>2, <1>3, <1>4, <1>5, <1>6, <1>8, <1>9, <1>10 DEF Next

-----------------------------------------------------------------------------
\* Everything held and everything still to be written has its ancestors, and
\* cites what is held or comes before it.
PlanInv ==
    /\ KnownNamed
    /\ \A p \in got : Named(p)
    /\ \A i \in DOMAIN todo :
          /\ Named(todo[i].path)
          /\ \A p \in todo[i].lineage :
                p \in known \cup got \/ \E j \in 1..(i - 1) : todo[j].path = p

LEMMA NamedStays ==
  ASSUME known \subseteq known', NEW p, Named(p)
  PROVE  Named(p)'
BY DEF Named

LEMMA PlanStep == TypeOK /\ PlanInv /\ [Next]_vars => PlanInv'
<1> SUFFICES ASSUME TypeOK, PlanInv, [Next]_vars PROVE PlanInv'
  OBVIOUS
<1>1. CASE Operation
  <2>1. Begun /\ UNCHANGED <<known, got>>
    BY <1>1, OperationBegins DEF PlanInv, Begun
  <2>2. /\ \A p \in known \cup got : Named(p)'
        /\ \A p : Named(p) => Named(p)'
    BY <2>1, NamedStays DEF PlanInv, KnownNamed
  <2>3. \A i \in DOMAIN todo' :
           /\ Named(todo[i].path)'
           /\ \A p \in todo'[i].lineage : p \in known \/ \E j \in 1..(i - 1) : todo'[j].path = p
    <3> TAKE i \in DOMAIN todo'
    <3>1. /\ Named(todo'[i].path)
          /\ \A p \in todo'[i].lineage : p \in known \/ \E j \in 1..(i - 1) : todo'[j].path = p
      BY <2>1 DEF Begun, Planned
    <3>2. Named(todo[i].path)'
      BY <2>1, <3>1 DEF Named
    <3> QED BY <3>1, <3>2
  <2> QED BY <2>1, <2>2, <2>3 DEF PlanInv, KnownNamed
<1>2. ASSUME UNCHANGED <<todo, got, known>> PROVE PlanInv'
  BY <1>2 DEF PlanInv, KnownNamed, Named
<1>3. CASE InvocationRefused \/ NextWrite \/ Writing
  BY <1>2, <1>3 DEF InvocationRefused, NextWrite, Writing, harnessVars
<1>4. CASE Written
  <2>1. /\ todo # << >> /\ job.path = todo[1].path
        /\ Tail(todo) \in Seq(References) /\ Len(Tail(todo)) = Len(todo) - 1
        /\ \A i \in 1..Len(Tail(todo)) : Tail(todo)[i] = todo[i + 1]
    BY <1>4, HeadTailProperties DEF Written, Index, TypeOK
  <2>2. todo' = Tail(todo)
    BY <1>4 DEF Written
  <2>3. \A p : Named(p) => Named(p)'
    <3>1. known \subseteq known'
      BY <1>4 DEF Written
    <3> QED BY <3>1, NamedStays
  <2>4. Named(job.path)
    BY <2>1 DEF PlanInv, TypeOK
  <2>5. \A p \in known' \cup got' : Named(p)'
    BY <1>4, <2>3, <2>4 DEF Written, PlanInv, KnownNamed
  <2>6. CASE todo' = << >>
    BY <2>5, <2>6 DEF PlanInv, KnownNamed
  <2>7. CASE todo' # << >>
    <3>1. known' = known /\ got' = got \cup {job.path}
      BY <1>4, <2>2, <2>7 DEF Written
    <3>2. ASSUME NEW i \in DOMAIN todo'
          PROVE  /\ Named(todo[i].path)'
                 /\ \A p \in todo'[i].lineage :
                       p \in known' \cup got' \/ \E j \in 1..(i - 1) : todo'[j].path = p
      <4>1. i + 1 \in DOMAIN todo /\ todo'[i] = todo[i + 1] /\ i \in 1..Len(Tail(todo))
        BY <2>1, <2>2 DEF TypeOK
      <4>2. Named(todo[i].path)'
        BY <2>3, <4>1 DEF PlanInv
      <4>3. ASSUME NEW p \in todo'[i].lineage, p \notin known' \cup got'
            PROVE  \E j \in 1..(i - 1) : todo'[j].path = p
        <5>1. PICK j \in 1..((i + 1) - 1) : todo[j].path = p
          BY <3>1, <4>1, <4>3 DEF PlanInv
        <5>2. j # 1
          BY <2>1, <3>1, <4>3, <5>1
        <5>3. j - 1 \in 1..(i - 1) /\ todo'[j - 1] = todo[j]
          BY <2>1, <2>2, <4>1, <5>1, <5>2
        <5> QED BY <5>1, <5>3
      <4> QED BY <4>2, <4>3
    <3> QED BY <2>5, <3>2 DEF PlanInv, KnownNamed
  <2> QED BY <2>6, <2>7
<1>5. CASE Locked \/ Raises
  <2>1. todo' = << >> /\ got' = {} /\ known' = known
    BY <1>5 DEF Locked, Raises, GivesUp
  <2> QED BY <2>1 DEF PlanInv, KnownNamed, Named
<1>6. CASE Killed
  <2>1. todo' = << >> /\ got' = {} /\ known' = {}
    BY <1>6 DEF Killed, GivesUp
  <2> QED BY <2>1 DEF PlanInv, KnownNamed
<1>7. CASE UNCHANGED vars
  BY <1>2, <1>7 DEF vars, harnessVars
<1> QED BY <1>1, <1>3, <1>4, <1>5, <1>6, <1>7 DEF Next

LEMMA PlansHold == Spec => [](TypeOK /\ PlanInv)
<1>1. Init => TypeOK
  <2> SUFFICES ASSUME Init PROVE TypeOK
    OBVIOUS
  <2>1. DOMAIN file = {}
    BY DEF Init, StoreInit
  <2>2. index \in Seq(References \cup {Torn}) /\ todo \in Seq(References)
    BY DEF Init, StoreInit
  <2>3. unended \in BOOLEAN /\ ~unended
    BY DEF Init, StoreInit
  <2>4. invocations \in Nat /\ idents \in 0..MaxIdents /\ faults \in 0..MaxFaults
    BY HarnessAssumption DEF Init
  <2>5. step = "idle" /\ got \subseteq Names /\ known \subseteq Names
    BY DEF Init, StoreInit
  <2>6. \A p \in DOMAIN file : file[p] \in Nat \cup {Partial}
    BY <2>1
  <2> QED BY <2>1, <2>2, <2>3, <2>4, <2>5, <2>6 DEF TypeOK
<1>3. Init => PlanInv
  BY DEF Init, StoreInit, PlanInv, KnownNamed
<1>2. TypeOK /\ PlanInv /\ [Next]_vars => TypeOK' /\ PlanInv'
  BY TypeStep, PlanStep DEF PlanInv
<1> QED BY <1>1, <1>2, <1>3, PTL DEF Spec

\* The variables keep their types, and the write in progress is the next one to do,

\* for all limits and any number of faults.
THEOREM TypeCorrect == Spec => []TypeOK
BY PlansHold, PTL

-----------------------------------------------------------------------------
\* What the store promises of its files and its index, between the steps of a write.
Unique ==
    \A i, j \in DOMAIN index :
       index[i] # Torn /\ index[j] # Torn /\ index[i].path = index[j].path => i = j

Backed ==
    \A i \in DOMAIN index : index[i] # Torn =>
       index[i].path \in DOMAIN file /\ file[index[i].path] = index[i].digest

\* A path that is being written is not indexed, and what is there of it is known.
InProgress ==
    /\ step = "free" => job.path \notin DOMAIN file
    /\ step = "open" => job.path \in DOMAIN file /\ file[job.path] = Partial
    /\ step = "filled" =>
         /\ job.path \in DOMAIN file /\ file[job.path] = job.digest
         /\ \A i \in DOMAIN index : index[i] # Torn => index[i].path # job.path

StoreInv == Unique /\ Backed /\ InProgress

LEMMA OpenFill ==
  ASSUME TypeOK, StoreInv, Open \/ Fill
  PROVE  /\ StoreInv'
         /\ \A p \in DOMAIN file :
              file[p] # Partial => p \in DOMAIN file' /\ file'[p] = file[p]
         /\ UNCHANGED <<index, unended, job>>
         /\ DOMAIN file' = DOMAIN file \cup {job.path}
<1>1. \A i \in DOMAIN index : index[i] # Torn => index[i].path # job.path
  <2> SUFFICES ASSUME NEW i \in DOMAIN index, index[i] # Torn PROVE index[i].path # job.path
    OBVIOUS
  <2>1. index[i].digest \in Nat
    BY DEF TypeOK, References
  <2>2. CASE Open
    BY <2>2 DEF Open, StoreInv, Backed, InProgress
  <2>3. CASE Fill
    BY <2>1, <2>3, StoreAssumption DEF Fill, StoreInv, Backed, InProgress
  <2> QED BY <2>2, <2>3
<1>2. PICK v : Fills(job.path, v)
  BY DEF Open, Fill
<1>3. UNCHANGED <<index, unended, job>>
  BY DEF Open, Fill
<1>4. Unique'
  BY <1>3 DEF Unique, StoreInv
<1>5. Backed'
  BY <1>1, <1>2, <1>3 DEF Backed, StoreInv, Fills
<1>6. InProgress'
  <2>1. CASE Open
    BY <1>3, <2>1 DEF Open, Fills, InProgress
  <2>2. CASE Fill
    BY <1>1, <1>3, <2>2 DEF Fill, Fills, InProgress
  <2> QED BY <2>1, <2>2
<1>7. \A p \in DOMAIN file :
         file[p] # Partial => p \in DOMAIN file' /\ file'[p] = file[p]
  BY DEF Open, Fill, Fills, StoreInv, InProgress
<1>8. DOMAIN file' = DOMAIN file \cup {job.path}
  BY <1>2 DEF Fills
<1> QED BY <1>3, <1>4, <1>5, <1>6, <1>7, <1>8 DEF StoreInv

LEMMA Indexed ==
  ASSUME TypeOK, StoreInv, Index \/ IndexTorn
  PROVE  StoreInv' /\ UNCHANGED <<file, job>> /\ step' = "idle"
<1>1. step = "filled" /\ job \in References
  BY HeadTailProperties DEF TypeOK, Index, IndexTorn
<1>2. PICK line \in {Torn, job} : index' = Appended(line)
  BY DEF Index, IndexTorn
<1>3. UNCHANGED <<file, job>> /\ step' = "idle"
  BY DEF Index, IndexTorn
<1>4. /\ index' \in Seq(References \cup {Torn})
      /\ \A i \in DOMAIN index' :
            \/ index'[i] = Torn
            \/ i \in DOMAIN index /\ index'[i] = index[i]
            \/ i = Len(index) + 1 /\ index'[i] = job
  BY <1>1, <1>2, AppendedLine
<1>5. Len(index) + 1 \notin DOMAIN index
  BY DEF TypeOK
<1>6. Unique'
  BY <1>1, <1>4, <1>5 DEF Unique, StoreInv, InProgress
<1>7. Backed'
  BY <1>1, <1>3, <1>4 DEF Backed, StoreInv, InProgress
<1>8. InProgress'
  BY <1>3 DEF InProgress
<1> QED BY <1>3, <1>6, <1>7, <1>8 DEF StoreInv

LEMMA StoreStep == TypeOK /\ PlanInv /\ StoreInv /\ [Next]_vars => StoreInv'
<1> SUFFICES ASSUME TypeOK, PlanInv, StoreInv, [Next]_vars PROVE StoreInv'
  OBVIOUS
<1>1. ASSUME UNCHANGED storeVars PROVE StoreInv'
  BY <1>1 DEF StoreInv, Unique, Backed, InProgress, storeVars
<1>2. CASE Operation
  BY <1>1, <1>2, OperationBegins DEF Begun, PlanInv
<1>3. CASE InvocationRefused \/ Locked \/ UNCHANGED vars
  BY <1>1, <1>3 DEF InvocationRefused, Locked, vars
<1>4. CASE NextWrite
  BY <1>4 DEF NextWrite, Begin, Free, Exists, StoreInv, Unique, Backed, InProgress
<1>5. CASE Writing
  BY <1>5, OpenFill DEF Writing
<1>6. CASE Written
  BY <1>6, Indexed DEF Written
<1>7. CASE Interrupted
  BY <1>7 DEF Interrupted, StoreInv, Unique, Backed, InProgress
<1>8. CASE Raises \/ Killed
  BY <1>1, <1>7, <1>8, Indexed DEF Raises, Killed
<1> QED BY <1>2, <1>3, <1>4, <1>5, <1>6, <1>8 DEF Next

LEMMA StoreHolds == Spec => [](TypeOK /\ PlanInv /\ StoreInv)
<1>1. Init => StoreInv
  BY DEF Init, StoreInit, StoreInv, Unique, Backed, InProgress
<1> QED BY <1>1, PlansHold, StoreStep, PTL DEF Spec

\* Whatever write is interrupted, torn or repeated: an indexed path is indexed once

\* and verifies (_artifact_state), for any number of writes and faults.
THEOREM IndexIsSound == Spec => []IndexSound
<1>1. TypeOK /\ StoreInv => IndexSound
  <2> SUFFICES ASSUME TypeOK, StoreInv, NEW p \in DOMAIN file
               PROVE  ArtifactState(p) \in {"UNINDEXED", "PRESENT"}
    BY DEF IndexSound
  <2>1. CASE Matching(p) = {}
    BY <2>1 DEF ArtifactState, Exists
  <2>2. CASE Matching(p) # {}
    <3>1. \A i, j \in Matching(p) : i = j
      BY DEF Matching, StoreInv, Unique
    <3>2. \A i \in Matching(p) : file[p] = index[i].digest
      BY DEF Matching, StoreInv, Backed
    <3> QED BY <2>2, <3>1, <3>2 DEF ArtifactState, Exists
  <2> QED BY <2>1, <2>2
<1> QED BY <1>1, StoreHolds, PTL

\* A complete artifact never changes ("Immutable file-backed memory", artifacts.py:1).

THEOREM ArtifactsAreImmutable == Spec => Immutable
<1> DEFINE Kept == \A p \in DOMAIN file :
                      file[p] # Partial => p \in DOMAIN file' /\ file'[p] = file[p]
<1>1. TypeOK /\ PlanInv /\ StoreInv /\ [Next]_vars => Kept
  <2> SUFFICES ASSUME TypeOK, PlanInv, StoreInv, [Next]_vars PROVE Kept
    OBVIOUS
  <2>1. CASE Writing
    BY <2>1, OpenFill DEF Writing
  <2>2. CASE ~Writing
    <3>1. CASE Operation
      BY <3>1, OperationBegins DEF Begun, PlanInv, storeVars
    <3>2. CASE ~Operation
      BY <2>2, <3>2 DEF Next, InvocationRefused, NextWrite, Begin, Written, Index, Locked, Raises,
         Killed, Interrupted, IndexTorn, vars, storeVars
    <3> QED BY <3>1, <3>2
  <2> QED BY <2>1, <2>2
<1>2. TypeOK /\ PlanInv /\ StoreInv /\ [Next]_vars => [Kept]_vars
  BY <1>1
<1> QED BY <1>2, StoreHolds, PTL DEF Spec, Immutable

-----------------------------------------------------------------------------
\* While the index reads, each line cites lines before it, and what a caller holds
\* or has written is indexed.
Cited ==
    AllRefsReads =>
      /\ \A i \in DOMAIN index : \A p \in index[i].lineage : \E j \in Matching(p) : j < i
      /\ \A p \in known \cup got : Matching(p) # {}

LEMMA CitedStays ==
  ASSUME Cited, UNCHANGED index, known' \cup got' \subseteq known \cup got
  PROVE  Cited'
BY DEF Cited, AllRefsReads, Matching

\* A line is appended to an index that reads only if nothing was torn before.

LEMMA CitedGrows ==
  ASSUME TypeOK, PlanInv, Cited, Index \/ IndexTorn,
         known' \cup got' \subseteq known \cup got \cup {job.path}
  PROVE  Cited'
<1> SUFFICES ASSUME AllRefsReads'
             PROVE  /\ \A i \in DOMAIN index' : \A p \in index'[i].lineage :
                         \E j \in Matching(p)' : j < i
                    /\ \A p \in known' \cup got' : Matching(p)' # {}
  BY DEF Cited
<1>1. job \in References /\ todo # << >> /\ job = todo[1]
  BY HeadTailProperties DEF TypeOK, Index, IndexTorn
<1>2. PICK line \in {Torn, job} : index' = Appended(line)
  BY DEF Index, IndexTorn
<1>3. ~unended
  <2> SUFFICES ASSUME unended PROVE FALSE
    OBVIOUS
  <2>1. Len(index) \in DOMAIN index /\ index' = [index EXCEPT ![Len(index)] = Torn]
    BY <1>2 DEF TypeOK, Appended
  <2> QED BY <2>1 DEF AllRefsReads
<1>4. index' = Append(index, line)
  BY <1>2, <1>3 DEF Appended
<1>5. /\ DOMAIN index' = DOMAIN index \cup {Len(index) + 1}
      /\ \A i \in DOMAIN index : index'[i] = index[i] /\ i < Len(index) + 1
      /\ index'[Len(index) + 1] = line /\ Len(index) + 1 \notin DOMAIN index
      /\ DOMAIN index \subseteq Nat
  BY <1>4 DEF TypeOK
<1>6. AllRefsReads /\ line = job
  BY <1>2, <1>5 DEF AllRefsReads
<1>7. \A p : Matching(p) \subseteq Matching(p)'
  BY <1>5 DEF Matching
<1>8. \A p \in job.lineage : Matching(p) # {}
  <2>1. 1 \in DOMAIN todo
    BY <1>1 DEF TypeOK
  <2>2. \A p \in todo[1].lineage : p \in known \cup got \/ \E j \in 1..(1 - 1) : todo[j].path = p
    BY <2>1 DEF PlanInv
  <2>3. \A p \in todo[1].lineage : p \in known \cup got
    BY <2>2
  <2> QED BY <1>1, <1>6, <2>3 DEF Cited
<1>9. ASSUME NEW i \in DOMAIN index', NEW p \in index'[i].lineage
      PROVE  \E j \in Matching(p)' : j < i
  <2>1. CASE i \in DOMAIN index
    BY <1>5, <1>6, <1>7, <1>9, <2>1 DEF Cited
  <2>2. CASE i = Len(index) + 1
    <3>1. PICK j \in Matching(p) : TRUE
      BY <1>5, <1>6, <1>8, <1>9, <2>2
    <3> QED BY <1>5, <1>7, <2>2, <3>1 DEF Matching
  <2> QED BY <1>5, <2>1, <2>2
<1>10. \A p \in known' \cup got' : Matching(p)' # {}
  <2>1. \A p \in known \cup got : Matching(p)' # {}
    BY <1>6, <1>7 DEF Cited
  <2>2. ASSUME NEW p, p = job.path PROVE Len(index) + 1 \in Matching(p)'
    <3>1. job # Torn
      BY <1>1, StoreAssumption
    <3> QED BY <1>5, <1>6, <2>2, <3>1 DEF Matching
  <2> QED BY <2>1, <2>2
<1> QED BY <1>9, <1>10

LEMMA CitedStep == TypeOK /\ PlanInv /\ StoreInv /\ Cited /\ [Next]_vars => Cited'
<1> SUFFICES ASSUME TypeOK, PlanInv, StoreInv, Cited, [Next]_vars PROVE Cited'
  OBVIOUS
<1>1. CASE Operation
  BY <1>1, CitedStays, OperationBegins DEF Begun, PlanInv, storeVars
<1>2. CASE InvocationRefused \/ Locked \/ UNCHANGED vars
  BY <1>2, CitedStays DEF InvocationRefused, Locked, GivesUp, vars, storeVars, harnessVars
<1>3. CASE NextWrite
  BY <1>3, CitedStays DEF NextWrite, Begin, harnessVars
<1>4. CASE Writing
  BY <1>4, CitedStays, OpenFill DEF Writing, harnessVars
<1>5. CASE Written
  <2>1. known' \cup got' \subseteq known \cup got \cup {job.path}
    BY <1>5 DEF Written
  <2>2. Index
    BY <1>5 DEF Written
  <2> QED BY <2>1, <2>2, CitedGrows
<1>6. CASE Raises \/ Killed
  <2>1. known' \cup got' \subseteq known
    BY <1>6 DEF Raises, Killed, GivesUp
  <2>2. CASE IndexTorn
    BY <2>1, <2>2, CitedGrows
  <2>3. CASE Interrupted \/ UNCHANGED storeVars
    BY <2>1, <2>3, CitedStays DEF Interrupted, storeVars
  <2> QED BY <1>6, <2>2, <2>3 DEF Raises, Killed
<1> QED BY <1>1, <1>2, <1>3, <1>4, <1>5, <1>6 DEF Next

\* While the index can be read, what an artifact cites was indexed before it and

\* verifies (run_l3, write_l2_report, write_l1_outputs), whatever failed before.
THEOREM LineageIsVerified == Spec => []LineageVerified
<1>1. Init => Cited
  BY DEF Init, StoreInit, Cited
<1>2. TypeOK /\ StoreInv /\ Cited => LineageVerified
  <2> SUFFICES ASSUME TypeOK, StoreInv, Cited, AllRefsReads,
                      NEW i \in DOMAIN index, NEW p \in index[i].lineage
               PROVE  \E j \in Matching(p) : j < i /\ file[p] = index[j].digest
    BY DEF LineageVerified
  <2>1. PICK j \in Matching(p) : j < i
    BY DEF Cited
  <2>2. file[p] = index[j].digest
    BY <2>1 DEF StoreInv, Backed, Matching
  <2> QED BY <2>1, <2>2
<1> QED BY <1>1, <1>2, CitedStep, StoreHolds, PTL DEF Spec

-----------------------------------------------------------------------------
\* Who may count agents: a harness that holds anything has made the mission file
\* itself; one that holds nothing makes that file before all others, or nothing.
MissionFirst ==
    /\ Mission \notin DOMAIN file => DOMAIN file = {} /\ known = {}
    /\ known = {} /\ todo # << >> =>
         /\ NoAgent(todo)
         /\ Mission \notin DOMAIN file => todo[1].path = Mission
         /\ step # "idle" \/ todo[1].path # Mission => \A p \in DOMAIN file : ~IsAgent(p)

AgentFiles == {p \in DOMAIN file : IsAgent(p)}

AgentsDue == {p \in {todo[i].path : i \in DOMAIN todo} : IsAgent(p)}

AgentInv ==
    /\ IsFiniteSet(AgentFiles \cup AgentsDue)
    /\ Cardinality(AgentFiles) <= MaxInvocations
    /\ known # {} => /\ Cardinality(AgentFiles \cup AgentsDue) <= invocations
                     /\ Cardinality(AgentFiles \cup AgentsDue) <= MaxInvocations

LEMMA WritingGrows ==
  ASSUME TypeOK, StoreInv, Writing
  PROVE  /\ todo # << >> /\ 1 \in DOMAIN todo /\ step # "idle"
         /\ DOMAIN file' = DOMAIN file \cup {todo[1].path}
         /\ UNCHANGED <<todo, known, invocations>>
<1>1. (Open \/ Fill) /\ step # "idle" /\ UNCHANGED <<todo, known, invocations>>
  BY DEF Writing, Open, Fill, harnessVars
<1>2. todo # << >> /\ job = Head(todo) /\ todo \in Seq(References)
  BY <1>1 DEF TypeOK
<1>3. job = todo[1] /\ 1 \in DOMAIN todo
  BY <1>2
<1>4. DOMAIN file' = DOMAIN file \cup {job.path}
  BY <1>1, OpenFill
<1> QED BY <1>1, <1>2, <1>3, <1>4

LEMMA MissionFirstStep ==
  TypeOK /\ PlanInv /\ StoreInv /\ MissionFirst /\ [Next]_vars => MissionFirst'
<1> SUFFICES ASSUME TypeOK, PlanInv, StoreInv, MissionFirst, [Next]_vars PROVE MissionFirst'
  OBVIOUS
<1>1. CASE Operation
  <2>1. Begun /\ UNCHANGED <<file, step, known>> /\ step = "idle"
    BY <1>1, OperationBegins DEF Begun, PlanInv, storeVars
  <2>2. CASE known = {}
    <3>1. todo' = <<Artifact(Mission, {}), Artifact(<<"cycle", <<Drawn(1)>> >>, {Mission})>>
      BY <1>1, <2>2, OperationBegins DEF PlanInv
    <3>2. todo'[1].path = Mission /\ NoAgent(todo')
      BY <3>1 DEF NoAgent, IsAgent, Artifact, Mission
    <3> QED BY <2>1, <2>2, <3>2 DEF MissionFirst
  <2>3. CASE known # {}
    BY <2>1, <2>3 DEF MissionFirst
  <2> QED BY <2>2, <2>3
<1>2. CASE InvocationRefused \/ UNCHANGED vars
  BY <1>2 DEF InvocationRefused, vars, storeVars, harnessVars, MissionFirst
<1>3. CASE NextWrite
  <2>1. todo # << >> /\ Head(todo) = todo[1] /\ Head(todo).path \notin DOMAIN file
    BY <1>3 DEF NextWrite, Begin, Free, Exists, TypeOK
  <2> QED BY <1>3, <2>1 DEF NextWrite, Begin, harnessVars, MissionFirst
<1>4. CASE Writing
  <2>1. /\ todo # << >> /\ DOMAIN file' = DOMAIN file \cup {todo[1].path} /\ step # "idle"
        /\ UNCHANGED <<todo, known>>
    BY <1>4, WritingGrows
  <2>2. 1 \in DOMAIN todo
    BY <2>1 DEF TypeOK
  <2> QED BY <2>1, <2>2 DEF MissionFirst, NoAgent
<1>5. CASE Written
  <2>1. /\ todo # << >> /\ Mission \in DOMAIN file /\ UNCHANGED file
    <3>1. todo # << >> /\ step = "filled" /\ UNCHANGED file
      BY <1>5 DEF Written, Index, TypeOK
    <3>2. job.path \in DOMAIN file
      BY <3>1 DEF StoreInv, InProgress
    <3> QED BY <3>1, <3>2 DEF MissionFirst
  <2>2. CASE known' # {}
    BY <2>1, <2>2 DEF MissionFirst
  <2>3. CASE known' = {}
    <3>1. known = {} /\ todo' = Tail(todo) /\ step # "idle"
      BY <1>5, <2>3 DEF Written, Index
    <3>2. NoAgent(todo')
      BY <2>1, <3>1, HeadTailProperties DEF MissionFirst, NoAgent, TypeOK
    <3> QED BY <2>1, <3>1, <3>2 DEF MissionFirst
  <2> QED BY <2>2, <2>3
<1>6. CASE Locked \/ Raises \/ Killed
  <2>1. todo' = << >> /\ (known' = known \/ known' = {})
    BY <1>6 DEF Locked, Raises, Killed, GivesUp
  <2>2. UNCHANGED file
    BY <1>6 DEF Locked, Raises, Killed, Interrupted, IndexTorn, storeVars
  <2> QED BY <2>1, <2>2 DEF MissionFirst
<1> QED BY <1>1, <1>2, <1>3, <1>4, <1>5, <1>6 DEF Next

\* Nobody is added to those who exist or are due.

LEMMA NoneAdded ==
  ASSUME TypeOK, AgentInv, TypeOK',
         AgentFiles' \cup AgentsDue' \subseteq AgentFiles \cup AgentsDue,
         known = {} => known' = {} /\ AgentFiles' = AgentFiles,
         known' # {} => invocations <= invocations'
  PROVE  AgentInv'
<1> DEFINE A == AgentFiles \cup AgentsDue
           B == AgentFiles' \cup AgentsDue'
<1>1. /\ IsFiniteSet(B) /\ Cardinality(B) <= Cardinality(A)
      /\ Cardinality(B) \in Nat /\ Cardinality(A) \in Nat
  BY FS_Subset, FS_CardinalityType DEF AgentInv
<1>2. IsFiniteSet(AgentFiles') /\ Cardinality(AgentFiles') <= Cardinality(B)
      /\ Cardinality(AgentFiles') \in Nat
  BY <1>1, FS_Subset, FS_CardinalityType
<1>3. invocations \in Nat /\ invocations' \in Nat /\ MaxInvocations \in Nat
  BY HarnessAssumption DEF TypeOK
<1> HIDE DEF A, B
<1>4. known # {} => Cardinality(A) <= invocations /\ Cardinality(A) <= MaxInvocations
  BY DEF A, AgentInv
<1>5. Cardinality(AgentFiles') <= MaxInvocations
  BY <1>1, <1>2, <1>3, <1>4 DEF AgentInv
<1>6. known' # {} => Cardinality(B) <= invocations' /\ Cardinality(B) <= MaxInvocations
  BY <1>1, <1>3, <1>4
<1> QED BY <1>1, <1>5, <1>6 DEF B, AgentInv

LEMMA AgentStep ==
  TypeOK /\ PlanInv /\ StoreInv /\ MissionFirst /\ AgentInv /\ [Next]_vars /\ TypeOK' => AgentInv'
<1> SUFFICES ASSUME TypeOK, PlanInv, StoreInv, MissionFirst, AgentInv, [Next]_vars, TypeOK'
             PROVE  AgentInv'
  OBVIOUS
<1> USE HarnessAssumption
<1>0. ASSUME UNCHANGED <<todo, file, known>>, invocations <= invocations' PROVE AgentInv'
  BY <1>0, NoneAdded DEF AgentFiles, AgentsDue
<1>1. CASE Operation
  <2>1. Begun /\ Counted /\ UNCHANGED <<file, known>> /\ todo = << >>
    BY <1>1, OperationBegins DEF Begun, PlanInv, storeVars
  <2>2. AgentsDue = {} /\ AgentFiles' = AgentFiles
    BY <2>1 DEF AgentsDue, AgentFiles
  <2>3. CASE NoAgent(todo') /\ UNCHANGED invocations
    <3>1. AgentsDue' = {}
      BY <2>3 DEF AgentsDue, NoAgent
    <3> QED BY <2>1, <2>2, <2>3, <3>1, NoneAdded DEF TypeOK
  <2>4. CASE known = {}
    <3>1. NoAgent(todo')
      <4>1. todo' = <<Artifact(Mission, {}), Artifact(<<"cycle", <<Drawn(1)>> >>, {Mission})>>
        BY <1>1, <2>4, OperationBegins DEF PlanInv
      <4> QED BY <4>1 DEF NoAgent, IsAgent, Artifact, Mission
    <3>2. AgentsDue' = {}
      BY <3>1 DEF AgentsDue, NoAgent
    <3> QED BY <2>1, <2>2, <2>4, <3>2, NoneAdded
  <2>5. CASE /\ known # {} /\ OneAgent(todo')
             /\ invocations' = invocations + 1 /\ invocations' <= MaxInvocations
    <3>1. PICK a : \A i \in DOMAIN todo' : IsAgent(todo'[i].path) => todo'[i].path = a
      BY <2>5 DEF OneAgent
    <3> DEFINE B == AgentFiles' \cup AgentsDue'
               C == AgentFiles \cup {a}
    <3>2. B \subseteq C
      BY <2>2, <3>1 DEF AgentsDue
    <3>3. /\ IsFiniteSet(AgentFiles) /\ Cardinality(AgentFiles) <= invocations
      BY <2>2, <2>5 DEF AgentInv
    <3>4. IsFiniteSet(C) /\ Cardinality(C) <= invocations + 1
      <4>1. /\ IsFiniteSet(C) /\ Cardinality(AgentFiles) \in Nat
            /\ Cardinality(C) = IF a \in AgentFiles THEN Cardinality(AgentFiles)
                                ELSE Cardinality(AgentFiles) + 1
        BY <3>3, FS_AddElement, FS_CardinalityType
      <4> HIDE DEF C
      <4> QED BY <3>3, <4>1 DEF TypeOK
    <3>5. IsFiniteSet(B) /\ Cardinality(B) <= invocations + 1
      BY <3>2, <3>4, FS_Subset, FS_CardinalityType DEF TypeOK
    <3>6. Cardinality(B) <= MaxInvocations
      BY <2>5, <3>5, FS_CardinalityType DEF TypeOK
    <3> QED BY <2>2, <2>5, <3>5, <3>6 DEF AgentInv
  <2> QED BY <2>1, <2>3, <2>4, <2>5 DEF Counted
<1>2. CASE InvocationRefused
  BY <1>0, <1>2 DEF InvocationRefused, storeVars, TypeOK
<1>3. CASE NextWrite \/ UNCHANGED vars
  BY <1>0, <1>3 DEF NextWrite, Begin, vars, storeVars, harnessVars, TypeOK
<1>4. CASE Writing
  <2>1. /\ todo # << >> /\ DOMAIN file' = DOMAIN file \cup {todo[1].path}
        /\ UNCHANGED <<todo, known, invocations>> /\ 1 \in DOMAIN todo
    BY <1>4, WritingGrows
  <2>2. AgentFiles' \cup AgentsDue' \subseteq AgentFiles \cup AgentsDue
    BY <2>1 DEF AgentFiles, AgentsDue
  <2>3. known = {} => AgentFiles' = AgentFiles
    BY <2>1 DEF MissionFirst, NoAgent, AgentFiles
  <2> QED BY <2>1, <2>2, <2>3, NoneAdded DEF TypeOK
<1>5. CASE Written
  <2>1. /\ todo # << >> /\ step # "idle" /\ UNCHANGED <<file, invocations>>
        /\ todo' = Tail(todo)
    BY <1>5 DEF Written, Index, TypeOK
  <2>2. AgentFiles' = AgentFiles /\ AgentsDue' \subseteq AgentsDue
    <3>1. \A i \in DOMAIN todo' : i + 1 \in DOMAIN todo /\ todo'[i] = todo[i + 1]
      BY <2>1, HeadTailProperties DEF TypeOK
    <3> QED BY <2>1, <3>1 DEF AgentFiles, AgentsDue
  <2>3. CASE known # {} \/ known' = {}
    BY <2>1, <2>2, <2>3, NoneAdded DEF TypeOK
  <2>4. CASE known = {}
    <3>1. AgentFiles = {} /\ AgentsDue = {}
      <4>1. NoAgent(todo)
        BY <2>1, <2>4 DEF MissionFirst
      <4>2. \A p \in DOMAIN file : ~IsAgent(p)
        BY <2>1, <2>4 DEF MissionFirst
      <4> QED BY <4>1, <4>2 DEF AgentFiles, AgentsDue, NoAgent
    <3>2. AgentFiles' = {} /\ AgentFiles' \cup AgentsDue' = {}
      BY <2>2, <3>1
    <3>3. /\ IsFiniteSet(AgentFiles' \cup AgentsDue')
          /\ Cardinality(AgentFiles' \cup AgentsDue') = 0 /\ Cardinality(AgentFiles') = 0
      BY <3>2, FS_EmptySet
    <3>4. invocations' \in Nat
      BY DEF TypeOK
    <3> QED BY <3>3, <3>4 DEF AgentInv
  <2> QED BY <2>3, <2>4
<1>6. CASE Locked \/ Raises \/ Killed
  <2>1. /\ todo' = << >> /\ ((known' = known /\ invocations' = invocations) \/ known' = {})
    BY <1>6 DEF Locked, Raises, Killed, GivesUp
  <2>2. UNCHANGED file
    BY <1>6 DEF Locked, Raises, Killed, Interrupted, IndexTorn, storeVars
  <2>3. AgentsDue' = {} /\ AgentFiles' = AgentFiles
    BY <2>1, <2>2 DEF AgentsDue, AgentFiles
  <2> QED BY <2>1, <2>3, NoneAdded DEF TypeOK
<1> QED BY <1>1, <1>2, <1>3, <1>4, <1>5, <1>6 DEF Next

\* The agents of a run directory never exceed max_total_agent_invocations, for any

\* limits and any number of harnesses started over it (harness.py:39, :106-109).
THEOREM AgentsAreBounded == Spec => []AgentsBounded
<1>1. Init => MissionFirst /\ AgentInv
  <2> SUFFICES ASSUME Init PROVE MissionFirst /\ AgentInv
    OBVIOUS
  <2>1. DOMAIN file = {} /\ todo = << >> /\ known = {}
    BY DEF Init, StoreInit
  <2>2. AgentFiles = {} /\ AgentFiles \cup AgentsDue = {}
    BY <2>1 DEF AgentFiles, AgentsDue
  <2> QED BY <2>1, <2>2, FS_EmptySet, HarnessAssumption DEF MissionFirst, AgentInv
<1>2. AgentInv => AgentsBounded
  BY DEF AgentInv, AgentsBounded, AgentFiles, IsAgent
<1>3. TypeOK /\ PlanInv /\ StoreInv /\ MissionFirst /\ AgentInv /\ TypeOK' /\ [Next]_vars
        => MissionFirst' /\ AgentInv'
  BY MissionFirstStep, AgentStep
<1> QED BY <1>1, <1>2, <1>3, StoreHolds, PTL DEF Spec
=============================================================================
