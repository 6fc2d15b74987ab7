-------------------------- MODULE GovernanceProofs --------------------------
(***************************************************************************)
(* Theorems about Governance, for every set of proposals and of reviewers, *)
(* and for every order of calls.                                           *)
(***************************************************************************)
EXTENDS Governance, TLAPS

\* A new Governance object (Governance.__init__) has the types.
LEMMA InitialTypes == Init => TypeOK
<1> SUFFICES ASSUME Init PROVE TypeOK
  OBVIOUS
<1>1. commits \in 0..MaxCommits
  BY GovernanceAssumption DEF Init
<1> QED BY <1>1 DEF Init, TypeOK, Keys

\* No call breaks them.
LEMMA TypeStep == TypeOK /\ [Next]_vars => TypeOK'
<1> SUFFICES ASSUME TypeOK, [Next]_vars PROVE TypeOK'
  OBVIOUS
<1> USE DEF TypeOK, Keys, submissions, verdicts
<1>1. ASSUME NEW p \in Proposals, NEW r \in Reviewers, CommitReview(p, r) PROVE TypeOK'
  <2>1. commits' \in 0..MaxCommits
    BY <1>1, GovernanceAssumption DEF CommitReview
  <2>2. reviews' \subseteq Keys /\ edited' \subseteq reviews' /\ shown' \subseteq reviews'
    BY <1>1 DEF CommitReview
  <2> QED BY <1>1, <2>1, <2>2 DEF CommitReview
<1>2. ASSUME NEW p \in Proposals, NEW r \in Reviewers, EditReview(p, r) PROVE TypeOK'
  BY <1>2 DEF EditReview
<1>3. ASSUME NEW p \in Proposals, NEW r \in Reviewers, RecordVeto(p, r) PROVE TypeOK'
  BY <1>3 DEF RecordVeto
<1>4. ASSUME NEW reviewers \in SUBSET Reviewers, RevealAll(reviewers) PROVE TypeOK'
  BY <1>4 DEF RevealAll
<1>5. ASSUME NEW p \in Proposals, Decide(p) PROVE TypeOK'
  <2>1. VetoersOf(p) \in SUBSET Reviewers
    BY DEF VetoersOf
  <2> QED BY <1>5, <2>1 DEF Decide
<1>6. ASSUME NEW p \in Proposals, PersistDecision(p) PROVE TypeOK'
  <2>1. decisions[p].status \in {"APPROVED", "REJECTED"}
    BY <1>6 DEF PersistDecision, Undecided
  <2> QED BY <1>6, <2>1 DEF PersistDecision
<1>7. CASE UNCHANGED vars
  BY <1>7 DEF vars
<1> QED BY <1>1, <1>2, <1>3, <1>4, <1>5, <1>6, <1>7 DEF Next

\* The variables keep their types; a recorded decision has a ruling.
THEOREM TypeCorrect == Spec => []TypeOK
<1>1. Init => TypeOK
  BY InitialTypes
<1> QED BY <1>1, TypeStep, PTL DEF Spec

-----------------------------------------------------------------------------
\* What makes the promises inductive: a review is shown only after _revealed was
\* set, and a rejection always has a veto that is still recorded.
ShownOnlyRevealed == shown # {} => revealed

RejectedIsVetoed ==
    \A p \in Proposals : decisions[p].status = "REJECTED" => VetoersOf(p) # {}

LEMMA ShownStep == ShownOnlyRevealed /\ [Next]_vars => ShownOnlyRevealed'
<1> SUFFICES ASSUME ShownOnlyRevealed, [Next]_vars PROVE ShownOnlyRevealed'
  OBVIOUS
<1> USE DEF ShownOnlyRevealed, submissions, verdicts
<1>1. ASSUME NEW p \in Proposals, NEW r \in Reviewers,
             CommitReview(p, r) \/ EditReview(p, r) \/ RecordVeto(p, r)
      PROVE  ShownOnlyRevealed'
  BY <1>1 DEF CommitReview, EditReview, RecordVeto
<1>2. ASSUME NEW reviewers \in SUBSET Reviewers, RevealAll(reviewers)
      PROVE  ShownOnlyRevealed'
  BY <1>2 DEF RevealAll
<1>3. ASSUME NEW p \in Proposals, Decide(p) \/ PersistDecision(p)
      PROVE  ShownOnlyRevealed'
  BY <1>3 DEF Decide, PersistDecision
<1>4. CASE UNCHANGED vars
  BY <1>4 DEF vars
<1> QED BY <1>1, <1>2, <1>3, <1>4 DEF Next

\* No call removes a veto.
LEMMA VetoesGrow == [Next]_vars => vetoes \subseteq vetoes'
<1> SUFFICES ASSUME [Next]_vars PROVE vetoes \subseteq vetoes'
  OBVIOUS
<1> USE DEF submissions, verdicts
<1>1. ASSUME NEW p \in Proposals, NEW r \in Reviewers,
             CommitReview(p, r) \/ EditReview(p, r) \/ RecordVeto(p, r)
      PROVE  vetoes \subseteq vetoes'
  BY <1>1 DEF CommitReview, EditReview, RecordVeto
<1>2. ASSUME NEW reviewers \in SUBSET Reviewers, RevealAll(reviewers)
      PROVE  vetoes \subseteq vetoes'
  BY <1>2 DEF RevealAll
<1>3. ASSUME NEW p \in Proposals, Decide(p) \/ PersistDecision(p)
      PROVE  vetoes \subseteq vetoes'
  BY <1>3 DEF Decide, PersistDecision
<1>4. CASE UNCHANGED vars
  BY <1>4 DEF vars
<1> QED BY <1>1, <1>2, <1>3, <1>4 DEF Next

\* Only decide() changes a decision, and it rejects whatever has a veto.
LEMMA DecisionsChange ==
  ASSUME TypeOK, [Next]_vars, NEW q \in Proposals
  PROVE  \/ decisions'[q] = decisions[q]
         \/ decisions'[q].status = (IF VetoersOf(q) = {} THEN "APPROVED" ELSE "REJECTED")
<1> DEFINE Goal == \/ decisions'[q] = decisions[q]
                   \/ decisions'[q].status = (IF VetoersOf(q) = {} THEN "APPROVED" ELSE "REJECTED")
<1> USE DEF submissions, verdicts
<1>1. ASSUME NEW p \in Proposals, NEW r \in Reviewers,
             CommitReview(p, r) \/ EditReview(p, r) \/ RecordVeto(p, r)
      PROVE  Goal
  BY <1>1 DEF CommitReview, EditReview, RecordVeto
<1>2. ASSUME NEW reviewers \in SUBSET Reviewers, RevealAll(reviewers)
      PROVE  Goal
  BY <1>2 DEF RevealAll
<1>3. ASSUME NEW p \in Proposals, Decide(p)
      PROVE  Goal
  <2>1. CASE p = q
    <3>1. decisions'[q] = [status  |-> IF VetoersOf(q) = {} THEN "APPROVED" ELSE "REJECTED",
                           vetoers |-> VetoersOf(q)]
      BY <1>3, <2>1 DEF Decide, TypeOK
    <3> QED BY <3>1
  <2>2. CASE p # q
    BY <1>3, <2>2 DEF Decide, TypeOK
  <2> QED BY <2>1, <2>2
<1>4. ASSUME NEW p \in Proposals, PersistDecision(p)
      PROVE  Goal
  BY <1>4 DEF PersistDecision
<1>5. CASE UNCHANGED vars
  BY <1>5 DEF vars
<1> QED BY <1>1, <1>2, <1>3, <1>4, <1>5 DEF Next

LEMMA RejectedStep == TypeOK /\ RejectedIsVetoed /\ [Next]_vars => RejectedIsVetoed'
<1> SUFFICES ASSUME TypeOK, RejectedIsVetoed, [Next]_vars,
                    NEW q \in Proposals, decisions'[q].status = "REJECTED"
             PROVE  VetoersOf(q)' # {}
  BY DEF RejectedIsVetoed
<1>1. VetoersOf(q) \subseteq VetoersOf(q)'
  BY VetoesGrow DEF VetoersOf
<1>2. VetoersOf(q) # {}
  <2>1. decisions[q].status = "REJECTED" => VetoersOf(q) # {}
    BY DEF RejectedIsVetoed
  <2> QED BY <2>1, DecisionsChange
<1> QED BY <1>1, <1>2

-----------------------------------------------------------------------------
\* From the first revealed review on no review is committed, anew or in place of
\* a hidden one (Governance.commit_review, reveal_all), in any order of calls.
THEOREM CommitmentsAreBinding == Spec => CommitmentsBind
<1>1. Init => ShownOnlyRevealed
  BY DEF Init, ShownOnlyRevealed
<1>2. ShownOnlyRevealed /\ [Next]_vars =>
        (shown # {} => UNCHANGED <<reviews, commits>> /\ shown \subseteq shown')
  <2> SUFFICES ASSUME ShownOnlyRevealed, [Next]_vars, shown # {}
               PROVE  UNCHANGED <<reviews, commits>> /\ shown \subseteq shown'
    OBVIOUS
  <2> USE DEF submissions, verdicts
  <2>1. ASSUME NEW p \in Proposals, NEW r \in Reviewers, CommitReview(p, r)
        PROVE  FALSE
    BY <2>1 DEF CommitReview, ShownOnlyRevealed
  <2>2. ASSUME NEW p \in Proposals, NEW r \in Reviewers,
               EditReview(p, r) \/ RecordVeto(p, r)
        PROVE  UNCHANGED <<reviews, commits>> /\ shown \subseteq shown'
    BY <2>2 DEF EditReview, RecordVeto
  <2>3. ASSUME NEW reviewers \in SUBSET Reviewers, RevealAll(reviewers)
        PROVE  UNCHANGED <<reviews, commits>> /\ shown \subseteq shown'
    BY <2>3 DEF RevealAll
  <2>4. ASSUME NEW p \in Proposals, Decide(p) \/ PersistDecision(p)
        PROVE  UNCHANGED <<reviews, commits>> /\ shown \subseteq shown'
    BY <2>4 DEF Decide, PersistDecision
  <2>5. CASE UNCHANGED vars
    BY <2>5 DEF vars
  <2> QED BY <2>1, <2>2, <2>3, <2>4, <2>5 DEF Next
<1> QED BY <1>1, <1>2, ShownStep, PTL DEF Spec, CommitmentsBind

\* A rejection is never turned into an approval, and a persisted decision is never
\* replaced (record_veto, decide, persist_decision), in any order of calls.
THEOREM DecisionsAreFinal == Spec => DecisionsStand
<1>1. Init => TypeOK /\ RejectedIsVetoed
  <2>1. Init => TypeOK
    BY InitialTypes
  <2>2. Undecided.status # "REJECTED"
    BY DEF Undecided
  <2> QED BY <2>1, <2>2 DEF Init, RejectedIsVetoed
<1>2. TypeOK /\ RejectedIsVetoed /\ [Next]_vars =>
        (\A p \in Proposals :
           /\ decisions[p].status = "REJECTED" => decisions'[p].status = "REJECTED"
           /\ onDisk[p] # "none" => onDisk'[p] = onDisk[p])
  <2> SUFFICES ASSUME TypeOK, RejectedIsVetoed, [Next]_vars, NEW q \in Proposals
               PROVE  /\ decisions[q].status = "REJECTED" => decisions'[q].status = "REJECTED"
                      /\ onDisk[q] # "none" => onDisk'[q] = onDisk[q]
    OBVIOUS
  <2>1. decisions[q].status = "REJECTED" => decisions'[q].status = "REJECTED"
    BY DecisionsChange DEF RejectedIsVetoed
  <2>2. onDisk[q] # "none" => onDisk'[q] = onDisk[q]
    <3> USE DEF submissions, verdicts
    <3>1. ASSUME NEW p \in Proposals, NEW r \in Reviewers,
                 CommitReview(p, r) \/ EditReview(p, r) \/ RecordVeto(p, r)
          PROVE  onDisk' = onDisk
      BY <3>1 DEF CommitReview, EditReview, RecordVeto
    <3>2. ASSUME NEW reviewers \in SUBSET Reviewers, RevealAll(reviewers)
          PROVE  onDisk' = onDisk
      BY <3>2 DEF RevealAll
    <3>3. ASSUME NEW p \in Proposals, Decide(p)
          PROVE  onDisk' = onDisk
      BY <3>3 DEF Decide
    <3>4. ASSUME NEW p \in Proposals, PersistDecision(p)
          PROVE  onDisk[q] # "none" => onDisk'[q] = onDisk[q]
      BY <3>4 DEF PersistDecision, TypeOK
    <3>5. CASE UNCHANGED vars
      BY <3>5 DEF vars
    <3> QED BY <3>1, <3>2, <3>3, <3>4, <3>5 DEF Next
  <2> QED BY <2>1, <2>2
<1> QED BY <1>1, <1>2, TypeStep, RejectedStep, PTL DEF Spec, DecisionsStand
=============================================================================
