----------------------------- MODULE Governance -----------------------------
(***************************************************************************)
(* Commit/reveal reviews, vetoes and decisions of one cycle                *)
(* (src/chia_work/council/governance.py).  One Governance object serves    *)
(* several proposals and is driven by its caller in any order the class    *)
(* accepts; calls that raise without changing anything have no action.     *)
(* Of a review only this is kept: that it was committed, that its content  *)
(* still matches the digest it was committed with, that it was revealed.   *)
(***************************************************************************)
EXTENDS Naturals, FiniteSets

CONSTANTS
    Proposals, Reviewers,
    MaxCommits      \* bound: accepted calls of commit_review

ASSUME GovernanceAssumption ==
    Proposals # {} /\ Reviewers # {} /\ MaxCommits \in Nat

VARIABLES
    reviews,    \* _reviews: <<proposal, reviewer>> of the stored reviews
    edited,     \* those whose content no longer matches their digest
    shown,      \* those with revealed = True
    revealed,   \* _revealed
    vetoes,     \* _vetoes: <<proposal, vetoer>>
    decisions,  \* _decisions, by proposal
    onDisk,     \* status in the persisted decision artifact, by proposal
    commits     \* ghost: accepted calls of commit_review, the replacing ones included

submissions == <<reviews, edited, shown, commits>>
verdicts == <<vetoes, decisions, onDisk>>
vars == <<submissions, revealed, verdicts>>

Keys == Proposals \X Reviewers

Undecided == [status |-> "none", vetoers |-> {}]

\* The valid vetoes; record_veto makes no other.
VetoersOf(p) == {r \in Reviewers : <<p, r>> \in vetoes}

Init ==
    /\ reviews = {} /\ edited = {} /\ shown = {}
    /\ revealed = FALSE
    /\ vetoes = {}
    /\ decisions = [p \in Proposals |-> Undecided]
    /\ onDisk = [p \in Proposals |-> "none"]
    /\ commits = 0

\* Mutant of CommitReview: after the reveal a review that is still hidden may
\* be committed again.
ReplacesHidden(p, r) ==
    /\ ~revealed \/ <<p, r>> \in reviews \ shown
    /\ commits < MaxCommits /\ commits' = commits + 1
    /\ reviews' = reviews \cup {<<p, r>>}
    /\ edited' = edited \ {<<p, r>>}
    /\ UNCHANGED <<shown, revealed, verdicts>>

\* A second commit by a reviewer replaces the first while commits are open.
CommitReview(p, r) ==
    /\ ~revealed
    /\ commits < MaxCommits /\ commits' = commits + 1
    /\ reviews' = reviews \cup {<<p, r>>}
    /\ edited' = edited \ {<<p, r>>}
    /\ shown' = shown \ {<<p, r>>}
    /\ UNCHANGED <<revealed, verdicts>>

\* commit_review returns the stored object itself, so that its holder can
\* still change it, and change it back; reveal_all is what would notice.
EditReview(p, r) ==
    /\ <<p, r>> \in reviews
    /\ edited' = IF <<p, r>> \in edited THEN edited \ {<<p, r>>} ELSE edited \cup {<<p, r>>}
    /\ UNCHANGED <<reviews, shown, commits, revealed, verdicts>>

\* The set of reviewers is compared over all proposals together.  _revealed is
\* set before the digests are checked: a mismatch raises in the middle of the
\* loop, when some of the intact reviews are already marked as revealed.
RevealAll(reviewers) ==
    /\ {k[2] : k \in reviews} = reviewers
    /\ revealed' = TRUE
    /\ \E done \in IF edited = {} THEN {reviews} ELSE SUBSET (reviews \ edited) :
          shown' = shown \cup done
    /\ UNCHANGED <<reviews, edited, commits, verdicts>>

\* Mutant of RecordVeto: only the last veto is kept.
KeepsLastVeto(p, r) ==
    /\ vetoes' = {<<p, r>>}
    /\ UNCHANGED <<submissions, revealed, decisions, onDisk>>

\* With the capability to veto; without it the call raises.
RecordVeto(p, r) ==
    /\ vetoes' = vetoes \cup {<<p, r>>}
    /\ UNCHANGED <<submissions, revealed, decisions, onDisk>>

Decide(p) ==
    /\ revealed
    /\ decisions' = [decisions EXCEPT ![p] =
          [status |-> IF VetoersOf(p) = {} THEN "APPROVED" ELSE "REJECTED",
           vetoers |-> VetoersOf(p)]]
    /\ UNCHANGED <<submissions, revealed, vetoes, onDisk>>

\* Mutant of PersistDecision: the artifact follows the last decision.
RewritesDecision(p) ==
    /\ decisions[p] # Undecided
    /\ onDisk' = [onDisk EXCEPT ![p] = decisions[p].status]
    /\ UNCHANGED <<submissions, revealed, vetoes, decisions>>

\* The decision record is written once; a second write is refused.
PersistDecision(p) ==
    /\ decisions[p] # Undecided /\ onDisk[p] = "none"
    /\ onDisk' = [onDisk EXCEPT ![p] = decisions[p].status]
    /\ UNCHANGED <<submissions, revealed, vetoes, decisions>>

Next ==
    \/ \E p \in Proposals, r \in Reviewers :
          CommitReview(p, r) \/ EditReview(p, r) \/ RecordVeto(p, r)
    \/ \E reviewers \in SUBSET Reviewers : RevealAll(reviewers)
    \/ \E p \in Proposals : Decide(p) \/ PersistDecision(p)

Spec == Init /\ [][Next]_vars
-----------------------------------------------------------------------------
\* Type invariant of the module.
TypeOK ==
    /\ reviews \subseteq Keys /\ edited \subseteq reviews /\ shown \subseteq reviews
    /\ revealed \in BOOLEAN
    /\ vetoes \subseteq Keys
    /\ decisions \in [Proposals -> {Undecided} \cup
                         [status : {"APPROVED", "REJECTED"}, vetoers : SUBSET Reviewers]]
    /\ onDisk \in [Proposals -> {"none", "APPROVED", "REJECTED"}]
    /\ commits \in 0..MaxCommits

\* "review commit phase is closed" (governance.py:33): once one review was
\* shown, commit_review accepts no review, neither a new one nor another one in
\* place of one that is still hidden, as after a reveal that raised half way;
\* and what was shown stays shown.
CommitmentsBind ==
    [][shown # {} => UNCHANGED <<reviews, commits>> /\ shown \subseteq shown']_vars

\* A veto "forces rejection and cannot be removed" (tests/test_veto.py:17): no
\* sequence of vetoes and repeated decisions, for a proposal or for others,
\* turns its rejection into an approval; and what was persisted as the decision
\* is never replaced, even when a later veto makes decide() answer differently.
DecisionsStand ==
    [][\A p \in Proposals :
         /\ decisions[p].status = "REJECTED" => decisions'[p].status = "REJECTED"
         /\ onDisk[p] # "none" => onDisk'[p] = onDisk[p]]_vars

\* governance.py:66, "cannot decide before reveal": a decision is made only
\* when every committed review has been revealed.
DecidedAfterReveal ==
    \A p \in Proposals : decisions[p] # Undecided => shown = reviews
=============================================================================
