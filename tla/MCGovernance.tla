---------------------------- MODULE MCGovernance ----------------------------
(* Instances of Governance for TLC. *)
EXTENDS Governance, TLC

\* Proposals and reviewers are interchangeable in every action and property.
MCSymmetry == Permutations(Proposals) \cup Permutations(Reviewers)
=============================================================================
