-------------------------- MODULE MCGovernanceJobs --------------------------
(* Model-checking instances of GovernanceJobs.                             *)
EXTENDS GovernanceJobs, TLC

Symmetry == Permutations(Keys) \cup Permutations(Workers)
=============================================================================
