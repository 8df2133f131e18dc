---------------------------- MODULE MCAgentAccess ----------------------------
(* AgentAccess with two credentials for two machines, and two revocations     *)
(* that may be under way at the same time.                                    *)
EXTENDS AgentAccess, TLC

CONSTANTS m1, m2, c1, c2, r1, r2

AccessSymmetry ==
    Permutations(Machines) \cup Permutations(Credentials) \cup Permutations(Revocations)
=============================================================================
