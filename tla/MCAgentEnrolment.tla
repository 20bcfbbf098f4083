-------------------------- MODULE MCAgentEnrolment --------------------------
EXTENDS AgentEnrolment, TLC
CONSTANTS a1, a2, o1
MCAdminOrg == (a1 :> NoOrg) @@ (a2 :> o1)
MCSymmetry == Permutations(Keys) \cup Permutations(Endpoints)
=============================================================================
