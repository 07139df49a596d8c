---------------------------- MODULE MCTenantRuns ----------------------------
(* TenantRuns on small instances. *)
EXTENDS TenantRuns, TLC

CONSTANTS org1, org2, call1, call2, hash1, hash2, unset

MCOrgs == {org1, org2}
MCCalls == {call1, call2}
MCHashes == {hash1, hash2}
MCPeriods == {1, 2}
MCBoth == BOOLEAN
MCEnforced == {TRUE}
Symmetry == Permutations(MCOrgs) \cup Permutations(MCHashes) \cup Permutations(MCCalls)
=============================================================================
