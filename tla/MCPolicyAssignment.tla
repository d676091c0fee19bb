-------------------------- MODULE MCPolicyAssignment --------------------------
(* Two users, two virtual machines of which one has two volumes, one name and *)
(* a managed application with two placements.                                 *)
EXTENDS PolicyAssignment

CONSTANTS v1, v2, a, b, c

MCVM == {v1, v2}
MCPVC == {a, b, c}
MCVolumes == [v \in MCVM |-> IF v = v1 THEN {a, b} ELSE {c}]
=============================================================================
