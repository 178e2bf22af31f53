-------------------------- MODULE MCPolicyApproval --------------------------
(* Contents, approvers, employees, version ids and requests are            *)
(* interchangeable: the properties are invariants and action properties.   *)
EXTENDS PolicyApproval, TLC

Symmetry == Permutations(Ids) \cup Permutations(Contents)
              \cup Permutations(Workers) \cup Permutations(Employees)
              \cup Permutations(Approvers)
=============================================================================
