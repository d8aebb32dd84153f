------------------------- MODULE MCApprovalWorkflow -------------------------
(* ApprovalWorkflow for TLC: one proposal, and enough requests to take it   *)
(* through its three approvals with one more racing against each of them.   *)
EXTENDS ApprovalWorkflow, TLC

RequestSymmetry == Permutations(Requests)
=============================================================================
