-------------------------- MODULE MCUsageAllowance --------------------------
(* Two plans, with one and with two units of included usage.                 *)
EXTENDS UsageAllowance, TLC

CONSTANTS basic, plus

MCIncluded == [k \in Skus |-> IF k = basic THEN 1 ELSE 2]
MCSymmetry == Permutations(Sources)
=============================================================================
