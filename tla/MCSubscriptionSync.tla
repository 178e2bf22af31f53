------------------------ MODULE MCSubscriptionSync ------------------------
(* Two plans of one product, the first with one unit of included usage and *)
(* the second with two.                                                    *)
EXTENDS SubscriptionSync, TLC

CONSTANTS basic, plus

MCIncluded == [k \in Skus |-> IF k = basic THEN 1 ELSE 2]
MCSymmetry == Permutations(Items) \cup Permutations(Workers)
===========================================================================
