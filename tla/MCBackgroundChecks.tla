------------------------- MODULE MCBackgroundChecks -------------------------
(* Members are interchangeable, and so are requests.                         *)
EXTENDS BackgroundChecks, TLC

MCSymmetry == Permutations(Members) \cup Permutations(Workers)
=============================================================================
