------------------------- MODULE MCAdaptiveDetector -------------------------
(* An instance of AdaptiveDetector for TLC.                                *)
EXTENDS AdaptiveDetector, TLC

CONSTANTS s1, s2, p1, o1, o2

Sym == Permutations(Signatures) \cup Permutations(Shapes) \cup Permutations(Observers)
=============================================================================
