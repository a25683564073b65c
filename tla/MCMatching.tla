----------------------------- MODULE MCMatching -----------------------------
(* Model values for TLC.                                                    *)
EXTENDS MatchingEngine, TLC

CONSTANTS o1, o2, o3, o4
MCIds == {o1, o2, o3, o4}
IdSymmetry == Permutations(MCIds)
=============================================================================
