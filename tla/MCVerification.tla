-------------------------- MODULE MCVerification --------------------------
(* Verification on small instances.                                        *)
EXTENDS Verification

CONSTANTS a, b
MCUpdates == {a, b}
UpdatesSymmetry == Permutations(MCUpdates)
=============================================================================
