----------------------------- MODULE MCEvidence -----------------------------
(* Evidence on a small instance.                                           *)
EXTENDS Evidence

CONSTANTS v1, v2, e1, e2, c1, c2
MCVerifications == {v1, v2}
MCExports == {e1, e2}
MCContents == {c1, c2}
EvidenceSymmetry == Permutations(MCVerifications) \cup Permutations(MCExports)
                    \cup Permutations(MCContents)
=============================================================================
