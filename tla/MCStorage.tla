----------------------------- MODULE MCStorage -----------------------------
(* Model values and bounds for TLC.                                         *)
EXTENDS Storage, TLC

CONSTANTS depth, trade

MCStreams == {depth, trade}
StreamSymmetry == Permutations(MCStreams)

OneStream == {depth}
AllStages == Stage
(* Every stage but the one between the rename and the unlink.               *)
StagesBeforeUnlink == Stage \ {"unlink"}
=============================================================================
