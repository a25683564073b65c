----------------------------- MODULE MCOffload -----------------------------
(* Offload on a small instance.                                            *)
EXTENDS Offload

CONSTANTS depth, trade
MCStreams == {depth, trade}
=============================================================================
