------------------------------ MODULE MCReplay ------------------------------
(* Model values for TLC.                                                    *)
EXTENDS Replay, TLC

(* Two numbers, each in two spellings: x and xx are one, y and yy the other.*)
CONSTANTS x, xx, y, yy
MCUpdates == {x, xx, y, yy}
MCUnits == x :> 1 @@ xx :> 1 @@ y :> 2 @@ yy :> 2

(* The permutations that take two spellings of a number to two of a number. *)
UpdatesSymmetry ==
    {p \in Permutations(MCUpdates) :
        \A t, u \in MCUpdates : MCUnits[t] = MCUnits[u] => MCUnits[p[t]] = MCUnits[p[u]]}
=============================================================================
