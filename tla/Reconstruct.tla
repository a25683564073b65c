---------------------------- MODULE Reconstruct ----------------------------
(***************************************************************************)
(* verify.reconstruct: the Python verifier's rebuilding of the order book  *)
(* from one symbol's depth events and snapshots, with Python's unbounded   *)
(* integers.  It reads a stream without duplicates and keeps no record of  *)
(* what it could not use: only the ids whose book was trusted.             *)
(*                                                                         *)
(* What levels an event carries is left out: whether the book it leaves is *)
(* trusted on both sides, or crossed, may turn out any way.  The check     *)
(* against the ticker stream changes nothing here and is left out too.     *)
(***************************************************************************)
EXTENDS Integers, Sequences, FiniteSetsExt

CONSTANTS
    Id,             \* the update ids
    NoId,           \* Python's None
    MaxSnapshots    \* bound: length of the snapshot list

(* A snapshot is sound when HorizonBook accepts it: both sides present.     *)
Snapshot == [id : Id, sound : BOOLEAN]

VARIABLES
    snapshots,      \* the concatenated lists of the sources
    index,          \* how many of them the forward cursor has passed
    book,           \* last_update_id of the book, or NoId without a book
    last,           \* previous_depth_u
    segments, sequenceGaps, errors,
    trusted         \* the ids of the merged trusted_intervals

reconstruction == <<index, book, last, segments, sequenceGaps, errors, trusted>>
vars == <<snapshots, reconstruction>>

Init == /\ snapshots \in UNION {[1 .. n -> Snapshot] : n \in 0 .. MaxSnapshots}
        /\ index = 0
        /\ book = NoId /\ last = NoId
        /\ segments = 0 /\ sequenceGaps = 0 /\ errors = 0
        /\ trusted = {}

IsGap(first) == last # NoId /\ first > last + 1

(* The snapshots the cursor passes, and those of them that bridge the event *)
Passed(final, n) ==
    /\ n \in index .. Len(snapshots)
    /\ \A i \in index + 1 .. n : snapshots[i].id < final
    /\ n < Len(snapshots) => snapshots[n + 1].id >= final

Bridging(first, final, n) ==
    {i \in index + 1 .. n : first <= snapshots[i].id + 1 /\ snapshots[i].id + 1 <= final}

(* One pass of the loop.  `crossed` and `top` are what the levels decide.   *)
Process(first, final, crossed, top) ==
    /\ sequenceGaps' = IF IsGap(first) THEN sequenceGaps + 1 ELSE sequenceGaps
    /\ last' = IF last = NoId \/ final > last THEN final ELSE last
    /\ \E n \in 0 .. Len(snapshots) :
        /\ Passed(final, n)
        /\ index' = n
        /\ LET found  == Bridging(first, final, n)
               bridge == snapshots[Max(found)]
               broken == found # {} /\ ~bridge.sound
               start  == IF found = {} THEN book ELSE bridge.id
               stale  == start # NoId /\ final <= start
               usable == ~broken /\ start # NoId /\ ~stale /\ first <= start + 1
           IN /\ segments' = IF found # {} /\ ~broken THEN segments + 1 ELSE segments
              /\ errors' = IF broken \/ (usable /\ crossed) THEN errors + 1 ELSE errors
              /\ book' = IF ~broken /\ stale THEN start
                         ELSE IF usable /\ ~crossed THEN final ELSE NoId
              /\ trusted' = IF usable /\ ~crossed /\ top THEN trusted \cup (first .. final)
                                                         ELSE trusted
    /\ UNCHANGED snapshots

Next == \E first, final \in Id : first <= final
            /\ \E crossed, top \in BOOLEAN : Process(first, final, crossed, top)

Spec == Init /\ [][Next]_vars
=============================================================================
