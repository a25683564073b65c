--------------------------- MODULE ReferenceReplay ---------------------------
(***************************************************************************)
(* ReferenceReplay of counterback_replay/export.py: the Python controller  *)
(* whose checkpoints an export carries along, and which the C++ engine's   *)
(* are compared with field by field.  Integers are unbounded.  It differs  *)
(* from verify.reconstruct (module Reconstruct) in what it reports: the    *)
(* status of every event and the lists of gaps and invalid intervals.      *)
(*                                                                         *)
(* As there, the levels decide in any way whether a book is crossed, or    *)
(* trusted on both sides.  Updates are compared as text, before they are   *)
(* converted to integers; an event whose numbers cannot be converted ends  *)
(* the export before it comes here.                                        *)
(***************************************************************************)
EXTENDS Integers, Sequences

CONSTANTS
    Id, Updates, Times,     \* what an event consists of; Updates: its text
    MaxSnapshots,           \* bound: length of the snapshot list
    NoId, NoEvent           \* Python's None

Event    == [first : Id, final : Id, rx : Times, updates : Updates]
Snapshot == [id : Id, sound : BOOLEAN]

VARIABLES
    snapshots, index,       \* index: how many of the snapshots are passed
    previous, book, status,
    last,                   \* stats: last_depth_update_id
    segments, sequenceGaps, errors,
    trusted, invalid, gaps  \* stats: lists of intervals

lists == <<trusted, invalid, gaps>>
stats == <<last, segments, sequenceGaps, errors, lists>>
vars  == <<snapshots, index, previous, book, status, stats>>

Init ==
    /\ snapshots \in UNION {[1 .. n -> Snapshot] : n \in 0 .. MaxSnapshots}
    /\ index = 0
    /\ previous = NoEvent /\ book = NoId /\ status = "unanchored"
    /\ last = NoId /\ segments = 0 /\ sequenceGaps = 0 /\ errors = 0
    /\ trusted = <<>> /\ invalid = <<>> /\ gaps = <<>>

(* _append.                                                                 *)
With(list, x, y) ==
    LET end == list[Len(list)].last
    IN  IF list = <<>> \/ x > end + 1
        THEN Append(list, [first |-> x, last |-> y])
        ELSE [list EXCEPT ![Len(list)].last = IF y > end THEN y ELSE end]

-----------------------------------------------------------------------------
(* What makes apply() raise, which ends the export.                         *)
KeyBelow(d, e) == \/ d.first < e.first
                  \/ d.first = e.first /\ d.final < e.final
                  \/ d.first = e.first /\ d.final = e.final /\ d.rx < e.rx

Unsorted(e) == previous # NoEvent /\ KeyBelow(e, previous)

Repeats(e) == /\ previous # NoEvent
              /\ <<e.first, e.final>> = <<previous.first, previous.final>>

Refuses(e) ==
    e.first > e.final \/ Unsorted(e) \/ (Repeats(e) /\ e.updates # previous.updates)

Raise(e) ==
    /\ status' = "rejected"
    /\ Refuses(e)
    /\ UNCHANGED <<snapshots, index, previous, book, stats>>

Repeat(e) ==
    /\ status' = "duplicate"
    /\ e.first <= e.final /\ ~Unsorted(e) /\ Repeats(e) /\ e.updates = previous.updates
    /\ UNCHANGED <<snapshots, index, book, stats>>

-----------------------------------------------------------------------------
(* Any other event.  The cursor passes the snapshots that end before it;    *)
(* the last of these that bridges it is a new start.                        *)
Passed(e) ==
    CHOOSE n \in index .. Len(snapshots) :
        /\ \A i \in index + 1 .. n : snapshots[i].id < e.final
        /\ n < Len(snapshots) => snapshots[n + 1].id >= e.final

Bridges(e) ==
    {i \in index + 1 .. Passed(e) : snapshots[i].id + 1 \in e.first .. e.final}

Bridge(e) == snapshots[CHOOSE i \in Bridges(e) : \A j \in Bridges(e) : j <= i]
Broken(e) == Bridges(e) # {} /\ ~Bridge(e).sound
Start(e)  == IF Bridges(e) = {} THEN book ELSE Bridge(e).id

StatusOf(e, crossed) ==
    IF      Broken(e)              THEN "structural_error"
    ELSE IF Start(e) = NoId        THEN "unanchored"
    ELSE IF e.final <= Start(e)    THEN "stale"
    ELSE IF e.first > Start(e) + 1 THEN "gap"
    ELSE IF crossed                THEN "structural_error"
                                   ELSE "applied"

FollowsGap(e) == last # NoId /\ e.first > last + 1

Skipped(list, e) == IF FollowsGap(e) THEN With(list, last + 1, e.first - 1) ELSE list

Apply(e, crossed, top) ==
    LET s == StatusOf(e, crossed)
        anchored == Bridges(e) # {} /\ ~Broken(e)
        usable   == s = "applied" /\ top
    IN  /\ status' = s
        /\ e.first <= e.final /\ ~Unsorted(e) /\ ~Repeats(e)
        /\ sequenceGaps' = IF FollowsGap(e) THEN sequenceGaps + 1 ELSE sequenceGaps
        /\ gaps' = Skipped(gaps, e)
        /\ last' = IF last = NoId \/ e.final > last THEN e.final ELSE last
        /\ index' = Passed(e)
        /\ segments' = IF anchored THEN segments + 1 ELSE segments
        /\ errors' = IF s = "structural_error" THEN errors + 1 ELSE errors
        /\ book' = IF s = "stale" THEN Start(e)
                   ELSE IF s = "applied" THEN e.final ELSE NoId
        /\ trusted' = IF usable THEN With(trusted, e.first, e.final) ELSE trusted
        /\ invalid' = IF usable \/ s = "stale" THEN Skipped(invalid, e)
                      ELSE With(Skipped(invalid, e), e.first, e.final)
        /\ UNCHANGED snapshots

Read(e) == previous' = e /\ (Repeat(e) \/ \E crossed, top \in BOOLEAN : Apply(e, crossed, top))

Next ==
    /\ status # "rejected"
    /\ (previous' \in Event /\ Read(previous')) \/ \E e \in Event : Raise(e)

Spec == Init /\ [][Next]_vars
=============================================================================
