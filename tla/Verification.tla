---------------------------- MODULE Verification ----------------------------
(***************************************************************************)
(* How verify_day brings the depth events of several recorders together:   *)
(* the id intervals each of them covers and the coverage of all, then the  *)
(* heap merge of their streams, in which adjacent duplicates are dropped   *)
(* and a conflicting one ends the verification, and the gaps that          *)
(* reconstruct() counts in what is left.  The book that is rebuilt from it *)
(* is module Reconstruct.                                                  *)
(*                                                                         *)
(* Receive times only order events of equal ids; here any of these may     *)
(* come first.  A list of intervals is a sequence of pairs.                *)
(***************************************************************************)
EXTENDS Integers, SequencesExt

CONSTANTS
    NumSources,     \* recorders, in the order of --input
    NumIds,         \* bound: update ids 1 .. NumIds
    MaxEvents,      \* bound: depth events of a source
    Updates,        \* what an event does to the levels
    None            \* no event, no id, no report

Source   == 1 .. NumSources
Id       == 1 .. NumIds
Interval == {i \in Id \X Id : i[1] <= i[2]}
Event    == [ids : Interval, updates : Updates]

ASSUME VerificationAssumption == /\ {NumSources, NumIds, MaxEvents} \subseteq Nat
                                 /\ None \notin Event /\ None \notin Id

VARIABLES
    files,      \* the depth events of each source, in the order of its files
    stage,      \* what verify_day does next
    report,     \* coverage: joint, and of each source
    next,       \* the event of each source that the heap holds
    previous,   \* the event deduplicate_depth yielded last
    merged,     \* what it has yielded
    highest,    \* previous_depth_u of reconstruct()
    gaps        \* sequence_gaps of reconstruct()

verifyVars == <<files, stage, report, next, previous, merged, highest, gaps>>

-----------------------------------------------------------------------------
(* Intervals.                                                               *)
Lower(a, b)  == IF a < b THEN a ELSE b
Higher(a, b) == IF a > b THEN a ELSE b

(* Slip: the later interval is taken to end later.                          *)
ExtendedToEnd(list, i) ==
    IF list = <<>> \/ i[1] > Last(list)[2] + 1
    THEN Append(list, i)
    ELSE [list EXCEPT ![Len(list)] = <<@[1], i[2]>>]

Extended(list, i) ==
    IF list = <<>> \/ i[1] > Last(list)[2] + 1
    THEN Append(list, i)
    ELSE [list EXCEPT ![Len(list)] = <<@[1], Higher(@[2], i[2])>>]

Merged(seq) ==
    LET list[n \in 0 .. Len(seq)] ==
            IF n = 0 THEN <<>> ELSE Extended(list[n - 1], seq[n])
    IN  list[Len(seq)]

(* _source_intervals: in the order of the file, and so as merge_intervals   *)
(* would only if the file is sorted.                                        *)
SourceIntervals(events) == Merged([n \in 1 .. Len(events) |-> events[n].ids])

Smaller(a, b) == a[1] < b[1] \/ (a[1] = b[1] /\ a[2] < b[2])

Ascending(intervals) ==
    CHOOSE seq \in [1 .. Cardinality(intervals) -> intervals] :
        \A m, n \in DOMAIN seq : m < n => Smaller(seq[m], seq[n])

MergeIntervals(intervals) == Merged(Ascending(intervals))

(* coverage_summary: the intervals clipped to the denominator d, the number *)
(* of ids in them, and the intervals between them.                          *)
Clipped(intervals, d) ==
    MergeIntervals({<<Higher(i[1], d[1]), Lower(i[2], d[2])>> :
                        i \in {i \in intervals : i[2] >= d[1] /\ i[1] <= d[2]}})

Covered(list) ==
    LET sum[n \in 0 .. Len(list)] ==
            IF n = 0 THEN 0 ELSE sum[n - 1] + list[n][2] - list[n][1] + 1
    IN  sum[Len(list)]

(* One iteration over the clipped intervals.                                *)
Passed(walk, i) ==
    [cursor  |-> Higher(walk.cursor, i[2] + 1),
     missing |-> IF i[1] > walk.cursor THEN Append(walk.missing, <<walk.cursor, i[1] - 1>>)
                                       ELSE walk.missing]

Walked(list, d) ==
    LET walk[n \in 0 .. Len(list)] ==
            IF n = 0 THEN [cursor |-> d[1], missing |-> <<>>]
                     ELSE Passed(walk[n - 1], list[n])
    IN  walk[Len(list)]

Missing(list, d) ==
    LET walk == Walked(list, d)
    IN  IF walk.cursor <= d[2] THEN Append(walk.missing, <<walk.cursor, d[2]>>)
                               ELSE walk.missing

Summary(list, d) ==
    LET clipped == Clipped(ToSet(MergeIntervals(ToSet(list))), d)
    IN  [covered |-> Covered(clipped), missing |-> Missing(clipped, d)]

-----------------------------------------------------------------------------
(* verify_day, for one symbol, on the files it finds.                       *)
VerifyInit ==
    /\ files \in [Source -> SeqOf(Event, MaxEvents)]
    /\ stage = "coverage" /\ report = None
    /\ next = [s \in Source |-> 1]
    /\ previous = None /\ merged = <<>>
    /\ highest = None /\ gaps = 0

Joint == MergeIntervals(UNION {ToSet(SourceIntervals(files[s])) : s \in Source})

(* Without any event there is no denominator, and the ratio is 0.           *)
Denominator == <<Head(Joint)[1], Last(Joint)[2]>>

MeasureCoverage ==
    /\ stage = "coverage" /\ Joint # <<>>
    /\ report' = [joint  |-> Summary(Joint, Denominator),
                  source |-> [s \in Source |-> Summary(SourceIntervals(files[s]), Denominator)]]
    /\ stage' = "merge"
    /\ UNCHANGED <<files, next, previous, merged, highest, gaps>>

NothingRecorded ==
    /\ stage = "coverage" /\ Joint = <<>>
    /\ stage' = "reported"
    /\ UNCHANGED <<files, report, next, previous, merged, highest, gaps>>

(* merge_sorted: the least of the events at the front of the sources.       *)
InHeap   == {s \in Source : next[s] <= Len(files[s])}
Offers(s) == files[s][next[s]]

(* Slip: the heap is ordered by the first id only.                          *)
LeastByFirst(s) ==
    \A t \in InHeap : Offers(s).ids[1] <= Offers(t).ids[1]

Least(s) == \A t \in InHeap : ~Smaller(Offers(t).ids, Offers(s).ids)

PoppedFrom(s) == s \in InHeap /\ Least(s) /\ next' = [next EXCEPT ![s] = @ + 1]

(* deduplicate_depth.                                                       *)
Repeats(e)   == previous # None /\ e.ids = previous.ids
Conflicts(e) == Repeats(e) /\ e.updates # previous.updates

DropDuplicate(s) ==
    /\ stage = "merge" /\ PoppedFrom(s)
    /\ Repeats(Offers(s)) /\ ~Conflicts(Offers(s))
    /\ UNCHANGED <<files, stage, report, previous, merged, highest, gaps>>

RaiseConflict(s) ==
    /\ stage = "merge" /\ PoppedFrom(s)
    /\ Conflicts(Offers(s))
    /\ stage' = "conflict"
    /\ UNCHANGED <<files, report, previous, merged, highest, gaps>>

(* The event goes on to reconstruct(), which counts the gap before it.      *)
(* Slip: the gap is looked for behind the last event, not the highest id.   *)
FollowsLast(e) == previous # None /\ e.ids[1] > previous.ids[2] + 1

FollowsGap(e) == highest # None /\ e.ids[1] > highest + 1

Yield(s) ==
    LET e == Offers(s)
    IN  /\ stage = "merge" /\ PoppedFrom(s)
        /\ ~Repeats(e)
        /\ previous' = e /\ merged' = Append(merged, e)
        /\ gaps' = IF FollowsGap(e) THEN gaps + 1 ELSE gaps
        /\ highest' = IF highest = None THEN e.ids[2] ELSE Higher(highest, e.ids[2])
        /\ UNCHANGED <<files, stage, report>>

WriteReport ==
    /\ stage = "merge" /\ InHeap = {}
    /\ stage' = "reported"
    /\ UNCHANGED <<files, report, next, previous, merged, highest, gaps>>

VerifyNext ==
    \/ MeasureCoverage \/ NothingRecorded
    \/ \E s \in Source : DropDuplicate(s) \/ RaiseConflict(s) \/ Yield(s)
    \/ WriteReport

VerifySpec == VerifyInit /\ [][VerifyNext]_verifyVars

-----------------------------------------------------------------------------
(* What the files hold.                                                     *)
EventsOf(s) == ToSet(files[s])
AllEvents   == UNION {EventsOf(s) : s \in Source}
IdsOf(events) == UNION {e.ids[1] .. e.ids[2] : e \in events}

Sorted(s) ==
    \A i, j \in DOMAIN files[s] : i < j => ~Smaller(files[s][j].ids, files[s][i].ids)
AllSorted == \A s \in Source : Sorted(s)

Listed(list) == UNION {list[i][1] .. list[i][2] : i \in DOMAIN list}
Apart(list)  == \A i, j \in DOMAIN list : i < j => list[j][1] > list[i][2] + 1

(* The summary of the events' ids within the joint range.                   *)
Describes(summary, events) ==
    LET range == Denominator[1] .. Denominator[2]
    IN  /\ Listed(summary.missing) = range \ IdsOf(events)
        /\ summary.covered = Cardinality(range \cap IdsOf(events))
        /\ Apart(summary.missing)

(* Of sorted files the report gives the ids that no event carries, jointly  *)
(* and for each recorder, as maximal intervals (verify_day,                 *)
(* coverage_summary).  Of files in any order it may miss ids, but never     *)
(* counts one that no event carries.                                        *)
CoverageHolds ==
    report # None =>
        /\ AllSorted => /\ Describes(report.joint, AllEvents)
                        /\ \A s \in Source : Describes(report.source[s], EventsOf(s))
        /\ (Denominator[1] .. Denominator[2]) \ Listed(report.joint.missing) \subseteq IdsOf(AllEvents)

(* If every recorder's files are sorted, a report is written exactly when   *)
(* no two events of equal ids, wherever they are, differ in their updates   *)
(* (merge_sorted and deduplicate_depth, which sees only neighbours).        *)
ConflictsFound ==
    AllSorted =>
        LET conflict == \E d, e \in AllEvents : d.ids = e.ids /\ d.updates # e.updates
        IN  /\ stage = "conflict" => conflict
            /\ stage = "reported" => ~conflict

(* The two halves of a report agree, in whatever order the events are in    *)
(* the files: the gaps that the rebuilding of the merged stream counts are  *)
(* the intervals missing from the joint coverage, and every event recorded  *)
(* has got there (_source_intervals, coverage_summary; merge_sorted,        *)
(* reconstruct).                                                            *)
GapsMatchCoverage ==
    stage = "reported" =>
        /\ ToSet(merged) = AllEvents
        /\ report # None => gaps = Len(report.joint.missing)

=============================================================================
