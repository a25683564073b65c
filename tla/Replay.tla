------------------------------- MODULE Replay -------------------------------
(***************************************************************************)
(* ReplayEngine::apply, the C++ controller that replays the exported depth *)
(* stream of one symbol: duplicates, sequence gaps, the forward cursor     *)
(* over the snapshots, anchoring, and the three lists of id intervals.     *)
(* Update ids are unsigned words: 0 .. MaxId, with wrap-around.  They are  *)
(* what the controller decides by; what an event does to the levels is     *)
(* left open (Applied and ApplyFails).                                     *)
(***************************************************************************)
EXTENDS Integers, Sequences

CONSTANTS
    MaxId,          \* UINT64_MAX
    Updates,        \* what an event's bids and asks can be, as the recorder's text
    Units,          \* the integers that the export writes for each of them
    Times,          \* rx_utc_ns
    MaxSnapshots,   \* bound: length of the snapshot list
    MaxEvents,      \* bound: events replayed
    NoId,           \* an empty optional id
    NoEvent         \* an empty optional event

Id       == 0 .. MaxId
Event    == [first : Id, final : Id, rx : Times, updates : Updates]
Snapshot == [id : Id, sound : BOOLEAN]  \* sound: both sides are present
Interval == {i \in [first : Id, last : Id] : i.first <= i.last}

ASSUME MaxIdAssumption == MaxId \in Nat
ASSUME TimesAssumption == Times \subseteq Nat
ASSUME BoundsAssumption == MaxSnapshots \in Nat /\ MaxEvents \in Nat
ASSUME SentinelAssumption == NoId \notin Nat /\ NoEvent \notin Event

VARIABLES
    snapshots,      \* the snapshots in the order of the sources
    cursor,         \* snapshot_index_, counted from 1
    previous,       \* previous_
    book,           \* book_->last_update_id(), or NoId without a book
    status,
    \* stats_
    events, lastId, segments, sequenceGaps, errors,
    trusted, invalid, gaps

stats == <<events, lastId, segments, sequenceGaps, errors, trusted, invalid, gaps>>
vars  == <<snapshots, cursor, previous, book, status, stats>>

TypeOK ==
    /\ snapshots \in Seq(Snapshot)
    /\ cursor \in 1 .. Len(snapshots) + 1
    /\ previous \in Event \cup {NoEvent}
    /\ book \in Id \cup {NoId}
    /\ status \in {"unanchored", "duplicate", "structural_error", "stale", "gap",
                   "applied", "rejected"}
    /\ events \in Nat /\ segments \in Nat /\ sequenceGaps \in Nat /\ errors \in Nat
    /\ lastId \in Id \cup {NoId}
    /\ trusted \in Seq(Interval) /\ invalid \in Seq(Interval) /\ gaps \in Seq(Interval)

Init ==
    /\ snapshots \in UNION {[1 .. n -> Snapshot] : n \in 0 .. MaxSnapshots}
    /\ cursor = 1
    /\ previous = NoEvent /\ book = NoId /\ status = "unanchored"
    /\ events = 0 /\ lastId = NoId
    /\ segments = 0 /\ sequenceGaps = 0 /\ errors = 0
    /\ trusted = <<>> /\ invalid = <<>> /\ gaps = <<>>

-----------------------------------------------------------------------------
(* Unsigned arithmetic.                                                     *)
Plus1(x)    == IF x = MaxId THEN 0 ELSE x + 1
Minus(x, y) == IF x >= y THEN x - y ELSE MaxId + 1 + x - y

(* Slip: the comparison adds, and wraps.                                    *)
BeyondWrapped(x, y) == x > Plus1(y)

(* Slip: a successor counts as a gap.                                       *)
After(x, y) == x > y

(* x is not y, nor y's successor, but after it.                             *)
Beyond(x, y) == x > y /\ Minus(x, y) > 1

(* interval(): put the ids x .. y at the end of a list of intervals.        *)
(* Slip: the new interval's end replaces the old one's.                     *)
Replaced(i, y) == [first |-> i.first, last |-> y]

Extended(i, y) == [first |-> i.first, last |-> IF y > i.last THEN y ELSE i.last]

StartsNew(list, x) == list = <<>> \/ Beyond(x, list[Len(list)].last)

With(list, x, y) ==
    IF StartsNew(list, x) THEN Append(list, [first |-> x, last |-> y])
                          ELSE [list EXCEPT ![Len(list)] = Extended(@, y)]

-----------------------------------------------------------------------------
(* The checks before anything is counted.                                   *)
Precedes(d, e) == \/ d.first < e.first
                  \/ d.first = e.first /\ d.final < e.final
                  \/ d.first = e.first /\ d.final = e.final /\ d.rx < e.rx

(* Slip: the stream is taken to be sorted.                                  *)
AnyOrder(e) == e.first <= e.final

InOrder(e) == e.first <= e.final /\ (previous # NoEvent => ~Precedes(e, previous))

SameRange(e) == /\ previous # NoEvent
                /\ e.first = previous.first /\ e.final = previous.final

Replaying == status # "rejected" /\ events < MaxEvents

(* Slip: only the range of ids is compared.                                 *)
AnyUpdates(e) == TRUE

(* The engine reads the export's integers: `100` and `100.0` are the same.  *)
SameUpdates(e) == Units[e.updates] = Units[previous.updates]

(* An event for which apply() throws, counted or not; the program ends.     *)
Refused == {e \in Event : ~InOrder(e) \/ (SameRange(e) /\ ~SameUpdates(e))}

Reject ==
    /\ Replaying
    /\ events' \in {IF InOrder(e) THEN events + 1 ELSE events : e \in Refused}
    /\ status' = "rejected"
    /\ UNCHANGED <<snapshots, cursor, previous, book, lastId, segments, sequenceGaps,
                   errors, trusted, invalid, gaps>>

Duplicate(e) ==
    /\ Replaying /\ InOrder(e) /\ SameRange(e) /\ SameUpdates(e)
    /\ previous' = e
    /\ status' = "duplicate"
    /\ events' = events + 1
    /\ UNCHANGED <<snapshots, cursor, book, lastId, segments, sequenceGaps, errors,
                   trusted, invalid, gaps>>

-----------------------------------------------------------------------------
(* The ids between the stream so far and the event are missing.             *)
IsGap(e) == lastId # NoId /\ Beyond(e.first, lastId)

WithMissing(list, e) ==
    IF IsGap(e) THEN With(list, Plus1(lastId), e.first - 1) ELSE list

(* Slip: the last event's end is kept, not the greatest.                    *)
LastOfEvent(e) == e.final

GreatestId(e) == IF lastId = NoId \/ e.final > lastId THEN e.final ELSE lastId

(* The cursor stops at c: it passes the snapshots older than the event's    *)
(* end, whether they bridge it or not.                                      *)
(* Slip: a snapshot at the event's end is passed too.                       *)
StopsAfter(e, c) ==
    /\ \A i \in cursor .. c - 1 : snapshots[i].id <= e.final
    /\ c <= Len(snapshots) => snapshots[c].id > e.final

(* Slip: at most one snapshot is passed.                                    *)
StopsAfterOne(e, c) ==
    c = IF cursor <= Len(snapshots) /\ snapshots[cursor].id < e.final
          THEN cursor + 1 ELSE cursor

StopsAt(e, c) ==
    /\ \A i \in cursor .. c - 1 : snapshots[i].id < e.final
    /\ c <= Len(snapshots) => snapshots[c].id >= e.final

(* Slip: every snapshot passed is taken for a bridge.                       *)
PassedBy(e, c) == cursor .. c - 1

BridgesOf(e, c) ==
    {i \in cursor .. c - 1 : e.first <= Plus1(snapshots[i].id)
                             /\ Plus1(snapshots[i].id) <= e.final}

(* The last one that bridges the event, or 0.                               *)
IsBridge(b, e, c) ==
    LET found == BridgesOf(e, c)
    IN  IF found = {} THEN b = 0 ELSE b \in found /\ \A i \in found : i <= b

(* The part of apply() that every event that is no duplicate goes through.  *)
Receive(e, c, b) ==
    /\ StopsAt(e, c) /\ IsBridge(b, e, c)
    /\ events' = events + 1
    /\ previous' = e
    /\ sequenceGaps' = IF IsGap(e) THEN sequenceGaps + 1 ELSE sequenceGaps
    /\ gaps' = WithMissing(gaps, e)
    /\ lastId' = GreatestId(e)
    /\ cursor' = c
    /\ UNCHANGED snapshots

Loads(b) == b # 0 /\ snapshots[b].sound
Anchor(b) == IF b = 0 THEN book ELSE snapshots[b].id

Invalidate(e) == /\ invalid' = With(WithMissing(invalid, e), e.first, e.final)
                 /\ UNCHANGED trusted

(* HistoricalBook refuses the bridging snapshot.                            *)
BadSnapshot(e, b) ==
    /\ b # 0 /\ ~Loads(b)
    /\ book' = NoId
    /\ errors' = errors + 1
    /\ Invalidate(e)
    /\ status' = "structural_error"
    /\ UNCHANGED segments

Anchored(b) ==
    /\ b # 0 => Loads(b)
    /\ segments' = IF Loads(b) THEN segments + 1 ELSE segments

Unanchored(e, b) ==
    /\ Anchored(b) /\ Anchor(b) = NoId
    /\ Invalidate(e)
    /\ status' = "unanchored"
    /\ UNCHANGED <<book, errors>>

Stale(e, b) ==
    /\ Anchored(b) /\ Anchor(b) # NoId /\ e.final <= Anchor(b)
    /\ book' = Anchor(b)
    /\ invalid' = WithMissing(invalid, e)
    /\ status' = "stale"
    /\ UNCHANGED <<errors, trusted>>

GapFound(e, b) ==
    /\ Anchored(b) /\ Anchor(b) # NoId
    /\ e.final > Anchor(b) /\ Beyond(e.first, Anchor(b))
    /\ book' = NoId
    /\ Invalidate(e)
    /\ status' = "gap"
    /\ UNCHANGED errors

Applies(e, b) == /\ Anchored(b) /\ Anchor(b) # NoId
                 /\ e.final > Anchor(b) /\ ~Beyond(e.first, Anchor(b))

(* HistoricalBook::apply finds a bad level or a crossed book.               *)
(* Slip: the crossed book stays in use.                                     *)
CrossedKept(e) == e.final

BookAfterError(e) == NoId

ApplyFails(e, b) ==
    /\ Applies(e, b)
    /\ book' = BookAfterError(e)
    /\ errors' = errors + 1
    /\ Invalidate(e)
    /\ status' = "structural_error"

Applied(e, b, top) ==
    /\ Applies(e, b)
    /\ book' = e.final
    /\ IF top THEN /\ trusted' = With(trusted, e.first, e.final)
                   /\ invalid' = WithMissing(invalid, e)
              ELSE Invalidate(e)
    /\ status' = "applied"
    /\ UNCHANGED errors

-----------------------------------------------------------------------------
Outcome(e, b) == \/ BadSnapshot(e, b) \/ Unanchored(e, b) \/ Stale(e, b)
                 \/ GapFound(e, b) \/ ApplyFails(e, b)
                 \/ \E top \in BOOLEAN : Applied(e, b, top)

Deliver(e) ==
    /\ Replaying /\ InOrder(e) /\ ~SameRange(e)
    /\ \E c \in cursor .. Len(snapshots) + 1, b \in 0 .. Len(snapshots) :
           Receive(e, c, b) /\ Outcome(e, b)

Next == Reject \/ \E e \in Event : Duplicate(e) \/ Deliver(e)

Spec == Init /\ [][Next]_vars

-----------------------------------------------------------------------------
IdsOf(list) == UNION {list[i].first .. list[i].last : i \in DOMAIN list}

(* A book in use is always at the greatest id of the stream: an overlapping *)
(* or late batch never leaves it behind (ReplayEngine::apply).              *)
BookAtStreamHead == book # NoId => book = lastId

(* The cursor never stands before a snapshot the stream has passed, so a    *)
(* bridge always brings in an event that goes beyond the stream so far.     *)
CursorAhead == lastId # NoId /\ cursor <= Len(snapshots) => snapshots[cursor].id >= lastId

(* "A snapshot can recover state, but cannot recreate depth inside the      *)
(* missing interval": no id of a gap is ever reported as trusted, and       *)
(* "missing ID ranges are included in invalid intervals"                    *)
(* (docs/historical-replay.md).                                             *)
GapsNeverTrusted == /\ IdsOf(gaps) \cap IdsOf(trusted) = {}
                    /\ IdsOf(gaps) \subseteq IdsOf(invalid)

(* The lists of intervals are sorted and no two of them touch, although     *)
(* interval() only looks at the last one.                                   *)
Separated(list) ==
    /\ \A i \in DOMAIN list : list[i].first <= list[i].last
    /\ \A i, j \in DOMAIN list : i < j => list[i].last + 1 < list[j].first
IntervalsSeparated == Separated(trusted) /\ Separated(invalid) /\ Separated(gaps)

(* The report accounts for the whole stream: the ids from its first event   *)
(* to its greatest id are exactly those reported as trusted or invalid, no  *)
(* matter which batches were stale, overlapped or were missing.             *)
StreamCovered ==
    lastId # NoId => \E first \in Id : /\ first <= lastId
                                       /\ IdsOf(trusted) \cup IdsOf(invalid) = first .. lastId

(* A usable book is only given up for a gap in a step that also records the *)
(* gap's ids (the status "gap" and the gap list never disagree).            *)
GapIsRecorded == [][status' = "gap" /\ events' # events => gaps' # gaps]_vars

(* With snapshots in the order of their ids, an event that some sound       *)
(* snapshot bridges is never left unanchored, unless there was a structural *)
(* error: only the order of the sources' lists can delay an anchor          *)
(* (docs/historical-replay.md, reference compatibility limitation).         *)
SortedSnapshots ==
    \A i, j \in DOMAIN snapshots : i < j => snapshots[i].id <= snapshots[j].id
BridgeIsUsed ==
    [][ SortedSnapshots /\ errors' = 0 /\ status' = "unanchored" /\ events' # events =>
          \A i \in DOMAIN snapshots :
              ~ (/\ snapshots[i].id < previous'.final
                 /\ previous'.first <= snapshots[i].id + 1
                 /\ snapshots[i].id + 1 <= previous'.final) ]_vars

(* The C++ engine and the Python verifier, which reads a stream that        *)
(* deduplicate_depth has let through, agree on it: books, segments, gaps,   *)
(* errors and trusted ids, wherever the ids lie in the word (tests compare  *)
(* the two on samples).                                                     *)
Verifier == INSTANCE Reconstruct WITH index <- cursor - 1, last <- lastId,
                                      trusted <- IdsOf(trusted)
VerifierAgrees == Verifier!Spec

(* What counterback_replay compare asks of the checkpoints of one day:      *)
(* after each event the C++ engine and the Python reference are in the same *)
(* state, the status of the event and all three lists of intervals          *)
(* included.  They refuse the same events but for one kind, which only the  *)
(* reference refuses, as it compares the text: a repeated range with the    *)
(* same numbers spelt otherwise, a duplicate to the engine                  *)
(* (tests/test_historical_replay.py).                                       *)
Reference == INSTANCE ReferenceReplay WITH index <- cursor - 1, last <- lastId

Respelt(e) ==
    /\ InOrder(e) /\ SameRange(e)
    /\ e.updates # previous.updates /\ Units[e.updates] = Units[previous.updates]

TakesRespelt ==
    /\ Respelt(previous') /\ status' = "duplicate"
    /\ UNCHANGED <<snapshots, cursor, book, Reference!stats>>

ReferenceAgrees ==
    /\ Reference!Init
    /\ [][Reference!Next \/ TakesRespelt]_(Reference!vars)
    /\ [](\A e \in Event : Reference!Refuses(e) <=> e \in Refused \/ Respelt(e))
=============================================================================
