---------------------------- MODULE ReplayProofs ----------------------------
(***************************************************************************)
(* What holds of the replay controller for every word size, every snapshot *)
(* list and every stream.                                                  *)
(***************************************************************************)
EXTENDS Replay, TLAPS

-----------------------------------------------------------------------------
(* Unsigned arithmetic: the comparison that subtracts says what it should,  *)
(* anywhere in the word.                                                    *)
LEMMA BeyondIsGap ==
    ASSUME NEW x \in Id, NEW y \in Id
    PROVE  Beyond(x, y) <=> x > y + 1
  BY MaxIdAssumption DEF Id, Beyond, Minus

(* The successor of an id that is not the greatest does not wrap.           *)
LEMMA Plus1OfSmaller ==
    ASSUME NEW x \in Id, NEW y \in Id, x < y
    PROVE  Plus1(x) = x + 1 /\ Plus1(x) \in Id
  BY MaxIdAssumption DEF Id, Plus1

-----------------------------------------------------------------------------
(* interval().  A list of intervals stays one.                              *)
LEMMA WithType ==
    ASSUME NEW list \in Seq(Interval), NEW x \in Id, NEW y \in Id, x <= y
    PROVE  With(list, x, y) \in Seq(Interval)
  <1>1. CASE StartsNew(list, x)
    BY <1>1 DEF With, Interval
  <1>2. CASE ~StartsNew(list, x)
    <2>1. Len(list) \in DOMAIN list /\ list[Len(list)] \in Interval
      BY <1>2 DEF StartsNew
    <2>2. Extended(list[Len(list)], y) \in Interval
      BY <2>1, MaxIdAssumption DEF Extended, Interval, Id
    <2>3. QED
      BY <1>2, <2>1, <2>2 DEF With
  <1>3. QED
    BY <1>1, <1>2

(* It loses no interval, and lengthens only the last.                       *)
LEMMA WithElements ==
    ASSUME NEW list \in Seq(Interval), NEW x \in Id, NEW y \in Id, x <= y,
           NEW i \in DOMAIN With(list, x, y)
    PROVE  LET new == With(list, x, y) IN
           \/ i \in DOMAIN list /\ new[i] = list[i]
           \/ /\ StartsNew(list, x)
              /\ i = Len(list) + 1 /\ new[i] = [first |-> x, last |-> y]
           \/ /\ ~StartsNew(list, x)
              /\ i = Len(list) /\ i \in DOMAIN list
              /\ new[i] = Extended(list[i], y)
  <1>1. CASE StartsNew(list, x)
    BY <1>1 DEF With
  <1>2. CASE ~StartsNew(list, x)
    BY <1>2 DEF With, StartsNew
  <1>3. QED
    BY <1>1, <1>2

(* It adds no id but those it is given.                                     *)
LEMMA WithAddsOnly ==
    ASSUME NEW list \in Seq(Interval), NEW x \in Id, NEW y \in Id, x <= y
    PROVE  IdsOf(With(list, x, y)) \subseteq IdsOf(list) \cup (x .. y)
  <1> SUFFICES ASSUME NEW i \in DOMAIN With(list, x, y),
                      NEW n \in With(list, x, y)[i].first .. With(list, x, y)[i].last
               PROVE  n \in IdsOf(list) \/ n \in x .. y
    BY DEF IdsOf
  <1>1. CASE i \in DOMAIN list /\ With(list, x, y)[i] = list[i]
    BY <1>1 DEF IdsOf
  <1>2. CASE With(list, x, y)[i] = [first |-> x, last |-> y]
    BY <1>2
  <1>3. CASE /\ ~StartsNew(list, x)
             /\ i = Len(list) /\ i \in DOMAIN list
             /\ With(list, x, y)[i] = Extended(list[i], y)
    <2>1. list[i] \in Interval
      BY <1>3
    <2>2. x <= list[i].last + 1
      BY <1>3, <2>1, BeyondIsGap, MaxIdAssumption DEF StartsNew, Interval, Id
    <2>3. n \in list[i].first .. list[i].last \/ n \in x .. y
      BY <1>3, <2>1, <2>2, MaxIdAssumption DEF Extended, Interval, Id
    <2>4. QED
      BY <1>3, <2>3 DEF IdsOf
  <1>4. QED
    BY <1>1, <1>2, <1>3, WithElements

(* It keeps the ids of the list, and adds those it is given if they do not  *)
(* begin before the last interval.                                          *)
LEMMA WithKeeps ==
    ASSUME NEW list \in Seq(Interval), NEW x \in Id, NEW y \in Id, x <= y
    PROVE  IdsOf(list) \subseteq IdsOf(With(list, x, y))
  <1> DEFINE new == With(list, x, y)
  <1> SUFFICES ASSUME NEW i \in DOMAIN list, NEW n \in list[i].first .. list[i].last
               PROVE  n \in IdsOf(new)
    BY DEF IdsOf
  <1>1. i \in DOMAIN new /\ new[i].first = list[i].first /\ new[i].last >= list[i].last
    <2>1. list[i] \in Interval
      OBVIOUS
    <2>2. CASE StartsNew(list, x)
      BY <2>1, <2>2, MaxIdAssumption DEF With, Interval, Id
    <2>3. CASE ~StartsNew(list, x)
      BY <2>1, <2>3, MaxIdAssumption DEF With, Extended, Interval, Id
    <2>4. QED
      BY <2>2, <2>3
  <1>2. new[i] \in Interval
    BY <1>1, WithType
  <1>3. n \in new[i].first .. new[i].last
    BY <1>1, <1>2, MaxIdAssumption DEF Interval, Id
  <1>4. QED
    BY <1>1, <1>3 DEF IdsOf

(* Every id it is given is in the new list.                                 *)
LEMMA WithAdds ==
    ASSUME NEW list \in Seq(Interval), NEW x \in Id, NEW y \in Id, x <= y,
           \A i \in DOMAIN list : list[i].first <= x
    PROVE  x .. y \subseteq IdsOf(With(list, x, y))
  <1> DEFINE new == With(list, x, y)
  <1>1. CASE StartsNew(list, x)
    <2>1. Len(list) + 1 \in DOMAIN new /\ new[Len(list) + 1] = [first |-> x, last |-> y]
      BY <1>1 DEF With
    <2>2. QED
      BY <2>1 DEF IdsOf
  <1>2. CASE ~StartsNew(list, x)
    <2> DEFINE n == Len(list)
    <2>1. n \in DOMAIN list /\ list[n] \in Interval
      BY <1>2 DEF StartsNew
    <2>2. n \in DOMAIN new /\ new[n] = Extended(list[n], y)
      BY <1>2, <2>1 DEF With
    <2>3. x .. y \subseteq new[n].first .. new[n].last
      BY <2>1, <2>2, MaxIdAssumption DEF Extended, Interval, Id
    <2>4. QED
      BY <2>2, <2>3 DEF IdsOf
  <1>3. QED
    BY <1>1, <1>2

-----------------------------------------------------------------------------
(* One event that is no duplicate.  What Receive fixes, whatever comes of   *)
(* the event.                                                               *)
LEMMA GapBounds ==
    ASSUME TypeOK, NEW e \in Event, IsGap(e)
    PROVE  /\ Plus1(lastId) \in Id /\ Plus1(lastId) = lastId + 1
           /\ e.first - 1 \in Id /\ lastId + 1 <= e.first - 1
  <1>1. lastId \in Id /\ e.first \in Id
    BY DEF TypeOK, IsGap, Event
  <1>2. e.first > lastId + 1
    BY <1>1, BeyondIsGap DEF IsGap
  <1>3. lastId < e.first
    BY <1>1, <1>2, MaxIdAssumption DEF Id
  <1>4. Plus1(lastId) = lastId + 1 /\ Plus1(lastId) \in Id
    BY <1>1, <1>3, Plus1OfSmaller
  <1>5. QED
    BY <1>1, <1>2, <1>4, MaxIdAssumption DEF Id

(* The list with a gap's ids put at its end is a list of intervals.         *)
LEMMA WithMissingType ==
    ASSUME TypeOK, NEW e \in Event, NEW list \in Seq(Interval)
    PROVE  WithMissing(list, e) \in Seq(Interval)
  BY GapBounds, WithType DEF WithMissing

(* Receive keeps the types of what it sets.                                 *)
LEMMA ReceiveType ==
    ASSUME TypeOK, NEW e \in Event, NEW c \in cursor .. Len(snapshots) + 1,
           NEW b \in 0 .. Len(snapshots), Receive(e, c, b)
    PROVE  /\ snapshots' \in Seq(Snapshot) /\ cursor' \in 1 .. Len(snapshots') + 1
           /\ previous' \in Event \cup {NoEvent}
           /\ events' \in Nat /\ sequenceGaps' \in Nat
           /\ lastId' \in Id \cup {NoId}
           /\ gaps' \in Seq(Interval)
  <1>1. gaps' \in Seq(Interval)
    BY WithMissingType DEF TypeOK, Receive
  <1>2. lastId' \in Id \cup {NoId}
    BY DEF TypeOK, Receive, GreatestId, Event
  <1>3. QED
    BY <1>1, <1>2 DEF TypeOK, Receive

(* Invalidate keeps the types of both lists.                                *)
LEMMA InvalidateType ==
    ASSUME TypeOK, NEW e \in Event, InOrder(e), Invalidate(e)
    PROVE  trusted' \in Seq(Interval) /\ invalid' \in Seq(Interval)
  BY WithMissingType, WithType DEF TypeOK, Invalidate, InOrder, Event

(* What an event is anchored to is an id or none.                           *)
LEMMA AnchorType ==
    ASSUME TypeOK, NEW b \in 0 .. Len(snapshots)
    PROVE  Anchor(b) \in Id \cup {NoId}
  <1>1. b # 0 => snapshots[b] \in Snapshot
    BY DEF TypeOK
  <1>2. QED
    BY <1>1 DEF TypeOK, Anchor, Snapshot

(* Each outcome keeps the types of what it sets.                            *)
LEMMA OutcomeType ==
    ASSUME TypeOK, NEW e \in Event, NEW b \in 0 .. Len(snapshots),
           InOrder(e), Outcome(e, b)
    PROVE  /\ book' \in Id \cup {NoId}
           /\ status' \in {"unanchored", "structural_error", "stale", "gap", "applied"}
           /\ segments' \in Nat /\ errors' \in Nat
           /\ trusted' \in Seq(Interval) /\ invalid' \in Seq(Interval)
  <1>1. Invalidate(e) => trusted' \in Seq(Interval) /\ invalid' \in Seq(Interval)
    BY InvalidateType
  <1>2. Anchored(b) => segments' \in Nat
    BY DEF Anchored, TypeOK
  <1>3. e.first \in Id /\ e.final \in Id
    BY DEF Event
  <1>4. CASE BadSnapshot(e, b)
    BY <1>1, <1>4 DEF BadSnapshot, TypeOK
  <1>5. CASE Unanchored(e, b)
    BY <1>1, <1>2, <1>5 DEF Unanchored, TypeOK
  <1>6. CASE Stale(e, b)
    BY <1>2, <1>6, AnchorType, WithMissingType DEF Stale, TypeOK
  <1>7. CASE GapFound(e, b)
    BY <1>1, <1>2, <1>7 DEF GapFound, TypeOK
  <1>8. CASE ApplyFails(e, b)
    BY <1>1, <1>2, <1>8 DEF ApplyFails, Applies, BookAfterError, TypeOK
  <1>9. ASSUME NEW top \in BOOLEAN, Applied(e, b, top)
        PROVE  /\ book' \in Id /\ status' = "applied"
               /\ segments' \in Nat /\ errors' \in Nat
               /\ trusted' \in Seq(Interval) /\ invalid' \in Seq(Interval)
    <2>1. trusted' \in Seq(Interval) /\ invalid' \in Seq(Interval)
      <3>1. CASE top
        BY <1>3, <1>9, <3>1, WithType, WithMissingType DEF Applied, InOrder, TypeOK
      <3>2. CASE ~top
        BY <1>1, <1>9, <3>2 DEF Applied
      <3>3. QED
        BY <3>1, <3>2
    <2>2. QED
      BY <1>2, <1>3, <1>9, <2>1 DEF Applied, Applies, TypeOK
  <1>10. QED
    BY <1>4, <1>5, <1>6, <1>7, <1>8, <1>9 DEF Outcome

(* Every variable keeps its type; in particular no interval is ever empty,  *)
(* whatever the arithmetic on the ids wraps to (ReplayEngine::apply).       *)
THEOREM TypeCorrect == Spec => []TypeOK
  <1>1. Init => TypeOK
    <2> SUFFICES ASSUME Init PROVE TypeOK
      OBVIOUS
    <2>1. snapshots \in Seq(Snapshot)
      BY BoundsAssumption DEF Init
    <2>2. QED
      BY <2>1 DEF Init, TypeOK
  <1>2. TypeOK /\ [Next]_vars => TypeOK'
    <2> SUFFICES ASSUME TypeOK, [Next]_vars PROVE TypeOK'
      OBVIOUS
    <2>1. ASSUME Reject PROVE TypeOK'
      BY <2>1 DEF Reject, TypeOK
    <2>2. ASSUME NEW e \in Event, Duplicate(e) PROVE TypeOK'
      BY <2>2 DEF Duplicate, TypeOK
    <2>3. ASSUME NEW e \in Event, Deliver(e) PROVE TypeOK'
      <3>1. PICK c \in cursor .. Len(snapshots) + 1, b \in 0 .. Len(snapshots) :
                Receive(e, c, b) /\ Outcome(e, b)
        BY <2>3 DEF Deliver
      <3>2. InOrder(e)
        BY <2>3 DEF Deliver
      <3>3. QED
        BY <3>1, <3>2, ReceiveType, OutcomeType DEF TypeOK
    <2>4. CASE UNCHANGED vars
      BY <2>4 DEF vars, stats, TypeOK
    <2>5. QED
      BY <2>1, <2>2, <2>3, <2>4 DEF Next
  <1>3. QED
    BY <1>1, <1>2, PTL DEF Spec

-----------------------------------------------------------------------------
(* The inductive invariant.  Beside the two facts about the book and the    *)
(* cursor it says where the last event stands, where the listed intervals   *)
(* begin (interval() relies on it) and how far gaps and trusted ids reach.  *)
PreviousCounted ==
    IF previous = NoEvent THEN lastId = NoId
    ELSE /\ lastId \in Id
         /\ previous.first <= previous.final /\ previous.final <= lastId

BeginBy(list) == \A i \in DOMAIN list : previous # NoEvent /\ list[i].first <= previous.first

GapsBehind == \A i \in DOMAIN gaps : previous # NoEvent /\ gaps[i].last < previous.first

TrustedWithin == \A i \in DOMAIN trusted : lastId # NoId /\ trusted[i].last <= lastId

HeadInv == PreviousCounted /\ BookAtStreamHead /\ CursorAhead
ListInv == /\ BeginBy(trusted) /\ BeginBy(invalid)
           /\ GapsBehind /\ TrustedWithin /\ GapsNeverTrusted

(* Both invariants hold of the controller before the first event.           *)
LEMMA InvInit == Init => HeadInv /\ ListInv
  BY DEF Init, HeadInv, ListInv, PreviousCounted, BookAtStreamHead, CursorAhead, BeginBy,
         GapsBehind, TrustedWithin, GapsNeverTrusted, IdsOf

(* The event goes beyond the stream so far whenever the cursor moves, so a  *)
(* bridging snapshot is never older than the stream.                        *)
LEMMA ReceiveHead ==
    ASSUME TypeOK, HeadInv, NEW e \in Event, InOrder(e),
           NEW c \in cursor .. Len(snapshots) + 1, NEW b \in 0 .. Len(snapshots),
           Receive(e, c, b)
    PROVE  /\ e.first \in Id /\ e.final \in Id /\ e.first <= e.final
           /\ previous' = e
           /\ previous # NoEvent => previous.first <= e.first
           /\ lastId' \in Id /\ e.final <= lastId'
           /\ lastId # NoId => lastId <= lastId'
           /\ lastId' = e.final \/ (lastId # NoId /\ lastId' = lastId /\ e.final <= lastId)
           /\ PreviousCounted' /\ CursorAhead'
           /\ b # 0 => /\ b \in DOMAIN snapshots
                       /\ snapshots[b].id \in Id /\ snapshots[b].id < e.final
                       /\ e.first <= snapshots[b].id + 1
                       /\ lastId' = e.final
  <1>1. e.first \in Id /\ e.final \in Id /\ e.first <= e.final
    BY DEF Event, InOrder
  <1>2. previous' = e /\ previous' # NoEvent
    BY SentinelAssumption DEF Receive
  <1>3. previous # NoEvent => previous \in Event /\ previous.first <= e.first
    BY <1>1, MaxIdAssumption DEF TypeOK, InOrder, Precedes, Event, Id
  <1>4. /\ lastId' \in Id /\ e.final <= lastId'
        /\ lastId # NoId => lastId <= lastId'
        /\ lastId' = e.final \/ (lastId # NoId /\ lastId' = lastId /\ e.final <= lastId)
    <2>1. lastId' = GreatestId(e) /\ (lastId # NoId => lastId \in Id)
      BY DEF Receive, TypeOK
    <2>2. QED
      BY <1>1, <2>1, MaxIdAssumption DEF GreatestId, Id
  <1>5. PreviousCounted'
    BY <1>1, <1>2, <1>4 DEF PreviousCounted
  <1>6. /\ \A i \in cursor .. c - 1 : /\ i \in DOMAIN snapshots
                                      /\ snapshots[i].id \in Id /\ snapshots[i].id < e.final
        /\ c <= Len(snapshots) => /\ snapshots[c].id \in Id
                                  /\ snapshots[c].id >= e.final
    <2>1. \A i \in DOMAIN snapshots : snapshots[i] \in Snapshot
      BY DEF TypeOK
    <2>2. \A i \in cursor .. Len(snapshots) : i \in DOMAIN snapshots
      BY DEF TypeOK
    <2>3. cursor \in Nat /\ c \in Nat /\ Len(snapshots) \in Nat
      BY DEF TypeOK
    <2>4. QED
      BY <2>1, <2>2, <2>3 DEF Receive, StopsAt, Snapshot
  <1>7. cursor < c => /\ lastId' = e.final
                      /\ lastId # NoId => lastId < e.final
    <2> SUFFICES ASSUME cursor < c
                 PROVE  lastId # NoId => lastId < e.final
      BY <1>1, <1>4, MaxIdAssumption DEF Id
    <2>1. cursor \in cursor .. c - 1 /\ cursor <= Len(snapshots)
      BY DEF TypeOK
    <2>2. snapshots[cursor].id \in Id /\ snapshots[cursor].id < e.final
      BY <1>6, <2>1
    <2>3. lastId # NoId => lastId \in Id /\ snapshots[cursor].id >= lastId
      BY <2>1 DEF HeadInv, CursorAhead, TypeOK
    <2>4. QED
      BY <1>1, <2>2, <2>3, MaxIdAssumption DEF Id
  <1>8. CursorAhead'
    <2>1. cursor' = c /\ snapshots' = snapshots
      BY DEF Receive
    <2> SUFFICES ASSUME c <= Len(snapshots)
                 PROVE  snapshots[c].id >= lastId'
      BY <2>1 DEF CursorAhead
    <2>2. CASE lastId' = e.final
      BY <1>6, <2>2
    <2>3. CASE lastId' # e.final
      <3>1. c = cursor /\ lastId # NoId /\ lastId' = lastId
        BY <1>4, <1>7, <2>3 DEF TypeOK
      <3>2. QED
        BY <3>1 DEF HeadInv, CursorAhead
    <2>4. QED
      BY <2>2, <2>3
  <1>9. b # 0 => /\ b \in DOMAIN snapshots
                 /\ snapshots[b].id \in Id /\ snapshots[b].id < e.final
                 /\ e.first <= snapshots[b].id + 1
                 /\ lastId' = e.final
    <2> SUFFICES ASSUME b # 0
                 PROVE  /\ b \in DOMAIN snapshots
                        /\ snapshots[b].id \in Id /\ snapshots[b].id < e.final
                        /\ e.first <= snapshots[b].id + 1
                        /\ lastId' = e.final
      OBVIOUS
    <2>1. b \in BridgesOf(e, c)
      BY DEF Receive, IsBridge
    <2>2. b \in cursor .. c - 1 /\ e.first <= Plus1(snapshots[b].id)
      BY <2>1 DEF BridgesOf
    <2>3. cursor < c
      BY <2>2 DEF TypeOK
    <2>4. b \in DOMAIN snapshots /\ snapshots[b].id \in Id /\ snapshots[b].id < e.final
      BY <1>6, <2>2
    <2>5. QED
      BY <1>1, <1>7, <2>2, <2>3, <2>4, Plus1OfSmaller
  <1>10. QED
    BY <1>1, <1>2, <1>3, <1>4, <1>5, <1>8, <1>9

(* A book in use is at the head whatever becomes of the event.              *)
LEMMA OutcomeHead ==
    ASSUME TypeOK, HeadInv, NEW e \in Event, InOrder(e),
           NEW c \in cursor .. Len(snapshots) + 1, NEW b \in 0 .. Len(snapshots),
           Receive(e, c, b), Outcome(e, b)
    PROVE  HeadInv'
  <1>1. /\ PreviousCounted' /\ CursorAhead'
        /\ e.final \in Id /\ lastId' \in Id /\ e.final <= lastId'
        /\ lastId # NoId => lastId <= lastId'
        /\ lastId' = e.final \/ (lastId # NoId /\ lastId' = lastId /\ e.final <= lastId)
        /\ b # 0 => snapshots[b].id \in Id /\ snapshots[b].id < e.final /\ lastId' = e.final
    BY ReceiveHead
  <1> SUFFICES BookAtStreamHead'
    BY <1>1 DEF HeadInv
  <1>2. BookAtStreamHead
    BY DEF HeadInv
  <1>3. lastId \in Id \cup {NoId} /\ book \in Id \cup {NoId}
    BY DEF TypeOK
  <1>4. CASE book' = NoId
    BY <1>4 DEF BookAtStreamHead
  <1>5. CASE Unanchored(e, b)
    <2>1. book' = NoId
      <3>1. b = 0
        BY <1>1, <1>5, SentinelAssumption DEF Unanchored, Anchor, Id
      <3>2. QED
        BY <1>5, <3>1 DEF Unanchored, Anchor
    <2>2. QED
      BY <1>4, <2>1
  <1>6. CASE Stale(e, b)
    <2>1. b = 0
      BY <1>1, <1>6, MaxIdAssumption DEF Stale, Anchor, Id
    <2>2. book' = book /\ book = lastId /\ e.final <= lastId /\ lastId \in Id
      BY <1>2, <1>3, <1>6, <2>1 DEF Stale, Anchor, BookAtStreamHead
    <2>3. lastId' = lastId
      <3>1. lastId # NoId
        BY <2>2, SentinelAssumption DEF Id
      <3>2. QED
        BY <1>1, <2>2, <3>1, MaxIdAssumption DEF Id
    <2>4. QED
      BY <2>2, <2>3 DEF BookAtStreamHead
  <1>7. CASE \E top \in BOOLEAN : Applied(e, b, top)
    <2>1. book' = e.final /\ Anchor(b) # NoId /\ e.final > Anchor(b)
      BY <1>7 DEF Applied, Applies
    <2>2. lastId' = e.final
      <3>1. CASE b # 0
        BY <1>1, <3>1
      <3>2. CASE b = 0
        <4>1. book = lastId /\ e.final > lastId
          BY <1>2, <2>1, <3>2 DEF Anchor, BookAtStreamHead
        <4>2. QED
          BY <1>1, <1>3, <4>1, MaxIdAssumption DEF Id
      <3>3. QED
        BY <3>1, <3>2
    <2>3. QED
      BY <2>1, <2>2 DEF BookAtStreamHead
  <1>8. BadSnapshot(e, b) \/ GapFound(e, b) \/ ApplyFails(e, b) => book' = NoId
    BY DEF BadSnapshot, GapFound, ApplyFails, BookAfterError
  <1>9. QED
    BY <1>4, <1>5, <1>6, <1>7, <1>8 DEF Outcome

(* A step that leaves the book, the stream's head and the cursor alone.     *)
LEMMA HeadUnmoved ==
    ASSUME HeadInv, UNCHANGED <<snapshots, cursor, previous, book, lastId>>
    PROVE  HeadInv'
  BY DEF HeadInv, PreviousCounted, BookAtStreamHead, CursorAhead

(* In every reachable state the book, if there is one, is at the stream's   *)
(* head, the last event is counted, and the cursor is not behind the stream *)
(* (ReplayEngine::apply).                                                   *)
THEOREM HeadInvariant == Spec => [](TypeOK /\ HeadInv)
  <1>1. TypeOK /\ HeadInv /\ [Next]_vars => HeadInv'
    <2> SUFFICES ASSUME TypeOK, HeadInv, [Next]_vars PROVE HeadInv'
      OBVIOUS
    <2>1. ASSUME Reject PROVE HeadInv'
      BY <2>1, HeadUnmoved DEF Reject
    <2>2. ASSUME NEW e \in Event, Duplicate(e) PROVE HeadInv'
      <3>1. e.first = previous.first /\ e.final = previous.final /\ previous # NoEvent
        BY <2>2 DEF Duplicate, SameRange
      <3>2. previous' = e /\ e # NoEvent
        BY <2>2, SentinelAssumption DEF Duplicate
      <3>3. UNCHANGED <<snapshots, cursor, book, lastId>>
        BY <2>2 DEF Duplicate
      <3>4. PreviousCounted'
        BY <3>1, <3>2, <3>3 DEF HeadInv, PreviousCounted
      <3>5. QED
        BY <3>3, <3>4 DEF HeadInv, BookAtStreamHead, CursorAhead
    <2>3. ASSUME NEW e \in Event, Deliver(e) PROVE HeadInv'
      BY <2>3, OutcomeHead DEF Deliver
    <2>4. CASE UNCHANGED vars
      BY <2>4, HeadUnmoved DEF vars, stats
    <2>5. QED
      BY <2>1, <2>2, <2>3, <2>4 DEF Next
  <1>2. QED
    BY <1>1, InvInit, TypeCorrect, PTL DEF Spec

(* A book in use is at the greatest id of the stream, for every word size   *)
(* and stream (ReplayEngine::apply).                                        *)
THEOREM BookAlwaysAtHead == Spec => []BookAtStreamHead
  <1>1. HeadInv => BookAtStreamHead
    BY DEF HeadInv
  <1>2. QED
    BY <1>1, HeadInvariant, PTL

(* The cursor's snapshot is never behind the stream.                        *)
THEOREM CursorAlwaysAhead == Spec => []CursorAhead
  <1>1. HeadInv => CursorAhead
    BY DEF HeadInv
  <1>2. QED
    BY <1>1, HeadInvariant, PTL

-----------------------------------------------------------------------------
(* The lists.  WithMissing adds the missing ids, all of them behind the     *)
(* event and beyond the stream so far.                                      *)
Missing(e) == IF IsGap(e) THEN lastId + 1 .. e.first - 1 ELSE {}

(* A gap's ids, and no others, are added to the list.                       *)
LEMMA WithMissingIds ==
    ASSUME TypeOK, HeadInv, NEW e \in Event, InOrder(e), NEW list \in Seq(Interval)
    PROVE  /\ IdsOf(list) \subseteq IdsOf(WithMissing(list, e))
           /\ IdsOf(WithMissing(list, e)) \subseteq IdsOf(list) \cup Missing(e)
           /\ BeginBy(list) => Missing(e) \subseteq IdsOf(WithMissing(list, e))
  <1>1. CASE ~IsGap(e)
    BY <1>1 DEF WithMissing, Missing
  <1>2. CASE IsGap(e)
    <2>1. /\ Plus1(lastId) \in Id /\ Plus1(lastId) = lastId + 1
          /\ e.first - 1 \in Id /\ lastId + 1 <= e.first - 1
      BY <1>2, GapBounds
    <2>2. WithMissing(list, e) = With(list, lastId + 1, e.first - 1)
      BY <1>2, <2>1 DEF WithMissing
    <2>3. ASSUME BeginBy(list), NEW i \in DOMAIN list
          PROVE  list[i].first <= lastId + 1
      <3>1. previous # NoEvent /\ list[i].first <= previous.first
        BY <2>3 DEF BeginBy
      <3>2. lastId \in Id /\ previous.first <= previous.final /\ previous.final <= lastId
        BY <3>1 DEF HeadInv, PreviousCounted
      <3>3. previous \in Event /\ list[i] \in Interval
        BY <2>3, <3>1 DEF TypeOK
      <3>4. QED
        BY <3>1, <3>2, <3>3, MaxIdAssumption DEF Event, Interval, Id
    <2>4. QED
      BY <1>2, <2>1, <2>2, <2>3, WithKeeps, WithAddsOnly, WithAdds DEF Missing
  <1>3. QED
    BY <1>1, <1>2

(* Intervals begin by the event that comes after them.                      *)
LEMMA WithBegins ==
    ASSUME NEW list \in Seq(Interval), NEW x \in Id, NEW y \in Id, x <= y, NEW z \in Id,
           x <= z, \A i \in DOMAIN list : list[i].first <= z
    PROVE  \A i \in DOMAIN With(list, x, y) : With(list, x, y)[i].first <= z
  BY WithElements DEF Extended

(* Intervals that end by z still do when one that ends by z is put at the   *)
(* end.                                                                     *)
LEMMA WithEnds ==
    ASSUME NEW list \in Seq(Interval), NEW x \in Id, NEW y \in Id, x <= y, NEW z \in Id,
           y <= z, \A i \in DOMAIN list : list[i].last <= z
    PROVE  \A i \in DOMAIN With(list, x, y) : With(list, x, y)[i].last <= z
  BY WithElements DEF Extended

(* Intervals that begin by the event's first id still do when the ids missing*)
(* before the event are put at the end.                                     *)
LEMMA WithMissingBegins ==
    ASSUME TypeOK, HeadInv, NEW e \in Event, InOrder(e), NEW list \in Seq(Interval),
           \A i \in DOMAIN list : list[i].first <= e.first
    PROVE  \A i \in DOMAIN WithMissing(list, e) : WithMissing(list, e)[i].first <= e.first
  <1>1. CASE ~IsGap(e)
    BY <1>1 DEF WithMissing
  <1>2. CASE IsGap(e)
    <2>1. /\ Plus1(lastId) \in Id /\ e.first - 1 \in Id /\ Plus1(lastId) <= e.first - 1
      BY <1>2, GapBounds
    <2>2. e.first \in Id /\ Plus1(lastId) <= e.first
      BY <2>1, MaxIdAssumption DEF Event, Id
    <2>3. QED
      BY <1>2, <2>1, <2>2, WithBegins DEF WithMissing
  <1>3. QED
    BY <1>1, <1>2

(* After an event, every interval listed before begins by it.               *)
LEMMA BeginsByEvent ==
    ASSUME TypeOK, HeadInv, NEW e \in Event, InOrder(e), NEW list \in Seq(Interval),
           BeginBy(list)
    PROVE  \A i \in DOMAIN list : list[i].first <= e.first
  <1> SUFFICES ASSUME NEW i \in DOMAIN list PROVE list[i].first <= e.first
    OBVIOUS
  <1>1. previous # NoEvent /\ list[i].first <= previous.first
    BY DEF BeginBy
  <1>2. previous \in Event /\ previous.first <= e.first
    BY <1>1, MaxIdAssumption DEF TypeOK, InOrder, Precedes, Event, Id
  <1>3. list[i] \in Interval
    OBVIOUS
  <1>4. QED
    BY <1>1, <1>2, <1>3, MaxIdAssumption DEF Event, Interval, Id

(* What the event adds to the lists.                                        *)
LEMMA OutcomeIds ==
    ASSUME TypeOK, HeadInv, ListInv, NEW e \in Event, InOrder(e),
           NEW b \in 0 .. Len(snapshots), Outcome(e, b)
    PROVE  /\ IdsOf(WithMissing(invalid, e)) \subseteq IdsOf(invalid')
           /\ \A i \in DOMAIN invalid' : invalid'[i].first <= e.first
           /\ \/ trusted' = trusted
              \/ trusted' = With(trusted, e.first, e.final)
  <1>1. e.first \in Id /\ e.final \in Id /\ e.first <= e.final
    BY DEF Event, InOrder
  <1> DEFINE before == WithMissing(invalid, e)
  <1>2. /\ before \in Seq(Interval)
        /\ \A i \in DOMAIN before : before[i].first <= e.first
    BY WithMissingType, WithMissingBegins, BeginsByEvent DEF TypeOK, ListInv
  <1>3. /\ IdsOf(before) \subseteq IdsOf(With(before, e.first, e.final))
        /\ \A i \in DOMAIN With(before, e.first, e.final) :
               With(before, e.first, e.final)[i].first <= e.first
    <2> HIDE DEF before
    <2>1. e.first <= e.first
      BY <1>1, MaxIdAssumption DEF Id
    <2>2. IdsOf(before) \subseteq IdsOf(With(before, e.first, e.final))
      BY <1>1, <1>2, WithKeeps
    <2>3. \A i \in DOMAIN With(before, e.first, e.final) :
              With(before, e.first, e.final)[i].first <= e.first
      BY <1>1, <1>2, <2>1, WithBegins
    <2>4. QED
      BY <2>2, <2>3
  <1>4. \/ invalid' = before
        \/ invalid' = With(before, e.first, e.final)
    BY DEF Outcome, BadSnapshot, Unanchored, Stale, GapFound, ApplyFails, Applied,
           Invalidate
  <1>5. \/ trusted' = trusted
        \/ trusted' = With(trusted, e.first, e.final)
    BY DEF Outcome, BadSnapshot, Unanchored, Stale, GapFound, ApplyFails, Applied,
           Invalidate
  <1>6. QED
    BY <1>2, <1>3, <1>4, <1>5

(* Every gap lies behind the event that showed it, and trusted ids within   *)
(* the stream.                                                              *)
LEMMA ReceiveGaps ==
    ASSUME TypeOK, HeadInv, ListInv, NEW e \in Event, InOrder(e),
           NEW c \in cursor .. Len(snapshots) + 1, NEW b \in 0 .. Len(snapshots),
           Receive(e, c, b)
    PROVE  \A i \in DOMAIN gaps' : gaps'[i].last < e.first
  <1>1. e.first \in Id /\ gaps' = WithMissing(gaps, e)
    BY DEF Event, Receive
  <1>2. \A i \in DOMAIN gaps : gaps[i] \in Interval /\ gaps[i].last < e.first
    <2> SUFFICES ASSUME NEW i \in DOMAIN gaps
                 PROVE  gaps[i] \in Interval /\ gaps[i].last < e.first
      OBVIOUS
    <2>1. gaps[i] \in Interval
      BY DEF TypeOK
    <2>2. previous # NoEvent /\ gaps[i].last < previous.first
      BY DEF ListInv, GapsBehind
    <2>3. previous.first <= e.first /\ previous \in Event
      BY <2>2, ReceiveHead DEF TypeOK
    <2>4. QED
      BY <1>1, <2>1, <2>2, <2>3, MaxIdAssumption DEF Event, Interval, Id
  <1>3. CASE ~IsGap(e)
    BY <1>1, <1>2, <1>3 DEF WithMissing
  <1>4. CASE IsGap(e)
    <2> DEFINE x == Plus1(lastId)
               y == e.first - 1
    <2>1. x \in Id /\ y \in Id /\ x <= y
      BY <1>4, GapBounds
    <2>2. gaps' = With(gaps, x, y)
      BY <1>1, <1>4 DEF WithMissing
    <2>3. \A i \in DOMAIN gaps : gaps[i].last <= y
      BY <1>1, <1>2, MaxIdAssumption DEF Interval, Id
    <2>4. gaps \in Seq(Interval) /\ gaps' \in Seq(Interval)
      BY ReceiveType DEF TypeOK
    <2>5. y <= y /\ y < e.first
      BY <1>1, MaxIdAssumption DEF Id
    <2>6. \A i \in DOMAIN gaps' : gaps'[i].last <= y
      <3> HIDE DEF x, y
      <3>1. QED
        BY <2>1, <2>2, <2>3, <2>4, <2>5, WithEnds
    <2>7. \A i \in DOMAIN gaps' : gaps'[i].last \in Id
      BY <2>4 DEF Interval
    <2>8. QED
      BY <1>1, <2>1, <2>6, <2>7, MaxIdAssumption DEF Id
  <1>5. QED
    BY <1>3, <1>4

(* An event that is no duplicate keeps the invariant of the three lists.    *)
LEMMA OutcomeLists ==
    ASSUME TypeOK, TypeOK', HeadInv, ListInv, NEW e \in Event, InOrder(e),
           NEW c \in cursor .. Len(snapshots) + 1, NEW b \in 0 .. Len(snapshots),
           Receive(e, c, b), Outcome(e, b)
    PROVE  ListInv'
  <1>1. /\ e.first \in Id /\ e.final \in Id /\ e.first <= e.final
        /\ previous' = e /\ previous' # NoEvent
        /\ lastId' \in Id /\ lastId' # NoId /\ e.final <= lastId'
        /\ lastId # NoId => lastId <= lastId'
    BY ReceiveHead, SentinelAssumption DEF Id
  <1>2. /\ IdsOf(WithMissing(invalid, e)) \subseteq IdsOf(invalid')
        /\ \A i \in DOMAIN invalid' : invalid'[i].first <= e.first
        /\ \/ trusted' = trusted
           \/ trusted' = With(trusted, e.first, e.final)
    BY OutcomeIds
  <1>3. trusted \in Seq(Interval) /\ trusted' \in Seq(Interval)
    BY DEF TypeOK
  <1>4. BeginBy(invalid)'
    BY <1>1, <1>2 DEF BeginBy
  <1>5. BeginBy(trusted)'
    <2>1. \A i \in DOMAIN trusted : trusted[i].first <= e.first
      BY <1>3, BeginsByEvent DEF ListInv
    <2>2. e.first <= e.first
      BY <1>1, MaxIdAssumption DEF Id
    <2>3. \A i \in DOMAIN trusted' : trusted'[i].first <= e.first
      BY <1>1, <1>2, <1>3, <2>1, <2>2, WithBegins
    <2>4. QED
      BY <1>1, <2>3 DEF BeginBy
  <1>6. GapsBehind'
    BY <1>1, ReceiveGaps DEF GapsBehind
  <1>7. TrustedWithin'
    <2>1. \A i \in DOMAIN trusted : trusted[i].last <= lastId'
      <3> SUFFICES ASSUME NEW i \in DOMAIN trusted PROVE trusted[i].last <= lastId'
        OBVIOUS
      <3>1. trusted[i] \in Interval /\ lastId # NoId /\ trusted[i].last <= lastId
        BY <1>3 DEF ListInv, TrustedWithin
      <3>2. lastId \in Id
        BY <3>1 DEF TypeOK
      <3>3. QED
        BY <1>1, <3>1, <3>2, MaxIdAssumption DEF Interval, Id
    <2>2. \A i \in DOMAIN trusted' : trusted'[i].last <= lastId'
      BY <1>1, <1>2, <1>3, <2>1, WithEnds
    <2>3. QED
      BY <1>1, <2>2 DEF TrustedWithin
  <1>8. GapsNeverTrusted'
    <2>1. /\ gaps \in Seq(Interval) /\ invalid \in Seq(Interval)
          /\ gaps' = WithMissing(gaps, e)
      BY DEF TypeOK, Receive
    <2>2. IdsOf(gaps') \subseteq IdsOf(gaps) \cup Missing(e)
      BY <2>1, WithMissingIds
    <2>3. IdsOf(gaps') \subseteq IdsOf(invalid')
      <3>1. IdsOf(invalid) \cup Missing(e) \subseteq IdsOf(WithMissing(invalid, e))
        BY <2>1, WithMissingIds DEF ListInv
      <3>2. QED
        BY <1>2, <2>2, <3>1 DEF ListInv, GapsNeverTrusted
    <2>4. IdsOf(trusted') \subseteq IdsOf(trusted) \cup (e.first .. e.final)
      BY <1>1, <1>2, <1>3, WithAddsOnly
    <2>5. \A n \in IdsOf(gaps') : n \notin e.first .. e.final
      <3> SUFFICES ASSUME NEW i \in DOMAIN gaps', NEW n \in gaps'[i].first .. gaps'[i].last
                   PROVE  n < e.first
        BY <1>1, MaxIdAssumption DEF IdsOf, Id
      <3>1. gaps' \in Seq(Interval)
        BY DEF TypeOK
      <3>2. gaps'[i].last < e.first
        BY ReceiveGaps
      <3>3. gaps'[i] \in Interval
        BY <3>1
      <3>4. QED
        BY <1>1, <3>2, <3>3, MaxIdAssumption DEF Interval, Id
    <2>6. \A n \in Missing(e) : n \notin IdsOf(trusted)
      <3> SUFFICES ASSUME NEW n \in Missing(e), NEW i \in DOMAIN trusted,
                          n \in trusted[i].first .. trusted[i].last
                   PROVE  FALSE
        BY DEF IdsOf
      <3>1. IsGap(e) /\ n \in lastId + 1 .. e.first - 1
        BY DEF Missing
      <3>2. lastId \in Id
        BY <3>1 DEF TypeOK, IsGap
      <3>3. trusted[i] \in Interval
        BY <1>3
      <3>4. trusted[i].last <= lastId
        BY DEF ListInv, TrustedWithin
      <3>5. QED
        BY <1>1, <3>1, <3>2, <3>3, <3>4, MaxIdAssumption DEF Interval, Id
    <2>7. QED
      BY <2>2, <2>3, <2>4, <2>5, <2>6 DEF ListInv, GapsNeverTrusted
  <1>9. QED
    BY <1>4, <1>5, <1>6, <1>7, <1>8 DEF ListInv

(* The inductive step for the lists, and the theorem.                       *)
LEMMA ListsUnmoved ==
    ASSUME ListInv, UNCHANGED <<lastId, trusted, invalid, gaps>>,
           previous' = previous \/ (/\ previous # NoEvent /\ previous' # NoEvent
                                    /\ previous'.first = previous.first)
    PROVE  ListInv'
  <1>1. BeginBy(trusted)' /\ BeginBy(invalid)'
    BY DEF ListInv, BeginBy
  <1>2. GapsBehind'
    BY DEF ListInv, GapsBehind
  <1>3. TrustedWithin'
    BY DEF ListInv, TrustedWithin
  <1>4. GapsNeverTrusted'
    BY DEF ListInv, GapsNeverTrusted, IdsOf
  <1>5. QED
    BY <1>1, <1>2, <1>3, <1>4 DEF ListInv

(* In every reachable state the ids of the gaps lie in the invalid list, the*)
(* trusted ids are others, and no list reaches beyond the stream            *)
(* (ReplayEngine::interval and its callers).                                *)
THEOREM ListInvariant == Spec => []ListInv
  <1>1. /\ TypeOK /\ TypeOK' /\ HeadInv /\ ListInv
        /\ [Next]_vars
        => ListInv'
    <2> SUFFICES ASSUME TypeOK, TypeOK', HeadInv, ListInv, [Next]_vars
                 PROVE  ListInv'
      OBVIOUS
    <2>1. ASSUME Reject PROVE ListInv'
      BY <2>1, ListsUnmoved DEF Reject
    <2>2. ASSUME NEW e \in Event, Duplicate(e) PROVE ListInv'
      BY <2>2, ListsUnmoved, SentinelAssumption DEF Duplicate, SameRange
    <2>3. ASSUME NEW e \in Event, Deliver(e) PROVE ListInv'
      BY <2>3, OutcomeLists DEF Deliver
    <2>4. CASE UNCHANGED vars
      BY <2>4, ListsUnmoved DEF vars, stats
    <2>5. QED
      BY <2>1, <2>2, <2>3, <2>4 DEF Next
  <1>2. QED
    BY <1>1, InvInit, TypeCorrect, HeadInvariant, PTL DEF Spec

(* "A snapshot can recover state, but cannot recreate depth inside the      *)
(* missing interval", whatever the stream and the snapshots are: no missing *)
(* id is reported as trusted, and all of them as invalid.                   *)
THEOREM GapsAreNeverTrusted == Spec => []GapsNeverTrusted
  <1>1. ListInv => GapsNeverTrusted
    BY DEF ListInv
  <1>2. QED
    BY <1>1, ListInvariant, PTL

-----------------------------------------------------------------------------
(* A list of gaps changes with every gap.                                   *)
LEMMA WithChanges ==
    ASSUME NEW list \in Seq(Interval), NEW x \in Id, NEW y \in Id, x <= y,
           \A i \in DOMAIN list : list[i].last < y
    PROVE  With(list, x, y) # list
  <1>1. CASE StartsNew(list, x)
    <2>1. Len(With(list, x, y)) = Len(list) + 1
      BY <1>1 DEF With
    <2>2. QED
      BY <2>1
  <1>2. CASE ~StartsNew(list, x)
    <2> DEFINE n == Len(list)
    <2>1. n \in DOMAIN list /\ list[n] \in Interval /\ list[n].last < y
      BY <1>2 DEF StartsNew
    <2>2. With(list, x, y)[n].last = y
      BY <1>2, <2>1, MaxIdAssumption DEF With, Extended, Interval, Id
    <2>3. QED
      BY <2>1, <2>2, MaxIdAssumption DEF Interval, Id
  <1>3. QED
    BY <1>1, <1>2

(* A book is given up for a gap only when the stream itself has one: the    *)
(* book is at the head, and a bridging snapshot leaves no gap.              *)
LEMMA GapFoundIsGap ==
    ASSUME TypeOK, HeadInv, NEW e \in Event, InOrder(e),
           NEW c \in cursor .. Len(snapshots) + 1, NEW b \in 0 .. Len(snapshots),
           Receive(e, c, b), GapFound(e, b)
    PROVE  IsGap(e)
  <1>1. Anchor(b) # NoId /\ Beyond(e.first, Anchor(b))
    BY DEF GapFound
  <1>2. e.first \in Id
    BY DEF Event
  <1>3. CASE b = 0
    <2>1. book # NoId /\ Beyond(e.first, book) /\ book = lastId
      BY <1>1, <1>3 DEF Anchor, HeadInv, BookAtStreamHead
    <2>2. QED
      BY <2>1 DEF IsGap
  <1>4. CASE b # 0
    <2>1. snapshots[b].id \in Id /\ e.first <= snapshots[b].id + 1
      BY <1>4, ReceiveHead
    <2>2. e.first > snapshots[b].id + 1
      BY <1>1, <1>2, <1>4, <2>1, BeyondIsGap DEF Anchor
    <2>3. QED
      BY <1>2, <2>1, <2>2, MaxIdAssumption DEF Id
  <1>5. QED
    BY <1>3, <1>4

(* An event with status gap adds an interval to the gap list or lengthens its*)
(* last.                                                                    *)
LEMMA GapStep ==
    ASSUME TypeOK, HeadInv, ListInv, NEW e \in Event, InOrder(e),
           NEW c \in cursor .. Len(snapshots) + 1, NEW b \in 0 .. Len(snapshots),
           Receive(e, c, b), Outcome(e, b), status' = "gap"
    PROVE  gaps' # gaps
  <1>1. GapFound(e, b)
    BY DEF Outcome, BadSnapshot, Unanchored, Stale, ApplyFails, Applied
  <1> DEFINE x == Plus1(lastId)
             y == e.first - 1
  <1>2. IsGap(e)
    BY <1>1, GapFoundIsGap
  <1>3. x \in Id /\ y \in Id /\ x = lastId + 1 /\ x <= y
    BY <1>2, GapBounds
  <1>4. gaps' = With(gaps, x, y) /\ gaps \in Seq(Interval)
    BY <1>2 DEF Receive, WithMissing, TypeOK
  <1>5. \A i \in DOMAIN gaps : gaps[i].last < y
    <2> SUFFICES ASSUME NEW i \in DOMAIN gaps PROVE gaps[i].last < y
      OBVIOUS
    <2>1. previous # NoEvent /\ gaps[i].last < previous.first
      BY DEF ListInv, GapsBehind
    <2>2. previous \in Event /\ gaps[i] \in Interval
      BY <1>4, <2>1 DEF TypeOK
    <2>3. lastId \in Id /\ previous.first <= previous.final /\ previous.final <= lastId
      BY <2>1 DEF HeadInv, PreviousCounted
    <2>4. QED
      BY SMTT(30), <1>3, <2>1, <2>2, <2>3, MaxIdAssumption DEF Event, Interval, Id
  <1>6. QED
    <2> HIDE DEF x, y
    <2>1. QED
      BY <1>3, <1>4, <1>5, WithChanges

(* The status "gap" and the list of gaps never disagree, for every word     *)
(* size, stream and snapshot list.                                          *)
THEOREM GapsAreRecorded == Spec => GapIsRecorded
  <1> DEFINE Recorded == status' = "gap" /\ events' # events => gaps' # gaps
  <1>1. TypeOK /\ HeadInv /\ ListInv /\ [Next]_vars => [Recorded]_vars
    <2> SUFFICES ASSUME TypeOK, HeadInv, ListInv, Next, status' = "gap"
                 PROVE  gaps' # gaps
      OBVIOUS
    <2>1. ~Reject /\ \A e \in Event : ~Duplicate(e)
      BY DEF Reject, Duplicate
    <2>2. ASSUME NEW e \in Event, Deliver(e) PROVE gaps' # gaps
      BY <2>2, GapStep DEF Deliver
    <2>3. QED
      BY <2>1, <2>2 DEF Next
  <1>2. QED
    BY <1>1, HeadInvariant, ListInvariant, PTL DEF Spec, GapIsRecorded

-----------------------------------------------------------------------------
(* interval() keeps a list separated although it only looks at its end.     *)
LEMMA WithSeparated ==
    ASSUME NEW list \in Seq(Interval), NEW x \in Id, NEW y \in Id, x <= y, Separated(list)
    PROVE  Separated(With(list, x, y))
  <1> DEFINE new == With(list, x, y)
             k == Len(list)
  <1>1. new \in Seq(Interval) /\ \A i \in DOMAIN list : list[i] \in Interval
    BY WithType
  <1>2. \A i \in DOMAIN new : new[i].first <= new[i].last
    BY <1>1 DEF Interval
  <1>3. CASE StartsNew(list, x)
    <2>1. /\ DOMAIN new = DOMAIN list \cup {k + 1} /\ k + 1 \notin DOMAIN list
          /\ new[k + 1] = [first |-> x, last |-> y]
          /\ \A i \in DOMAIN list : new[i] = list[i]
          /\ DOMAIN list = 1 .. k /\ k \in Nat
      BY <1>3 DEF With
    <2>2. \A i \in DOMAIN list : list[i].last + 1 < x
      <3> SUFFICES ASSUME NEW i \in DOMAIN list PROVE list[i].last + 1 < x
        OBVIOUS
      <3>1. k \in DOMAIN list /\ i <= k
        BY <2>1
      <3>2. list[i] \in Interval /\ list[k] \in Interval
        BY <1>1, <3>1
      <3>3. list[k].last + 1 < x
        BY <1>3, <3>1, <3>2, BeyondIsGap, MaxIdAssumption DEF StartsNew, Interval, Id
      <3>4. list[i].last <= list[k].last
        <4>1. CASE i = k
          BY <3>2, <4>1, MaxIdAssumption DEF Interval, Id
        <4>2. CASE i # k
          <5>1. i < k
            BY <2>1, <3>1, <4>2
          <5>2. list[i].last + 1 < list[k].first
            BY <3>1, <5>1 DEF Separated
          <5>3. QED
            BY <3>2, <5>2, MaxIdAssumption DEF Interval, Id
        <4>3. QED
          BY <4>1, <4>2
      <3>5. QED
        BY <3>2, <3>3, <3>4, MaxIdAssumption DEF Interval, Id
    <2> HIDE DEF new, k
    <2>3. ASSUME NEW i \in DOMAIN new, NEW j \in DOMAIN new, i < j
          PROVE  new[i].last + 1 < new[j].first
      <3>1. i \in DOMAIN list
        BY <2>1, <2>3
      <3>2. CASE j \in DOMAIN list
        BY <2>1, <2>3, <3>1, <3>2 DEF Separated
      <3>3. CASE j = k + 1
        BY <2>1, <2>2, <3>1, <3>3
      <3>4. QED
        BY <2>1, <3>2, <3>3
    <2>4. QED
      BY <1>2, <2>3 DEF Separated, new
  <1>4. CASE ~StartsNew(list, x)
    <2>1. /\ DOMAIN new = DOMAIN list /\ DOMAIN list = 1 .. k /\ k \in Nat
          /\ \A i \in DOMAIN list : i # k => new[i] = list[i]
          /\ \A i \in DOMAIN list : new[i].first = list[i].first
      <3>1. k \in DOMAIN list /\ list[k] \in Interval
        BY <1>1, <1>4 DEF StartsNew
      <3>2. new = [list EXCEPT ![k] = Extended(@, y)]
        BY <1>4 DEF With
      <3>3. QED
        BY <1>1, <3>1, <3>2 DEF Extended
    <2> HIDE DEF new, k
    <2>2. ASSUME NEW i \in DOMAIN new, NEW j \in DOMAIN new, i < j
          PROVE  new[i].last + 1 < new[j].first
      BY <2>1, <2>2 DEF Separated
    <2>3. QED
      BY <1>2, <2>2 DEF Separated, new
  <1>5. QED
    BY <1>3, <1>4

LEMMA WithMissingSeparated ==
    ASSUME TypeOK, NEW e \in Event, NEW list \in Seq(Interval), Separated(list)
    PROVE  Separated(WithMissing(list, e))
  <1>1. CASE ~IsGap(e)
    BY <1>1 DEF WithMissing
  <1>2. CASE IsGap(e)
    <2> DEFINE x == Plus1(lastId)
               y == e.first - 1
    <2>1. x \in Id /\ y \in Id /\ x <= y
      BY <1>2, GapBounds
    <2>2. WithMissing(list, e) = With(list, x, y)
      BY <1>2 DEF WithMissing
    <2> HIDE DEF x, y
    <2>3. QED
      BY <2>1, <2>2, WithSeparated
  <1>3. QED
    BY <1>1, <1>2

(* What becomes of the three lists, whatever the outcome: Missing goes to   *)
(* invalid, and the event's ids to one of the two or, if it is stale, to    *)
(* none.                                                                    *)
LEMMA OutcomeCases ==
    ASSUME NEW e \in Event, NEW b \in 0 .. Len(snapshots), Outcome(e, b)
    PROVE  LET before == WithMissing(invalid, e) IN
           \/ trusted' = trusted /\ invalid' = With(before, e.first, e.final)
           \/ trusted' = With(trusted, e.first, e.final) /\ invalid' = before
           \/ Stale(e, b) /\ trusted' = trusted /\ invalid' = before
  BY DEF Outcome, BadSnapshot, Unanchored, Stale, GapFound, ApplyFails, Applied, Invalidate

(* In every reachable state the three lists are sorted and no two of their  *)
(* intervals touch, although interval() only looks at the last one.         *)
THEOREM AlwaysSeparated == Spec => []IntervalsSeparated
  <1>1. Init => IntervalsSeparated
    BY DEF Init, IntervalsSeparated, Separated
  <1>2. TypeOK /\ IntervalsSeparated /\ [Next]_vars => IntervalsSeparated'
    <2> SUFFICES ASSUME TypeOK, IntervalsSeparated, [Next]_vars
                 PROVE  IntervalsSeparated'
      OBVIOUS
    <2>1. CASE UNCHANGED <<trusted, invalid, gaps>>
      BY <2>1 DEF IntervalsSeparated, Separated
    <2>2. ASSUME NEW e \in Event, Deliver(e) PROVE IntervalsSeparated'
      <3>1. PICK c \in cursor .. Len(snapshots) + 1, b \in 0 .. Len(snapshots) :
                Receive(e, c, b) /\ Outcome(e, b)
        BY <2>2 DEF Deliver
      <3>2. e.first \in Id /\ e.final \in Id /\ e.first <= e.final
        BY <2>2 DEF Deliver, InOrder, Event
      <3>3. /\ trusted \in Seq(Interval) /\ invalid \in Seq(Interval) /\ gaps \in Seq(Interval)
            /\ Separated(trusted) /\ Separated(invalid) /\ Separated(gaps)
        BY DEF TypeOK, IntervalsSeparated
      <3> DEFINE before == WithMissing(invalid, e)
      <3>4. before \in Seq(Interval) /\ Separated(before)
        BY <3>3, WithMissingType, WithMissingSeparated
      <3>5. Separated(gaps')
        BY <3>1, <3>3, WithMissingSeparated DEF Receive
      <3>6. \/ trusted' = trusted /\ invalid' = With(before, e.first, e.final)
            \/ trusted' = With(trusted, e.first, e.final) /\ invalid' = before
            \/ trusted' = trusted /\ invalid' = before
        BY <3>1, OutcomeCases
      <3> HIDE DEF before
      <3>7. Separated(trusted') /\ Separated(invalid')
        BY <3>2, <3>3, <3>4, <3>6, WithSeparated
      <3>8. QED
        BY <3>5, <3>7 DEF IntervalsSeparated, Separated
    <2>3. QED
      BY <2>1, <2>2 DEF Next, Reject, Duplicate, vars, stats
  <1>3. QED
    BY <1>1, <1>2, TypeCorrect, PTL DEF Spec

-----------------------------------------------------------------------------
(* Coverage.  The stream is covered from its first event, which is not      *)
(* after the last one; before it the lists are empty.                       *)
Covered ==
    IF lastId = NoId THEN trusted = <<>> /\ invalid = <<>>
    ELSE \E first \in Id : /\ previous # NoEvent /\ first <= previous.first
                           /\ IdsOf(trusted) \cup IdsOf(invalid) = first .. lastId

(* The ids of the two lists after an event.                                 *)
LEMMA OutcomeCover ==
    ASSUME TypeOK, HeadInv, ListInv, NEW e \in Event, InOrder(e),
           NEW c \in cursor .. Len(snapshots) + 1, NEW b \in 0 .. Len(snapshots),
           Receive(e, c, b), Outcome(e, b)
    PROVE  LET all == IdsOf(trusted) \cup IdsOf(invalid) \cup Missing(e) IN
           \/ IdsOf(trusted') \cup IdsOf(invalid') = all \cup (e.first .. e.final)
           \/ /\ IdsOf(trusted') \cup IdsOf(invalid') = all
              /\ lastId # NoId /\ e.final <= lastId
  <1> DEFINE before == WithMissing(invalid, e)
  <1>1. e.first \in Id /\ e.final \in Id /\ e.first <= e.final /\ e.first <= e.first
    BY MaxIdAssumption DEF Event, InOrder, Id
  <1>2. /\ trusted \in Seq(Interval) /\ invalid \in Seq(Interval) /\ before \in Seq(Interval)
        /\ \A i \in DOMAIN trusted : trusted[i].first <= e.first
        /\ \A i \in DOMAIN before : before[i].first <= e.first
    BY WithMissingType, WithMissingBegins, BeginsByEvent DEF TypeOK, ListInv
  <1>3. IdsOf(before) = IdsOf(invalid) \cup Missing(e)
    BY <1>2, WithMissingIds DEF ListInv
  <1>4. \/ trusted' = trusted /\ invalid' = With(before, e.first, e.final)
        \/ trusted' = With(trusted, e.first, e.final) /\ invalid' = before
        \/ Stale(e, b) /\ trusted' = trusted /\ invalid' = before
    BY OutcomeCases
  <1> HIDE DEF before
  <1>5. ASSUME NEW list \in Seq(Interval), \A i \in DOMAIN list : list[i].first <= e.first
        PROVE  IdsOf(With(list, e.first, e.final)) = IdsOf(list) \cup (e.first .. e.final)
    BY <1>1, <1>5, WithAddsOnly, WithKeeps, WithAdds
  <1>6. Stale(e, b) => lastId # NoId /\ e.final <= lastId
    <2> SUFFICES ASSUME Stale(e, b) PROVE lastId # NoId /\ e.final <= lastId
      OBVIOUS
    <2>1. Anchor(b) # NoId /\ e.final <= Anchor(b)
      BY DEF Stale
    <2>2. b = 0
      <3>1. b # 0 => snapshots[b].id \in Id /\ snapshots[b].id < e.final
        BY ReceiveHead
      <3>2. QED
        BY <1>1, <2>1, <3>1, MaxIdAssumption DEF Anchor, Id
    <2>3. book # NoId /\ book = lastId
      BY <2>1, <2>2 DEF Anchor, HeadInv, BookAtStreamHead
    <2>4. QED
      BY <2>1, <2>2, <2>3 DEF Anchor
  <1>7. QED
    BY <1>2, <1>3, <1>4, <1>5, <1>6

LEMMA DeliverCovers ==
    ASSUME TypeOK, HeadInv, ListInv, Covered, NEW e \in Event, Deliver(e)
    PROVE  Covered'
  <1>1. PICK c \in cursor .. Len(snapshots) + 1, b \in 0 .. Len(snapshots) :
            Receive(e, c, b) /\ Outcome(e, b)
    BY DEF Deliver
  <1>2. InOrder(e)
    BY DEF Deliver
  <1>3. /\ e.first \in Id /\ e.final \in Id /\ e.first <= e.final
        /\ previous' = e /\ previous' # NoEvent
        /\ lastId' \in Id /\ lastId' # NoId
        /\ previous # NoEvent => previous.first <= e.first
        /\ lastId' = e.final \/ (lastId # NoId /\ lastId' = lastId /\ e.final <= lastId)
        /\ lastId # NoId => lastId <= lastId'
    BY <1>1, <1>2, ReceiveHead, SentinelAssumption DEF Id
  <1> DEFINE all == IdsOf(trusted) \cup IdsOf(invalid) \cup Missing(e)
             new == IdsOf(trusted') \cup IdsOf(invalid')
  <1>4. \/ new = all \cup (e.first .. e.final)
        \/ new = all /\ lastId # NoId /\ e.final <= lastId
    BY <1>1, <1>2, OutcomeCover
  <1>5. CASE lastId = NoId
    <2>1. all = {}
      BY <1>5 DEF Covered, IdsOf, Missing, IsGap
    <2>2. new = e.first .. e.final /\ lastId' = e.final
      BY <1>3, <1>4, <1>5, <2>1
    <2>3. e.first <= e.first
      BY <1>3, MaxIdAssumption DEF Id
    <2>4. QED
      BY <1>3, <2>2, <2>3 DEF Covered
  <1>6. CASE lastId # NoId
    <2>1. PICK first \in Id : /\ previous # NoEvent /\ first <= previous.first
                              /\ IdsOf(trusted) \cup IdsOf(invalid) = first .. lastId
      BY <1>6 DEF Covered
    <2>2. /\ lastId \in Id /\ previous \in Event /\ previous.first \in Id
          /\ previous.first <= previous.final /\ previous.final <= lastId
          /\ previous.final \in Id
      BY <2>1 DEF TypeOK, HeadInv, PreviousCounted, Event
    <2>3. first <= e.first /\ first <= lastId
      BY <1>3, <2>1, <2>2, MaxIdAssumption DEF Id
    <2>4. IsGap(e) <=> e.first > lastId + 1
      BY <1>3, <1>6, <2>2, BeyondIsGap DEF IsGap
    <2>8. /\ first \in Nat /\ lastId \in Nat /\ e.first \in Nat /\ e.final \in Nat
          /\ lastId' \in Nat /\ lastId <= lastId'
      BY <1>3, <1>6, <2>2, MaxIdAssumption DEF Id
    <2>5. new = first .. lastId'
      <3>1. CASE IsGap(e)
        <4>1. all = (first .. lastId) \cup (lastId + 1 .. e.first - 1)
          BY <2>1, <3>1 DEF Missing
        <4>2. ~(e.final <= lastId) /\ lastId' = e.final
          BY <1>3, <2>2, <2>4, <3>1, MaxIdAssumption DEF Id
        <4>3. new = all \cup (e.first .. e.final)
          BY <1>4, <4>2
        <4> HIDE DEF all, new
        <4>4. QED
          <5>1. /\ e.first > lastId + 1 /\ lastId <= e.final /\ e.final <= e.final
                /\ first \in Nat /\ lastId \in Nat /\ e.first \in Nat /\ e.final \in Nat
                /\ first <= e.first /\ first <= lastId /\ e.first <= e.final
            BY <1>3, <2>3, <2>4, <2>8, <3>1
          <5>2. ((first .. lastId) \cup (lastId + 1 .. e.first - 1)) \cup (e.first .. e.final)
                    = first .. e.final
            <6>1. ASSUME NEW n
                  PROVE  n \in ((first .. lastId) \cup (lastId + 1 .. e.first - 1))
                                   \cup (e.first .. e.final)
                         <=> n \in first .. e.final
              BY SMTT(30), <5>1
            <6>2. QED
              BY <6>1, Zenon
          <5>3. QED
            BY <4>1, <4>2, <4>3, <5>2
      <3>2. CASE ~IsGap(e)
        <4>1. all = first .. lastId
          BY <2>1, <3>2 DEF Missing
        <4>2. e.first <= lastId + 1
          BY <1>3, <2>2, <2>4, <3>2, MaxIdAssumption DEF Id
        <4> HIDE DEF all, new
        <4>3. CASE new = all \cup (e.first .. e.final)
          <5>1. e.final <= lastId' /\ (lastId' = e.final \/ lastId' = lastId)
            BY <1>3, <2>8
          <5>2. (first .. lastId) \cup (e.first .. e.final) = first .. lastId'
            <6>1. PICK z \in Nat :
                      /\ z = lastId' /\ (z = e.final \/ z = lastId)
                      /\ lastId <= z /\ e.final <= z
                      /\ first \in Nat /\ lastId \in Nat
                      /\ e.first \in Nat /\ e.final \in Nat
                      /\ first <= e.first /\ first <= lastId /\ e.first <= e.final
                      /\ e.first <= lastId + 1
              BY <1>3, <2>3, <2>8, <4>2, <5>1
            <6>2. (first .. lastId) \cup (e.first .. e.final) = first .. z
              <7>1. ASSUME NEW n
                    PROVE  n \in (first .. lastId) \cup (e.first .. e.final)
                           <=> n \in first .. z
                BY <6>1
              <7>2. QED
                BY <7>1, Zenon
            <6>3. QED
              BY <6>1, <6>2
          <5>3. QED
            BY <4>1, <4>3, <5>2
        <4>4. CASE new = all /\ e.final <= lastId
          <5>1. lastId' = lastId
            BY <1>3, <2>8, <4>4
          <5>2. QED
            BY <4>1, <4>4, <5>1
        <4>5. QED
          BY <1>4, <4>3, <4>4
      <3>3. QED
        BY <3>1, <3>2
    <2>6. first <= previous'.first
      BY <1>3, <2>3
    <2>7. QED
      BY <1>3, <2>5, <2>6 DEF Covered, IdsOf
  <1>7. QED
    BY <1>5, <1>6

(* The report accounts for the whole stream: the ids from its first event   *)
(* to its greatest are exactly those of the trusted and invalid lists,      *)
(* whichever batches were stale, overlapped or were missing.                *)
THEOREM StreamAlwaysCovered == Spec => []StreamCovered
  <1>1. Init => Covered
    BY DEF Init, Covered
  <1>2. TypeOK /\ HeadInv /\ ListInv /\ Covered /\ [Next]_vars => Covered'
    <2> SUFFICES ASSUME TypeOK, HeadInv, ListInv, Covered, [Next]_vars
                 PROVE  Covered'
      OBVIOUS
    <2>1. ASSUME NEW e \in Event, Duplicate(e) PROVE Covered'
      <3>1. /\ previous' = e /\ e.first = previous.first /\ e # NoEvent
            /\ UNCHANGED <<lastId, trusted, invalid>>
        BY <2>1, SentinelAssumption DEF Duplicate, SameRange
      <3>2. QED
        BY <3>1 DEF Covered, IdsOf
    <2>2. CASE UNCHANGED <<previous, lastId, trusted, invalid>>
      BY <2>2 DEF Covered, IdsOf
    <2>3. ASSUME NEW e \in Event, Deliver(e) PROVE Covered'
      BY <2>3, DeliverCovers
    <2>4. QED
      BY <2>1, <2>2, <2>3 DEF Next, Reject, vars, stats
  <1>3. TypeOK /\ HeadInv /\ Covered => StreamCovered
    <2> SUFFICES ASSUME TypeOK, HeadInv, Covered, lastId # NoId
                 PROVE  \E first \in Id : /\ first <= lastId
                            /\ IdsOf(trusted) \cup IdsOf(invalid) = first .. lastId
      BY DEF StreamCovered
    <2>1. PICK first \in Id : /\ previous # NoEvent /\ first <= previous.first
                              /\ IdsOf(trusted) \cup IdsOf(invalid) = first .. lastId
      BY DEF Covered
    <2>2. /\ lastId \in Id /\ previous.first \in Id /\ previous.final \in Id
          /\ previous.first <= previous.final /\ previous.final <= lastId
      BY <2>1 DEF TypeOK, HeadInv, PreviousCounted, Event
    <2>3. first <= lastId
      BY <2>1, <2>2, MaxIdAssumption DEF Id
    <2>4. QED
      BY <2>1, <2>3
  <1>4. QED
    BY <1>1, <1>2, <1>3, HeadInvariant, ListInvariant, PTL DEF Spec

-----------------------------------------------------------------------------
(* A bridge is used.  A snapshot that the cursor has passed lies behind the *)
(* stream; and while there is neither a book nor an error, each of them     *)
(* ends before the last event begins: had it bridged an event, there would  *)
(* have been a book, and only a gap beyond it gives that up.                *)
PassedBehind ==
    \A i \in DOMAIN snapshots :
        i < cursor => lastId # NoId /\ snapshots[i].id < lastId

PassedUnused ==
    book = NoId /\ errors = 0 =>
        \A i \in DOMAIN snapshots :
            i < cursor => previous # NoEvent /\ snapshots[i].id + 1 < previous.first

LEMMA SnapshotAt ==
    ASSUME TypeOK, NEW i \in DOMAIN snapshots
    PROVE  /\ i \in Nat /\ 1 <= i /\ i <= Len(snapshots)
           /\ snapshots[i] \in Snapshot /\ snapshots[i].id \in Id
  <1>1. snapshots \in Seq(Snapshot)
    BY DEF TypeOK
  <1>2. DOMAIN snapshots = 1 .. Len(snapshots) /\ Len(snapshots) \in Nat
    BY <1>1
  <1>3. snapshots[i] \in Snapshot
    BY <1>1
  <1>4. QED
    BY <1>2, <1>3 DEF Snapshot

(* Where the snapshots that the cursor passes for an event lie.             *)
LEMMA ReceivePasses ==
    ASSUME TypeOK, HeadInv, PassedBehind, NEW e \in Event, InOrder(e),
           NEW c \in cursor .. Len(snapshots) + 1, NEW b \in 0 .. Len(snapshots),
           Receive(e, c, b)
    PROVE  /\ PassedBehind'
           /\ b = 0 => \A i \in DOMAIN snapshots :
                           cursor <= i /\ i < c => snapshots[i].id + 1 < e.first
  <1>1. /\ e.first \in Id /\ e.final \in Id /\ lastId' \in Id /\ e.final <= lastId'
        /\ lastId # NoId => lastId <= lastId'
    BY ReceiveHead
  <1>2. cursor' = c /\ snapshots' = snapshots
    BY DEF Receive
  <1>3. \A i \in DOMAIN snapshots : snapshots[i].id \in Id /\ i \in Nat
    BY SnapshotAt
  <1>4. \A i \in DOMAIN snapshots : cursor <= i /\ i < c => snapshots[i].id < e.final
    <2>1. \A i \in cursor .. c - 1 : snapshots[i].id < e.final
      BY DEF Receive, StopsAt
    <2>2. cursor \in Nat /\ c \in Nat
      BY DEF TypeOK
    <2>3. QED
      BY <1>3, <2>1, <2>2
  <1>5. PassedBehind'
    <2> SUFFICES ASSUME NEW i \in DOMAIN snapshots, i < c
                 PROVE  lastId' # NoId /\ snapshots[i].id < lastId'
      BY <1>2 DEF PassedBehind
    <2>1. lastId' # NoId
      BY <1>1, SentinelAssumption DEF Id
    <2>2. cursor \in Nat /\ i \in Nat /\ snapshots[i].id \in Nat /\ lastId' \in Nat
          /\ e.final \in Nat
      BY SMTT(30), <1>1, <1>3, MaxIdAssumption DEF TypeOK, Id
    <2>3. CASE i < cursor
      <3>1. lastId # NoId /\ snapshots[i].id < lastId
        BY <2>3 DEF PassedBehind
      <3>2. lastId \in Nat
        BY <3>1, MaxIdAssumption DEF TypeOK, Id
      <3>3. QED
        BY <1>1, <2>1, <2>2, <3>1, <3>2
    <2>4. CASE cursor <= i
      BY <1>1, <1>4, <2>1, <2>2, <2>4
    <2>5. QED
      BY <2>2, <2>3, <2>4
  <1>6. ASSUME b = 0, NEW i \in DOMAIN snapshots, cursor <= i, i < c
        PROVE  snapshots[i].id + 1 < e.first
    <2>1. i \in cursor .. c - 1 /\ BridgesOf(e, c) = {}
      BY <1>3, <1>6 DEF Receive, IsBridge, BridgesOf, TypeOK
    <2>2. ~(e.first <= Plus1(snapshots[i].id) /\ Plus1(snapshots[i].id) <= e.final)
      BY <2>1 DEF BridgesOf
    <2>3. snapshots[i].id < e.final /\ Plus1(snapshots[i].id) = snapshots[i].id + 1
      BY <1>1, <1>3, <1>4, <1>6, Plus1OfSmaller
    <2>4. QED
      BY <1>1, <1>3, <2>2, <2>3, MaxIdAssumption DEF Id
  <1>7. QED
    BY <1>5, <1>6

LEMMA OutcomePasses ==
    ASSUME TypeOK, HeadInv, PassedBehind, PassedUnused, NEW e \in Event, InOrder(e),
           NEW c \in cursor .. Len(snapshots) + 1, NEW b \in 0 .. Len(snapshots),
           Receive(e, c, b), Outcome(e, b)
    PROVE  PassedUnused'
  <1>1. /\ e.first \in Id /\ e.final \in Id /\ previous' = e
        /\ previous # NoEvent => previous.first <= e.first
        /\ b # 0 => /\ snapshots[b].id \in Id /\ snapshots[b].id < e.final
                    /\ e.first <= snapshots[b].id + 1
    BY ReceiveHead
  <1>2. cursor' = c /\ snapshots' = snapshots /\ previous' # NoEvent
    BY SentinelAssumption DEF Receive
  <1>3. \A i \in DOMAIN snapshots : snapshots[i].id \in Id /\ i \in Nat
    BY SnapshotAt
  <1> SUFFICES ASSUME book' = NoId, errors' = 0, NEW i \in DOMAIN snapshots, i < c
               PROVE  snapshots[i].id + 1 < e.first
    BY <1>1, <1>2 DEF PassedUnused
  <1>4. /\ errors = 0 /\ b = 0
        /\ book = NoId \/ (book # NoId /\ Beyond(e.first, book))
    <2>1. ~BadSnapshot(e, b) /\ ~ApplyFails(e, b)
      BY DEF BadSnapshot, ApplyFails, TypeOK
    <2>2. \A top \in BOOLEAN : ~Applied(e, b, top)
      BY <1>1, SentinelAssumption DEF Applied, Id
    <2>3. ~Stale(e, b)
      BY DEF Stale
    <2>4. Unanchored(e, b) \/ GapFound(e, b)
      BY <2>1, <2>2, <2>3 DEF Outcome
    <2>5. CASE Unanchored(e, b)
      BY <1>1, <2>5, SentinelAssumption DEF Unanchored, Anchor, Id
    <2>6. CASE GapFound(e, b)
      <3>1. b = 0
        <4>1. ASSUME b # 0 PROVE FALSE
          <5>1. Beyond(e.first, snapshots[b].id)
            BY <2>6, <4>1 DEF GapFound, Anchor
          <5>2. e.first > snapshots[b].id + 1
            BY <1>1, <4>1, <5>1, BeyondIsGap
          <5>3. QED
            BY <1>1, <4>1, <5>2, MaxIdAssumption DEF Id
        <4>2. QED
          BY <4>1
      <3>2. QED
        BY <2>6, <3>1 DEF GapFound, Anchor
    <2>7. QED
      BY <2>4, <2>5, <2>6
  <1>5. CASE cursor <= i
    BY <1>4, <1>5, ReceivePasses
  <1>6. CASE i < cursor
    <2>1. lastId # NoId /\ snapshots[i].id < lastId /\ lastId \in Id
      BY <1>6 DEF PassedBehind, TypeOK
    <2>2. CASE book = NoId
      <3>1. previous # NoEvent /\ snapshots[i].id + 1 < previous.first /\ previous.first \in Id
        BY <1>4, <1>6, <2>2 DEF PassedUnused, TypeOK, Event
      <3>2. QED
        BY <1>1, <1>3, <3>1, MaxIdAssumption DEF Id
    <2>3. CASE book # NoId /\ Beyond(e.first, book)
      <3>1. book = lastId
        BY <2>3 DEF HeadInv, BookAtStreamHead
      <3>2. e.first > lastId + 1
        BY <1>1, <2>1, <2>3, <3>1, BeyondIsGap
      <3>3. QED
        BY <1>1, <1>3, <2>1, <3>2, MaxIdAssumption DEF Id
    <2>4. QED
      BY <1>4, <2>2, <2>3
  <1>7. QED
    BY <1>3, <1>5, <1>6 DEF TypeOK

(* What the cursor has passed, in every reachable state.                    *)
LEMMA PassedInvariant == Spec => [](PassedBehind /\ PassedUnused)
  <1>1. Init => PassedBehind /\ PassedUnused
    BY DEF Init, PassedBehind, PassedUnused
  <1>2. /\ TypeOK /\ HeadInv /\ PassedBehind /\ PassedUnused /\ [Next]_vars
        => PassedBehind' /\ PassedUnused'
    <2> SUFFICES ASSUME TypeOK, HeadInv, PassedBehind, PassedUnused, [Next]_vars
                 PROVE  PassedBehind' /\ PassedUnused'
      OBVIOUS
    <2>1. ASSUME NEW e \in Event, Duplicate(e) PROVE PassedBehind' /\ PassedUnused'
      <3>1. /\ previous' = e /\ e.first = previous.first /\ e # NoEvent
            /\ UNCHANGED <<snapshots, cursor, book, lastId, errors>>
        BY <2>1, SentinelAssumption DEF Duplicate, SameRange
      <3>2. QED
        BY <3>1 DEF PassedBehind, PassedUnused
    <2>2. CASE UNCHANGED <<snapshots, cursor, previous, book, lastId, errors>>
      BY <2>2 DEF PassedBehind, PassedUnused
    <2>3. ASSUME NEW e \in Event, Deliver(e) PROVE PassedBehind' /\ PassedUnused'
      BY <2>3, ReceivePasses, OutcomePasses DEF Deliver
    <2>4. QED
      BY <2>1, <2>2, <2>3 DEF Next, Reject, vars, stats
  <1>3. QED
    BY <1>1, <1>2, HeadInvariant, PTL DEF Spec

(* With sorted snapshots no event is left without a book, in the absence of *)
(* structural errors, although some snapshot bridges it: neither one the    *)
(* cursor passed for an earlier event nor one it has not reached            *)
(* (ReplayEngine::apply).                                                   *)
THEOREM BridgeIsAlwaysUsed == Spec => BridgeIsUsed
  <1> DEFINE Bridging(i) == /\ snapshots[i].id < previous'.final
                            /\ previous'.first <= snapshots[i].id + 1
                            /\ snapshots[i].id + 1 <= previous'.final
             Used == SortedSnapshots /\ errors' = 0 /\ status' = "unanchored" /\ events' # events
                     => \A i \in DOMAIN snapshots : ~Bridging(i)
  <1>1. TypeOK /\ HeadInv /\ PassedBehind /\ PassedUnused /\ [Next]_vars => [Used]_vars
    <2> SUFFICES ASSUME TypeOK, HeadInv, PassedBehind, PassedUnused, Next,
                        SortedSnapshots, errors' = 0, status' = "unanchored",
                        NEW i \in DOMAIN snapshots
                 PROVE  ~Bridging(i)
      OBVIOUS
    <2>1. PICK e \in Event : Deliver(e)
      BY DEF Next, Reject, Duplicate
    <2>2. PICK c \in cursor .. Len(snapshots) + 1, b \in 0 .. Len(snapshots) :
              Receive(e, c, b) /\ Outcome(e, b)
      BY <2>1 DEF Deliver
    <2>3. InOrder(e)
      BY <2>1 DEF Deliver
    <2>4. Unanchored(e, b)
      BY <2>2 DEF Outcome, BadSnapshot, Stale, GapFound, ApplyFails, Applied
    <2>5. /\ e.first \in Id /\ e.final \in Id /\ previous' = e
          /\ previous # NoEvent => previous.first <= e.first
          /\ b # 0 => snapshots[b].id \in Id
      BY <2>2, <2>3, ReceiveHead
    <2>6. b = 0 /\ book = NoId /\ errors = 0
      BY <2>4, <2>5, SentinelAssumption DEF Unanchored, Anchor, Id
    <2>7. /\ snapshots[i].id \in Id /\ i \in Nat /\ i <= Len(snapshots)
          /\ cursor \in Nat /\ cursor >= 1 /\ c \in Nat /\ c >= cursor
      <3>1. cursor \in Nat /\ cursor >= 1 /\ c \in Nat /\ c >= cursor
        BY DEF TypeOK
      <3>2. QED
        BY <3>1, SnapshotAt
    <2>8. CASE i < cursor
      <3>1. previous # NoEvent /\ snapshots[i].id + 1 < previous.first /\ previous.first \in Id
        BY <2>6, <2>8 DEF PassedUnused, TypeOK, Event
      <3>2. snapshots[i].id + 1 < e.first
        BY <2>5, <2>7, <3>1, MaxIdAssumption DEF Id
      <3>3. QED
        BY <2>5, <2>7, <3>2, MaxIdAssumption DEF Id
    <2>9. CASE cursor <= i /\ i < c
      <3>1. snapshots[i].id + 1 < e.first
        BY <2>2, <2>3, <2>6, <2>9, ReceivePasses
      <3>2. QED
        BY <2>5, <2>7, <3>1, MaxIdAssumption DEF Id
    <2>10. CASE c <= i
      <3>1. c \in DOMAIN snapshots /\ snapshots[c].id \in Id /\ snapshots[c].id >= e.final
        <4>1. c <= Len(snapshots) /\ c \in DOMAIN snapshots
          BY <2>7, <2>10 DEF TypeOK
        <4>2. snapshots[c].id >= e.final
          BY <2>2, <4>1 DEF Receive, StopsAt
        <4>3. QED
          BY <4>1, <4>2, SnapshotAt
      <3>2. snapshots[c].id <= snapshots[i].id
        BY <2>7, <2>10, <3>1, MaxIdAssumption DEF SortedSnapshots, Id
      <3>3. QED
        BY <2>5, <2>7, <3>1, <3>2, MaxIdAssumption DEF Id
    <2>11. QED
      BY <2>7, <2>8, <2>9, <2>10
  <1>2. QED
    BY <1>1, HeadInvariant, PassedInvariant, PTL DEF Spec, BridgeIsUsed

-----------------------------------------------------------------------------
(* The Python reference.  Its list operation is interval().                 *)
LEMMA SameWith ==
    ASSUME NEW list \in Seq(Interval), NEW x \in Id, NEW y \in Id
    PROVE  Reference!With(list, x, y) = With(list, x, y)
  <1>1. CASE list = <<>>
    BY <1>1 DEF With, StartsNew, Reference!With
  <1>2. CASE list # <<>>
    <2> DEFINE old == list[Len(list)]
    <2>1. Len(list) \in DOMAIN list /\ old \in Interval
      BY <1>2
    <2>2. old.last \in Id /\ old = [first |-> old.first, last |-> old.last]
      BY <2>1 DEF Interval
    <2>3. Beyond(x, old.last) <=> x > old.last + 1
      BY <2>2, BeyondIsGap
    <2>4. [old EXCEPT !.last = IF y > old.last THEN y ELSE old.last] = Extended(old, y)
      BY <2>2 DEF Extended
    <2>5. [list EXCEPT ![Len(list)].last = IF y > old.last THEN y ELSE old.last]
          = [list EXCEPT ![Len(list)] = Extended(@, y)]
      BY <2>1, <2>4
    <2>6. CASE x > old.last + 1
      BY <2>3, <2>6 DEF With, StartsNew, Reference!With
    <2>7. CASE ~(x > old.last + 1)
      BY <1>2, <2>3, <2>5, <2>7 DEF With, StartsNew, Reference!With
    <2>8. QED
      BY <2>6, <2>7
  <1>3. QED
    BY <1>1, <1>2

(* It adds the same missing ids.                                            *)
LEMMA SameMissing ==
    ASSUME TypeOK, HeadInv, NEW e \in Event, InOrder(e), NEW list \in Seq(Interval)
    PROVE  /\ Reference!FollowsGap(e) <=> IsGap(e)
           /\ Reference!Skipped(list, e) = WithMissing(list, e)
  <1>1. Reference!FollowsGap(e) <=> IsGap(e)
    <2>1. lastId # NoId => lastId \in Id
      BY DEF TypeOK
    <2>2. e.first \in Id
      BY DEF Event
    <2>3. QED
      BY <2>1, <2>2, BeyondIsGap DEF Reference!FollowsGap, IsGap
  <1>2. CASE IsGap(e)
    <2>1. /\ Plus1(lastId) \in Id /\ e.first - 1 \in Id
          /\ Plus1(lastId) = lastId + 1
      BY <1>2, GapBounds
    <2>2. Reference!With(list, Plus1(lastId), e.first - 1)
          = With(list, Plus1(lastId), e.first - 1)
      BY <2>1, SameWith
    <2>3. QED
      BY <1>1, <1>2, <2>1, <2>2 DEF Reference!Skipped, WithMissing
  <1>3. CASE ~IsGap(e)
    BY <1>1, <1>3 DEF Reference!Skipped, WithMissing
  <1>4. QED
    BY <1>1, <1>2, <1>3

(* It passes the same snapshots and finds the same bridge.                  *)
LEMMA SameBridge ==
    ASSUME TypeOK, NEW e \in Event, InOrder(e),
           NEW c \in cursor .. Len(snapshots) + 1, NEW b \in 0 .. Len(snapshots),
           StopsAt(e, c), IsBridge(b, e, c)
    PROVE  /\ Reference!Passed(e) = c - 1
           /\ Reference!Bridges(e) = BridgesOf(e, c)
           /\ Reference!Bridges(e) = {} <=> b = 0
           /\ b # 0 => Reference!Bridge(e) = snapshots[b]
  <1> DEFINE Stops(n) == /\ \A i \in cursor - 1 + 1 .. n : snapshots[i].id < e.final
                         /\ n < Len(snapshots) => snapshots[n + 1].id >= e.final
             N == cursor - 1 .. Len(snapshots)
             p == Reference!Passed(e)
  <1>1. cursor \in Nat /\ c \in Nat /\ Len(snapshots) \in Nat /\ cursor >= 1
        /\ cursor <= c /\ c <= Len(snapshots) + 1
    BY DEF TypeOK
  <1>2. \A i \in DOMAIN snapshots : snapshots[i].id \in Id /\ snapshots[i].id \in Nat
    BY SnapshotAt, MaxIdAssumption DEF Id
  <1>3. e.first \in Nat /\ e.final \in Id /\ e.final \in Nat /\ e.first <= e.final
    BY MaxIdAssumption DEF Event, Id, InOrder
  <1>4. c - 1 \in N /\ Stops(c - 1)
    <2>1. c - 1 \in N /\ cursor - 1 + 1 = cursor /\ c - 1 + 1 = c
      BY <1>1
    <2>2. c - 1 < Len(snapshots) => c <= Len(snapshots)
      BY <1>1
    <2>3. QED
      BY <2>1, <2>2 DEF StopsAt
  <1>5. p = CHOOSE n \in N : Stops(n)
    BY DEF Reference!Passed
  <1>6. p \in N /\ Stops(p)
    <2> HIDE DEF N, Stops, p
    <2>1. QED
      BY <1>4, <1>5
  <1>7. p = c - 1
    <2>1. ASSUME p < c - 1 PROVE FALSE
      <3>1. p + 1 \in cursor .. c - 1 /\ p < Len(snapshots) /\ p + 1 \in DOMAIN snapshots
        BY <1>1, <1>6, <2>1 DEF TypeOK
      <3>2. snapshots[p + 1].id < e.final
        BY <3>1 DEF StopsAt
      <3>3. snapshots[p + 1].id >= e.final
        BY <1>6, <3>1
      <3>4. QED
        BY <1>2, <1>3, <3>1, <3>2, <3>3
    <2>2. ASSUME p > c - 1 PROVE FALSE
      <3>1. c \in cursor - 1 + 1 .. p /\ c <= Len(snapshots) /\ c \in DOMAIN snapshots
        BY <1>1, <1>6, <2>2 DEF TypeOK
      <3>2. snapshots[c].id < e.final
        BY <1>6, <3>1
      <3>3. snapshots[c].id >= e.final
        BY <3>1 DEF StopsAt
      <3>4. QED
        BY <1>2, <1>3, <3>1, <3>2, <3>3
    <2>3. QED
      BY <1>1, <1>6, <2>1, <2>2
  <1> HIDE DEF p, N, Stops
  <1>8. Reference!Bridges(e) = BridgesOf(e, c)
    <2>1. Reference!Bridges(e)
          = {i \in cursor - 1 + 1 .. c - 1 : snapshots[i].id + 1 \in e.first .. e.final}
      BY <1>7 DEF Reference!Bridges, p
    <2>2. cursor - 1 + 1 = cursor
      BY <1>1
    <2>3. ASSUME NEW i \in cursor .. c - 1
          PROVE  snapshots[i].id + 1 \in e.first .. e.final
                 <=> e.first <= Plus1(snapshots[i].id) /\ Plus1(snapshots[i].id) <= e.final
      <3>1. i \in DOMAIN snapshots
        BY <1>1 DEF TypeOK
      <3>2. snapshots[i].id < e.final
        BY DEF StopsAt
      <3>3. Plus1(snapshots[i].id) = snapshots[i].id + 1
        BY <1>2, <1>3, <3>1, <3>2, Plus1OfSmaller
      <3>4. QED
        BY <1>2, <1>3, <3>1, <3>3
    <2>4. QED
      BY <2>1, <2>2, <2>3 DEF BridgesOf
  <1>9. BridgesOf(e, c) = {} <=> b = 0
    <2>1. 0 \notin BridgesOf(e, c)
      BY <1>1 DEF BridgesOf
    <2>2. QED
      BY <2>1 DEF IsBridge
  <1>10. ASSUME b # 0 PROVE Reference!Bridge(e) = snapshots[b]
    <2> DEFINE B == BridgesOf(e, c)
               m == CHOOSE i \in B : \A j \in B : j <= i
    <2>1. b \in B /\ \A j \in B : j <= b
      BY <1>9, <1>10 DEF IsBridge
    <2>2. B \subseteq Nat
      BY <1>1 DEF BridgesOf
    <2>3. Reference!Bridge(e) = snapshots[m]
      BY <1>8 DEF Reference!Bridge
    <2> HIDE DEF B
    <2>4. m \in B /\ \A j \in B : j <= m
      BY <2>1
    <2>5. m <= b /\ b <= m
      BY <2>1, <2>4
    <2>6. m = b
      <3> HIDE DEF m
      <3>1. QED
        BY <2>1, <2>2, <2>4, <2>5
    <2>7. QED
      BY <2>3, <2>6
  <1>11. QED
    BY <1>7, <1>8, <1>9, <1>10 DEF p

(* An event that is delivered is one pass of the reference's apply().       *)
LEMMA DeliverIsApply ==
    ASSUME TypeOK, HeadInv, NEW e \in Event, Deliver(e)
    PROVE  \E crossed, top \in BOOLEAN : Reference!Apply(e, crossed, top)
  <1>1. PICK c \in cursor .. Len(snapshots) + 1, b \in 0 .. Len(snapshots) :
            Receive(e, c, b) /\ Outcome(e, b)
    BY DEF Deliver
  <1>2. InOrder(e) /\ ~SameRange(e) /\ StopsAt(e, c) /\ IsBridge(b, e, c)
    BY <1>1 DEF Deliver, Receive
  <1>3. /\ e.first \in Id /\ e.final \in Id /\ e.first <= e.final
        /\ previous' = e /\ snapshots' = snapshots /\ cursor' = c
    BY <1>1, <1>2, ReceiveHead DEF Receive
  <1>4. /\ Reference!Passed(e) = c - 1
        /\ Reference!Bridges(e) = {} <=> b = 0
        /\ b # 0 => Reference!Bridge(e) = snapshots[b]
    BY <1>2, SameBridge
  <1>5. /\ Reference!Broken(e) <=> b # 0 /\ ~Loads(b)
        /\ Reference!Bridges(e) # {} /\ ~Reference!Broken(e) <=> Loads(b)
        /\ Reference!Start(e) = Anchor(b)
    BY <1>4 DEF Reference!Broken, Reference!Start, Loads, Anchor
  <1>6. Anchor(b) \in Id \cup {NoId} /\ (b # 0 => Anchor(b) \in Id)
    <2>1. CASE b = 0
      BY <2>1 DEF Anchor, TypeOK
    <2>2. CASE b # 0
      BY <1>1, <1>2, <2>2, ReceiveHead DEF Anchor
    <2>3. QED
      BY <2>1, <2>2
  <1>7. ~Reference!Unsorted(e) /\ ~Reference!Repeats(e)
    BY <1>2 DEF InOrder, Precedes, SameRange, Reference!Unsorted, Reference!KeyBelow,
                Reference!Repeats
  <1>8. /\ sequenceGaps' = IF Reference!FollowsGap(e) THEN sequenceGaps + 1 ELSE sequenceGaps
        /\ gaps' = Reference!Skipped(gaps, e)
        /\ lastId' = IF lastId = NoId \/ e.final > lastId THEN e.final ELSE lastId
        /\ cursor' - 1 = Reference!Passed(e)
        /\ UNCHANGED snapshots
    BY <1>1, <1>2, <1>3, <1>4, SameMissing DEF Receive, GreatestId, TypeOK
  <1> DEFINE before == Reference!Skipped(invalid, e)
  <1>9. /\ before = WithMissing(invalid, e) /\ before \in Seq(Interval)
        /\ Reference!With(before, e.first, e.final) = With(before, e.first, e.final)
        /\ Reference!With(trusted, e.first, e.final) = With(trusted, e.first, e.final)
    <2>1. trusted \in Seq(Interval) /\ invalid \in Seq(Interval)
      BY DEF TypeOK
    <2>2. before = WithMissing(invalid, e)
      BY <1>2, <2>1, SameMissing
    <2>3. before \in Seq(Interval)
      BY <1>2, <2>1, <2>2, WithMissingType
    <2>4. QED
      BY <1>3, <2>1, <2>2, <2>3, SameWith
  <1> HIDE DEF before
  <1> DEFINE Ends(s, new, dropped, kept) ==
                 /\ status' = s
                 /\ segments' = IF Loads(b) THEN segments + 1 ELSE segments
                 /\ errors' = IF s = "structural_error" THEN errors + 1 ELSE errors
                 /\ book' = new
                 /\ trusted' = IF kept THEN With(trusted, e.first, e.final) ELSE trusted
                 /\ invalid' = IF dropped THEN With(before, e.first, e.final) ELSE before
  <1>10. ASSUME NEW crossed \in BOOLEAN, NEW top \in BOOLEAN, NEW new, NEW s,
                s = Reference!StatusOf(e, crossed),
                new = IF s = "stale" THEN Anchor(b) ELSE IF s = "applied" THEN e.final ELSE NoId,
                Ends(s, new, ~(s = "applied" /\ top) /\ s # "stale", s = "applied" /\ top)
         PROVE  Reference!Apply(e, crossed, top)
    <2>1. /\ status' = s
          /\ segments' = IF Reference!Bridges(e) # {} /\ ~Reference!Broken(e)
                           THEN segments + 1 ELSE segments
          /\ errors' = IF s = "structural_error" THEN errors + 1 ELSE errors
          /\ book' = IF s = "stale" THEN Reference!Start(e)
                     ELSE IF s = "applied" THEN e.final ELSE NoId
      BY <1>5, <1>10
    <2>2. /\ trusted' = IF s = "applied" /\ top
                          THEN Reference!With(trusted, e.first, e.final) ELSE trusted
          /\ invalid' = IF (s = "applied" /\ top) \/ s = "stale" THEN before
                        ELSE Reference!With(before, e.first, e.final)
      BY <1>9, <1>10
    <2>3. QED
      BY <1>3, <1>7, <1>8, <1>10, <2>1, <2>2 DEF Reference!Apply, before
  <1>11. CASE BadSnapshot(e, b)
    <2>1. Reference!StatusOf(e, FALSE) = "structural_error"
      BY <1>5, <1>11 DEF Reference!StatusOf, BadSnapshot
    <2>2. Ends("structural_error", NoId, TRUE, FALSE)
      BY <1>9, <1>11 DEF BadSnapshot, Invalidate
    <2>3. Reference!Apply(e, FALSE, FALSE)
      BY <1>10, <2>1, <2>2
    <2>4. QED
      BY <2>3
  <1>12. ASSUME Anchored(b) PROVE ~Reference!Broken(e)
    BY <1>5, <1>12 DEF Anchored
  <1>13. CASE Unanchored(e, b)
    <2>1. Reference!StatusOf(e, FALSE) = "unanchored"
      BY <1>5, <1>12, <1>13 DEF Reference!StatusOf, Unanchored
    <2>2. book' = NoId
      BY <1>6, <1>13, SentinelAssumption, MaxIdAssumption DEF Unanchored, Anchor, Id
    <2>3. Ends("unanchored", NoId, TRUE, FALSE)
      BY <1>9, <1>13, <2>2 DEF Unanchored, Anchored, Invalidate
    <2>4. Reference!Apply(e, FALSE, FALSE)
      BY <1>10, <2>1, <2>3
    <2>5. QED
      BY <2>4
  <1>14. CASE Stale(e, b)
    <2>1. Reference!StatusOf(e, FALSE) = "stale"
      BY <1>5, <1>12, <1>14 DEF Reference!StatusOf, Stale
    <2>2. Ends("stale", Anchor(b), FALSE, FALSE)
      BY <1>9, <1>14 DEF Stale, Anchored
    <2>3. Reference!Apply(e, FALSE, FALSE)
      BY <1>10, <2>1, <2>2
    <2>4. QED
      BY <2>3
  <1>15. ASSUME Anchor(b) # NoId PROVE Beyond(e.first, Anchor(b)) <=> e.first > Anchor(b) + 1
    BY <1>3, <1>6, <1>15, BeyondIsGap
  <1>16. ASSUME Anchor(b) # NoId, e.final > Anchor(b) PROVE ~(e.final <= Anchor(b))
    BY <1>3, <1>6, <1>16, MaxIdAssumption DEF Id
  <1>17. CASE GapFound(e, b)
    <2>1. Reference!StatusOf(e, FALSE) = "gap"
      BY <1>5, <1>12, <1>15, <1>16, <1>17 DEF Reference!StatusOf, GapFound
    <2>2. Ends("gap", NoId, TRUE, FALSE)
      BY <1>9, <1>17 DEF GapFound, Anchored, Invalidate
    <2>3. Reference!Apply(e, FALSE, FALSE)
      BY <1>10, <2>1, <2>2
    <2>4. QED
      BY <2>3
  <1>18. CASE ApplyFails(e, b)
    <2>1. Reference!StatusOf(e, TRUE) = "structural_error"
      BY <1>5, <1>12, <1>15, <1>16, <1>18 DEF Reference!StatusOf, ApplyFails, Applies
    <2>2. Ends("structural_error", NoId, TRUE, FALSE)
      BY <1>9, <1>18 DEF ApplyFails, Applies, Anchored, Invalidate, BookAfterError
    <2>3. Reference!Apply(e, TRUE, FALSE)
      BY <1>10, <2>1, <2>2
    <2>4. QED
      BY <2>3
  <1>19. ASSUME NEW top \in BOOLEAN, Applied(e, b, top)
         PROVE  Reference!Apply(e, FALSE, top)
    <2>1. Reference!StatusOf(e, FALSE) = "applied"
      BY <1>5, <1>12, <1>15, <1>16, <1>19 DEF Reference!StatusOf, Applied, Applies
    <2>2. Ends("applied", e.final, ~top, top)
      BY <1>9, <1>19 DEF Applied, Applies, Anchored, Invalidate
    <2>3. QED
      BY <1>10, <2>1, <2>2
  <1>20. QED
    BY <1>1, <1>11, <1>13, <1>14, <1>17, <1>18, <1>19 DEF Outcome

(* The engine refuses every event that the reference refuses but a repeated *)
(* range with the same numbers spelt otherwise, and no other event.         *)
LEMMA RefusalsAgree ==
    ASSUME TypeOK
    PROVE  \A e \in Event : Reference!Refuses(e) <=> e \in Refused \/ Respelt(e)
  <1> SUFFICES ASSUME NEW e \in Event
               PROVE  Reference!Refuses(e) <=> e \in Refused \/ Respelt(e)
    OBVIOUS
  <1>1. InOrder(e) <=> e.first <= e.final /\ ~Reference!Unsorted(e)
    BY DEF InOrder, Precedes, Reference!Unsorted, Reference!KeyBelow
  <1>2. ~InOrder(e) <=> e.first > e.final \/ Reference!Unsorted(e)
    BY <1>1, MaxIdAssumption DEF Event, Id
  <1>3. SameRange(e) <=> Reference!Repeats(e)
    BY DEF SameRange, Reference!Repeats
  <1>4. e.updates = previous.updates => SameUpdates(e)
    BY DEF SameUpdates
  <1>5. e \in Refused <=> ~InOrder(e) \/ (SameRange(e) /\ ~SameUpdates(e))
    BY DEF Refused
  <1>6. Respelt(e) <=> InOrder(e) /\ SameRange(e) /\ SameUpdates(e)
                        /\ e.updates # previous.updates
    BY DEF Respelt, SameUpdates
  <1>7. Reference!Refuses(e)
          <=> ~InOrder(e) \/ (SameRange(e) /\ e.updates # previous.updates)
    BY <1>2, <1>3 DEF Reference!Refuses
  <1>8. QED
    BY <1>4, <1>5, <1>6, <1>7

(* The C++ engine and the Python reference that an export carries go        *)
(* through the same states on every stream, and refuse the same events, but *)
(* that only the reference refuses a repeated range whose text differs and  *)
(* whose numbers do not: what `counterback_replay compare` asks of one      *)
(* day's checkpoints (ReplayEngine::apply, ReferenceReplay.apply).          *)
THEOREM EngineIsReference == Spec => ReferenceAgrees
  <1>1. Init => Reference!Init
    BY DEF Init, Reference!Init, Reference!Snapshot, Snapshot
  <1>2. TypeOK /\ HeadInv /\ [Next]_vars
          => [Reference!Next \/ TakesRespelt]_(Reference!vars)
    <2> SUFFICES ASSUME TypeOK, HeadInv, [Next]_vars
                 PROVE  Reference!Next \/ TakesRespelt \/ UNCHANGED Reference!vars
      OBVIOUS
    <2>1. CASE UNCHANGED vars
      BY <2>1 DEF vars, stats, Reference!vars, Reference!stats, Reference!lists
    <2>2. Event = Reference!Event
      BY DEF Event, Reference!Event
    <2>3. CASE Reject
      <3>1. PICK e \in Refused : TRUE
        BY <2>3 DEF Reject
      <3>2. e \in Event /\ Reference!Refuses(e)
        BY <3>1, RefusalsAgree DEF Refused
      <3>3. status # "rejected" /\ Reference!Raise(e)
        BY <2>3, <3>2 DEF Reject, Replaying, Reference!Raise, Reference!stats, Reference!lists
      <3>4. QED
        BY <2>2, <3>2, <3>3 DEF Reference!Next
    <2>4. ASSUME NEW e \in Event, Duplicate(e) PROVE Reference!Next \/ TakesRespelt
      <3>1. status # "rejected" /\ previous' = e
        BY <2>4 DEF Duplicate, Replaying
      <3>2. CASE e.updates = previous.updates
        <4>1. e.first <= e.final /\ ~Reference!Unsorted(e) /\ Reference!Repeats(e)
          BY <2>4 DEF Duplicate, InOrder, Precedes, SameRange, Reference!Unsorted,
                      Reference!KeyBelow, Reference!Repeats
        <4>2. Reference!Read(e)
          BY <2>4, <3>1, <3>2, <4>1 DEF Duplicate, Reference!Read, Reference!Repeat,
                                        Reference!stats, Reference!lists
        <4>3. QED
          BY <2>2, <3>1, <4>2 DEF Reference!Next
      <3>3. CASE e.updates # previous.updates
        <4>1. Respelt(e)
          BY <2>4, <3>3 DEF Duplicate, SameUpdates, Respelt
        <4>2. TakesRespelt
          BY <2>4, <3>1, <4>1 DEF Duplicate, TakesRespelt, Reference!stats, Reference!lists
        <4>3. QED
          BY <4>2
      <3>4. QED
        BY <3>2, <3>3
    <2>5. ASSUME NEW e \in Event, Deliver(e) PROVE Reference!Next
      <3>1. previous' = e /\ status # "rejected"
        BY <2>5 DEF Deliver, Receive, Replaying
      <3>2. Reference!Read(e)
        BY <2>5, <3>1, DeliverIsApply DEF Reference!Read
      <3>3. QED
        BY <2>2, <3>1, <3>2 DEF Reference!Next
    <2>6. QED
      BY <2>1, <2>3, <2>4, <2>5 DEF Next
  <1>3. TypeOK => \A e \in Event : Reference!Refuses(e) <=> e \in Refused \/ Respelt(e)
    BY RefusalsAgree
  <1>4. Spec => [](\A e \in Event : Reference!Refuses(e) <=> e \in Refused \/ Respelt(e))
    BY <1>3, TypeCorrect, PTL
  <1>5. Spec => Reference!Init /\ [][Reference!Next \/ TakesRespelt]_(Reference!vars)
    BY <1>1, <1>2, TypeCorrect, HeadInvariant, PTL DEF Spec
  <1>6. QED
    BY <1>4, <1>5 DEF ReferenceAgrees

-----------------------------------------------------------------------------
(* The Python verifier.  It passes the same snapshots and finds the same    *)
(* bridge.                                                                  *)
LEMMA VerifierBridge ==
    ASSUME TypeOK, NEW e \in Event, InOrder(e),
           NEW c \in cursor .. Len(snapshots) + 1, NEW b \in 0 .. Len(snapshots),
           StopsAt(e, c), IsBridge(b, e, c)
    PROVE  /\ c - 1 \in 0 .. Len(snapshots) /\ Verifier!Passed(e.final, c - 1)
           /\ Verifier!Bridging(e.first, e.final, c - 1) = {} <=> b = 0
           /\ b # 0 => Verifier!Max(Verifier!Bridging(e.first, e.final, c - 1)) = b
  <1>1. cursor \in Nat /\ c \in Nat /\ Len(snapshots) \in Nat /\ cursor >= 1
        /\ cursor <= c /\ c <= Len(snapshots) + 1
    BY DEF TypeOK
  <1>2. \A i \in DOMAIN snapshots : snapshots[i].id \in Id /\ snapshots[i].id \in Nat
    BY SnapshotAt, MaxIdAssumption DEF Id
  <1>3. e.first \in Nat /\ e.final \in Id /\ e.final \in Nat /\ e.first <= e.final
    BY MaxIdAssumption DEF Event, Id, InOrder
  <1>4. c - 1 \in 0 .. Len(snapshots) /\ Verifier!Passed(e.final, c - 1)
    <2>1. c - 1 \in cursor - 1 .. Len(snapshots) /\ c - 1 \in 0 .. Len(snapshots)
          /\ cursor - 1 + 1 = cursor /\ c - 1 + 1 = c
      BY <1>1
    <2>2. c - 1 < Len(snapshots) => c <= Len(snapshots)
      BY <1>1
    <2>3. QED
      BY <2>1, <2>2 DEF StopsAt, Verifier!Passed
  <1>5. Verifier!Bridging(e.first, e.final, c - 1) = BridgesOf(e, c)
    <2>1. cursor - 1 + 1 = cursor
      BY <1>1
    <2>2. ASSUME NEW i \in cursor .. c - 1
          PROVE  Plus1(snapshots[i].id) = snapshots[i].id + 1
      <3>1. i \in DOMAIN snapshots
        BY <1>1 DEF TypeOK
      <3>2. snapshots[i].id < e.final
        BY DEF StopsAt
      <3>3. QED
        BY <1>2, <1>3, <3>1, <3>2, Plus1OfSmaller
    <2>3. QED
      BY <2>1, <2>2 DEF BridgesOf, Verifier!Bridging
  <1>6. BridgesOf(e, c) = {} <=> b = 0
    <2>1. 0 \notin BridgesOf(e, c)
      BY <1>1 DEF BridgesOf
    <2>2. QED
      BY <2>1 DEF IsBridge
  <1>7. ASSUME b # 0 PROVE Verifier!Max(BridgesOf(e, c)) = b
    <2> DEFINE B == BridgesOf(e, c)
               m == CHOOSE i \in B : \A j \in B : i >= j
    <2>1. b \in B /\ \A j \in B : j <= b
      BY <1>6, <1>7 DEF IsBridge
    <2>2. B \subseteq Nat
      BY <1>1 DEF BridgesOf
    <2>3. Verifier!Max(B) = m
      BY DEF Verifier!Max
    <2> HIDE DEF B
    <2>4. b \in B /\ \A j \in B : b >= j
      BY <2>1, <2>2
    <2>5. m \in B /\ \A j \in B : m >= j
      BY <2>4
    <2>6. m = b
      <3> HIDE DEF m
      <3>1. QED
        BY <2>2, <2>4, <2>5
    <2>7. QED
      BY <2>3, <2>6 DEF B
  <1>8. QED
    BY <1>4, <1>5, <1>6, <1>7

(* An event that is delivered is one pass of the verifier's loop.           *)
LEMMA DeliverIsProcess ==
    ASSUME TypeOK, HeadInv, ListInv, NEW e \in Event, Deliver(e)
    PROVE  \E crossed, top \in BOOLEAN : Verifier!Process(e.first, e.final, crossed, top)
  <1>1. PICK c \in cursor .. Len(snapshots) + 1, b \in 0 .. Len(snapshots) :
            Receive(e, c, b) /\ Outcome(e, b)
    BY DEF Deliver
  <1>2. InOrder(e) /\ StopsAt(e, c) /\ IsBridge(b, e, c)
    BY <1>1 DEF Deliver, Receive
  <1>3. /\ e.first \in Id /\ e.final \in Id /\ e.first <= e.final
        /\ snapshots' = snapshots /\ cursor' = c
    BY <1>1, <1>2, ReceiveHead DEF Receive
  <1> DEFINE found == Verifier!Bridging(e.first, e.final, c - 1)
             broken == found # {} /\ ~snapshots[Verifier!Max(found)].sound
             start  == IF found = {} THEN book ELSE snapshots[Verifier!Max(found)].id
             stale  == start # NoId /\ e.final <= start
             usable == ~broken /\ start # NoId /\ ~stale /\ e.first <= start + 1
  <1>4. /\ c - 1 \in 0 .. Len(snapshots) /\ Verifier!Passed(e.final, c - 1)
        /\ found = {} <=> b = 0
        /\ b # 0 => Verifier!Max(found) = b
    BY <1>2, VerifierBridge
  <1>5. /\ broken <=> b # 0 /\ ~Loads(b)
        /\ found # {} /\ ~broken <=> Loads(b)
        /\ start = Anchor(b)
    <2> HIDE DEF found
    <2>1. QED
      BY <1>4 DEF Loads, Anchor
  <1>6. Anchor(b) \in Id \cup {NoId} /\ (b # 0 => Anchor(b) \in Id)
    <2>1. CASE b = 0
      BY <2>1 DEF Anchor, TypeOK
    <2>2. CASE b # 0
      BY <1>1, <1>2, <2>2, ReceiveHead DEF Anchor
    <2>3. QED
      BY <2>1, <2>2
  <1>7. /\ sequenceGaps' = IF Verifier!IsGap(e.first) THEN sequenceGaps + 1 ELSE sequenceGaps
        /\ lastId' = IF lastId = NoId \/ e.final > lastId THEN e.final ELSE lastId
    <2>1. IsGap(e) <=> Verifier!IsGap(e.first)
      BY <1>3, BeyondIsGap DEF IsGap, Verifier!IsGap, TypeOK
    <2>2. QED
      BY <1>1, <2>1 DEF Receive, GreatestId
  <1>8. IdsOf(With(trusted, e.first, e.final)) = IdsOf(trusted) \cup (e.first .. e.final)
    <2>1. trusted \in Seq(Interval) /\ \A i \in DOMAIN trusted : trusted[i].first <= e.first
      BY <1>2, BeginsByEvent DEF TypeOK, ListInv
    <2>2. QED
      BY <1>3, <2>1, WithAddsOnly, WithKeeps, WithAdds
  <1> DEFINE Ends(crossed, top) ==
                 /\ segments' = IF Loads(b) THEN segments + 1 ELSE segments
                 /\ errors' = IF broken \/ (usable /\ crossed) THEN errors + 1 ELSE errors
                 /\ book' = IF ~broken /\ stale THEN start
                            ELSE IF usable /\ ~crossed THEN e.final ELSE NoId
                 /\ IdsOf(trusted') = IF usable /\ ~crossed /\ top
                                        THEN IdsOf(trusted) \cup (e.first .. e.final)
                                        ELSE IdsOf(trusted)
  <1>9. ASSUME NEW crossed \in BOOLEAN, NEW top \in BOOLEAN, Ends(crossed, top)
        PROVE  Verifier!Process(e.first, e.final, crossed, top)
    BY <1>3, <1>4, <1>5, <1>7, <1>9 DEF Verifier!Process
  <1> HIDE DEF found, broken, start, stale, usable
  <1>10. ASSUME Anchored(b) PROVE ~broken
    BY <1>5, <1>10 DEF Anchored
  <1>11. ASSUME Anchor(b) # NoId
         PROVE  /\ Beyond(e.first, Anchor(b)) <=> ~(e.first <= Anchor(b) + 1)
                /\ e.final > Anchor(b) <=> ~(e.final <= Anchor(b))
                /\ stale <=> e.final <= Anchor(b)
    <2>1. Anchor(b) \in Id
      BY <1>6, <1>11
    <2>2. Beyond(e.first, Anchor(b)) <=> e.first > Anchor(b) + 1
      BY <1>3, <2>1, BeyondIsGap
    <2>3. QED
      BY <1>3, <1>5, <1>11, <2>1, <2>2, MaxIdAssumption DEF Id, stale
  <1>12. CASE BadSnapshot(e, b)
    <2>1. broken /\ ~usable
      BY <1>5, <1>12 DEF BadSnapshot, usable
    <2>2. Ends(FALSE, FALSE)
      BY <1>5, <1>12, <2>1 DEF BadSnapshot, Invalidate
    <2>3. QED
      BY <1>9, <2>2
  <1>13. CASE Unanchored(e, b)
    <2>1. ~broken /\ ~usable /\ ~stale
      BY <1>5, <1>10, <1>13 DEF Unanchored, usable, stale
    <2>2. book' = NoId
      BY <1>6, <1>13, SentinelAssumption, MaxIdAssumption DEF Unanchored, Anchor, Id
    <2>3. Ends(FALSE, FALSE)
      BY <1>13, <2>1, <2>2 DEF Unanchored, Anchored, Invalidate
    <2>4. QED
      BY <1>9, <2>3
  <1>14. CASE Stale(e, b)
    <2>1. ~broken /\ ~usable /\ stale
      BY <1>5, <1>10, <1>14 DEF Stale, usable, stale
    <2>2. Ends(FALSE, FALSE)
      BY <1>5, <1>14, <2>1 DEF Stale, Anchored
    <2>3. QED
      BY <1>9, <2>2
  <1>15. CASE GapFound(e, b)
    <2>1. ~broken /\ ~usable /\ ~stale
      BY <1>5, <1>10, <1>11, <1>15 DEF GapFound, usable
    <2>2. Ends(FALSE, FALSE)
      BY <1>15, <2>1 DEF GapFound, Anchored, Invalidate
    <2>3. QED
      BY <1>9, <2>2
  <1>16. ASSUME Applies(e, b) PROVE ~broken /\ usable /\ ~stale
    BY <1>5, <1>10, <1>11, <1>16 DEF Applies, usable
  <1>17. CASE ApplyFails(e, b)
    <2>1. ~broken /\ usable /\ ~stale
      BY <1>16, <1>17 DEF ApplyFails
    <2>2. Ends(TRUE, FALSE)
      BY <1>17, <2>1 DEF ApplyFails, Applies, Anchored, Invalidate, BookAfterError
    <2>3. QED
      BY <1>9, <2>2
  <1>18. ASSUME NEW top \in BOOLEAN, Applied(e, b, top)
         PROVE  Verifier!Process(e.first, e.final, FALSE, top)
    <2>1. ~broken /\ usable /\ ~stale
      BY <1>16, <1>18 DEF Applied
    <2>2. Ends(FALSE, top)
      BY <1>8, <1>18, <2>1 DEF Applied, Applies, Anchored, Invalidate
    <2>3. QED
      BY <1>9, <2>2
  <1>19. QED
    BY <1>1, <1>12, <1>13, <1>14, <1>15, <1>17, <1>18 DEF Outcome

(* The engine and the verifier agree on every stream: books, segments,      *)
(* gaps, errors and trusted ids (ReplayEngine::apply, verify.reconstruct).  *)
THEOREM EngineIsVerifier == Spec => VerifierAgrees
  <1>1. Init => Verifier!Init
    BY DEF Init, Verifier!Init, Verifier!Snapshot, Snapshot, IdsOf
  <1>2. TypeOK /\ HeadInv /\ ListInv /\ [Next]_vars => [Verifier!Next]_(Verifier!vars)
    <2> SUFFICES ASSUME TypeOK, HeadInv, ListInv, [Next]_vars
                 PROVE  Verifier!Next \/ UNCHANGED Verifier!vars
      OBVIOUS
    <2>1. CASE UNCHANGED <<snapshots, cursor, book, lastId, segments, sequenceGaps, errors,
                           trusted>>
      BY <2>1 DEF IdsOf, Verifier!vars, Verifier!reconstruction
    <2>2. ASSUME NEW e \in Event, Deliver(e) PROVE Verifier!Next
      <3>1. e.first \in Id /\ e.final \in Id /\ e.first <= e.final
        BY <2>2 DEF Deliver, InOrder, Event
      <3>2. QED
        BY <2>2, <3>1, DeliverIsProcess DEF Verifier!Next
    <2>3. QED
      BY <2>1, <2>2 DEF Next, Reject, Duplicate, vars, stats
  <1>3. QED
    BY <1>1, <1>2, HeadInvariant, ListInvariant, PTL DEF Spec, VerifierAgrees, Verifier!Spec
=============================================================================
