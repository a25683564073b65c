----------------------------- MODULE FeedProofs -----------------------------
(***************************************************************************)
(* The ledger of Feed for every number of ids, frames, breaks and          *)
(* failures: TypeOK, BreaksLedgered and HolesLedgered.                     *)
(***************************************************************************)
EXTENDS Feed, FiniteSetTheorems, TLAPS

(* A put that waits has its entry already, and goes on to the backoff.      *)
ReasonKnown == link \in {"putting", "backoff"} => announced

(* The worker pauses only before an attempt it still has.                   *)
AttemptLeft == fetch = "pausing" => attempt < Attempts - 1

(* Holes of a stream that need not be the recorded one.                     *)
SeenIn(r, i) == {r[j].final : j \in {n \in 1 .. i - 1 : Valid(r[n])}}
HoleIn(r, i) == Valid(r[i]) /\ SeenIn(r, i) # {} /\ r[i].first > Max(SeenIn(r, i)) + 1
HoleOf(r, i) == [prev |-> Max(SeenIn(r, i)), first |-> r[i].first, final |-> r[i].final]
HolesIn(r)   == {HoleOf(r, i) : i \in {n \in DOMAIN r : HoleIn(r, n)}}

Seen == SeenIn(recorded, Len(recorded) + 1)

(* The tracker holds the greatest id of the valid frames recorded.          *)
Tracked == /\ last = None <=> Seen = {}
           /\ last # None => last \in Seen /\ \A x \in Seen : x <= last

Counted == IsFiniteSet(unledgered) /\ Cardinality(unledgered) <= failures

LedgerInv == /\ Tracked
             /\ ledger \cup unledgered = HolesIn(recorded)
             /\ Counted

-----------------------------------------------------------------------------
LEMMA MaxOf ==
    ASSUME NEW S \in SUBSET Int, NEW m \in S, \A x \in S : x <= m
    PROVE  Max(S) = m
<1>1. \A x \in S : (\A y \in S : x >= y) => x = m
  OBVIOUS
<1>2. \A y \in S : m >= y
  OBVIOUS
<1>3. QED
  BY <1>1, <1>2, Zenon DEF Max

LEMMA OneElementMore ==
    ASSUME NEW S, IsFiniteSet(S), NEW x, NEW n \in Nat, Cardinality(S) <= n
    PROVE  IsFiniteSet(S \cup {x}) /\ Cardinality(S \cup {x}) <= n + 1
<1>1. Cardinality(S) \in Nat
  BY FS_CardinalityType
<1>2. /\ IsFiniteSet(S \cup {x})
      /\ \/ Cardinality(S \cup {x}) = Cardinality(S)
         \/ Cardinality(S \cup {x}) = Cardinality(S) + 1
  BY FS_AddElement
<1>3. QED
  BY <1>1, <1>2

LEMMA RaisedKeeps ==
    ASSUME TypeOK, NEW f \in 0 .. MaxFailures, Raised(f)
    PROVE  /\ link' \in {"backoff", "failed"} /\ (link' = "backoff" => announced')
           /\ stop' \in BOOLEAN /\ announced' \in BOOLEAN
           /\ failures' \in 0 .. MaxFailures /\ failures' >= f
<1>1. stop' \in BOOLEAN /\ announced' \in BOOLEAN
  BY Zenon DEF Raised, SupervisorFails, TypeOK
<1>2. link' \in {"backoff", "failed"} /\ (link' = "backoff" => announced')
  BY Zenon DEF Raised, SupervisorFails
<1>3. failures' \in 0 .. MaxFailures /\ failures' >= f
  BY FeedAssumption DEF Raised, SupervisorFails
<1>4. QED
  BY <1>1, <1>2, <1>3

LEMMA HolesAreHolesIn == Holes = HolesIn(recorded)
BY DEF Holes, HolesIn, HoleOf, HoleAt, HoleIn, Before, SeenIn

LEMMA EmptyStream == SeenIn(<<>>, 1) = {} /\ HolesIn(<<>>) = {}
BY DEF SeenIn, HolesIn

(* A frame more adds its final id to those seen, if it is valid, and the    *)
(* hole before it, if there is one; the holes before it stay.               *)
LEMMA OneFrameMore ==
    ASSUME NEW r \in Seq(Frame), NEW e \in Frame
    PROVE  LET n == Len(r) + 1
               s == Append(r, e)
           IN  /\ SeenIn(s, n) = SeenIn(r, n)
               /\ SeenIn(s, n + 1) = SeenIn(r, n) \cup IF Valid(e) THEN {e.final} ELSE {}
               /\ HolesIn(s) = HolesIn(r) \cup IF HoleIn(s, n) THEN {HoleOf(s, n)} ELSE {}
<1> DEFINE n == Len(r) + 1
           s == Append(r, e)
<1>1. /\ s \in Seq(Frame) /\ DOMAIN s = 1 .. n /\ DOMAIN r = 1 .. n - 1 /\ n \in Nat
      /\ s[n] = e /\ \A i \in 1 .. n - 1 : s[i] = r[i]
  OBVIOUS
<1> HIDE DEF s
<1>2. ASSUME NEW i \in 1 .. n PROVE SeenIn(s, i) = SeenIn(r, i)
  <2>1. \A j \in 1 .. i - 1 : j \in 1 .. n - 1
    BY <1>1
  <2>2. QED
    BY <1>1, <2>1 DEF SeenIn
<1>3. SeenIn(s, n + 1) = SeenIn(r, n) \cup IF Valid(e) THEN {e.final} ELSE {}
  <2>1. {j \in 1 .. (n + 1) - 1 : Valid(s[j])}
          = {j \in 1 .. n - 1 : Valid(r[j])} \cup IF Valid(e) THEN {n} ELSE {}
    BY <1>1
  <2>2. \A j \in 1 .. n - 1 : s[j].final = r[j].final
    BY <1>1
  <2>3. QED
    BY <1>1, <2>1, <2>2 DEF SeenIn
<1>4. \A i \in 1 .. n - 1 : HoleIn(s, i) = HoleIn(r, i) /\ HoleOf(s, i) = HoleOf(r, i)
  BY <1>1, <1>2 DEF HoleIn, HoleOf
<1>5. HolesIn(s) = HolesIn(r) \cup IF HoleIn(s, n) THEN {HoleOf(s, n)} ELSE {}
  <2>1. {i \in DOMAIN s : HoleIn(s, i)}
          = {i \in DOMAIN r : HoleIn(r, i)} \cup IF HoleIn(s, n) THEN {n} ELSE {}
    BY <1>1, <1>4
  <2>2. \A i \in DOMAIN r : HoleOf(s, i) = HoleOf(r, i)
    BY <1>1, <1>4
  <2>3. QED
    BY <2>1, <2>2 DEF HolesIn
<1>6. QED
  BY <1>1, <1>2, <1>3, <1>5 DEF s

-----------------------------------------------------------------------------
(* Queued: what the handling of a frame does to tracker and ledger.         *)
LEMMA QueuedKeeps ==
    ASSUME TypeOK, LedgerInv, NEW e \in Frame, NEW w \in BOOLEAN, Queued(e, w)
    PROVE  LedgerInv'
<1> DEFINE n == Len(recorded) + 1
<1>1. /\ recorded \in Seq(Frame) /\ recorded' = Append(recorded, e) /\ n \in Nat
      /\ Len(recorded') + 1 = n + 1 /\ recorded'[n] = e
  BY DEF TypeOK, Queued
<1>2. /\ SeenIn(recorded', n) = Seen
      /\ Seen' = Seen \cup IF Valid(e) THEN {e.final} ELSE {}
      /\ HolesIn(recorded') = HolesIn(recorded)
                 \cup IF HoleIn(recorded', n) THEN {HoleOf(recorded', n)} ELSE {}
  BY <1>1, OneFrameMore DEF Seen
<1>3. /\ e.first \in Id /\ e.final \in Id /\ Id \subseteq Int /\ Seen \subseteq Id
      /\ None \notin Id
  <2>1. e.first \in Id /\ e.final \in Id /\ Id \subseteq Int /\ None \notin Id
    BY FeedAssumption DEF Frame, Id
  <2>2. ASSUME NEW j \in 1 .. (Len(recorded) + 1) - 1 PROVE recorded[j].final \in Id
    <3>1. recorded[j] \in Frame
      BY <1>1
    <3>2. QED
      BY <3>1 DEF Frame
  <2>3. Seen \subseteq Id
    BY <2>2 DEF Seen, SeenIn
  <2>4. QED
    BY <2>1, <2>3
<1>4. last # None => Max(Seen) = last
  BY <1>3, MaxOf DEF LedgerInv, Tracked
<1>5. HoleIn(recorded', n) <=> Valid(e) /\ IsGap(e)
  BY <1>1, <1>2, <1>4 DEF HoleIn, IsGap, LedgerInv, Tracked
<1>6. HoleIn(recorded', n) => HoleOf(recorded', n) = GapOf(e)
  BY <1>1, <1>2, <1>4, <1>5 DEF HoleOf, GapOf, IsGap
<1>7. ASSUME Valid(e), last' = Observed(e) PROVE Tracked'
  <2>1. Seen' = Seen \cup {e.final}
    BY <1>2, <1>7
  <2>2. last \in Id \cup {None}
    BY DEF TypeOK
  <2>3. QED
    BY <1>3, <1>7, <2>1, <2>2 DEF Tracked, LedgerInv, Observed
<1>8. CASE Unordered(e)
  <2>1. ~Valid(e) /\ UNCHANGED <<last, ledger, unledgered>>
    BY <1>8 DEF Unordered
  <2>2. Tracked' /\ ledger' \cup unledgered' = HolesIn(recorded')
    BY <1>2, <1>5, <2>1 DEF LedgerInv, Tracked
  <2>3. failures \in Nat /\ failures' \in Nat /\ failures' >= failures
    BY <1>8, FeedAssumption, RaisedKeeps DEF Unordered, TypeOK
  <2>4. Cardinality(unledgered) \in Nat
    BY FS_CardinalityType DEF LedgerInv, Counted
  <2>5. Counted'
    BY <2>1, <2>3, <2>4, <1>8 DEF LedgerInv, Counted, Unordered
  <2>6. QED
    BY <2>2, <2>5 DEF LedgerInv
<1>9. CASE InSequence(e, w)
  BY <1>2, <1>5, <1>7, <1>9 DEF InSequence, LedgerInv, Counted
<1>10. CASE GapLedgered(e, w)
  BY <1>2, <1>5, <1>6, <1>7, <1>10 DEF GapLedgered, LedgerInv, Counted
<1>11. CASE GapUnledgered(e)
  <2>1. Tracked' /\ ledger' \cup unledgered' = HolesIn(recorded')
    BY <1>2, <1>5, <1>6, <1>7, <1>11 DEF GapUnledgered, LedgerInv
  <2>2. unledgered' = unledgered \cup {GapOf(e)} /\ failures' >= failures + 1 /\ failures \in Nat
    BY <1>11, FeedAssumption DEF GapUnledgered, Raised, SupervisorFails, TypeOK
  <2>3. IsFiniteSet(unledgered') /\ Cardinality(unledgered') <= failures + 1
    BY <2>2, OneElementMore DEF LedgerInv, Counted
  <2>4. Counted'
    <3>1. Cardinality(unledgered') \in Nat
      BY <2>3, FS_CardinalityType
    <3>2. failures' \in Nat
      BY <1>11, <2>2, FeedAssumption DEF GapUnledgered, Raised, SupervisorFails
    <3>3. QED
      BY <2>2, <2>3, <3>1, <3>2 DEF Counted
  <2>5. QED
    BY <2>1, <2>4 DEF LedgerInv
<1>12. QED
  BY <1>8, <1>9, <1>10, <1>11 DEF Queued

LEMMA QueuedTypes ==
    ASSUME TypeOK, NEW e \in Frame, NEW w \in BOOLEAN, Queued(e, w)
    PROVE  /\ link' \in {"backoff", "receiving", "failed"}
           /\ last' \in Id \cup {None} /\ recorded' \in Seq(Frame)
           /\ ledger' \in SUBSET Gap /\ unledgered' \in SUBSET Gap
           /\ event' \in BOOLEAN /\ stop' \in BOOLEAN /\ announced' \in BOOLEAN
           /\ owed' \in BOOLEAN /\ late' \in BOOLEAN
           /\ failures' \in 0 .. MaxFailures
<1>1. recorded' \in Seq(Frame)
  BY DEF TypeOK, Queued
<1>2. e.first \in Id /\ e.final \in Id
  BY DEF Frame
<1>3. IsGap(e) => GapOf(e) \in Gap
  BY <1>2 DEF IsGap, GapOf, Gap, TypeOK
<1>4. CASE Unordered(e)
  <2>1. Raised(failures) /\ failures \in 0 .. MaxFailures
    BY <1>4 DEF Unordered, TypeOK
  <2>2. /\ link' \in {"backoff", "failed"} /\ stop' \in BOOLEAN
        /\ announced' \in BOOLEAN /\ failures' \in 0 .. MaxFailures
    BY <2>1, RaisedKeeps
  <2>3. UNCHANGED <<last, ledger, unledgered, event, owed, late>>
    BY <1>4 DEF Unordered, asks
  <2>4. QED
    BY <1>1, <2>2, <2>3, Zenon DEF TypeOK
<1>5. CASE InSequence(e, w)
  <2>1. last' \in Id \cup {None} /\ link' \in {"backoff", "receiving"}
    BY <1>2, <1>5 DEF InSequence, Observed, NextLink, TypeOK
  <2>2. UNCHANGED <<ledger, unledgered, event, stop, announced, owed, late, failures>>
    BY <1>5 DEF InSequence, asks
  <2>3. QED
    BY <1>1, <2>1, <2>2, Zenon DEF TypeOK
<1>6. CASE GapLedgered(e, w)
  BY <1>1, <1>2, <1>3, <1>6 DEF GapLedgered, Observed, NextLink, Asked, TypeOK
<1>7. CASE GapUnledgered(e)
  <2>1. Raised(failures + 1) /\ failures + 1 \in 0 .. MaxFailures
    BY <1>7, FeedAssumption DEF GapUnledgered, TypeOK
  <2>2. QED
    BY <1>1, <1>2, <1>3, <1>7, <2>1, RaisedKeeps DEF GapUnledgered, Observed, Asked, TypeOK
<1>8. QED
  BY <1>4, <1>5, <1>6, <1>7 DEF Queued

LEMMA StepKeepsTypes == TypeOK /\ AttemptLeft /\ [Next]_vars => TypeOK'
<1> SUFFICES ASSUME TypeOK, AttemptLeft, [Next]_vars PROVE TypeOK'
  OBVIOUS
<1> USE FeedAssumption
<1>1. ASSUME UNCHANGED vars PROVE TypeOK'
  BY <1>1 DEF TypeOK, vars, supervisor, worker, stream, asks, bounds
<1>2. CASE Start
  BY <1>2 DEF Start, TypeOK, worker, stream, asks, bounds
<1>3. CASE End
  <2>1. /\ event' \in BOOLEAN /\ stop' \in BOOLEAN /\ announced' \in BOOLEAN
        /\ owed' \in BOOLEAN /\ late' \in BOOLEAN
    BY <1>3, Zenon DEF End
  <2>2. recorded' \in Seq(Frame) /\ attempt' \in 0 .. Attempts - 1 /\ drops' \in 0 .. MaxDrops
    BY <1>3 DEF End
  <2>3. QED
    BY <1>3, <2>1, <2>2 DEF End, TypeOK
<1>4. CASE ConnectFails
  BY <1>4, RaisedKeeps DEF ConnectFails, TypeOK, worker, stream, asks
<1>5. CASE Connects
  BY <1>5 DEF Connects, Asked, TypeOK, worker, stream, bounds
<1>6. CASE OpeningUnwritten
  <2>1. failures + 1 \in 0 .. MaxFailures
    BY <1>6 DEF OpeningUnwritten, TypeOK
  <2>2. QED
    BY <1>6, <2>1, RaisedKeeps DEF OpeningUnwritten, TypeOK, worker, stream, asks
<1>7. CASE BackoffEnds
  BY <1>7 DEF BackoffEnds, TypeOK, worker, stream, asks, bounds
<1>8. CASE LinkBreaks
  <2>1. failures < MaxFailures => failures + 1 \in 0 .. MaxFailures
    BY DEF TypeOK
  <2>2. /\ link' \in {"backoff", "failed"} /\ stop' \in BOOLEAN
        /\ announced' \in BOOLEAN /\ failures' \in 0 .. MaxFailures
    BY <1>8, <2>1, RaisedKeeps DEF LinkBreaks, EntryWritten, SupervisorFails, TypeOK
  <2>3. drops' \in 0 .. MaxDrops
    BY <1>8 DEF LinkBreaks, TypeOK
  <2>4. QED
    BY <1>8, <2>2, <2>3 DEF LinkBreaks, TypeOK, worker, stream, asks
<1>9. CASE Receives
  <2>1. PICK e \in Frame : link = "receiving" /\ Queued(e, FALSE) /\ UNCHANGED <<held, worker, drops>>
    BY <1>9 DEF Receives
  <2>2. QED
    BY <2>1, QueuedTypes DEF TypeOK, worker
<1>10. CASE Blocks
  <2>1. PICK e \in Frame :
          /\ link = "receiving"
          /\ \/ /\ held' = e /\ link' = "putting" /\ announced' = TRUE
                /\ UNCHANGED <<stop, failures>>
             \/ /\ failures < MaxFailures /\ Raised(failures + 1) /\ UNCHANGED held
          /\ UNCHANGED <<worker, stream, event, asks, drops>>
    BY <1>10 DEF Blocks
  <2>2. failures < MaxFailures => failures + 1 \in 0 .. MaxFailures
    BY DEF TypeOK
  <2>3. QED
    BY <2>1, <2>2, RaisedKeeps DEF TypeOK, worker, stream, asks
<1>11. CASE PutReturns
  <2>1. held \in Frame /\ Queued(held, TRUE)
    BY <1>11 DEF PutReturns, TypeOK
  <2>2. QED
    BY <1>11, <2>1, QueuedTypes DEF PutReturns, TypeOK, worker
<1>12. CASE Fetching
  <2> USE DEF TypeOK, supervisor, stream, asks, bounds
  <2>1. CASE Begins
    <3>1. event' \in BOOLEAN /\ late' \in BOOLEAN
      BY <2>1, Zenon DEF Begins
    <3>2. QED
      BY <2>1, <3>1 DEF Begins
  <2>2. CASE Stores
    BY <2>2 DEF Stores, EventAfterFetch
  <2>3. CASE Refused
    BY <2>3 DEF Refused
  <2>4. CASE Retries
    <3>1. attempt' \in 0 .. Attempts - 1
      BY <2>4 DEF Retries, AttemptLeft
    <3>2. QED
      BY <2>4, <3>1 DEF Retries
  <2>5. CASE GivesUp
    <3>1. /\ event' \in BOOLEAN /\ owed' \in BOOLEAN /\ stop' \in BOOLEAN
          /\ fetch' \in {"waiting", "failed"}
      BY <2>5, Zenon DEF GivesUp, EventAfterFetch
    <3>2. failures' \in 0 .. MaxFailures
      BY <2>5 DEF GivesUp
    <3>3. QED
      BY <2>5, <3>1, <3>2 DEF GivesUp
  <2>6. QED
    BY <1>12, <2>1, <2>2, <2>3, <2>4, <2>5 DEF Fetching
<1>13. CASE ScheduleDue
  BY <1>13 DEF ScheduleDue, TypeOK, supervisor, worker, stream, asks, bounds
<1>14. QED
  BY <1>1, <1>2, <1>3, <1>4, <1>5, <1>6, <1>7, <1>8, <1>9, <1>10, <1>11, <1>12, <1>13 DEF Next

LEMMA StepKeepsAttempt == TypeOK /\ AttemptLeft /\ [Next]_vars => AttemptLeft'
<1> SUFFICES ASSUME TypeOK, AttemptLeft, [Next]_vars PROVE AttemptLeft'
  OBVIOUS
<1>1. CASE Refused
  BY <1>1, FeedAssumption DEF Refused, IsLastAttempt, AttemptLeft, TypeOK
<1>2. CASE Begins \/ Stores \/ Retries \/ GivesUp \/ End
  BY <1>2 DEF Begins, Stores, Retries, GivesUp, End, AttemptLeft
<1>3. ASSUME UNCHANGED worker PROVE AttemptLeft'
  BY <1>3 DEF worker, AttemptLeft
<1>4. QED
  BY <1>1, <1>2, <1>3
     DEF Next, Fetching, vars, Start, ConnectFails, Connects, OpeningUnwritten, BackoffEnds,
         LinkBreaks, Receives, Blocks, PutReturns, ScheduleDue

LEMMA StepKeepsReason == TypeOK /\ ReasonKnown /\ [Next]_vars => ReasonKnown'
<1> SUFFICES ASSUME TypeOK, ReasonKnown, [Next]_vars PROVE ReasonKnown'
  OBVIOUS
<1>1. CASE UNCHANGED vars
  BY <1>1 DEF ReasonKnown, vars, supervisor
<1>2. CASE Start \/ End \/ Connects \/ BackoffEnds
  BY <1>2 DEF Start, End, Connects, BackoffEnds, ReasonKnown
<1>3. CASE ConnectFails \/ OpeningUnwritten
  BY <1>3 DEF ConnectFails, OpeningUnwritten, Raised, SupervisorFails, ReasonKnown
<1>4. CASE LinkBreaks
  BY <1>4 DEF LinkBreaks, EntryWritten, Raised, SupervisorFails, ReasonKnown
<1>5. ASSUME NEW e, NEW w \in BOOLEAN, Queued(e, w), w => announced PROVE ReasonKnown'
  BY <1>5 DEF Queued, Unordered, InSequence, GapLedgered, GapUnledgered, NextLink,
              Raised, SupervisorFails, ReasonKnown
<1>6. CASE Receives
  BY <1>5, <1>6 DEF Receives
<1>7. CASE Blocks
  BY <1>7 DEF Blocks, Raised, SupervisorFails, ReasonKnown
<1>8. CASE PutReturns
  BY <1>5, <1>8 DEF PutReturns, ReasonKnown
<1>9. CASE Fetching \/ ScheduleDue
  BY <1>9 DEF Fetching, Begins, Stores, Refused, Retries, GivesUp, ScheduleDue,
              ReasonKnown, supervisor
<1>10. QED
  BY <1>1, <1>2, <1>3, <1>4, <1>6, <1>7, <1>8, <1>9 DEF Next

(* Only the handling of a frame and the end of a run touch the tracker and  *)
(* the ledger; any other step may only count a failure.                     *)
LEMMA StepKeepsLedger == TypeOK /\ AttemptLeft /\ LedgerInv /\ [Next]_vars => LedgerInv'
<1> SUFFICES ASSUME TypeOK, AttemptLeft, LedgerInv, [Next]_vars PROVE LedgerInv'
  OBVIOUS
<1>1. failures \in Nat /\ failures' \in Nat
  BY StepKeepsTypes, FeedAssumption DEF TypeOK
<1>2. ASSUME UNCHANGED stream, failures' >= failures PROVE LedgerInv'
  <2>1. Cardinality(unledgered) \in Nat
    BY FS_CardinalityType DEF LedgerInv, Counted
  <2>2. Counted'
    BY <1>1, <1>2, <2>1 DEF LedgerInv, Counted, stream
  <2>3. QED
    BY <1>2, <2>2 DEF LedgerInv, Tracked, Seen, stream
<1>3. CASE UNCHANGED vars
  BY <1>1, <1>2, <1>3 DEF vars, bounds
<1>4. CASE Start \/ Connects \/ BackoffEnds \/ ScheduleDue
  BY <1>1, <1>2, <1>4 DEF Start, Connects, BackoffEnds, ScheduleDue, bounds
<1>5. CASE End
  <2>1. recorded' = <<>> /\ last' = None /\ ledger' = {} /\ unledgered' = {} /\ failures' = failures
    BY <1>5 DEF End
  <2>2. Seen' = {} /\ HolesIn(recorded') = {}
    BY <2>1, EmptyStream DEF Seen
  <2>3. Counted'
    BY <1>1, <2>1, FS_EmptySet DEF Counted
  <2>4. QED
    BY <2>1, <2>2, <2>3 DEF LedgerInv, Tracked
<1>6. CASE ConnectFails \/ OpeningUnwritten \/ LinkBreaks
  BY <1>1, <1>2, <1>6 DEF ConnectFails, OpeningUnwritten, LinkBreaks, Raised, SupervisorFails
<1>7. CASE Receives
  BY <1>7, QueuedKeeps DEF Receives
<1>8. CASE Blocks
  BY <1>1, <1>2, <1>8 DEF Blocks, Raised, SupervisorFails
<1>9. CASE PutReturns
  BY <1>9, QueuedKeeps DEF PutReturns, TypeOK
<1>10. CASE Fetching
  BY <1>1, <1>2, <1>10 DEF Fetching, Begins, Stores, Refused, Retries, GivesUp, bounds
<1>11. QED
  BY <1>3, <1>4, <1>5, <1>6, <1>7, <1>8, <1>9, <1>10 DEF Next

-----------------------------------------------------------------------------
LEMMA Initially == Init => TypeOK /\ AttemptLeft /\ ReasonKnown /\ LedgerInv
<1> SUFFICES ASSUME Init PROVE TypeOK /\ AttemptLeft /\ ReasonKnown /\ LedgerInv
  OBVIOUS
<1>1. TypeOK /\ AttemptLeft /\ ReasonKnown
  <2>1. /\ event \in BOOLEAN /\ stop \in BOOLEAN /\ announced \in BOOLEAN
        /\ owed \in BOOLEAN /\ late \in BOOLEAN
    BY Zenon DEF Init
  <2>2. /\ recorded \in Seq(Frame) /\ attempt \in 0 .. Attempts - 1
        /\ drops \in 0 .. MaxDrops /\ failures \in 0 .. MaxFailures
    BY FeedAssumption DEF Init
  <2>3. QED
    BY <2>1, <2>2 DEF Init, TypeOK, AttemptLeft, ReasonKnown
<1>2. Seen = {} /\ HolesIn(recorded) = {}
  BY EmptyStream DEF Init, Seen
<1>3. Counted
  BY FS_EmptySet DEF Init, Counted
<1>4. LedgerInv
  BY <1>2, <1>3 DEF Init, LedgerInv, Tracked
<1>5. QED
  BY <1>1, <1>4

(* The states of Feed have their types, for every bound and every number of *)
(* ids and attempts (recorder.py, sequence.py).                             *)
THEOREM FeedTypeCorrect == Spec => []TypeOK
BY Initially, StepKeepsTypes, StepKeepsAttempt, PTL DEF Spec

(* Whenever the supervisor waits to connect again, the ledger says why the  *)
(* connection before has ended (_websocket_supervisor, _handle_frame).      *)
THEOREM BreaksAreLedgered == Spec => []BreaksLedgered
<1>1. ReasonKnown => BreaksLedgered
  BY DEF ReasonKnown, BreaksLedgered
<1>2. QED
  BY <1>1, Initially, StepKeepsTypes, StepKeepsAttempt, StepKeepsReason, PTL DEF Spec

(* The sequence_gap entries of a run are exactly the holes of its recorded  *)
(* stream, but for one hole at most for every ledger write that raised: for *)
(* streams of any length and any ids (_handle_frame, observe).              *)
THEOREM HolesAreLedgered == Spec => []HolesLedgered
<1>1. TypeOK /\ LedgerInv => HolesLedgered
  <2> SUFFICES ASSUME TypeOK, LedgerInv PROVE HolesLedgered
    OBVIOUS
  <2>1. IsFiniteSet(unledgered) /\ (unledgered \ ledger) \subseteq unledgered
    BY DEF LedgerInv, Counted
  <2>2. /\ IsFiniteSet(unledgered \ ledger)
        /\ Cardinality(unledgered \ ledger) <= Cardinality(unledgered)
    BY <2>1, FS_Subset, Zenon
  <2>3. /\ Cardinality(unledgered \ ledger) \in Nat /\ Cardinality(unledgered) \in Nat
        /\ failures \in Nat
    BY <2>1, <2>2, FS_CardinalityType, FeedAssumption DEF TypeOK
  <2>4. QED
    BY <2>2, <2>3, HolesAreHolesIn DEF LedgerInv, Counted, HolesLedgered
<1>2. QED
  BY <1>1, Initially, StepKeepsTypes, StepKeepsAttempt, StepKeepsLedger, PTL DEF Spec
=============================================================================
