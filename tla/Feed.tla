-------------------------------- MODULE Feed --------------------------------
(***************************************************************************)
(* What the recorder does for one symbol besides queueing its frames: the  *)
(* websocket supervisor that connects again after every break, the         *)
(* SequenceTracker that finds holes in the depth ids, the ledger entries   *)
(* for both, and the snapshot worker that fetches a depth snapshot after   *)
(* a connection, after a hole, and on its schedule.                        *)
(*                                                                         *)
(* The queue itself and the shutdown of the tasks are module Recorder;     *)
(* here a put may have to wait, and a run may end at any moment.  Only     *)
(* depth frames are sent: the other streams have no ids.                   *)
(***************************************************************************)
EXTENDS Integers, Sequences, FiniteSetsExt

CONSTANTS
    MaxId,          \* bound: update ids 1 .. MaxId
    Attempts,       \* range(6) of _fetch_and_store
    MaxFrames,      \* bound: frames of a run
    MaxDrops,       \* bound: connections of a run that break
    MaxFailures,    \* bound: ledger writes that raise
    None            \* no id, no frame

Id    == 1 .. MaxId
Frame == [first : Id, final : Id]
Gap   == [prev : Id, first : Id, final : Id]

ASSUME FeedAssumption == /\ {MaxId, MaxFrames, MaxDrops, MaxFailures} \subseteq Nat
                         /\ Attempts \in Nat \ {0}
                         /\ None \notin Id /\ None \notin Frame

VARIABLES
    link,       \* where the websocket supervisor is
    held,       \* the frame whose put waits for the writer
    last,       \* SequenceTracker._last of the symbol
    event,      \* snapshot_events[symbol] is set
    fetch,      \* where the snapshot worker is
    attempt,    \* its attempt, from 0
    stop,       \* stop_event: a task has failed
    \* history, of the current run
    recorded,   \* depth frames put into the queue
    ledger,     \* the gaps of its sequence_gap entries
    unledgered, \* the gaps whose entry could not be written
    announced,  \* the ledger says why the last connection ended
    owed,       \* a connection or hole no fetch begun after it has answered
    late,       \* a connection or hole since the last fetch began
    drops,      \* connections that broke of themselves
    failures    \* of all runs

supervisor == <<link, held>>
worker     == <<fetch, attempt>>
stream     == <<last, recorded, ledger, unledgered>>
asks       == <<owed, late>>
bounds     == <<drops, failures>>
vars == <<supervisor, worker, stream, event, stop, announced, asks, bounds>>

TypeOK ==
    /\ link \in {"down", "connecting", "receiving", "putting", "backoff", "failed"}
    /\ held \in Frame \cup {None} /\ (held # None <=> link = "putting")
    /\ last \in Id \cup {None}
    /\ event \in BOOLEAN /\ stop \in BOOLEAN /\ announced \in BOOLEAN
    /\ fetch \in {"waiting", "requesting", "pausing", "failed"}
    /\ attempt \in 0 .. Attempts - 1
    /\ recorded \in Seq(Frame)
    /\ ledger \in SUBSET Gap /\ unledgered \in SUBSET Gap
    /\ owed \in BOOLEAN /\ late \in BOOLEAN
    /\ drops \in 0 .. MaxDrops /\ failures \in 0 .. MaxFailures

(* No process is running.                                                   *)
Init ==
    /\ link = "down" /\ held = None
    /\ last = None /\ event = FALSE
    /\ fetch = "waiting" /\ attempt = 0
    /\ stop = FALSE
    /\ recorded = <<>> /\ ledger = {} /\ unledgered = {} /\ announced = FALSE
    /\ owed = FALSE /\ late = FALSE
    /\ drops = 0 /\ failures = 0

Up == link # "down" /\ ~stop

-----------------------------------------------------------------------------
(* run(): start and end.  stop_event makes run() cancel every task, which   *)
(* is taken to happen at once.                                              *)
Start == /\ link = "down"
         /\ link' = "connecting"
         /\ UNCHANGED <<held, worker, stream, event, stop, announced, asks, bounds>>

(* Nothing of a run but the files outlives it, the tracker's id included.   *)
End ==
    /\ link # "down"
    /\ link' = "down" /\ held' = None
    /\ last' = None /\ event' = FALSE
    /\ fetch' = "waiting" /\ attempt' = 0
    /\ stop' = FALSE
    /\ recorded' = <<>> /\ ledger' = {} /\ unledgered' = {} /\ announced' = FALSE
    /\ owed' = FALSE /\ late' = FALSE /\ drops' = 0
    /\ UNCHANGED failures

-----------------------------------------------------------------------------
(* _websocket_supervisor.                                                   *)

(* A snapshot is called for.                                                *)
Asked == owed' = TRUE /\ late' = TRUE

(* A ledger write raises outside the try: the task fails, and _guard        *)
(* requests the stop.  `f` counts the failures up to here.                  *)
SupervisorFails(f) ==
    /\ f < MaxFailures
    /\ link' = "failed" /\ stop' = TRUE
    /\ failures' = f + 1
    /\ UNCHANGED announced

(* An exception inside the try: its except and the end of the loop each     *)
(* write a disconnect entry.                                                *)
Raised(f) ==
    \/ /\ link' = "backoff" /\ announced' = TRUE
       /\ failures' = f
       /\ UNCHANGED stop
    \/ SupervisorFails(f)

(* ws_connect fails.                                                        *)
ConnectFails ==
    /\ Up /\ link = "connecting"
    /\ Raised(failures)
    /\ UNCHANGED <<held, worker, stream, event, asks, drops>>

(* The entry is connection_open or reconnect; then the events are set.      *)
Connects ==
    /\ Up /\ link = "connecting"
    /\ link' = "receiving"
    /\ event' = TRUE /\ Asked
    /\ announced' = FALSE
    /\ UNCHANGED <<held, worker, stream, stop, bounds>>

(* That entry raises: nothing is asked for before the next connection.      *)
OpeningUnwritten ==
    /\ Up /\ link = "connecting" /\ failures < MaxFailures
    /\ Raised(failures + 1)
    /\ UNCHANGED <<held, worker, stream, event, asks, drops>>

BackoffEnds ==
    /\ Up /\ link = "backoff"
    /\ link' = "connecting"
    /\ UNCHANGED <<held, worker, stream, event, stop, announced, asks, bounds>>

(* Slip: the reasons excluded from the disconnect entry at the end of the   *)
(* loop are not written where they occur.                                   *)
EntryLeftOut == announced

EntryWritten == TRUE

(* A receive that times out (stall or proactive_reconnect), a frame that    *)
(* announces a server shutdown, or a close: each has an entry of its own,   *)
(* inside the try or, for a close, outside it.                              *)
LinkBreaks ==
    /\ Up /\ link = "receiving"
    /\ drops < MaxDrops /\ drops' = drops + 1
    /\ \/ /\ link' = "backoff" /\ announced' = EntryWritten
          /\ UNCHANGED <<stop, failures>>
       \/ SupervisorFails(failures)
       \/ failures < MaxFailures /\ Raised(failures + 1)
    /\ UNCHANGED <<held, worker, stream, event, asks>>

-----------------------------------------------------------------------------
(* SequenceTracker.observe.                                                 *)
Valid(e) == e.first <= e.final

IsGap(e) == last # None /\ e.first > last + 1

(* Slip: the tracker follows the last frame, not the highest id.            *)
LastFinal(e) == e.final

Observed(e) == IF last # None /\ last > e.final THEN last ELSE e.final

GapOf(e) == [prev |-> last, first |-> e.first, final |-> e.final]

(* _handle_frame once the record is in the queue.  Frames that had to wait  *)
(* for the writer end the connection, without an entry but writer_backpressure. *)
NextLink(waited) == IF waited THEN "backoff" ELSE "receiving"

Unordered(e) ==
    /\ ~Valid(e)
    /\ Raised(failures)
    /\ UNCHANGED <<last, ledger, unledgered, event, asks>>

InSequence(e, waited) ==
    /\ Valid(e) /\ ~IsGap(e)
    /\ last' = Observed(e)
    /\ link' = NextLink(waited)
    /\ UNCHANGED <<ledger, unledgered, event, stop, announced, asks, failures>>

GapLedgered(e, waited) ==
    /\ Valid(e) /\ IsGap(e)
    /\ last' = Observed(e)
    /\ ledger' = ledger \cup {GapOf(e)}
    /\ event' = TRUE /\ Asked
    /\ link' = NextLink(waited)
    /\ UNCHANGED <<unledgered, stop, announced, failures>>

(* The entry raises after the tracker has moved: the event is not set.      *)
GapUnledgered(e) ==
    /\ Valid(e) /\ IsGap(e) /\ failures < MaxFailures
    /\ last' = Observed(e)
    /\ unledgered' = unledgered \cup {GapOf(e)}
    /\ Asked
    /\ Raised(failures + 1)
    /\ UNCHANGED <<ledger, event>>

Queued(e, waited) ==
    /\ recorded' = Append(recorded, e)
    /\ \/ Unordered(e)
       \/ InSequence(e, waited)
       \/ GapLedgered(e, waited)
       \/ GapUnledgered(e)

Receives == \E e \in Frame :
    /\ Up /\ link = "receiving" /\ Len(recorded) < MaxFrames
    /\ Queued(e, FALSE)
    /\ UNCHANGED <<held, worker, drops>>

(* At a full queue: the writer_backpressure entry, and a put that waits.    *)
Blocks == \E e \in Frame :
    /\ Up /\ link = "receiving" /\ Len(recorded) < MaxFrames
    /\ \/ /\ held' = e /\ link' = "putting" /\ announced' = TRUE
          /\ UNCHANGED <<stop, failures>>
       \/ /\ failures < MaxFailures
          /\ Raised(failures + 1)
          /\ UNCHANGED held
    /\ UNCHANGED <<worker, stream, event, asks, drops>>

PutReturns ==
    /\ Up /\ link = "putting"
    /\ held' = None
    /\ Queued(held, TRUE)
    /\ UNCHANGED <<worker, drops>>

-----------------------------------------------------------------------------
(* _snapshot_worker, _fetch_and_store and _snapshot_schedule.               *)

(* Slip: the event is cleared when the fetch is done, not only before it.   *)
ClearedAgain == FALSE

EventAfterFetch == event

(* Slip: the test after the last attempt is off by one.                     *)
AfterLastAttempt == attempt = Attempts

IsLastAttempt == attempt = Attempts - 1

Begins ==
    /\ Up /\ fetch = "waiting" /\ event
    /\ event' = FALSE
    /\ fetch' = "requesting" /\ attempt' = 0
    /\ late' = FALSE
    /\ UNCHANGED <<supervisor, stream, owed, stop, announced, bounds>>

Stores ==
    /\ Up /\ fetch = "requesting"
    /\ fetch' = "waiting" /\ owed' = late
    /\ event' = EventAfterFetch
    /\ UNCHANGED <<supervisor, stream, attempt, late, stop, announced, bounds>>

(* HTTP 429 or any other failure but the last attempt's: wait, try again.   *)
Refused ==
    /\ Up /\ fetch = "requesting" /\ ~IsLastAttempt
    /\ fetch' = "pausing"
    /\ UNCHANGED <<supervisor, stream, event, attempt, stop, announced, asks, bounds>>

Retries ==
    /\ Up /\ fetch = "pausing"
    /\ fetch' = "requesting" /\ attempt' = attempt + 1
    /\ UNCHANGED <<supervisor, stream, event, stop, announced, asks, bounds>>

(* The last attempt fails: a snapshot_failure entry, which may raise.       *)
GivesUp ==
    /\ Up /\ fetch = "requesting" /\ IsLastAttempt
    /\ \/ /\ fetch' = "waiting" /\ owed' = late /\ event' = EventAfterFetch
          /\ UNCHANGED <<stop, failures>>
       \/ /\ failures < MaxFailures /\ failures' = failures + 1
          /\ fetch' = "failed" /\ stop' = TRUE
          /\ UNCHANGED <<owed, event>>
    /\ UNCHANGED <<supervisor, stream, attempt, late, announced, drops>>

ScheduleDue ==
    /\ Up /\ ~event
    /\ event' = TRUE
    /\ UNCHANGED <<supervisor, worker, stream, stop, announced, asks, bounds>>

Fetching == Begins \/ Stores \/ Refused \/ Retries \/ GivesUp

Next ==
    \/ Start \/ End
    \/ ConnectFails \/ Connects \/ OpeningUnwritten \/ BackoffEnds \/ LinkBreaks
    \/ Receives \/ Blocks \/ PutReturns
    \/ Fetching \/ ScheduleDue

Spec == Init /\ [][Next]_vars

(* The worker's steps end (the session's timeout bounds every request), the *)
(* backoff is over some time, the writer makes room, and an exchange tried  *)
(* again and again accepts a connection at last.                            *)
Fairness ==
    /\ WF_vars(Start) /\ WF_vars(Fetching)
    /\ WF_vars(BackoffEnds) /\ WF_vars(PutReturns)
    /\ SF_vars(Connects)

FairSpec == Spec /\ Fairness

-----------------------------------------------------------------------------
(* The holes of the recorded stream, from the stream itself: frame i begins *)
(* beyond the successor of every id recorded before it in the run.          *)
Before(i) == {recorded[j].final : j \in {n \in 1 .. i - 1 : Valid(recorded[n])}}

HoleAt(i) == Valid(recorded[i]) /\ Before(i) # {} /\ recorded[i].first > Max(Before(i)) + 1

Holes == {[prev |-> Max(Before(i)), first |-> recorded[i].first, final |-> recorded[i].final] :
            i \in {n \in DOMAIN recorded : HoleAt(n)}}

(* The sequence_gap entries of a run are exactly the holes of its recorded  *)
(* frames, through overlaps, stale frames, frames whose ids are out of      *)
(* order, back-pressure and reconnects; only a ledger write that raises     *)
(* loses one (_handle_frame, SequenceTracker.observe).                      *)
HolesLedgered == /\ ledger \cup unledgered = Holes
                 /\ Cardinality(unledgered \ ledger) <= failures

(* Whenever the supervisor is about to connect again, the ledger says why   *)
(* the connection before has ended: every way out of the receive loop       *)
(* writes an entry, although the entry at its end is left out for three     *)
(* reasons.                                                                 *)
BreaksLedgered == link = "backoff" => announced

(* After every connection and every hole a fetch of a snapshot begins and   *)
(* is either stored or given up with an entry, unless the run ends: an      *)
(* event that is set during a fetch is not lost, and a hole whose entry     *)
(* raised is made up for by the next connection (_snapshot_worker).         *)
AsksAnswered == owed ~> (~owed \/ stop \/ link = "down")

=============================================================================
