------------------------------ MODULE Recorder ------------------------------
(***************************************************************************)
(* The recorder's event loop: the websocket supervisor that puts records   *)
(* into the bounded queue, the writer that empties it into the storage,    *)
(* the day-close task that drains the queue and hands the closed day's     *)
(* files to a thread, and run(), which shuts all of them down.             *)
(*                                                                         *)
(* asyncio runs one task at a time, from one await to the next, and runs   *)
(* the tasks that can go on in the order they became able to: `ready` is   *)
(* its queue of handles.  That order is part of the model, because the     *)
(* code's correctness rests on it.  A task that does not give up the loop  *)
(* at an await whose result is already there goes on (`running`).          *)
(***************************************************************************)
EXTENDS Integers, Sequences, FiniteSets

CONSTANTS
    QueueSize,      \* asyncio.Queue(config.queue_size)
    MaxFrames,      \* bound: frames the exchange sends
    MaxDay,         \* bound: days 0 .. MaxDay
    MaxFailures,    \* bound: writes that raise (a full disk)
    NoRecord,       \* no record
    Stop            \* the None that ends the writer

ASSUME BoundsAssumption == /\ QueueSize \in Nat \ {0} /\ MaxFrames \in Nat
                           /\ MaxDay \in Nat /\ MaxFailures \in Nat

Days   == 0 .. MaxDay
Record == [id : 1 .. MaxFrames, day : Days]
ASSUME SentinelAssumption == NoRecord \notin Record /\ Stop \notin Record /\ NoRecord # Stop

Supervisor == "websocket"
Writer     == "writer"
DayCloser  == "day-close"
Main       == "run"
Timer      == "timer"       \* the loop's callback that ends the day-close sleep

Worker == {Supervisor, DayCloser}   \* the tasks run() cancels
Task   == Worker \cup {Writer, Main}
NoTask == "none"
Handle == Task \cup {Timer}

VARIABLES
    day,        \* the UTC day of the wall clock
    ready,      \* handles the loop will run, in order
    running,    \* the task that holds the loop between two of its awaits
    at,         \* where each task waits, or how it ended
    inbox,      \* frames the websocket has buffered
    queue,      \* self.queue
    blocked,    \* the record the supervisor waits to put
    closing,    \* the date day-close will close
    store,      \* what has become of each day's files
    stop,       \* self.stop_event
    cancelled,  \* run() has cancelled the workers
    \* history
    sent,       \* frames the exchange has sent
    received,   \* records stamped so far
    written,    \* the ids the storage took, in order
    dropped,    \* the ids of records given up before they were queued
    lost,       \* the ids of records whose blocked put was cancelled
    failures

loop    == <<ready, running, at>>
flow    == <<inbox, queue, blocked>>
files   == <<closing, store>>
control == <<stop, cancelled>>
history == <<sent, received, written, dropped, lost, failures>>
vars    == <<day, loop, flow, files, control, history>>

Waits(t) == CASE t = Supervisor -> {"receiving", "putting", "away", "done"}
              [] t = Writer     -> {"getting", "done", "failed"}
              [] t = DayCloser  -> {"sleeping", "joining", "finalizing", "done"}
              [] t = Main       -> {"waiting", "gathering", "joining", "awaiting", "exited"}

TypeOK ==
    /\ day \in Days
    /\ ready \in Seq(Handle)
    /\ \A i, j \in DOMAIN ready : ready[i] = ready[j] => i = j
    /\ running \in Task \cup {NoTask}
    /\ \A t \in Task : at[t] \in Waits(t)
    /\ inbox \in 0 .. MaxFrames
    /\ queue \in Seq(Record \cup {Stop}) /\ Len(queue) <= QueueSize
    /\ blocked \in Record \cup {NoRecord}
    /\ closing \in Days
    /\ store \in [Days -> {"active", "detached", "final", "abandoned"}]
    /\ stop \in BOOLEAN /\ cancelled \in BOOLEAN
    /\ sent \in 0 .. MaxFrames /\ received \in 0 .. MaxFrames
    /\ written \in Seq(1 .. MaxFrames)
    /\ dropped \in SUBSET (1 .. MaxFrames) /\ lost \in SUBSET (1 .. MaxFrames)
    /\ failures \in Nat

(* The tasks have been created and have reached their first await.          *)
Init ==
    /\ day = 0
    /\ ready = <<>> /\ running = NoTask
    /\ at = [t \in Task |-> CASE t = Supervisor -> "away"
                              [] t = Writer     -> "getting"
                              [] t = DayCloser  -> "sleeping"
                              [] t = Main       -> "waiting"]
    /\ inbox = 0 /\ queue = <<>> /\ blocked = NoRecord
    /\ closing = 0
    /\ store = [d \in Days |-> "active"]
    /\ stop = FALSE /\ cancelled = FALSE
    /\ sent = 0 /\ received = 0 /\ written = <<>> /\ dropped = {} /\ lost = {}
    /\ failures = 0

-----------------------------------------------------------------------------
(* The loop.                                                                *)
Scheduled(h) == \E i \in DOMAIN ready : ready[i] = h

(* The handles r and then h, unless h is among them already.                *)
Wake(r, h) == IF \E i \in DOMAIN r : r[i] = h THEN r ELSE Append(r, h)
WakeIf(r, h, c) == IF c THEN Wake(r, h) ELSE r

(* The loop takes the first handle.                                         *)
Runs(h) == /\ running = NoTask /\ at[Main] # "exited"
           /\ ready # <<>> /\ Head(ready) = h

Goes(t, place) == at' = [at EXCEPT ![t] = place]

-----------------------------------------------------------------------------
(* The world outside the loop: the clock, the socket, the thread, signals.  *)

(* A day's closing is taken to end, and the day-close task to be asleep     *)
(* again, before the next midnight.                                         *)
Tick == /\ day < MaxDay
        /\ \/ at[DayCloser] = "done"
           \/ at[DayCloser] = "sleeping" /\ \A d \in 0 .. day - 1 : store[d] = "final"
        /\ day' = day + 1
        /\ UNCHANGED <<loop, flow, files, control, history>>

FrameArrives ==
    /\ sent < MaxFrames /\ at[Supervisor] = "receiving"
    /\ sent' = sent + 1
    /\ inbox' = inbox + 1
    /\ ready' = WakeIf(ready, Supervisor, running # Supervisor)
    /\ UNCHANGED <<day, running, at, queue, blocked, files, control, received, written,
                   dropped, lost, failures>>

(* The closing handshake, the backoff and the new connection are one wait.  *)
Reconnected ==
    /\ at[Supervisor] = "away" /\ ~Scheduled(Supervisor)
    /\ ready' = Wake(ready, Supervisor)
    /\ UNCHANGED <<day, running, at, flow, files, control, history>>

TimerDue ==
    /\ at[DayCloser] = "sleeping" /\ closing < day
    /\ ~Scheduled(Timer) /\ ~Scheduled(DayCloser)
    /\ ready' = Append(ready, Timer)
    /\ UNCHANGED <<day, running, at, flow, files, control, history>>

(* The end of finalize_detached_writers, whether or not it is awaited: a    *)
(* failure leaves the day's other writers as they are.                      *)
ThreadEnds(outcome) ==
    /\ store[closing] = "detached"
    /\ store' = [store EXCEPT ![closing] = outcome]
    /\ ready' = WakeIf(ready, DayCloser, at[DayCloser] = "finalizing")
    /\ UNCHANGED <<day, running, at, flow, closing, control, sent, received, written,
                   dropped, lost>>

ThreadDone == ThreadEnds("final") /\ UNCHANGED failures

ThreadFails == ThreadEnds("abandoned") /\ failures < MaxFailures /\ failures' = failures + 1

(* request_stop: a signal, or _guard for a task that failed.                *)
Signal ==
    /\ ~stop /\ running = NoTask
    /\ stop' = TRUE
    /\ ready' = Wake(ready, Main)
    /\ UNCHANGED <<day, running, at, flow, files, cancelled, history>>

-----------------------------------------------------------------------------
(* _websocket_supervisor and _handle_frame.                                 *)
(* Slip: one record more than the queue holds.                              *)
IsOverfull == Len(queue) > QueueSize

IsFull == Len(queue) >= QueueSize

WakeWriter(r) == WakeIf(r, Writer, at[Writer] = "getting")

(* gather() in run() goes on when the last worker has ended.                *)
WakeGather(r, t) == WakeIf(r, Main, /\ at[Main] = "gathering"
                                    /\ \A w \in Worker \ {t} : at[w] = "done")

SupervisorCancelled ==
    /\ Runs(Supervisor) /\ cancelled
    /\ Goes(Supervisor, "done")
    /\ blocked' = NoRecord
    /\ lost' = IF blocked = NoRecord THEN lost ELSE lost \cup {blocked.id}
    /\ ready' = WakeGather(Tail(ready), Supervisor)
    /\ UNCHANGED <<day, running, inbox, queue, files, control, sent, received, written,
                   dropped, failures>>

SupervisorResumes ==
    /\ Runs(Supervisor) /\ ~cancelled /\ at[Supervisor] = "receiving"
    /\ running' = Supervisor
    /\ ready' = Tail(ready)
    /\ UNCHANGED <<day, at, flow, files, control, history>>

(* The connection is open, unless a stop was requested meanwhile.           *)
SupervisorConnects ==
    /\ Runs(Supervisor) /\ ~cancelled /\ at[Supervisor] = "away"
    /\ IF stop THEN Goes(Supervisor, "done") /\ UNCHANGED running
               ELSE Goes(Supervisor, "receiving") /\ running' = Supervisor
    /\ ready' = Tail(ready)
    /\ UNCHANGED <<day, flow, files, control, history>>

(* The ledger entry for the end of a connection, or of an attempt at one,   *)
(* raises outside the try: the task ends and _guard requests a stop.        *)
SupervisorFails ==
    /\ Runs(Supervisor) /\ ~cancelled /\ at[Supervisor] = "away"
    /\ failures < MaxFailures /\ failures' = failures + 1
    /\ Goes(Supervisor, "done")
    /\ stop' = TRUE
    /\ ready' = WakeIf(Tail(ready), Main, at[Main] = "waiting")
    /\ UNCHANGED <<day, running, flow, files, cancelled, sent, received, written,
                   dropped, lost>>

(* The blocked put goes on; a frame met by a full queue means reconnect.    *)
SupervisorPuts ==
    /\ Runs(Supervisor) /\ ~cancelled /\ at[Supervisor] = "putting"
    /\ IF IsFull
         THEN ready' = Tail(ready) /\ UNCHANGED <<at, inbox, queue, blocked>>
         ELSE /\ queue' = Append(queue, blocked)
              /\ blocked' = NoRecord
              /\ inbox' = 0
              /\ ready' = WakeWriter(Tail(ready))
              /\ Goes(Supervisor, "away")
    /\ UNCHANGED <<day, running, files, control, history>>

(* The connection is given up, with the frames it had buffered.             *)
Disconnects == Goes(Supervisor, "away") /\ running' = NoTask /\ inbox' = 0
StaysConnected == inbox' = inbox - 1 /\ UNCHANGED <<at, running>>

(* Slip: a record met by a full queue is skipped.                           *)
OverflowSkips(r) == Disconnects /\ UNCHANGED <<blocked, dropped, failures>>

(* At a full queue: the writer_backpressure entry, then a put that waits.   *)
(* The entry may raise: the record, stamped already, is never queued, and   *)
(* the supervisor, which catches the exception, connects again.             *)
Overflow(r) ==
    \/ /\ blocked' = r
       /\ Goes(Supervisor, "putting") /\ running' = NoTask
       /\ inbox' = inbox - 1
       /\ UNCHANGED <<dropped, failures>>
    \/ /\ failures < MaxFailures /\ failures' = failures + 1
       /\ dropped' = dropped \cup {r.id}
       /\ Disconnects
       /\ UNCHANGED blocked

(* receive() returns a buffered frame without giving up the loop.  The      *)
(* record is queued before sequence.observe, which may raise.               *)
HandleFrame ==
    LET r == [id |-> received + 1, day |-> day] IN
    /\ running = Supervisor /\ ~stop /\ inbox > 0
    /\ received' = received + 1
    /\ IF IsFull
         THEN Overflow(r) /\ UNCHANGED <<queue, ready>>
         ELSE /\ queue' = Append(queue, r)
              /\ ready' = WakeWriter(ready)
              /\ StaysConnected \/ Disconnects
              /\ UNCHANGED <<blocked, dropped, failures>>
    /\ UNCHANGED <<day, files, control, sent, written, lost>>

(* A frame that makes no record: it is of no known stream or symbol, it     *)
(* does not parse, or it announces the server's shutdown.                   *)
OtherFrame ==
    /\ running = Supervisor /\ ~stop /\ inbox > 0
    /\ StaysConnected \/ Disconnects
    /\ UNCHANGED <<day, ready, queue, blocked, files, control, history>>

(* Nothing is buffered: wait.  A requested stop closes the socket instead.  *)
SupervisorYields ==
    /\ running = Supervisor /\ (stop \/ inbox = 0)
    /\ running' = NoTask
    /\ IF stop THEN Goes(Supervisor, "away") /\ inbox' = 0
               ELSE UNCHANGED <<at, inbox>>
    /\ UNCHANGED <<day, ready, queue, blocked, files, control, history>>

-----------------------------------------------------------------------------
(* _writer_loop: get() does not give up the loop while records are queued.  *)
WriterResumes ==
    /\ Runs(Writer)
    /\ running' = Writer
    /\ ready' = Tail(ready)
    /\ UNCHANGED <<day, at, flow, files, control, history>>

(* get() wakes a blocked put, task_done() of the last record the joiners.   *)
AfterGet(r) == WakeIf(r, Supervisor, at[Supervisor] = "putting")
AfterTaskDone(r) ==
    IF Len(queue) > 1 THEN r
    ELSE WakeIf(WakeIf(r, DayCloser, at[DayCloser] = "joining"), Main, at[Main] = "joining")

WriterWrites ==
    /\ running = Writer /\ queue # <<>> /\ Head(queue) # Stop
    /\ store[Head(queue).day] = "active"
    /\ written' = Append(written, Head(queue).id)
    /\ queue' = Tail(queue)
    /\ ready' = AfterTaskDone(AfterGet(ready))
    /\ UNCHANGED <<day, running, at, inbox, blocked, files, control, sent, received,
                   dropped, lost, failures>>

(* Slip: the writer swallows the exception and goes on with the next record. *)
FailureSwallowed == "getting"

AfterFailure == "failed"

(* storage.append raises, because the disk is full or because the record    *)
(* belongs to a file that is being finalized.  _guard requests a stop.      *)
WriterFails ==
    /\ running = Writer /\ queue # <<>> /\ Head(queue) # Stop
    /\ failures < MaxFailures \/ store[Head(queue).day] # "active"
    /\ failures' = failures + 1
    /\ queue' = Tail(queue)
    /\ running' = NoTask
    /\ Goes(Writer, AfterFailure)
    /\ stop' = TRUE
    /\ ready' = WakeIf(AfterTaskDone(AfterGet(ready)), Main, at[Main] = "waiting")
    /\ UNCHANGED <<day, inbox, blocked, files, cancelled, sent, received, written,
                   dropped, lost>>

WriterEnds ==
    /\ running = Writer /\ queue # <<>> /\ Head(queue) = Stop
    /\ queue' = Tail(queue)
    /\ running' = NoTask
    /\ Goes(Writer, "done")
    /\ ready' = WakeIf(AfterTaskDone(ready), Main, at[Main] = "awaiting")
    /\ UNCHANGED <<day, inbox, blocked, files, control, history>>

WriterYields ==
    /\ running = Writer /\ queue = <<>>
    /\ running' = NoTask
    /\ UNCHANGED <<day, ready, at, flow, files, control, history>>

-----------------------------------------------------------------------------
(* _day_close_loop and _finalize_closed_day_streams.                        *)

(* The callback of asyncio.sleep: the task itself runs one turn later.      *)
TimerFires ==
    /\ Runs(Timer)
    /\ ready' = WakeIf(Tail(ready), DayCloser, at[DayCloser] = "sleeping")
    /\ UNCHANGED <<day, running, at, flow, files, control, history>>

DayCloserCancelled ==
    /\ Runs(DayCloser) /\ cancelled
    /\ Goes(DayCloser, "done")
    /\ ready' = WakeGather(Tail(ready), DayCloser)
    /\ UNCHANGED <<day, running, flow, files, control, history>>

(* Slip: the day is detached without waiting for the queue.                 *)
NoJoin == TRUE

JoinReturns == queue = <<>>

(* queue.join() returns at once if nothing is unfinished; once woken it     *)
(* does not look again.  The detached day's files go to the thread.         *)
DayCloserJoins ==
    /\ Runs(DayCloser) /\ ~cancelled /\ at[DayCloser] = "sleeping" /\ ~JoinReturns
    /\ Goes(DayCloser, "joining")
    /\ ready' = Tail(ready)
    /\ UNCHANGED <<day, running, flow, files, control, history>>

DayCloserDetaches ==
    /\ Runs(DayCloser) /\ ~cancelled
    /\ at[DayCloser] = "joining" \/ (at[DayCloser] = "sleeping" /\ JoinReturns)
    /\ store' = [store EXCEPT ![closing] = "detached"]
    /\ Goes(DayCloser, "finalizing")
    /\ ready' = Tail(ready)
    /\ UNCHANGED <<day, running, flow, closing, control, history>>

(* The thread raised, or the ledger entry after it does: _guard requests a  *)
(* stop.                                                                    *)
DayCloserFails ==
    /\ Runs(DayCloser) /\ ~cancelled /\ at[DayCloser] = "finalizing"
    /\ \/ store[closing] = "abandoned" /\ UNCHANGED failures
       \/ /\ store[closing] # "abandoned"
          /\ failures < MaxFailures /\ failures' = failures + 1
    /\ Goes(DayCloser, "done")
    /\ stop' = TRUE
    /\ ready' = WakeIf(Tail(ready), Main, at[Main] = "waiting")
    /\ UNCHANGED <<day, running, flow, files, cancelled, sent, received, written,
                   dropped, lost>>

(* Slip: the date is read once, before the loop.                            *)
SameClosing == closing

NextClosing == day

DayCloserSleeps ==
    /\ Runs(DayCloser) /\ ~cancelled /\ at[DayCloser] = "finalizing"
    /\ store[closing] # "abandoned"
    /\ closing' = NextClosing
    /\ Goes(DayCloser, "sleeping")
    /\ ready' = Tail(ready)
    /\ UNCHANGED <<day, running, flow, store, control, history>>

-----------------------------------------------------------------------------
(* run(), from the stop on.                                                 *)
MainCancels ==
    LET r1 == WakeIf(Tail(ready), Supervisor, at[Supervisor] # "done")
        r2 == WakeIf(r1, DayCloser, at[DayCloser] # "done") IN
    /\ Runs(Main) /\ at[Main] = "waiting"
    /\ cancelled' = TRUE
    /\ Goes(Main, "gathering")
    /\ ready' = WakeIf(r2, Main, \A w \in Worker : at[w] = "done")
    /\ UNCHANGED <<day, running, flow, files, stop, history>>

(* Slip: the queue is joined even when the writer is dead.                  *)
WriterTrusted == FALSE

WriterIsDone == at[Writer] = "failed"

(* A dead writer's queue is emptied; a live writer's is joined, and then    *)
(* the sentinel is put.                                                     *)
MainEndsWriter ==
    /\ Runs(Main) /\ at[Main] \in {"gathering", "joining"}
    /\ IF at[Main] = "gathering" /\ WriterIsDone
         THEN queue' = <<>> /\ Goes(Main, "exited") /\ ready' = Tail(ready)
       ELSE IF at[Main] = "joining" \/ queue = <<>>
         THEN /\ queue' = Append(queue, Stop) /\ Goes(Main, "awaiting")
              /\ ready' = WakeWriter(Tail(ready))
       ELSE Goes(Main, "joining") /\ ready' = Tail(ready) /\ UNCHANGED queue
    /\ UNCHANGED <<day, running, inbox, blocked, files, control, history>>

MainExits ==
    /\ Runs(Main) /\ at[Main] = "awaiting"
    /\ Goes(Main, "exited")
    /\ ready' = Tail(ready)
    /\ UNCHANGED <<day, running, flow, files, control, history>>

-----------------------------------------------------------------------------
SupervisorStep == \/ SupervisorCancelled \/ SupervisorResumes \/ SupervisorConnects
                  \/ SupervisorFails \/ SupervisorPuts \/ HandleFrame \/ OtherFrame \/ SupervisorYields
WriterStep == \/ WriterResumes \/ WriterWrites \/ WriterFails \/ WriterEnds
              \/ WriterYields
DayCloserStep == \/ TimerFires \/ DayCloserCancelled \/ DayCloserJoins
                 \/ DayCloserDetaches \/ DayCloserFails \/ DayCloserSleeps
MainStep == MainCancels \/ MainEndsWriter \/ MainExits

LoopStep == SupervisorStep \/ WriterStep \/ DayCloserStep \/ MainStep
World == \/ Tick \/ FrameArrives \/ Reconnected \/ TimerDue \/ ThreadDone \/ ThreadFails \/ Signal

Next == LoopStep \/ World

Spec == Init /\ [][Next]_vars

(* The loop goes on, its timer fires and the thread ends; the clock, the    *)
(* exchange and whoever stops the service are under no obligation.          *)
FairSpec == Spec /\ WF_vars(LoopStep) /\ WF_vars(TimerDue) /\ WF_vars(ThreadDone \/ ThreadFails)

-----------------------------------------------------------------------------
Pending == {queue[i] : i \in DOMAIN queue} \cup {blocked}

(* "Drain pre-boundary records, then detach without yielding": when a day's *)
(* writers are detached no record of that day is queued or waits to be put  *)
(* (_finalize_closed_day_streams).  The put that was blocked across         *)
(* midnight is ahead of the day-close task only because of the loop's order.*)
DrainedAtDetach ==
    \A d \in Days : store[d] # "active" =>
        \A r \in Pending \ {Stop, NoRecord} : r.day > d

(* The storage takes the records in the order they were stamped, each once, *)
(* and passes over none but those that were given up at a full queue because *)
(* the ledger entry raised: whatever blocks, reconnects and midnights lie   *)
(* between a frame and its write (_handle_frame, _writer_loop).             *)
Written == {written[i] : i \in DOMAIN written}

WrittenInOrder ==
    /\ \A i, j \in DOMAIN written : i < j => written[i] < written[j]
    /\ \A i \in DOMAIN written : 1 .. written[i] \subseteq Written \cup dropped
    /\ Written \cap dropped = {}
    /\ dropped # {} => failures > 0

(* A recorder that stops without a failure has written everything it        *)
(* stamped, except at most the last record, if its put was still blocked    *)
(* when run() cancelled the supervisor.                                     *)
CleanExit == at[Main] = "exited" /\ failures = 0 =>
                 Written \cup lost = 1 .. received /\ lost \subseteq {received}

(* Every stop completes, whether the writer lives or dies: run() never      *)
(* waits for a queue that nobody empties.                                   *)
StopCompletes == stop ~> (at[Main] = "exited")

(* The files of a day that has passed are finalized, unless the service     *)
(* stops.                                                                   *)
DaysFinalized == \A d \in Days : (d < day) ~> (store[d] = "final" \/ stop)
=============================================================================
