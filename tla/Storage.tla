------------------------------ MODULE Storage ------------------------------
(***************************************************************************)
(* The files of one symbol and the processes that work on them: the        *)
(* recorder's event loop, the thread that finalizes a closed day, and the  *)
(* offline finalizer (`depth-recorder finalize-closed-days`).              *)
(*                                                                         *)
(* A stream has one file per hour (a Key).  While it is active it is a     *)
(* write-ahead log (WAL) of plain lines and a compressed partial file; a   *)
(* finalized file is the renamed partial.  The lines of a file are told    *)
(* apart only by how many there are, which is what the code compares.      *)
(***************************************************************************)
EXTENDS Integers, FiniteSetsExt

CONSTANTS
    Streams,        \* the streams of the symbol: depth, trade, bookTicker
    NumHours,       \* hours 0 .. NumHours-1 are modelled
    HoursPerDay,    \* hours of a UTC day
    MaxRecords,     \* bound: records appended in all
    MaxFaults,      \* bound: crashes and I/O errors
    MaxShort,       \* bound: WAL writes that write a part of their line only
    FaultStages,    \* the stages of an operation at which one may happen
    BootRace,       \* may the finalizer run while the recorder recovers?
    NoFile,         \* the content of a file that does not exist
    Damaged,        \* the content of a compressed file cut off by a crash
    NoKey           \* no hourly file

Hour  == 0 .. NumHours - 1
Days  == 0 .. NumHours - 1
Key   == Streams \X Hour

StreamOf(k) == k[1]
HourOf(k)   == k[2]
Day(h)      == h \div HoursPerDay
DayOf(k)    == Day(HourOf(k))

Recorder  == "recorder"     \* the event loop, and startup before it
Closer    == "closer"       \* the thread of asyncio.to_thread at day close
Finalizer == "finalizer"    \* the offline process of the offload timer

Actor   == {Recorder, Closer, Finalizer}
Process == {Recorder, Finalizer}

(* Where an actor is inside HourlyWriter.__init__, append or finalize: the  *)
(* stage names the next step to take.                                      *)
Stage == {"idle", "repair", "rebuild", "open", "write", "compress", "close",
          "replace", "unlink"}

ASSUME HoursAssumption == NumHours \in Nat \ {0} /\ HoursPerDay \in Nat \ {0}
ASSUME BoundsAssumption == {MaxRecords, MaxFaults, MaxShort} \subseteq Nat
ASSUME FlagsAssumption == FaultStages \subseteq Stage /\ BootRace \in BOOLEAN
ASSUME SentinelAssumption == /\ NoFile \notin Nat /\ Damaged \notin Nat
                             /\ NoFile # Damaged /\ NoKey \notin Key

VARIABLES
    hour,       \* the current UTC hour
    \* on disk
    wal,        \* complete lines of the .ndjson.wal
    torn,       \* files whose WAL ends in an incomplete line
    garbled,    \* files whose WAL has a line that starts with an incomplete one
    partial,    \* lines the .zst.partial holds once its compressor is closed
    final,      \* lines of the finalized .ndjson.zst
    dirs,       \* the days that have a directory
    manifest,   \* final manifests: the finalized files a day's lists
    \* in memory
    phase,      \* what each process is doing
    todo,       \* the past days its recovery has still to visit
    live,       \* StorageManager.writers of the recorder
    detached,   \* writers handed to the day-close thread
    isOpen,     \* live or detached writers whose compressor is open
    count,      \* line_count of the live and detached writers
    at,         \* what each actor is doing to which file
    pending,    \* the file the record in append() goes to, or NoKey
    closing,    \* the date the day-close loop sleeps on
    closerOn,   \* is the day-close loop waiting for its thread?
    rxFloor,    \* no record of an earlier hour is still to be appended
    \* history
    accepted,   \* records whose WAL line is complete
    short,      \* records whose WAL line is not, though append() went on
    faults

disk     == <<wal, torn, garbled, partial, final>>
days     == <<dirs, manifest>>
procs    == <<phase, todo>>
writers  == <<live, detached, isOpen, count>>
dayClose == <<closing, closerOn, rxFloor>>
history  == <<accepted, short, faults>>
vars == <<hour, disk, days, procs, writers, at, pending, dayClose, history>>

(* A recorder that runs: with both tasks, without the day-close task,       *)
(* without the writer task, without either, or after close_partial.         *)
Up == {"running", "draining", "failed", "halted", "exiting"}

Idle == [stage |-> "idle", key |-> NoKey, count |-> 0]
Busy(a) == at[a].stage # "idle"
Begin(a, s, k, n) == at' = [at EXCEPT ![a] = [stage |-> s, key |-> k, count |-> n]]

TypeOK ==
    /\ hour \in Hour
    /\ wal \in [Key -> Nat \cup {NoFile}]
    /\ partial \in [Key -> Nat \cup {NoFile, Damaged}]
    /\ final \in [Key -> Nat \cup {NoFile}]
    /\ torn \in SUBSET Key /\ garbled \in SUBSET Key
    /\ dirs \in SUBSET Days
    /\ manifest \in [Days -> (SUBSET Key) \cup {NoFile}]
    /\ phase \in [Process -> {"down", "recovering"} \cup Up]
    /\ todo \in [Process -> SUBSET Days]
    /\ live \in SUBSET Key
    /\ detached \in SUBSET Key
    /\ isOpen \in SUBSET Key
    /\ count \in [Key -> Nat]
    /\ at \in [Actor -> [stage : Stage, key : Key \cup {NoKey}, count : Nat]]
    /\ pending \in Key \cup {NoKey}
    /\ closing \in Days
    /\ closerOn \in BOOLEAN
    /\ rxFloor \in Nat
    /\ accepted \in [Key -> Nat] /\ short \in [Key -> Nat]
    /\ faults \in Nat

Init ==
    /\ hour = 0
    /\ wal = [k \in Key |-> NoFile]
    /\ partial = [k \in Key |-> NoFile]
    /\ final = [k \in Key |-> NoFile]
    /\ torn = {} /\ garbled = {} /\ dirs = {}
    /\ manifest = [d \in Days |-> NoFile]
    /\ phase = [p \in Process |-> "down"]
    /\ todo = [p \in Process |-> {}]
    /\ live = {} /\ detached = {} /\ isOpen = {}
    /\ count = [k \in Key |-> 0]
    /\ at = [a \in Actor |-> Idle]
    /\ pending = NoKey
    /\ closing = 0 /\ closerOn = FALSE /\ rxFloor = 0
    /\ accepted = [k \in Key |-> 0] /\ short = [k \in Key |-> 0]
    /\ faults = 0

-----------------------------------------------------------------------------
(* Recovery: finalize_previous_days, run by the recorder before it starts   *)
(* and by the finalizer.  It visits the directories of past days in order;  *)
(* the order of the WALs of one directory is left open.                     *)

WalsOf(d)   == {k \in Key : DayOf(k) = d /\ wal[k] # NoFile}
FinalsOf(d) == {k \in Key : DayOf(k) = d /\ final[k] # NoFile}

(* Slip: yesterday's directory is taken for today's.                        *)
PastDaysButYesterday == {d \in dirs : d < Day(hour) - 1}

PastDays == {d \in dirs : d < Day(hour)}

BeginRecovery(p) ==
    /\ phase' = [phase EXCEPT ![p] = "recovering"]
    /\ todo' = [todo EXCEPT ![p] = PastDays]
    /\ UNCHANGED <<hour, disk, days, writers, at, pending, dayClose, history>>

EndRecovery(p, ph) ==
    /\ phase' = [phase EXCEPT ![p] = ph]
    /\ todo' = [todo EXCEPT ![p] = {}]

Start == /\ phase[Recorder] = "down"
         /\ BootRace \/ phase[Finalizer] = "down"
         /\ BeginRecovery(Recorder)

(* The offload timer fires half an hour into the day, when the day close of *)
(* a recorder that is up is over.                                           *)
FinalizerStart ==
    /\ phase[Finalizer] = "down"
    /\ Day(hour) > 0
    /\ \/ phase[Recorder] = "down"
       \/ phase[Recorder] \in Up /\ closing = Day(hour)
       \/ BootRace /\ phase[Recorder] = "recovering"
    /\ BeginRecovery(Finalizer)

Visits(p, d) == /\ phase[p] = "recovering" /\ ~Busy(p)
                /\ d \in todo[p] /\ \A e \in todo[p] : d <= e

RecoverWal(p, k) ==
    /\ Visits(p, DayOf(k)) /\ wal[k] # NoFile
    /\ Begin(p, "repair", k, 0)
    /\ UNCHANGED <<hour, disk, days, procs, writers, pending, dayClose, history>>

(* All WALs of the directory are done: quarantine the partials that have    *)
(* none, and write the day's manifest unless it has one.                    *)
(* Slip: the manifest is written before the directory's WALs are recovered. *)
DirectoryUnchecked(d) == d \in Days

DirectoryDone(d) == WalsOf(d) = {}

RecoverDay(p, d) ==
    /\ Visits(p, d) /\ DirectoryDone(d)
    /\ partial' = [k \in Key |-> IF DayOf(k) = d THEN NoFile ELSE partial[k]]
    /\ manifest' = [manifest EXCEPT ![d] = IF @ = NoFile THEN FinalsOf(d) ELSE @]
    /\ todo' = [todo EXCEPT ![p] = @ \ {d}]
    /\ UNCHANGED <<hour, wal, torn, garbled, final, dirs, phase, writers, at, pending,
                   dayClose, history>>

(* process_start, and the day-close loop reads the date it will close.      *)
RecorderReady ==
    /\ phase[Recorder] = "recovering" /\ ~Busy(Recorder) /\ todo[Recorder] = {}
    /\ EndRecovery(Recorder, "running")
    /\ dirs' = dirs \cup {Day(hour)}
    /\ closing' = Day(hour) /\ rxFloor' = hour
    /\ UNCHANGED <<hour, disk, manifest, writers, at, pending, closerOn, history>>

FinalizerDone ==
    /\ phase[Finalizer] = "recovering" /\ ~Busy(Finalizer) /\ todo[Finalizer] = {}
    /\ EndRecovery(Finalizer, "down")
    /\ UNCHANGED <<hour, disk, days, writers, at, pending, dayClose, history>>

-----------------------------------------------------------------------------
(* A compressed file is spoilt if nobody closes it, or if a write to it     *)
(* fails: the compressor's output is lost.                                  *)
CutOff(keys) == [k \in Key |-> IF k \in keys THEN Damaged ELSE partial[k]]
Closing(actors) ==
    {at[a].key : a \in {b \in actors : at[b].stage \in {"compress", "close"}}}

(* An exception ends the finalizer and a recorder that is still recovering. *)
(* In the running recorder it ends the writer or day-close task, whose      *)
(* _guard asks for a stop; the thread's other writers are abandoned.  A     *)
(* writer that lives drains the queue, and until run() has cancelled it a   *)
(* day-close loop that lives may still go on.                               *)
Without(task, ph) ==
    CASE task = Closer   /\ ph = "running"  -> "draining"
      [] task = Closer   /\ ph = "failed"   -> "halted"
      [] task = Recorder /\ ph = "running"  -> "failed"
      [] task = Recorder /\ ph = "draining" -> "halted"
      [] OTHER -> ph

Abandon(a) ==
    /\ at' = [at EXCEPT ![a] = Idle]
    /\ IF a \in Process /\ phase[a] = "recovering"
         THEN EndRecovery(a, "down")
         ELSE phase' = [phase EXCEPT ![Recorder] = Without(a, @)] /\ UNCHANGED todo
    /\ pending' = IF a = Recorder THEN NoKey ELSE pending
    /\ IF a = Closer
         THEN /\ detached' = {} /\ isOpen' = isOpen \ detached /\ closerOn' = FALSE
              /\ partial' = CutOff(isOpen \cap detached)
         ELSE /\ partial' = CutOff(Closing({a}))
              /\ UNCHANGED <<detached, isOpen, closerOn>>
    /\ UNCHANGED <<wal, garbled, final, live, count>>

Fail(a) == Abandon(a) /\ UNCHANGED torn

(* Any step may fail: the disk is full, a file cannot be opened.            *)
Raises(a) ==
    /\ Busy(a) /\ faults < MaxFaults /\ at[a].stage \in FaultStages
    /\ faults' = faults + 1
    /\ Fail(a)
    /\ UNCHANGED <<hour, days, closing, rxFloor, accepted, short>>

(* HourlyWriter.__init__: refuse a finalized file, cut an incomplete last   *)
(* line off the WAL (to quarantine/) and count the others, which must all   *)
(* parse, or move aside a partial that has no WAL.                          *)
(* Slip: the truncation takes one complete line too many.                   *)
CompleteLinesButLast(k) == wal[k] - 1

CompleteLines(k) == wal[k]

(* Slip: the incomplete line is saved but not cut off.                      *)
TornLeft(k) == torn

TornAfterRepair(k) == torn \ {k}

(* Slip: a line that does not parse is passed over.                         *)
RefusesNothing(k) == FALSE

Refuses(k) == k \in garbled

Repair(a) ==
    LET k == at[a].key IN
    /\ at[a].stage = "repair"
    /\ \/ /\ final[k] # NoFile
          /\ Fail(a)
       \/ /\ final[k] = NoFile /\ wal[k] # NoFile /\ Refuses(k)
          /\ torn' = TornAfterRepair(k)
          /\ Abandon(a)
       \/ /\ final[k] = NoFile /\ wal[k] # NoFile /\ ~Refuses(k)
          /\ wal' = [wal EXCEPT ![k] = CompleteLines(k)]
          /\ torn' = TornAfterRepair(k)
          /\ Begin(a, "rebuild", k, CompleteLines(k))
          /\ UNCHANGED <<garbled, partial, final, procs, writers, pending, closerOn>>
       \/ /\ final[k] = NoFile /\ wal[k] = NoFile
          /\ partial' = [partial EXCEPT ![k] = NoFile]
          /\ Begin(a, "open", k, 0)
          /\ UNCHANGED <<wal, torn, garbled, final, procs, writers, pending, closerOn>>
    /\ dirs' = dirs \cup {DayOf(k)}
    /\ UNCHANGED <<hour, manifest, closing, rxFloor, history>>

(* Compress the WAL afresh and rename the result over the partial.          *)
Rebuild(a) ==
    LET k == at[a].key IN
    /\ at[a].stage = "rebuild"
    /\ IF wal[k] = NoFile THEN Fail(a)
       ELSE /\ partial' = [partial EXCEPT ![k] = wal[k]]
            /\ Begin(a, "open", k, at[a].count)
            /\ UNCHANGED <<wal, torn, garbled, final, procs, writers, pending, closerOn>>
    /\ UNCHANGED <<hour, days, closing, rxFloor, history>>

(* Open both files for appending.  A writer made by append() joins          *)
(* self.writers; one made by a recovery is finalized at once.               *)
Opened(lines) == IF lines = NoFile THEN 0 ELSE lines

(* Slip: the WAL is opened for writing, not for appending.                  *)
OpenedWalAfresh(k) == 0

OpenedWal(k) == Opened(wal[k])

Open(a) ==
    LET k == at[a].key
        appending == a = Recorder /\ pending = k IN
    /\ at[a].stage = "open"
    /\ wal' = [wal EXCEPT ![k] = OpenedWal(k)]
    /\ partial' = [partial EXCEPT ![k] = Opened(@)]
    /\ IF appending
         THEN /\ live' = live \cup {k}
              /\ isOpen' = isOpen \cup {k}
              /\ count' = [count EXCEPT ![k] = at[a].count]
              /\ Begin(a, "write", k, 0)
         ELSE /\ Begin(a, "close", k, at[a].count)
              /\ UNCHANGED <<live, isOpen, count>>
    /\ UNCHANGED <<hour, torn, garbled, final, days, procs, detached, pending,
                   dayClose, history>>

(* HourlyWriter.finalize: close, compare the line count, rename, unlink.    *)
Close(a) ==
    /\ at[a].stage = "close"
    /\ isOpen' = isOpen \ {at[a].key}
    /\ at' = [at EXCEPT ![a].stage = "replace"]
    /\ UNCHANGED <<hour, disk, days, procs, live, detached, count, pending, dayClose,
                   history>>

Replace(a) ==
    LET k == at[a].key IN
    /\ at[a].stage = "replace"
    /\ IF partial[k] # at[a].count THEN Fail(a)
       ELSE /\ final' = [final EXCEPT ![k] = partial[k]]
            /\ partial' = [partial EXCEPT ![k] = NoFile]
            /\ at' = [at EXCEPT ![a].stage = "unlink"]
            /\ UNCHANGED <<wal, torn, garbled, procs, writers, pending, closerOn>>
    /\ UNCHANGED <<hour, days, closing, rxFloor, history>>

(* Slip: the WAL is left behind.                                            *)
WalLeft(k) == wal[k]

WalAfterFinalize(k) == NoFile

Unlink(a) ==
    LET k == at[a].key IN
    /\ at[a].stage = "unlink"
    /\ IF wal[k] = NoFile THEN Fail(a)
       ELSE /\ wal' = [wal EXCEPT ![k] = WalAfterFinalize(k)]
            /\ torn' = torn \ {k} /\ garbled' = garbled \ {k}
            /\ live' = IF a = Recorder THEN live \ {k} ELSE live
            /\ detached' = IF a = Closer THEN detached \ {k} ELSE detached
            /\ count' = IF a = Finalizer THEN count ELSE [count EXCEPT ![k] = 0]
            /\ at' = [at EXCEPT ![a] = Idle]
            /\ UNCHANGED <<partial, final, procs, isOpen, pending, closerOn>>
    /\ UNCHANGED <<hour, days, closing, rxFloor, history>>

-----------------------------------------------------------------------------
(* StorageManager.append, run on the event loop by the writer task.  The    *)
(* queue is first in, first out, so hours never go back.                    *)
LoopFree == pending = NoKey /\ ~Busy(Recorder)

Append(k) ==
    /\ phase[Recorder] \in {"running", "draining"} /\ LoopFree
    /\ rxFloor <= HourOf(k) /\ HourOf(k) <= hour
    /\ MapThenSumSet(LAMBDA j : accepted[j] + short[j], Key) < MaxRecords
    /\ pending' = k
    /\ rxFloor' = HourOf(k)
    /\ IF k \in live THEN Begin(Recorder, "write", k, 0) ELSE UNCHANGED at
    /\ UNCHANGED <<hour, disk, days, procs, writers, closing, closerOn, history>>

(* Slip: only hours of the same day count as older.                         *)
OlderWritersOfDay(k) ==
    {j \in live : StreamOf(j) = StreamOf(k) /\ DayOf(j) = DayOf(k) /\ HourOf(j) < HourOf(k)}

OlderWriters(k) == {j \in live : StreamOf(j) = StreamOf(k) /\ HourOf(j) < HourOf(k)}

(* _finalize_older_writers first, then the constructor for the new hour.    *)
FinalizeOlder(j) ==
    /\ pending # NoKey /\ ~Busy(Recorder)
    /\ j \in OlderWriters(pending)
    /\ Begin(Recorder, "close", j, count[j])
    /\ UNCHANGED <<hour, disk, days, procs, writers, pending, dayClose, history>>

OpenNew ==
    /\ pending # NoKey /\ ~Busy(Recorder)
    /\ OlderWriters(pending) = {}
    /\ Begin(Recorder, "repair", pending, 0)
    /\ UNCHANGED <<hour, disk, days, procs, writers, pending, dayClose, history>>

(* HourlyWriter.append: the WAL line first, then the compressed one.  A     *)
(* line behind an incomplete one is read as one line with it.               *)
WriteWal ==
    /\ at[Recorder].stage = "write"
    /\ wal' = [wal EXCEPT ![pending] = @ + 1]
    /\ garbled' = garbled \cup (torn \cap {pending}) /\ torn' = torn \ {pending}
    /\ accepted' = [accepted EXCEPT ![pending] = @ + 1]
    /\ at' = [at EXCEPT ![Recorder].stage = "compress"]
    /\ UNCHANGED <<hour, partial, final, days, procs, writers, pending, dayClose,
                   short, faults>>

(* The disk is nearly full: the write returns the number of bytes it has    *)
(* written, which append() does not look at.                                *)
WriteShort ==
    /\ at[Recorder].stage = "write"
    /\ MapThenSumSet(LAMBDA j : short[j], Key) < MaxShort
    /\ torn' = torn \cup {pending}
    /\ short' = [short EXCEPT ![pending] = @ + 1]
    /\ at' = [at EXCEPT ![Recorder].stage = "compress"]
    /\ UNCHANGED <<hour, wal, garbled, partial, final, days, procs, writers, pending,
                   dayClose, accepted, faults>>

WriteCompressed ==
    /\ at[Recorder].stage = "compress"
    /\ partial' = [partial EXCEPT ![pending] = @ + 1]
    /\ count' = [count EXCEPT ![pending] = @ + 1]
    /\ at' = [at EXCEPT ![Recorder] = Idle]
    /\ pending' = NoKey
    /\ UNCHANGED <<hour, wal, torn, garbled, final, days, procs, live, detached,
                   isOpen, dayClose, history>>

-----------------------------------------------------------------------------
(* The day-close loop wakes at midnight, waits until the queue is drained   *)
(* (no record of the closed day is still to be appended) and detaches the   *)
(* closed day's writers for the thread.                                     *)
WritersOf(d) == {k \in live : DayOf(k) = d}

(* Slip: the detached writers stay in self.writers.                         *)
LiveKept(d) == live

LiveAfterDetach(d) == live \ WritersOf(d)

DayClose ==
    /\ phase[Recorder] \in {"running", "failed"} /\ LoopFree /\ ~closerOn /\ closing < Day(hour)
    /\ detached' = WritersOf(closing)
    /\ live' = LiveAfterDetach(closing)
    /\ LET firstHour == (closing + 1) * HoursPerDay
       IN  rxFloor' = IF rxFloor < firstHour THEN firstHour ELSE rxFloor
    /\ closerOn' = TRUE
    /\ UNCHANGED <<hour, disk, days, procs, isOpen, count, at, pending, closing,
                   history>>

(* finalize_detached_writers, in the thread.                                *)
FinalizeDetached(k) ==
    /\ ~Busy(Closer) /\ k \in detached
    /\ Begin(Closer, "close", k, count[k])
    /\ UNCHANGED <<hour, disk, days, procs, writers, pending, dayClose, history>>

(* The thread is done; the loop reads the date it will close next.          *)
DayClosed ==
    /\ phase[Recorder] \in {"running", "failed"} /\ LoopFree /\ closerOn /\ detached = {}
    /\ closerOn' = FALSE
    /\ closing' = Day(hour)
    /\ dirs' = dirs \cup {Day(hour)}
    /\ UNCHANGED <<hour, disk, manifest, procs, writers, at, pending, rxFloor,
                   history>>

-----------------------------------------------------------------------------
(* Orderly end of the recorder: the queue is drained, process_stop, then    *)
(* close_partial closes the live writers.                                   *)
ClosePartial ==
    /\ phase[Recorder] \in Up \ {"exiting"} /\ LoopFree
    /\ phase' = [phase EXCEPT ![Recorder] = "exiting"]
    /\ isOpen' = isOpen \ live
    /\ dirs' = dirs \cup {Day(hour)}
    /\ UNCHANGED <<hour, disk, manifest, todo, live, detached, count, at, pending,
                   dayClose, history>>

ForgetMemory ==
    /\ EndRecovery(Recorder, "down")
    /\ live' = {} /\ detached' = {} /\ isOpen' = {}
    /\ count' = [k \in Key |-> 0]
    /\ at' = [at EXCEPT ![Recorder] = Idle, ![Closer] = Idle]
    /\ pending' = NoKey
    /\ closing' = 0 /\ closerOn' = FALSE /\ rxFloor' = 0

(* asyncio.run waits for the thread before the process is gone.             *)
Exit ==
    /\ phase[Recorder] = "exiting" /\ detached = {}
    /\ ForgetMemory
    /\ UNCHANGED <<hour, disk, days, history>>

(* A process is killed.  The compressed files it had open are cut off, and  *)
(* a WAL line it was writing may be incomplete.                             *)
CrashRecorder ==
    /\ phase[Recorder] # "down" /\ faults < MaxFaults
    /\ at[Recorder].stage \in FaultStages /\ at[Closer].stage \in FaultStages
    /\ faults' = faults + 1
    /\ partial' = CutOff(isOpen \cup Closing({Recorder, Closer}))
    /\ \/ UNCHANGED torn
       \/ at[Recorder].stage = "write" /\ torn' = torn \cup {pending}
    /\ ForgetMemory
    /\ UNCHANGED <<hour, wal, garbled, final, days, accepted, short>>

CrashFinalizer ==
    /\ phase[Finalizer] # "down" /\ faults < MaxFaults
    /\ at[Finalizer].stage \in FaultStages
    /\ faults' = faults + 1
    /\ EndRecovery(Finalizer, "down")
    /\ at' = [at EXCEPT ![Finalizer] = Idle]
    /\ partial' = CutOff(Closing({Finalizer}))
    /\ UNCHANGED <<hour, wal, torn, garbled, final, days, writers, pending,
                   dayClose, accepted, short>>

(* The day-close loop is never a whole day behind the clock: it closes a    *)
(* day before the next one is over.                                         *)
Tick ==
    /\ hour < NumHours - 1
    /\ phase[Recorder] \in Up \ {"exiting"} => Day(hour + 1) <= closing + 1
    /\ hour' = hour + 1
    /\ UNCHANGED <<disk, days, procs, writers, at, pending, dayClose, history>>

-----------------------------------------------------------------------------
WriterStep(a) == \/ Repair(a) \/ Rebuild(a) \/ Open(a)
                 \/ Close(a) \/ Replace(a) \/ Unlink(a)

RecoveryStep(p) == \/ \E d \in Days : RecoverDay(p, d)
                   \/ \E k \in Key : RecoverWal(p, k)

AppendStep == OpenNew \/ WriteWal \/ WriteShort \/ WriteCompressed \/ \E j \in Key : FinalizeOlder(j)

DayCloseStep == DayClose \/ DayClosed

Next ==
    \/ Tick
    \/ Start \/ RecorderReady \/ ClosePartial \/ Exit
    \/ FinalizerStart \/ FinalizerDone
    \/ CrashRecorder \/ CrashFinalizer \/ \E a \in Actor : Raises(a)
    \/ \E k \in Key : Append(k)
    \/ AppendStep
    \/ DayCloseStep
    \/ \E k \in Key : FinalizeDetached(k)
    \/ \E p \in Process : RecoveryStep(p)
    \/ \E a \in Actor : WriterStep(a)

Spec == Init /\ [][Next]_vars

(* An actor that is running goes on; systemd restarts the recorder          *)
(* (Restart=always) and starts the offload every night; asyncio wakes the   *)
(* day-close loop.  Nothing forces time, records or a stop to come.         *)
Fairness ==
    /\ \A a \in Actor : WF_vars(WriterStep(a))
    /\ \A p \in Process : WF_vars(RecoveryStep(p))
    /\ WF_vars(AppendStep) /\ SF_vars(DayCloseStep)
    /\ WF_vars(\E k \in Key : FinalizeDetached(k))
    /\ SF_vars(Start) /\ WF_vars(RecorderReady) /\ WF_vars(Exit)
    /\ WF_vars(phase[Recorder] # "running" /\ ClosePartial)
    /\ WF_vars(FinalizerStart) /\ WF_vars(FinalizerDone)

FairSpec == Spec /\ Fairness

-----------------------------------------------------------------------------
(* The records of a file that can be read back, whatever state it is in.    *)
(* The line of a garbled WAL that is spoilt counts: its bytes are there.    *)
Recoverable(k) == IF final[k] # NoFile THEN final[k]
                  ELSE IF wal[k] # NoFile THEN wal[k] ELSE 0

Archive == INSTANCE StreamArchive WITH log <- [k \in Key |-> Recoverable(k)],
                                       doubtful <- short,
                                       sealed <- {k \in Key : final[k] # NoFile}

(* Whatever crashes, repairs and renames happen, a file's readable records  *)
(* only grow one at a time, or when it is finalized by those cut short in   *)
(* the WAL, and never change from then on: the storage layer implements the *)
(* archive (HourlyWriter, StorageManager).                                  *)
ArchiveRefined == Archive!ArchiveSpec

(* At every step, crash points included, exactly the records whose WAL line *)
(* was completed can be read back, and of the others a finalized file may   *)
(* hold those that were cut short in a WAL its recorder survived            *)
(* (HourlyWriter.append and finalize).  No record follows an incomplete     *)
(* line unless a write was cut short, and no file is rebuilt from a WAL in  *)
(* which one has (the repair and the scan in HourlyWriter.__init__).        *)
Durable ==
    /\ \A k \in Key :
          Recoverable(k) \in accepted[k] .. accepted[k] + IF final[k] = NoFile THEN 0 ELSE short[k]
    /\ \A k \in torn \cap (live \cup detached) : short[k] > 0
    /\ \A a \in Actor : at[a].stage \in {"rebuild", "open"} => at[a].key \notin garbled

(* Two actors never work on one file, and the day-close thread's files are  *)
(* not in self.writers (StorageManager.detach_day_writers).                 *)
OneOwner ==
    /\ live \cap detached = {}
    /\ \A a, b \in Actor : a # b /\ Busy(a) /\ Busy(b) => at[a].key # at[b].key
    /\ Busy(Closer) => at[Closer].key \notin live
    /\ Busy(Finalizer) => at[Finalizer].key \notin live \cup detached

(* Between appends a stream has at most one active file: opening an hour    *)
(* finalizes the earlier ones (StorageManager._finalize_older_writers).     *)
OneActiveHour ==
    pending = NoKey => \A j, k \in live : StreamOf(j) = StreamOf(k) => j = k

(* A final manifest lists all finalized files of its day, and no WAL of the *)
(* day is left: prune and verify may rely on it (finalize_previous_days).   *)
ManifestComplete ==
    \A d \in Days : manifest[d] # NoFile => manifest[d] = FinalsOf(d) /\ WalsOf(d) = {}

(* The WAL of a day that has passed is eventually finalized, by the day     *)
(* close, by the recovery at startup or by the nightly finalizer.           *)
PastDaysFinalized ==
    \A k \in Key : (wal[k] # NoFile /\ DayOf(k) < Day(hour))
                       ~> (wal[k] = NoFile /\ final[k] # NoFile)

(* A recorder that is down comes up again: recovery never refuses to start  *)
(* on what a crash left (StorageManager.finalize_previous_days).            *)
RecoveryCompletes == (phase[Recorder] = "down") ~> (phase[Recorder] = "running")
=============================================================================
