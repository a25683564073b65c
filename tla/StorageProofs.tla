--------------------------- MODULE StorageProofs ---------------------------
(***************************************************************************)
(* What holds of the files of Storage for any number of streams, hours,    *)
(* records, faults and short writes, as long as the offline finalizer and  *)
(* the recovery of a starting recorder do not overlap (~BootRace): the     *)
(* invariants of the run storage_files, and the refinement of              *)
(* StreamArchive.                                                          *)
(***************************************************************************)
EXTENDS Storage, TLAPS

(* The recorder is past its recovery.                                       *)
Alive == phase[Recorder] \in Up

(* Nothing has failed yet in what appends records.                          *)
Healthy == phase[Recorder] \in {"running", "draining"} \/ pending # NoKey

(* Who may be at work in which phase.                                       *)
PhaseInv ==
    /\ phase[Finalizer] \in {"down", "recovering"}
    /\ phase[Recorder] = "recovering" => phase[Finalizer] = "down"
    /\ Busy(Finalizer) => phase[Finalizer] = "recovering"
    /\ ~Alive => live = {} /\ detached = {} /\ ~closerOn
    /\ phase[Recorder] \in {"down", "recovering", "exiting"} => pending = NoKey
    /\ phase[Recorder] \in {"down", "exiting"} => ~Busy(Recorder)
    /\ detached # {} => closerOn

(* What each actor is at, stage by stage.                                   *)
PlaceInv ==
    /\ \A a \in Actor : Busy(a) => at[a].key \in Key
    /\ Alive /\ Busy(Recorder) => pending # NoKey
    /\ at[Recorder].stage \in {"write", "compress"} => at[Recorder].key = pending
    /\ pending # NoKey => (pending \in live <=> at[Recorder].stage \in {"write", "compress"})
    /\ pending # NoKey /\ at[Recorder].stage \in {"repair", "rebuild", "open"} =>
          at[Recorder].key = pending
    /\ pending # NoKey /\ at[Recorder].stage \in {"close", "replace", "unlink"} =>
          at[Recorder].key \in live
    /\ Busy(Closer) => at[Closer].key \in detached
    /\ at[Closer].stage \in {"idle", "close", "replace", "unlink"}
    /\ phase[Recorder] = "recovering" => at[Recorder].stage \notin {"write", "compress"}
    /\ at[Finalizer].stage \notin {"write", "compress"}

(* The days: what is recovered lies before what is recorded.                *)
DayInv ==
    /\ \A p \in Process : /\ \A d \in todo[p] : d < Day(hour)
                          /\ Busy(p) /\ phase[p] = "recovering" => DayOf(at[p].key) \in todo[p]
    /\ \A d \in Days : manifest[d] # NoFile => d < Day(hour)
    /\ phase[Recorder] \in Up \ {"exiting"} => Day(hour) <= closing + 1
    /\ Alive => /\ closing <= Day(hour) /\ closing <= Day(rxFloor)
                /\ \A d \in todo[Finalizer] : d < closing
                /\ \A d \in Days : manifest[d] # NoFile => d < closing
                /\ \A k \in live : closing <= DayOf(k)
                /\ \A k \in detached : DayOf(k) = closing
    /\ pending # NoKey => HourOf(pending) = rxFloor
    /\ closerOn => /\ closing < Day(hour) /\ closing < Day(rxFloor)
                   /\ \A k \in live : closing < DayOf(k)

(* Nobody is at work on a day that has its manifest.                        *)
ManifestInv ==
    /\ ManifestComplete
    /\ \A a \in Actor : Busy(a) => manifest[DayOf(at[a].key)] = NoFile

(* The active file of a stream is not younger than the records to come.     *)
HourInv ==
    /\ \A k \in live : HourOf(k) <= rxFloor
    /\ \A j, k \in live : StreamOf(j) = StreamOf(k) => j = k
    /\ pending # NoKey /\ at[Recorder].stage \in {"repair", "rebuild", "open"} =>
          \A j \in live : StreamOf(j) # StreamOf(pending)

(* The compressors that are open belong to writers in memory, and none of   *)
(* them to a file that is being renamed.                                    *)
OpenInv ==
    /\ isOpen \subseteq live \cup detached
    /\ \A a \in Actor : at[a].stage \in {"replace", "unlink"} => at[a].key \notin isOpen

(* The lines: what WAL, compressed and finalized file hold.                 *)
Logged     == \A k \in Key : final[k] = NoFile =>
                 IF wal[k] = NoFile THEN accepted[k] = 0 ELSE wal[k] = accepted[k]
Sealed     == \A k \in Key : final[k] # NoFile =>
                 /\ accepted[k] <= final[k] /\ final[k] <= accepted[k] + short[k]
                 /\ partial[k] \notin Nat
Compressed == \A k \in Key : partial[k] \in Nat =>
                 \/ accepted[k] <= partial[k] /\ partial[k] <= accepted[k] + short[k]
                 \/ at[Recorder].stage = "compress" /\ pending = k
Compressing == at[Recorder].stage = "compress" =>
                 /\ accepted[pending] <= partial[pending] + 1
                 /\ partial[pending] + 1 <= accepted[pending] + short[pending]
Writable   == Healthy => \A k \in live :
                 \/ at[Recorder].stage = "unlink" /\ at[Recorder].key = k
                 \/ final[k] = NoFile /\ wal[k] \in Nat /\ partial[k] \in Nat
HasWal     == \A k \in torn \cup garbled : wal[k] # NoFile
TornOfShort == \A k \in torn \cap (live \cup detached) : short[k] > 0
Rebuilt    == \A a \in Actor : at[a].stage \in {"rebuild", "open"} =>
                 /\ final[at[a].key] = NoFile
                 /\ at[a].key \notin torn \cup garbled
                 /\ \/ at[a].stage = "rebuild"
                    \/ partial[at[a].key] \in Nat
                    \/ partial[at[a].key] = NoFile /\ wal[at[a].key] = NoFile
Renamed    == \A a \in Actor : at[a].stage = "unlink" => final[at[a].key] # NoFile

FileInv == /\ Logged /\ Sealed /\ Compressed /\ Compressing /\ Writable
           /\ HasWal /\ TornOfShort /\ Rebuilt /\ Renamed

StorageInv == /\ TypeOK /\ PhaseInv /\ PlaceInv /\ DayInv /\ ManifestInv /\ HourInv /\ OpenInv
              /\ FileInv

-----------------------------------------------------------------------------
LEMMA DayFacts ==
    /\ \A h \in Hour : h \in Nat /\ Day(h) \in Days
    /\ \A h \in Nat : Day(h) \in Nat
    /\ \A h, i \in Nat : h <= i => Day(h) <= Day(i)
    /\ \A d, h \in Nat : d * HoursPerDay <= h => d <= Day(h)
    /\ Days \subseteq Nat
  BY HoursAssumption DEF Hour, Days, Day

LEMMA KeyFacts ==
    /\ \A k \in Key : HourOf(k) \in Hour /\ HourOf(k) \in Nat /\ DayOf(k) = Day(HourOf(k)) /\ DayOf(k) \in Days
    /\ \A j, k \in Key : StreamOf(j) = StreamOf(k) /\ HourOf(j) = HourOf(k) => j = k
    /\ NoKey \notin Key
  <1>1. \A k \in Key : HourOf(k) \in Hour
    BY DEF Key, HourOf
  <1>2. \A j, k \in Key : StreamOf(j) = StreamOf(k) /\ HourOf(j) = HourOf(k) => j = k
    BY DEF Key, HourOf, StreamOf
  <1>3. QED
    BY <1>1, <1>2, DayFacts, SentinelAssumption DEF DayOf

LEMMA Actors == /\ Actor = {Recorder, Closer, Finalizer} /\ Process = {Recorder, Finalizer}
                /\ Recorder # Closer /\ Closer # Finalizer /\ Recorder # Finalizer
  BY DEF Actor, Process, Recorder, Closer, Finalizer

(* A failed task takes the recorder to a phase with one task less.          *)
OneTaskLess == /\ phase[Recorder] \in {"running", "draining", "failed"}
               /\ phase'[Recorder] \in {"draining", "failed", "halted"}

LEMMA WithoutTask ==
    ASSUME NEW a \in Actor, NEW ph
    PROVE  /\ \/ Without(a, ph) = ph
              \/ /\ ph \in {"running", "draining", "failed"}
                 /\ Without(a, ph) \in {"draining", "failed", "halted"}
           /\ Without(a, ph) \in {"running", "draining"} =>
                 ph \in {"running", "draining"} /\ a # Recorder
  BY Actors DEF Without

(* Abandon keeps the types of all it changes.                               *)
LEMMA AbandonTypes ==
    ASSUME TypeOK, NEW a \in Actor, Abandon(a)
    PROVE  /\ at' \in [Actor -> [stage : Stage, key : Key \cup {NoKey}, count : Nat]]
           /\ phase' \in [Process -> {"down", "recovering"} \cup Up]
           /\ todo' \in [Process -> SUBSET Days]
           /\ pending' \in Key \cup {NoKey}
           /\ detached' \in SUBSET Key /\ isOpen' \in SUBSET Key
           /\ closerOn' \in BOOLEAN
           /\ partial' \in [Key -> Nat \cup {NoFile, Damaged}]
           /\ UNCHANGED <<wal, garbled, final, live, count>>
  <1>1. Idle \in [stage : Stage, key : Key \cup {NoKey}, count : Nat]
    BY DEF Idle, Stage
  <1>2. at' \in [Actor -> [stage : Stage, key : Key \cup {NoKey}, count : Nat]]
    BY <1>1 DEF Abandon, TypeOK
  <1>3. /\ phase' \in [Process -> {"down", "recovering"} \cup Up]
        /\ todo' \in [Process -> SUBSET Days]
    BY Actors, WithoutTask DEF Abandon, EndRecovery, TypeOK, Up
  <1>4. /\ detached' \in SUBSET Key /\ isOpen' \in SUBSET Key
        /\ partial' \in [Key -> Nat \cup {NoFile, Damaged}]
    BY DEF Abandon, CutOff, TypeOK
  <1>5. closerOn' \in BOOLEAN
    BY Zenon DEF Abandon, TypeOK
  <1>6. pending' \in Key \cup {NoKey}
    BY DEF Abandon, TypeOK
  <1>7. QED
    BY <1>2, <1>3, <1>4, <1>5, <1>6 DEF Abandon

LEMMA BeginTypes ==
    ASSUME TypeOK, NEW a \in Actor, NEW s \in Stage, NEW k \in Key, NEW n \in Nat, Begin(a, s, k, n)
    PROVE  at' \in [Actor -> [stage : Stage, key : Key \cup {NoKey}, count : Nat]]
  BY DEF Begin, TypeOK

(* A record is appended to a file that is neither finalized nor damaged.    *)
LEMMA Appending ==
    ASSUME StorageInv, at[Recorder].stage \in {"write", "compress"}
    PROVE  /\ pending \in Key /\ pending \in live /\ at[Recorder].key = pending
           /\ final[pending] = NoFile /\ wal[pending] \in Nat /\ partial[pending] \in Nat
  <1>1. /\ at[Recorder].key = pending /\ pending \in Key
    BY Actors DEF StorageInv, PlaceInv, Busy
  <1>2. pending # NoKey /\ pending \in live
    BY <1>1, KeyFacts DEF StorageInv, PlaceInv
  <1>3. QED
    BY <1>1, <1>2 DEF StorageInv, FileInv, Writable, Healthy

-----------------------------------------------------------------------------
(* The steps of a writer, with what they leave alone: an operation is given *)
(* up, or it goes on.                                                       *)
GivesUp(a) ==
    /\ Busy(a) /\ Abandon(a) /\ (torn' = torn \/ torn' = torn \ {at[a].key})
    /\ dirs \subseteq dirs' /\ dirs' \subseteq dirs \cup {DayOf(at[a].key)} /\ faults' \in {faults, faults + 1}
    /\ UNCHANGED <<hour, manifest, closing, rxFloor, accepted, short>>

RepairsWal(a) ==
    LET k == at[a].key IN
    /\ at[a].stage = "repair"
    /\ final[k] = NoFile /\ wal[k] # NoFile /\ k \notin garbled
    /\ torn' = torn \ {k}
    /\ Begin(a, "rebuild", k, wal[k])
    /\ dirs' = dirs \cup {DayOf(k)}
    /\ UNCHANGED <<hour, wal, garbled, partial, final, manifest, procs, writers, pending,
                   dayClose, history>>

FindsNoWal(a) ==
    LET k == at[a].key IN
    /\ at[a].stage = "repair"
    /\ final[k] = NoFile /\ wal[k] = NoFile
    /\ partial' = [partial EXCEPT ![k] = NoFile]
    /\ Begin(a, "open", k, 0)
    /\ dirs' = dirs \cup {DayOf(k)}
    /\ UNCHANGED <<hour, wal, torn, garbled, final, manifest, procs, writers, pending,
                   dayClose, history>>

Rebuilds(a) ==
    LET k == at[a].key IN
    /\ at[a].stage = "rebuild" /\ wal[k] # NoFile
    /\ partial' = [partial EXCEPT ![k] = wal[k]]
    /\ Begin(a, "open", k, at[a].count)
    /\ UNCHANGED <<hour, wal, torn, garbled, final, days, procs, writers, pending,
                   dayClose, history>>

Opening(a) ==
    LET k == at[a].key IN
    /\ at[a].stage = "open"
    /\ wal' = [wal EXCEPT ![k] = Opened(wal[k])]
    /\ partial' = [partial EXCEPT ![k] = Opened(partial[k])]
    /\ UNCHANGED <<hour, torn, garbled, final, days, procs, detached, pending, dayClose, history>>

OpensToAppend(a) ==
    LET k == at[a].key IN
    /\ Opening(a) /\ a = Recorder /\ pending = k
    /\ live' = live \cup {k} /\ isOpen' = isOpen \cup {k}
    /\ count' = [count EXCEPT ![k] = at[a].count]
    /\ Begin(a, "write", k, 0)

OpensToClose(a) ==
    LET k == at[a].key IN
    /\ Opening(a) /\ ~(a = Recorder /\ pending = k)
    /\ Begin(a, "close", k, at[a].count)
    /\ UNCHANGED <<live, isOpen, count>>

Renames(a) ==
    LET k == at[a].key IN
    /\ at[a].stage = "replace" /\ partial[k] = at[a].count
    /\ final' = [final EXCEPT ![k] = partial[k]]
    /\ partial' = [partial EXCEPT ![k] = NoFile]
    /\ at' = [at EXCEPT ![a].stage = "unlink"]
    /\ UNCHANGED <<hour, wal, torn, garbled, days, procs, writers, pending, dayClose, history>>

Unlinks(a) ==
    LET k == at[a].key IN
    /\ at[a].stage = "unlink" /\ wal[k] # NoFile
    /\ wal' = [wal EXCEPT ![k] = NoFile]
    /\ torn' = torn \ {k} /\ garbled' = garbled \ {k}
    /\ live' = IF a = Recorder THEN live \ {k} ELSE live
    /\ detached' = IF a = Closer THEN detached \ {k} ELSE detached
    /\ count' = IF a = Finalizer THEN count ELSE [count EXCEPT ![k] = 0]
    /\ at' = [at EXCEPT ![a] = Idle]
    /\ UNCHANGED <<hour, partial, final, days, procs, isOpen, pending, dayClose, history>>

WriterCase(a) ==
    \/ GivesUp(a) \/ RepairsWal(a) \/ FindsNoWal(a) \/ Rebuilds(a) \/ OpensToAppend(a)
    \/ OpensToClose(a) \/ Close(a) \/ Renames(a) \/ Unlinks(a)

LEMMA WriterCases ==
    ASSUME TypeOK, NEW a \in Actor, WriterStep(a) \/ Raises(a)
    PROVE  WriterCase(a)
  <1> USE DEF days, procs, writers, dayClose, history
  <1>0. \A k \in Key : [wal EXCEPT ![k] = wal[k]] = wal
    BY DEF TypeOK
  <1>1. CASE Raises(a)
    BY <1>1 DEF Raises, Fail, GivesUp, WriterCase
  <1>2. CASE Repair(a)
    <2>1. Busy(a)
      BY <1>2 DEF Repair, Busy
    <2>2. CASE \/ final[at[a].key] # NoFile
               \/ wal[at[a].key] # NoFile /\ Refuses(at[a].key)
      BY <1>2, <2>1, <2>2 DEF Repair, Fail, TornAfterRepair, GivesUp, WriterCase
    <2>3. CASE final[at[a].key] = NoFile /\ wal[at[a].key] # NoFile /\ ~Refuses(at[a].key)
      <3>1. UNCHANGED wal
        BY <1>0, <1>2, <2>3 DEF Repair, CompleteLines, TypeOK
      <3>2. QED
        BY <1>2, <2>3, <3>1 DEF Repair, Refuses, CompleteLines, TornAfterRepair, Begin, RepairsWal, WriterCase
    <2>4. CASE final[at[a].key] = NoFile /\ wal[at[a].key] = NoFile
      BY <1>2, <2>4 DEF Repair, Begin, FindsNoWal, WriterCase
    <2>5. QED
      BY <2>2, <2>3, <2>4
  <1>3. CASE Rebuild(a)
    BY <1>3 DEF Rebuild, Busy, Fail, Begin, GivesUp, Rebuilds, WriterCase
  <1>4. CASE Open(a)
    BY <1>4 DEF Open, OpenedWal, Begin, Opening, OpensToAppend, OpensToClose, WriterCase
  <1>5. CASE Replace(a)
    BY <1>5 DEF Replace, Busy, Fail, GivesUp, Renames, WriterCase
  <1>6. CASE Unlink(a)
    BY <1>6 DEF Unlink, Busy, Fail, WalAfterFinalize, GivesUp, Unlinks, WriterCase
  <1>7. QED
    BY <1>1, <1>2, <1>3, <1>4, <1>5, <1>6 DEF WriterStep, WriterCase

(* Every step is one of these.                                              *)
StepCase ==
    \/ UNCHANGED vars
    \/ Tick
    \/ Start \/ RecorderReady \/ ClosePartial \/ Exit
    \/ FinalizerStart \/ FinalizerDone
    \/ CrashRecorder \/ CrashFinalizer
    \/ OpenNew \/ WriteWal \/ WriteShort \/ WriteCompressed
    \/ DayClose \/ DayClosed
    \/ \E k \in Key : Append(k) \/ FinalizeOlder(k) \/ FinalizeDetached(k)
    \/ \E p \in Process : (\E d \in Days : RecoverDay(p, d)) \/ (\E k \in Key : RecoverWal(p, k))
    \/ \E a \in Actor : WriterCase(a)

LEMMA StepCases == TypeOK /\ [Next]_vars => StepCase
  <1>1. ASSUME TypeOK, \E a \in Actor : WriterStep(a) \/ Raises(a)
        PROVE  StepCase
    BY <1>1, WriterCases DEF StepCase
  <1>2. QED
    BY <1>1 DEF Next, StepCase, AppendStep, DayCloseStep, RecoveryStep

LEMMA IdleType == Idle \in [stage : Stage, key : Key \cup {NoKey}, count : Nat]
  BY DEF Idle, Stage

LEMMA StepTypes == StorageInv /\ StepCase => TypeOK'
  <1> SUFFICES ASSUME StorageInv, StepCase PROVE TypeOK'
    OBVIOUS
  <1> USE DEF vars, disk, days, procs, writers, dayClose, history
  <1>0. TypeOK
    BY DEF StorageInv
  <1>1. CASE UNCHANGED vars
    BY <1>0, <1>1 DEF TypeOK
  <1>2. CASE Tick
    BY <1>0, <1>2, HoursAssumption DEF TypeOK, Tick, Hour
  <1>3. CASE Start \/ FinalizerStart
    BY <1>0, <1>3, Actors DEF TypeOK, Start, FinalizerStart, BeginRecovery, PastDays
  <1>4. CASE RecorderReady
    BY <1>0, <1>4, Actors, DayFacts DEF TypeOK, RecorderReady, EndRecovery, Up
  <1>5. CASE FinalizerDone
    BY <1>0, <1>5, Actors DEF TypeOK, FinalizerDone, EndRecovery
  <1>6. CASE ClosePartial
    BY <1>0, <1>6, Actors, DayFacts DEF TypeOK, ClosePartial, Up
  <1>7. CASE Exit
    <2>1. closerOn' \in BOOLEAN
      BY <1>7, Zenon DEF Exit, ForgetMemory
    <2>2. closing' \in Days /\ rxFloor' \in Nat
      BY <1>7, HoursAssumption DEF Exit, ForgetMemory, Days
    <2>3. QED
      BY <1>0, <1>7, <2>1, <2>2, IdleType, Actors DEF TypeOK, Exit, ForgetMemory, EndRecovery
  <1>8. CASE CrashRecorder
    <2>1. closerOn' \in BOOLEAN
      BY <1>8, Zenon DEF CrashRecorder, ForgetMemory
    <2>2. closing' \in Days /\ rxFloor' \in Nat
      BY <1>8, HoursAssumption DEF CrashRecorder, ForgetMemory, Days
    <2>3. torn' \in SUBSET Key
      BY <1>0, <1>8, Appending DEF CrashRecorder, TypeOK
    <2>4. partial' \in [Key -> Nat \cup {NoFile, Damaged}]
      BY <1>0, <1>8 DEF CrashRecorder, CutOff, TypeOK
    <2>5. ForgetMemory /\ UNCHANGED <<hour, wal, garbled, final, days, accepted, short>> /\ faults' \in Nat
      BY <1>0, <1>8 DEF CrashRecorder, TypeOK
    <2>6. QED
      BY <1>0, <2>1, <2>2, <2>3, <2>4, <2>5, IdleType, Actors DEF TypeOK, ForgetMemory, EndRecovery
  <1>9. CASE CrashFinalizer
    BY <1>0, <1>9, IdleType, Actors DEF TypeOK, CrashFinalizer, EndRecovery, CutOff
  <1>10. ASSUME NEW k \in Key, Append(k) PROVE TypeOK'
    BY <1>0, <1>10, BeginTypes, KeyFacts, Actors DEF TypeOK, Append, Stage
  <1>11. CASE OpenNew
    BY <1>0, <1>11, BeginTypes, Actors DEF TypeOK, OpenNew, Stage
  <1>12. CASE WriteWal
    <2>1. pending \in Key /\ wal[pending] \in Nat
      BY <1>12, Appending DEF WriteWal
    <2>2. QED
      BY <1>0, <1>12, <2>1, Actors DEF TypeOK, WriteWal, Stage
  <1>13. CASE WriteShort
    BY <1>0, <1>13, Appending, Actors DEF TypeOK, WriteShort, Stage
  <1>14. CASE WriteCompressed
    <2>1. pending \in Key /\ partial[pending] \in Nat
      BY <1>14, Appending DEF WriteCompressed
    <2>2. QED
      BY <1>0, <1>14, <2>1, IdleType, Actors DEF TypeOK, WriteCompressed
  <1>15. ASSUME NEW j \in Key, FinalizeOlder(j) PROVE TypeOK'
    BY <1>0, <1>15, BeginTypes, Actors DEF TypeOK, FinalizeOlder, Stage
  <1>16. CASE DayClose
    <2>1. closerOn' \in BOOLEAN
      BY <1>16, Zenon DEF DayClose
    <2>2. rxFloor' \in Nat
      BY <1>0, <1>16, HoursAssumption, DayFacts DEF DayClose, TypeOK
    <2>3. QED
      BY <1>0, <1>16, <2>1, <2>2 DEF TypeOK, DayClose, WritersOf, LiveAfterDetach
  <1>17. CASE DayClosed
    <2>1. closerOn' \in BOOLEAN
      BY <1>17, Zenon DEF DayClosed
    <2>2. QED
      BY <1>0, <1>17, <2>1, DayFacts DEF TypeOK, DayClosed
  <1>18. ASSUME NEW k \in Key, FinalizeDetached(k) PROVE TypeOK'
    BY <1>0, <1>18, BeginTypes, Actors DEF TypeOK, FinalizeDetached, Stage
  <1>19. ASSUME NEW p \in Process, NEW d \in Days, RecoverDay(p, d) PROVE TypeOK'
    BY <1>0, <1>19 DEF TypeOK, RecoverDay, FinalsOf
  <1>20. ASSUME NEW p \in Process, NEW k \in Key, RecoverWal(p, k) PROVE TypeOK'
    BY <1>0, <1>20, BeginTypes, Actors DEF TypeOK, RecoverWal, Stage
  <1>21. ASSUME NEW a \in Actor, WriterCase(a) PROVE TypeOK'
    <2>0. Busy(a)
      BY <1>21 DEF WriterCase, GivesUp, RepairsWal, FindsNoWal, Rebuilds, Opening, OpensToAppend,
                   OpensToClose, Close, Renames, Unlinks, Busy
    <2>1. at[a].key \in Key /\ at[a].count \in Nat /\ DayOf(at[a].key) \in Days
      BY <1>0, <2>0, KeyFacts DEF StorageInv, PlaceInv, TypeOK
    <2>2. CASE GivesUp(a)
      BY <1>0, <2>1, <2>2, AbandonTypes DEF GivesUp, TypeOK
    <2>3. {"rebuild", "open", "write", "close", "replace", "unlink"} \subseteq Stage
      BY DEF Stage
    <2>4. CASE RepairsWal(a) \/ FindsNoWal(a) \/ Rebuilds(a)
      BY <1>0, <2>1, <2>3, <2>4, BeginTypes DEF RepairsWal, FindsNoWal, Rebuilds, TypeOK
    <2>5. CASE OpensToAppend(a) \/ OpensToClose(a)
      <3>1. /\ wal' \in [Key -> Nat \cup {NoFile}]
            /\ partial' \in [Key -> Nat \cup {NoFile, Damaged}]
        BY <1>0, <2>1, <2>5 DEF Opening, OpensToAppend, OpensToClose, Opened, TypeOK
      <3>2. at' \in [Actor -> [stage : Stage, key : Key \cup {NoKey}, count : Nat]]
        BY <1>0, <2>1, <2>3, <2>5, BeginTypes DEF OpensToAppend, OpensToClose
      <3>3. live' \in SUBSET Key /\ isOpen' \in SUBSET Key /\ count' \in [Key -> Nat]
        BY <1>0, <2>1, <2>5 DEF OpensToAppend, OpensToClose, TypeOK
      <3>4. QED
        BY <1>0, <2>5, <3>1, <3>2, <3>3 DEF Opening, OpensToAppend, OpensToClose, TypeOK
    <2>6. CASE Close(a)
      BY <1>0, <2>3, <2>6 DEF Close, TypeOK
    <2>7. CASE Renames(a)
      BY <1>0, <2>1, <2>3, <2>7 DEF Renames, TypeOK
    <2>8. CASE Unlinks(a)
      BY <1>0, <2>1, <2>8, IdleType DEF Unlinks, TypeOK
    <2>9. QED
      BY <1>21, <2>2, <2>4, <2>5, <2>6, <2>7, <2>8 DEF WriterCase
  <1>22. QED
    BY <1>1, <1>2, <1>3, <1>4, <1>5, <1>6, <1>7, <1>8, <1>9, <1>10, <1>11, <1>12, <1>13,
       <1>14, <1>15, <1>16, <1>17, <1>18, <1>19, <1>20, <1>21 DEF StepCase

-----------------------------------------------------------------------------
(* What an actor that gives up leaves behind.                               *)
LEMMA GivenUp ==
    ASSUME TypeOK, NEW a \in Actor, GivesUp(a)
    PROVE  /\ at' = [at EXCEPT ![a] = Idle]
           /\ UNCHANGED <<hour, wal, garbled, final, live, count, manifest, closing, rxFloor,
                          accepted, short>>
           /\ pending' = IF a = Recorder THEN NoKey ELSE pending
           /\ a = Closer => detached' = {} /\ ~closerOn'
           /\ a # Closer => UNCHANGED <<detached, closerOn>>
           /\ \A p \in Process : IF p = a /\ phase[p] = "recovering"
                                   THEN phase'[p] = "down" /\ todo'[p] = {}
                                   ELSE /\ todo'[p] = todo[p]
                                        /\ \/ phase'[p] = phase[p]
                                           \/ p = Recorder /\ OneTaskLess
           /\ \A k \in Key : partial'[k] = partial[k] \/ partial'[k] = Damaged
           /\ torn' \subseteq torn
  <1>1. /\ at' = [at EXCEPT ![a] = Idle]
        /\ UNCHANGED <<hour, wal, garbled, final, live, count, manifest, closing, rxFloor,
                       accepted, short>>
        /\ pending' = IF a = Recorder THEN NoKey ELSE pending
        /\ torn' \subseteq torn
    BY DEF GivesUp, Abandon
  <1>2. a = Closer => detached' = {}
    BY DEF GivesUp, Abandon
  <1>3. a = Closer => ~closerOn'
    BY Zenon DEF GivesUp, Abandon
  <1>4. a # Closer => UNCHANGED <<detached, closerOn>>
    BY DEF GivesUp, Abandon
  <1>5. ASSUME NEW p \in Process
        PROVE  IF p = a /\ phase[p] = "recovering"
                 THEN phase'[p] = "down" /\ todo'[p] = {}
                 ELSE /\ todo'[p] = todo[p]
                      /\ \/ phase'[p] = phase[p]
                         \/ p = Recorder /\ OneTaskLess
    BY <1>5, Actors, WithoutTask DEF GivesUp, Abandon, EndRecovery, TypeOK, OneTaskLess
  <1>6. \A k \in Key : partial'[k] = partial[k] \/ partial'[k] = Damaged
    BY DEF GivesUp, Abandon, CutOff, TypeOK
  <1>7. QED
    BY <1>1, <1>2, <1>3, <1>4, <1>5, <1>6

LEMMA AtWork ==
    ASSUME StorageInv, NEW a \in Actor, WriterCase(a)
    PROVE  Busy(a) /\ at[a].key \in Key
  <1>1. Busy(a)
    BY DEF WriterCase, GivesUp, RepairsWal, FindsNoWal, Rebuilds, Opening, OpensToAppend,
           OpensToClose, Close, Renames, Unlinks, Busy
  <1>2. QED
    BY <1>1 DEF StorageInv, PlaceInv

LEMMA StepPhases == ~BootRace /\ StorageInv /\ StepCase => PhaseInv'
  <1> SUFFICES ASSUME ~BootRace, StorageInv, StepCase PROVE PhaseInv'
    OBVIOUS
  <1> USE DEF vars, disk, days, procs, writers, dayClose, history, Alive, Up
  <1>0. TypeOK /\ PhaseInv /\ PlaceInv
    BY DEF StorageInv
  <1>1. CASE UNCHANGED vars
    BY <1>0, <1>1 DEF PhaseInv, Busy
  <1>2. CASE Tick
    BY <1>0, <1>2 DEF PhaseInv, Busy, Tick
  <1>3. CASE Start \/ FinalizerStart
    BY <1>0, <1>3, Actors DEF PhaseInv, Busy, TypeOK, Start, FinalizerStart, BeginRecovery
  <1>4. CASE RecorderReady
    BY <1>0, <1>4, Actors DEF PhaseInv, Busy, TypeOK, RecorderReady, EndRecovery
  <1>5. CASE FinalizerDone
    BY <1>0, <1>5, Actors DEF PhaseInv, Busy, TypeOK, FinalizerDone, EndRecovery
  <1>6. CASE ClosePartial
    BY <1>0, <1>6, Actors DEF PhaseInv, Busy, TypeOK, ClosePartial, LoopFree
  <1>7. CASE Exit
    BY <1>0, <1>7, Actors DEF PhaseInv, Busy, TypeOK, Exit, ForgetMemory, EndRecovery, Idle
  <1>8. CASE CrashRecorder
    BY <1>0, <1>8, Actors DEF PhaseInv, Busy, TypeOK, CrashRecorder, ForgetMemory, EndRecovery, Idle
  <1>9. CASE CrashFinalizer
    BY <1>0, <1>9, Actors DEF PhaseInv, Busy, TypeOK, CrashFinalizer, EndRecovery, Idle
  <1>10. ASSUME NEW k \in Key, Append(k) PROVE PhaseInv'
    BY <1>0, <1>10, Actors DEF PhaseInv, Busy, TypeOK, Append, Begin
  <1>11. CASE OpenNew
    BY <1>0, <1>11, Actors DEF PhaseInv, Busy, TypeOK, OpenNew, Begin
  <1>12. CASE WriteWal \/ WriteShort \/ WriteCompressed
    BY <1>0, <1>12, Actors DEF PhaseInv, Busy, TypeOK, WriteWal, WriteShort, WriteCompressed, Idle
  <1>13. ASSUME NEW j \in Key, FinalizeOlder(j) PROVE PhaseInv'
    BY <1>0, <1>13, Actors DEF PhaseInv, Busy, TypeOK, FinalizeOlder, Begin
  <1>14. CASE DayClose \/ DayClosed
    BY <1>0, <1>14, Actors DEF PhaseInv, Busy, TypeOK, DayClose, DayClosed
  <1>15. ASSUME NEW k \in Key, FinalizeDetached(k) PROVE PhaseInv'
    BY <1>0, <1>15, Actors DEF PhaseInv, Busy, TypeOK, FinalizeDetached, Begin
  <1>16. ASSUME NEW p \in Process, NEW d \in Days, RecoverDay(p, d) PROVE PhaseInv'
    BY <1>0, <1>16, Actors DEF PhaseInv, Busy, TypeOK, RecoverDay
  <1>17. ASSUME NEW p \in Process, NEW k \in Key, RecoverWal(p, k) PROVE PhaseInv'
    BY <1>0, <1>17, Actors DEF PhaseInv, Busy, TypeOK, RecoverWal, Visits, Begin
  <1>18. ASSUME NEW a \in Actor, WriterCase(a) PROVE PhaseInv'
    <2>0. Busy(a) /\ at[a].key \in Key
      BY <1>18, AtWork
    <2>1. CASE GivesUp(a)
      BY <1>0, <2>0, <2>1, GivenUp, Actors DEF PhaseInv, Busy, TypeOK, Idle, OneTaskLess
    <2>2. CASE RepairsWal(a) \/ FindsNoWal(a) \/ Rebuilds(a)
      BY <1>0, <2>0, <2>2, Actors DEF PhaseInv, Busy, TypeOK, RepairsWal, FindsNoWal, Rebuilds, Begin
    <2>3. CASE OpensToAppend(a) \/ OpensToClose(a)
      BY <1>0, <2>0, <2>3, Actors, KeyFacts DEF PhaseInv, Busy, TypeOK, Opening, OpensToAppend, OpensToClose, Begin
    <2>4. CASE Close(a) \/ Renames(a)
      BY <1>0, <2>0, <2>4, Actors DEF PhaseInv, Busy, TypeOK, Close, Renames
    <2>5. CASE Unlinks(a)
      BY <1>0, <2>0, <2>5, Actors DEF PhaseInv, Busy, TypeOK, Unlinks, Idle
    <2>6. QED
      BY <1>18, <2>1, <2>2, <2>3, <2>4, <2>5 DEF WriterCase
  <1>19. QED
    BY <1>1, <1>2, <1>3, <1>4, <1>5, <1>6, <1>7, <1>8, <1>9, <1>10, <1>11, <1>12, <1>13,
       <1>14, <1>15, <1>16, <1>17, <1>18 DEF StepCase

LEMMA StepPlaces == StorageInv /\ StepCase => PlaceInv'
  <1> SUFFICES ASSUME StorageInv, StepCase PROVE PlaceInv'
    OBVIOUS
  <1> USE DEF vars, disk, days, procs, writers, dayClose, history, Alive, Up
  <1>0. TypeOK /\ PhaseInv /\ PlaceInv
    BY DEF StorageInv
  <1>1. CASE UNCHANGED vars
    BY <1>0, <1>1 DEF PlaceInv, Busy
  <1>2. CASE Tick
    BY <1>0, <1>2 DEF PlaceInv, Busy, Tick
  <1>3. CASE Start \/ FinalizerStart
    BY <1>0, <1>3, Actors DEF PhaseInv, PlaceInv, Busy, TypeOK, Start, FinalizerStart, BeginRecovery
  <1>4. CASE RecorderReady
    BY <1>0, <1>4, Actors DEF PhaseInv, PlaceInv, Busy, TypeOK, RecorderReady, EndRecovery
  <1>5. CASE FinalizerDone
    BY <1>0, <1>5, Actors DEF PlaceInv, Busy, TypeOK, FinalizerDone, EndRecovery
  <1>6. CASE ClosePartial
    BY <1>0, <1>6, Actors DEF PlaceInv, Busy, TypeOK, ClosePartial, LoopFree
  <1>7. CASE Exit
    BY <1>0, <1>7, Actors DEF PlaceInv, Busy, TypeOK, Exit, ForgetMemory, EndRecovery, Idle
  <1>8. CASE CrashRecorder
    BY <1>0, <1>8, Actors DEF PlaceInv, Busy, TypeOK, CrashRecorder, ForgetMemory, EndRecovery, Idle
  <1>9. CASE CrashFinalizer
    BY <1>0, <1>9, Actors DEF PlaceInv, Busy, TypeOK, CrashFinalizer, EndRecovery, Idle
  <1>10. ASSUME NEW k \in Key, Append(k) PROVE PlaceInv'
    <2>1. CASE k \in live
      <3>1. /\ pending' = k /\ k # NoKey /\ at'[Recorder] = [stage |-> "write", key |-> k, count |-> 0]
            /\ \A a \in Actor \ {Recorder} : at'[a] = at[a]
            /\ UNCHANGED <<phase, live, detached>> /\ phase[Recorder] \in Up
        BY <1>0, <1>10, <2>1, Actors, KeyFacts DEF TypeOK, Append, Begin
      <3>2. QED
        BY <1>0, <2>1, <3>1, Actors DEF PlaceInv, Busy
    <2>2. CASE k \notin live
      BY <1>0, <1>10, <2>2, Actors, KeyFacts DEF PlaceInv, Busy, TypeOK, Append, LoopFree
    <2>3. QED
      BY <2>1, <2>2
  <1>11. CASE OpenNew
    BY <1>0, <1>11, Actors, KeyFacts DEF PlaceInv, Busy, TypeOK, OpenNew, Begin
  <1>12. CASE WriteWal \/ WriteShort \/ WriteCompressed
    BY <1>0, <1>12, Actors, KeyFacts DEF PlaceInv, Busy, TypeOK, WriteWal, WriteShort, WriteCompressed, Idle
  <1>13. ASSUME NEW j \in Key, FinalizeOlder(j) PROVE PlaceInv'
    BY <1>0, <1>13, Actors, KeyFacts DEF PlaceInv, Busy, TypeOK, FinalizeOlder, OlderWriters, Begin
  <1>14. CASE DayClose
    BY <1>0, <1>14, Actors DEF PhaseInv, PlaceInv, Busy, TypeOK, DayClose, LoopFree
  <1>15. CASE DayClosed
    BY <1>0, <1>15, Actors DEF PlaceInv, Busy, TypeOK, DayClosed
  <1>16. ASSUME NEW k \in Key, FinalizeDetached(k) PROVE PlaceInv'
    BY <1>0, <1>16, Actors DEF PlaceInv, Busy, TypeOK, FinalizeDetached, Begin
  <1>17. ASSUME NEW p \in Process, NEW d \in Days, RecoverDay(p, d) PROVE PlaceInv'
    BY <1>0, <1>17, Actors DEF PlaceInv, Busy, TypeOK, RecoverDay
  <1>18. ASSUME NEW p \in Process, NEW k \in Key, RecoverWal(p, k) PROVE PlaceInv'
    BY <1>0, <1>18, Actors DEF PhaseInv, PlaceInv, Busy, TypeOK, RecoverWal, Visits, Begin
  <1>19. ASSUME NEW a \in Actor, WriterCase(a) PROVE PlaceInv'
    <2>0. Busy(a) /\ at[a].key \in Key
      BY <1>19, AtWork
    <2>1. CASE GivesUp(a)
      BY <1>0, <2>0, <2>1, GivenUp, Actors DEF PhaseInv, PlaceInv, Busy, TypeOK, Idle, OneTaskLess
    <2>2. CASE RepairsWal(a) \/ FindsNoWal(a) \/ Rebuilds(a)
      BY <1>0, <2>0, <2>2, Actors DEF PlaceInv, Busy, TypeOK, RepairsWal, FindsNoWal, Rebuilds, Begin
    <2>3. CASE OpensToAppend(a)
      BY <1>0, <2>0, <2>3, Actors, KeyFacts DEF PhaseInv, PlaceInv, Busy, TypeOK, Opening, OpensToAppend, Begin
    <2>4. CASE OpensToClose(a)
      BY <1>0, <2>0, <2>4, Actors, KeyFacts DEF PhaseInv, PlaceInv, Busy, TypeOK, Opening, OpensToClose, Begin
    <2>5. CASE Close(a) \/ Renames(a)
      BY <1>0, <2>0, <2>5, Actors DEF PlaceInv, Busy, TypeOK, Close, Renames
    <2>6. CASE Unlinks(a)
      BY <1>0, <2>0, <2>6, Actors DEF PlaceInv, Busy, TypeOK, Unlinks, Idle
    <2>7. QED
      BY <1>19, <2>1, <2>2, <2>3, <2>4, <2>5, <2>6 DEF WriterCase
  <1>20. QED
    BY <1>1, <1>2, <1>3, <1>4, <1>5, <1>6, <1>7, <1>8, <1>9, <1>10, <1>11, <1>12, <1>13,
       <1>14, <1>15, <1>16, <1>17, <1>18, <1>19 DEF StepCase

LEMMA StepDays == StorageInv /\ StepCase => DayInv'
  <1> SUFFICES ASSUME StorageInv, StepCase PROVE DayInv'
    OBVIOUS
  <1> USE DEF vars, disk, days, procs, writers, dayClose, history, Alive, Up
  <1>0. TypeOK /\ PhaseInv /\ PlaceInv /\ DayInv
    BY DEF StorageInv
  <1>a. /\ hour \in Nat /\ rxFloor \in Nat /\ closing \in Nat
        /\ Day(hour) \in Nat /\ Day(rxFloor) \in Nat
    BY <1>0, DayFacts DEF TypeOK
  <1>1. CASE UNCHANGED vars
    BY <1>0, <1>1 DEF DayInv, Busy
  <1>2. CASE Tick
    <2>1. hour' \in Nat /\ Day(hour') \in Nat /\ Day(hour) <= Day(hour')
      BY <1>0, <1>a, <1>2, DayFacts DEF Tick
    <2>2. phase[Recorder] \in Up \ {"exiting"} => Day(hour') <= closing + 1
      BY <1>2 DEF Tick
    <2>3. UNCHANGED <<todo, phase, manifest, closing, rxFloor, live, detached, pending, closerOn, at>>
      BY <1>2 DEF Tick
    <2>4. \A p \in Process : \A d \in todo[p] : d \in Nat
      BY <1>0, DayFacts DEF TypeOK
    <2>5. QED
      BY <1>0, <1>a, <2>1, <2>2, <2>3, <2>4, DayFacts DEF DayInv, Busy
  <1>3. CASE Start
    BY <1>0, <1>a, <1>3, Actors DEF PhaseInv, DayInv, Busy, TypeOK, Start, BeginRecovery, PastDays
  <1>4. CASE FinalizerStart
    BY <1>0, <1>a, <1>4, Actors DEF PhaseInv, DayInv, Busy, TypeOK, FinalizerStart, BeginRecovery, PastDays
  <1>5. CASE RecorderReady
    <2>1. \A d \in todo[Finalizer] : d < Day(hour)
      BY <1>0, Actors DEF DayInv
    <2>2. QED
      BY <1>0, <1>a, <1>5, <2>1, Actors DEF PhaseInv, DayInv, Busy, TypeOK, RecorderReady, EndRecovery
  <1>6. CASE FinalizerDone
    BY <1>0, <1>6, Actors DEF DayInv, Busy, TypeOK, FinalizerDone, EndRecovery
  <1>7. CASE ClosePartial
    BY <1>0, <1>7, Actors DEF DayInv, Busy, TypeOK, ClosePartial, LoopFree
  <1>8. CASE Exit
    BY <1>0, <1>8, Actors DEF DayInv, Busy, TypeOK, Exit, ForgetMemory, EndRecovery, Idle
  <1>9. CASE CrashRecorder
    BY <1>0, <1>9, Actors DEF DayInv, Busy, TypeOK, CrashRecorder, ForgetMemory, EndRecovery, Idle
  <1>10. CASE CrashFinalizer
    BY <1>0, <1>10, Actors DEF DayInv, Busy, TypeOK, CrashFinalizer, EndRecovery, Idle
  <1>11. ASSUME NEW k \in Key, Append(k) PROVE DayInv'
    <2>1. rxFloor' = HourOf(k) /\ rxFloor' \in Nat /\ Day(rxFloor) <= Day(rxFloor') /\ pending' = k
      BY <1>0, <1>a, <1>11, DayFacts, KeyFacts DEF Append
    <2>2. \A p \in Process : p # Recorder => at'[p] = at[p]
      BY <1>0, <1>11, Actors DEF Append, Begin, TypeOK
    <2>3. UNCHANGED <<hour, todo, phase, manifest, closing, live, detached, closerOn>>
          /\ phase[Recorder] \in Up \ {"exiting"}
      BY <1>11 DEF Append
    <2>4. Day(rxFloor') \in Nat /\ \A j \in Key : DayOf(j) \in Nat
      BY <2>1, DayFacts, KeyFacts
    <2>5. live \subseteq Key /\ detached \subseteq Key
      BY <1>0 DEF TypeOK
    <2>6. QED
      BY <1>0, <1>a, <2>1, <2>2, <2>3, <2>4, <2>5, Actors DEF DayInv, Busy
  <1>12. CASE OpenNew
    BY <1>0, <1>12, Actors DEF PhaseInv, DayInv, Busy, TypeOK, OpenNew, Begin
  <1>13. CASE WriteWal \/ WriteShort
    BY <1>0, <1>13, Actors DEF PlaceInv, DayInv, Busy, TypeOK, WriteWal, WriteShort
  <1>14. CASE WriteCompressed
    BY <1>0, <1>14, Actors DEF DayInv, Busy, TypeOK, WriteCompressed, Idle
  <1>15. ASSUME NEW j \in Key, FinalizeOlder(j) PROVE DayInv'
    BY <1>0, <1>15, Actors DEF PhaseInv, DayInv, Busy, TypeOK, FinalizeOlder, Begin
  <1>16. CASE DayClose
    <2>1. (closing + 1) * HoursPerDay \in Nat
      BY <1>a, HoursAssumption
    <2>2. rxFloor' \in Nat /\ closing + 1 <= Day(rxFloor') /\ Day(rxFloor') \in Nat
      BY <1>a, <1>16, <2>1, DayFacts DEF DayClose
    <2>3. \A k \in live : DayOf(k) \in Nat
      BY <1>0, KeyFacts, DayFacts DEF TypeOK
    <2>4. QED
      BY <1>0, <1>a, <1>16, <2>2, <2>3, Actors
         DEF DayInv, Busy, DayClose, LiveAfterDetach, WritersOf, LoopFree
  <1>17. CASE DayClosed
    <2>1. \A k \in live : DayOf(k) \in Nat
      BY <1>0, KeyFacts, DayFacts DEF TypeOK
    <2>2. ~closerOn'
      BY <1>17, Zenon DEF DayClosed
    <2>3. QED
      BY <1>0, <1>a, <1>17, <2>1, <2>2, DayFacts, Actors DEF DayInv, Busy, DayClosed, LoopFree, TypeOK
  <1>18. ASSUME NEW k \in Key, FinalizeDetached(k) PROVE DayInv'
    BY <1>0, <1>18, Actors DEF DayInv, Busy, TypeOK, FinalizeDetached, Begin
  <1>19. ASSUME NEW p \in Process, NEW d \in Days, RecoverDay(p, d) PROVE DayInv'
    BY <1>0, <1>19, Actors DEF DayInv, Busy, TypeOK, RecoverDay, Visits
  <1>20. ASSUME NEW p \in Process, NEW k \in Key, RecoverWal(p, k) PROVE DayInv'
    BY <1>0, <1>20, Actors DEF DayInv, Busy, TypeOK, RecoverWal, Visits, Begin
  <1>21. ASSUME NEW a \in Actor, WriterCase(a) PROVE DayInv'
    <2>0. Busy(a) /\ at[a].key \in Key
      BY <1>21, AtWork
    <2>1. CASE GivesUp(a)
      BY <1>0, <2>0, <2>1, GivenUp, Actors DEF DayInv, Busy, TypeOK, Idle, OneTaskLess
    <2>2. CASE RepairsWal(a) \/ FindsNoWal(a) \/ Rebuilds(a)
      BY <1>0, <2>0, <2>2, Actors DEF DayInv, Busy, TypeOK, RepairsWal, FindsNoWal, Rebuilds, Begin
    <2>3. CASE OpensToAppend(a)
      BY <1>0, <2>0, <2>3, Actors, KeyFacts DEF PhaseInv, DayInv, Busy, TypeOK, Opening, OpensToAppend, Begin
    <2>4. CASE OpensToClose(a)
      BY <1>0, <2>0, <2>4, Actors DEF DayInv, Busy, TypeOK, Opening, OpensToClose, Begin
    <2>5. CASE Close(a) \/ Renames(a)
      BY <1>0, <2>0, <2>5, Actors DEF DayInv, Busy, TypeOK, Close, Renames
    <2>6. CASE Unlinks(a)
      BY <1>0, <2>0, <2>6, Actors DEF DayInv, Busy, TypeOK, Unlinks, Idle
    <2>7. QED
      BY <1>21, <2>1, <2>2, <2>3, <2>4, <2>5, <2>6 DEF WriterCase
  <1>22. QED
    BY <1>1, <1>2, <1>3, <1>4, <1>5, <1>6, <1>7, <1>8, <1>9, <1>10, <1>11, <1>12, <1>13,
       <1>14, <1>15, <1>16, <1>17, <1>18, <1>19, <1>20, <1>21 DEF StepCase

-----------------------------------------------------------------------------
(* Whose file is whose: a recovery works on earlier days than the recorder, *)
(* and the thread on the day before that of the live writers.               *)
LEMMA Separate ==
    ASSUME StorageInv
    PROVE  /\ live \cap detached = {} /\ pending \notin detached
           /\ Alive /\ Busy(Recorder) => at[Recorder].key \in live \cup {pending}
           /\ Busy(Closer) => at[Closer].key \in detached /\ at[Closer].key \notin live \cup {pending}
           /\ Busy(Finalizer) => at[Finalizer].key \notin live \cup detached \cup {pending}
           /\ \A a, b \in Actor : a # b /\ Busy(a) /\ Busy(b) => at[a].key # at[b].key
  <1>0. TypeOK /\ PhaseInv /\ PlaceInv /\ DayInv
    BY DEF StorageInv
  <1>1. /\ \A k \in Key : DayOf(k) \in Nat /\ DayOf(k) = Day(HourOf(k))
        /\ live \subseteq Key /\ detached \subseteq Key /\ closing \in Nat
        /\ Day(rxFloor) \in Nat
    BY <1>0, KeyFacts, DayFacts DEF TypeOK
  <1>2. Alive /\ Busy(Recorder) => at[Recorder].key \in live \cup {pending}
    BY <1>0 DEF PlaceInv, TypeOK, Stage, Busy, Actor
  <1>3. detached # {} => closerOn /\ Alive
    BY <1>0 DEF PhaseInv
  <1>4. live \cap detached = {}
    BY <1>0, <1>1, <1>3 DEF DayInv
  <1>5. pending \in Key => /\ Alive => closing <= DayOf(pending)
                           /\ closerOn => closing < DayOf(pending)
    BY <1>0, <1>1, KeyFacts DEF DayInv
  <1>6. Busy(Closer) => at[Closer].key \in detached /\ at[Closer].key \notin live \cup {pending}
    BY <1>0, <1>1, <1>3, <1>4, <1>5 DEF PlaceInv, DayInv
  <1>7. Busy(Finalizer) => at[Finalizer].key \notin live \cup detached \cup {pending}
    <2> SUFFICES ASSUME Busy(Finalizer) PROVE at[Finalizer].key \notin live \cup detached \cup {pending}
      OBVIOUS
    <2>1. at[Finalizer].key \in Key /\ DayOf(at[Finalizer].key) \in todo[Finalizer]
      BY <1>0, Actors DEF PhaseInv, PlaceInv, DayInv
    <2>2. CASE Alive
      BY <1>0, <1>1, <1>5, <2>1, <2>2 DEF DayInv
    <2>3. CASE ~Alive
      <3>1. live = {} /\ detached = {}
        BY <1>0, <2>3 DEF PhaseInv
      <3>2. pending = NoKey
        BY <1>0, <2>3, Actors DEF PhaseInv, Alive, Up, TypeOK
      <3>3. QED
        BY <2>1, <3>1, <3>2, KeyFacts
    <2>4. QED
      BY <2>2, <2>3
  <1>8. Busy(Recorder) /\ Busy(Closer) => at[Recorder].key # at[Closer].key
    BY <1>2, <1>3, <1>6
  <1>9. Busy(Recorder) /\ Busy(Finalizer) => at[Recorder].key # at[Finalizer].key
    <2>1. Busy(Recorder) /\ Busy(Finalizer) => Alive
      BY <1>0, Actors DEF PhaseInv, Alive, Up, TypeOK
    <2>2. QED
      BY <1>2, <1>7, <2>1
  <1>10. \A a, b \in Actor : a # b /\ Busy(a) /\ Busy(b) => at[a].key # at[b].key
    BY <1>6, <1>7, <1>8, <1>9, Actors
  <1>11. pending \notin detached
    BY <1>0, <1>1, <1>3, <1>5 DEF DayInv
  <1>12. QED
    BY <1>2, <1>4, <1>6, <1>7, <1>10, <1>11

(* No file that is being recorded to belongs to a day with a manifest.      *)
LEMMA Unlisted ==
    ASSUME StorageInv, NEW k \in Key, k \in live \cup detached \/ k = pending
    PROVE  manifest[DayOf(k)] = NoFile
  <1>1. /\ TypeOK /\ PhaseInv /\ DayInv /\ DayOf(k) \in Days /\ closing \in Nat
        /\ DayOf(k) \in Nat /\ Day(rxFloor) \in Nat
    BY KeyFacts, DayFacts DEF StorageInv, TypeOK
  <1>2. Alive
    BY <1>1, Actors, KeyFacts DEF PhaseInv, Alive, Up, TypeOK
  <1>3. closing <= DayOf(k)
    BY <1>1, <1>2, KeyFacts DEF DayInv
  <1>4. QED
    BY <1>1, <1>2, <1>3 DEF DayInv

(* A recovery that writes a manifest is alone in its day.                   *)
LEMMA RecoverApart ==
    ASSUME StorageInv, NEW p \in Process, NEW d \in Days, RecoverDay(p, d)
    PROVE  /\ \A a \in Actor : Busy(a) => DayOf(at[a].key) # d
           /\ \A k \in Key : k \in live \cup detached \/ k = pending => DayOf(k) # d
  <1>0. /\ TypeOK /\ PhaseInv /\ PlaceInv /\ DayInv
        /\ p \in Actor /\ phase[p] = "recovering" /\ ~Busy(p) /\ d \in todo[p]
    BY Actors DEF RecoverDay, Visits, StorageInv
  <1>1. ASSUME Alive PROVE d < closing
    BY <1>0, <1>1, Actors DEF Alive, Up, DayInv
  <1>2. ASSUME NEW k \in Key, k \in live \cup detached \/ k = pending PROVE DayOf(k) # d
    <2>1. Alive /\ DayOf(k) \in Nat /\ closing \in Nat /\ Day(rxFloor) \in Nat
      BY <1>0, <1>2, Actors, KeyFacts, DayFacts DEF PhaseInv, Alive, Up, TypeOK
    <2>2. closing <= DayOf(k)
      BY <1>0, <1>2, <2>1, KeyFacts DEF DayInv
    <2>3. QED
      BY <1>1, <2>1, <2>2, DayFacts
  <1>3. ASSUME NEW a \in Actor, Busy(a) PROVE DayOf(at[a].key) # d
    <2>0. a # p /\ at[a].key \in Key
      BY <1>0, <1>3 DEF PlaceInv
    <2>1. CASE p = Recorder
      BY <1>0, <1>3, <2>0, <2>1, Actors DEF PhaseInv, PlaceInv, Alive, Up
    <2>2. CASE p = Finalizer
      <3>1. Alive
        BY <1>0, <1>3, <2>0, <2>2, Actors DEF PhaseInv, PlaceInv, Alive, Up, TypeOK
      <3>2. at[a].key \in live \cup detached \/ at[a].key = pending
        BY <1>3, <2>0, <2>2, <3>1, Separate, Actors
      <3>3. QED
        BY <1>2, <2>0, <3>2
    <2>3. QED
      BY <2>1, <2>2, Actors
  <1>4. QED
    BY <1>2, <1>3

LEMMA ManifestKept ==
    ASSUME TypeOK, ManifestComplete, UNCHANGED manifest,
           \A k \in Key : (wal'[k] = wal[k] /\ final'[k] = final[k]) \/ manifest[DayOf(k)] = NoFile
    PROVE  ManifestComplete'
  <1> SUFFICES ASSUME NEW d \in Days, manifest[d] # NoFile
               PROVE  manifest[d] = FinalsOf(d)' /\ WalsOf(d)' = {}
    BY DEF ManifestComplete
  <1>1. \A k \in Key : DayOf(k) = d => wal'[k] = wal[k] /\ final'[k] = final[k]
    OBVIOUS
  <1>2. FinalsOf(d)' = FinalsOf(d) /\ WalsOf(d)' = WalsOf(d)
    BY <1>1 DEF FinalsOf, WalsOf
  <1>3. QED
    BY <1>2 DEF ManifestComplete

(* A step of a writer keeps to its own file.                                *)
LEMMA OwnFile ==
    ASSUME TypeOK, NEW a \in Actor, WriterCase(a), at[a].key \in Key
    PROVE  /\ \A k \in Key \ {at[a].key} :
                  wal'[k] = wal[k] /\ final'[k] = final[k] /\ (partial'[k] = partial[k] \/ GivesUp(a))
           /\ \A b \in Actor \ {a} : at'[b] = at[b]
           /\ at'[a] = Idle \/ at'[a].key = at[a].key
           /\ UNCHANGED <<hour, manifest, closing, rxFloor, accepted, short>>
  <1> USE DEF days, procs, writers, dayClose, history
  <1>1. CASE GivesUp(a)
    BY <1>1, GivenUp DEF TypeOK
  <1>2. CASE RepairsWal(a)
    BY <1>2 DEF TypeOK, RepairsWal, Begin
  <1>3. CASE FindsNoWal(a)
    BY <1>3 DEF TypeOK, FindsNoWal, Begin
  <1>4. CASE Rebuilds(a)
    BY <1>4 DEF TypeOK, Rebuilds, Begin
  <1>5. CASE OpensToAppend(a)
    BY <1>5 DEF TypeOK, Opening, OpensToAppend, Begin
  <1>6. CASE OpensToClose(a)
    BY <1>6 DEF TypeOK, Opening, OpensToClose, Begin
  <1>7. CASE Close(a)
    BY <1>7 DEF TypeOK, Close, disk
  <1>8. CASE Renames(a)
    BY <1>8 DEF TypeOK, Renames
  <1>9. CASE Unlinks(a)
    BY <1>9 DEF TypeOK, Unlinks
  <1>10. QED
    BY <1>1, <1>2, <1>3, <1>4, <1>5, <1>6, <1>7, <1>8, <1>9 DEF WriterCase

LEMMA StepManifests == StorageInv /\ StepCase => ManifestInv'
  <1> SUFFICES ASSUME StorageInv, StepCase PROVE ManifestInv'
    OBVIOUS
  <1> USE DEF vars, disk, days, procs, writers, dayClose, history, Alive, Up
  <1>0. TypeOK /\ PhaseInv /\ PlaceInv /\ DayInv /\ ManifestInv
    BY DEF StorageInv
  <1>a. ASSUME UNCHANGED <<wal, final, manifest>>
        PROVE  ManifestComplete'
    BY <1>0, <1>a, ManifestKept DEF ManifestInv
  <1>b. /\ UNCHANGED <<wal, final, manifest>>
        /\ \A a \in Actor : at'[a] = Idle \/ at'[a] = at[a] \/ (at'[a].key = at[a].key /\ Busy(a))
        => ManifestInv'
    BY <1>0, <1>a DEF ManifestInv, Busy, Idle
  <1>1. CASE \/ UNCHANGED vars \/ Tick \/ Start \/ FinalizerStart \/ RecorderReady \/ FinalizerDone
             \/ ClosePartial \/ DayClose \/ DayClosed
    <2>1. UNCHANGED <<wal, final, manifest, at>>
      BY <1>1 DEF Tick, Start, FinalizerStart, BeginRecovery, RecorderReady, FinalizerDone,
                  ClosePartial, DayClose, DayClosed
    <2>2. QED
      BY <1>b, <2>1
  <1>2. CASE Exit \/ CrashRecorder \/ CrashFinalizer
    <2>1. /\ UNCHANGED <<wal, final, manifest>>
          /\ \A a \in Actor : at'[a] = Idle \/ at'[a] = at[a]
      BY <1>0, <1>2 DEF TypeOK, Exit, CrashRecorder, CrashFinalizer, ForgetMemory
    <2>2. QED
      BY <1>b, <2>1
  <1>3. ASSUME NEW a \in Actor, NEW k \in Key, manifest[DayOf(k)] = NoFile,
               NEW s, NEW n, Begin(a, s, k, n) \/ UNCHANGED at, UNCHANGED <<wal, final, manifest>>
        PROVE  ManifestInv'
    BY <1>0, <1>a, <1>3 DEF TypeOK, ManifestInv, Busy, Begin
  <1>4. ASSUME NEW k \in Key, Append(k) PROVE ManifestInv'
    <2>1. k \in live => manifest[DayOf(k)] = NoFile
      BY Unlisted
    <2>2. UNCHANGED <<wal, final, manifest>> /\ ((k \in live /\ Begin(Recorder, "write", k, 0)) \/ UNCHANGED at)
      BY <1>4 DEF Append
    <2>3. QED
      BY <1>3, <1>b, <2>1, <2>2, Actors
  <1>5. CASE OpenNew
    <2>1. pending \in Key
      BY <1>0, <1>5 DEF OpenNew, TypeOK
    <2>2. UNCHANGED <<wal, final, manifest>> /\ Begin(Recorder, "repair", pending, 0)
      BY <1>5 DEF OpenNew
    <2>3. QED
      BY <1>3, <2>1, <2>2, Unlisted, Actors
  <1>6. CASE WriteWal
    <2>1. pending \in Key /\ pending \in live
      BY <1>6, Appending DEF WriteWal
    <2>2. ManifestComplete'
      BY <1>0, <1>6, <2>1, Unlisted, ManifestKept DEF WriteWal, TypeOK, ManifestInv
    <2>3. QED
      BY <1>0, <1>6, <2>2, Actors DEF WriteWal, TypeOK, ManifestInv, Busy
  <1>7. CASE WriteShort \/ WriteCompressed
    <2>1. /\ UNCHANGED <<wal, final, manifest>>
          /\ \A a \in Actor \ {Recorder} : at'[a] = at[a]
          /\ at'[Recorder] = Idle \/ (at'[Recorder].key = at[Recorder].key /\ Busy(Recorder))
      BY <1>0, <1>7, Actors DEF TypeOK, WriteShort, WriteCompressed, Busy
    <2>2. QED
      BY <1>b, <2>1
  <1>8. ASSUME NEW j \in Key, FinalizeOlder(j) PROVE ManifestInv'
    <2>1. j \in live /\ UNCHANGED <<wal, final, manifest>> /\ Begin(Recorder, "close", j, count[j])
      BY <1>8 DEF FinalizeOlder, OlderWriters
    <2>2. QED
      BY <1>3, <2>1, Unlisted, Actors
  <1>9. ASSUME NEW k \in Key, FinalizeDetached(k) PROVE ManifestInv'
    <2>1. k \in detached /\ UNCHANGED <<wal, final, manifest>> /\ Begin(Closer, "close", k, count[k])
      BY <1>9 DEF FinalizeDetached
    <2>2. QED
      BY <1>3, <2>1, Unlisted, Actors
  <1>10. ASSUME NEW p \in Process, NEW d \in Days, RecoverDay(p, d) PROVE ManifestInv'
    <2>0. p \in Actor /\ phase[p] = "recovering" /\ ~Busy(p) /\ d \in todo[p] /\ WalsOf(d) = {}
          /\ UNCHANGED <<wal, final, at>>
          /\ manifest' = [manifest EXCEPT ![d] = IF @ = NoFile THEN FinalsOf(d) ELSE @]
      BY <1>10, Actors DEF RecoverDay, Visits, DirectoryDone
    <2>1. \A e \in Days : FinalsOf(e)' = FinalsOf(e) /\ WalsOf(e)' = WalsOf(e)
      BY <2>0 DEF FinalsOf, WalsOf
    <2>2. ManifestComplete'
      BY <1>0, <2>0, <2>1 DEF TypeOK, ManifestInv, ManifestComplete
    <2>3. \A a \in Actor : Busy(a) => DayOf(at[a].key) # d
      BY <1>10, RecoverApart
    <2>4. \A a \in Actor : Busy(a) => manifest'[DayOf(at[a].key)] = NoFile
      BY <1>0, <2>0, <2>3, KeyFacts DEF ManifestInv, PlaceInv, TypeOK
    <2>5. QED
      BY <2>0, <2>2, <2>4 DEF ManifestInv, Busy
  <1>11. ASSUME NEW p \in Process, NEW k \in Key, RecoverWal(p, k) PROVE ManifestInv'
    <2>1. k \in WalsOf(DayOf(k)) /\ UNCHANGED <<wal, final, manifest>> /\ Begin(p, "repair", k, 0)
      BY <1>11 DEF RecoverWal, WalsOf
    <2>2. manifest[DayOf(k)] = NoFile
      BY <1>0, <2>1, KeyFacts DEF ManifestInv, ManifestComplete
    <2>3. QED
      BY <1>3, <2>1, <2>2, Actors
  <1>12. ASSUME NEW a \in Actor, WriterCase(a) PROVE ManifestInv'
    <2>0. Busy(a) /\ at[a].key \in Key /\ manifest[DayOf(at[a].key)] = NoFile
      BY <1>0, <1>12, AtWork DEF ManifestInv
    <2>1. ManifestComplete'
      BY <1>0, <1>12, <2>0, OwnFile, ManifestKept DEF ManifestInv
    <2>2. \A b \in Actor : Busy(b)' => manifest'[DayOf(at'[b].key)] = NoFile
      BY <1>0, <1>12, <2>0, OwnFile DEF ManifestInv, Busy, Idle
    <2>3. QED
      BY <2>1, <2>2 DEF ManifestInv
  <1>13. QED
    BY <1>1, <1>2, <1>4, <1>5, <1>6, <1>7, <1>8, <1>9, <1>10, <1>11, <1>12 DEF StepCase

-----------------------------------------------------------------------------
LEMMA StepHours == StorageInv /\ StepCase => HourInv'
  <1> SUFFICES ASSUME StorageInv, StepCase PROVE HourInv'
    OBVIOUS
  <1> USE DEF vars, disk, days, procs, writers, dayClose, history
  <1>0. TypeOK /\ PhaseInv /\ PlaceInv /\ DayInv /\ HourInv
    BY DEF StorageInv
  <1>a. rxFloor \in Nat /\ live \subseteq Key /\ \A k \in live : HourOf(k) \in Nat
    BY <1>0, KeyFacts DEF TypeOK
  <1>1. CASE UNCHANGED vars
    BY <1>0, <1>1 DEF HourInv
  <1>2. CASE Tick \/ Start \/ FinalizerStart \/ FinalizerDone \/ ClosePartial \/ DayClosed
    BY <1>0, <1>2 DEF HourInv, Tick, Start, FinalizerStart, BeginRecovery, FinalizerDone, ClosePartial, DayClosed
  <1>3. CASE RecorderReady
    BY <1>0, <1>3 DEF PhaseInv, Alive, Up, HourInv, RecorderReady
  <1>4. CASE Exit \/ CrashRecorder
    BY <1>0, <1>4 DEF HourInv, Exit, CrashRecorder, ForgetMemory
  <1>5. CASE CrashFinalizer
    BY <1>0, <1>5, Actors DEF HourInv, TypeOK, CrashFinalizer
  <1>6. ASSUME NEW k \in Key, Append(k) PROVE HourInv'
    <2>1. live' = live /\ rxFloor <= rxFloor' /\ rxFloor' \in Nat
      BY <1>6, KeyFacts DEF Append
    <2>2. at'[Recorder].stage \notin {"repair", "rebuild", "open"}
      <3>1. at'[Recorder] = at[Recorder] \/ at'[Recorder].stage = "write"
        <4>1. Begin(Recorder, "write", k, 0) \/ UNCHANGED at
          BY <1>6 DEF Append
        <4>2. QED
          BY <1>0, <4>1, Actors DEF Begin, TypeOK
      <3>2. at[Recorder].stage = "idle"
        BY <1>6 DEF Append, LoopFree, Busy
      <3>3. QED
        BY <3>1, <3>2
    <2>3. QED
      BY <1>0, <1>a, <2>1, <2>2 DEF HourInv
  <1>7. CASE OpenNew
    <2>1. live' = live /\ rxFloor' = rxFloor /\ pending' = pending /\ pending \in Key /\ pending \notin live
      BY <1>0, <1>7 DEF OpenNew, PlaceInv, Busy, TypeOK
    <2>2. \A j \in live : StreamOf(j) # StreamOf(pending)
      BY <1>0, <1>a, <1>7, <2>1, KeyFacts DEF OpenNew, OlderWriters, DayInv, HourInv
    <2>3. QED
      BY <1>0, <2>1, <2>2 DEF HourInv
  <1>8. CASE WriteWal \/ WriteShort \/ WriteCompressed
    BY <1>0, <1>8, Actors DEF HourInv, TypeOK, WriteWal, WriteShort, WriteCompressed
  <1>9. ASSUME NEW j \in Key, FinalizeOlder(j) PROVE HourInv'
    BY <1>0, <1>9, Actors DEF HourInv, TypeOK, FinalizeOlder, Begin
  <1>10. CASE DayClose
    <2>1. live' \subseteq live /\ rxFloor' \in Nat /\ rxFloor <= rxFloor' /\ pending' = NoKey
      BY <1>0, <1>a, <1>10, HoursAssumption, DayFacts DEF DayClose, LiveAfterDetach, LoopFree, TypeOK
    <2>2. QED
      BY <1>0, <1>a, <2>1 DEF HourInv
  <1>11. ASSUME NEW k \in Key, FinalizeDetached(k) PROVE HourInv'
    BY <1>0, <1>11, Actors DEF HourInv, TypeOK, FinalizeDetached, Begin
  <1>12. ASSUME NEW p \in Process, NEW d \in Days, RecoverDay(p, d) PROVE HourInv'
    BY <1>0, <1>12 DEF HourInv, RecoverDay
  <1>13. ASSUME NEW p \in Process, NEW k \in Key, RecoverWal(p, k) PROVE HourInv'
    BY <1>0, <1>13, Actors DEF PhaseInv, HourInv, TypeOK, RecoverWal, Visits, Begin
  <1>14. ASSUME NEW a \in Actor, WriterCase(a) PROVE HourInv'
    <2>0. Busy(a) /\ at[a].key \in Key
      BY <1>14, AtWork
    <2>1. CASE GivesUp(a)
      BY <1>0, <2>0, <2>1, GivenUp, Actors DEF HourInv, TypeOK, Idle
    <2>2. CASE RepairsWal(a) \/ FindsNoWal(a) \/ Rebuilds(a)
      BY <1>0, <2>0, <2>2, Actors DEF HourInv, TypeOK, RepairsWal, FindsNoWal, Rebuilds, Begin
    <2>3. CASE OpensToAppend(a)
      <3>1. /\ a = Recorder /\ pending = at[a].key /\ pending # NoKey
            /\ live' = live \cup {pending} /\ rxFloor' = rxFloor
            /\ at'[Recorder].stage = "write"
            /\ at[Recorder].stage = "open"
        BY <1>0, <2>0, <2>3, KeyFacts, Actors DEF Opening, OpensToAppend, Begin, TypeOK
      <3>2. \A j \in live : StreamOf(j) # StreamOf(pending)
        BY <1>0, <3>1 DEF HourInv
      <3>3. QED
        BY <1>0, <1>a, <2>0, <3>1, <3>2 DEF HourInv, DayInv
    <2>4. CASE OpensToClose(a)
      BY <1>0, <2>0, <2>4, Actors DEF HourInv, TypeOK, Opening, OpensToClose, Begin
    <2>5. CASE Close(a) \/ Renames(a)
      BY <1>0, <2>0, <2>5, Actors DEF HourInv, TypeOK, Close, Renames
    <2>6. CASE Unlinks(a)
      BY <1>0, <2>0, <2>6, Actors DEF HourInv, TypeOK, Unlinks, Idle
    <2>7. QED
      BY <1>14, <2>1, <2>2, <2>3, <2>4, <2>5, <2>6 DEF WriterCase
  <1>15. QED
    BY <1>1, <1>2, <1>3, <1>4, <1>5, <1>6, <1>7, <1>8, <1>9, <1>10, <1>11, <1>12, <1>13, <1>14
       DEF StepCase

LEMMA StepOpens == StorageInv /\ StepCase => OpenInv'
  <1> SUFFICES ASSUME StorageInv, StepCase PROVE OpenInv'
    OBVIOUS
  <1> USE DEF vars, disk, days, procs, writers, dayClose, history
  <1>0. TypeOK /\ PhaseInv /\ PlaceInv /\ OpenInv
    BY DEF StorageInv
  <1>1. CASE \/ UNCHANGED vars \/ Tick \/ Start \/ FinalizerStart \/ FinalizerDone \/ DayClosed
             \/ RecorderReady \/ ClosePartial
    BY <1>0, <1>1 DEF OpenInv, Tick, Start, FinalizerStart, BeginRecovery, FinalizerDone, DayClosed,
                      RecorderReady, ClosePartial
  <1>2. CASE Exit \/ CrashRecorder
    BY <1>0, <1>2 DEF OpenInv, Exit, CrashRecorder, ForgetMemory
  <1>3. CASE CrashFinalizer
    BY <1>0, <1>3 DEF OpenInv, TypeOK, CrashFinalizer, Idle
  <1>4. ASSUME NEW a \in Actor, NEW s \in Stage \ {"replace", "unlink"}, NEW k, NEW n,
               Begin(a, s, k, n) \/ UNCHANGED at, UNCHANGED <<live, detached, isOpen>>
        PROVE  OpenInv'
    <2>1. isOpen \subseteq live \cup detached
      BY <1>0 DEF OpenInv
    <2>2. \A b \in Actor : at'[b].stage \in {"replace", "unlink"} => at'[b] = at[b]
      <3>1. at \in [Actor -> [stage : Stage, key : Key \cup {NoKey}, count : Nat]]
        BY <1>0 DEF TypeOK
      <3>2. QED
        BY <1>4, <3>1 DEF Begin
    <2>3. QED
      BY <1>0, <1>4, <2>1, <2>2 DEF OpenInv
  <1>5. {"write", "repair", "close"} \subseteq Stage \ {"replace", "unlink"}
    BY DEF Stage
  <1>6. ASSUME NEW k \in Key, Append(k) PROVE OpenInv'
    <2>1. UNCHANGED <<live, detached, isOpen>> /\ (Begin(Recorder, "write", k, 0) \/ UNCHANGED at)
      BY <1>6 DEF Append
    <2>2. QED
      BY <1>4, <1>5, <2>1, Actors
  <1>7. CASE OpenNew
    BY <1>4, <1>5, <1>7, Actors DEF OpenNew
  <1>8. CASE WriteWal \/ WriteShort \/ WriteCompressed
    BY <1>0, <1>8 DEF OpenInv, TypeOK, WriteWal, WriteShort, WriteCompressed, Idle
  <1>9. ASSUME NEW j \in Key, FinalizeOlder(j) PROVE OpenInv'
    BY <1>4, <1>5, <1>9, Actors DEF FinalizeOlder
  <1>10. CASE DayClose
    BY <1>0, <1>10 DEF OpenInv, PhaseInv, DayClose, LiveAfterDetach, WritersOf
  <1>11. ASSUME NEW k \in Key, FinalizeDetached(k) PROVE OpenInv'
    BY <1>4, <1>5, <1>11, Actors DEF FinalizeDetached
  <1>12. ASSUME NEW p \in Process, NEW d \in Days, RecoverDay(p, d) PROVE OpenInv'
    BY <1>0, <1>12 DEF OpenInv, RecoverDay
  <1>13. ASSUME NEW p \in Process, NEW k \in Key, RecoverWal(p, k) PROVE OpenInv'
    BY <1>4, <1>5, <1>13, Actors DEF RecoverWal
  <1>14. ASSUME NEW a \in Actor, WriterCase(a) PROVE OpenInv'
    <2>0. Busy(a) /\ at[a].key \in Key
      BY <1>14, AtWork
    <2>1. CASE GivesUp(a)
      <3>1. at' = [at EXCEPT ![a] = Idle] /\ live' = live
        BY <2>1, <1>0, GivenUp
      <3>2. isOpen' \subseteq isOpen /\ isOpen' \subseteq live' \cup detached'
        BY <1>0, <2>1 DEF GivesUp, Abandon, OpenInv
      <3>3. QED
        BY <1>0, <3>1, <3>2 DEF OpenInv, TypeOK, Idle
    <2>2. CASE RepairsWal(a) \/ FindsNoWal(a) \/ Rebuilds(a)
      BY <1>0, <2>0, <2>2 DEF OpenInv, TypeOK, RepairsWal, FindsNoWal, Rebuilds, Begin
    <2>3. CASE OpensToAppend(a)
      <3>1. \A b \in Actor \ {a} : Busy(b) => at[b].key # at[a].key
        BY <2>0, Separate
      <3>2. QED
        BY <1>0, <2>0, <2>3, <3>1 DEF OpenInv, TypeOK, Opening, OpensToAppend, Begin, Busy
    <2>4. CASE OpensToClose(a)
      BY <1>0, <2>0, <2>4 DEF OpenInv, TypeOK, Opening, OpensToClose, Begin
    <2>5. CASE Close(a)
      BY <1>0, <2>0, <2>5 DEF OpenInv, TypeOK, Close
    <2>6. CASE Renames(a)
      BY <1>0, <2>0, <2>6 DEF OpenInv, TypeOK, Renames
    <2>7. CASE Unlinks(a)
      BY <1>0, <2>0, <2>7 DEF OpenInv, TypeOK, Unlinks, Idle
    <2>8. QED
      BY <1>14, <2>1, <2>2, <2>3, <2>4, <2>5, <2>6, <2>7 DEF WriterCase
  <1>15. QED
    BY <1>1, <1>2, <1>3, <1>6, <1>7, <1>8, <1>9, <1>10, <1>11, <1>12, <1>13, <1>14 DEF StepCase

-----------------------------------------------------------------------------
(* Steps that touch no file: the lines stay as they are.                    *)
Quiet ==
    /\ UNCHANGED <<disk, accepted, short>>
    /\ \A a \in Actor : \/ at'[a] = at[a]
                        \/ /\ at[a].stage \notin {"compress", "unlink"}
                           /\ at'[a].stage \notin {"rebuild", "open", "unlink", "compress"}
    /\ pending' = pending \/ at[Recorder].stage # "compress"
    /\ live' = {} \/ (live' \subseteq live /\ (Healthy' => Healthy))
    /\ live' \cup detached' \subseteq live \cup detached

LEMMA QuietFiles == StorageInv /\ Quiet => FileInv'
  <1> SUFFICES ASSUME StorageInv, Quiet PROVE FileInv'
    OBVIOUS
  <1>0. TypeOK /\ PlaceInv /\ FileInv
    BY DEF StorageInv
  <1> USE DEF Quiet, disk
  <1>1. Logged'
    BY <1>0 DEF FileInv, Logged
  <1>2. Sealed'
    BY <1>0 DEF FileInv, Sealed
  <1>3. Compressed'
    BY <1>0, Actors DEF FileInv, Compressed
  <1>4. Compressing'
    BY <1>0, Actors DEF FileInv, Compressing
  <1>5. Writable'
    BY <1>0, Actors DEF FileInv, Writable
  <1>6. HasWal'
    BY <1>0 DEF FileInv, HasWal
  <1>7. TornOfShort'
    BY <1>0 DEF FileInv, TornOfShort
  <1>8. Rebuilt'
    BY <1>0 DEF FileInv, Rebuilt
  <1>9. Renamed'
    BY <1>0 DEF FileInv, Renamed
  <1>10. QED
    BY <1>1, <1>2, <1>3, <1>4, <1>5, <1>6, <1>7, <1>8, <1>9 DEF FileInv

LEMMA QuietSteps ==
    ASSUME StorageInv,
           \/ UNCHANGED vars \/ Tick \/ Start \/ FinalizerStart \/ RecorderReady \/ FinalizerDone
           \/ ClosePartial \/ Exit \/ OpenNew \/ DayClose \/ DayClosed
           \/ \E k \in Key : Append(k) \/ FinalizeOlder(k) \/ FinalizeDetached(k)
           \/ \E p \in Process : \E k \in Key : RecoverWal(p, k)
           \/ \E a \in Actor : Close(a)
    PROVE  Quiet
  <1> USE DEF vars, disk, days, procs, writers, dayClose, history, Quiet
  <1>0. TypeOK /\ PhaseInv /\ PlaceInv
    BY DEF StorageInv
  <1>1. CASE UNCHANGED vars \/ Tick
    BY <1>1 DEF Tick, Healthy
  <1>2. CASE Start \/ FinalizerStart \/ FinalizerDone
    BY <1>0, <1>2, Actors DEF Start, FinalizerStart, BeginRecovery, FinalizerDone, EndRecovery, Healthy, TypeOK
  <1>3. CASE RecorderReady
    BY <1>0, <1>3 DEF PhaseInv, Alive, Up, RecorderReady
  <1>4. CASE ClosePartial
    BY <1>0, <1>4, Actors DEF ClosePartial, LoopFree, Healthy, TypeOK
  <1>5. CASE Exit
    BY <1>0, <1>5, Actors DEF PhaseInv, PlaceInv, Busy, Exit, ForgetMemory, Idle, TypeOK
  <1>6. CASE DayClose \/ DayClosed
    BY <1>0, <1>6 DEF PhaseInv, DayClose, DayClosed, LiveAfterDetach, WritersOf, Healthy
  <1>7. ASSUME NEW a \in Actor, NEW k, NEW n, NEW s \in {"write", "repair", "close"},
               Begin(a, s, k, n) \/ UNCHANGED at, ~Busy(a) \/ UNCHANGED at,
               UNCHANGED <<disk, accepted, short, live, detached>>, Healthy' => Healthy,
               pending' = pending \/ at[Recorder].stage # "compress"
        PROVE  Quiet
    BY <1>0, <1>7 DEF Begin, Busy, TypeOK
  <1>8. ASSUME NEW k \in Key, Append(k) PROVE Quiet
    <2>1. /\ Begin(Recorder, "write", k, 0) \/ UNCHANGED at
          /\ ~Busy(Recorder) /\ Healthy /\ UNCHANGED <<disk, accepted, short, live, detached>>
      BY <1>8 DEF Append, LoopFree, Healthy
    <2>2. QED
      BY <1>7, <2>1, Actors DEF Busy
  <1>9. CASE OpenNew
    BY <1>7, <1>9, Actors DEF OpenNew, Healthy
  <1>10. ASSUME NEW j \in Key, FinalizeOlder(j) PROVE Quiet
    BY <1>7, <1>10, Actors DEF FinalizeOlder, Healthy
  <1>11. ASSUME NEW k \in Key, FinalizeDetached(k) PROVE Quiet
    BY <1>7, <1>11, Actors DEF FinalizeDetached, Healthy
  <1>12. ASSUME NEW p \in Process, NEW k \in Key, RecoverWal(p, k) PROVE Quiet
    BY <1>7, <1>12, Actors DEF RecoverWal, Visits, Healthy
  <1>13. ASSUME NEW a \in Actor, Close(a) PROVE Quiet
    BY <1>0, <1>13 DEF Close, TypeOK, Healthy
  <1>14. QED
    BY <1>1, <1>2, <1>3, <1>4, <1>5, <1>6, <1>8, <1>9, <1>10, <1>11, <1>12, <1>13

(* The record goes to the WAL and to the compressed file of its writer      *)
(* alone.                                                                   *)
LEMMA AppendFiles ==
    ASSUME StorageInv, WriteWal \/ WriteShort \/ WriteCompressed
    PROVE  FileInv'
  <1> USE DEF vars, disk, days, procs, writers, dayClose, history
  <1>0. TypeOK /\ PlaceInv /\ FileInv
    BY DEF StorageInv
  <1>1. at[Recorder].stage \in {"write", "compress"}
    BY DEF WriteWal, WriteShort, WriteCompressed
  <1>2. /\ pending \in Key /\ pending \in live /\ at[Recorder].key = pending
        /\ final[pending] = NoFile /\ wal[pending] \in Nat /\ partial[pending] \in Nat
    BY <1>1, Appending
  <1>3. \A b \in Actor \ {Recorder} : Busy(b) => at[b].key # pending
    BY <1>1, <1>2, Separate, Actors DEF Busy
  <1>4. wal[pending] = accepted[pending] /\ accepted[pending] \in Nat /\ short[pending] \in Nat
    BY <1>0, <1>2, SentinelAssumption DEF FileInv, Logged, TypeOK
  <1>5. \A b \in Actor \ {Recorder} : at'[b] = at[b]
    BY <1>0 DEF WriteWal, WriteShort, WriteCompressed, TypeOK
  <1>6. CASE WriteWal
    <2>0. /\ at[Recorder].stage = "write" /\ at'[Recorder].stage = "compress" /\ at'[Recorder].key = pending
          /\ wal' = [wal EXCEPT ![pending] = @ + 1] /\ accepted' = [accepted EXCEPT ![pending] = @ + 1]
          /\ garbled' = garbled \cup (torn \cap {pending}) /\ torn' = torn \ {pending}
          /\ UNCHANGED <<partial, final, short, live, detached, pending, phase>>
      BY <1>0, <1>2, <1>6, Actors DEF WriteWal, TypeOK
    <2>1. Logged'
      BY <1>0, <1>2, <1>4, <2>0, SentinelAssumption DEF FileInv, Logged, TypeOK
    <2>2. Sealed'
      BY <1>0, <1>2, <2>0 DEF FileInv, Sealed, TypeOK
    <2>3. Compressed'
      BY <1>0, <1>2, <2>0 DEF FileInv, Compressed, TypeOK
    <2>4. Compressing'
      BY <1>0, <1>2, <1>4, <2>0 DEF FileInv, Compressed, Compressing, TypeOK
    <2>5. Writable'
      BY <1>0, <1>2, <2>0 DEF FileInv, Writable, Healthy, TypeOK
    <2>6. HasWal'
      BY <1>0, <1>2, <2>0, SentinelAssumption DEF FileInv, HasWal, TypeOK
    <2>7. TornOfShort'
      BY <1>0, <2>0 DEF FileInv, TornOfShort, TypeOK
    <2>8. Rebuilt'
      BY <1>0, <1>2, <1>3, <1>5, <2>0 DEF FileInv, Rebuilt, Busy, TypeOK
    <2>9. Renamed'
      BY <1>0, <1>5, <2>0 DEF FileInv, Renamed
    <2>10. QED
      BY <2>1, <2>2, <2>3, <2>4, <2>5, <2>6, <2>7, <2>8, <2>9 DEF FileInv
  <1>7. CASE WriteShort
    <2>0. /\ at[Recorder].stage = "write" /\ at'[Recorder].stage = "compress" /\ at'[Recorder].key = pending
          /\ short' = [short EXCEPT ![pending] = @ + 1] /\ torn' = torn \cup {pending}
          /\ UNCHANGED <<wal, garbled, accepted, partial, final, live, detached, pending, phase>>
      BY <1>0, <1>2, <1>7, Actors DEF WriteShort, TypeOK
    <2>1. Logged'
      BY <1>0, <2>0 DEF FileInv, Logged
    <2>2. Sealed'
      BY <1>0, <1>2, <2>0 DEF FileInv, Sealed, TypeOK
    <2>3. Compressed'
      BY <1>0, <1>2, <2>0 DEF FileInv, Compressed, TypeOK
    <2>4. Compressing'
      BY <1>0, <1>2, <1>4, <2>0 DEF FileInv, Compressed, Compressing, TypeOK
    <2>5. Writable'
      BY <1>0, <1>2, <2>0 DEF FileInv, Writable, Healthy
    <2>6. HasWal'
      BY <1>0, <1>2, <2>0, SentinelAssumption DEF FileInv, HasWal
    <2>7. TornOfShort'
      BY <1>0, <1>2, <1>4, <2>0 DEF FileInv, TornOfShort, TypeOK
    <2>8. Rebuilt'
      BY <1>0, <1>2, <1>3, <1>5, <2>0 DEF FileInv, Rebuilt, Busy
    <2>9. Renamed'
      BY <1>0, <1>5, <2>0 DEF FileInv, Renamed
    <2>10. QED
      BY <2>1, <2>2, <2>3, <2>4, <2>5, <2>6, <2>7, <2>8, <2>9 DEF FileInv
  <1>8. CASE WriteCompressed
    <2>0. /\ at[Recorder].stage = "compress" /\ at'[Recorder].stage = "idle"
          /\ partial' = [partial EXCEPT ![pending] = @ + 1] /\ pending' = NoKey
          /\ UNCHANGED <<wal, torn, garbled, accepted, short, final, live, detached, phase>>
      BY <1>0, <1>2, <1>8, Actors DEF WriteCompressed, TypeOK, Idle
    <2>1. Logged'
      BY <1>0, <2>0 DEF FileInv, Logged
    <2>2. Sealed'
      BY <1>0, <1>2, <2>0 DEF FileInv, Sealed, TypeOK
    <2>3. Compressed'
      BY <1>0, <1>2, <2>0 DEF FileInv, Compressed, Compressing, TypeOK
    <2>4. Compressing'
      BY <2>0 DEF Compressing
    <2>5. Writable'
      BY <1>0, <1>2, <2>0, KeyFacts DEF FileInv, Writable, Healthy, TypeOK
    <2>6. HasWal'
      BY <1>0, <2>0 DEF FileInv, HasWal
    <2>7. TornOfShort'
      BY <1>0, <2>0 DEF FileInv, TornOfShort
    <2>8. Rebuilt'
      BY <1>0, <1>2, <1>3, <1>5, <2>0 DEF FileInv, Rebuilt, Busy, TypeOK
    <2>9. Renamed'
      BY <1>0, <1>5, <2>0 DEF FileInv, Renamed
    <2>10. QED
      BY <2>1, <2>2, <2>3, <2>4, <2>5, <2>6, <2>7, <2>8, <2>9 DEF FileInv
  <1>9. QED
    BY <1>6, <1>7, <1>8

(* What is cut off belongs to the actor that ends.                          *)
LEMMA EndFiles ==
    ASSUME StorageInv,
           CrashRecorder \/ CrashFinalizer \/ \E a \in Actor : GivesUp(a)
    PROVE  FileInv'
  <1> USE DEF vars, disk, days, procs, writers, dayClose, history
  <1>0. TypeOK /\ PhaseInv /\ PlaceInv /\ FileInv
    BY DEF StorageInv
  <1>a. at[Recorder].stage \in {"write", "compress"} => pending \in Key /\ pending \in live /\ at[Recorder].key = pending
    BY Appending
  <1>b. \A k \in torn \cup garbled : k \in Key
    BY <1>0 DEF TypeOK
  <1>1. CASE CrashRecorder
    <2>0. /\ \A k \in Key : partial'[k] = partial[k] \/ partial'[k] = Damaged
          /\ \A k \in Key : k \notin isOpen /\ k \notin Closing({Recorder, Closer}) => partial'[k] = partial[k]
          /\ \A k \in Key : k \in Closing({Recorder, Closer}) => partial'[k] = Damaged
          /\ torn' \subseteq torn \cup {pending} /\ (torn' = torn \/ at[Recorder].stage = "write")
          /\ live' = {} /\ detached' = {}
          /\ at'[Recorder] = Idle /\ at'[Closer] = Idle /\ at'[Finalizer] = at[Finalizer]
          /\ UNCHANGED <<wal, garbled, final, accepted, short>>
      BY <1>0, <1>1, Actors DEF CrashRecorder, ForgetMemory, CutOff, TypeOK
    <2>1. Logged'
      BY <1>0, <2>0 DEF FileInv, Logged
    <2>2. Sealed'
      BY <1>0, <2>0, SentinelAssumption DEF FileInv, Sealed, TypeOK
    <2>3. Compressed'
      <3>1. at[Recorder].stage = "compress" => pending \in Closing({Recorder, Closer})
        BY <1>a, Actors DEF Closing
      <3>2. ASSUME NEW k \in Key, partial'[k] \in Nat
            PROVE  partial'[k] = partial[k] /\ ~(at[Recorder].stage = "compress" /\ pending = k)
        BY <2>0, <3>1, <3>2, SentinelAssumption
      <3>3. QED
        BY <1>0, <2>0, <3>2 DEF FileInv, Compressed
    <2>4. Compressing'
      BY <2>0 DEF Compressing, Idle
    <2>5. Writable'
      BY <2>0 DEF Writable
    <2>6. HasWal'
      <3>1. at[Recorder].stage = "write" => wal[pending] # NoFile
        BY Appending, SentinelAssumption
      <3>2. QED
        BY <1>0, <2>0, <3>1 DEF FileInv, HasWal
    <2>7. TornOfShort'
      BY <2>0 DEF TornOfShort
    <2>8. Rebuilt'
      <3>1. ASSUME Busy(Finalizer)
            PROVE  LET k == at[Finalizer].key IN
                   k \in Key /\ k \notin isOpen /\ k \notin Closing({Recorder, Closer}) /\ k # pending
        BY <1>0, <3>1, Separate, Actors DEF StorageInv, OpenInv, PlaceInv, Closing, Busy
      <3>2. at[Finalizer].stage \in {"rebuild", "open"} => Busy(Finalizer)
        BY DEF Busy
      <3>3. QED
        BY <1>0, <2>0, <3>1, <3>2, Actors DEF FileInv, Rebuilt, Idle
    <2>9. Renamed'
      BY <1>0, <2>0, Actors DEF FileInv, Renamed, Idle
    <2>10. QED
      BY <2>1, <2>2, <2>3, <2>4, <2>5, <2>6, <2>7, <2>8, <2>9 DEF FileInv
  <1>2. ASSUME /\ \A k \in Key : partial'[k] = partial[k] \/ partial'[k] = Damaged
               /\ torn' \subseteq torn
               /\ UNCHANGED <<wal, garbled, final, accepted, short, live>>
               /\ live' \cup detached' \subseteq live \cup detached
               /\ Healthy' /\ live # {} => Healthy,
               \A a \in Actor : \/ at'[a] = Idle
                                \/ at'[a] = at[a] /\ (Busy(a) => partial'[at[a].key] = partial[at[a].key]),
               Healthy' /\ live # {} => /\ at'[Recorder] = at[Recorder]
                                       /\ \A k \in live : partial'[k] = partial[k],
               \/ pending' = pending /\ at'[Recorder] = at[Recorder]
               \/ at[Recorder].stage = "compress" => partial'[pending] = Damaged /\ at'[Recorder] = Idle
        PROVE  FileInv'
    <2>1. Logged'
      BY <1>0, <1>2 DEF FileInv, Logged
    <2>2. Sealed'
      BY <1>0, <1>2, SentinelAssumption DEF FileInv, Sealed, TypeOK
    <2>3. Compressed'
      BY <1>0, <1>2, SentinelAssumption DEF FileInv, Compressed, TypeOK
    <2>4. Compressing'
      BY <1>0, <1>2, <1>a, Actors DEF FileInv, Compressing, Busy, Idle
    <2>5. Writable'
      BY <1>0, <1>2, Actors DEF FileInv, Writable, Healthy, TypeOK
    <2>6. HasWal'
      BY <1>0, <1>2 DEF FileInv, HasWal
    <2>7. TornOfShort'
      BY <1>0, <1>2 DEF FileInv, TornOfShort
    <2>8. Rebuilt'
      BY <1>0, <1>2 DEF FileInv, Rebuilt, Busy, Idle
    <2>9. Renamed'
      BY <1>0, <1>2 DEF FileInv, Renamed, Idle
    <2>10. QED
      BY <2>1, <2>2, <2>3, <2>4, <2>5, <2>6, <2>7, <2>8, <2>9 DEF FileInv
  <1>3. CASE CrashFinalizer
    <2>1. \A k \in Key : partial'[k] = partial[k] \/ (partial'[k] = Damaged /\ k = at[Finalizer].key /\ Busy(Finalizer))
      BY <1>0, <1>3 DEF CrashFinalizer, CutOff, Closing, Busy, TypeOK
    <2>2. at'[Finalizer] = Idle /\ \A a \in Actor \ {Finalizer} : at'[a] = at[a]
      BY <1>0, <1>3, Actors DEF CrashFinalizer, TypeOK
    <2>3. /\ UNCHANGED <<torn, wal, garbled, final, accepted, short, live, detached, pending>>
          /\ phase'[Recorder] = phase[Recorder]
      BY <1>0, <1>3, Actors DEF CrashFinalizer, EndRecovery, TypeOK
    <2>4. \A a \in Actor \ {Finalizer} : Busy(a) => partial'[at[a].key] = partial[at[a].key]
      BY <1>0, <2>1, Separate, Actors DEF PlaceInv
    <2>5. \A k \in live : partial'[k] = partial[k]
      BY <1>0, <2>1, Separate DEF TypeOK
    <2>6. QED
      BY <1>2, <2>1, <2>2, <2>3, <2>4, <2>5, Actors DEF Healthy
  <1>4. ASSUME NEW a \in Actor, GivesUp(a) PROVE FileInv'
    <2>0. Busy(a) /\ at[a].key \in Key
      BY <1>4, AtWork DEF WriterCase
    <2>1. \A k \in Key : \/ partial'[k] = partial[k]
                         \/ partial'[k] = Damaged /\ (k = at[a].key \/ (a = Closer /\ k \in detached))
      BY <1>0, <1>4 DEF GivesUp, Abandon, CutOff, Closing, TypeOK
    <2>2. a = Recorder /\ at[a].stage = "compress" => partial'[at[a].key] = Damaged
      BY <1>0, <1>4, <2>0, Actors DEF GivesUp, Abandon, CutOff, Closing, TypeOK
    <2>3. /\ at'[a] = Idle /\ \A b \in Actor \ {a} : at'[b] = at[b]
          /\ torn' \subseteq torn
          /\ UNCHANGED <<wal, garbled, final, accepted, short, live>>
          /\ detached' \subseteq detached
          /\ pending' = IF a = Recorder THEN NoKey ELSE pending
      BY <1>0, <1>4, GivenUp, Actors DEF TypeOK
    <2>4. Healthy' => Healthy /\ (a = Recorder => live = {})
      <3>1. phase'[Recorder] \in {"running", "draining"}
              => phase[Recorder] \in {"running", "draining"} /\ a # Recorder
        BY <1>0, <1>4, Actors, WithoutTask DEF GivesUp, Abandon, EndRecovery, TypeOK
      <3>2. QED
        BY <2>3, <3>1 DEF Healthy
    <2>5. \A b \in Actor \ {a} : Busy(b) => partial'[at[b].key] = partial[at[b].key]
      <3>1. ASSUME NEW b \in Actor \ {a}, Busy(b), a = Closer PROVE at[b].key \notin detached
        <4>1. b = Recorder => at[b].key \in live \cup {pending} \/ ~Alive
          BY <3>1, Separate
        <4>2. QED
          BY <1>0, <3>1, <4>1, Separate, Actors DEF PhaseInv
      <3>2. QED
        BY <1>0, <2>0, <2>1, <3>1, Separate DEF PlaceInv
    <2>6. a # Recorder => \A k \in live : partial'[k] = partial[k]
      BY <1>0, <2>0, <2>1, Separate, Actors DEF TypeOK
    <2>7. at[Recorder].stage = "compress" /\ a = Recorder => partial'[pending] = Damaged /\ at'[Recorder] = Idle
      BY <1>a, <2>2, <2>3
    <2>8. QED
      BY <1>2, <2>1, <2>3, <2>4, <2>5, <2>6, <2>7, Actors
  <1>5. QED
    BY <1>1, <1>3, <1>4

(* Recovery, rebuild, opening, rename and unlink, on the file of the actor. *)
LEMMA WriterFiles ==
    ASSUME StorageInv, NEW a \in Actor, NEW k \in Key, k = at[a].key,
           \/ RepairsWal(a) \/ FindsNoWal(a) \/ Rebuilds(a) \/ OpensToAppend(a)
           \/ OpensToClose(a) \/ Renames(a) \/ Unlinks(a)
    PROVE  FileInv'
  <1> USE DEF days, procs, writers, dayClose, history
  <1>0. TypeOK /\ PhaseInv /\ PlaceInv /\ FileInv
    BY DEF StorageInv
  <1>1. Busy(a) /\ WriterCase(a) /\ ~(at[a].stage \in {"write", "compress"})
    BY DEF WriterCase, RepairsWal, FindsNoWal, Rebuilds, Opening, OpensToAppend, OpensToClose, Renames,
           Unlinks, Busy
  <1>2. /\ \A j \in Key \ {k} : wal'[j] = wal[j] /\ final'[j] = final[j] /\ partial'[j] = partial[j]
        /\ \A b \in Actor \ {a} : at'[b] = at[b] /\ (Busy(b) => at[b].key # k)
        /\ UNCHANGED <<accepted, short>>
    <2>1. \A j \in Key \ {k} : wal'[j] = wal[j] /\ final'[j] = final[j] /\ partial'[j] = partial[j]
      BY <1>0 DEF RepairsWal, FindsNoWal, Rebuilds, Opening, OpensToAppend, OpensToClose, Renames,
                  Unlinks, TypeOK
    <2>2. QED
      BY <1>0, <1>1, <2>1, OwnFile, Separate
  <1>3. at[a].stage \in {"repair", "rebuild", "open"} => k \notin live
    BY <1>0, <1>1, Separate, Actors DEF PhaseInv, PlaceInv
  <1>4. at[Recorder].stage = "compress" => pending # k /\ at'[Recorder] = at[Recorder] /\ pending \in Key
    BY <1>0, <1>1, <1>2, Appending, Actors DEF Busy
  <1>5. /\ pending' = pending /\ phase' = phase
        /\ torn' \subseteq torn /\ garbled' \subseteq garbled
        /\ at'[a].stage # "compress"
        /\ at'[a].stage = "unlink" => Renames(a)
        /\ detached' \subseteq detached
        /\ live' \subseteq live \/ (live' = live \cup {k} /\ k \notin torn)
    BY <1>0 DEF RepairsWal, FindsNoWal, Rebuilds, Opening, OpensToAppend, OpensToClose, Renames,
                  Unlinks, TypeOK, Begin, Idle, FileInv, Rebuilt
  <1>6. Compressing'
    BY <1>0, <1>2, <1>4, <1>5, Actors DEF FileInv, Compressing
  <1>7. TornOfShort'
    BY <1>0, <1>2, <1>5 DEF FileInv, TornOfShort
  <1>8. NoFile \notin Nat /\ Damaged \notin Nat /\ at[a].count \in Nat
    BY <1>0, SentinelAssumption DEF TypeOK
  <1>9. accepted[k] \in Nat /\ short[k] \in Nat
    BY <1>0 DEF TypeOK
  <1>10. at[a].stage \in {"rebuild", "open"} => final[k] = NoFile /\ k \notin torn \cup garbled
    BY <1>0 DEF FileInv, Rebuilt
  <1>11. Renamed'
    BY <1>0, <1>1, <1>2, <1>5, <1>8 DEF FileInv, Renamed, Busy, Renames, TypeOK, PlaceInv
  <1>12. Logged'
    <2>1. IF final'[k] # NoFile THEN TRUE
          ELSE IF wal'[k] = NoFile THEN accepted[k] = 0 ELSE wal'[k] = accepted[k]
      <3>1. CASE RepairsWal(a) \/ FindsNoWal(a) \/ Rebuilds(a)
        BY <1>0, <3>1 DEF RepairsWal, FindsNoWal, Rebuilds, FileInv, Logged
      <3>2. CASE OpensToAppend(a) \/ OpensToClose(a)
        BY <1>0, <1>8, <3>2 DEF Opening, OpensToAppend, OpensToClose, Opened, FileInv, Logged, TypeOK
      <3>3. CASE Renames(a)
        BY <1>0, <1>8, <3>3 DEF Renames, TypeOK
      <3>4. CASE Unlinks(a)
        BY <1>0, <3>4 DEF Unlinks, FileInv, Renamed
      <3>5. QED
        BY <3>1, <3>2, <3>3, <3>4
    <2>2. QED
      BY <1>0, <1>2, <2>1 DEF FileInv, Logged
  <1>13. Sealed'
    <2>1. final'[k] # NoFile => /\ accepted[k] <= final'[k] /\ final'[k] <= accepted[k] + short[k]
                               /\ partial'[k] \notin Nat
      <3>1. CASE RepairsWal(a) \/ FindsNoWal(a) \/ Rebuilds(a)
        BY <1>0, <1>8, <1>10, <3>1 DEF RepairsWal, FindsNoWal, Rebuilds, FileInv, Sealed
      <3>2. CASE OpensToAppend(a) \/ OpensToClose(a)
        BY <1>10, <3>2 DEF Opening, OpensToAppend, OpensToClose
      <3>3. CASE Renames(a)
        <4>1. partial[k] \in Nat /\ final'[k] = partial[k] /\ partial'[k] = NoFile
          BY <1>0, <1>8, <3>3 DEF Renames, TypeOK
        <4>2. accepted[k] <= partial[k] /\ partial[k] <= accepted[k] + short[k]
          BY <1>0, <1>4, <4>1 DEF FileInv, Compressed
        <4>3. QED
          BY <1>8, <4>1, <4>2
      <3>4. CASE Unlinks(a)
        BY <1>0, <3>4 DEF Unlinks, FileInv, Sealed
      <3>5. QED
        BY <3>1, <3>2, <3>3, <3>4
    <2>2. QED
      BY <1>0, <1>2, <2>1 DEF FileInv, Sealed
  <1>14. Compressed'
    <2>1. partial'[k] \in Nat => accepted[k] <= partial'[k] /\ partial'[k] <= accepted[k] + short[k]
      <3>1. partial[k] \in Nat => accepted[k] <= partial[k] /\ partial[k] <= accepted[k] + short[k]
        BY <1>0, <1>4 DEF FileInv, Compressed
      <3>2. CASE RepairsWal(a) \/ Unlinks(a)
        BY <3>1, <3>2 DEF RepairsWal, Unlinks
      <3>3. CASE FindsNoWal(a) \/ Renames(a)
        BY <1>0, <1>8, <3>3 DEF FindsNoWal, Renames, TypeOK
      <3>4. CASE Rebuilds(a)
        <4>1. partial'[k] = wal[k] /\ wal[k] # NoFile /\ final[k] = NoFile
          BY <1>0, <1>10, <3>4 DEF Rebuilds, TypeOK
        <4>2. QED
          BY <1>0, <1>9, <4>1 DEF FileInv, Logged
      <3>5. CASE OpensToAppend(a) \/ OpensToClose(a)
        <4>1. /\ partial'[k] = Opened(partial[k]) /\ final[k] = NoFile
              /\ partial[k] \in Nat \/ (partial[k] = NoFile /\ wal[k] = NoFile)
          BY <1>0, <3>5 DEF Opening, OpensToAppend, OpensToClose, FileInv, Rebuilt, TypeOK
        <4>2. partial[k] = NoFile => partial'[k] = 0 /\ accepted[k] = 0
          BY <1>0, <1>8, <4>1 DEF Opened, FileInv, Logged
        <4>3. QED
          BY <1>8, <1>9, <3>1, <4>1, <4>2 DEF Opened
      <3>6. QED
        BY <3>2, <3>3, <3>4, <3>5
    <2>2. QED
      BY <1>0, <1>2, <1>4, <1>5, <2>1 DEF FileInv, Compressed
  <1>15. HasWal'
    <2>1. wal'[k] # NoFile \/ k \notin torn' \cup garbled'
      <3>1. CASE RepairsWal(a) \/ FindsNoWal(a) \/ Rebuilds(a) \/ Renames(a)
        BY <1>0, <1>5, <3>1 DEF RepairsWal, FindsNoWal, Rebuilds, Renames, FileInv, HasWal
      <3>2. CASE OpensToAppend(a) \/ OpensToClose(a)
        BY <1>5, <1>10, <3>2 DEF Opening, OpensToAppend, OpensToClose
      <3>3. CASE Unlinks(a)
        BY <3>3 DEF Unlinks
      <3>4. QED
        BY <3>1, <3>2, <3>3
    <2>2. QED
      BY <1>0, <1>2, <1>5, <2>1 DEF FileInv, HasWal, TypeOK
  <1>16. Rebuilt'
    <2>1. at'[a].stage \in {"rebuild", "open"} =>
             /\ at'[a].key = k /\ final'[k] = NoFile /\ k \notin torn' \cup garbled'
             /\ \/ at'[a].stage = "rebuild"
                \/ partial'[k] \in Nat
                \/ partial'[k] = NoFile /\ wal'[k] = NoFile
      <3>1. CASE RepairsWal(a)
        BY <1>0, <3>1 DEF RepairsWal, Begin, TypeOK
      <3>2. CASE FindsNoWal(a)
        BY <1>0, <3>2 DEF FindsNoWal, Begin, FileInv, HasWal, TypeOK
      <3>3. CASE Rebuilds(a)
        BY <1>0, <1>10, <3>3 DEF Rebuilds, Begin, TypeOK
      <3>4. CASE OpensToAppend(a) \/ OpensToClose(a)
        BY <1>0, <3>4 DEF OpensToAppend, OpensToClose, Begin, TypeOK
      <3>5. CASE Renames(a) \/ Unlinks(a)
        BY <1>0, <3>5 DEF Renames, Unlinks, Idle, TypeOK
      <3>6. QED
        BY <3>1, <3>2, <3>3, <3>4, <3>5
    <2>2. ASSUME NEW b \in Actor \ {a}, at'[b].stage \in {"rebuild", "open"}
          PROVE  /\ final'[at'[b].key] = NoFile
                 /\ at'[b].key \notin torn' \cup garbled'
                 /\ \/ at'[b].stage = "rebuild"
                    \/ partial'[at'[b].key] \in Nat
                    \/ partial'[at'[b].key] = NoFile /\ wal'[at'[b].key] = NoFile
      <3>1. at'[b] = at[b] /\ at[b].key \in Key \ {k}
        BY <1>0, <1>2, <2>2 DEF Busy, PlaceInv
      <3>2. QED
        BY <1>0, <1>2, <1>5, <2>2, <3>1 DEF FileInv, Rebuilt
    <2>3. QED
      BY <2>1, <2>2 DEF Rebuilt
  <1>17. Writable'
    <2> SUFFICES ASSUME Healthy, NEW j \in Key, j \in live'
                 PROVE  \/ at'[Recorder].stage = "unlink" /\ at'[Recorder].key = j
                        \/ final'[j] = NoFile /\ wal'[j] \in Nat /\ partial'[j] \in Nat
      BY <1>0, <1>5 DEF Writable, Healthy, TypeOK
    <2>1. CASE OpensToAppend(a)
      <3>1. j = k => final'[j] = NoFile /\ wal'[j] \in Nat /\ partial'[j] \in Nat
        BY <1>0, <1>8, <1>10, <2>1 DEF Opening, OpensToAppend, Opened, FileInv, Rebuilt, TypeOK
      <3>2. j # k => final[j] = NoFile /\ wal[j] \in Nat /\ partial[j] \in Nat
        BY <1>0, <1>5, <2>1 DEF Opening, OpensToAppend, FileInv, Writable
      <3>3. QED
        BY <1>2, <3>1, <3>2
    <2>2. CASE RepairsWal(a) \/ FindsNoWal(a) \/ Rebuilds(a) \/ OpensToClose(a)
      <3>1. j # k /\ j \in live
        BY <1>3, <2>2 DEF RepairsWal, FindsNoWal, Rebuilds, Opening, OpensToClose
      <3>2. a = Recorder => at[Recorder].stage # "unlink"
        BY <2>2 DEF RepairsWal, FindsNoWal, Rebuilds, Opening, OpensToClose
      <3>3. QED
        BY <1>0, <1>2, <3>1, <3>2, Actors DEF FileInv, Writable
    <2>3. CASE Renames(a)
      <3>1. j \in live /\ (a # Recorder => j # k)
        BY <1>1, <2>3, Separate, Actors DEF Renames
      <3>2. a = Recorder => at[Recorder].stage = "replace" /\ at'[Recorder].stage = "unlink" /\ at'[Recorder].key = k
        BY <1>0, <2>3 DEF Renames, TypeOK
      <3>3. QED
        BY <1>0, <1>2, <3>1, <3>2, Actors DEF FileInv, Writable
    <2>4. CASE Unlinks(a)
      <3>1. j \in live /\ j # k
        BY <1>1, <2>4, Separate, Actors DEF Unlinks
      <3>2. QED
        BY <1>0, <1>2, <3>1, Actors DEF FileInv, Writable
    <2>5. QED
      BY <2>1, <2>2, <2>3, <2>4
  <1>18. QED
    BY <1>6, <1>7, <1>11, <1>12, <1>13, <1>14, <1>15, <1>16, <1>17 DEF FileInv

(* The quarantine of a recovered day spares what is being worked on.        *)
LEMMA RecoverFiles ==
    ASSUME StorageInv, NEW p \in Process, NEW d \in Days, RecoverDay(p, d)
    PROVE  FileInv'
  <1> USE DEF procs, writers, dayClose, history
  <1>0. TypeOK /\ PlaceInv /\ FileInv
    BY DEF StorageInv
  <1>1. /\ \A k \in Key : IF DayOf(k) = d THEN partial'[k] = NoFile ELSE partial'[k] = partial[k]
        /\ UNCHANGED <<wal, torn, garbled, final, phase, live, detached, at, pending, accepted, short>>
    BY DEF RecoverDay
  <1>2. \A a \in Actor : Busy(a) => partial'[at[a].key] = partial[at[a].key]
    BY <1>0, <1>1, RecoverApart DEF PlaceInv
  <1>3. \A k \in live : partial'[k] = partial[k]
    BY <1>0, <1>1, RecoverApart DEF TypeOK
  <1>4. NoFile \notin Nat
    BY SentinelAssumption
  <1>5. Logged' /\ HasWal' /\ TornOfShort' /\ Renamed'
    BY <1>0, <1>1 DEF FileInv, Logged, HasWal, TornOfShort, Renamed
  <1>6. Sealed'
    BY <1>0, <1>1, <1>4 DEF FileInv, Sealed
  <1>7. Compressed'
    BY <1>0, <1>1, <1>4 DEF FileInv, Compressed
  <1>8. Compressing'
    BY <1>0, <1>1, <1>3, Appending DEF FileInv, Compressing
  <1>9. Writable'
    BY <1>0, <1>1, <1>3 DEF FileInv, Writable, Healthy
  <1>10. Rebuilt'
    BY <1>0, <1>1, <1>2 DEF FileInv, Rebuilt, Busy
  <1>11. QED
    BY <1>5, <1>6, <1>7, <1>8, <1>9, <1>10 DEF FileInv

LEMMA StepFiles == StorageInv /\ StepCase => FileInv'
  <1> SUFFICES ASSUME StorageInv, StepCase PROVE FileInv'
    OBVIOUS
  <1>1. ASSUME NEW a \in Actor, WriterCase(a) PROVE FileInv'
    BY <1>1, AtWork, EndFiles, WriterFiles, QuietSteps, QuietFiles DEF WriterCase
  <1>2. QED
    BY <1>1, EndFiles, AppendFiles, RecoverFiles, QuietSteps, QuietFiles DEF StepCase

LEMMA InvInitially == Init => StorageInv
  <1> SUFFICES ASSUME Init PROVE StorageInv
    OBVIOUS
  <1>0. 0 \in Hour /\ 0 \in Days /\ Day(0) = 0
    BY HoursAssumption DEF Hour, Days, Day
  <1>1. TypeOK
    <2>1. closerOn \in BOOLEAN
      BY Zenon DEF Init
    <2>2. /\ wal \in [Key -> Nat \cup {NoFile}] /\ final \in [Key -> Nat \cup {NoFile}]
          /\ partial \in [Key -> Nat \cup {NoFile, Damaged}]
          /\ manifest \in [Days -> (SUBSET Key) \cup {NoFile}]
          /\ count \in [Key -> Nat] /\ accepted \in [Key -> Nat] /\ short \in [Key -> Nat]
      BY DEF Init
    <2>3. /\ phase \in [Process -> {"down", "recovering"} \cup Up]
          /\ todo \in [Process -> SUBSET Days]
          /\ at \in [Actor -> [stage : Stage, key : Key \cup {NoKey}, count : Nat]]
      BY IdleType DEF Init
    <2>4. QED
      BY <1>0, <2>1, <2>2, <2>3 DEF Init, TypeOK
  <1>2. PhaseInv /\ PlaceInv
    BY Actors DEF Init, PhaseInv, PlaceInv, Alive, Up, Busy, Idle
  <1>3. DayInv /\ ManifestInv
    BY Actors DEF Init, DayInv, ManifestInv, ManifestComplete, Alive, Up, Busy, Idle
  <1>4. HourInv /\ OpenInv
    BY Actors DEF Init, HourInv, OpenInv, Idle
  <1>5. FileInv
    BY Actors, SentinelAssumption
       DEF Init, FileInv, Logged, Sealed, Compressed, Compressing, Writable, HasWal,
           TornOfShort, Rebuilt, Renamed, Idle
  <1>6. QED
    BY <1>1, <1>2, <1>3, <1>4, <1>5 DEF StorageInv

(* The inductive invariant of the files of a symbol, for any number of      *)
(* streams, hours, records, faults and short writes, if the finalizer never *)
(* runs while the recorder recovers (HourlyWriter, StorageManager).         *)
THEOREM StorageInvariant == ASSUME ~BootRace PROVE Spec => []StorageInv
  <1>1. StorageInv /\ [Next]_vars => StorageInv'
    <2>1. StorageInv /\ [Next]_vars => StepCase
      BY StepCases DEF StorageInv
    <2>2. QED
      BY <2>1, StepTypes, StepPhases, StepPlaces, StepDays, StepManifests, StepHours, StepOpens,
         StepFiles DEF StorageInv
  <1>2. QED
    BY <1>1, InvInitially, PTL DEF Spec

(* The files, the writers and the processes keep their types; in particular *)
(* a record is only ever added to a file that is there and undamaged.       *)
THEOREM StorageTypeCorrect == ASSUME ~BootRace PROVE Spec => []TypeOK
  <1>1. StorageInv => TypeOK
    BY DEF StorageInv
  <1>2. QED
    BY <1>1, StorageInvariant, PTL

(* Exactly the records whose WAL line was completed can be read back, at    *)
(* every crash point (HourlyWriter).                                        *)
THEOREM RecordsAreDurable == ASSUME ~BootRace PROVE Spec => []Durable
  <1>1. StorageInv => Durable
    <2> SUFFICES ASSUME StorageInv PROVE Durable
      OBVIOUS
    <2>0. TypeOK /\ FileInv
      BY DEF StorageInv
    <2>1. ASSUME NEW k \in Key
          PROVE  Recoverable(k) \in accepted[k] .. accepted[k] + IF final[k] = NoFile THEN 0 ELSE short[k]
      BY <2>0, SentinelAssumption DEF TypeOK, FileInv, Logged, Sealed, Recoverable
    <2>2. QED
      BY <2>0, <2>1 DEF FileInv, TornOfShort, Rebuilt, Durable
  <1>2. QED
    BY <1>1, StorageInvariant, PTL

(* No file is worked on by two actors, and the writers of the day-close     *)
(* thread are not those of the event loop (detach_day_writers).             *)
THEOREM FilesHaveOneOwner == ASSUME ~BootRace PROVE Spec => []OneOwner
  <1>1. StorageInv => OneOwner
    BY Separate DEF OneOwner
  <1>2. QED
    BY <1>1, StorageInvariant, PTL

(* Between appends a stream has one active file at most                     *)
(* (_finalize_older_writers).                                               *)
THEOREM OneHourIsActive == ASSUME ~BootRace PROVE Spec => []OneActiveHour
  <1>1. StorageInv => OneActiveHour
    BY DEF StorageInv, HourInv, OneActiveHour
  <1>2. QED
    BY <1>1, StorageInvariant, PTL

(* A final manifest lists all finalized files of its day and no WAL of the  *)
(* day is left, then and ever after (finalize_previous_days).               *)
THEOREM ManifestsAreComplete == ASSUME ~BootRace PROVE Spec => []ManifestComplete
  <1>1. StorageInv => ManifestComplete
    BY DEF StorageInv, ManifestInv
  <1>2. QED
    BY <1>1, StorageInvariant, PTL

-----------------------------------------------------------------------------
(* The storage layer implements StreamArchive.                              *)
Readable == [k \in Key |-> Recoverable(k)]
Finalized == {k \in Key : final[k] # NoFile}

LEMMA ReadableLines ==
    ASSUME StorageInv, NEW k \in Key, final[k] = NoFile
    PROVE  Recoverable(k) = accepted[k]
  BY DEF StorageInv, FileInv, Logged, Recoverable

LEMMA ArchiveStep ==
    ASSUME StorageInv, StepCase
    PROVE  [Archive!ArchiveNext]_(Archive!archiveVars)
  <1> USE DEF vars, disk, days, procs, writers, dayClose, history
  <1>0. TypeOK /\ FileInv
    BY DEF StorageInv
  <1>1. ASSUME UNCHANGED short, \A k \in Key : UNCHANGED Recoverable(k) /\ (final'[k] # NoFile <=> final[k] # NoFile)
        PROVE  UNCHANGED Archive!archiveVars
    BY <1>1 DEF Archive!archiveVars
  <1>2. ASSUME UNCHANGED <<wal, final, short>>
        PROVE  UNCHANGED Archive!archiveVars
    BY <1>1, <1>2 DEF Recoverable
  <1>3. CASE WriteWal
    <2>1. pending \in Key /\ final[pending] = NoFile /\ wal[pending] \in Nat /\ wal[pending] # NoFile
      BY <1>3, Appending, SentinelAssumption DEF WriteWal
    <2>2. /\ UNCHANGED <<final, short>> /\ wal'[pending] = wal[pending] + 1 /\ wal'[pending] # NoFile
          /\ \A k \in Key \ {pending} : wal'[k] = wal[k]
      BY <1>0, <1>3, <2>1, SentinelAssumption DEF WriteWal, TypeOK
    <2>3. Readable' = [Readable EXCEPT ![pending] = @ + 1]
      BY <2>1, <2>2 DEF Readable, Recoverable
    <2>4. Archive!Accept(pending)
      BY <2>1, <2>2, <2>3 DEF Archive!Accept, Readable
    <2>5. QED
      BY <2>1, <2>4 DEF Archive!ArchiveNext
  <1>4. CASE WriteShort
    <2>1. pending \in Key /\ final[pending] = NoFile
      BY <1>4, Appending DEF WriteShort
    <2>2. UNCHANGED <<wal, final>> /\ short' = [short EXCEPT ![pending] = @ + 1]
      BY <1>4 DEF WriteShort
    <2>3. Archive!Doubt(pending)
      BY <2>1, <2>2 DEF Archive!Doubt, Recoverable
    <2>4. QED
      BY <2>1, <2>3 DEF Archive!ArchiveNext
  <1>5. ASSUME NEW a \in Actor, WriterCase(a)
        PROVE  [Archive!ArchiveNext]_(Archive!archiveVars)
    <2>0. at[a].key \in Key
      BY <1>5, AtWork
    <2>1. CASE GivesUp(a)
      BY <1>0, <1>2, <2>1, GivenUp
    <2>2. CASE RepairsWal(a) \/ FindsNoWal(a) \/ Rebuilds(a) \/ Close(a)
      BY <1>2, <2>2 DEF RepairsWal, FindsNoWal, Rebuilds, Close
    <2>3. CASE OpensToAppend(a) \/ OpensToClose(a)
      <3>1. \A k \in Key : wal'[k] = wal[k] \/ (wal[k] = NoFile /\ wal'[k] = 0)
        BY <1>0, <2>0, <2>3 DEF Opening, OpensToAppend, OpensToClose, Opened, TypeOK
      <3>2. UNCHANGED <<final, short>>
        BY <2>3 DEF Opening, OpensToAppend, OpensToClose
      <3>3. QED
        BY <1>1, <3>1, <3>2, SentinelAssumption DEF Recoverable
    <2>4. CASE Renames(a)
      <3>0. PICK k \in Key : k = at[a].key
        BY <2>0
      <3> DEFINE n == partial[k] - accepted[k]
      <3>1. /\ partial[k] \in Nat /\ final' = [final EXCEPT ![k] = partial[k]]
            /\ UNCHANGED <<wal, short>>
        BY <1>0, <3>0, <2>4 DEF Renames, TypeOK
      <3>2. final[k] = NoFile
        BY <1>0, <3>0, <3>1 DEF FileInv, Sealed
      <3>3. ~(at[Recorder].stage = "compress" /\ pending = k)
        <4>1. at[a].stage = "replace"
          BY <2>4 DEF Renames
        <4>2. at[Recorder].stage = "compress" => at[Recorder].key = pending
          BY Appending
        <4>3. QED
          BY <3>0, <4>1, <4>2, Separate, Actors DEF Busy
      <3>4. accepted[k] <= partial[k] /\ partial[k] <= accepted[k] + short[k]
        BY <1>0, <3>0, <3>1, <3>3 DEF FileInv, Compressed
      <3>5. accepted[k] \in Nat /\ short[k] \in Nat /\ Recoverable(k) = accepted[k]
        BY <1>0, <3>0, <3>2, ReadableLines DEF TypeOK
      <3>6. n \in 0 .. short[k]
        BY <3>1, <3>4, <3>5
      <3>7. Readable' = [Readable EXCEPT ![k] = @ + n]
        <4>1. final'[k] = partial[k] /\ final'[k] # NoFile /\ \A j \in Key \ {k} : final'[j] = final[j]
          BY <1>0, <3>0, <3>1, SentinelAssumption DEF TypeOK
        <4>2. \A j \in Key \ {k} : Recoverable(j)' = Recoverable(j)
          BY <3>1, <4>1 DEF Recoverable
        <4>3. Recoverable(k)' = Recoverable(k) + n
          BY <3>1, <3>5, <4>1 DEF Recoverable
        <4>4. QED
          BY <4>2, <4>3 DEF Readable
      <3>8. Finalized' = Finalized \cup {k}
        BY <1>0, <3>0, <3>1, SentinelAssumption DEF Finalized, TypeOK
      <3>9. Archive!Seal(k)
        BY <3>0, <3>1, <3>2, <3>6, <3>7, <3>8 DEF Archive!Seal, Readable, Finalized
      <3>10. QED
        BY <3>0, <3>9 DEF Archive!ArchiveNext
    <2>5. CASE Unlinks(a)
      <3>1. final[at[a].key] # NoFile /\ UNCHANGED <<final, short>>
            /\ \A k \in Key \ {at[a].key} : wal'[k] = wal[k]
        BY <1>0, <2>0, <2>5 DEF Unlinks, FileInv, Renamed, TypeOK
      <3>2. QED
        BY <1>1, <3>1 DEF Recoverable
    <2>6. QED
      BY <1>5, <2>1, <2>2, <2>3, <2>4, <2>5 DEF WriterCase
  <1>6. CASE \/ UNCHANGED vars \/ Tick \/ Start \/ RecorderReady \/ ClosePartial \/ Exit
             \/ FinalizerStart \/ FinalizerDone \/ CrashRecorder \/ CrashFinalizer
             \/ OpenNew \/ WriteCompressed \/ DayClose \/ DayClosed
    BY <1>2, <1>6 DEF Tick, Start, RecorderReady, ClosePartial, Exit, FinalizerStart, BeginRecovery,
                      FinalizerDone, CrashRecorder, CrashFinalizer, OpenNew, WriteCompressed, DayClose,
                      DayClosed
  <1>7. CASE \/ \E k \in Key : Append(k) \/ FinalizeOlder(k) \/ FinalizeDetached(k)
             \/ \E p \in Process : (\E d \in Days : RecoverDay(p, d)) \/ (\E k \in Key : RecoverWal(p, k))
    BY <1>2, <1>7 DEF Append, FinalizeOlder, FinalizeDetached, RecoverDay, RecoverWal
  <1>8. QED
    BY <1>3, <1>4, <1>5, <1>6, <1>7 DEF StepCase

(* The storage layer implements the archive: every step of writers, crashes *)
(* and recoveries accepts or doubts one record, seals one file with at most *)
(* its doubtful records, or changes nothing a reader can see.               *)
THEOREM StorageImplementsArchive == ASSUME ~BootRace PROVE Spec => ArchiveRefined
  <1>1. Init => Archive!ArchiveInit
    BY SentinelAssumption DEF Init, Archive!ArchiveInit, Recoverable
  <1>2. StorageInv /\ [Next]_vars => [Archive!ArchiveNext]_(Archive!archiveVars)
    BY StepCases, ArchiveStep DEF StorageInv
  <1>3. QED
    BY <1>1, <1>2, StorageInvariant, PTL DEF Spec, ArchiveRefined, Archive!ArchiveSpec
=============================================================================
