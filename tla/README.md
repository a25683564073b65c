# A TLA+ model of Counterback

Counterback records the public depth, trade and bookTicker streams of an
exchange, verifies a recorded day, and replays it into an order book. This
directory models the parts of it where order, failure or incremental state
decide whether the recorded data can be trusted, checks the models with TLC and
proves theorems about them with TLAPS. Paths below are those of the repository.

## 1. The system

| component | state | operations |
|---|---|---|
| hourly files, `depth_recorder/storage.py` (`HourlyWriter`, `StorageManager`) | per stream and hour a WAL (`.ndjson.wal`) and a compressed partial while active, one `.ndjson.zst` once finalized; a final manifest per day; `self.writers` in memory | open (repair, rebuild), append, finalize, detach a day, close, recover past days |
| recorder loop, `recorder.py` | one bounded queue, the tasks of one asyncio loop, `stop_event` | supervise the websocket, handle a frame, write, close the day, heartbeat, metadata, shut down |
| sequence tracker and snapshot feed, `sequence.py`, `recorder.py` | the last update id and an event of each symbol; the ledger | observe a depth event, ledger a gap or a break, fetch a snapshot with retries, on request and on schedule |
| verifier, `verify.py` | the book being rebuilt, a cursor over the snapshots, trusted intervals; immutable reports and a coverage ledger | check manifests, merge and deduplicate the recorders' streams, rebuild, coverage, report |
| horizon book, `book.py` | levels, two heaps, two counters | load a snapshot, apply an event, read the best level |
| replay engine, `engine/src/replay_engine.cpp` | the same as the verifier's, and the three lists of id intervals it reports | apply an event |
| historical book, `engine/src/historical_book.cpp` | two ordered maps | load, apply |
| matching engine, `engine/src/matching_engine.cpp` | price queues, index of open ids, used ids | submit, cancel |
| export, `counterback_replay/export.py`, `engine/examples/historical_replay.cpp` | an output directory with `evidence.json` last; the reference replay | export a day, replay it, compare the checkpoints |
| offload and prune, `deploy/` | `.uploaded` markers | finalize closed days, copy, check, delete after 48 h |

**How they interact.** The websocket task stamps a frame and puts it into the
queue; the writer task appends it to the storage. At midnight the day-close task
joins the queue, takes the closed day's writers out of `self.writers` and hands
them to a thread, while the writer task goes on with today's. At startup the
recorder first recovers all past days; the nightly offload runs the same
recovery from another process (`depth-recorder finalize-closed-days`), then
uploads the days that have a final manifest. The verifier and the exporter read finalized
files only. The Python verifier and the C++ engine replay the same events and must
report the same. An export takes a passing report, replays the day with its own reference, and
writes `evidence.json` if that agrees with the report; the C++ program replays the exported events and
its checkpoints are compared with the reference's. The offload and the pruning know of each other
only by the marker `manifest-*.json.uploaded`.

**What is hard.**

- *Crashes and failing steps.* A WAL line, its compressed copy, the rename and
  the unlink are separate steps. Any of them may be the last, or may raise.
- *Actors on one set of files.* The event loop, the day-close thread and the
  offline finalizer have no lock; only the order of their steps keeps them apart.
- *Order on the loop.* "Drain, then detach without yielding" relies on when a
  blocked `put` runs relative to the day-close task.
- *Shutdown.* A writer that died, a full queue and a task that waits in
  `join()` must not wait for each other.
- *Streams that overlap, repeat and have holes*, on unsigned 64-bit ids; a
  snapshot cursor that never goes back; lists that only look at their last element.
- *A snapshot event that is set while a fetch is going on*, a ledger write that raises
  between the tracker and the event, a tracker that forgets at a restart.
- *Evidence that must not be believed too early*: a report, a row, a marker or a
  bundle written step by step, by programs that may run twice or be killed.
- *Deleting the original*: two nightly jobs, the recorder, and a remote that may
  have taken a damaged copy.
- *Incremental state*: trust counters, lazily cleaned heaps, an index into queues.

`PROJECT.json` lists each hazard at its line, with the properties that would
catch it.

## 2. The modules

| module | stands for | composed with |
|---|---|---|
| `StreamArchive` | abstract: what a reader may rely on of one hourly file | refined by `Storage` |
| `Storage` | `storage.py`, the processes that use it, crashes | `MCStorage`, `StorageProofs` |
| `Recorder` | the asyncio loop of `recorder.py` | `RecorderProofs` |
| `Feed` | supervisor, `SequenceTracker`, ledger, snapshot worker and schedule of `recorder.py` | `FeedProofs` |
| `Verification` | intervals, coverage, merge and deduplication of `verify.py` | `MCVerification`, `VerifierProofs` |
| `Reconstruct` | abstract: `verify.reconstruct` | refined by `Replay` |
| `ReferenceReplay` | abstract: `ReferenceReplay` of `export.py` | refined by `Replay` |
| `Replay` | `ReplayEngine::apply` and `interval()` | `MCReplay`, `ReplayProofs` |
| `HistoricalBook` | abstract: the C++ book with its ordered maps | refined by `HorizonBook` |
| `HorizonBook` | `book.py` | `VerifierProofs` |
| `PriceTime` | abstract: the `ReferenceBook` of `matching_engine_test.cpp` | refined by `MatchingEngine` |
| `MatchingEngine` | `matching_engine.cpp` | `MCMatching`, `MatchingProofs` |
| `Offload` | `offload.sh`, `prune_verified.py`, the recorder's recovery | `MCOffload`, `OffloadProofs` |
| `Evidence` | what `verify_day`, `export_recording`, the replay program and `compare` leave behind | `MCEvidence`, `EvidenceProofs` |
| `StorageProofs`, `RecorderProofs`, `FeedProofs`, `ReplayProofs`, `VerifierProofs`, `MatchingProofs`, `OffloadProofs`, `EvidenceProofs` | theorems | each extends the module it is named for, `VerifierProofs` both `HorizonBook` and `Verification` |

In each module a definition whose comment begins with *Slip* is a plausible mistake in
the definition that follows it. No action uses it: put in the place of that
definition, it must make TLC find one of the properties violated, which shows that
the property can be broken.

**Storage.** A file is a pair of stream and hour. The lines of a file are
counted, since the code only compares counts: `wal`, `partial` and `final` hold
a number or `NoFile`; `torn` are the WALs that end in an incomplete line; a
compressed file whose compressor was never closed is `Damaged`. Each actor
(recorder, day-close thread, finalizer) has a stage, the next step of
`HourlyWriter` it is to take: `repair`, `rebuild`, `open`, `write`, `compress`,
`close`, `replace`, `unlink`. A step of one actor may fall between any two of
another, and a crash or an exception (`Raises`) before any of them. `accepted` is a
history variable: the records whose WAL line is complete.
`WriteShort` is a WAL write of which only a part reaches a nearly full disk: `append` ignores the
number of bytes written and goes on, so the record is in the compressed file (and in `short`) while the WAL
ends in a fragment. The next record makes one line with it, the file is `garbled`, and
`_scan_wal` refuses it from then on.
`Append` has the guard `rxFloor`: records come in the order of their time, and none
of a day that has been detached. That is what the queue guarantees, and
`DrainedAtDetach` of `Recorder` checks it. A day-close thread that raises leaves a recorder whose writer still drains the queue
(`draining`), a writer that raises one whose day-close loop may still go on (`failed`), both leave neither (`halted`); each ends in `ClosePartial`.
`Tick` has one too: while a recorder lives the clock does not reach a day whose eve is still to be closed, so
the day-close loop is never a whole day behind (section 5).

**Recorder.** `ready` is asyncio's queue of handles: tasks run one at a time, in
the order they became able to run. This order is modelled because
`_finalize_closed_day_streams` rests on it: a `put` that was blocked across midnight
is woken by `get()`, so ahead of the day-close task, which the last `task_done()`
wakes; and the sleep of the day-close task costs one more turn of the loop (the
timer's callback) than a put needs. Closing handshake, backoff and connecting are
one wait (`away`). `Overflow` is a frame met by a full queue: its record waits in the put, or the
`writer_backpressure` entry before it raises and the record, stamped already, is given up (`dropped`).
`MaxFailures` counts the writes that raise: of a record, of a file of the closed day, of a ledger entry.

**Feed.** One symbol: `link` is where the websocket supervisor is, `fetch` where the
snapshot worker is, `event` the `asyncio.Event` between them. Every ledger write may raise
(`MaxFailures`): inside the `try` it drops the connection (`Raised`), outside it ends the run
(`SupervisorFails`). `recorded`, `ledger` and `announced` are what the files of the run say; `owed`
remembers that a connection or a hole waits for a fetch, and `late` that it came after the current
fetch began. A run may `End` at any step, which forgets the tracker. The queue is reduced to
a put that may have to wait (`Blocks`, `PutReturns`); `Recorder` has the queue itself.

**Verification.** The files are chosen in `VerifyInit`: any events in any order, so unsorted files are
among them. `MeasureCoverage` computes the report as the code's loops do: `Merged` is the loop of `merge_intervals` as a recursive
function of the number of intervals read, `Covered` and `Walked` are those of `coverage_summary`; the properties say the same with sets of ids. Then the heap merge runs event by event:
`DropDuplicate`, `RaiseConflict` or `Yield`. Receive times are left out: they order
only events of equal ids, and in the model any of these may be popped first.

**Replay.** Ids are `0 .. MaxId` with wrap-around. `Receive` is the part of
`apply` every event that is no duplicate goes through, and each way it can end is an
operator of its own (`BadSnapshot`, `Unanchored`, `Stale`, `GapFound`, `ApplyFails`,
`Applied`). What an event does to the levels is left open: `Applied` and `ApplyFails`
are both possible whenever the code gets there. The book modules model the levels.
`Reconstruct` and `ReferenceReplay` are written from the two Python controllers, each in the form of its
own source: the first with what `reconstruct` reports, the second with the status of each event and the
lists of gaps and invalid intervals that the checkpoints compare. `Replay` refines both. What an event does to the levels is one
member of `Updates`, the decimal text the recorder wrote, and `Units` gives the integers an export writes for it; several texts may have the
same. The reference looks for conflicting duplicates in the text (`export.py:141`), the engine in the integers
(`replay_engine.cpp:89`): a repeated range with `100.0` for `100` ends the reference and is a duplicate to the engine
(`tests/test_historical_replay.py:187`). `ReferenceAgrees` says that this is the only event one of them refuses and the other
does not (`Respelt`), and that the engine then only takes the event for a duplicate (`TakesRespelt`).

**Offload.** Day directories of one symbol: which files are on the disk and how old they are, the age
of the manifest, the markers; on the remote, which files have arrived `whole` or `damaged`. Days are
the unit of age. `stage` is the line `offload.sh` is at; a failure at any of them ends the run (`set -e`).
The pruning takes its cutoff once (`candidates`). `Midnight` may leave some files to a later
recovery, which the recorder or the offload performs. That a manifest lists all files of its day is
taken from `ManifestComplete` of `Storage`. rclone is external.

**Evidence.** Verifications share one output directory, exports another. A step of a program is one
effect on a file: a report is created, written, and gets its row; events and oracle grow by a record; `evidence.json`
is created, then written. Every program may raise before any step; while the two buffered files are
open, a kill cuts each at its own end (`Killed`). A `Content` stands for what parity compares of
a recording: a verification and an export that see other inputs have other contents. A replay may come
as soon as the files are closed, while the export still compares and marks; of files that are open it could read a
beginning without `END`, which a replay of a killed export reads too.

**HorizonBook and HistoricalBook** take a snapshot or an event level by level,
since an invalid level may raise in the middle. A heap is the set of its prices: a
price pushed twice is popped twice by the same reader, so the set decides every answer.

**MatchingEngine.** A `submit` is `Submit`, a `Match` for every trade and
`Finish`, so that the invariants also hold at every turn of the loop.

## 3. What is checked

Every property of a run that passes has a mutant that breaks it. States are the distinct ones TLC finds.

| run | states | what it shows |
|---|---|---|
| `storage_files` | 632 008 | `Durable`: at every step exactly the records whose WAL line is complete can be read back, a finalized file may also hold those of short writes, and no file is rebuilt from a spoilt WAL. `OneOwner`, `OneActiveHour`, `ManifestComplete`; `ArchiveRefined`: `Storage` implements `StreamArchive` |
| `storage_live` | 23 253 | `PastDaysFinalized`, `RecoveryCompletes`, under the exclusions below |
| `storage_crash` | violation | finding 1 |
| `storage_race` | violation | finding 2 |
| `recorder_loop` | 100 684 | `DrainedAtDetach`, `WrittenInOrder` (only a record whose ledger entry raised at a full queue is passed over), `CleanExit` (a stop without failures loses at most the frame in a blocked put), `StopCompletes`, `DaysFinalized` |
| `replay` | 264 347 | the book is at the head of the stream, the cursor never behind it, no id of a gap is trusted, the lists are sorted and apart and cover the whole stream, a bridging snapshot is used, `VerifierAgrees`: `Replay` implements `Reconstruct`; `ReferenceAgrees`: it implements `ReferenceReplay`, but for a duplicate whose numbers are spelt otherwise |
| `matching` | 277 951 | index and queues agree and no filled order stays in them, the book is never crossed, `PriceTimePriority`: `MatchingEngine` implements `PriceTime` |
| `horizon_book` | 278 869 | counters and heaps agree with the levels, `AsHistoricalBook`: `HorizonBook` implements `HistoricalBook` |
| `feed` | 368 294 | `HolesLedgered`: the `sequence_gap` entries of a run are the holes of its recorded frames, but for a write that raised; `BreaksLedgered`: no connection ends without an entry; `AsksAnswered`: every connection and hole is followed by a fetch that is stored or given up |
| `verification` | 637 202 | `CoverageHolds`: the reported ids are those the events carry (of unsorted files: never more); `ConflictsFound`: of sorted files a report is written exactly when no two equal ranges differ; `GapsMatchCoverage`: sorted or not, the gaps counted are the missing intervals, and no event is dropped but duplicates |
| `offload` | 151 441 | `NothingLost`: every file of a finished day is on the disk or intact on the remote; `EveryDayFreed`: every closed day is in the end uploaded and pruned to its ledger |
| `evidence` | 3 823 799 | `LedgerMatchesReports`: a row of the coverage ledger speaks for the report on disk, one per symbol; `EvidenceHolds`: where `evidence.json` exists or a comparison has succeeded, the bundle is whole, and with `evidence.json` it agrees with the passing report |

**Findings.**

1. *A crash between `os.replace` and `wal.unlink`* (`storage.py:196-197`). The WAL
   stays beside the finalized file. `HourlyWriter.__init__` refuses a finalized file
   before it looks at the WAL (`storage.py:65-66`), so `finalize_previous_days`
   raises at every later start, of the recorder and of the finalizer, until the WAL
   is deleted by hand. `docs/depth-recorder.md:66` and `docs/runbook.md:144` promise
   an automatic recovery. No record is lost: `Durable` holds.
2. *The finalizer and a starting recorder on the same WAL.* Both list it; one opens
   it for appending (`storage.py:82`) after the other has unlinked it, which creates
   an empty WAL beside the finalized file. The directory is then in the state of
   finding 1, without any crash.

`storage_live` therefore leaves out faults between the rename and the unlink
(`StagesBeforeUnlink`) and the overlap of the two recoveries (`BootRace = FALSE`). It also leaves out short
writes (`MaxShort = 0`): a spoilt line is not the last one of its WAL, so the repair does not see it,
`parse_envelope` raises (`storage.py:121`), and once the day has passed no start of the recorder gets further. With
`MaxShort = 1` TLC shows that for a short write, one more record and an orderly stop. While the process lives nothing is
lost, since the finalized file comes from the compressor, not from the WAL: `Durable` holds in `storage_files`.

**Bounds, and why they are enough.**

- `storage_files`: two streams (interchangeable, hence the symmetry), three hours of
  two-hour days: an hour change inside a day, one across midnight, and a past day.
  Two records, one to be kept while the other is written (three records were explored
  once, without short writes, 1 025 622 states). Two faults: a crash, and another in the recovery from it.
  One WAL write that is cut short.
- `storage_live`: one stream, since liveness concerns each file alone; four hours, so
  that a day passes before and after a recovery; one fault.
- `recorder_loop`: a queue of two, five frames (one in the socket's buffer behind a
  full queue and a blocked put), two midnights, two failures: one that drops a record or a connection,
  one that ends a task. With a bounded number of frames `DaysFinalized` shows that failures and the loop's order do
  not keep a day open; a queue that is never empty again is not exercised. The loop may stop: deadlock is not checked.
- `replay`: words of five ids let events be adjacent, overlapping, apart by one and
  by more, at zero and at the largest id; four events reach gap, re-anchor, error and late
  batch in any order; two snapshots, sorted or not; two numbers, each in two spellings. All events have one receive time,
  so only the order by `U` and `u` is checked. After `MaxEvents` the replay is over:
  deadlock is not checked.
- `matching`: four orders, two prices and two quantities: two makers in a queue
  and two levels, partial fills on either side (three prices were explored once,
  1 017 943 states). When every id is used and nothing is open the system
  stops: deadlock is not checked.
- `feed`: ids 1 to 3 let frames be adjacent, overlapping, stale, reversed or beyond a hole; three
  frames and one break put a hole before, across and after a reconnect; two attempts are a retry and
  a last one (six in the code: the others repeat the first); one ledger write raises. Ends and restarts are not bounded.
- `verification`: two recorders with up to two events each on four ids: equal, nested, overlapping,
  adjacent and separate ranges, conflicts inside a file and between two. The run ends with the report.
- `offload`: two days, so that one is copied while the other is closed or pruned; two streams and the
  ledger; ages 0, 1 and old enough; one fault (two were explored once, 536 148 states).
- `evidence`: two of each program, two symbols, two events and two checkpoint intervals, so that a
  cut bundle can have the same number of rows as a whole one. Programs end: deadlock is not checked.
- `horizon_book`: three prices per side (outside, at and inside the boundary), two
  quantities, three ids.

**Fairness.**

- `Storage`: an actor in the middle of its work goes on (weak). systemd restarts the
  service (`Restart=always`) and the offload timer fires every night. `Start` has
  strong fairness because it is disabled whenever the finalizer is at work, and a
  restart every few seconds meets a moment when a nightly job is not. `DayCloseStep`
  has strong fairness: it needs a moment when the queue is drained, which a writer faster than the
  stream over a night provides. That is an assumption about load, not a fact of the
  code; `Recorder` has the queue itself. Time, records and stops are not fair.
- `Recorder`: the loop runs ready handles, a due timer is scheduled, the thread ends in
  one way or the other. No fairness for the clock, the exchange or a signal.
- `Feed`: the service is restarted; a step of the snapshot worker ends (the session has a timeout of 30 s, the waits
  between attempts are bounded), the backoff passes, the writer makes room (`Recorder`). `Connects` has strong
  fairness: an exchange that is tried again and again accepts at last. No fairness for frames, breaks, the schedule or failures.
- `Offload`: time passes, both timers fire every night, and a step of a job that can be taken is taken. Failures are bounded by
  `MaxFaults`: a network that never works again frees nothing, and neither does a `finalize-closed-days` that
  fails every night, the state finding 1 leads to.

## 4. What is proved

Eight modules hold theorems, one for each component with state, the two halves of the verifier in one. None of them
bounds its constants, and every invariant, action property and refinement that a passing run checks is among them. In each the invariant with which the run's properties become inductive is a conjunction of named parts.

**`StorageProofs`**, for any number of streams, hours, records, faults and short writes, as long as `~BootRace`:

| theorem | states |
|---|---|
| `StorageInvariant` | `Spec => []StorageInv` |
| `StorageTypeCorrect` | `TypeOK` |
| `RecordsAreDurable` | `Durable` |
| `FilesHaveOneOwner` | `OneOwner` |
| `OneHourIsActive` | `OneActiveHour` |
| `ManifestsAreComplete` | `ManifestComplete` |
| `StorageImplementsArchive` | the refinement `ArchiveRefined` |

*The argument.* `OneOwner` is about three actors and needs to know where each may be: who runs in which phase
(`PhaseInv`), which file each stage can be at (`PlaceInv`), and above all that days keep the actors apart (`DayInv`):
what a recovery has still to do lies before the recorder's `closing` day, detached files are of that day, live ones
not before it. A day with a manifest is past for all of them (`ManifestInv`). `HourInv` says that the active
file of a stream is not younger than the records to come, `OpenInv` whose compressors are open. `Durable` is then a matter of
counts: `FileInv` relates WAL, compressed and finalized file to the accepted records at each stage (`Logged`, `Sealed`,
`Compressed`, `Compressing`) and says which of them a writer finds (`Writable`, `Rebuilt`, `Renamed`). The hypothesis
`~BootRace` is needed for the invariant: with the race of finding 2 TLC finds `OneOwner` and `ManifestComplete` violated (not
`Durable`, which on the small instance survives it). That the day-close loop is
never a whole day behind came out of the proof: without the guard of `Tick` a recovery could meet the live files of
a day that was skipped, and TLC then finds `ManifestComplete` violated with four days of one hour, more days than the run
has.

**`RecorderProofs`**, for any size of the queue and any number of frames, days and failures:

| theorem | states |
|---|---|
| `RecorderInvariant` | `Spec => []RecorderInv` |
| `RecorderTypeCorrect` | `TypeOK` |
| `RecordsAreDrained` | `DrainedAtDetach` |
| `RecordsAreInOrder` | `WrittenInOrder` |
| `ExitsAreClean` | `CleanExit` |

*The argument.* `DrainedAtDetach` holds because of the order of `ready`, so the invariant speaks of that order.
`OrderInv`: a put of the old day that is blocked when midnight comes stands, as supervisor or by way of
the writer that will wake it, before the timer; then the supervisor stands before the day-close task; and when that task joins
the queue no old record is left to be put. The lemma `WakeFacts` and the definition `Moved` say once what waking and taking handles
does to the order. `WakeInv` (who can go on has been woken), `StreamInv` (while the writer lives
every record stamped is written, queued, blocked, dropped or lost, and those on their way are in order behind the written ones), `MainInv` and `CloseInv` (how far `run()` and the day close are) carry it.

**`ReplayProofs`**, for every `MaxId`, snapshot list, set of updates and length of the stream:

| theorem | states |
|---|---|
| `TypeCorrect` | `Spec => []TypeOK` |
| `HeadInvariant` | the inductive invariant on last event, book and cursor |
| `BookAlwaysAtHead` | `BookAtStreamHead` |
| `CursorAlwaysAhead` | `CursorAhead` |
| `ListInvariant` | the inductive invariant on the lists |
| `GapsAreNeverTrusted` | `GapsNeverTrusted` |
| `GapsAreRecorded` | the action property `GapIsRecorded` |
| `AlwaysSeparated` | `IntervalsSeparated` |
| `StreamAlwaysCovered` | `StreamCovered` |
| `BridgeIsAlwaysUsed` | the action property `BridgeIsUsed` |
| `EngineIsReference` | the refinement `ReferenceAgrees`, with which events are refused |
| `EngineIsVerifier` | the refinement `VerifierAgrees` |

The assumptions are those `Replay` states: `MaxId` is a natural number, times are
natural numbers, the two bounds are natural numbers, `NoId` and `NoEvent` are no id
and no event. With `MaxEvents` arbitrary the bound on the stream is none.

*The argument.* `BookAtStreamHead` is not inductive: an event below the head could
bring in an old snapshot. It cannot, because the cursor is never behind the head
(`CursorAhead`), so a snapshot that bridges an event makes the event's end the new
head. That in turn needs the last event to be counted (`PreviousCounted`). These three
are `HeadInv`. For the lists, `interval()` looks only at the last element, so
`BeginBy` (every listed interval begins no later than the last event), `GapsBehind` and
`TrustedWithin` say where intervals may begin and end; with them a gap's ids, all beyond the head,
meet no trusted id, and every later trusted id lies at or after the event that followed the
gap. `BeyondIsGap` shows first that the code's comparison-and-subtraction is the gap
test of unbounded integers; from there on no proof mentions wrap-around except where a
successor is taken (`Plus1OfSmaller`, `GapBounds`).

`StreamCovered` becomes inductive when the first id covered is bound to lie at or before the last event (`Covered`): an
event that overlaps the stream or touches it then prolongs one interval. `BridgeIsUsed` is about a snapshot
the cursor passed for an earlier event: while there is neither a book nor an error, every passed snapshot ends before the last
event begins (`PassedUnused`), since a snapshot that bridged an event gave a book, and only a gap beyond it takes that away. For the
refinements, `SameBridge` and `VerifierBridge` show that the C++ cursor and the two Python loops choose the same snapshot,
`SameWith` that the list operations are one, and each of the six outcomes is then matched with a status of the
reference and a branch of the verifier. `RefusalsAgree` compares the two conditions for refusing an event, for any `Units`.

**`VerifierProofs`**, of the book for every range of prices, set of quantities and sequence of snapshots and updates:

| theorem | states |
|---|---|
| `HorizonInvariant` | `Spec => []HorizonInv` |
| `CountsAreTrue` | `TrustCounted` |
| `BooksAgree` | the refinement `AsHistoricalBook` |

*The argument.* A heap may hold prices that are gone, never lack one that is held (`HeldInv`); so the outermost price
left after the lazy pops is the best level of the ordered map. `TrustCounted` turns every test of a counter into a test of the
levels inside the horizon. With both, each step of `HorizonBook` is one of `HistoricalBook` or a stutter.

And of `Verification`, for every number of recorders, of ids and of events, whatever the files hold and in whatever order:

| theorem | states |
|---|---|
| `VerifyInvariant` | `VerifySpec => []VerifyInv` |
| `CoverageIsExact` | `CoverageHolds` |
| `ConflictsAreFound` | `ConflictsFound` |
| `GapsAreMissing` | `GapsMatchCoverage` |

`VerificationAssumption` is all they use: the three bounds are natural numbers and `None` is neither an event nor an id.

*The operators.* What `merge_intervals` and `coverage_summary` return is proved for lists of every length. The induction
theorems of the library take an operator, which the provers cannot instantiate; `Counting` therefore takes the *set* of the
numbers a statement holds of (a least number outside it would be a contradiction, `LeastNatural`), and `Recursion` derives
from it that a recursive function with a given step exists. On these rest `MergedLists` (the list is apart, holds no id its
input lacks, and of an input whose intervals begin in ascending order holds them all), `AscendingLists` (`sorted()` of a set is such
an input), `CoveredCounts` (the sum is the number of ids, because the list is apart) and `MissingIds` (the missing intervals
are apart and hold the rest of the denominator). `SummaryIds` puts them together.

*The argument.* `deduplicate_depth` compares neighbours only, so `ConflictsFound` says nothing of what is still to
come. `MergeInv` adds that, of sorted files, everything yielded is at or before `previous` and everything left at or after
it: an event with the ids of any earlier one then has those of `previous`, and `DistinctInv` follows. It needs the files
sorted: of others TLC shows a report that is written over a conflict.

`GapsMatchCoverage` does not, which came out of the proof. What `_source_intervals` keeps of an unsorted file are
the ids of each event beyond the ends of all events before it (`KeptIds`, `SourceIds`). `PoppedIds` are those of what the merge has
popped; `GapInv` says that the gaps counted are the ends of the runs of `PoppedIds` (`Ends`) other than the highest, and `Filled`, that
whatever the event offered by a source will add below the highest id is there already: when the highest id was popped, every source
offered an event that begins no earlier (`FilledStep`). So an event either fills no hole or leaves one (`GapsStep`), and
when all is read each end but the highest is followed by exactly one missing interval (`MissingFollowEnds`). Where an unsorted
file makes the coverage miss ids, the rebuilding counts the same gaps: the two halves of the report cannot contradict each other,
and neither can be used to catch what the other missed.

**`MatchingProofs`**, for every set of ids, range of prices and quantities and sequence of calls:

| theorem | states |
|---|---|
| `MatchInvariant` | `Spec => []MatchInv` |
| `BookIsUncrossed` | `NeverCrossed` |
| `IndexIsExact` | `IndexAgrees` |
| `MatchingIsByPriceAndTime` | the refinement `PriceTimePriority` |

*The argument.* The abstract book knows orders by their number, the engine knows queues. `EntriesOK` and `OpenOK` say that
each entry is one accepted limit order with exactly what it has not traded, at the place the index names, and the reverse;
`QueuesOK` that a queue is in the order of acceptance; `CallOK` that the order being matched is the last one accepted and rests
nowhere. So the front of the best level is the resting order of best price and least number, which is what `TradeWith` of
`PriceTime` takes. `Submit` maps to `Take`, `Match` to `TradeWith`, `Finish` to `Settle` and `Cancel` to `Withdraw`.

**`OffloadProofs`**, for every number of days, set of files, minimum age and number of faults:

| theorem | states |
|---|---|
| `UploadInvariant` | the inductive invariant |
| `NothingIsLost` | `NothingLost` |

*The argument.* `NothingLost` alone says nothing of what a job is about to do. `OffloadInv` adds: a listed day
without a marker is still complete on the disk (`Kept`), one with a marker is complete and intact on the remote
(`Sent`), and the day the loop is at has its manifest and no marker, and between check and `touch` is
already whole on the remote (`AtWork`). The last is stable because nothing writes to the remote but the
loop, and nothing takes a file from a day without a marker. `Past` keeps midnight from touching a
day that has a manifest. The proof uses no fairness and holds with any number of failures.

**`FeedProofs`**, for every number of ids, frames, attempts, breaks and failed writes:

| theorem | states |
|---|---|
| `FeedTypeCorrect` | `Spec => []TypeOK` |
| `BreaksAreLedgered` | `BreaksLedgered` |
| `HolesAreLedgered` | `HolesLedgered` |

*The argument.* `HolesLedgered` speaks of the whole stream, the tracker of one id. `Tracked` joins them: that id is
the greatest among the valid frames recorded (`MaxOf` turns this into the `Max` of the property). One frame
more (`OneFrameMore`) then adds the hole before it, if the tracker sees a gap, and leaves the holes before as they
are; `Counted` bounds the entries that could not be written by the writes that raised. `BreaksLedgered` needs
`ReasonKnown`: a put that waits goes to the backoff on an entry that was written before the wait. `TypeOK` needs
`AttemptLeft`: the worker pauses only before an attempt it still has.

**`EvidenceProofs`**, for every set of symbols, verifications, exports, replays and contents:

| theorem | states |
|---|---|
| `ReportInvariant` | the inductive invariant |
| `LedgerAlwaysMatches` | `LedgerMatchesReports` |
| `ExportInvariant` | the inductive invariant on exports and replays |
| `EvidenceIsSound` | `EvidenceHolds` |

*The argument.* A verification between `O_EXCL` creation and its row owns the report: no other one is
there for the same symbol, no row for it exists, and the file holds what the row will say (`Owned`).
`NewName` is what gives ownership, once, since reports are never removed. `Empty` and `None` are
assumed to be no report. `EvidenceInv` adds that one export at most made the directory and alone writes there
(`DirectoryInv`), that the passing report it accepted stays as it is (`AcceptedInv`, which rests on ownership), how far the files
are at each of its steps (`FilesInv`), and that a replay ends in a summary only if the export wrote its end
(`ReplayInv`): that, and not the count of rows, is what keeps a cut bundle from comparing equal.

*Only model-checked*: the six liveness properties (`PastDaysFinalized`, `RecoveryCompletes`, `StopCompletes`,
`DaysFinalized`, `AsksAnswered`, `EveryDayFreed`). They rest on fairness, and so on `ENABLED`, which the prover does not reach.

## 5. What is not modelled

- *Partial manifests, HTTP payloads, and ledger entries other than those of gaps and connections*: written, never read back to decide anything.
- *Loss of power*: a crash kills the process, not the page cache; what `write` returned
  from is on disk. The code calls `fsync` on close only.
- A *clock* that steps back or is ahead of the loop's timer: listed as a hazard.
- *More than one symbol*: symbols share the loop and the queue, but no file.
- *Day close against the finalizer*: the timer fires half an hour after midnight; the
  model lets it start only when the day's closing is over.
- *A day close that takes a day*: `_day_close_loop` sleeps until the next midnight whenever it is done with one, so if
  joining the queue and finalizing took until the midnight after, that day's writers would stay open and the
  finalizer could meet them. `Tick` excludes it: the clock reaches no day whose eve is still to be closed. A drained
  queue and one file per stream are a matter of seconds.
- *`verify_manifest`, identities, metadata and the decimal grid of an export, thresholds of a status, hours of the wall clock*: pure functions of the files. In `Evidence`
  they are the choice of a status, a content or a failure.
- *Unsorted recordings*: the exporter refuses one (`_ordered_depth`), the verifier does not look. `CoverageHolds` says what
  is then still true, and `GapsMatchCoverage` holds all the same; `ConflictsFound` is about sorted files, which a recorder writes
  unless the exchange sends ids out of order. A record with `U > u` makes the verifier raise or is absorbed into
  an interval; no file of `Verification` holds one.
- *Decimals that are off the grid or out of range*: `instrument.levels` converts an event before the reference sees it, and a number
  it cannot convert ends the export. Here every text has its integers.
- *rclone*: copy sends what differs, `check --download` compares contents; its filters, retries and the tool itself are external.
- *Heartbeat, metadata, logging, configuration, parsing and formatting of numbers,
  command lines, the demo programs*: no state that the properties are about.
- *Ticker checks* of the verifier change nothing but their own counts.
- *Metadata task, preflight*: the same fetch as a snapshot's, at other times, with no event to lose.

## 6. Plan

What is left, in this order:

1. **Clock skew in `Storage`**: a loop's timer ahead of the clock, so that the day is closed before its last record.
2. **Ticker checks** in `Reconstruct`, which need prices there.
3. **`verify_manifest`** on the directories of `Offload`: a day that is verified after its pruning is refused.
