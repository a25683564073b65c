------------------------------ MODULE Evidence ------------------------------
(***************************************************************************)
(* What verification and export leave behind as evidence of a recorded     *)
(* day: the immutable reports and the coverage ledger of verify_day, the   *)
(* bundle of export_recording with its completion marker evidence.json,    *)
(* and the replay of that bundle, compared with its oracle.  Verifications *)
(* share an output directory, exports of one symbol another.  Each may     *)
(* raise or be killed at any step; nothing is ever cleaned up.             *)
(*                                                                         *)
(* What a recording holds is a Content: a verification or an export that   *)
(* finds other inputs computes from another one.                           *)
(***************************************************************************)
EXTENDS Integers, SequencesExt

CONSTANTS
    Symbols,
    Exported,       \* the symbol that is exported
    Verifications, Exports,     \* bound: the runs of the two programs
    Contents,
    NumEvents,      \* bound: depth events of the day
    Intervals,      \* values of checkpoint_every
    Summary,        \* the last row of an oracle; the others are event numbers
    Empty,          \* a report or marker that is created but not written
    None

Status == {"pass", "review"}
Report == [by : Verifications, content : Contents, status : Status]

ASSUME EvidenceAssumption ==
    /\ Exported \in Symbols /\ NumEvents \in Nat /\ Intervals \subseteq Nat \ {0}
    /\ Summary \notin Nat /\ Empty # None /\ {Empty, None} \cap Report = {}
    /\ None \notin Exports

VARIABLES
    reports,        \* verification-*.json of each symbol, Empty or None
    ledger,         \* the rows of coverage-ledger.ndjson
    verify,         \* each verification: its step, symbols to do, its report
    export,         \* each export: its step, interval, content and report
    directory,      \* the export that has made the output directory, or None
    events,         \* events.l2: its D records, and whether END follows them
    oracle,         \* expected.ndjson
    evidence,       \* evidence.json
    actual,         \* the checkpoints of the replay program, or None
    equal           \* has a comparison of the two succeeded?

bundle == <<directory, events, oracle, evidence>>
replay == <<actual, equal>>
vars   == <<reports, ledger, verify, export, bundle, replay>>

Init ==
    /\ reports = [s \in Symbols |-> None] /\ ledger = <<>>
    /\ verify \in [Verifications -> {[at |-> "idle", todo |-> todo, symbol |-> None,
                                      report |-> None] : todo \in SUBSET Symbols \ {{}}}]
    /\ export = [e \in Exports |-> [at |-> "idle", every |-> None, content |-> None,
                                    report |-> None]]
    /\ directory = None
    /\ events = [count |-> 0, ended |-> FALSE] /\ oracle = <<>>
    /\ evidence = None /\ actual = None /\ equal = FALSE

-----------------------------------------------------------------------------
(* verify_day.  The step of a run is the next thing it does.                *)
Verifies(v, from, to) == /\ verify[v].at = from
                         /\ verify' = [verify EXCEPT ![v].at = to]

(* The checks of the manifests have passed, the book is rebuilt.            *)
Reconstruct(v) ==
    /\ verify[v].at = "idle"
    /\ \E s \in verify[v].todo, c \in Contents, status \in Status :
           verify' = [verify EXCEPT ![v] =
               [at |-> "create", todo |-> @.todo \ {s}, symbol |-> s,
                report |-> [by |-> v, content |-> c, status |-> status]]]
    /\ UNCHANGED <<reports, ledger, export, bundle, replay>>

(* Slip: without O_EXCL.                                                    *)
AnyName(s) == TRUE

NewName(s) == reports[s] = None

CreateReport(v) ==
    /\ Verifies(v, "create", "write") /\ NewName(verify[v].symbol)
    /\ reports' = [reports EXCEPT ![verify[v].symbol] = Empty]
    /\ UNCHANGED <<ledger, export, bundle, replay>>

WriteReport(v) ==
    /\ Verifies(v, "write", "append")
    /\ reports' = [reports EXCEPT ![verify[v].symbol] = verify[v].report]
    /\ UNCHANGED <<ledger, export, bundle, replay>>

AppendRow(v) ==
    /\ Verifies(v, "append", "idle")
    /\ ledger' = Append(ledger, [symbol |-> verify[v].symbol, report |-> verify[v].report])
    /\ UNCHANGED <<reports, export, bundle, replay>>

(* It raises, for an existing report among others, or is killed.            *)
VerifyFails(v) ==
    /\ verify[v].at # "failed"
    /\ verify' = [verify EXCEPT ![v].at = "failed"]
    /\ UNCHANGED <<reports, ledger, export, bundle, replay>>

-----------------------------------------------------------------------------
(* export_recording.                                                        *)
Exporting(e, from, to) == /\ export[e].at = from
                          /\ export' = [export EXCEPT ![e].at = to]

Passing(report) == report \notin {None, Empty} /\ report.status = "pass"

AcceptReport(e) ==
    /\ export[e].at = "idle" /\ Passing(reports[Exported])
    /\ export' = [export EXCEPT ![e].at = "mkdir", ![e].report = reports[Exported]]
    /\ UNCHANGED <<reports, ledger, verify, bundle, replay>>

(* After the checks of all inputs, mkdir(exist_ok=False) and the two files, *)
(* opened for exclusive creation.                                           *)
MakeDirectory(e) ==
    /\ export[e].at = "mkdir" /\ directory = None
    /\ \E k \in Intervals, c \in Contents :
           export' = [export EXCEPT ![e].at = "events", ![e].every = k, ![e].content = c]
    /\ directory' = e
    /\ UNCHANGED <<reports, ledger, verify, events, oracle, evidence, replay>>

(* export_events: an event goes through the reference, then is written.     *)
WriteEvent(e) ==
    LET n == events.count + 1
    IN  /\ export[e].at = "events" /\ n <= NumEvents
        /\ events' = [events EXCEPT !.count = n]
        /\ oracle' = IF n % export[e].every = 0 THEN Append(oracle, n) ELSE oracle
        /\ UNCHANGED <<reports, ledger, verify, export, directory, evidence, replay>>

EndEvents(e) ==
    /\ Exporting(e, "events", "close") /\ events.count = NumEvents
    /\ events' = [events EXCEPT !.ended = TRUE]
    /\ oracle' = Append(oracle, Summary)
    /\ UNCHANGED <<reports, ledger, verify, directory, evidence, replay>>

CloseFiles(e) ==
    /\ Exporting(e, "close", "parity")
    /\ UNCHANGED <<reports, ledger, verify, bundle, replay>>

(* Slip: nothing is compared with the report.                               *)
Unchecked(e) == TRUE

Agrees(e) == export[e].content = export[e].report.content

Parity(e) ==
    /\ Exporting(e, "parity", "mark") /\ Agrees(e)
    /\ UNCHANGED <<reports, ledger, verify, bundle, replay>>

(* write_text creates the file and then writes it.                          *)
CreateMarker(e) ==
    /\ Exporting(e, "mark", "fill")
    /\ evidence' = Empty
    /\ UNCHANGED <<reports, ledger, verify, directory, events, oracle, replay>>

FillMarker(e) ==
    /\ Exporting(e, "fill", "done")
    /\ evidence' = export[e].report
    /\ UNCHANGED <<reports, ledger, verify, directory, events, oracle, replay>>

Ended(e) == export[e].at \in {"failed", "done"}

(* An exception, or a kill when no file is open: what was written stays.    *)
ExportRaises(e) ==
    /\ ~Ended(e)
    /\ export' = [export EXCEPT ![e].at = "failed"]
    /\ UNCHANGED <<reports, ledger, verify, bundle, replay>>

Writing(e) == export[e].at \in {"events", "close"}

(* A kill, or a flush that raises, while the files are open: each loses an  *)
(* end of its own.                                                          *)
Killed(e) ==
    /\ Writing(e)
    /\ export' = [export EXCEPT ![e].at = "failed"]
    /\ events' \in {events} \cup {[count |-> n, ended |-> FALSE] : n \in 0 .. events.count}
    /\ \E n \in 0 .. Len(oracle) : oracle' = SubSeq(oracle, 1, n)
    /\ UNCHANGED <<reports, ledger, verify, directory, evidence, replay>>

-----------------------------------------------------------------------------
(* The replay program on what the export has left or has just closed, with  *)
(* an interval of its own: it stops without a summary if there is no END.   *)
(* Files that are still being written show it a beginning, as a kill would. *)
Rows(k) == [n \in 1 .. events.count \div k |-> n * k]

Replay(k) ==
    /\ directory # None /\ ~Writing(directory)
    /\ actual' = IF events.ended THEN Append(Rows(k), Summary) ELSE Rows(k)
    /\ UNCHANGED <<reports, ledger, verify, export, bundle, equal>>

(* compare(): row by row, to a final summary.                               *)
(* Slip: the last row may be any.                                           *)
AnyEnd(rows) == TRUE

EndsInSummary(rows) == rows # <<>> /\ Last(rows) = Summary

Compare ==
    /\ actual # None
    /\ oracle = actual /\ EndsInSummary(oracle)
    /\ equal' = TRUE
    /\ UNCHANGED <<reports, ledger, verify, export, bundle, actual>>

Next ==
    \/ \E v \in Verifications :
           \/ Reconstruct(v) \/ CreateReport(v) \/ WriteReport(v) \/ AppendRow(v)
           \/ VerifyFails(v)
    \/ \E e \in Exports :
           \/ AcceptReport(e) \/ MakeDirectory(e) \/ WriteEvent(e) \/ EndEvents(e)
           \/ CloseFiles(e) \/ Parity(e) \/ CreateMarker(e) \/ FillMarker(e)
           \/ ExportRaises(e) \/ Killed(e)
    \/ \E k \in Intervals : Replay(k)
    \/ Compare

Spec == Init /\ [][Next]_vars

-----------------------------------------------------------------------------
(* "Verification reports are immutable" (docs/depth-recorder.md): a row of  *)
(* the ledger speaks for the report on disk, and there is one for a symbol  *)
(* at most, whichever verifications run at the same time and fail.          *)
LedgerMatchesReports ==
    /\ \A i \in DOMAIN ledger : ledger[i].report = reports[ledger[i].symbol]
    /\ \A i, j \in DOMAIN ledger : ledger[i].symbol = ledger[j].symbol => i = j

(* "Completion marker is written only after report parity and all input     *)
(* checks succeed" (export.py) and "the C++ reader rejects truncated data"  *)
(* (docs/historical-replay.md): if there is an evidence.json, whole or not, *)
(* or a comparison has succeeded, the bundle is whole; with evidence.json   *)
(* it also agrees with the passing report that is on disk.                  *)
BundleWhole == /\ events = [count |-> NumEvents, ended |-> TRUE]
               /\ oracle # <<>> /\ Last(oracle) = Summary
EvidenceHolds ==
    /\ equal => BundleWhole
    /\ evidence # None =>
           /\ BundleWhole
           /\ reports[Exported] \notin {None, Empty}
           /\ reports[Exported].status = "pass"
           /\ reports[Exported].content = export[directory].content
=============================================================================
