--------------------------- MODULE EvidenceProofs ---------------------------
(***************************************************************************)
(* LedgerMatchesReports and EvidenceHolds of Evidence, for any number of    *)
(* verifications of any symbols, of exports and of replays, however they   *)
(* interleave, raise or are killed.                                        *)
(***************************************************************************)
EXTENDS Evidence, TLAPS

Row  == [symbol : Symbols, report : Report]
Owns(v) == verify[v].at \in {"write", "append"}

Shape ==
    /\ reports \in [Symbols -> Report \cup {Empty, None}]
    /\ ledger \in Seq(Row)
    /\ verify \in [Verifications ->
                      [at : {"idle", "create", "write", "append", "failed"},
                       todo : SUBSET Symbols, symbol : Symbols \cup {None},
                       report : Report \cup {None}]]
    /\ \A v \in Verifications : verify[v].at = "create" \/ Owns(v) =>
           verify[v].symbol \in Symbols /\ verify[v].report \in Report

(* A verification between the creation of a report and its row owns the     *)
(* report, and nobody has a row for it.                                     *)
Owned ==
    /\ \A v \in Verifications : Owns(v) =>
           /\ reports[verify[v].symbol] = IF verify[v].at = "write" THEN Empty
                                                                   ELSE verify[v].report
           /\ \A i \in DOMAIN ledger : ledger[i].symbol # verify[v].symbol
    /\ \A v, w \in Verifications :
           Owns(v) /\ Owns(w) /\ verify[v].symbol = verify[w].symbol => v = w

LedgerInv == Shape /\ Owned /\ LedgerMatchesReports

LEMMA InvInitially == Init => LedgerInv
BY DEF Init, LedgerInv, Shape, Owned, Owns, LedgerMatchesReports

LEMMA InvKept == LedgerInv /\ [Next]_vars => LedgerInv'
<1> SUFFICES ASSUME LedgerInv, [Next]_vars PROVE LedgerInv'
  OBVIOUS
<1> USE DEF LedgerInv
<1>1. ASSUME NEW v \in Verifications, Reconstruct(v) PROVE LedgerInv'
  <2>1. PICK s \in verify[v].todo, c \in Contents, status \in Status :
           verify' = [verify EXCEPT ![v] =
               [at |-> "create", todo |-> @.todo \ {s}, symbol |-> s,
                report |-> [by |-> v, content |-> c, status |-> status]]]
    BY <1>1 DEF Reconstruct
  <2>2. UNCHANGED <<reports, ledger>>
    BY <1>1 DEF Reconstruct
  <2>3. /\ verify'[v] = [at |-> "create", todo |-> verify[v].todo \ {s}, symbol |-> s,
                         report |-> [by |-> v, content |-> c, status |-> status]]
        /\ \A w \in Verifications : w # v => verify'[w] = verify[w]
    BY <2>1 DEF Shape
  <2>4. s \in Symbols /\ [by |-> v, content |-> c, status |-> status] \in Report
    BY DEF Shape, Report
  <2>5. Shape'
    BY <2>1, <2>2, <2>3, <2>4 DEF Shape, Owns
  <2>6. QED
    BY <2>2, <2>3, <2>5 DEF Owned, Owns, LedgerMatchesReports
<1>2. ASSUME NEW v \in Verifications, CreateReport(v) PROVE LedgerInv'
  <2> DEFINE s == verify[v].symbol
  <2>1. /\ verify[v].at = "create" /\ s \in Symbols /\ verify[v].report \in Report
        /\ reports[s] = None
        /\ verify' = [verify EXCEPT ![v].at = "write"]
        /\ reports' = [reports EXCEPT ![s] = Empty]
        /\ UNCHANGED ledger
    BY <1>2 DEF CreateReport, Verifies, NewName, Shape
  <2>2. \A w \in Verifications :
           /\ verify'[w].symbol = verify[w].symbol /\ verify'[w].report = verify[w].report
           /\ w # v => verify'[w] = verify[w]
    BY <2>1 DEF Shape
  <2>3. verify'[v].at = "write"
    BY <2>1 DEF Shape
  <2>4. \A i \in DOMAIN ledger : ledger[i].symbol # s
    <3> SUFFICES ASSUME NEW i \in DOMAIN ledger, ledger[i].symbol = s PROVE FALSE
      OBVIOUS
    <3>1. ledger[i] \in Row
      BY DEF Shape
    <3>2. ledger[i].report \in Report /\ ledger[i].report = reports[s]
      BY <3>1 DEF Row, LedgerMatchesReports
    <3>3. QED
      BY <2>1, <3>2, EvidenceAssumption
  <2>5. \A w \in Verifications : Owns(w) => verify[w].symbol # s
    BY <2>1, EvidenceAssumption DEF Shape, Owned, Owns
  <2>6. \A t \in Symbols : reports'[t] = IF t = s THEN Empty ELSE reports[t]
    BY <2>1 DEF Shape
  <2>7. Shape'
    BY <2>1, <2>2 DEF Shape, Owns
  <2>8. Owned'
    BY <2>1, <2>2, <2>3, <2>4, <2>5, <2>6 DEF Shape, Owned, Owns
  <2>9. LedgerMatchesReports'
    BY <2>1, <2>4, <2>6 DEF Shape, Row, LedgerMatchesReports
  <2>10. QED
    BY <2>7, <2>8, <2>9
<1>3. ASSUME NEW v \in Verifications, WriteReport(v) PROVE LedgerInv'
  <2> DEFINE s == verify[v].symbol
  <2>1. /\ verify[v].at = "write" /\ s \in Symbols /\ verify[v].report \in Report
        /\ verify' = [verify EXCEPT ![v].at = "append"]
        /\ reports' = [reports EXCEPT ![s] = verify[v].report]
        /\ UNCHANGED ledger
    BY <1>3 DEF WriteReport, Verifies, Shape, Owns
  <2>2. \A w \in Verifications :
           /\ verify'[w].symbol = verify[w].symbol /\ verify'[w].report = verify[w].report
           /\ w # v => verify'[w] = verify[w]
    BY <2>1 DEF Shape
  <2>3. verify'[v].at = "append" /\ Owns(v)
    BY <2>1 DEF Shape, Owns
  <2>4. \A t \in Symbols : reports'[t] = IF t = s THEN verify[v].report ELSE reports[t]
    BY <2>1 DEF Shape
  <2>5. Shape'
    <3>1. reports' \in [Symbols -> Report \cup {Empty, None}]
      BY <2>1 DEF Shape
    <3>2. verify' \in [Verifications ->
                      [at : {"idle", "create", "write", "append", "failed"},
                       todo : SUBSET Symbols, symbol : Symbols \cup {None},
                       report : Report \cup {None}]]
      BY <2>1 DEF Shape
    <3>3. \A w \in Verifications : verify'[w].at = "create" \/ Owns(w)' =>
             verify'[w].symbol \in Symbols /\ verify'[w].report \in Report
      BY <2>1, <2>2 DEF Shape, Owns
    <3>4. QED
      BY <2>1, <3>1, <3>2, <3>3 DEF Shape, Owns
  <2>6. Owned'
    BY <2>1, <2>2, <2>3, <2>4 DEF Shape, Owned, Owns
  <2>7. LedgerMatchesReports'
    BY <2>1, <2>3, <2>4 DEF Shape, Row, Owned, LedgerMatchesReports
  <2>8. QED
    BY <2>5, <2>6, <2>7
<1>4. ASSUME NEW v \in Verifications, AppendRow(v) PROVE LedgerInv'
  <2> DEFINE row == [symbol |-> verify[v].symbol, report |-> verify[v].report]
  <2>1. /\ verify[v].at = "append" /\ Owns(v) /\ row \in Row
        /\ verify' = [verify EXCEPT ![v].at = "idle"]
        /\ ledger' = Append(ledger, row)
        /\ UNCHANGED reports
    BY <1>4 DEF AppendRow, Verifies, Shape, Owns, Row
  <2>2. \A w \in Verifications :
           /\ verify'[w].symbol = verify[w].symbol /\ verify'[w].report = verify[w].report
           /\ w # v => verify'[w] = verify[w]
    BY <2>1 DEF Shape
  <2>3. verify'[v].at = "idle"
    BY <2>1 DEF Shape
  <2>4. \A i \in DOMAIN ledger' :
           \/ i \in DOMAIN ledger /\ ledger'[i] = ledger[i]
           \/ i = Len(ledger) + 1 /\ i \notin DOMAIN ledger /\ ledger'[i] = row
    BY <2>1 DEF Shape
  <2>5. Shape'
    BY <2>1, <2>2, <2>3 DEF Shape, Owns
  <2>6. Owned'
    BY <2>1, <2>2, <2>3, <2>4 DEF Shape, Owned, Owns
  <2>7. LedgerMatchesReports'
    BY SMTT(30), <2>1, <2>4 DEF Shape, Row, Owned, LedgerMatchesReports
  <2>8. QED
    BY <2>5, <2>6, <2>7
<1>5. ASSUME NEW v \in Verifications, VerifyFails(v) PROVE LedgerInv'
  <2>1. verify' = [verify EXCEPT ![v].at = "failed"] /\ UNCHANGED <<reports, ledger>>
    BY <1>5 DEF VerifyFails
  <2>2. \A w \in Verifications :
           /\ verify'[w].symbol = verify[w].symbol /\ verify'[w].report = verify[w].report
           /\ w # v => verify'[w] = verify[w]
    BY <2>1 DEF Shape
  <2>3. verify'[v].at = "failed"
    BY <2>1 DEF Shape
  <2>4. QED
    BY <2>1, <2>2, <2>3 DEF Shape, Owned, Owns, LedgerMatchesReports
<1>6. CASE UNCHANGED <<reports, ledger, verify>>
  BY <1>6 DEF Shape, Owned, Owns, LedgerMatchesReports
<1>7. ASSUME NEW e \in Exports,
             \/ AcceptReport(e) \/ MakeDirectory(e) \/ WriteEvent(e) \/ EndEvents(e)
             \/ CloseFiles(e) \/ Parity(e) \/ CreateMarker(e) \/ FillMarker(e)
             \/ ExportRaises(e) \/ Killed(e)
      PROVE  UNCHANGED <<reports, ledger, verify>>
  BY <1>7 DEF AcceptReport, MakeDirectory, WriteEvent, EndEvents, CloseFiles, Parity,
              CreateMarker, FillMarker, ExportRaises, Killed
<1>8. QED
  BY <1>1, <1>2, <1>3, <1>4, <1>5, <1>6, <1>7 DEF Next, Replay, Compare, vars

(* The inductive invariant of the reports: who owns which (verify_day).     *)
THEOREM ReportInvariant == Spec => []LedgerInv
BY InvInitially, InvKept, PTL DEF Spec

(* A row of the coverage ledger speaks for the report on disk, and there is *)
(* one for a symbol at most (verify_day).                                   *)
THEOREM LedgerAlwaysMatches == Spec => []LedgerMatchesReports
<1>1. LedgerInv => LedgerMatchesReports
  BY DEF LedgerInv
<1>2. QED
  BY <1>1, ReportInvariant, PTL

-----------------------------------------------------------------------------
(* EvidenceHolds, for any number of exports of a symbol and of replays of   *)
(* what they leave.                                                         *)
Inside == {"events", "close", "parity", "mark", "fill", "done"}
ExportState == [at : {"idle", "mkdir", "failed"} \cup Inside, every : Nat \cup {None},
                content : Contents \cup {None}, report : Report \cup {None}]

(* One export at most has made the directory, and only it writes there.     *)
DirectoryInv ==
    /\ export \in [Exports -> ExportState]
    /\ directory \in Exports \cup {None}
    /\ \A e \in Exports : /\ export[e].at \in Inside => directory = e
                          /\ export[e].at \in {"idle", "mkdir"} => directory # e
    /\ directory = None => evidence = None /\ actual = None /\ ~equal

(* What an export has accepted is on disk for good.                         *)
AcceptedInv ==
    \A e \in Exports : export[e].at \in Inside \cup {"mkdir"} =>
        export[e].report \in Report /\ export[e].report.status = "pass"
            /\ reports[Exported] = export[e].report

(* The files as far as the export has come, and what only a whole bundle    *)
(* can hold.                                                                *)
FilesInv ==
    /\ events \in [count : Nat, ended : BOOLEAN]
    /\ oracle \in Seq(Nat \cup {Summary})
    /\ events.ended => events.count = NumEvents /\ directory # None
    /\ \A e \in Exports :
           /\ export[e].at = "events" => ~events.ended
           /\ export[e].at \in Inside \ {"events"} => BundleWhole
           /\ export[e].at \in {"mark", "fill", "done"} => Agrees(e)
    /\ evidence # None =>
           directory # None /\ export[directory].at \in {"fill", "done", "failed"}

(* A replay follows the closing of the files, and ends in a summary only if *)
(* the export wrote END.                                                    *)
ReplayInv ==
    /\ actual # None \/ equal => directory # None /\ ~Writing(directory)
    /\ actual # None /\ ~events.ended => \A i \in DOMAIN actual : actual[i] # Summary

EvidenceInv == DirectoryInv /\ AcceptedInv /\ FilesInv /\ ReplayInv /\ EvidenceHolds

LEMMA EvidenceInitially == Init => EvidenceInv
<1> SUFFICES ASSUME Init PROVE EvidenceInv
  OBVIOUS
<1>1. \A e \in Exports : export[e].at = "idle"
  BY DEF Init
<1>2. DirectoryInv
  BY EvidenceAssumption DEF Init, DirectoryInv, ExportState, Inside
<1>3. AcceptedInv
  BY <1>1 DEF AcceptedInv, Inside
<1>4. FilesInv
  <2>1. <<>> \in Seq(Nat \cup {Summary}) /\ events = [count |-> 0, ended |-> FALSE]
    BY DEF Init
  <2>2. QED
    BY <1>1, <2>1 DEF Init, FilesInv, Inside
<1>5. ReplayInv /\ EvidenceHolds
  BY DEF Init, ReplayInv, EvidenceHolds
<1>6. QED
  BY <1>2, <1>3, <1>4, <1>5 DEF EvidenceInv

(* A report that is on disk whole stays as it is.                           *)
LEMMA ReportsStay ==
    ASSUME LedgerInv, [Next]_vars, reports[Exported] \in Report
    PROVE  reports'[Exported] = reports[Exported]
<1>1. reports \in [Symbols -> Report \cup {Empty, None}] /\ Exported \in Symbols
  BY EvidenceAssumption DEF LedgerInv, Shape
<1>2. reports[Exported] # Empty /\ reports[Exported] # None
  BY EvidenceAssumption
<1>3. ASSUME NEW v \in Verifications, CreateReport(v) \/ WriteReport(v)
      PROVE  reports'[Exported] = reports[Exported]
  <2>1. CASE CreateReport(v)
    BY <1>1, <1>2, <2>1 DEF CreateReport, NewName
  <2>2. CASE WriteReport(v)
    <3>1. Owns(v) /\ verify[v].at = "write"
      BY <2>2 DEF WriteReport, Verifies, Owns
    <3>2. reports[verify[v].symbol] = Empty
      BY <3>1 DEF LedgerInv, Owned
    <3>3. QED
      BY <1>1, <1>2, <2>2, <3>2 DEF WriteReport
  <2>3. QED
    BY <1>3, <2>1, <2>2
<1>4. ASSUME NEW v \in Verifications, Reconstruct(v) \/ AppendRow(v) \/ VerifyFails(v)
      PROVE  reports' = reports
  BY <1>4 DEF Reconstruct, AppendRow, VerifyFails
<1>5. ASSUME NEW e \in Exports,
             \/ AcceptReport(e) \/ MakeDirectory(e) \/ WriteEvent(e) \/ EndEvents(e)
             \/ CloseFiles(e) \/ Parity(e) \/ CreateMarker(e) \/ FillMarker(e)
             \/ ExportRaises(e) \/ Killed(e)
      PROVE  reports' = reports
  BY <1>5 DEF AcceptReport, MakeDirectory, WriteEvent, EndEvents, CloseFiles, Parity,
              CreateMarker, FillMarker, ExportRaises, Killed
<1>6. QED
  BY <1>3, <1>4, <1>5 DEF Next, Replay, Compare, vars

(* A verification's step is none of an export.                              *)
LEMMA VerifyingKeeps ==
    ASSUME LedgerInv, EvidenceInv, [Next]_vars, UNCHANGED <<export, bundle, replay>>
    PROVE  EvidenceInv'
<1>1. reports[Exported] \in Report => reports'[Exported] = reports[Exported]
  BY ReportsStay
<1>2. reports \in [Symbols -> Report \cup {Empty, None}] /\ Exported \in Symbols
  BY EvidenceAssumption DEF LedgerInv, Shape
<1>3. /\ export' = export /\ directory' = directory /\ events' = events
      /\ oracle' = oracle /\ evidence' = evidence /\ actual' = actual /\ equal' = equal
  BY DEF bundle, replay
<1>4. DirectoryInv' /\ FilesInv' /\ ReplayInv'
  BY <1>3 DEF EvidenceInv, DirectoryInv, FilesInv, ReplayInv, BundleWhole, Agrees, Writing
<1>5. AcceptedInv'
  BY <1>1, <1>3 DEF EvidenceInv, AcceptedInv
<1>6. EvidenceHolds'
  <2>1. reports[Exported] \notin {None, Empty} => reports[Exported] \in Report
    BY <1>2
  <2>2. QED
    BY <1>1, <1>3, <2>1 DEF EvidenceInv, EvidenceHolds, BundleWhole
<1>7. QED
  BY <1>4, <1>5, <1>6 DEF EvidenceInv

(* The export of a directory, and what it leaves in place until it is there.*)
LEMMA InsideIsOwner ==
    ASSUME EvidenceInv, NEW e \in Exports, export[e].at \in Inside
    PROVE  /\ directory = e
           /\ \A d \in Exports : export[d].at \in Inside => d = e
           /\ export[e].at \in {"events", "close", "parity", "mark"} => evidence = None
           /\ export[e].at \in {"events", "close"} => actual = None /\ ~equal
<1>1. directory = e /\ \A d \in Exports : export[d].at \in Inside => d = e
  BY DEF EvidenceInv, DirectoryInv
<1>2. export[e].at \in {"events", "close", "parity", "mark"} => evidence = None
  BY <1>1 DEF EvidenceInv, FilesInv
<1>3. export[e].at \in {"events", "close"} => actual = None /\ ~equal
  BY <1>1 DEF EvidenceInv, ReplayInv, Writing
<1>4. QED
  BY <1>1, <1>2, <1>3

(* An export moves on, and only it.                                         *)
LEMMA ExportMoves ==
    ASSUME DirectoryInv, NEW e \in Exports, NEW to \in {"idle", "mkdir", "failed"} \cup Inside,
           export' = [export EXCEPT ![e].at = to]
    PROVE  /\ export' \in [Exports -> ExportState]
           /\ export'[e].at = to /\ export'[e].every = export[e].every
           /\ export'[e].content = export[e].content /\ export'[e].report = export[e].report
           /\ \A d \in Exports : d # e => export'[d] = export[d]
<1>1. export \in [Exports -> ExportState] /\ export[e] \in ExportState
  BY DEF DirectoryInv
<1>2. [export[e] EXCEPT !.at = to] \in ExportState
  BY <1>1 DEF ExportState
<1>3. export' = [export EXCEPT ![e] = [export[e] EXCEPT !.at = to]]
  OBVIOUS
<1>4. QED
  BY <1>1, <1>2, <1>3 DEF ExportState

LEMMA AcceptKeeps ==
    ASSUME LedgerInv, EvidenceInv, NEW e \in Exports, AcceptReport(e)
    PROVE  EvidenceInv'
<1>1. /\ export[e].at = "idle" /\ Passing(reports[Exported])
      /\ export' = [export EXCEPT ![e].at = "mkdir", ![e].report = reports[Exported]]
      /\ reports' = reports /\ directory' = directory /\ events' = events
      /\ oracle' = oracle /\ evidence' = evidence /\ actual' = actual /\ equal' = equal
  BY DEF AcceptReport, bundle, replay
<1>2. reports[Exported] \in Report /\ reports[Exported].status = "pass"
  BY <1>1, EvidenceAssumption DEF LedgerInv, Shape, Passing
<1>3. export \in [Exports -> ExportState] /\ export[e] \in ExportState
  BY DEF EvidenceInv, DirectoryInv
<1>4. /\ export' \in [Exports -> ExportState]
      /\ export'[e].at = "mkdir" /\ export'[e].report = reports[Exported]
      /\ export'[e].content = export[e].content
      /\ \A d \in Exports : d # e => export'[d] = export[d]
  <2> DEFINE new == [[export[e] EXCEPT !.at = "mkdir"] EXCEPT !.report = reports[Exported]]
  <2>1. new \in ExportState /\ new.at = "mkdir" /\ new.report = reports[Exported]
        /\ new.content = export[e].content
    BY <1>2, <1>3 DEF ExportState
  <2>2. export' = [export EXCEPT ![e] = new]
    BY <1>1, <1>3
  <2> HIDE DEF new
  <2>3. QED
    BY <1>3, <2>1, <2>2
<1>5. DirectoryInv'
  BY <1>1, <1>4 DEF EvidenceInv, DirectoryInv, Inside
<1>6. AcceptedInv'
  BY <1>1, <1>2, <1>4 DEF EvidenceInv, AcceptedInv
<1>7. directory # e /\ directory' = directory /\ directory \in Exports \cup {None}
  BY <1>1 DEF EvidenceInv, DirectoryInv
<1>8. directory # None => export'[directory] = export[directory]
  BY <1>4, <1>7
<1>9. FilesInv'
  <2>1. \A d \in Exports : d # e =>
            /\ export'[d].at = "events" => ~events'.ended
            /\ export'[d].at \in Inside \ {"events"} => BundleWhole'
            /\ export'[d].at \in {"mark", "fill", "done"} => Agrees(d)'
    BY <1>1, <1>4 DEF EvidenceInv, FilesInv, BundleWhole, Agrees
  <2>2. export'[e].at \notin Inside
    BY <1>4 DEF Inside
  <2>3. QED
    BY <1>1, <1>7, <1>8, <2>1, <2>2 DEF EvidenceInv, FilesInv, Inside
<1>10. ReplayInv'
  BY <1>1, <1>7, <1>8 DEF EvidenceInv, ReplayInv, Writing
<1>11. EvidenceHolds'
  BY <1>1, <1>7, <1>8 DEF EvidenceInv, EvidenceHolds, BundleWhole, DirectoryInv
<1>12. QED
  BY <1>5, <1>6, <1>9, <1>10, <1>11 DEF EvidenceInv

LEMMA MakeDirectoryKeeps ==
    ASSUME LedgerInv, EvidenceInv, NEW e \in Exports, MakeDirectory(e)
    PROVE  EvidenceInv'
<1>1. PICK k \in Intervals, c \in Contents :
           export' = [export EXCEPT ![e].at = "events", ![e].every = k, ![e].content = c]
  BY DEF MakeDirectory
<1>2. /\ export[e].at = "mkdir" /\ directory = None /\ directory' = e
      /\ reports' = reports /\ events' = events
      /\ oracle' = oracle /\ evidence' = evidence /\ actual' = actual /\ equal' = equal
  BY DEF MakeDirectory, replay
<1>3. export \in [Exports -> ExportState] /\ export[e] \in ExportState
  BY DEF EvidenceInv, DirectoryInv
<1>4. /\ export' \in [Exports -> ExportState]
      /\ export'[e].at = "events" /\ export'[e].report = export[e].report
      /\ \A d \in Exports : d # e => export'[d] = export[d]
  <2> DEFINE new == [[[export[e] EXCEPT !.at = "events"] EXCEPT !.every = k] EXCEPT !.content = c]
  <2>1. new \in ExportState /\ new.at = "events" /\ new.report = export[e].report
    <3>1. k \in Nat
      BY EvidenceAssumption
    <3>2. QED
      BY <1>3, <3>1 DEF ExportState, Inside
  <2>2. export' = [export EXCEPT ![e] = new]
    BY <1>1, <1>3
  <2> HIDE DEF new
  <2>3. QED
    BY <1>3, <2>1, <2>2
<1>5. /\ evidence = None /\ actual = None /\ ~equal /\ ~events.ended /\ e # None
      /\ \A d \in Exports : export[d].at \notin Inside
  BY <1>2, EvidenceAssumption DEF EvidenceInv, DirectoryInv, FilesInv
<1>6. DirectoryInv'
  BY <1>2, <1>4, <1>5 DEF EvidenceInv, DirectoryInv, Inside
<1>7. AcceptedInv'
  BY <1>2, <1>4 DEF EvidenceInv, AcceptedInv, Inside
<1>8. FilesInv'
  BY <1>2, <1>4, <1>5 DEF EvidenceInv, FilesInv, Inside
<1>9. ReplayInv' /\ EvidenceHolds'
  BY <1>2, <1>5 DEF ReplayInv, EvidenceHolds
<1>10. QED
  BY <1>6, <1>7, <1>8, <1>9 DEF EvidenceInv

(* The owner of the directory goes from one step to another: what it leaves *)
(* in the files is what the step says of them.                              *)
LEMMA OwnerMoves ==
    ASSUME LedgerInv, EvidenceInv, NEW e \in Exports, NEW to \in Inside \cup {"failed"},
           export[e].at \in Inside,
           export' = [export EXCEPT ![e].at = to],
           UNCHANGED <<reports, directory, actual, equal>>,
           events' \in [count : Nat, ended : BOOLEAN], oracle' \in Seq(Nat \cup {Summary}),
           events'.ended => events'.count = NumEvents,
           to = "events" => ~events'.ended,
           to \in Inside \ {"events"} => BundleWhole',
           to \in {"mark", "fill", "done"} => Agrees(e),
           evidence' # None => /\ to \in {"fill", "done", "failed"} /\ BundleWhole'
                               /\ Agrees(e),
           actual # None \/ equal =>
               UNCHANGED <<events, oracle>> /\ to \notin {"events", "close"}
    PROVE  EvidenceInv'
<1>1. DirectoryInv
  BY DEF EvidenceInv
<1>2. /\ export' \in [Exports -> ExportState]
      /\ export'[e].at = to /\ export'[e].every = export[e].every
      /\ export'[e].content = export[e].content /\ export'[e].report = export[e].report
      /\ \A d \in Exports : d # e => export'[d] = export[d]
  BY <1>1, ExportMoves
<1>3. directory = e /\ directory' = e /\ e # None
      /\ \A d \in Exports : export[d].at \in Inside => d = e
  BY InsideIsOwner, EvidenceAssumption
<1>4. export[e].report \in Report /\ export[e].report.status = "pass"
      /\ reports[Exported] = export[e].report
  BY DEF EvidenceInv, AcceptedInv
<1>5. DirectoryInv'
  BY <1>1, <1>2, <1>3 DEF DirectoryInv, Inside
<1>6. AcceptedInv'
  BY <1>2, <1>4 DEF EvidenceInv, AcceptedInv
<1>7. FilesInv'
  <2>1. \A d \in Exports : d # e => export'[d].at \notin Inside
    BY <1>2, <1>3
  <2>2. Agrees(e) => Agrees(e)'
    BY <1>2 DEF Agrees
  <2>3. QED
    BY <1>2, <1>3, <2>1, <2>2 DEF FilesInv, Inside
<1>8. ReplayInv'
  <2>1. actual # None \/ equal => events' = events /\ ~Writing(directory)'
    BY <1>2, <1>3 DEF Writing
  <2>2. QED
    BY <1>3, <2>1 DEF EvidenceInv, ReplayInv
<1>9. EvidenceHolds'
  <2>1. equal => BundleWhole'
    BY DEF EvidenceInv, EvidenceHolds, ReplayInv, BundleWhole
  <2>2. evidence' # None =>
           /\ BundleWhole'
           /\ reports'[Exported] \notin {None, Empty}
           /\ reports'[Exported].status = "pass"
           /\ reports'[Exported].content = export'[directory'].content
    BY <1>2, <1>3, <1>4, EvidenceAssumption DEF Agrees
  <2>3. QED
    BY <2>1, <2>2 DEF EvidenceHolds
<1>10. QED
  BY <1>5, <1>6, <1>7, <1>8, <1>9 DEF EvidenceInv

LEMMA OwnerStays ==
    ASSUME EvidenceInv, NEW e \in Exports
    PROVE  export = [export EXCEPT ![e].at = export[e].at]
<1>1. export \in [Exports -> ExportState] /\ export[e] \in ExportState
  BY DEF EvidenceInv, DirectoryInv
<1>2. [export[e] EXCEPT !.at = export[e].at] = export[e]
  BY <1>1 DEF ExportState
<1>3. QED
  BY <1>1, <1>2

LEMMA FileFacts ==
    ASSUME EvidenceInv
    PROVE  /\ events \in [count : Nat, ended : BOOLEAN] /\ events.count \in Nat
           /\ oracle \in Seq(Nat \cup {Summary})
           /\ events.ended => events.count = NumEvents
           /\ \A e \in Exports :
                  /\ export[e].at = "events" => ~events.ended
                  /\ export[e].at \in Inside \ {"events"} => BundleWhole
                  /\ export[e].at \in {"mark", "fill", "done"} => Agrees(e)
BY DEF EvidenceInv, FilesInv

LEMMA WriteEventKeeps ==
    ASSUME LedgerInv, EvidenceInv, NEW e \in Exports, WriteEvent(e)
    PROVE  EvidenceInv'
<1> DEFINE n == events.count + 1
<1>1. /\ export[e].at = "events" /\ export[e].at \in Inside
      /\ events' = [events EXCEPT !.count = n]
      /\ oracle' = IF n % export[e].every = 0 THEN Append(oracle, n) ELSE oracle
      /\ UNCHANGED <<reports, directory, actual, equal>> /\ export' = export
      /\ evidence' = evidence
  BY DEF WriteEvent, Inside, replay
<1>2. evidence = None /\ actual = None /\ ~equal
  BY <1>1, InsideIsOwner
<1>3. n \in Nat /\ events \in [count : Nat, ended : BOOLEAN] /\ ~events.ended
      /\ oracle \in Seq(Nat \cup {Summary})
  BY <1>1, FileFacts
<1> HIDE DEF n
<1>4. events' \in [count : Nat, ended : BOOLEAN] /\ ~events'.ended
  BY <1>1, <1>3
<1>5. oracle' \in Seq(Nat \cup {Summary})
  <2>1. Append(oracle, n) \in Seq(Nat \cup {Summary})
    BY <1>3
  <2>2. QED
    BY <1>1, <1>3, <2>1
<1>6. export' = [export EXCEPT ![e].at = "events"]
  BY <1>1, OwnerStays
<1>7. QED
  BY <1>1, <1>2, <1>4, <1>5, <1>6, OwnerMoves

LEMMA EndEventsKeeps ==
    ASSUME LedgerInv, EvidenceInv, NEW e \in Exports, EndEvents(e)
    PROVE  EvidenceInv'
<1>1. /\ export[e].at = "events" /\ export[e].at \in Inside
      /\ export' = [export EXCEPT ![e].at = "close"]
      /\ events.count = NumEvents
      /\ events' = [events EXCEPT !.ended = TRUE] /\ oracle' = Append(oracle, Summary)
      /\ UNCHANGED <<reports, directory, actual, equal>> /\ evidence' = evidence
  BY DEF EndEvents, Exporting, Inside, replay
<1>2. evidence = None /\ actual = None /\ ~equal
  BY <1>1, InsideIsOwner
<1>3. events \in [count : Nat, ended : BOOLEAN] /\ oracle \in Seq(Nat \cup {Summary})
  BY FileFacts
<1>4. /\ events' = [count |-> NumEvents, ended |-> TRUE]
      /\ events' \in [count : Nat, ended : BOOLEAN] /\ events'.count = NumEvents
  BY <1>1, <1>3
<1>5. /\ oracle' \in Seq(Nat \cup {Summary}) /\ oracle' # <<>> /\ Last(oracle') = Summary
  <2>1. oracle' \in Seq(Nat \cup {Summary}) /\ Len(oracle') = Len(oracle) + 1
        /\ oracle'[Len(oracle) + 1] = Summary /\ Len(oracle) \in Nat
    BY <1>1, <1>3
  <2>2. QED
    BY <2>1 DEF Last
<1>6. BundleWhole'
  BY <1>4, <1>5 DEF BundleWhole
<1>7. "close" \in Inside \cup {"failed"} /\ "close" # "events"
  BY DEF Inside
<1>8. QED
  BY <1>1, <1>2, <1>4, <1>5, <1>6, <1>7, OwnerMoves

(* The steps that change no file.                                           *)
LEMMA OwnerOnlyMoves ==
    ASSUME LedgerInv, EvidenceInv, NEW e \in Exports, NEW to \in {"parity", "mark", "failed"},
           export[e].at \in Inside \ {"done"},
           to # "failed" => export[e].at \in {"close", "parity"},
           export' = [export EXCEPT ![e].at = to],
           UNCHANGED <<reports, bundle, replay>>,
           to = "mark" => Agrees(e)
    PROVE  EvidenceInv'
<1>1. /\ events' = events /\ oracle' = oracle /\ evidence' = evidence
      /\ UNCHANGED <<reports, directory, actual, equal>>
  BY DEF bundle, replay
<1>2. export[e].at \in Inside /\ to \in Inside \cup {"failed"} /\ "failed" \notin Inside
  BY DEF Inside
<1>3. evidence # None => export[e].at = "fill"
  BY <1>2, InsideIsOwner DEF Inside
<1>4. BundleWhole => BundleWhole'
  BY <1>1 DEF BundleWhole
<1>5. to # "failed" => BundleWhole
  BY FileFacts DEF Inside
<1>6. evidence # None => to = "failed" /\ BundleWhole /\ Agrees(e)
  BY <1>3, FileFacts DEF Inside
<1>7. /\ events' \in [count : Nat, ended : BOOLEAN] /\ oracle' \in Seq(Nat \cup {Summary})
      /\ events'.ended => events'.count = NumEvents
  BY <1>1, FileFacts
<1>8. QED
  BY <1>1, <1>2, <1>3, <1>4, <1>5, <1>6, <1>7, OwnerMoves

LEMMA MarkerKeeps ==
    ASSUME LedgerInv, EvidenceInv, NEW e \in Exports, CreateMarker(e) \/ FillMarker(e)
    PROVE  EvidenceInv'
<1>1. PICK to \in {"fill", "done"} :
          /\ export[e].at \in {"mark", "fill"} /\ export[e].at \in Inside
          /\ export' = [export EXCEPT ![e].at = to]
          /\ UNCHANGED <<reports, directory, events, oracle, actual, equal>>
  BY DEF CreateMarker, FillMarker, Exporting, Inside, replay
<1>2. to \in Inside \cup {"failed"} /\ to \notin {"events", "close"}
  BY <1>1 DEF Inside
<1>3. /\ events \in [count : Nat, ended : BOOLEAN] /\ oracle \in Seq(Nat \cup {Summary})
      /\ events.ended => events.count = NumEvents
      /\ Agrees(e) /\ BundleWhole
  BY <1>1, FileFacts DEF Inside
<1>4. BundleWhole'
  BY <1>1, <1>3 DEF BundleWhole
<1>5. QED
  BY <1>1, <1>2, <1>3, <1>4, OwnerMoves

(* An end of each file may be lost while they are open.                     *)
LEMMA KilledKeeps ==
    ASSUME LedgerInv, EvidenceInv, NEW e \in Exports, Killed(e)
    PROVE  EvidenceInv'
<1>1. /\ export[e].at \in {"events", "close"} /\ export[e].at \in Inside
      /\ export' = [export EXCEPT ![e].at = "failed"]
      /\ events' \in {events} \cup {[count |-> n, ended |-> FALSE] : n \in 0 .. events.count}
      /\ \E n \in 0 .. Len(oracle) : oracle' = SubSeq(oracle, 1, n)
      /\ UNCHANGED <<reports, directory, actual, equal>> /\ evidence' = evidence
  BY DEF Killed, Writing, Inside, replay
<1>2. evidence = None /\ actual = None /\ ~equal
  BY <1>1, InsideIsOwner
<1>3. /\ events \in [count : Nat, ended : BOOLEAN] /\ oracle \in Seq(Nat \cup {Summary})
      /\ events.count \in Nat /\ events.ended => events.count = NumEvents
  BY FileFacts
<1>4. /\ events' \in [count : Nat, ended : BOOLEAN]
      /\ events'.ended => events'.count = NumEvents
  <2>1. CASE events' = events
    BY <1>3, <2>1, FileFacts
  <2>2. CASE \E n \in 0 .. events.count : events' = [count |-> n, ended |-> FALSE]
    BY <1>3, <2>2
  <2>3. QED
    BY <1>1, <2>1, <2>2
<1>5. oracle' \in Seq(Nat \cup {Summary})
  BY <1>1, <1>3
<1>6. "failed" \in Inside \cup {"failed"} /\ "failed" \notin Inside
  BY DEF Inside
<1>7. QED
  BY <1>1, <1>2, <1>4, <1>5, <1>6, OwnerMoves

(* An export that fails before it has a directory is none.                  *)
LEMMA OutsideFails ==
    ASSUME LedgerInv, EvidenceInv, NEW e \in Exports, export[e].at \in {"idle", "mkdir"},
           export' = [export EXCEPT ![e].at = "failed"],
           UNCHANGED <<reports, bundle, replay>>
    PROVE  EvidenceInv'
<1>1. /\ events' = events /\ oracle' = oracle /\ evidence' = evidence
      /\ UNCHANGED <<reports, directory, actual, equal>>
  BY DEF bundle, replay
<1>2. DirectoryInv
  BY DEF EvidenceInv
<1>3. /\ export' \in [Exports -> ExportState]
      /\ export'[e].at = "failed"
      /\ \A d \in Exports : d # e => export'[d] = export[d]
  BY <1>2, ExportMoves
<1>4. directory # e /\ directory \in Exports \cup {None}
      /\ (directory # None => export'[directory] = export[directory])
  BY <1>2, <1>3 DEF DirectoryInv
<1>5. DirectoryInv'
  BY <1>1, <1>2, <1>3 DEF DirectoryInv, Inside
<1>6. AcceptedInv'
  BY <1>1, <1>3 DEF EvidenceInv, AcceptedInv, Inside
<1>7. FilesInv'
  <2>1. \A d \in Exports : d # e =>
            /\ export'[d].at = "events" => ~events'.ended
            /\ export'[d].at \in Inside \ {"events"} => BundleWhole'
            /\ export'[d].at \in {"mark", "fill", "done"} => Agrees(d)'
    BY <1>1, <1>3 DEF EvidenceInv, FilesInv, BundleWhole, Agrees
  <2>2. QED
    BY <1>1, <1>3, <1>4, <2>1 DEF EvidenceInv, FilesInv, Inside
<1>8. ReplayInv'
  BY <1>1, <1>4 DEF EvidenceInv, ReplayInv, Writing
<1>9. EvidenceHolds'
  BY <1>1, <1>2, <1>4 DEF EvidenceInv, EvidenceHolds, BundleWhole, DirectoryInv
<1>10. QED
  BY <1>5, <1>6, <1>7, <1>8, <1>9 DEF EvidenceInv

(* A row of a replay is an event number: only END makes a summary.          *)
LEMMA ReplayKeeps ==
    ASSUME EvidenceInv, NEW k \in Intervals, Replay(k)
    PROVE  EvidenceInv'
<1>1. /\ directory # None /\ ~Writing(directory)
      /\ actual' = IF events.ended THEN Append(Rows(k), Summary) ELSE Rows(k)
      /\ UNCHANGED <<reports, export, directory, events, oracle, evidence, equal>>
  BY DEF Replay, bundle
<1>2. \A i \in DOMAIN Rows(k) : Rows(k)[i] # Summary
  <2>1. ASSUME NEW i \in DOMAIN Rows(k) PROVE Rows(k)[i] # Summary
    <3>1. i \in Nat /\ k \in Nat /\ Rows(k)[i] = i * k
      BY EvidenceAssumption DEF Rows
    <3>2. i * k \in Nat
      BY <3>1
    <3>3. QED
      BY <3>1, <3>2, EvidenceAssumption
  <2>2. QED
    BY <2>1
<1>3. DirectoryInv' /\ AcceptedInv' /\ FilesInv'
  BY <1>1 DEF EvidenceInv, DirectoryInv, AcceptedInv, FilesInv, BundleWhole, Agrees
<1>4. ReplayInv'
  BY <1>1, <1>2 DEF EvidenceInv, ReplayInv, Writing
<1>5. EvidenceHolds'
  BY <1>1 DEF EvidenceInv, EvidenceHolds, BundleWhole
<1>6. QED
  BY <1>3, <1>4, <1>5 DEF EvidenceInv

(* What compares equal ends in a summary on both sides: END was there.      *)
LEMMA CompareKeeps ==
    ASSUME EvidenceInv, Compare
    PROVE  EvidenceInv'
<1>1. /\ actual # None /\ oracle = actual /\ oracle # <<>> /\ Last(oracle) = Summary
      /\ equal' = TRUE
      /\ UNCHANGED <<reports, export, directory, events, oracle, evidence, actual>>
  BY DEF Compare, EndsInSummary, bundle
<1>2. events \in [count : Nat, ended : BOOLEAN] /\ oracle \in Seq(Nat \cup {Summary})
      /\ (events.ended => events.count = NumEvents)
  BY FileFacts
<1>3. Len(oracle) \in DOMAIN oracle /\ oracle[Len(oracle)] = Summary
  BY <1>1, <1>2 DEF Last
<1>4. events.ended
  BY <1>1, <1>3 DEF EvidenceInv, ReplayInv
<1>5. events = [count |-> NumEvents, ended |-> TRUE]
  BY <1>2, <1>4
<1>6. BundleWhole
  BY <1>1, <1>5 DEF BundleWhole
<1>7. DirectoryInv' /\ AcceptedInv' /\ FilesInv' /\ ReplayInv'
  BY <1>1 DEF EvidenceInv, DirectoryInv, AcceptedInv, FilesInv, ReplayInv, BundleWhole,
              Agrees, Writing
<1>8. EvidenceHolds'
  BY <1>1, <1>6 DEF EvidenceInv, EvidenceHolds, BundleWhole
<1>9. QED
  BY <1>7, <1>8 DEF EvidenceInv

LEMMA EvidenceStep ==
    ASSUME LedgerInv, EvidenceInv, [Next]_vars
    PROVE  EvidenceInv'
<1>1. CASE UNCHANGED vars
  BY <1>1, VerifyingKeeps DEF vars
<1>2. ASSUME NEW v \in Verifications,
             \/ Reconstruct(v) \/ CreateReport(v) \/ WriteReport(v) \/ AppendRow(v)
             \/ VerifyFails(v)
      PROVE  EvidenceInv'
  <2>1. UNCHANGED <<export, bundle, replay>>
    BY <1>2 DEF Reconstruct, CreateReport, WriteReport, AppendRow, VerifyFails
  <2>2. QED
    BY <2>1, VerifyingKeeps
<1>3. ASSUME NEW e \in Exports, CloseFiles(e) \/ Parity(e) PROVE EvidenceInv'
  <2>1. PICK to \in {"parity", "mark"} :
            /\ export[e].at \in {"close", "parity"}
            /\ export' = [export EXCEPT ![e].at = to]
            /\ to = "mark" => Agrees(e)
            /\ UNCHANGED <<reports, bundle, replay>>
    BY <1>3 DEF CloseFiles, Parity, Exporting
  <2>2. export[e].at \in Inside \ {"done"}
    BY <2>1 DEF Inside
  <2>3. QED
    BY <2>1, <2>2, OwnerOnlyMoves
<1>4. ASSUME NEW e \in Exports, ExportRaises(e) PROVE EvidenceInv'
  <2>1. /\ export' = [export EXCEPT ![e].at = "failed"] /\ ~Ended(e)
        /\ UNCHANGED <<reports, bundle, replay>>
    BY <1>4 DEF ExportRaises
  <2>2. export[e] \in ExportState
    BY DEF EvidenceInv, DirectoryInv
  <2>3. \/ export[e].at \in {"idle", "mkdir"}
        \/ export[e].at \in Inside \ {"done"}
    BY <2>1, <2>2 DEF ExportState, Ended
  <2>4. QED
    BY <2>1, <2>3, OutsideFails, OwnerOnlyMoves
<1>5. ASSUME NEW e \in Exports,
             \/ AcceptReport(e) \/ MakeDirectory(e) \/ WriteEvent(e) \/ EndEvents(e)
             \/ CreateMarker(e) \/ FillMarker(e) \/ Killed(e)
      PROVE  EvidenceInv'
  BY <1>5, AcceptKeeps, MakeDirectoryKeeps, WriteEventKeeps, EndEventsKeeps, MarkerKeeps,
     KilledKeeps
<1>6. ASSUME NEW k \in Intervals, Replay(k) PROVE EvidenceInv'
  BY <1>6, ReplayKeeps
<1>7. CASE Compare
  BY <1>7, CompareKeeps
<1>8. QED
  BY <1>1, <1>2, <1>3, <1>4, <1>5, <1>6, <1>7 DEF Next

(* The inductive invariant of the exports and replays (export_recording,    *)
(* historical_replay, compare).                                             *)
THEOREM ExportInvariant == Spec => []EvidenceInv
<1>1. LedgerInv /\ EvidenceInv /\ [Next]_vars => EvidenceInv'
  BY EvidenceStep
<1>2. QED
  BY <1>1, EvidenceInitially, ReportInvariant, PTL DEF Spec

(* If there is an evidence.json, whole or not, or a comparison has          *)
(* succeeded, the bundle is whole; with evidence.json it also agrees with   *)
(* the passing report that is on disk, whichever exports, verifications and *)
(* replays ran, raised or were killed on the way (export_recording).        *)
THEOREM EvidenceIsSound == Spec => []EvidenceHolds
<1>1. EvidenceInv => EvidenceHolds
  BY DEF EvidenceInv
<1>2. QED
  BY <1>1, ExportInvariant, PTL
=============================================================================
