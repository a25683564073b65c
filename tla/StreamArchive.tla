--------------------------- MODULE StreamArchive ---------------------------
(***************************************************************************)
(* What the storage layer promises about the records of one hourly file:   *)
(* the records a reader can recover only ever grow, by one record at a     *)
(* time, until the file is sealed; a sealed file never changes again.  A   *)
(* record that was not written whole is doubtful: it may come in with the  *)
(* seal, or never.                                                         *)
(* Storage implements this specification: crashes, restarts, repairs and   *)
(* renames are all invisible here.                                         *)
(***************************************************************************)
EXTENDS Naturals

CONSTANT Key          \* the hourly files: a stream and an hour each

VARIABLES log,        \* log[k]: how many records of k a reader can recover
          doubtful,   \* doubtful[k]: how many records of k are doubtful
          sealed      \* the files that are finalized

archiveVars == <<log, doubtful, sealed>>

ArchiveInit == /\ log = [k \in Key |-> 0]
               /\ doubtful = [k \in Key |-> 0]
               /\ sealed = {}

Accept(k) == /\ k \notin sealed
             /\ log' = [log EXCEPT ![k] = @ + 1]
             /\ UNCHANGED <<doubtful, sealed>>

Doubt(k) == /\ k \notin sealed
            /\ doubtful' = [doubtful EXCEPT ![k] = @ + 1]
            /\ UNCHANGED <<log, sealed>>

Seal(k) == /\ k \notin sealed
           /\ sealed' = sealed \cup {k}
           /\ \E n \in 0 .. doubtful[k] : log' = [log EXCEPT ![k] = @ + n]
           /\ UNCHANGED doubtful

ArchiveNext == \E k \in Key : Accept(k) \/ Doubt(k) \/ Seal(k)

ArchiveSpec == ArchiveInit /\ [][ArchiveNext]_archiveVars
=============================================================================
