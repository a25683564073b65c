------------------------------ MODULE Offload ------------------------------
(***************************************************************************)
(* The nightly offload (deploy/offload.sh) and the nightly pruning         *)
(* (deploy/prune_verified.py) over the day directories of one symbol, and  *)
(* the recorder, which closes a day and after a restart builds missing     *)
(* manifests too.  The two jobs are processes that know of each other only *)
(* by the marker manifest-*.json.uploaded; either may fail at any step.    *)
(*                                                                         *)
(* Module Storage has the files themselves; from it this one takes that a  *)
(* final manifest lists all files of its day and is written once           *)
(* (ManifestComplete).  Here a day's files come into being when the day    *)
(* closes or, if a crash has left their WAL, with the manifest.            *)
(***************************************************************************)
EXTENDS Integers

CONSTANTS
    NumDays,        \* bound: days 0 .. NumDays - 1 are recorded
    Streams,        \* the stream and HTTP files of a day
    Ledger,         \* its ledger
    MinimumAge,     \* --minimum-age-hours, in days
    MaxFaults,      \* bound: failures and damaged transfers
    None            \* no manifest, no day

Day   == 0 .. NumDays - 1
File  == Streams \cup {Ledger}
Age   == 0 .. MinimumAge    \* as old as MinimumAge, or older, is MinimumAge

ASSUME OffloadAssumption ==
    /\ NumDays \in Nat /\ MinimumAge \in Nat /\ MaxFaults \in Nat
    /\ Ledger \notin Streams /\ None \notin Day \cup Age

VARIABLES
    today,          \* the UTC day that is recorded; NumDays when all are closed
    \* the directories
    local,          \* the files of each day
    age,            \* the days since they were written
    manifest,       \* the age of the final manifest, or None
    marker,         \* days with manifest-*.json.uploaded
    \* the remote
    whole, damaged, \* files of each day that have arrived, intact or not
    \* the processes
    stage,          \* what offload.sh is at
    todo,           \* days finalize_previous_days, then the loop, has to visit
    day,            \* the day of the loop
    sending,        \* its files that rclone copy has still to send
    candidates,     \* what prune_verified.py has still to look at
    faults

remote  == <<whole, damaged>>
disk    == <<local, age, manifest, marker>>
offload == <<stage, todo, day, sending>>
vars == <<today, disk, remote, offload, candidates, faults>>

Init ==
    /\ today = 0
    /\ local = [d \in Day |-> {}]
    /\ age = [d \in Day |-> [f \in File |-> 0]]
    /\ manifest = [d \in Day |-> None]
    /\ marker = {}
    /\ whole = [d \in Day |-> {}] /\ damaged = [d \in Day |-> {}]
    /\ stage = "idle" /\ todo = {} /\ day = None /\ sending = {}
    /\ candidates = {}
    /\ faults = 0

-----------------------------------------------------------------------------
(* Time and the recorder.                                                   *)
Closed    == {d \in Day : d < today}
Listable  == {d \in Day : manifest[d] # None}
Older(n)  == IF n = MinimumAge THEN n ELSE n + 1

Aged == /\ age' = [d \in Day |-> [f \in File |->
                                    IF f \in local[d] THEN Older(age[d][f]) ELSE age[d][f]]]
        /\ manifest' = [d \in Day |-> IF manifest[d] = None THEN None ELSE Older(manifest[d])]

(* Midnight.  The day close finalizes the files of the day, but for those   *)
(* whose WAL a failure leaves to a recovery.                                *)
Midnight ==
    /\ Aged
    /\ \/ /\ today < NumDays
          /\ today' = today + 1
          /\ \E left \in SUBSET Streams : local' = [local EXCEPT ![today] = File \ left]
       \/ /\ today = NumDays
          /\ UNCHANGED <<today, local>>
    /\ UNCHANGED <<marker, remote, offload, candidates, faults>>

(* finalize_previous_days on a directory: what a WAL is left of is          *)
(* finalized, then the manifest written if there is none.                   *)
Finalized(d) ==
    /\ manifest[d] = None
    /\ local' = [local EXCEPT ![d] = File]
    /\ manifest' = [manifest EXCEPT ![d] = 0]

RecorderRecovers ==
    /\ \E d \in Closed : Finalized(d)
    /\ UNCHANGED <<today, age, marker, remote, offload, candidates, faults>>

-----------------------------------------------------------------------------
(* offload.sh.  Under `set -e` every failure of a step ends it.             *)
Goes(from, to) == stage = from /\ stage' = to

(* The timer, or an operator, starts it: finalize-closed-days.              *)
OffloadStarts ==
    /\ Goes("idle", "finalize")
    /\ todo' = Closed
    /\ UNCHANGED <<today, disk, remote, day, sending, candidates, faults>>

FinalizeDay ==
    /\ stage = "finalize"
    /\ \E d \in todo :
           /\ \A e \in todo : d <= e
           /\ todo' = todo \ {d}
           /\ Finalized(d) \/ (manifest[d] # None /\ UNCHANGED <<local, manifest>>)
    /\ UNCHANGED <<today, age, marker, remote, stage, day, sending, candidates, faults>>

FindManifests ==
    /\ Goes("finalize", "loop") /\ todo = {}
    /\ todo' = Listable
    /\ UNCHANGED <<today, disk, remote, day, sending, candidates, faults>>

(* The loop visits the manifests in the order of find, that is in any, and  *)
(* skips a day that has its marker.                                         *)
(* Slip: only the days that have just got their manifest are visited.       *)
JustFinalized == {d \in todo : d \notin marker /\ manifest[d] = 0}

Unmarked == {d \in todo : d \notin marker}

NextDay ==
    /\ Goes("loop", "copy")
    /\ \E d \in Unmarked : /\ day' = d /\ todo' = todo \ {d}
                          /\ sending' = local[d] \ whole[d]
    /\ UNCHANGED <<today, disk, remote, candidates, faults>>

OffloadEnds ==
    /\ Goes("loop", "idle") /\ Unmarked = {}
    /\ todo' = {}
    /\ UNCHANGED <<today, disk, remote, day, sending, candidates, faults>>

(* rclone copy sends what is missing on the remote or differs there.        *)
CopyFile ==
    /\ stage = "copy"
    /\ \E f \in sending :
           /\ sending' = sending \ {f}
           /\ \/ /\ whole' = [whole EXCEPT ![day] = @ \cup {f}]
                 /\ damaged' = [damaged EXCEPT ![day] = @ \ {f}]
                 /\ UNCHANGED faults
              \/ /\ faults < MaxFaults
                 /\ damaged' = [damaged EXCEPT ![day] = @ \cup {f}]
                 /\ faults' = faults + 1
                 /\ UNCHANGED whole
    /\ UNCHANGED <<today, disk, stage, todo, day, candidates>>

CopyEnds ==
    /\ Goes("copy", "check") /\ sending = {}
    /\ UNCHANGED <<today, disk, remote, todo, day, sending, candidates, faults>>

(* rclone check --download compares the contents of both sides.             *)
(* Slip: without --download, what is there is taken to be intact.           *)
SameNames(d) == local[d] = whole[d] \cup damaged[d]

SameContents(d) == local[d] = whole[d] /\ damaged[d] = {}

CheckPasses ==
    /\ stage = "check" /\ SameContents(day)
    /\ stage' = "touch"
    /\ UNCHANGED <<today, disk, remote, todo, day, sending, candidates, faults>>

EndOffload == stage' = "idle" /\ todo' = {} /\ day' = None /\ sending' = {}

CheckRefuses ==
    /\ stage = "check" /\ ~SameContents(day)
    /\ EndOffload
    /\ UNCHANGED <<today, disk, remote, candidates, faults>>

Touch ==
    /\ Goes("touch", "loop")
    /\ marker' = marker \cup {day}
    /\ UNCHANGED <<today, local, age, manifest, remote, todo, day, sending, candidates, faults>>

OffloadFails ==
    /\ stage # "idle" /\ faults < MaxFaults
    /\ faults' = faults + 1
    /\ EndOffload
    /\ UNCHANGED <<today, disk, remote, candidates>>

-----------------------------------------------------------------------------
(* prune_verified.py: the cutoff is taken once.  Of the days with an old    *)
(* manifest, which are then asked for their marker, the files the manifest  *)
(* lists go if they are old too, but for the ledger.                        *)
Old(d, f) == manifest[d] = MinimumAge /\ age[d][f] = MinimumAge

PruneStarts ==
    /\ candidates = {}
    /\ candidates' = {c \in Day \X Streams : c[2] \in local[c[1]] /\ Old(c[1], c[2])}
    /\ candidates' # {}
    /\ UNCHANGED <<today, disk, remote, offload, faults>>

(* Slip: the manifest is enough.                                            *)
Finished(d) == d \in Listable

Uploaded(d) == d \in marker

Unlink ==
    /\ \E c \in candidates :
           /\ Uploaded(c[1])
           /\ candidates' = candidates \ {c}
           /\ local' = [local EXCEPT ![c[1]] = @ \ {c[2]}]
    /\ UNCHANGED <<today, age, manifest, marker, remote, offload, faults>>

PassOver ==
    /\ \E d \in Day : /\ ~Uploaded(d) /\ \E c \in candidates : c[1] = d
                      /\ candidates' = {c \in candidates : c[1] # d}
    /\ UNCHANGED <<today, disk, remote, offload, faults>>

PruneFails ==
    /\ candidates # {} /\ faults < MaxFaults
    /\ candidates' = {}
    /\ faults' = faults + 1
    /\ UNCHANGED <<today, disk, remote, offload>>

-----------------------------------------------------------------------------
OffloadStep == FinalizeDay \/ FindManifests \/ NextDay \/ OffloadEnds \/ CopyFile
               \/ CopyEnds \/ CheckPasses \/ CheckRefuses \/ Touch

PruneStep == Unlink \/ PassOver

Next ==
    \/ Midnight \/ RecorderRecovers
    \/ OffloadStarts \/ OffloadStep \/ OffloadFails
    \/ PruneStarts \/ PruneStep \/ PruneFails

(* Time passes, and the two timers fire every night.                        *)
Fairness == /\ WF_vars(Midnight)
            /\ WF_vars(OffloadStarts) /\ WF_vars(OffloadStep)
            /\ WF_vars(PruneStarts) /\ WF_vars(PruneStep)

Spec     == Init /\ [][Next]_vars
FairSpec == Spec /\ Fairness

-----------------------------------------------------------------------------
(* "A local manifest-*.json.uploaded marker is created only after rclone    *)
(* check --download succeeds" (docs/depth-recorder.md): whatever fails in   *)
(* the two jobs, a file of a day with a manifest is on the recorder's disk  *)
(* or intact on the remote.                                                 *)
NothingLost ==
    \A d \in Listable : File \subseteq local[d] \cup whole[d]

(* Nothing the jobs do keeps a day on the disk for ever: every closed day   *)
(* is left with its ledger, its upload being complete, if failures cease    *)
(* (offload.sh takes up every day without a marker again).                  *)
Freed(d) == local[d] = {Ledger} /\ whole[d] = File
EveryDayFreed == \A d \in Day : d < today ~> Freed(d)
=============================================================================
