--------------------------- MODULE OffloadProofs ---------------------------
(***************************************************************************)
(* NothingLost of Offload, for every number of days, files, failures and   *)
(* every minimum age, and however the recorder, the offload and the        *)
(* pruning interleave.                                                     *)
(***************************************************************************)
EXTENDS Offload, TLAPS

Shape ==
    /\ today \in 0 .. NumDays
    /\ local \in [Day -> SUBSET File]
    /\ manifest \in [Day -> Age \cup {None}]
    /\ marker \subseteq Day
    /\ whole \in [Day -> SUBSET File]
    /\ todo \subseteq Day
    /\ sending \subseteq File
    /\ candidates \subseteq Day \X Streams

(* A day that is listed and has no marker is still all on the disk.         *)
Kept == \A d \in Day : manifest[d] # None /\ d \notin marker => local[d] = File

(* A day that has one has a manifest and is all on the remote.              *)
Sent == \A d \in marker : manifest[d] # None /\ whole[d] = File

(* The day the loop works on has its manifest, and no marker yet; past the  *)
(* check it is all on the remote.                                           *)
AtWork ==
    /\ stage \in {"loop", "copy", "check", "touch"} => \A d \in todo : manifest[d] # None
    /\ stage \in {"copy", "check", "touch"} =>
           day \in Day /\ manifest[day] # None /\ day \notin marker
    /\ stage = "touch" => whole[day] = File

(* Only closed days get a manifest.                                         *)
Past == todo \cup Listable \subseteq Closed

OffloadInv == Shape /\ Past /\ Kept /\ Sent /\ AtWork

LEMMA OlderIsAge == ASSUME NEW n \in Age PROVE Older(n) \in Age
BY OffloadAssumption DEF Older, Age

LEMMA InvInitially == Init => OffloadInv
BY OffloadAssumption DEF Init, OffloadInv, Shape, Past, Kept, Sent, AtWork, Day, File, Listable

(* Midnight takes no manifest away, and adds files to a day without one.    *)
LEMMA MidnightKeeps == OffloadInv /\ Midnight => OffloadInv'
<1> SUFFICES ASSUME OffloadInv, Midnight PROVE OffloadInv'
  OBVIOUS
<1> USE DEF OffloadInv
<1>1. UNCHANGED <<marker, whole, stage, todo, day, sending, candidates>>
  BY DEF Midnight, remote, offload
<1>2. manifest' \in [Day -> Age \cup {None}]
  BY OlderIsAge DEF Midnight, Aged, Shape
<1>3. ASSUME NEW d \in Day PROVE manifest'[d] = None <=> manifest[d] = None
  BY OlderIsAge, OffloadAssumption DEF Midnight, Aged, Shape
<1>4. local' \in [Day -> SUBSET File] /\ today' \in 0 .. NumDays /\ today <= today'
  BY OffloadAssumption DEF Midnight, Shape, File
<1>5. Shape'
  BY <1>1, <1>2, <1>4 DEF Shape
<1>6. Past'
  BY <1>1, <1>3, <1>4 DEF Past, Shape, Listable, Closed, Day
<1>7. ASSUME NEW d \in Day, manifest[d] # None PROVE local'[d] = local[d]
  <2>1. d # today
    BY <1>7 DEF Past, Listable, Closed, Shape, Day
  <2>2. QED
    BY <2>1, <1>7 DEF Midnight, Shape
<1>8. Kept' /\ Sent' /\ AtWork'
  BY <1>1, <1>3, <1>7 DEF Shape, Kept, Sent, AtWork
<1>9. QED
  BY <1>5, <1>6, <1>8

(* A recovery, or the finalizer, gives a closed day its manifest.           *)
LEMMA FinalizedKeeps ==
    ASSUME OffloadInv, NEW d \in Closed, Finalized(d),
           UNCHANGED <<today, marker, remote, stage, day, sending, candidates>>,
           todo' \subseteq todo
    PROVE  OffloadInv'
<1> USE DEF OffloadInv
<1>1. d \in Day /\ UNCHANGED whole
  BY DEF Closed, remote
<1>2. manifest' \in [Day -> Age \cup {None}] /\ local' \in [Day -> SUBSET File]
  <2>1. 0 \in Age
    BY OffloadAssumption DEF Age
  <2>2. QED
    BY <1>1, <2>1 DEF Finalized, Shape
<1>3. \A e \in Day : /\ manifest[e] # None => manifest'[e] = manifest[e] /\ e # d
                     /\ e # d => local'[e] = local[e] /\ manifest'[e] = manifest[e]
  BY <1>1 DEF Finalized, Shape
<1>4. local'[d] = File
  BY <1>1 DEF Finalized, Shape
<1>5. Shape'
  BY <1>1, <1>2 DEF Shape
<1>6. Past'
  BY <1>1, <1>3 DEF Past, Listable, Closed, Shape
<1>7. Kept'
  BY <1>3, <1>4 DEF Kept
<1>8. Sent' /\ AtWork'
  BY <1>1, <1>3 DEF Shape, Sent, AtWork
<1>9. QED
  BY <1>5, <1>6, <1>7, <1>8

(* What the offload does to the remote and to its own place.                *)
LEMMA OffloadKeeps ==
    ASSUME OffloadInv, OffloadStarts \/ OffloadStep \/ OffloadFails
    PROVE  OffloadInv'
<1> USE DEF OffloadInv
<1> DEFINE Same == UNCHANGED <<today, disk, candidates>>
<1>1. CASE OffloadStarts
  BY <1>1 DEF OffloadStarts, Goes, Shape, Past, Kept, Sent, AtWork, Closed, Listable,
              disk, remote
<1>2. CASE FinalizeDay
  <2>1. PICK d \in todo : /\ todo' = todo \ {d}
                          /\ Finalized(d) \/ (manifest[d] # None /\ UNCHANGED <<local, manifest>>)
    BY <1>2 DEF FinalizeDay
  <2>2. UNCHANGED <<today, marker, remote, stage, day, sending, candidates>>
    BY <1>2 DEF FinalizeDay
  <2>3. CASE Finalized(d)
    BY <2>1, <2>2, <2>3, FinalizedKeeps DEF Past
  <2>4. CASE UNCHANGED <<local, manifest>>
    BY <2>1, <2>2, <2>4 DEF Shape, Past, Kept, Sent, AtWork, Closed, Listable, remote
  <2>5. QED
    BY <2>1, <2>3, <2>4
<1>3. CASE FindManifests
  BY <1>3 DEF FindManifests, Goes, Shape, Past, Kept, Sent, AtWork, Closed, Listable,
              disk, remote
<1>4. CASE NextDay
  <2>1. PICK d \in Unmarked : /\ day' = d /\ todo' = todo \ {d}
                              /\ sending' = local[d] \ whole[d]
    BY <1>4 DEF NextDay
  <2>2. d \in Day /\ d \notin marker /\ manifest[d] # None
    BY <1>4, <2>1 DEF NextDay, Goes, Unmarked, Shape, AtWork
  <2>3. QED
    BY <1>4, <2>1, <2>2 DEF NextDay, Goes, Shape, Past, Kept, Sent, AtWork, Closed, Listable,
                            disk, remote
<1>5. CASE OffloadEnds
  BY <1>5 DEF OffloadEnds, Goes, Shape, Past, Kept, Sent, AtWork, Closed, Listable,
              disk, remote
<1>6. CASE CopyFile
  <2>1. PICK f \in sending : /\ sending' = sending \ {f}
                             /\ \/ whole' = [whole EXCEPT ![day] = @ \cup {f}]
                                \/ UNCHANGED whole
    BY <1>6 DEF CopyFile
  <2>2. stage = "copy" /\ UNCHANGED <<today, disk, stage, todo, day, candidates>>
    BY <1>6 DEF CopyFile
  <2>3. day \in Day /\ day \notin marker
    BY <2>2 DEF AtWork
  <2>4. /\ whole' \in [Day -> SUBSET File]
        /\ \A e \in marker : whole'[e] = whole[e]
    BY <2>1, <2>3 DEF Shape
  <2>5. QED
    BY <2>1, <2>2, <2>3, <2>4 DEF Shape, Past, Kept, Sent, AtWork, Closed, Listable, disk
<1>7. CASE CopyEnds
  BY <1>7 DEF CopyEnds, Goes, Shape, Past, Kept, Sent, AtWork, Closed, Listable,
              disk, remote
<1>8. CASE CheckPasses
  <2>1. day \in Day /\ local[day] = File /\ local[day] = whole[day]
    BY <1>8 DEF CheckPasses, SameContents, AtWork, Kept
  <2>2. QED
    BY <1>8, <2>1 DEF CheckPasses, Shape, Past, Kept, Sent, AtWork, Closed, Listable,
                      disk, remote
<1>9. CASE CheckRefuses
  BY <1>9 DEF CheckRefuses, EndOffload, Shape, Past, Kept, Sent, AtWork, Closed, Listable,
              disk, remote
<1>10. CASE Touch
  <2>1. day \in Day /\ manifest[day] # None /\ whole[day] = File
    BY <1>10 DEF Touch, Goes, AtWork
  <2>2. QED
    BY <1>10, <2>1 DEF Touch, Goes, Shape, Past, Kept, Sent, AtWork, Closed, Listable, remote
<1>11. CASE OffloadFails
  BY <1>11 DEF OffloadFails, EndOffload, Shape, Past, Kept, Sent, AtWork, Closed, Listable,
               disk, remote
<1>12. QED
  BY <1>1, <1>2, <1>3, <1>4, <1>5, <1>6, <1>7, <1>8, <1>9, <1>10, <1>11 DEF OffloadStep

(* The pruning deletes from days with a marker only.                        *)
LEMMA PruneKeeps ==
    ASSUME OffloadInv, PruneStarts \/ PruneStep \/ PruneFails
    PROVE  OffloadInv'
<1> USE DEF OffloadInv
<1>1. CASE Unlink
  <2>1. PICK c \in candidates : /\ Uploaded(c[1]) /\ candidates' = candidates \ {c}
                                /\ local' = [local EXCEPT ![c[1]] = @ \ {c[2]}]
    BY <1>1 DEF Unlink
  <2>2. UNCHANGED <<today, manifest, marker, remote, offload>>
    BY <1>1 DEF Unlink
  <2>3. /\ local' \in [Day -> SUBSET File]
        /\ \A d \in Day : d \notin marker => local'[d] = local[d]
    BY <2>1 DEF Shape, Uploaded
  <2>4. QED
    BY <2>1, <2>2, <2>3 DEF Shape, Past, Kept, Sent, AtWork, Closed, Listable, remote, offload
<1>2. CASE PruneStarts
  BY <1>2 DEF PruneStarts, Shape, Past, Kept, Sent, AtWork, Closed, Listable,
              disk, remote, offload
<1>3. CASE PassOver \/ PruneFails
  BY <1>3 DEF PassOver, PruneFails, Shape, Past, Kept, Sent, AtWork, Closed, Listable,
              disk, remote, offload
<1>4. QED
  BY <1>1, <1>2, <1>3 DEF PruneStep

LEMMA InvKept == OffloadInv /\ [Next]_vars => OffloadInv'
<1> SUFFICES ASSUME OffloadInv, [Next]_vars PROVE OffloadInv'
  OBVIOUS
<1>1. CASE Midnight
  BY <1>1, MidnightKeeps
<1>2. CASE RecorderRecovers
  BY <1>2, FinalizedKeeps DEF RecorderRecovers, offload
<1>3. CASE OffloadStarts \/ OffloadStep \/ OffloadFails
  BY <1>3, OffloadKeeps
<1>4. CASE PruneStarts \/ PruneStep \/ PruneFails
  BY <1>4, PruneKeeps
<1>5. CASE UNCHANGED vars
  BY <1>5 DEF vars, disk, remote, offload, OffloadInv, Shape, Past, Kept, Sent, AtWork,
              Closed, Listable
<1>6. QED
  BY <1>1, <1>2, <1>3, <1>4, <1>5 DEF Next

(* The inductive invariant of the upload: kept on the disk without a        *)
(* marker, on the remote with one (offload.sh, prune_verified.py).          *)
THEOREM UploadInvariant == Spec => []OffloadInv
BY InvInitially, InvKept, PTL DEF Spec

(* Whatever fails, a file of a day with a manifest is on the disk or        *)
(* intact on the remote.                                                    *)
THEOREM NothingIsLost == Spec => []NothingLost
<1>1. OffloadInv => NothingLost
  BY DEF OffloadInv, Shape, Kept, Sent, NothingLost, Listable
<1>2. QED
  BY <1>1, UploadInvariant, PTL
=============================================================================
