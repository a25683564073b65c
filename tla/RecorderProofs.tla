--------------------------- MODULE RecorderProofs ---------------------------
(***************************************************************************)
(* What holds of the recorder's event loop for any size of the queue and   *)
(* any number of frames, days and failures: the invariants of the run      *)
(* recorder_loop.  All of it rests on the order in which asyncio runs the  *)
(* tasks it has woken.                                                     *)
(***************************************************************************)
EXTENDS Recorder, TLAPS

(* Where handles stand in a list.                                           *)
Has(r, h) == \E i \in DOMAIN r : r[i] = h
Precedes(r, g, h) == \E i, j \in DOMAIN r : i < j /\ r[i] = g /\ r[j] = h
Distinct(r) == \A i, j \in DOMAIN r : r[i] = r[j] => i = j

Places == {"receiving", "putting", "away", "getting", "sleeping", "joining", "finalizing",
           "waiting", "gathering", "awaiting", "exited", "done", "failed"}

WorkersDone == at[Supervisor] = "done" /\ at[DayCloser] = "done"

(* Who may be scheduled, and who may hold the loop.                         *)
LoopInv ==
    /\ at \in [Task -> Places]
    /\ \A t \in Worker : at[t] = "done" => ~Has(ready, t)
    /\ at[Writer] # "getting" => ~Has(ready, Writer)
    /\ running \in {NoTask, Supervisor, Writer}
    /\ running # NoTask => ~Has(ready, running) /\ at[Main] # "exited"
    /\ running = Supervisor => at[Supervisor] = "receiving"
    /\ running = Writer => at[Writer] = "getting"

(* How far run() is.                                                        *)
MainInv ==
    /\ at[Main] = "waiting" <=> ~cancelled
    /\ Has(ready, Main) \/ at[Main] # "waiting" => stop
    /\ at[Main] = "gathering" /\ Has(ready, Main) => WorkersDone
    /\ at[Main] \in {"joining", "awaiting", "exited"} => WorkersDone
    /\ at[Main] = "joining" /\ Has(ready, Main) => queue = <<>>
    /\ at[Main] = "awaiting" =>
          \/ queue = <<Stop>> /\ at[Writer] # "done"
          \/ queue = <<>> /\ at[Writer] = "done"
    /\ at[Main] = "awaiting" /\ Has(ready, Main) => at[Writer] = "done"
    /\ at[Main] = "exited" => queue = <<>> /\ at[Writer] \in {"done", "failed"}
    /\ at[Main] # "awaiting" => \A i \in DOMAIN queue : queue[i] # Stop
    /\ at[Writer] = "done" => at[Main] \in {"awaiting", "exited"}

(* The records on their way: none is missing and none out of order.         *)
IsQueued(k)  == \E i \in DOMAIN queue : queue[i] # Stop /\ queue[i].id = k
IsBlocked(k) == blocked # NoRecord /\ blocked.id = k
OnItsWay(k)  == IsQueued(k) \/ IsBlocked(k)

WayInv ==
    /\ \A k \in 1 .. received : k \in Written \cup dropped \cup lost \/ OnItsWay(k)
    /\ \A k : OnItsWay(k) => k \in 1 .. received /\ k \notin dropped
    /\ \A k, w : OnItsWay(k) /\ w \in Written => w < k
    /\ \A i, j \in DOMAIN queue :
          i < j /\ queue[i] # Stop /\ queue[j] # Stop => queue[i].id < queue[j].id
    /\ \A k : IsQueued(k) /\ (blocked # NoRecord \/ lost # {}) => k < received

StreamInv ==
    /\ WrittenInOrder
    /\ Written \subseteq 1 .. received /\ dropped \subseteq 1 .. received
    /\ lost = {} \/ (lost = {received} /\ at[Supervisor] = "done")
    /\ blocked # NoRecord <=> at[Supervisor] = "putting"
    /\ blocked # NoRecord => blocked.id = received
    /\ received + inbox <= sent
    /\ IF at[Writer] = "failed" THEN failures > 0 ELSE WayInv

(* Whoever waits for the queue has been woken as soon as he can go on.      *)
WakeInv ==
    /\ at[Supervisor] = "putting" /\ ~Has(ready, Supervisor) => IsFull
    /\ at[Supervisor] = "putting" /\ Has(ready, Supervisor) /\ ~cancelled => ~IsFull
    /\ queue # <<>> /\ at[Writer] = "getting" => Has(ready, Writer) \/ running = Writer

(* When the day-close task is about to close the date.                      *)
CloseInv ==
    /\ closing <= day
    /\ ~cancelled /\ Has(ready, Timer) =>
          at[DayCloser] = "sleeping" /\ closing < day /\ ~Has(ready, DayCloser)
    /\ ~cancelled /\ Has(ready, DayCloser) => closing < day
    /\ at[DayCloser] \in {"joining", "finalizing"} => closing < day
    /\ \A d \in Days : store[d] # "active" => d < day

(* A record stamped on the date that is to be closed and still to be put    *)
(* makes its way before the day-close task.                                 *)
OldBlocked == blocked # NoRecord /\ blocked.day <= closing
Stranded == at[Writer] = "failed" /\ ~Has(ready, Supervisor)

OrderInv ==
    ~cancelled =>
    /\ Has(ready, Timer) /\ OldBlocked =>
          \/ Has(ready, Supervisor) \/ running = Writer \/ at[Writer] = "failed"
          \/ Precedes(ready, Writer, Timer)
    /\ at[DayCloser] = "sleeping" /\ Has(ready, DayCloser) /\ OldBlocked =>
          Precedes(ready, Supervisor, DayCloser) \/ Stranded
    /\ at[DayCloser] = "joining" /\ OldBlocked => Stranded
    /\ at[DayCloser] = "joining" /\ Has(ready, DayCloser) =>
          \A r \in Pending \ {Stop, NoRecord} : r.day > closing

RecorderInv == /\ TypeOK /\ LoopInv /\ MainInv /\ StreamInv /\ WakeInv /\ CloseInv
               /\ OrderInv /\ DrainedAtDetach

-----------------------------------------------------------------------------
(* The list of handles: what waking a task and taking the first one do.     *)
LEMMA Names ==
    /\ Worker = {Supervisor, DayCloser} /\ Task = {Supervisor, DayCloser, Writer, Main}
    /\ Handle = {Supervisor, DayCloser, Writer, Main, Timer}
    /\ Supervisor # DayCloser /\ Supervisor # Writer /\ Supervisor # Main /\ Supervisor # Timer
    /\ DayCloser # Writer /\ DayCloser # Main /\ DayCloser # Timer
    /\ Writer # Main /\ Writer # Timer /\ Main # Timer
    /\ NoTask \notin Handle
  BY DEF Worker, Task, Handle, Supervisor, DayCloser, Writer, Main, Timer, NoTask

(* A good list of handles.                                                  *)
Handles(r) == r \in Seq(Handle) /\ Distinct(r)

LEMMA WakeFacts ==
    ASSUME NEW r, Handles(r), NEW h \in Handle
    PROVE  /\ Handles(Wake(r, h))
           /\ \A g : Has(Wake(r, h), g) <=> Has(r, g) \/ g = h
           /\ \A f, g : Precedes(r, f, g) => Precedes(Wake(r, h), f, g)
           /\ ~Has(r, h) => \A g : Has(r, g) => Precedes(Wake(r, h), g, h)
  <1>1. CASE Has(r, h)
    BY <1>1 DEF Wake, Has
  <1>2. CASE ~Has(r, h)
    <2> DEFINE w == Append(r, h)
    <2>1. Wake(r, h) = w
      BY <1>2 DEF Wake, Has
    <2>2. /\ w \in Seq(Handle) /\ Len(w) = Len(r) + 1 /\ w[Len(r) + 1] = h
          /\ \A i \in 1 .. Len(r) : w[i] = r[i]
          /\ DOMAIN r = 1 .. Len(r) /\ DOMAIN w = 1 .. Len(r) + 1 /\ Len(r) \in Nat
      BY DEF Handles
    <2> HIDE DEF w
    <2>3. Distinct(w)
      BY <1>2, <2>2 DEF Distinct, Handles, Has
    <2>4. \A g : Has(w, g) <=> Has(r, g) \/ g = h
      BY <2>2 DEF Has
    <2>5. \A f, g : Precedes(r, f, g) => Precedes(w, f, g)
      BY <2>2 DEF Precedes
    <2>6. \A g : Has(r, g) => Precedes(w, g, h)
      BY <2>2 DEF Has, Precedes
    <2>7. QED
      BY <2>1, <2>2, <2>3, <2>4, <2>5, <2>6 DEF Handles
  <1>3. QED
    BY <1>1, <1>2

LEMMA TailFacts ==
    ASSUME NEW r, Handles(r), r # <<>>
    PROVE  /\ Handles(Tail(r)) /\ Head(r) \in Handle /\ Has(r, Head(r))
           /\ \A g : Has(Tail(r), g) <=> Has(r, g) /\ g # Head(r)
           /\ \A f, g : f # Head(r) /\ Precedes(r, f, g) => Precedes(Tail(r), f, g)
           /\ \A f : ~Precedes(r, f, Head(r))
  <1> DEFINE t == Tail(r)
  <1>1. /\ t \in Seq(Handle) /\ Len(t) = Len(r) - 1 /\ Len(r) \in Nat \ {0}
        /\ DOMAIN r = 1 .. Len(r) /\ DOMAIN t = 1 .. Len(r) - 1
        /\ \A i \in 1 .. Len(r) - 1 : t[i] = r[i + 1]
        /\ Head(r) = r[1] /\ Head(r) \in Handle
    BY DEF Handles
  <1> HIDE DEF t
  <1>2. Distinct(t)
    BY <1>1 DEF Distinct, Handles
  <1>3. ASSUME NEW g PROVE Has(t, g) <=> Has(r, g) /\ g # Head(r)
    <2>1. ASSUME Has(t, g) PROVE Has(r, g) /\ g # Head(r)
      BY <1>1, <2>1 DEF Has, Handles, Distinct
    <2>2. ASSUME NEW i \in DOMAIN r, r[i] = g, g # Head(r) PROVE Has(t, g)
      <3>1. i - 1 \in DOMAIN t /\ t[i - 1] = r[i]
        BY <1>1, <2>2
      <3>2. QED
        BY <2>2, <3>1 DEF Has
    <2>3. QED
      BY <2>1, <2>2 DEF Has
  <1>4. ASSUME NEW f, NEW g, f # Head(r), Precedes(r, f, g) PROVE Precedes(t, f, g)
    <2>1. PICK i, j \in DOMAIN r : i < j /\ r[i] = f /\ r[j] = g
      BY <1>4 DEF Precedes
    <2>2. i - 1 \in DOMAIN t /\ j - 1 \in DOMAIN t /\ t[i - 1] = f /\ t[j - 1] = g /\ i - 1 < j - 1
      BY <1>1, <1>4, <2>1
    <2>3. QED
      BY <2>2 DEF Precedes
  <1>5. \A f : ~Precedes(r, f, Head(r))
    BY <1>1 DEF Precedes, Handles, Distinct
  <1>6. Has(r, Head(r))
    BY <1>1 DEF Has
  <1>7. QED
    BY <1>1, <1>2, <1>3, <1>4, <1>5, <1>6 DEF Handles, t

(* What a step does to the list: the handle in P, the first, has been taken *)
(* and those in W have been woken.                                          *)
Moved(P, W) ==
    /\ Handles(ready')
    /\ \A p \in P : Has(ready, p) /\ \A f : ~Precedes(ready, f, p)
    /\ \A g : Has(ready', g) <=> (Has(ready, g) /\ g \notin P) \/ g \in W
    /\ \A f, g : f \notin P /\ Precedes(ready, f, g) => Precedes(ready', f, g)
    /\ \A f, h : /\ Has(ready, f) /\ f \notin P /\ h \in W
                 /\ ~Has(ready, h) \/ h \in P
                 => Precedes(ready', f, h)

When(c, h) == IF c THEN {h} ELSE {}

(* The same of a list r on the way to ready'.                               *)
Reached(r, P, W) ==
    /\ Handles(r)
    /\ \A g : Has(r, g) <=> (Has(ready, g) /\ g \notin P) \/ g \in W
    /\ \A f, g : f \notin P /\ Precedes(ready, f, g) => Precedes(r, f, g)
    /\ \A f, h : /\ Has(ready, f) /\ f \notin P /\ h \in W
                 /\ ~Has(ready, h) \/ h \in P
                 => Precedes(r, f, h)

LEMMA ReachedByWaking ==
    ASSUME NEW r, NEW P, NEW W, Reached(r, P, W), NEW h \in Handle, NEW c
    PROVE  /\ Reached(Wake(r, h), P, W \cup {h})
           /\ Reached(WakeIf(r, h, c), P, W \cup When(c, h))
  <1>1. Reached(Wake(r, h), P, W \cup {h})
    BY WakeFacts DEF Reached
  <1>2. CASE c
    BY <1>1, <1>2 DEF WakeIf, When
  <1>3. CASE ~c
    <2>1. W \cup When(c, h) = W /\ WakeIf(r, h, c) = r
      BY <1>3 DEF WakeIf, When
    <2>2. QED
      BY <1>1, <2>1
  <1>4. QED
    BY <1>1, <1>2, <1>3

LEMMA ReachedAtOnce ==
    ASSUME Handles(ready)
    PROVE  Reached(ready, {}, {})
  BY DEF Reached

LEMMA ReachedByTurn ==
    ASSUME Handles(ready), ready # <<>>
    PROVE  /\ Reached(Tail(ready), {Head(ready)}, {})
           /\ Has(ready, Head(ready)) /\ \A f : ~Precedes(ready, f, Head(ready))
  BY TailFacts DEF Reached

LEMMA MovedWhenReached ==
    /\ \A W : Handles(ready) /\ Reached(ready', {}, W) => Moved({}, W)
    /\ \A P, W : /\ Reached(ready', P, W)
                 /\ \A p \in P : Has(ready, p) /\ \A f : ~Precedes(ready, f, p)
                 => Moved(P, W)
  BY DEF Reached, Moved

(* A step that takes the first handle and wakes none.                       *)
LEMMA PlainTurn ==
    ASSUME Handles(ready), NEW h, Runs(h), ready' = Tail(ready)
    PROVE  Moved({h}, {})
  <1>1. Reached(ready', {h}, {}) /\ Has(ready, h) /\ \A f : ~Precedes(ready, f, h)
    BY ReachedByTurn DEF Runs
  <1>2. QED
    BY <1>1, MovedWhenReached

(* A step that takes the first handle and wakes at most one task.           *)
LEMMA WakingTurn ==
    ASSUME Handles(ready), NEW h, Runs(h), NEW g \in Handle, NEW c,
           ready' = WakeIf(Tail(ready), g, c)
    PROVE  Moved({h}, When(c, g))
  <1>1. Reached(Tail(ready), {h}, {}) /\ Has(ready, h) /\ \A f : ~Precedes(ready, f, h)
    BY ReachedByTurn DEF Runs
  <1>2. Reached(ready', {h}, {} \cup When(c, g))
    BY <1>1, ReachedByWaking
  <1>3. QED
    BY <1>1, <1>2, MovedWhenReached

(* A step that takes none and wakes at most one.                            *)
LEMMA Waking ==
    ASSUME Handles(ready), NEW g \in Handle, NEW c, ready' = WakeIf(ready, g, c)
    PROVE  Moved({}, When(c, g))
  <1>1. Reached(ready', {}, {} \cup When(c, g))
    BY ReachedAtOnce, ReachedByWaking
  <1>2. QED
    BY <1>1, MovedWhenReached

LEMMA WakingOne ==
    ASSUME Handles(ready), NEW g \in Handle, ready' = Wake(ready, g)
    PROVE  Moved({}, {g})
  <1>1. Reached(ready', {}, {} \cup {g})
    BY ReachedAtOnce, ReachedByWaking
  <1>2. QED
    BY <1>1, MovedWhenReached

LEMMA Listed == \A h : Scheduled(h) <=> Has(ready, h)
  BY DEF Scheduled, Has

LEMMA NoMove ==
    ASSUME Handles(ready), ready' = ready
    PROVE  Moved({}, {})
  BY ReachedAtOnce, MovedWhenReached

(* What the writer wakes when it has written the last record.               *)
Joiners == IF Len(queue) > 1 THEN {}
           ELSE When(at[DayCloser] = "joining", DayCloser) \cup When(at[Main] = "joining", Main)

LEMMA ReachedByTaskDone ==
    ASSUME NEW r, NEW W, Reached(r, {}, W)
    PROVE  Reached(AfterTaskDone(r), {}, W \cup Joiners)
  <1>1. CASE Len(queue) > 1
    BY <1>1 DEF AfterTaskDone, Joiners
  <1>2. CASE ~(Len(queue) > 1)
    <2> DEFINE c == at[DayCloser] = "joining"
               m == at[Main] = "joining"
               s == WakeIf(r, DayCloser, c)
    <2>1. Reached(s, {}, W \cup When(c, DayCloser))
      BY ReachedByWaking, Names
    <2>2. AfterTaskDone(r) = WakeIf(s, Main, m)
      BY <1>2 DEF AfterTaskDone
    <2>3. Joiners = When(c, DayCloser) \cup When(m, Main)
      BY <1>2 DEF Joiners
    <2> HIDE DEF s, c, m
    <2>4. Reached(WakeIf(s, Main, m), {}, (W \cup When(c, DayCloser)) \cup When(m, Main))
      BY <2>1, ReachedByWaking, Names
    <2>5. (W \cup When(c, DayCloser)) \cup When(m, Main) = W \cup Joiners
      BY <2>3
    <2>6. QED
      BY <2>2, <2>4, <2>5
  <1>3. QED
    BY <1>1, <1>2

(* TypeOK without the list of handles.                                      *)
DataOK ==
    /\ day \in Days
    /\ running \in Task \cup {NoTask}
    /\ \A t \in Task : at[t] \in Waits(t)
    /\ inbox \in 0 .. MaxFrames
    /\ queue \in Seq(Record \cup {Stop}) /\ Len(queue) <= QueueSize
    /\ blocked \in Record \cup {NoRecord}
    /\ closing \in Days
    /\ store \in [Days -> {"active", "detached", "final", "abandoned"}]
    /\ stop \in BOOLEAN /\ cancelled \in BOOLEAN
    /\ sent \in 0 .. MaxFrames /\ received \in 0 .. MaxFrames
    /\ written \in Seq(1 .. MaxFrames)
    /\ dropped \in SUBSET (1 .. MaxFrames) /\ lost \in SUBSET (1 .. MaxFrames)
    /\ failures \in Nat

LEMMA TypesSplit ==
    /\ TypeOK <=> Handles(ready) /\ DataOK
    /\ TypeOK' <=> Handles(ready') /\ DataOK'
  BY DEF TypeOK, DataOK, Handles, Distinct

(* Where the tasks may wait, task by task.                                  *)
LEMMA Waiting ==
    /\ Waits(Supervisor) = {"receiving", "putting", "away", "done"}
    /\ Waits(Writer) = {"getting", "done", "failed"}
    /\ Waits(DayCloser) = {"sleeping", "joining", "finalizing", "done"}
    /\ Waits(Main) = {"waiting", "gathering", "joining", "awaiting", "exited"}
  BY Names DEF Waits

LEMMA Whereabouts ==
    ASSUME RecorderInv
    PROVE  /\ at \in [Task -> Places]
           /\ at[Supervisor] \in {"receiving", "putting", "away", "done"}
           /\ at[Writer] \in {"getting", "done", "failed"}
           /\ at[DayCloser] \in {"sleeping", "joining", "finalizing", "done"}
           /\ at[Main] \in {"waiting", "gathering", "joining", "awaiting", "exited"}
           /\ Handles(ready)
  BY Names, Waiting DEF RecorderInv, TypeOK, LoopInv, Handles, Distinct

(* A step that leaves the records where they are.                           *)
LEMMA StreamKept ==
    ASSUME StreamInv, UNCHANGED <<queue, blocked, received, written, dropped, lost>>,
           at'[Supervisor] = "putting" <=> at[Supervisor] = "putting",
           at[Supervisor] = "done" => at'[Supervisor] = "done",
           at'[Writer] = "failed" <=> at[Writer] = "failed",
           received + inbox' <= sent', failures > 0 => failures' > 0
    PROVE  StreamInv'
  <1>1. Written' = Written
    BY DEF Written
  <1>2. WrittenInOrder'
    BY <1>1 DEF StreamInv, WrittenInOrder
  <1>3. WayInv => WayInv'
    BY <1>1 DEF WayInv, OnItsWay, IsQueued, IsBlocked
  <1>4. QED
    BY <1>1, <1>2, <1>3 DEF StreamInv

-----------------------------------------------------------------------------
(* The world outside the loop.                                              *)
LEMMA TickKeeps ==
    ASSUME RecorderInv, Tick
    PROVE  RecorderInv'
  <1> USE Whereabouts, Names DEF RecorderInv, Tick, loop, flow, files, control,
     history
  <1>1. Moved({}, {})
    BY NoMove
  <1>2. TypeOK'
    BY <1>1, BoundsAssumption, TypesSplit, Waiting DEF DataOK, Moved, Days
  <1>3. LoopInv'
    BY <1>1 DEF LoopInv, Moved
  <1>4. MainInv'
    BY <1>1 DEF MainInv, Moved, WorkersDone
  <1>5. StreamInv'
    BY <1>1, StreamKept DEF StreamInv
  <1>6. WakeInv'
    BY <1>1 DEF WakeInv, Moved, IsFull
  <1>7. CloseInv'
    BY <1>1, TypesSplit DEF CloseInv, Moved, DataOK, Days
  <1>8. OrderInv'
    BY <1>1 DEF OrderInv, Moved, OldBlocked, Stranded, Pending
  <1>9. DrainedAtDetach'
    BY <1>1 DEF DrainedAtDetach, Moved, Pending
  <1>10. QED
    BY <1>2, <1>3, <1>4, <1>5, <1>6, <1>7, <1>8, <1>9

LEMMA FrameArrivesKeeps ==
    ASSUME RecorderInv, FrameArrives
    PROVE  RecorderInv'
  <1> USE Whereabouts, Names DEF RecorderInv, FrameArrives, When, flow, files,
     control, history
  <1>1. Moved({}, When(running # Supervisor, Supervisor))
    BY Waking
  <1>2. TypeOK'
    BY SMTT(30), <1>1, BoundsAssumption, TypesSplit, Waiting DEF DataOK, Moved, StreamInv
  <1>3. LoopInv'
    BY <1>1 DEF LoopInv, Moved
  <1>4. MainInv'
    BY <1>1 DEF MainInv, Moved, WorkersDone
  <1>5. StreamInv'
    BY <1>1, TypesSplit, StreamKept DEF StreamInv, DataOK
  <1>6. WakeInv'
    BY <1>1 DEF WakeInv, Moved, IsFull
  <1>7. CloseInv'
    BY <1>1 DEF CloseInv, Moved
  <1>8. OrderInv'
    BY <1>1 DEF OrderInv, Moved, OldBlocked, Stranded, Pending, StreamInv
  <1>9. DrainedAtDetach'
    BY <1>1 DEF DrainedAtDetach, Moved, Pending
  <1>10. QED
    BY <1>2, <1>3, <1>4, <1>5, <1>6, <1>7, <1>8, <1>9

LEMMA ReconnectedKeeps ==
    ASSUME RecorderInv, Reconnected
    PROVE  RecorderInv'
  <1> USE Whereabouts, Names DEF RecorderInv, Reconnected, flow, files, control,
     history
  <1>1. Moved({}, {Supervisor})
    BY WakingOne
  <1>2. TypeOK'
    BY <1>1, TypesSplit, Waiting DEF DataOK, Moved
  <1>3. LoopInv'
    BY <1>1 DEF LoopInv, Moved
  <1>4. MainInv'
    BY <1>1 DEF MainInv, Moved, WorkersDone
  <1>5. StreamInv'
    BY <1>1, StreamKept DEF StreamInv
  <1>6. WakeInv'
    BY <1>1 DEF WakeInv, Moved, IsFull
  <1>7. CloseInv'
    BY <1>1 DEF CloseInv, Moved
  <1>8. OrderInv'
    BY <1>1 DEF OrderInv, Moved, OldBlocked, Stranded, Pending, StreamInv
  <1>9. DrainedAtDetach'
    BY <1>1 DEF DrainedAtDetach, Moved, Pending
  <1>10. QED
    BY <1>2, <1>3, <1>4, <1>5, <1>6, <1>7, <1>8, <1>9

LEMMA TimerDueKeeps ==
    ASSUME RecorderInv, TimerDue
    PROVE  RecorderInv'
  <1> USE Whereabouts, Names DEF RecorderInv, TimerDue, flow, files, control,
     history
  <1>1. Moved({}, {Timer})
    <2>1. ready' = Wake(ready, Timer)
      BY DEF Wake, Scheduled
    <2>2. QED
      BY <2>1, WakingOne
  <1>2. TypeOK'
    BY <1>1, TypesSplit, Waiting DEF DataOK, Moved
  <1>3. LoopInv'
    BY <1>1 DEF LoopInv, Moved
  <1>4. MainInv'
    BY <1>1 DEF MainInv, Moved, WorkersDone
  <1>5. StreamInv'
    BY <1>1, StreamKept DEF StreamInv
  <1>6. WakeInv'
    BY <1>1 DEF WakeInv, Moved, IsFull
  <1>7. CloseInv'
    BY <1>1, Listed DEF CloseInv, Moved
  <1>8. OrderInv'
    BY <1>1, TypesSplit, BoundsAssumption DEF OrderInv, Moved, OldBlocked,
       Stranded, Pending, StreamInv, WakeInv, MainInv, IsFull, DataOK
  <1>9. DrainedAtDetach'
    BY <1>1 DEF DrainedAtDetach, Moved, Pending
  <1>10. QED
    BY <1>2, <1>3, <1>4, <1>5, <1>6, <1>7, <1>8, <1>9

LEMMA ThreadDoneKeeps ==
    ASSUME RecorderInv, ThreadDone
    PROVE  RecorderInv'
  <1> USE Whereabouts, Names DEF RecorderInv, ThreadDone, ThreadEnds, flow, files,
     control
  <1>1. Moved({}, When(at[DayCloser] = "finalizing", DayCloser))
    BY Waking
  <1>2. TypeOK'
    BY <1>1, TypesSplit, Waiting DEF DataOK, Moved
  <1>3. LoopInv'
    BY <1>1 DEF LoopInv, Moved, When
  <1>4. MainInv'
    BY <1>1 DEF MainInv, Moved, WorkersDone, When
  <1>5. StreamInv'
    BY <1>1, StreamKept DEF StreamInv
  <1>6. WakeInv'
    BY <1>1 DEF WakeInv, Moved, IsFull, When
  <1>7. CloseInv'
    BY <1>1, TypesSplit DEF CloseInv, Moved, When, DataOK
  <1>8. OrderInv'
    BY <1>1 DEF OrderInv, Moved, OldBlocked, Stranded, Pending, When
  <1>9. DrainedAtDetach'
    BY <1>1, TypesSplit DEF DrainedAtDetach, Moved, Pending, DataOK
  <1>10. QED
    BY <1>2, <1>3, <1>4, <1>5, <1>6, <1>7, <1>8, <1>9

LEMMA ThreadFailsKeeps ==
    ASSUME RecorderInv, ThreadFails
    PROVE  RecorderInv'
  <1> USE Whereabouts, Names DEF RecorderInv, ThreadFails, ThreadEnds, flow, files,
     control
  <1>1. Moved({}, When(at[DayCloser] = "finalizing", DayCloser))
    BY Waking
  <1>2. failures' > 0
    BY TypesSplit DEF DataOK
  <1>3. TypeOK'
    BY <1>1, TypesSplit, Waiting DEF DataOK, Moved
  <1>4. LoopInv'
    BY <1>1 DEF LoopInv, Moved, When
  <1>5. MainInv'
    BY <1>1 DEF MainInv, Moved, WorkersDone, When
  <1>6. StreamInv'
    BY <1>1, <1>2, StreamKept DEF StreamInv
  <1>7. WakeInv'
    BY <1>1 DEF WakeInv, Moved, IsFull, When
  <1>8. CloseInv'
    BY <1>1, TypesSplit DEF CloseInv, Moved, When, DataOK
  <1>9. OrderInv'
    BY <1>1 DEF OrderInv, Moved, OldBlocked, Stranded, Pending, When
  <1>10. DrainedAtDetach'
    BY <1>1, TypesSplit DEF DrainedAtDetach, Moved, Pending, DataOK
  <1>11. QED
    BY <1>3, <1>4, <1>5, <1>6, <1>7, <1>8, <1>9, <1>10

LEMMA SignalKeeps ==
    ASSUME RecorderInv, Signal
    PROVE  RecorderInv'
  <1> USE Whereabouts, Names DEF RecorderInv, Signal, flow, files, history
  <1>1. Moved({}, {Main})
    BY WakingOne
  <1>2. TypeOK'
    BY <1>1, TypesSplit, Waiting DEF DataOK, Moved
  <1>3. LoopInv'
    BY <1>1 DEF LoopInv, Moved
  <1>4. MainInv'
    BY <1>1 DEF MainInv, Moved, WorkersDone
  <1>5. StreamInv'
    BY <1>1, StreamKept DEF StreamInv
  <1>6. WakeInv'
    BY <1>1 DEF WakeInv, Moved, IsFull
  <1>7. CloseInv'
    BY <1>1 DEF CloseInv, Moved
  <1>8. OrderInv'
    BY <1>1 DEF OrderInv, Moved, OldBlocked, Stranded, Pending
  <1>9. DrainedAtDetach'
    BY <1>1 DEF DrainedAtDetach, Moved, Pending
  <1>10. QED
    BY <1>2, <1>3, <1>4, <1>5, <1>6, <1>7, <1>8, <1>9

-----------------------------------------------------------------------------
(* The websocket supervisor.                                                *)
LEMMA QueueGrows ==
    ASSUME NEW q, NEW S, q \in Seq(S), NEW r
    PROVE  LET n == Len(q) IN
           /\ n \in Nat /\ DOMAIN q = 1 .. n /\ Len(Append(q, r)) = n + 1
           /\ DOMAIN Append(q, r) = 1 .. n + 1 /\ Append(q, r)[n + 1] = r
           /\ \A i \in 1 .. n : Append(q, r)[i] = q[i]
           /\ r \in S => Append(q, r) \in Seq(S)
  OBVIOUS

LEMMA QueueShrinks ==
    ASSUME NEW q, NEW S, q \in Seq(S), q # <<>>
    PROVE  LET n == Len(q) IN
           /\ n \in Nat \ {0} /\ DOMAIN q = 1 .. n /\ Len(Tail(q)) = n - 1 /\ Tail(q) \in Seq(S)
           /\ DOMAIN Tail(q) = 1 .. n - 1 /\ Head(q) = q[1] /\ q[1] \in S
           /\ \A i \in 1 .. n - 1 : Tail(q)[i] = q[i + 1]
  OBVIOUS

LEMMA SupervisorCancelledKeeps ==
    ASSUME RecorderInv, SupervisorCancelled
    PROVE  RecorderInv'
  <1> USE Whereabouts, Names DEF RecorderInv, SupervisorCancelled, Goes, files,
     control
  <1>1. Moved({Supervisor}, When(at[Main] = "gathering" /\ at[DayCloser] = "done",
     Main))
    <2> DEFINE c == at[Main] = "gathering" /\ \A w \in Worker \ {Supervisor} :
       at[w] = "done"
    <2>1. c <=> at[Main] = "gathering" /\ at[DayCloser] = "done"
      OBVIOUS
    <2>2. Moved({Supervisor}, When(c, Main))
      BY WakingTurn DEF WakeGather
    <2>3. QED
      BY <2>1, <2>2 DEF When
  <1>2. at'[Supervisor] = "done" /\ at'[Writer] = at[Writer]
    OBVIOUS
  <1>3. lost = {} /\ blocked' = NoRecord
    BY <1>1 DEF StreamInv, LoopInv, Moved
  <1>4. /\ blocked = NoRecord => lost' = {}
        /\ blocked # NoRecord => lost' = {received}
    BY <1>3 DEF StreamInv
  <1>5. lost' \in SUBSET (1 .. MaxFrames)
    BY <1>3, TypesSplit DEF DataOK, Record
  <1>6. TypeOK'
    BY <1>1, <1>5, TypesSplit, Waiting DEF DataOK, Moved
  <1>7. LoopInv'
    BY <1>1 DEF LoopInv, Moved, Places, When
  <1>8. MainInv'
    BY <1>1 DEF MainInv, Moved, WorkersDone, When
  <1>9. StreamInv'
    <2>1. Written' = Written /\ (\A k : IsQueued(k)' <=> IsQueued(k)) /\ (\A k : ~IsBlocked(k)')
      BY <1>3 DEF Written, IsQueued, IsBlocked
    <2>2. WrittenInOrder'
      BY <2>1 DEF StreamInv, WrittenInOrder
    <2>3. ASSUME WayInv PROVE WayInv'
      <3>1. ASSUME NEW k \in 1 .. received
            PROVE  k \in Written \cup dropped \cup lost' \/ IsQueued(k)
        BY <1>3, <1>4, <2>3 DEF WayInv, OnItsWay, IsBlocked, StreamInv
      <3>2. \A k : IsQueued(k) /\ lost' # {} => k < received
        BY <1>4, <2>3 DEF WayInv
      <3>3. QED
        BY <1>3, <2>1, <2>3, <3>1, <3>2 DEF WayInv, OnItsWay
    <2>4. QED
      BY <1>2, <1>3, <1>4, <2>1, <2>2, <2>3 DEF StreamInv
  <1>10. WakeInv'
    BY <1>1 DEF WakeInv, Moved, IsFull, When
  <1>11. CloseInv'
    BY <1>1 DEF CloseInv, Moved, When
  <1>12. OrderInv'
    BY <1>1 DEF OrderInv, Moved, OldBlocked, Stranded, Pending, When
  <1>13. DrainedAtDetach'
    BY <1>1 DEF DrainedAtDetach, Moved, Pending
  <1>14. QED
    BY <1>6, <1>7, <1>8, <1>9, <1>10, <1>11, <1>12, <1>13

LEMMA SupervisorResumesKeeps ==
    ASSUME RecorderInv, SupervisorResumes
    PROVE  RecorderInv'
  <1> USE Whereabouts, Names DEF RecorderInv, SupervisorResumes, Goes, Runs, flow,
     files, control, history
  <1>1. Moved({Supervisor}, {})
    BY PlainTurn
  <1>2. TypeOK'
    BY <1>1, TypesSplit, Waiting DEF DataOK, Moved
  <1>3. LoopInv'
    BY <1>1 DEF LoopInv, Moved, Places
  <1>4. MainInv'
    BY <1>1 DEF MainInv, Moved, WorkersDone
  <1>5. StreamInv'
    BY <1>1, StreamKept DEF StreamInv
  <1>6. WakeInv'
    BY <1>1 DEF WakeInv, Moved, IsFull
  <1>7. CloseInv'
    BY <1>1 DEF CloseInv, Moved
  <1>8. OrderInv'
    BY <1>1 DEF OrderInv, Moved, OldBlocked, Stranded, Pending, StreamInv
  <1>9. DrainedAtDetach'
    BY <1>1 DEF DrainedAtDetach, Moved, Pending
  <1>10. QED
    BY <1>2, <1>3, <1>4, <1>5, <1>6, <1>7, <1>8, <1>9

LEMMA SupervisorConnectsKeeps ==
    ASSUME RecorderInv, SupervisorConnects
    PROVE  RecorderInv'
  <1> USE Whereabouts, Names DEF RecorderInv, SupervisorConnects, Goes, Runs, flow,
     files, control, history
  <1>1. Moved({Supervisor}, {})
    BY PlainTurn
  <1>2. TypeOK'
    BY <1>1, TypesSplit, Waiting DEF DataOK, Moved
  <1>3. LoopInv'
    BY <1>1 DEF LoopInv, Moved, Places
  <1>4. MainInv'
    BY <1>1 DEF MainInv, Moved, WorkersDone
  <1>5. StreamInv'
    BY <1>1, StreamKept DEF StreamInv
  <1>6. WakeInv'
    BY <1>1 DEF WakeInv, Moved, IsFull
  <1>7. CloseInv'
    BY <1>1 DEF CloseInv, Moved
  <1>8. OrderInv'
    BY <1>1 DEF OrderInv, Moved, OldBlocked, Stranded, Pending, StreamInv
  <1>9. DrainedAtDetach'
    BY <1>1 DEF DrainedAtDetach, Moved, Pending
  <1>10. QED
    BY <1>2, <1>3, <1>4, <1>5, <1>6, <1>7, <1>8, <1>9

LEMMA SupervisorFailsKeeps ==
    ASSUME RecorderInv, SupervisorFails
    PROVE  RecorderInv'
  <1> USE Whereabouts, Names DEF RecorderInv, SupervisorFails, Goes, flow, files
  <1>1. Moved({Supervisor}, When(at[Main] = "waiting", Main))
    BY WakingTurn
  <1>2. running = NoTask /\ failures' \in Nat \ {0} /\ at'[Supervisor] = "done"
    BY TypesSplit DEF Runs, DataOK
  <1>3. TypeOK'
    BY <1>1, <1>2, TypesSplit, Waiting DEF DataOK, Moved
  <1>4. LoopInv'
    BY <1>1, <1>2 DEF LoopInv, Moved, Places, When
  <1>5. MainInv'
    BY <1>1 DEF MainInv, Moved, WorkersDone, When
  <1>6. StreamInv'
    BY <1>1, <1>2, StreamKept DEF StreamInv
  <1>7. WakeInv'
    BY <1>1 DEF WakeInv, Moved, IsFull, When
  <1>8. CloseInv'
    BY <1>1 DEF CloseInv, Moved, When
  <1>9. OrderInv'
    BY <1>1, <1>2 DEF OrderInv, Moved, OldBlocked, Stranded, Pending, When, StreamInv
  <1>10. DrainedAtDetach'
    BY <1>1 DEF DrainedAtDetach, Moved, Pending
  <1>11. QED
    BY <1>3, <1>4, <1>5, <1>6, <1>7, <1>8, <1>9, <1>10

LEMMA OtherFrameKeeps ==
    ASSUME RecorderInv, OtherFrame
    PROVE  RecorderInv'
  <1> USE Whereabouts, Names DEF RecorderInv, OtherFrame, StaysConnected,
     Disconnects, Goes, files, control, history
  <1>1. Moved({}, {})
    BY NoMove
  <1>2. /\ inbox' \in 0 .. MaxFrames /\ inbox' <= inbox
        /\ at[Supervisor] = "receiving" /\ at' \in [Task -> Places]
        /\ at'[Supervisor] \in {"receiving", "away"} /\ \A t \in Task \
           {Supervisor} : at'[t] = at[t]
    BY TypesSplit, BoundsAssumption DEF DataOK, LoopInv, Places
  <1>3. TypeOK'
    BY <1>1, <1>2, TypesSplit, Waiting DEF DataOK, Moved
  <1>4. LoopInv'
    BY <1>1, <1>2 DEF LoopInv, Moved, Places
  <1>5. MainInv'
    BY <1>1, <1>2 DEF MainInv, Moved, WorkersDone
  <1>6. StreamInv'
    BY <1>1, TypesSplit, <1>2, StreamKept DEF StreamInv, DataOK
  <1>7. WakeInv'
    BY <1>1 DEF WakeInv, Moved, IsFull
  <1>8. CloseInv'
    BY <1>1 DEF CloseInv, Moved
  <1>9. OrderInv'
    BY <1>1 DEF OrderInv, Moved, OldBlocked, Stranded, Pending
  <1>10. DrainedAtDetach'
    BY <1>1 DEF DrainedAtDetach, Moved, Pending
  <1>11. QED
    BY <1>3, <1>4, <1>5, <1>6, <1>7, <1>8, <1>9, <1>10

LEMMA SupervisorYieldsKeeps ==
    ASSUME RecorderInv, SupervisorYields
    PROVE  RecorderInv'
  <1> USE Whereabouts, Names DEF RecorderInv, SupervisorYields, Goes, files,
     control, history
  <1>1. Moved({}, {})
    BY NoMove
  <1>2. /\ inbox' \in 0 .. MaxFrames /\ inbox' <= inbox
        /\ at[Supervisor] = "receiving" /\ at' \in [Task -> Places]
        /\ at'[Supervisor] \in {"receiving", "away"} /\ \A t \in Task \
           {Supervisor} : at'[t] = at[t]
    BY TypesSplit, BoundsAssumption DEF DataOK, LoopInv, Places
  <1>3. TypeOK'
    BY <1>1, <1>2, TypesSplit, Waiting DEF DataOK, Moved
  <1>4. LoopInv'
    BY <1>1, <1>2 DEF LoopInv, Moved, Places
  <1>5. MainInv'
    BY <1>1, <1>2 DEF MainInv, Moved, WorkersDone
  <1>6. StreamInv'
    BY <1>1, TypesSplit, <1>2, StreamKept DEF StreamInv, DataOK
  <1>7. WakeInv'
    BY <1>1 DEF WakeInv, Moved, IsFull
  <1>8. CloseInv'
    BY <1>1 DEF CloseInv, Moved
  <1>9. OrderInv'
    BY <1>1 DEF OrderInv, Moved, OldBlocked, Stranded, Pending
  <1>10. DrainedAtDetach'
    BY <1>1 DEF DrainedAtDetach, Moved, Pending
  <1>11. QED
    BY <1>3, <1>4, <1>5, <1>6, <1>7, <1>8, <1>9, <1>10

(* The records on their way.                                                *)
LEMMA PendingFacts ==
    /\ \A x : x \in Pending <=> x = blocked \/ \E i \in DOMAIN queue : x = queue[i]
    /\ \A x : x \in Pending' <=> x = blocked' \/ \E i \in DOMAIN queue' : x = queue'[i]
  BY DEF Pending

LEMMA SupervisorPutsKeeps ==
    ASSUME RecorderInv, SupervisorPuts
    PROVE  RecorderInv'
  <1> USE Whereabouts, Names DEF RecorderInv, SupervisorPuts, Runs, Goes,
     WakeWriter, files, control, history
  <1>1. Moved({Supervisor}, When(at[Writer] = "getting", Writer))
    <2>1. Has(ready, Supervisor)
      BY TailFacts DEF Runs
    <2>2. ~IsFull
      BY <2>1 DEF WakeInv
    <2>3. QED
      BY <2>2, WakingTurn
  <1>2. running = NoTask /\ ~IsFull /\ blocked # NoRecord /\ blocked \in Record /\ blocked # Stop
    BY <1>1, TypesSplit, SentinelAssumption DEF WakeInv, StreamInv, Moved, DataOK
  <1>3. /\ at[Main] = "waiting" \/ (at[Main] = "gathering" /\ ~Has(ready, Main))
        /\ \A i \in DOMAIN queue : queue[i] # Stop
    BY DEF MainInv, WorkersDone
  <1>4. /\ queue' = Append(queue, blocked) /\ blocked' = NoRecord /\ inbox' = 0
        /\ at' \in [Task -> Places] /\ at'[Supervisor] = "away"
        /\ \A t \in Task \ {Supervisor} : at'[t] = at[t]
        /\ UNCHANGED <<day, running, closing, store, stop, cancelled, sent, received, written,
                       dropped, lost, failures>>
    BY <1>2 DEF Places
  <1> HIDE DEF SupervisorPuts
  <1>5. /\ Len(queue) \in Nat /\ DOMAIN queue = 1 .. Len(queue)
        /\ Len(queue') = Len(queue) + 1 /\ DOMAIN queue' = 1 .. Len(queue) + 1
        /\ queue'[Len(queue) + 1] = blocked /\ \A i \in 1 .. Len(queue) : queue'[i] = queue[i]
        /\ queue' \in Seq(Record \cup {Stop}) /\ Len(queue) + 1 <= QueueSize
    <2>1. queue \in Seq(Record \cup {Stop}) /\ blocked \in Record \cup {Stop}
      BY <1>2, TypesSplit DEF DataOK
    <2>2. Len(queue) + 1 <= QueueSize
      BY <2>1, BoundsAssumption, <1>2 DEF IsFull
    <2>3. QED
      BY <1>2, <1>4, <2>1, <2>2, QueueGrows
  <1>6. \A x \in Pending' : x \in Pending \/ x = NoRecord
    BY <1>4, <1>5, PendingFacts
  <1>7. TypeOK'
    BY <1>1, <1>4, <1>5, BoundsAssumption, TypesSplit, Waiting DEF DataOK, Moved
  <1>8. LoopInv'
    BY <1>1, <1>2, <1>4 DEF LoopInv, Moved, Places, When
  <1>9. MainInv'
    BY <1>1, <1>2, <1>3, <1>4, <1>5 DEF MainInv, Moved, WorkersDone, When
  <1>10. StreamInv'
    <2>1. /\ Written' = Written /\ lost = {} /\ blocked.id = received
          /\ received \in Nat /\ received' + inbox' <= sent'
      BY SMTT(30), <1>2, <1>4, TypesSplit DEF StreamInv, Written, DataOK
    <2>2. \A k : (IsQueued(k)' <=> OnItsWay(k)) /\ ~IsBlocked(k)'
      BY <1>2, <1>4, <1>5 DEF OnItsWay, IsQueued, IsBlocked
    <2>3. WrittenInOrder'
      BY <1>4, <2>1 DEF StreamInv, WrittenInOrder
    <2>4. ASSUME WayInv PROVE WayInv'
      <3>1. ASSUME NEW i \in DOMAIN queue', NEW j \in DOMAIN queue', i < j
            PROVE  queue'[i].id < queue'[j].id
        <4>1. i \in DOMAIN queue /\ queue'[i] = queue[i] /\ queue[i] # Stop
          BY <1>3, <1>5, <3>1
        <4>2. CASE j \in DOMAIN queue
          BY <1>3, <1>5, <2>4, <3>1, <4>1, <4>2 DEF WayInv
        <4>3. CASE j = Len(queue) + 1
          BY <1>2, <1>5, <2>1, <2>4, <4>1, <4>3 DEF WayInv, IsQueued
        <4>4. QED
          BY <1>5, <4>2, <4>3
      <3>2. QED
        BY <1>4, <2>1, <2>2, <2>4, <3>1 DEF WayInv, OnItsWay
    <2>5. QED
      BY <1>2, <1>4, <2>1, <2>3, <2>4 DEF StreamInv
  <1>11. WakeInv'
    BY <1>1, <1>4 DEF WakeInv, Moved, IsFull, When
  <1>12. CloseInv'
    BY <1>1, <1>4 DEF CloseInv, Moved, When
  <1>13. OrderInv'
    BY <1>1, <1>4, <1>6 DEF OrderInv, Moved, OldBlocked, Stranded, Pending, When
  <1>14. DrainedAtDetach'
    BY <1>1, <1>4, <1>6 DEF DrainedAtDetach, Moved, Pending
  <1>15. QED
    BY <1>7, <1>8, <1>9, <1>10, <1>11, <1>12, <1>13, <1>14

(* The record that a frame becomes.                                         *)
Stamped == [id |-> received + 1, day |-> day]

LEMMA StampedFacts ==
    ASSUME RecorderInv, HandleFrame
    PROVE  /\ at[Supervisor] = "receiving" /\ ~Has(ready, Supervisor) /\ blocked = NoRecord
           /\ at[Main] = "waiting" /\ ~cancelled /\ at[Writer] # "done" /\ lost = {}
           /\ \A i \in DOMAIN queue : queue[i] # Stop
           /\ Stamped \in Record /\ Stamped # NoRecord /\ Stamped # Stop
           /\ Stamped.id = received + 1 /\ Stamped.day = day
           /\ received \in Nat /\ inbox - 1 \in 0 .. MaxFrames
           /\ received + 1 \in 0 .. MaxFrames /\ received' + inbox - 1 <= sent
  <1>1. /\ at[Supervisor] = "receiving" /\ ~Has(ready, Supervisor) /\ blocked = NoRecord
        /\ at[Main] = "waiting" /\ ~cancelled /\ at[Writer] # "done" /\ lost = {}
        /\ \A i \in DOMAIN queue : queue[i] # Stop
    BY Whereabouts, Names DEF RecorderInv, HandleFrame, LoopInv, MainInv, StreamInv
  <1>2. /\ received \in 0 .. MaxFrames /\ inbox \in 0 .. MaxFrames /\ sent \in 0 .. MaxFrames
        /\ MaxFrames \in Nat /\ inbox > 0 /\ received + inbox <= sent /\ day \in Days
        /\ received' = received + 1
    BY TypesSplit, BoundsAssumption DEF RecorderInv, HandleFrame, StreamInv, DataOK
  <1>3. /\ received \in Nat /\ inbox - 1 \in 0 .. MaxFrames
        /\ received + 1 \in 1 .. MaxFrames /\ received' + inbox - 1 <= sent
    BY <1>2
  <1>4. Stamped \in Record /\ Stamped.id = received + 1 /\ Stamped.day = day
    BY <1>2, <1>3 DEF Stamped, Record
  <1>5. QED
    BY <1>1, <1>3, <1>4, SentinelAssumption

(* A record stamped while the queue is full waits, unless the ledger raises. *)
LEMMA BlockedFrameKeeps ==
    ASSUME RecorderInv, HandleFrame, IsFull
    PROVE  RecorderInv'
  <1> USE Whereabouts, Names DEF RecorderInv, HandleFrame, Overflow, Disconnects, Goes,
     files, control
  <1>1. Moved({}, {})
    BY NoMove
  <1>2. /\ at[Supervisor] = "receiving" /\ ~Has(ready, Supervisor) /\ blocked = NoRecord
        /\ at[Main] = "waiting" /\ ~cancelled /\ at[Writer] # "done" /\ lost = {}
        /\ \A i \in DOMAIN queue : queue[i] # Stop
    BY StampedFacts
  <1> DEFINE r == [id |-> received + 1, day |-> day]
  <1>3. /\ r \in Record /\ r # NoRecord /\ r # Stop /\ r.id = received + 1 /\ r.day = day
        /\ received \in Nat /\ inbox - 1 \in 0 .. MaxFrames /\ received + 1 \in 0 .. MaxFrames
        /\ received' + inbox - 1 <= sent
    BY StampedFacts DEF Stamped
  <1>4. /\ received' = received + 1 /\ running = Supervisor /\ running' = NoTask
        /\ UNCHANGED <<day, ready, queue, closing, store, stop, cancelled, sent, written, lost>>
    OBVIOUS
  <1>5. /\ at' \in [Task -> Places] /\ at'[Supervisor] \in {"putting", "away"}
        /\ \A t \in Task \ {Supervisor} : at'[t] = at[t]
        /\ inbox' \in 0 .. MaxFrames /\ received' + inbox' <= sent'
        /\ failures' \in Nat /\ (failures > 0 => failures' > 0)
    <2>1. failures \in Nat /\ 0 \in 0 .. MaxFrames /\ received' + 0 <= sent
      BY <1>3, TypesSplit, BoundsAssumption DEF DataOK
    <2>2. QED
      BY <1>3, <2>1 DEF Places
  <1>6. \/ /\ blocked' = r /\ at'[Supervisor] = "putting" /\ UNCHANGED dropped
        \/ /\ blocked' = NoRecord /\ at'[Supervisor] = "away" /\ failures' > 0
           /\ dropped' = dropped \cup {received + 1}
    BY SMTT(30), <1>2, <1>3, TypesSplit DEF DataOK
  <1>7. dropped' \in SUBSET (1 .. MaxFrames)
    <2>1. received + 1 \in 1 .. MaxFrames /\ dropped \in SUBSET (1 .. MaxFrames)
      BY <1>3, TypesSplit DEF DataOK
    <2>2. QED
      BY <1>6, <2>1
  <1> HIDE DEF r, HandleFrame
  <1>8. TypeOK'
    BY <1>1, <1>2, <1>3, <1>4, <1>5, <1>6, <1>7, TypesSplit, Waiting DEF DataOK, Moved
  <1>9. LoopInv'
    BY <1>1, <1>2, <1>4, <1>5 DEF LoopInv, Moved
  <1>10. MainInv'
    BY <1>1, <1>2, <1>4, <1>5 DEF MainInv, Moved, WorkersDone
  <1>11. StreamInv'
    <2>1. Written' = Written
      BY <1>4 DEF Written
    <2>2. \A k : (IsQueued(k)' <=> IsQueued(k)) /\ ~IsBlocked(k)
      BY <1>2, <1>4 DEF IsQueued, IsBlocked
    <2>3. CASE blocked' = r /\ at'[Supervisor] = "putting" /\ UNCHANGED dropped
      <3>1. \A k : IsBlocked(k)' <=> k = received + 1
        BY <1>3, <2>3 DEF IsBlocked
      <3>2. WrittenInOrder'
        BY <1>4, <1>5, <2>1, <2>3 DEF StreamInv, WrittenInOrder
      <3>3. ASSUME WayInv PROVE WayInv'
        <4>1. /\ \A k \in 1 .. received' : k = received + 1 \/ k \in 1 .. received
              /\ \A k \in 1 .. received : k < received + 1
              /\ received + 1 \notin dropped
          BY <1>3, <1>4 DEF StreamInv
        <4>2. \A w \in Written : w < received + 1
          BY <1>3 DEF StreamInv
        <4>3. \A k : IsQueued(k) => k < received'
          BY <1>3, <1>4, <3>3 DEF WayInv, OnItsWay
        <4>4. QED
          BY <1>3, <1>4, <2>1, <2>2, <2>3, <3>1, <3>3, <4>1, <4>2, <4>3 DEF WayInv, OnItsWay
      <3>4. QED
        BY <1>2, <1>3, <1>4, <1>5, <2>1, <2>3, <3>2, <3>3 DEF StreamInv
    <2>4. CASE /\ blocked' = NoRecord /\ at'[Supervisor] = "away" /\ failures' > 0
               /\ dropped' = dropped \cup {received + 1}
      <3>1. received + 1 \notin Written
        BY <1>3 DEF StreamInv
      <3>2. WrittenInOrder'
        BY <1>4, <2>1, <2>4, <3>1 DEF StreamInv, WrittenInOrder
      <3>3. ASSUME WayInv PROVE WayInv'
        <4>1. /\ \A k \in 1 .. received' : k = received + 1 \/ k \in 1 .. received
              /\ \A k \in 1 .. received : k # received + 1 /\ k \in 1 .. received'
          BY <1>3, <1>4
        <4>2. \A k : ~IsBlocked(k)'
          BY <2>4 DEF IsBlocked
        <4>3. QED
          BY <1>2, <1>4, <2>1, <2>2, <2>4, <3>3, <4>1, <4>2 DEF WayInv, OnItsWay
      <3>4. 1 .. received \subseteq 1 .. received' /\ received + 1 \in 1 .. received'
        BY <1>3, <1>4
      <3>5. Written' \subseteq 1 .. received' /\ dropped' \subseteq 1 .. received'
        BY <2>1, <2>4, <3>4 DEF StreamInv
      <3>6. QED
        BY <1>2, <1>4, <1>5, <2>4, <3>2, <3>3, <3>5 DEF StreamInv
    <2>5. QED
      BY <1>6, <2>3, <2>4
  <1>12. WakeInv'
    BY <1>1, <1>2, <1>4, <1>5 DEF WakeInv, Moved, IsFull
  <1>13. CloseInv'
    BY <1>1, <1>4, <1>5 DEF CloseInv, Moved
  <1>14. OrderInv'
    BY SMTT(30), <1>1, <1>2, <1>3, <1>4, <1>5, <1>6, TypesSplit DEF OrderInv, Moved, OldBlocked,
       Stranded, Pending, CloseInv, DataOK, Days
  <1>15. DrainedAtDetach'
    BY <1>1, <1>3, <1>4, <1>6 DEF DrainedAtDetach, Moved, Pending, CloseInv
  <1>16. QED
    BY <1>8, <1>9, <1>10, <1>11, <1>12, <1>13, <1>14, <1>15

(* A record that finds room.                                                *)
LEMMA QueuedFrameKeeps ==
    ASSUME RecorderInv, HandleFrame, ~IsFull
    PROVE  RecorderInv'
  <1> USE Whereabouts, Names DEF RecorderInv, HandleFrame, Goes, StaysConnected,
     Disconnects, WakeWriter, files, control
  <1>1. Moved({}, When(at[Writer] = "getting", Writer))
    BY Waking
  <1>2. /\ at[Supervisor] = "receiving" /\ ~Has(ready, Supervisor) /\ blocked = NoRecord
        /\ at[Main] = "waiting" /\ ~cancelled /\ at[Writer] # "done" /\ lost = {}
        /\ \A i \in DOMAIN queue : queue[i] # Stop
    BY StampedFacts
  <1> DEFINE r == [id |-> received + 1, day |-> day]
  <1>3. /\ r \in Record /\ r # NoRecord /\ r # Stop /\ r.id = received + 1 /\ r.day = day
        /\ received \in Nat /\ inbox - 1 \in 0 .. MaxFrames /\ received + 1 \in 0 .. MaxFrames
        /\ received' + inbox - 1 <= sent
    BY StampedFacts DEF Stamped
  <1>4. /\ queue' = Append(queue, r) /\ blocked' = NoRecord
        /\ inbox' \in 0 .. MaxFrames /\ received' + inbox' <= sent
        /\ running' \in {Supervisor, NoTask}
        /\ at' \in [Task -> Places] /\ at'[Supervisor] \in {"receiving", "away"}
        /\ running' = Supervisor => at'[Supervisor] = "receiving"
        /\ \A t \in Task \ {Supervisor} : at'[t] = at[t]
        /\ received' = received + 1
        /\ UNCHANGED <<day, closing, store, stop, cancelled, sent, written, dropped, lost,
                       failures>>
    <2>1. \/ at' = [at EXCEPT ![Supervisor] = "away"] /\ running' = NoTask /\ inbox' = 0
          \/ at' = at /\ running' = running /\ inbox' = inbox - 1
      OBVIOUS
    <2>2. 0 \in 0 .. MaxFrames /\ received' + 0 <= sent
      BY <1>3, TypesSplit, BoundsAssumption DEF DataOK
    <2>3. QED
      BY <1>2, <1>3, <2>1, <2>2 DEF Places
  <1> HIDE DEF r, HandleFrame
  <1>5. /\ Len(queue) \in Nat /\ DOMAIN queue = 1 .. Len(queue)
        /\ Len(queue') = Len(queue) + 1 /\ DOMAIN queue' = 1 .. Len(queue) + 1
        /\ queue'[Len(queue) + 1] = r /\ \A i \in 1 .. Len(queue) : queue'[i] = queue[i]
        /\ queue' \in Seq(Record \cup {Stop}) /\ Len(queue) + 1 <= QueueSize
    <2>1. queue \in Seq(Record \cup {Stop}) /\ r \in Record \cup {Stop}
      BY <1>3, TypesSplit DEF DataOK
    <2>2. Len(queue) + 1 <= QueueSize
      BY <2>1, BoundsAssumption DEF IsFull
    <2>3. QED
      BY <1>3, <1>4, <2>1, <2>2, QueueGrows
  <1>6. \A x \in Pending' : x \in Pending \/ x = r
    BY <1>2, <1>4, <1>5, PendingFacts
  <1>7. TypeOK'
    BY <1>1, <1>2, <1>3, <1>4, <1>5, BoundsAssumption, TypesSplit, Waiting DEF
       DataOK, Moved
  <1>8. LoopInv'
    BY <1>1, <1>2, <1>4 DEF LoopInv, Moved, Places, When
  <1>9. MainInv'
    BY <1>1, <1>2, <1>3, <1>4, <1>5 DEF MainInv, Moved, WorkersDone, When
  <1>10. StreamInv'
    <2>1. Written' = Written
      BY <1>4 DEF Written
    <2>2. \A k : (IsQueued(k)' <=> IsQueued(k) \/ k = received + 1) /\ ~IsBlocked(k)
      BY <1>2, <1>3, <1>5 DEF IsQueued, IsBlocked
    <2>3. \A k : ~IsBlocked(k)'
      BY <1>4 DEF IsBlocked
    <2>4. WrittenInOrder'
      BY <1>4, <2>1 DEF StreamInv, WrittenInOrder
    <2>5. /\ \A k \in 1 .. received' : k = received + 1 \/ k \in 1 .. received
          /\ \A k \in 1 .. received : k < received + 1
          /\ received + 1 \in 1 .. received' /\ received + 1 \notin dropped
          /\ \A w \in Written : w < received + 1
      BY <1>3, <1>4 DEF StreamInv
    <2>6. ASSUME WayInv PROVE WayInv'
      <3>1. ASSUME NEW i \in DOMAIN queue', NEW j \in DOMAIN queue', i < j
            PROVE  queue'[i].id < queue'[j].id
        <4>1. i \in DOMAIN queue /\ queue'[i] = queue[i] /\ queue[i] # Stop
          BY <1>2, <1>5, <3>1
        <4>2. CASE j \in DOMAIN queue
          BY <1>2, <1>5, <2>6, <3>1, <4>1, <4>2 DEF WayInv
        <4>3. CASE j = Len(queue) + 1
          BY <1>3, <1>5, <2>5, <2>6, <4>1, <4>3 DEF WayInv, OnItsWay, IsQueued
        <4>4. QED
          BY <1>5, <4>2, <4>3
      <3>2. QED
        BY <1>2, <1>4, <2>1, <2>2, <2>3, <2>5, <2>6, <3>1 DEF WayInv, OnItsWay
    <2>7. QED
      BY <1>2, <1>3, <1>4, <2>1, <2>4, <2>6 DEF StreamInv
  <1>11. WakeInv'
    BY <1>1, <1>2, <1>4 DEF WakeInv, Moved, IsFull, When
  <1>12. CloseInv'
    BY <1>1, <1>2, <1>4 DEF CloseInv, Moved, When
  <1>13. OrderInv'
    BY <1>1, <1>2, <1>3, <1>4, <1>6 DEF OrderInv, Moved, OldBlocked, Stranded,
       Pending, CloseInv, When
  <1>14. DrainedAtDetach'
    BY <1>1, <1>3, <1>4, <1>6 DEF DrainedAtDetach, Moved, Pending, CloseInv
  <1>15. QED
    BY <1>7, <1>8, <1>9, <1>10, <1>11, <1>12, <1>13, <1>14

-----------------------------------------------------------------------------
(* The writer.                                                              *)
LEMMA WriterResumesKeeps ==
    ASSUME RecorderInv, WriterResumes
    PROVE  RecorderInv'
  <1> USE Whereabouts, Names DEF RecorderInv, WriterResumes, Runs, flow, files,
     control, history
  <1>1. Moved({Writer}, {})
    BY PlainTurn
  <1>2. TypeOK'
    BY <1>1, TypesSplit, Waiting DEF DataOK, Moved
  <1>3. LoopInv'
    BY <1>1 DEF LoopInv, Moved, Places
  <1>4. MainInv'
    BY <1>1 DEF MainInv, Moved, WorkersDone
  <1>5. StreamInv'
    BY <1>1, StreamKept DEF StreamInv
  <1>6. WakeInv'
    BY <1>1 DEF WakeInv, Moved, IsFull
  <1>7. CloseInv'
    BY <1>1 DEF CloseInv, Moved
  <1>8. OrderInv'
    BY <1>1 DEF OrderInv, Moved, OldBlocked, Stranded, Pending
  <1>9. DrainedAtDetach'
    BY <1>1 DEF DrainedAtDetach, Moved, Pending
  <1>10. QED
    BY <1>2, <1>3, <1>4, <1>5, <1>6, <1>7, <1>8, <1>9

LEMMA WriterWritesKeeps ==
    ASSUME RecorderInv, WriterWrites
    PROVE  RecorderInv'
  <1> USE Whereabouts, Names DEF RecorderInv, WriterWrites, files, control
  <1>1. Moved({}, When(at[Supervisor] = "putting", Supervisor) \cup Joiners)
    <2>1. Reached(AfterGet(ready), {}, {} \cup When(at[Supervisor] = "putting", Supervisor))
      BY ReachedAtOnce, ReachedByWaking DEF AfterGet
    <2>2. QED
      BY <2>1, ReachedByTaskDone, MovedWhenReached
  <1>2. /\ at[Writer] = "getting" /\ ~Has(ready, Writer) /\ at[Main] # "exited"
        /\ at[Main] # "awaiting" /\ \A i \in DOMAIN queue : queue[i] # Stop
    <2>1. queue # <<Stop>>
      OBVIOUS
    <2>2. QED
      BY <2>1 DEF LoopInv, MainInv
  <1>3. /\ Len(queue) \in Nat \ {0} /\ DOMAIN queue = 1 .. Len(queue)
        /\ Len(queue') = Len(queue) - 1 /\ DOMAIN queue' = 1 .. Len(queue) - 1
        /\ \A i \in 1 .. Len(queue) - 1 : queue'[i] = queue[i + 1]
        /\ Head(queue) = queue[1] /\ Head(queue) \in Record
        /\ queue' \in Seq(Record \cup {Stop})
    <2>1. queue \in Seq(Record \cup {Stop})
      BY TypesSplit DEF DataOK
    <2>2. QED
      BY <2>1, QueueShrinks
  <1>4. \A x \in Pending' : x \in Pending
    BY <1>3, PendingFacts
  <1>5. /\ ~(Len(queue) > 1) => queue' = <<>>
        /\ \A i \in DOMAIN queue' : queue'[i] # Stop
        /\ Len(queue') < QueueSize /\ QueueSize \in Nat
    <2>1. Len(queue) <= QueueSize /\ QueueSize \in Nat
      BY TypesSplit, BoundsAssumption DEF DataOK
    <2>2. Len(queue') < QueueSize /\ (~(Len(queue) > 1) => Len(queue') = 0)
      BY <1>3, <2>1
    <2>3. \A i \in DOMAIN queue' : queue'[i] # Stop
      BY <1>2, <1>3
    <2>4. QED
      BY <1>3, <2>1, <2>2, <2>3
  <1>6. /\ running = Writer /\ written \in Seq(1 .. MaxFrames)
        /\ written' = Append(written, queue[1].id) /\ written' \in Seq(1 .. MaxFrames)
        /\ UNCHANGED <<day, running, at, inbox, blocked, closing, store, stop, cancelled, sent,
                       received, dropped, lost, failures>>
    <2>1. Head(queue).id \in 1 .. MaxFrames
      BY <1>2, <1>3 DEF Record
    <2>2. written \in Seq(1 .. MaxFrames)
      BY TypesSplit DEF DataOK
    <2>3. QED
      BY <2>1, <2>2
  <1> HIDE DEF WriterWrites
  <1>7. TypeOK'
    BY <1>1, <1>2, <1>3, <1>5, <1>6, TypesSplit, Waiting DEF DataOK, Moved
  <1>8. LoopInv'
    BY <1>1, <1>2, <1>6 DEF LoopInv, Moved, Places, When, Joiners
  <1>9. MainInv'
    BY <1>1, <1>2, <1>3, <1>5, <1>6 DEF MainInv, Moved, WorkersDone, When, Joiners
  <1>10. StreamInv'
    <2> DEFINE h == queue[1].id
    <2>1. WayInv /\ at[Writer] # "failed" /\ received \in Nat
      BY <1>2, TypesSplit DEF StreamInv, DataOK
    <2>2. IsQueued(h) /\ h \in 1 .. received /\ h \notin dropped
      BY <1>2, <1>3, <2>1 DEF IsQueued, OnItsWay, WayInv
    <2>3. ASSUME NEW k PROVE (IsQueued(k)' => IsQueued(k) /\ h < k) /\ (IsQueued(k) => k = h \/ IsQueued(k)')
      <3>1. ASSUME NEW i \in DOMAIN queue', queue'[i].id = k PROVE IsQueued(k) /\ h < k
        <4>1. /\ i + 1 \in DOMAIN queue /\ queue'[i] = queue[i + 1] /\ queue[i + 1] # Stop
              /\ 1 \in DOMAIN queue /\ queue[1] # Stop /\ 1 < i + 1
          BY <1>2, <1>3
        <4>2. QED
          BY <2>1, <3>1, <4>1 DEF WayInv, IsQueued
      <3>2. ASSUME NEW i \in DOMAIN queue, queue[i].id = k PROVE k = h \/ IsQueued(k)'
        <4>1. i = 1 \/ (i - 1 \in DOMAIN queue' /\ queue'[i - 1] = queue[i])
          BY <1>3
        <4>2. QED
          BY <1>5, <3>2, <4>1 DEF IsQueued
      <3>3. QED
        BY <3>1, <3>2 DEF IsQueued
    <2>4. \A k : IsBlocked(k)' <=> IsBlocked(k)
      BY <1>6 DEF IsBlocked
    <2>5. /\ DOMAIN written = 1 .. Len(written) /\ DOMAIN written' = 1 .. Len(written) + 1
          /\ Len(written) \in Nat /\ written'[Len(written) + 1] = h
          /\ \A i \in DOMAIN written : written'[i] = written[i]
      BY <1>6
    <2> HIDE DEF h
    <2>6. Written' = Written \cup {h}
      BY <2>5 DEF Written
    <2>7. \A w \in Written : w < h
      BY <2>1, <2>2 DEF WayInv, OnItsWay
    <2>8. ASSUME NEW k \in 1 .. h PROVE k \in Written \cup {h} \cup dropped
      <3>1. k \in 1 .. received /\ (k # h => k < h)
        BY <2>1, <2>2
      <3>2. ~IsQueued(k) \/ k = h
        BY <2>2, <2>3, <3>1
      <3>3. IsBlocked(k) \/ k \in lost => h < k
        BY <2>1, <2>2 DEF WayInv, StreamInv, IsBlocked
      <3>4. QED
        BY <2>1, <2>2, <3>1, <3>2, <3>3 DEF WayInv, OnItsWay
    <2>9. WrittenInOrder'
      <3>1. ASSUME NEW i \in DOMAIN written', NEW j \in DOMAIN written', i < j
            PROVE  written'[i] < written'[j]
        <4>1. i \in DOMAIN written /\ written'[i] = written[i] /\ written[i] \in Written
          BY <2>5, <3>1 DEF Written
        <4>2. CASE j \in DOMAIN written
          BY <2>5, <3>1, <4>1, <4>2 DEF StreamInv, WrittenInOrder
        <4>3. CASE j = Len(written) + 1
          BY <2>5, <2>7, <4>1, <4>3
        <4>4. QED
          BY <2>5, <4>2, <4>3
      <3>2. ASSUME NEW i \in DOMAIN written' PROVE 1 .. written'[i] \subseteq Written' \cup dropped
        <4>1. CASE i \in DOMAIN written
          BY <2>5, <2>6, <4>1 DEF StreamInv, WrittenInOrder
        <4>2. CASE i = Len(written) + 1
          BY <2>5, <2>6, <2>8, <4>2
        <4>3. QED
          BY <2>5, <4>1, <4>2
      <3>3. Written' \cap dropped = {} /\ (dropped # {} => failures > 0)
        BY <2>2, <2>6 DEF StreamInv, WrittenInOrder
      <3>4. QED
        BY <1>6, <3>1, <3>2, <3>3 DEF WrittenInOrder
    <2>10. WayInv'
      <3>1. \A k \in 1 .. received : k \in Written' \cup dropped \cup lost \/ OnItsWay(k)'
        BY <2>1, <2>3, <2>4, <2>6 DEF WayInv, OnItsWay
      <3>2. \A k : OnItsWay(k)' => OnItsWay(k)
        BY <2>3, <2>4 DEF OnItsWay
      <3>3. \A k : IsBlocked(k) => h < k
        BY <2>1, <2>2 DEF WayInv, StreamInv, IsBlocked
      <3>4. \A k, w : OnItsWay(k)' /\ w \in Written' => w < k
        BY <2>1, <2>3, <2>4, <2>6, <3>2, <3>3 DEF WayInv, OnItsWay
      <3>5. ASSUME NEW i \in DOMAIN queue', NEW j \in DOMAIN queue', i < j
            PROVE  queue'[i].id < queue'[j].id
        <4>1. /\ i + 1 \in DOMAIN queue /\ queue'[i] = queue[i + 1] /\ queue[i + 1] # Stop
              /\ j + 1 \in DOMAIN queue /\ queue'[j] = queue[j + 1] /\ queue[j + 1] # Stop
              /\ i + 1 < j + 1
          BY <1>2, <1>3, <3>5
        <4>2. QED
          BY <2>1, <4>1 DEF WayInv
      <3>6. QED
        BY <1>6, <2>1, <2>3, <3>1, <3>2, <3>4, <3>5 DEF WayInv
    <2>11. QED
      BY <1>6, <2>1, <2>2, <2>6, <2>9, <2>10 DEF StreamInv
  <1>11. WakeInv'
    BY <1>1, <1>2, <1>3, <1>5, <1>6 DEF WakeInv, Moved, IsFull, When, Joiners
  <1>12. CloseInv'
    BY <1>1, <1>6 DEF CloseInv, Moved, When, Joiners
  <1>13. OrderInv'
    <2>1. ~cancelled /\ at[DayCloser] = "joining" => ~OldBlocked
      BY <1>2 DEF OrderInv, Stranded
    <2>2. /\ Has(ready', Timer) => Has(ready, Timer)
          /\ Has(ready', DayCloser) /\ at[DayCloser] = "sleeping" => Has(ready, DayCloser)
          /\ Has(ready', DayCloser) => Has(ready, DayCloser) \/ queue' = <<>>
      BY <1>1, <1>5 DEF Moved, When, Joiners
    <2>3. ASSUME ~cancelled, at[DayCloser] = "joining", Has(ready', DayCloser),
                 NEW x \in Pending' \ {Stop, NoRecord}
          PROVE  x.day > closing
      <3>1. CASE Has(ready, DayCloser)
        BY <1>4, <2>3, <3>1 DEF OrderInv
      <3>2. CASE queue' = <<>>
        <4>1. x = blocked /\ blocked # NoRecord
          BY <1>6, <2>3, <3>2, PendingFacts
        <4>2. blocked.day \in Int /\ closing \in Int
          BY <4>1, TypesSplit DEF DataOK, Record, Days
        <4>3. QED
          BY <2>1, <2>3, <4>1, <4>2 DEF OldBlocked
      <3>3. QED
        BY <2>2, <2>3, <3>1, <3>2
    <2>4. \A f, g : Precedes(ready, f, g) => Precedes(ready', f, g)
      BY <1>1 DEF Moved
    <2>5. QED
      BY <1>2, <1>6, <2>1, <2>2, <2>3, <2>4 DEF OrderInv, OldBlocked, Stranded
  <1>14. DrainedAtDetach'
    BY <1>1, <1>4, <1>6 DEF DrainedAtDetach, Moved, Pending
  <1>15. QED
    BY <1>7, <1>8, <1>9, <1>10, <1>11, <1>12, <1>13, <1>14

LEMMA WriterFailsKeeps ==
    ASSUME RecorderInv, WriterFails
    PROVE  RecorderInv'
  <1> USE Whereabouts, Names DEF RecorderInv, WriterFails, AfterFailure, Goes,
     files, control
  <1>1. Moved({}, (When(at[Supervisor] = "putting", Supervisor) \cup Joiners) \cup When(at[Main] = "waiting", Main))
    <2> DEFINE p == When(at[Supervisor] = "putting", Supervisor)
               m == When(at[Main] = "waiting", Main)
    <2>1. Reached(AfterGet(ready), {}, {} \cup p)
      BY ReachedAtOnce, ReachedByWaking DEF AfterGet
    <2>2. Reached(AfterTaskDone(AfterGet(ready)), {}, ({} \cup p) \cup Joiners)
      BY <2>1, ReachedByTaskDone
    <2>3. Reached(ready', {}, (({} \cup p) \cup Joiners) \cup m)
      BY <2>2, ReachedByWaking
    <2> HIDE DEF p, m
    <2>4. (({} \cup p) \cup Joiners) \cup m = (p \cup Joiners) \cup m
      OBVIOUS
    <2>5. Moved({}, (p \cup Joiners) \cup m)
      BY <2>3, <2>4, MovedWhenReached
    <2>6. QED
      BY <2>5 DEF p, m
  <1>2. /\ at[Writer] = "getting" /\ ~Has(ready, Writer) /\ at[Main] # "exited"
        /\ at[Main] # "awaiting" /\ \A i \in DOMAIN queue : queue[i] # Stop
    <2>1. queue # <<Stop>>
      OBVIOUS
    <2>2. QED
      BY <2>1 DEF LoopInv, MainInv
  <1>3. /\ Len(queue) \in Nat \ {0} /\ DOMAIN queue = 1 .. Len(queue)
        /\ Len(queue') = Len(queue) - 1 /\ DOMAIN queue' = 1 .. Len(queue) - 1
        /\ \A i \in 1 .. Len(queue) - 1 : queue'[i] = queue[i + 1]
        /\ Head(queue) = queue[1] /\ Head(queue) \in Record
        /\ queue' \in Seq(Record \cup {Stop})
    <2>1. queue \in Seq(Record \cup {Stop})
      BY TypesSplit DEF DataOK
    <2>2. QED
      BY <2>1, QueueShrinks
  <1>4. \A x \in Pending' : x \in Pending
    BY <1>3, PendingFacts
  <1>5. /\ ~(Len(queue) > 1) => queue' = <<>>
        /\ \A i \in DOMAIN queue' : queue'[i] # Stop
        /\ Len(queue') < QueueSize /\ QueueSize \in Nat
    <2>1. Len(queue) <= QueueSize /\ QueueSize \in Nat
      BY TypesSplit, BoundsAssumption DEF DataOK
    <2>2. Len(queue') < QueueSize /\ (~(Len(queue) > 1) => Len(queue') = 0)
      BY <1>3, <2>1
    <2>3. \A i \in DOMAIN queue' : queue'[i] # Stop
      BY <1>2, <1>3
    <2>4. QED
      BY <1>3, <2>1, <2>2, <2>3
  <1>6. /\ running = Writer /\ running' = NoTask /\ stop' = TRUE /\ failures' \in Nat \ {0}
        /\ at' \in [Task -> Places] /\ at'[Writer] = "failed"
        /\ \A t \in Task \ {Writer} : at'[t] = at[t]
        /\ UNCHANGED <<day, inbox, blocked, closing, store, cancelled, sent, received, written,
                       dropped, lost>>
    BY TypesSplit DEF DataOK, Places
  <1> HIDE DEF WriterFails
  <1>7. TypeOK'
    BY <1>1, <1>2, <1>3, <1>5, <1>6, TypesSplit, Waiting DEF DataOK, Moved
  <1>8. LoopInv'
    BY <1>1, <1>2, <1>6 DEF LoopInv, Moved, Places, When, Joiners
  <1>9. MainInv'
    BY <1>1, <1>2, <1>3, <1>5, <1>6 DEF MainInv, Moved, WorkersDone, When, Joiners
  <1>10. StreamInv'
    <2>1. Written' = Written /\ failures' > 0
      BY <1>6 DEF Written
    <2>2. WrittenInOrder'
      BY <1>6, <2>1 DEF StreamInv, WrittenInOrder
    <2>3. QED
      BY <1>6, <2>1, <2>2 DEF StreamInv
  <1>11. WakeInv'
    BY <1>1, <1>2, <1>3, <1>5, <1>6 DEF WakeInv, Moved, IsFull, When, Joiners
  <1>12. CloseInv'
    BY <1>1, <1>6 DEF CloseInv, Moved, When, Joiners
  <1>13. OrderInv'
    <2>1. ~cancelled /\ at[DayCloser] = "joining" => ~OldBlocked
      BY <1>2 DEF OrderInv, Stranded
    <2>2. /\ Has(ready', Timer) => Has(ready, Timer)
          /\ Has(ready', DayCloser) /\ at[DayCloser] = "sleeping" => Has(ready, DayCloser)
          /\ Has(ready', DayCloser) => Has(ready, DayCloser) \/ queue' = <<>>
      BY <1>1, <1>5 DEF Moved, When, Joiners
    <2>3. ASSUME ~cancelled, at[DayCloser] = "joining", Has(ready', DayCloser),
                 NEW x \in Pending' \ {Stop, NoRecord}
          PROVE  x.day > closing
      <3>1. CASE Has(ready, DayCloser)
        BY <1>4, <2>3, <3>1 DEF OrderInv
      <3>2. CASE queue' = <<>>
        <4>1. x = blocked /\ blocked # NoRecord
          BY <1>6, <2>3, <3>2, PendingFacts
        <4>2. blocked.day \in Int /\ closing \in Int
          BY <4>1, TypesSplit DEF DataOK, Record, Days
        <4>3. QED
          BY <2>1, <2>3, <4>1, <4>2 DEF OldBlocked
      <3>3. QED
        BY <2>2, <2>3, <3>1, <3>2
    <2>4. \A f, g : Precedes(ready, f, g) => Precedes(ready', f, g)
      BY <1>1 DEF Moved
    <2>5. QED
      BY <1>2, <1>6, <2>1, <2>2, <2>3, <2>4 DEF OrderInv, OldBlocked, Stranded
  <1>14. DrainedAtDetach'
    BY <1>1, <1>4, <1>6 DEF DrainedAtDetach, Moved, Pending
  <1>15. QED
    BY <1>7, <1>8, <1>9, <1>10, <1>11, <1>12, <1>13, <1>14

LEMMA WriterEndsKeeps ==
    ASSUME RecorderInv, WriterEnds
    PROVE  RecorderInv'
  <1> USE Whereabouts, Names DEF RecorderInv, WriterEnds, Goes, files, control,
     history
  <1>1. Moved({}, Joiners \cup When(at[Main] = "awaiting", Main))
    <2>1. Reached(AfterTaskDone(ready), {}, {} \cup Joiners)
      BY ReachedAtOnce, ReachedByTaskDone
    <2>2. Reached(ready', {}, ({} \cup Joiners) \cup When(at[Main] = "awaiting", Main))
      BY <2>1, ReachedByWaking
    <2>3. {} \cup Joiners = Joiners
      OBVIOUS
    <2>4. QED
      BY <2>2, <2>3, MovedWhenReached
  <1>2. at[Writer] = "getting" /\ ~Has(ready, Writer) /\ running = Writer /\ at[Main] # "exited"
    BY DEF LoopInv
  <1>3. at[Main] = "awaiting" /\ queue = <<Stop>> /\ cancelled /\ at[Supervisor] = "done"
    <2>1. 1 \in DOMAIN queue /\ queue[1] = Stop
      BY TypesSplit DEF DataOK
    <2>2. QED
      BY <2>1 DEF MainInv, WorkersDone
  <1>4. /\ queue' = <<>> /\ running' = NoTask
        /\ at' \in [Task -> Places] /\ at'[Writer] = "done"
        /\ \A t \in Task \ {Writer} : at'[t] = at[t]
        /\ UNCHANGED <<day, inbox, blocked, closing, store, stop, cancelled, sent, received,
                       written, dropped, lost, failures>>
    BY <1>3 DEF Places
  <1> HIDE DEF WriterEnds
  <1>5. \A x \in Pending' : x \in Pending
    BY <1>4, PendingFacts
  <1>6. queue' \in Seq(Record \cup {Stop}) /\ Len(queue') <= QueueSize
    BY <1>4, BoundsAssumption
  <1>7. \A k : ~OnItsWay(k) /\ ~OnItsWay(k)'
    <2>1. blocked = NoRecord /\ blocked' = NoRecord
      BY <1>3, <1>4 DEF MainInv, StreamInv, WorkersDone
    <2>2. \A i \in DOMAIN queue : queue[i] = Stop
      BY <1>3
    <2>3. QED
      BY <1>4, <2>1, <2>2 DEF OnItsWay, IsQueued, IsBlocked
  <1>8. TypeOK'
    BY <1>1, <1>2, <1>4, <1>6, TypesSplit, Waiting DEF DataOK, Moved
  <1>9. LoopInv'
    BY <1>1, <1>2, <1>4 DEF LoopInv, Moved, Places, When, Joiners
  <1>10. MainInv'
    BY <1>1, <1>2, <1>3, <1>4 DEF MainInv, Moved, WorkersDone, When, Joiners
  <1>11. StreamInv'
    <2>1. Written' = Written
      BY <1>4 DEF Written
    <2>2. WrittenInOrder'
      BY <1>4, <2>1 DEF StreamInv, WrittenInOrder
    <2>3. WayInv => WayInv'
      BY <1>4, <1>7, <2>1 DEF WayInv, OnItsWay
    <2>4. QED
      BY <1>2, <1>4, <2>1, <2>2, <2>3 DEF StreamInv
  <1>12. WakeInv'
    BY <1>1, <1>2, <1>3, <1>4 DEF WakeInv, Moved, IsFull, When, Joiners
  <1>13. CloseInv'
    BY <1>1, <1>3, <1>4 DEF CloseInv, Moved, When, Joiners
  <1>14. OrderInv'
    BY <1>1, <1>3, <1>4 DEF OrderInv, Moved, OldBlocked, Stranded, Pending, When,
       Joiners
  <1>15. DrainedAtDetach'
    BY <1>1, <1>4, <1>5 DEF DrainedAtDetach, Moved, Pending
  <1>16. QED
    BY <1>8, <1>9, <1>10, <1>11, <1>12, <1>13, <1>14, <1>15

LEMMA WriterYieldsKeeps ==
    ASSUME RecorderInv, WriterYields
    PROVE  RecorderInv'
  <1> USE Whereabouts, Names DEF RecorderInv, WriterYields, flow, files, control,
     history
  <1>1. Moved({}, {})
    BY NoMove
  <1>2. TypeOK'
    BY <1>1, TypesSplit, Waiting DEF DataOK, Moved
  <1>3. LoopInv'
    BY <1>1 DEF LoopInv, Moved, Places
  <1>4. MainInv'
    BY <1>1 DEF MainInv, Moved, WorkersDone
  <1>5. StreamInv'
    BY <1>1, StreamKept DEF StreamInv
  <1>6. WakeInv'
    BY <1>1 DEF WakeInv, Moved, IsFull
  <1>7. CloseInv'
    BY <1>1 DEF CloseInv, Moved
  <1>8. OrderInv'
    BY <1>1, BoundsAssumption DEF OrderInv, Moved, OldBlocked, Stranded, Pending,
       StreamInv, WakeInv, IsFull
  <1>9. DrainedAtDetach'
    BY <1>1 DEF DrainedAtDetach, Moved, Pending
  <1>10. QED
    BY <1>2, <1>3, <1>4, <1>5, <1>6, <1>7, <1>8, <1>9

-----------------------------------------------------------------------------
(* The day-close task.                                                      *)
LEMMA TimerFiresKeeps ==
    ASSUME RecorderInv, TimerFires
    PROVE  RecorderInv'
  <1> USE Whereabouts, Names DEF RecorderInv, TimerFires, flow, files, control,
     history
  <1>1. Moved({Timer}, When(at[DayCloser] = "sleeping", DayCloser))
    BY WakingTurn
  <1>2. running = NoTask
    BY DEF Runs
  <1>3. TypeOK'
    BY <1>1, TypesSplit, Waiting DEF DataOK, Moved
  <1>4. LoopInv'
    BY <1>1 DEF LoopInv, Moved, Places, When
  <1>5. MainInv'
    BY <1>1 DEF MainInv, Moved, WorkersDone, When
  <1>6. StreamInv'
    BY <1>1, StreamKept DEF StreamInv
  <1>7. WakeInv'
    BY <1>1 DEF WakeInv, Moved, IsFull, When
  <1>8. CloseInv'
    BY <1>1 DEF CloseInv, Moved, When
  <1>9. OrderInv'
    <2>1. /\ Has(ready, Timer) /\ ~Has(ready', Timer) /\ ~Precedes(ready, Writer, Timer)
          /\ Has(ready', Supervisor) <=> Has(ready, Supervisor)
      BY <1>1 DEF Moved, When
    <2>2. ASSUME ~cancelled, at[DayCloser] = "sleeping", OldBlocked
          PROVE  Precedes(ready', Supervisor, DayCloser) \/ Stranded'
      <3>1. Has(ready, Supervisor) \/ at[Writer] = "failed"
        BY <1>2, <2>1, <2>2 DEF OrderInv
      <3>2. ~Has(ready, DayCloser)
        BY <2>1, <2>2 DEF CloseInv
      <3>3. CASE Has(ready, Supervisor)
        BY <1>1, <2>2, <3>2, <3>3 DEF Moved, When
      <3>4. CASE ~Has(ready, Supervisor)
        BY <2>1, <3>1, <3>4 DEF Stranded
      <3>5. QED
        BY <3>3, <3>4
    <2>3. at[DayCloser] = "joining" => (Has(ready', DayCloser) <=> Has(ready, DayCloser))
      BY <1>1 DEF Moved, When
    <2>4. QED
      BY <2>1, <2>2, <2>3 DEF OrderInv, OldBlocked, Stranded, Pending
  <1>10. DrainedAtDetach'
    BY <1>1 DEF DrainedAtDetach, Moved, Pending
  <1>11. QED
    BY <1>3, <1>4, <1>5, <1>6, <1>7, <1>8, <1>9, <1>10

LEMMA DayCloserCancelledKeeps ==
    ASSUME RecorderInv, DayCloserCancelled
    PROVE  RecorderInv'
  <1> USE Whereabouts, Names DEF RecorderInv, DayCloserCancelled, Goes, flow,
     files, control, history
  <1>1. Moved({DayCloser}, When(at[Main] = "gathering" /\ at[Supervisor] = "done", Main))
    <2> DEFINE c == at[Main] = "gathering" /\ \A w \in Worker \ {DayCloser} : at[w] = "done"
    <2>1. c <=> at[Main] = "gathering" /\ at[Supervisor] = "done"
      OBVIOUS
    <2>2. Moved({DayCloser}, When(c, Main))
      BY WakingTurn DEF WakeGather
    <2>3. QED
      BY <2>1, <2>2 DEF When
  <1>2. TypeOK'
    BY <1>1, TypesSplit, Waiting DEF DataOK, Moved
  <1>3. LoopInv'
    BY <1>1 DEF LoopInv, Moved, Places, When
  <1>4. MainInv'
    BY <1>1 DEF MainInv, Moved, WorkersDone, When
  <1>5. StreamInv'
    BY <1>1, StreamKept DEF StreamInv
  <1>6. WakeInv'
    BY <1>1 DEF WakeInv, Moved, IsFull, When
  <1>7. CloseInv'
    BY <1>1 DEF CloseInv, Moved, When
  <1>8. OrderInv'
    BY <1>1 DEF OrderInv, Moved, OldBlocked, Stranded, Pending, When
  <1>9. DrainedAtDetach'
    BY <1>1 DEF DrainedAtDetach, Moved, Pending
  <1>10. QED
    BY <1>2, <1>3, <1>4, <1>5, <1>6, <1>7, <1>8, <1>9

LEMMA DayCloserJoinsKeeps ==
    ASSUME RecorderInv, DayCloserJoins
    PROVE  RecorderInv'
  <1> USE Whereabouts, Names DEF RecorderInv, DayCloserJoins, Goes, flow, files,
     control, history
  <1>1. Moved({DayCloser}, {})
    BY PlainTurn
  <1>2. TypeOK'
    BY <1>1, TypesSplit, Waiting DEF DataOK, Moved
  <1>3. LoopInv'
    BY <1>1 DEF LoopInv, Moved, Places
  <1>4. MainInv'
    BY <1>1 DEF MainInv, Moved, WorkersDone
  <1>5. StreamInv'
    BY <1>1, StreamKept DEF StreamInv
  <1>6. WakeInv'
    BY <1>1 DEF WakeInv, Moved, IsFull
  <1>7. CloseInv'
    BY <1>1 DEF CloseInv, Moved
  <1>8. OrderInv'
    BY <1>1 DEF OrderInv, Moved, OldBlocked, Stranded, Pending, CloseInv
  <1>9. DrainedAtDetach'
    BY <1>1 DEF DrainedAtDetach, Moved, Pending
  <1>10. QED
    BY <1>2, <1>3, <1>4, <1>5, <1>6, <1>7, <1>8, <1>9

LEMMA DayCloserDetachesKeeps ==
    ASSUME RecorderInv, DayCloserDetaches
    PROVE  RecorderInv'
  <1> USE Whereabouts, Names DEF RecorderInv, DayCloserDetaches, JoinReturns, Goes,
     flow, control, history
  <1>1. Moved({DayCloser}, {})
    BY PlainTurn
  <1>2. running = NoTask /\ closing < day /\ closing \in Days /\ day \in Int
        /\ store' = [store EXCEPT ![closing] = "detached"]
        /\ store \in [Days -> {"active", "detached", "final", "abandoned"}]
    BY <1>1, TypesSplit DEF Runs, CloseInv, Moved, DataOK, Days
  <1>3. ASSUME NEW x \in Pending \ {Stop, NoRecord}
        PROVE  x.day > closing
    <2>1. CASE at[DayCloser] = "joining"
      BY <1>1, <1>3, <2>1 DEF OrderInv, Moved
    <2>2. CASE at[DayCloser] = "sleeping" /\ queue = <<>>
      <3>1. x = blocked /\ blocked # NoRecord
        BY <1>3, <2>2, PendingFacts
      <3>2. blocked.day \in Int /\ closing \in Int
        BY <3>1, TypesSplit DEF DataOK, Record, Days
      <3>3. ~IsFull
        BY <2>2, BoundsAssumption DEF IsFull
      <3>4. ~Stranded
        BY <3>1, <3>3 DEF Stranded, StreamInv, WakeInv
      <3>5. ~OldBlocked
        BY <1>1, <2>2, <3>4 DEF OrderInv, Moved
      <3>6. QED
        BY <3>1, <3>2, <3>5 DEF OldBlocked
    <2>3. QED
      BY <2>1, <2>2
  <1>4. TypeOK'
    BY <1>1, <1>2, TypesSplit, Waiting DEF DataOK, Moved
  <1>5. LoopInv'
    BY <1>1, <1>2 DEF LoopInv, Moved, Places
  <1>6. MainInv'
    BY <1>1 DEF MainInv, Moved, WorkersDone
  <1>7. StreamInv'
    BY <1>1, StreamKept DEF StreamInv
  <1>8. WakeInv'
    BY <1>1 DEF WakeInv, Moved, IsFull
  <1>9. CloseInv'
    BY <1>1, TypesSplit, <1>2 DEF CloseInv, Moved, DataOK, Days
  <1>10. OrderInv'
    BY <1>1 DEF OrderInv, Moved, OldBlocked, Stranded, Pending
  <1>11. DrainedAtDetach'
    BY <1>1, <1>2, <1>3 DEF DrainedAtDetach, Moved, Pending
  <1>12. QED
    BY <1>4, <1>5, <1>6, <1>7, <1>8, <1>9, <1>10, <1>11

LEMMA DayCloserFailsKeeps ==
    ASSUME RecorderInv, DayCloserFails
    PROVE  RecorderInv'
  <1> USE Whereabouts, Names DEF RecorderInv, DayCloserFails, Goes, flow, files
  <1>1. Moved({DayCloser}, When(at[Main] = "waiting", Main))
    BY WakingTurn
  <1>2. failures' \in Nat /\ (failures > 0 => failures' > 0)
    BY TypesSplit DEF DataOK
  <1>3. TypeOK'
    BY <1>1, <1>2, TypesSplit, Waiting DEF DataOK, Moved
  <1>4. LoopInv'
    BY <1>1 DEF LoopInv, Moved, Places, When
  <1>5. MainInv'
    BY <1>1 DEF MainInv, Moved, WorkersDone, When
  <1>6. StreamInv'
    BY <1>1, <1>2, StreamKept DEF StreamInv
  <1>7. WakeInv'
    BY <1>1 DEF WakeInv, Moved, IsFull, When
  <1>8. CloseInv'
    BY <1>1 DEF CloseInv, Moved, When
  <1>9. OrderInv'
    BY <1>1 DEF OrderInv, Moved, OldBlocked, Stranded, Pending, When
  <1>10. DrainedAtDetach'
    BY <1>1 DEF DrainedAtDetach, Moved, Pending
  <1>11. QED
    BY <1>3, <1>4, <1>5, <1>6, <1>7, <1>8, <1>9, <1>10

LEMMA DayCloserSleepsKeeps ==
    ASSUME RecorderInv, DayCloserSleeps
    PROVE  RecorderInv'
  <1> USE Whereabouts, Names DEF RecorderInv, DayCloserSleeps, NextClosing, Goes,
     flow, control, history
  <1>1. Moved({DayCloser}, {})
    BY PlainTurn
  <1>2. day \in Int /\ closing \in Int /\ ~Has(ready, Timer)
    BY TypesSplit DEF DataOK, Days, CloseInv
  <1>3. TypeOK'
    BY <1>1, TypesSplit, Waiting DEF DataOK, Moved
  <1>4. LoopInv'
    BY <1>1 DEF LoopInv, Moved, Places
  <1>5. MainInv'
    BY <1>1 DEF MainInv, Moved, WorkersDone
  <1>6. StreamInv'
    BY <1>1, StreamKept DEF StreamInv
  <1>7. WakeInv'
    BY <1>1 DEF WakeInv, Moved, IsFull
  <1>8. CloseInv'
    BY <1>1, TypesSplit, <1>2 DEF CloseInv, Moved, DataOK, Days
  <1>9. OrderInv'
    BY <1>1 DEF OrderInv, Moved, OldBlocked, Stranded, Pending, CloseInv
  <1>10. DrainedAtDetach'
    BY <1>1 DEF DrainedAtDetach, Moved, Pending
  <1>11. QED
    BY <1>3, <1>4, <1>5, <1>6, <1>7, <1>8, <1>9, <1>10

-----------------------------------------------------------------------------
(* run().                                                                   *)
LEMMA MainCancelsKeeps ==
    ASSUME RecorderInv, MainCancels
    PROVE  RecorderInv'
  <1> USE Whereabouts, Names DEF RecorderInv, MainCancels, Goes, flow, files,
     history
  <1>1. Moved({Main}, (When(at[Supervisor] # "done", Supervisor) \cup When(at[DayCloser] # "done", DayCloser)) \cup When(WorkersDone, Main))
    <2> DEFINE c == \A w \in Worker : at[w] = "done"
               s == When(at[Supervisor] # "done", Supervisor)
               d == When(at[DayCloser] # "done", DayCloser)
               r1 == WakeIf(Tail(ready), Supervisor, at[Supervisor] # "done")
               r2 == WakeIf(r1, DayCloser, at[DayCloser] # "done")
    <2>1. /\ Reached(Tail(ready), {Main}, {}) /\ Has(ready, Main)
          /\ \A f : ~Precedes(ready, f, Main)
      BY ReachedByTurn DEF Runs
    <2>2. Reached(r1, {Main}, {} \cup s)
      BY <2>1, ReachedByWaking
    <2>3. Reached(r2, {Main}, ({} \cup s) \cup d)
      BY <2>2, ReachedByWaking
    <2>4. ready' = WakeIf(r2, Main, c)
      OBVIOUS
    <2> HIDE DEF s, d, r1, r2, c, MainCancels, RecorderInv
    <2>5. Reached(ready', {Main}, (({} \cup s) \cup d) \cup When(c, Main))
      BY <2>3, <2>4, ReachedByWaking
    <2>6. Moved({Main}, (({} \cup s) \cup d) \cup When(c, Main))
      BY <2>1, <2>5, MovedWhenReached
    <2>7. When(c, Main) = When(WorkersDone, Main)
      BY DEF When, c, WorkersDone
    <2>8. (({} \cup s) \cup d) \cup When(c, Main) = (s \cup d) \cup When(WorkersDone, Main)
      BY <2>7
    <2>9. QED
      BY <2>6, <2>8 DEF s, d
  <1>2. /\ running = NoTask /\ at[Main] = "waiting" /\ stop /\ ~cancelled /\ cancelled' = TRUE
        /\ at' \in [Task -> Places] /\ at'[Main] = "gathering"
        /\ \A t \in Task \ {Main} : at'[t] = at[t]
        /\ UNCHANGED <<day, running, flow, files, stop, history>>
    BY <1>1 DEF Runs, MainInv, Moved, Places
  <1> HIDE DEF MainCancels
  <1>3. TypeOK'
    BY <1>1, <1>2, TypesSplit, Waiting DEF DataOK, Moved
  <1>4. LoopInv'
    BY <1>1, <1>2 DEF LoopInv, Moved, Places, When
  <1>5. MainInv'
    BY <1>1, <1>2 DEF MainInv, Moved, WorkersDone, When
  <1>6. StreamInv'
    BY <1>1, <1>2, StreamKept DEF StreamInv
  <1>7. WakeInv'
    BY <1>1, <1>2 DEF WakeInv, Moved, IsFull, When
  <1>8. CloseInv'
    BY <1>1, <1>2 DEF CloseInv, Moved, When
  <1>9. OrderInv'
    BY <1>1, <1>2 DEF OrderInv, Moved, OldBlocked, Stranded, Pending, When
  <1>10. DrainedAtDetach'
    BY <1>1, <1>2 DEF DrainedAtDetach, Moved, Pending
  <1>11. QED
    BY <1>3, <1>4, <1>5, <1>6, <1>7, <1>8, <1>9, <1>10

LEMMA MainEndsWriterKeeps ==
    ASSUME RecorderInv, MainEndsWriter
    PROVE  RecorderInv'
  <1> USE Whereabouts, Names DEF RecorderInv, MainEndsWriter, WriterIsDone, Goes,
     files, control, history
  <1>1. Moved({Main}, When(at[Writer] = "getting" /\ (at[Main] = "joining" \/ (queue = <<>> /\ ~WriterIsDone)), Writer))
    <2> DEFINE c == at[Main] = "joining" \/ (queue = <<>> /\ ~WriterIsDone)
    <2>1. CASE c
      <3>1. Moved({Main}, When(at[Writer] = "getting", Writer))
        BY <2>1, WakingTurn DEF WakeWriter
      <3>2. QED
        BY <2>1, <3>1 DEF When
    <2>2. CASE ~c
      BY <2>2, PlainTurn DEF When
    <2>3. QED
      BY <2>1, <2>2
  <1>2. /\ running = NoTask /\ cancelled /\ stop /\ WorkersDone /\ blocked = NoRecord
        /\ at[Writer] # "done"
        /\ at[Main] = "joining" => queue = <<>>
        /\ ~Has(ready', Main)
    BY <1>1 DEF Runs, MainInv, Moved, WorkersDone, StreamInv, When
  <1>3. /\ at' \in [Task -> Places] /\ \A t \in Task \ {Main} : at'[t] = at[t]
        /\ UNCHANGED <<day, running, inbox, blocked, closing, store, stop, cancelled, sent,
                       received, written, dropped, lost, failures>>
    BY DEF Places
  <1>4. \/ at'[Main] = "exited" /\ queue' = <<>> /\ at[Writer] = "failed"
        \/ at'[Main] = "awaiting" /\ queue = <<>> /\ queue' = <<Stop>>
        \/ at'[Main] = "joining" /\ queue' = queue
    <2>1. at[Main] \in Task \cup Places /\ Main \in DOMAIN at
      BY DEF LoopInv, Places
    <2>2. CASE at[Main] = "gathering" /\ at[Writer] = "failed"
      BY <2>1, <2>2
    <2>3. CASE at[Main] = "joining" \/ (at[Writer] # "failed" /\ queue = <<>>)
      <3>1. queue = <<>> /\ queue' = Append(queue, Stop) /\ at'[Main] = "awaiting"
        BY <1>2, <2>1, <2>3
      <3>2. QED
        BY <3>1
    <2>4. CASE at[Main] = "gathering" /\ at[Writer] # "failed" /\ queue # <<>>
      BY <2>1, <2>4
    <2>5. QED
      BY <2>2, <2>3, <2>4
  <1>5. /\ queue' \in Seq(Record \cup {Stop}) /\ Len(queue') <= QueueSize
        /\ \A x \in Pending' : x \in Pending \/ x = Stop
        /\ at'[Main] # "awaiting" => \A i \in DOMAIN queue' : queue'[i] # Stop
        /\ \A i \in DOMAIN queue' : queue'[i] = Stop \/ queue' = queue
    <2>1. CASE queue' = <<>> /\ at[Writer] = "failed"
      BY <1>3, <2>1, PendingFacts, BoundsAssumption
    <2>2. CASE at'[Main] = "awaiting" /\ queue = <<>> /\ queue' = <<Stop>>
      <3>1. DOMAIN <<Stop>> = {1} /\ <<Stop>>[1] = Stop /\ Len(<<Stop>>) = 1
        OBVIOUS
      <3>2. \A x \in Pending' : x \in Pending \/ x = Stop
        BY <1>3, <2>2, <3>1, PendingFacts
      <3>3. QED
        BY <2>2, <3>1, <3>2, BoundsAssumption
    <2>3. CASE at'[Main] = "joining" /\ queue' = queue
      <3>1. \A x \in Pending' : x \in Pending
        BY <1>3, <2>3, PendingFacts
      <3>2. \A i \in DOMAIN queue : queue[i] # Stop
        BY DEF MainInv
      <3>3. QED
        BY <2>3, <3>1, <3>2, TypesSplit DEF DataOK
    <2>4. QED
      BY <1>4, <2>1, <2>2, <2>3
  <1> HIDE DEF MainEndsWriter
  <1>6. TypeOK'
    BY <1>1, <1>2, <1>3, <1>4, <1>5, TypesSplit, Waiting DEF DataOK, Moved
  <1>7. LoopInv'
    BY <1>1, <1>2, <1>3, <1>4, <1>5 DEF LoopInv, Moved, Places, When, WorkersDone
  <1>8. MainInv'
    BY <1>1, <1>2, <1>3, <1>4, <1>5 DEF MainInv, Moved, WorkersDone, When,
       WorkersDone
  <1>9. StreamInv'
    <2>1. Written' = Written
      BY <1>3 DEF Written
    <2>2. WrittenInOrder'
      BY <1>3, <2>1 DEF StreamInv, WrittenInOrder
    <2>3. ASSUME at[Writer] # "failed", WayInv PROVE WayInv'
      <3>1. CASE queue' = queue
        BY <1>3, <2>1, <2>3, <3>1 DEF WayInv, OnItsWay, IsQueued, IsBlocked
      <3>2. CASE queue = <<>> /\ queue' = <<Stop>>
        <4>1. \A i \in DOMAIN queue' : queue'[i] = Stop
          BY <3>2
        <4>2. \A k : ~OnItsWay(k) /\ ~OnItsWay(k)'
          BY <1>2, <1>3, <3>2, <4>1 DEF OnItsWay, IsQueued, IsBlocked
        <4>3. QED
          BY <1>3, <2>1, <2>3, <4>1, <4>2 DEF WayInv, OnItsWay
      <3>3. QED
        BY <1>4, <2>3, <3>1, <3>2
    <2>4. QED
      BY <1>3, <2>1, <2>2, <2>3 DEF StreamInv
  <1>10. WakeInv'
    BY <1>1, <1>2, <1>3, <1>4, <1>5 DEF WakeInv, Moved, IsFull, When, WorkersDone
  <1>11. CloseInv'
    BY <1>1, <1>2, <1>3, <1>4, <1>5 DEF CloseInv, Moved, When, WorkersDone
  <1>12. OrderInv'
    BY <1>1, <1>2, <1>3, <1>4, <1>5 DEF OrderInv, Moved, OldBlocked, Stranded,
       Pending, When, WorkersDone
  <1>13. DrainedAtDetach'
    BY <1>1, <1>2, <1>3, <1>4, <1>5 DEF DrainedAtDetach, Moved, Pending
  <1>14. QED
    BY <1>6, <1>7, <1>8, <1>9, <1>10, <1>11, <1>12, <1>13

LEMMA MainExitsKeeps ==
    ASSUME RecorderInv, MainExits
    PROVE  RecorderInv'
  <1> USE Whereabouts, Names DEF RecorderInv, MainExits, Runs, Goes, flow, files,
     control, history
  <1>1. Moved({Main}, {})
    BY PlainTurn
  <1>2. TypeOK'
    BY <1>1, TypesSplit, Waiting DEF DataOK, Moved
  <1>3. LoopInv'
    BY <1>1 DEF LoopInv, Moved, Places
  <1>4. MainInv'
    BY <1>1 DEF MainInv, Moved, WorkersDone
  <1>5. StreamInv'
    BY <1>1, StreamKept DEF StreamInv
  <1>6. WakeInv'
    BY <1>1 DEF WakeInv, Moved, IsFull
  <1>7. CloseInv'
    BY <1>1 DEF CloseInv, Moved
  <1>8. OrderInv'
    BY <1>1 DEF OrderInv, Moved, OldBlocked, Stranded, Pending
  <1>9. DrainedAtDetach'
    BY <1>1 DEF DrainedAtDetach, Moved, Pending
  <1>10. QED
    BY <1>2, <1>3, <1>4, <1>5, <1>6, <1>7, <1>8, <1>9

-----------------------------------------------------------------------------
LEMMA RecorderInit == Init => RecorderInv
  <1> SUFFICES ASSUME Init PROVE RecorderInv
    OBVIOUS
  <1> USE Names DEF Init
  <1>1. /\ at[Supervisor] = "away" /\ at[Writer] = "getting" /\ at[DayCloser] = "sleeping"
        /\ at[Main] = "waiting" /\ at \in [Task -> Places]
    BY DEF Places
  <1>2. \A h : ~Has(ready, h)
    BY DEF Has
  <1>3. 0 \in Days /\ 0 \in 0 .. MaxFrames
    BY BoundsAssumption DEF Days
  <1>4. TypeOK
    <2>1. Handles(ready)
      BY DEF Handles, Distinct
    <2>2. queue \in Seq(Record \cup {Stop}) /\ Len(queue) <= QueueSize
      BY BoundsAssumption
    <2>3. store \in [Days -> {"active", "detached", "final", "abandoned"}]
      OBVIOUS
    <2>4. QED
      BY <1>1, <1>3, <2>1, <2>2, <2>3, TypesSplit, Waiting DEF DataOK
  <1>5. LoopInv /\ MainInv
    BY <1>1, <1>2 DEF LoopInv, MainInv
  <1>6. StreamInv
    <2>1. Written = {} /\ 1 .. received = {} /\ \A k : ~OnItsWay(k)
      BY DEF Written, OnItsWay, IsQueued, IsBlocked
    <2>2. WrittenInOrder /\ WayInv
      BY <2>1 DEF WrittenInOrder, WayInv, OnItsWay
    <2>3. QED
      BY <1>1, <2>1, <2>2 DEF StreamInv
  <1>7. WakeInv /\ CloseInv /\ OrderInv /\ DrainedAtDetach
    BY <1>1, <1>2, <1>3 DEF WakeInv, CloseInv, OrderInv, DrainedAtDetach
  <1>8. QED
    BY <1>4, <1>5, <1>6, <1>7 DEF RecorderInv

LEMMA RecorderStep == RecorderInv /\ [Next]_vars => RecorderInv'
  <1> SUFFICES ASSUME RecorderInv, [Next]_vars PROVE RecorderInv'
    OBVIOUS
  <1>1. CASE SupervisorStep
    BY <1>1, SupervisorCancelledKeeps, SupervisorResumesKeeps, SupervisorConnectsKeeps,
       SupervisorFailsKeeps, SupervisorPutsKeeps, BlockedFrameKeeps, QueuedFrameKeeps, OtherFrameKeeps,
       SupervisorYieldsKeeps DEF SupervisorStep
  <1>2. CASE WriterStep
    BY <1>2, WriterResumesKeeps, WriterWritesKeeps, WriterFailsKeeps, WriterEndsKeeps,
       WriterYieldsKeeps DEF WriterStep
  <1>3. CASE DayCloserStep
    BY <1>3, TimerFiresKeeps, DayCloserCancelledKeeps, DayCloserJoinsKeeps,
       DayCloserDetachesKeeps, DayCloserFailsKeeps, DayCloserSleepsKeeps DEF DayCloserStep
  <1>4. CASE MainStep
    BY <1>4, MainCancelsKeeps, MainEndsWriterKeeps, MainExitsKeeps DEF MainStep
  <1>5. CASE World
    BY <1>5, TickKeeps, FrameArrivesKeeps, ReconnectedKeeps, TimerDueKeeps,
       ThreadDoneKeeps, ThreadFailsKeeps, SignalKeeps DEF World
  <1>6. CASE UNCHANGED vars
    <2>1. /\ UNCHANGED <<day, ready, running, at, inbox, queue, blocked, closing, store>>
          /\ UNCHANGED <<stop, cancelled, sent, received, written, dropped, lost, failures>>
      BY <1>6 DEF vars, loop, flow, files, control, history
    <2>2. TypeOK' /\ LoopInv' /\ MainInv' /\ StreamInv'
      <3>1. TypeOK'
        BY <2>1, TypesSplit DEF RecorderInv, DataOK
      <3>2. LoopInv' /\ MainInv'
        BY <2>1 DEF RecorderInv, LoopInv, MainInv, WorkersDone
      <3>3. StreamInv'
        BY <2>1, StreamKept DEF RecorderInv, StreamInv
      <3>4. QED
        BY <3>1, <3>2, <3>3
    <2>3. WakeInv' /\ CloseInv' /\ OrderInv' /\ DrainedAtDetach'
      BY <2>1 DEF RecorderInv, WakeInv, IsFull, CloseInv, OrderInv, OldBlocked, Stranded,
         Pending, DrainedAtDetach
    <2>4. QED
      BY <2>2, <2>3 DEF RecorderInv
  <1>7. QED
    BY <1>1, <1>2, <1>3, <1>4, <1>5, <1>6 DEF Next, LoopStep

(* The invariant that carries the others: the order of the loop's handles   *)
(* brings a put that midnight met to the queue, and the writer to it,       *)
(* before the day-close task (_day_close_loop, _websocket_supervisor,       *)
(* _writer_loop and run).                                                   *)
THEOREM RecorderInvariant == Spec => []RecorderInv
  <1>1. Init => RecorderInv
    BY RecorderInit
  <1>2. RecorderInv /\ [Next]_vars => RecorderInv'
    BY RecorderStep
  <1>3. QED
    BY <1>1, <1>2, PTL DEF Spec

(* The queue never holds more than it was made for, no task is scheduled    *)
(* twice, and every task waits where its coroutine has an await.            *)
THEOREM RecorderTypeCorrect == Spec => []TypeOK
  <1>1. RecorderInv => TypeOK
    BY DEF RecorderInv
  <1>2. QED
    BY <1>1, RecorderInvariant, PTL

(* However midnight, a full queue, a failing disk and a stop fall together, *)
(* the day's writers are detached when no record of that day is queued or   *)
(* waits to be put (_finalize_closed_day_streams).                          *)
THEOREM RecordsAreDrained == Spec => []DrainedAtDetach
  <1>1. RecorderInv => DrainedAtDetach
    BY DEF RecorderInv
  <1>2. QED
    BY <1>1, RecorderInvariant, PTL

(* The storage takes the records in the order they were stamped, and passes *)
(* over none but those whose ledger entry raised at a full queue            *)
(* (_handle_frame, _writer_loop).                                           *)
THEOREM RecordsAreInOrder == Spec => []WrittenInOrder
  <1>1. RecorderInv => WrittenInOrder
    BY DEF RecorderInv, StreamInv
  <1>2. QED
    BY <1>1, RecorderInvariant, PTL

(* A recorder that stops without a failure has written all it stamped, but  *)
(* for at most one record: the one whose put run() cancelled.               *)
THEOREM ExitsAreClean == Spec => []CleanExit
  <1>1. RecorderInv => CleanExit
    <2> SUFFICES ASSUME RecorderInv, at[Main] = "exited", failures = 0
                 PROVE  Written \cup lost = 1 .. received /\ lost \subseteq {received}
      BY DEF CleanExit
    <2>1. queue = <<>> /\ at[Supervisor] = "done"
      BY DEF RecorderInv, MainInv, WorkersDone
    <2>2. \A k : ~OnItsWay(k)
      BY <2>1 DEF OnItsWay, IsQueued, IsBlocked, RecorderInv, StreamInv
    <2>3. WayInv /\ dropped = {}
      BY DEF RecorderInv, StreamInv, WrittenInOrder
    <2>4. lost \subseteq {received} /\ lost \subseteq 1 .. received
      <3>1. received \in Nat /\ (lost = {} \/ lost = {received}) /\ \A x \in lost : x >= 1
        BY TypesSplit DEF RecorderInv, StreamInv, DataOK
      <3>2. QED
        BY <3>1
    <2>5. QED
      BY <2>2, <2>3, <2>4 DEF RecorderInv, StreamInv, WayInv
  <1>2. QED
    BY <1>1, RecorderInvariant, PTL
=============================================================================
