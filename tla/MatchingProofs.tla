--------------------------- MODULE MatchingProofs ---------------------------
(***************************************************************************)
(* What holds of the matching engine for every set of ids, every range of  *)
(* prices and quantities and every sequence of calls: its index and its    *)
(* queues agree, its book is never crossed, and what it does is matching   *)
(* by price and time.                                                      *)
(***************************************************************************)
EXTENDS MatchingEngine, WellFoundedInduction, TLAPS

Entry == [id : OrderId, remaining : Nat \ {0}]

(* A side's map: no level is without an order.                              *)
SideMap == UNION {[S -> Seq(Entry) \ {<<>>}] : S \in SUBSET Price}

LevelsOK == levels \in [Side -> SideMap]

(* The orders accepted so far, each under an id of its own.                 *)
OrdersOK ==
    /\ accepted \in Seq(Order)
    /\ executed \in Seq(Nat) /\ Len(executed) = Len(accepted)
    /\ \A m, n \in DOMAIN accepted : accepted[m].id = accepted[n].id => m = n
    /\ \A id : id \in used <=> \E n \in DOMAIN accepted : accepted[n].id = id

(* Order n rests at this place with this entry.                             *)
RestsAs(n, side, price, entry) ==
    /\ accepted[n].id = entry.id /\ accepted[n].type = "Limit"
    /\ accepted[n].side = side /\ accepted[n].price = price
    /\ entry.remaining = accepted[n].quantity - executed[n]

EntriesOK ==
    \A side \in Side, price \in Price : \A i \in DOMAIN QueueAt(side, price) :
        LET entry == QueueAt(side, price)[i] IN
        /\ entry.id \in DOMAIN open /\ open[entry.id] = [side |-> side, price |-> price]
        /\ \E n \in DOMAIN accepted : RestsAs(n, side, price, entry)

(* An open id is where the index says.                                      *)
OpenOK ==
    \A id \in DOMAIN open : \E side \in Side, price \in Price :
        /\ open[id] = [side |-> side, price |-> price]
        /\ \E i \in DOMAIN QueueAt(side, price) : QueueAt(side, price)[i].id = id

(* A queue holds its orders as they were accepted.                          *)
QueuesOK ==
    \A side \in Side, price \in Price : \A i, j \in DOMAIN QueueAt(side, price) :
        \A m, n \in DOMAIN accepted :
            /\ i < j
            /\ accepted[m].id = QueueAt(side, price)[i].id
            /\ accepted[n].id = QueueAt(side, price)[j].id
            => m < n

(* The order being matched is the last one accepted, and does not rest.     *)
CallOK ==
    call # Nothing =>
        /\ accepted # <<>>
        /\ call = [order |-> accepted[Len(accepted)],
                   remaining |-> accepted[Len(accepted)].quantity - executed[Len(accepted)]]
        /\ call.remaining \in Nat
        /\ call.order.id \notin DOMAIN open

MatchInv == /\ LevelsOK /\ OrdersOK /\ EntriesOK /\ OpenOK /\ QueuesOK /\ CallOK
            /\ NeverCrossed

-----------------------------------------------------------------------------
(* The levels, seen queue by queue.                                         *)
LEMMA SideMaps ==
    ASSUME NEW f \in SideMap
    PROVE  /\ DOMAIN f \in SUBSET Price /\ f \in [DOMAIN f -> Seq(Entry) \ {<<>>}]
           /\ \A p \in DOMAIN f : f[p] \in Seq(Entry) /\ f[p] # <<>>
  <1>1. PICK S \in SUBSET Price : f \in [S -> Seq(Entry) \ {<<>>}]
    BY DEF SideMap
  <1>2. QED
    BY <1>1

LEMMA IsSideMap ==
    ASSUME NEW S \in SUBSET Price, NEW f \in [S -> Seq(Entry) \ {<<>>}]
    PROVE  f \in SideMap
  BY DEF SideMap

LEMMA Queues ==
    ASSUME LevelsOK, NEW side \in Side
    PROVE  /\ levels[side] \in SideMap
           /\ DOMAIN levels[side] \in SUBSET Price
           /\ \A price : QueueAt(side, price) \in Seq(Entry)
           /\ \A price : price \in DOMAIN levels[side] <=> QueueAt(side, price) # <<>>
           /\ \A price \in DOMAIN levels[side] : levels[side][price] = QueueAt(side, price)
  <1>1. levels[side] \in SideMap
    BY DEF LevelsOK
  <1>2. QED
    BY <1>1, SideMaps DEF QueueAt

LEMMA WithQueueFacts ==
    ASSUME NEW f \in SideMap, NEW price \in Price, NEW queue \in Seq(Entry)
    PROVE  LET g == WithQueue(f, price, queue) IN
           /\ g \in SideMap
           /\ \A p : p \in DOMAIN g <=> IF p = price THEN queue # <<>> ELSE p \in DOMAIN f
           /\ \A p \in DOMAIN g : g[p] = IF p = price THEN queue ELSE f[p]
  <1>1. /\ DOMAIN f \in SUBSET Price /\ f \in [DOMAIN f -> Seq(Entry) \ {<<>>}]
        /\ \A p \in DOMAIN f : f[p] \in Seq(Entry) /\ f[p] # <<>>
    BY SideMaps
  <1>2. CASE queue = <<>>
    <2> DEFINE S == DOMAIN f \ {price}
               g == [p \in S |-> f[p]]
    <2>1. S \in SUBSET Price /\ g \in [S -> Seq(Entry) \ {<<>>}]
      BY <1>1
    <2>2. g \in SideMap
      BY <2>1, IsSideMap
    <2>3. QED
      BY <1>2, <2>2 DEF WithQueue
  <1>3. CASE queue # <<>>
    <2> DEFINE S == DOMAIN f \cup {price}
               g == [p \in S |-> IF p = price THEN queue ELSE f[p]]
    <2>1. S \in SUBSET Price /\ g \in [S -> Seq(Entry) \ {<<>>}]
      BY <1>1, <1>3
    <2>2. g \in SideMap
      BY <2>1, IsSideMap
    <2>3. QED
      BY <1>3, <2>2 DEF WithQueue
  <1>4. QED
    BY <1>2, <1>3

(* One queue is replaced by another.                                        *)
LEMMA Requeued ==
    ASSUME LevelsOK, NEW side \in Side, NEW price \in Price, NEW queue \in Seq(Entry),
           levels' = [levels EXCEPT ![side] = WithQueue(@, price, queue)]
    PROVE  /\ LevelsOK'
           /\ \A s \in Side, p \in Price :
                  s # side \/ p # price => QueueAt(s, p)' = QueueAt(s, p)
           /\ QueueAt(side, price)' = queue
  <1> DEFINE g == WithQueue(levels[side], price, queue)
  <1>1. levels[side] \in SideMap /\ levels \in [Side -> SideMap]
    BY DEF LevelsOK
  <1>2. /\ g \in SideMap
        /\ \A p : p \in DOMAIN g <=> IF p = price THEN queue # <<>> ELSE p \in DOMAIN levels[side]
        /\ \A p \in DOMAIN g : g[p] = IF p = price THEN queue ELSE levels[side][p]
    BY <1>1, WithQueueFacts
  <1>3. levels' = [levels EXCEPT ![side] = g]
    OBVIOUS
  <1> HIDE DEF g
  <1>4. LevelsOK'
    BY <1>1, <1>2, <1>3 DEF LevelsOK
  <1>5. levels'[side] = g /\ \A s \in Side \ {side} : levels'[s] = levels[s]
    BY <1>1, <1>3
  <1>6. \A p \in Price : QueueAt(side, p)' = IF p = price THEN queue ELSE QueueAt(side, p)
    BY <1>2, <1>5 DEF QueueAt
  <1>7. \A s \in Side \ {side}, p \in Price : QueueAt(s, p)' = QueueAt(s, p)
    BY <1>5 DEF QueueAt
  <1>8. QED
    BY <1>4, <1>6, <1>7

-----------------------------------------------------------------------------
(* The best price of a side.                                                *)
LEMMA LeastNatural ==
    ASSUME NEW S \in SUBSET Nat, S # {}
    PROVE  \E x \in S : \A y \in S : x <= y
  <1> DEFINE R == {z \in Nat \X Nat : z[1] < z[2]}
  <1>1. IsWellFoundedOn(R, Nat)
    BY NatLessThanWellFounded DEF OpToRel
  <1>2. \A x, y \in Nat : <<y, x>> \in R <=> y < x
    OBVIOUS
  <1> HIDE DEF R
  <1>3. PICK x \in S : \A y \in S : ~(<<y, x>> \in R)
    BY <1>1, WFMin
  <1>4. \A y \in S : y \in Nat /\ x \in Nat /\ ~(y < x)
    BY <1>2, <1>3
  <1>5. QED
    BY <1>4

LEMMA BestFacts ==
    ASSUME LevelsOK, NEW side \in Side, DOMAIN levels[side] # {}
    PROVE  /\ Best(side) \in DOMAIN levels[side] /\ Best(side) \in Price
           /\ \A q \in DOMAIN levels[side] :
                  IF side = "Buy" THEN Best(side) >= q ELSE Best(side) <= q
  <1> DEFINE D == DOMAIN levels[side]
  <1>1. D \in SUBSET Price /\ D \in SUBSET Nat /\ D # {}
    BY Queues, BoundsAssumption DEF Price
  <1>2. Best(side) = CHOOSE p \in D : \A q \in D : IF side = "Buy" THEN p >= q ELSE p <= q
    BY DEF Best
  <1> HIDE DEF D
  <1>3. \E x \in D : \A y \in D : x <= y
    BY <1>1, LeastNatural
  <1>4. \E x \in D : \A y \in D : x >= y
    <2> DEFINE T == {MaxPrice - x : x \in D}
    <2>1. T \in SUBSET Nat /\ T # {}
      <3>1. ASSUME NEW x \in D PROVE MaxPrice - x \in Nat
        BY <1>1, BoundsAssumption DEF Price
      <3>2. QED
        BY <1>1, <3>1
    <2>2. PICK t \in T : \A u \in T : t <= u
      BY <2>1, LeastNatural
    <2>3. PICK x \in D : t = MaxPrice - x
      OBVIOUS
    <2>4. \A y \in D : MaxPrice - x <= MaxPrice - y
      BY <2>2, <2>3
    <2>5. QED
      BY <1>1, <2>3, <2>4, BoundsAssumption
  <1>5. QED
    BY <1>1, <1>2, <1>3, <1>4 DEF D

(* A book is crossed where two queues are.                                  *)
LEMMA Crossing ==
    ASSUME LevelsOK
    PROVE  NeverCrossed <=>
               \A bid, ask \in Price :
                   QueueAt("Buy", bid) # <<>> /\ QueueAt("Sell", ask) # <<>> => bid < ask
  <1>1. /\ DOMAIN levels["Buy"] \in SUBSET Price
        /\ \A price : price \in DOMAIN levels["Buy"] <=> QueueAt("Buy", price) # <<>>
    BY Queues DEF Side
  <1>2. /\ DOMAIN levels["Sell"] \in SUBSET Price
        /\ \A price : price \in DOMAIN levels["Sell"] <=> QueueAt("Sell", price) # <<>>
    BY Queues DEF Side
  <1>3. QED
    BY <1>1, <1>2 DEF NeverCrossed

(* An id has one number.                                                    *)
LEMMA NumberOf ==
    ASSUME OrdersOK, NEW n \in DOMAIN accepted
    PROVE  Number(accepted[n].id) = n
  BY DEF OrdersOK, Number

LEMMA OrderFacts ==
    ASSUME OrdersOK, NEW n \in DOMAIN accepted
    PROVE  /\ accepted[n] \in Order
           /\ accepted[n].side \in Side /\ accepted[n].quantity \in Nat \ {0}
           /\ accepted[n].type \in {"Limit", "Market"}
           /\ accepted[n].id \in OrderId
           /\ accepted[n].type = "Limit" => accepted[n].price \in Price
           /\ accepted[n].price \in Nat
           /\ executed[n] \in Nat
           /\ n \in 1 .. Len(accepted) /\ n \in Nat /\ DOMAIN executed = DOMAIN accepted
  <1>1. /\ accepted[n] \in Order /\ executed[n] \in Nat
        /\ n \in 1 .. Len(accepted) /\ n \in Nat /\ DOMAIN executed = DOMAIN accepted
    BY DEF OrdersOK
  <1>2. QED
    BY <1>1, BoundsAssumption DEF Order, Price

(* What rests at the i-th place of a queue.                                 *)
LEMMA EntryFacts ==
    ASSUME LevelsOK, OrdersOK, EntriesOK,
           NEW side \in Side, NEW price \in Price, NEW i \in DOMAIN QueueAt(side, price)
    PROVE  /\ QueueAt(side, price)[i] \in Entry
           /\ QueueAt(side, price)[i].id \in DOMAIN open
           /\ open[QueueAt(side, price)[i].id] = [side |-> side, price |-> price]
           /\ \E n \in DOMAIN accepted : RestsAs(n, side, price, QueueAt(side, price)[i])
           /\ i \in Nat \ {0} /\ i <= Len(QueueAt(side, price))
  <1>1. QueueAt(side, price) \in Seq(Entry)
    BY Queues
  <1>2. QED
    BY <1>1 DEF EntriesOK

(* An order rests once in its queue.                                        *)
LEMMA OncePerQueue ==
    ASSUME LevelsOK, OrdersOK, EntriesOK, QueuesOK,
           NEW side \in Side, NEW price \in Price,
           NEW i \in DOMAIN QueueAt(side, price), NEW j \in DOMAIN QueueAt(side, price),
           QueueAt(side, price)[i].id = QueueAt(side, price)[j].id
    PROVE  i = j
  <1>1. i \in Nat /\ j \in Nat
    BY EntryFacts
  <1>0. \E n \in DOMAIN accepted : RestsAs(n, side, price, QueueAt(side, price)[i])
    BY EntryFacts
  <1>2. PICK n \in DOMAIN accepted : accepted[n].id = QueueAt(side, price)[i].id
    BY <1>0 DEF RestsAs
  <1>3. n \in Nat
    BY OrderFacts
  <1>4. ~(i < j) /\ ~(j < i)
    BY <1>2, <1>3 DEF QueuesOK
  <1>5. QED
    BY <1>1, <1>4

(* The lengths and places of a queue that loses its k-th entry.             *)
Without(queue, k, rest) ==
    /\ rest \in Seq(Entry) /\ Len(rest) = Len(queue) - 1
    /\ \A i \in DOMAIN rest : rest[i] = IF i < k THEN queue[i] ELSE queue[i + 1]

(* The entry at place i of what is left was at this place.                  *)
Before(i, k) == IF i < k THEN i ELSE i + 1

LEMMA Places ==
    ASSUME NEW queue \in Seq(Entry), NEW k \in DOMAIN queue, NEW rest, Without(queue, k, rest)
    PROVE  /\ \A i \in DOMAIN rest : /\ i \in Nat /\ Before(i, k) \in DOMAIN queue \ {k}
                                     /\ rest[i] = queue[Before(i, k)]
           /\ \A i, j \in DOMAIN rest : i < j => Before(i, k) < Before(j, k)
           /\ \A j \in DOMAIN queue \ {k} : \E i \in DOMAIN rest : j = Before(i, k)
           /\ rest # <<>> => queue # <<>>
  <1>1. /\ Len(queue) \in Nat /\ DOMAIN queue = 1 .. Len(queue)
        /\ rest \in Seq(Entry) /\ DOMAIN rest = 1 .. (Len(queue) - 1)
        /\ k \in 1 .. Len(queue)
    BY DEF Without
  <1>2. ASSUME NEW i \in DOMAIN rest
        PROVE  /\ i \in Nat /\ Before(i, k) \in DOMAIN queue \ {k}
               /\ rest[i] = queue[Before(i, k)]
    BY <1>1 DEF Without, Before
  <1>3. ASSUME NEW i \in DOMAIN rest, NEW j \in DOMAIN rest, i < j
        PROVE  Before(i, k) < Before(j, k)
    BY <1>1, <1>3 DEF Before
  <1>4. ASSUME NEW j \in DOMAIN queue \ {k}
        PROVE  \E i \in DOMAIN rest : j = Before(i, k)
    <2>1. CASE j < k
      <3>1. j \in DOMAIN rest /\ j = Before(j, k)
        BY <1>1, <2>1 DEF Before
      <3>2. QED
        BY <3>1
    <2>2. CASE j > k
      <3>1. j - 1 \in DOMAIN rest /\ j = Before(j - 1, k)
        BY <1>1, <2>2 DEF Before
      <3>2. QED
        BY <3>1
    <2>3. QED
      BY <1>1, <2>1, <2>2
  <1>5. queue # <<>>
    BY <1>1
  <1>6. QED
    BY <1>2, <1>3, <1>4, <1>5

-----------------------------------------------------------------------------
(* An order leaves its queue: it is cancelled, or the last of it is traded. *)
(* What the others have left is as before.                                  *)
Leaves(side, price, k, rest) ==
    /\ levels' = [levels EXCEPT ![side] = WithQueue(@, price, rest)]
    /\ Without(QueueAt(side, price), k, rest)
    /\ open' = Forget(QueueAt(side, price)[k].id)
    /\ accepted' = accepted
    /\ \A n \in DOMAIN accepted :
           /\ accepted[n].id \in DOMAIN open
           /\ accepted[n].id # QueueAt(side, price)[k].id
           => executed'[n] = executed[n]

LEMMA LeftQueues ==
    ASSUME LevelsOK, OrdersOK, EntriesOK, OpenOK, QueuesOK, NeverCrossed,
           NEW side \in Side, NEW price \in Price, NEW k \in DOMAIN QueueAt(side, price),
           NEW rest, Leaves(side, price, k, rest)
    PROVE  LevelsOK' /\ EntriesOK' /\ OpenOK' /\ QueuesOK' /\ NeverCrossed'
  <1> DEFINE queue == QueueAt(side, price)
             id == queue[k].id
  <1>1. /\ queue \in Seq(Entry) /\ rest \in Seq(Entry) /\ Without(queue, k, rest)
        /\ \A i \in DOMAIN rest : /\ i \in Nat /\ Before(i, k) \in DOMAIN queue \ {k}
                                  /\ rest[i] = queue[Before(i, k)]
        /\ \A i, j \in DOMAIN rest : i < j => Before(i, k) < Before(j, k)
        /\ \A j \in DOMAIN queue \ {k} : \E i \in DOMAIN rest : j = Before(i, k)
        /\ rest # <<>> => queue # <<>>
    <2>1. queue \in Seq(Entry) /\ rest \in Seq(Entry) /\ Without(queue, k, rest)
      BY Queues DEF Leaves, Without
    <2>2. QED
      BY <2>1, Places
  <1>2. /\ LevelsOK'
        /\ \A s \in Side, p \in Price :
               QueueAt(s, p)' = IF s = side /\ p = price THEN rest ELSE QueueAt(s, p)
    <2>1. rest \in Seq(Entry) /\ levels' = [levels EXCEPT ![side] = WithQueue(@, price, rest)]
      BY <1>1 DEF Leaves
    <2> HIDE DEF queue
    <2>2. LevelsOK'
      BY <2>1, Requeued
    <2>3. QueueAt(side, price)' = rest
      BY <2>1, Requeued
    <2>4. \A s \in Side, p \in Price : s # side \/ p # price => QueueAt(s, p)' = QueueAt(s, p)
      BY <2>1, Requeued
    <2>5. QED
      BY <2>2, <2>3, <2>4
  (* Every entry was an entry before, of another order.                     *)
  <1>3. ASSUME NEW s \in Side, NEW p \in Price, NEW i \in DOMAIN QueueAt(s, p)'
        PROVE  \E j \in DOMAIN QueueAt(s, p) :
                   /\ QueueAt(s, p)'[i] = QueueAt(s, p)[j]
                   /\ QueueAt(s, p)[j].id # id
    <2>1. CASE s = side /\ p = price
      <3>1. Before(i, k) \in DOMAIN queue \ {k} /\ QueueAt(s, p)'[i] = queue[Before(i, k)]
        BY <1>1, <1>2, <2>1
      <3>2. queue[Before(i, k)].id # id
        BY <3>1, OncePerQueue
      <3>3. QED
        BY <2>1, <3>1, <3>2
    <2>2. CASE ~(s = side /\ p = price)
      <3>1. i \in DOMAIN QueueAt(s, p) /\ QueueAt(s, p)'[i] = QueueAt(s, p)[i]
        BY <1>2, <2>2
      <3>2. open[QueueAt(s, p)[i].id] = [side |-> s, price |-> p]
        BY <3>1, EntryFacts
      <3>3. open[id] = [side |-> side, price |-> price]
        BY EntryFacts
      <3>4. QueueAt(s, p)[i].id # id
        BY <2>2, <3>2, <3>3
      <3>5. QED
        BY <3>1, <3>4
    <2>3. QED
      BY <2>1, <2>2
  <1>4. \A i \in DOMAIN open : i # id => i \in DOMAIN open' /\ open'[i] = open[i]
    BY DEF Leaves, Forget
  <1>5. \A i \in DOMAIN open' : i \in DOMAIN open /\ i # id /\ open'[i] = open[i]
    BY DEF Leaves, Forget
  <1> HIDE DEF queue
  <1>6. EntriesOK'
    <2> SUFFICES ASSUME NEW s \in Side, NEW p \in Price, NEW i \in DOMAIN QueueAt(s, p)'
                 PROVE  (LET entry == QueueAt(s, p)[i] IN
                         /\ entry.id \in DOMAIN open
                         /\ open[entry.id] = [side |-> s, price |-> p]
                         /\ \E n \in DOMAIN accepted : RestsAs(n, s, p, entry))'
      BY DEF EntriesOK
    <2>1. PICK j \in DOMAIN QueueAt(s, p) : /\ QueueAt(s, p)'[i] = QueueAt(s, p)[j]
                                            /\ QueueAt(s, p)[j].id # id
      BY <1>3
    <2> DEFINE entry == QueueAt(s, p)[j]
    <2>2. /\ entry.id \in DOMAIN open /\ open[entry.id] = [side |-> s, price |-> p]
          /\ \E n \in DOMAIN accepted : RestsAs(n, s, p, entry)
      BY EntryFacts
    <2>3. PICK n \in DOMAIN accepted : RestsAs(n, s, p, entry)
      BY <2>2
    <2>4. accepted[n].id = entry.id /\ executed'[n] = executed[n] /\ accepted' = accepted
      BY <2>1, <2>2, <2>3 DEF Leaves, RestsAs, queue
    <2>5. RestsAs(n, s, p, QueueAt(s, p)[i])'
      BY <2>1, <2>3, <2>4 DEF RestsAs
    <2>6. QED
      BY <1>4, <2>1, <2>2, <2>4, <2>5
  <1>7. OpenOK'
    <2> SUFFICES ASSUME NEW o \in DOMAIN open'
                 PROVE  \E s \in Side, p \in Price :
                            /\ open'[o] = [side |-> s, price |-> p]
                            /\ \E i \in DOMAIN QueueAt(s, p)' : QueueAt(s, p)'[i].id = o
      BY DEF OpenOK
    <2>1. o \in DOMAIN open /\ o # id /\ open'[o] = open[o]
      BY <1>5
    <2>2. PICK s \in Side, p \in Price :
                   /\ open[o] = [side |-> s, price |-> p]
                   /\ \E j \in DOMAIN QueueAt(s, p) : QueueAt(s, p)[j].id = o
      BY <2>1 DEF OpenOK
    <2>3. PICK j \in DOMAIN QueueAt(s, p) : QueueAt(s, p)[j].id = o
      BY <2>2
    <2>4. \E i \in DOMAIN QueueAt(s, p)' : QueueAt(s, p)'[i].id = o
      <3>1. CASE s = side /\ p = price
        <4>1. j \in DOMAIN queue \ {k}
          BY <2>1, <2>3, <3>1 DEF queue
        <4>2. PICK i \in DOMAIN rest : j = Before(i, k)
          BY <1>1, <4>1
        <4>3. rest[i] = queue[j]
          BY <1>1, <4>2
        <4>4. QED
          BY <1>2, <2>3, <3>1, <4>3 DEF queue
      <3>2. CASE ~(s = side /\ p = price)
        BY <1>2, <2>3, <3>2
      <3>3. QED
        BY <3>1, <3>2
    <2>5. QED
      BY <2>1, <2>2, <2>4
  <1>8. QueuesOK'
    <2> SUFFICES ASSUME NEW s \in Side, NEW p \in Price,
                        NEW i \in DOMAIN QueueAt(s, p)', NEW j \in DOMAIN QueueAt(s, p)',
                        NEW m \in DOMAIN accepted', NEW n \in DOMAIN accepted',
                        i < j,
                        accepted'[m].id = QueueAt(s, p)'[i].id,
                        accepted'[n].id = QueueAt(s, p)'[j].id
                 PROVE  m < n
      BY DEF QueuesOK
    <2>1. accepted' = accepted
      BY DEF Leaves
    <2>2. CASE s = side /\ p = price
      <3>1. /\ i \in DOMAIN rest /\ j \in DOMAIN rest
            /\ QueueAt(s, p)'[i] = rest[i] /\ QueueAt(s, p)'[j] = rest[j]
        BY <1>2, <2>2
      <3>2. /\ Before(i, k) \in DOMAIN queue /\ Before(j, k) \in DOMAIN queue
            /\ rest[i] = queue[Before(i, k)] /\ rest[j] = queue[Before(j, k)]
            /\ Before(i, k) < Before(j, k)
        BY <1>1, <3>1
      <3>3. QED
        BY <2>1, <3>1, <3>2 DEF QueuesOK, queue
    <2>3. CASE ~(s = side /\ p = price)
      BY <1>2, <2>1, <2>3 DEF QueuesOK
    <2>4. QED
      BY <2>2, <2>3
  <1>9. NeverCrossed'
    <2>1. \A s \in Side, p \in Price : QueueAt(s, p)' # <<>> => QueueAt(s, p) # <<>>
      BY <1>1, <1>2 DEF queue
    <2>2. \A bid, ask \in Price :
              QueueAt("Buy", bid) # <<>> /\ QueueAt("Sell", ask) # <<>> => bid < ask
      BY Crossing
    <2>3. (LevelsOK => (NeverCrossed <=>
               \A bid, ask \in Price :
                   QueueAt("Buy", bid) # <<>> /\ QueueAt("Sell", ask) # <<>> => bid < ask))'
      BY Crossing, PTL
    <2>4. QED
      BY <1>2, <2>1, <2>2, <2>3 DEF Side
  <1>10. QED
    BY <1>2, <1>6, <1>7, <1>8, <1>9

-----------------------------------------------------------------------------
(* The first order of a queue is filled in part and keeps its place.        *)
Fills(side, price, left) ==
    /\ QueueAt(side, price) # <<>> /\ left \in Nat \ {0}
    /\ levels' = [levels EXCEPT ![side] =
                      WithQueue(@, price, AfterTrade(QueueAt(side, price), left))]
    /\ open' = open
    /\ accepted' = accepted
    /\ \A n \in DOMAIN accepted :
           /\ accepted[n].id = QueueAt(side, price)[1].id
                  => executed'[n] = accepted[n].quantity - left
           /\ accepted[n].id \in DOMAIN open /\ accepted[n].id # QueueAt(side, price)[1].id
                  => executed'[n] = executed[n]

LEMMA FilledQueue ==
    ASSUME NEW queue \in Seq(Entry), queue # <<>>, NEW left \in Nat \ {0}
    PROVE  LET rest == AfterTrade(queue, left) IN
           /\ rest \in Seq(Entry) /\ DOMAIN rest = DOMAIN queue /\ rest # <<>>
           /\ 1 \in DOMAIN queue
           /\ rest[1] = [id |-> queue[1].id, remaining |-> left]
           /\ \A i \in DOMAIN queue : /\ rest[i].id = queue[i].id
                                      /\ i # 1 => rest[i] = queue[i]
  <1> DEFINE front == [queue[1] EXCEPT !.remaining = left]
             rest == <<front>> \o Tail(queue)
  <1>1. /\ AfterTrade(queue, left) = rest
        /\ 1 \in DOMAIN queue /\ queue[1] \in Entry
        /\ Tail(queue) \in Seq(Entry) /\ Len(Tail(queue)) = Len(queue) - 1
        /\ \A i \in 1 .. Len(queue) - 1 : Tail(queue)[i] = queue[i + 1]
    BY DEF AfterTrade
  <1>2. front = [id |-> queue[1].id, remaining |-> left] /\ front \in Entry
    BY <1>1 DEF Entry
  <1> HIDE DEF front
  <1>3. /\ <<front>> \in Seq(Entry) /\ Len(<<front>>) = 1 /\ <<front>>[1] = front
    BY <1>2
  <1>4. /\ rest \in Seq(Entry) /\ Len(rest) = Len(queue) /\ rest[1] = front
        /\ \A i \in 2 .. Len(queue) : rest[i] = Tail(queue)[i - 1]
    BY <1>1, <1>3
  <1> HIDE DEF rest
  <1>5. \A i \in DOMAIN queue : i # 1 => rest[i] = queue[i]
    <2>1. ASSUME NEW i \in DOMAIN queue, i # 1 PROVE rest[i] = queue[i]
      <3>1. i \in 2 .. Len(queue) /\ i - 1 \in 1 .. Len(queue) - 1 /\ (i - 1) + 1 = i
        BY <2>1
      <3>2. QED
        BY <1>1, <1>4, <3>1
    <2>2. QED
      BY <2>1
  <1>6. DOMAIN rest = DOMAIN queue /\ rest # <<>> /\ rest[1].id = queue[1].id
    BY <1>1, <1>2, <1>4
  <1>7. QED
    BY <1>1, <1>2, <1>4, <1>5, <1>6

LEMMA FilledQueues ==
    ASSUME LevelsOK, OrdersOK, EntriesOK, OpenOK, QueuesOK, NeverCrossed,
           NEW side \in Side, NEW price \in Price, NEW left, Fills(side, price, left)
    PROVE  LevelsOK' /\ EntriesOK' /\ OpenOK' /\ QueuesOK' /\ NeverCrossed'
  <1> DEFINE queue == QueueAt(side, price)
             rest == AfterTrade(queue, left)
             id == queue[1].id
  <1>1. /\ rest \in Seq(Entry) /\ DOMAIN rest = DOMAIN queue /\ rest # <<>> /\ queue # <<>>
        /\ 1 \in DOMAIN queue
        /\ rest[1] = [id |-> queue[1].id, remaining |-> left]
        /\ \A i \in DOMAIN queue : /\ rest[i].id = queue[i].id
                                   /\ i # 1 => rest[i] = queue[i]
    <2>1. queue \in Seq(Entry) /\ queue # <<>> /\ left \in Nat \ {0}
      BY Queues DEF Fills
    <2>2. QED
      BY <2>1, FilledQueue
  <1> HIDE DEF rest
  <1>2. /\ LevelsOK'
        /\ \A s \in Side, p \in Price :
               s # side \/ p # price => QueueAt(s, p)' = QueueAt(s, p)
        /\ QueueAt(side, price)' = rest
    <2>1. rest \in Seq(Entry) /\ levels' = [levels EXCEPT ![side] = WithQueue(@, price, rest)]
      BY <1>1 DEF Fills, rest
    <2> HIDE DEF queue
    <2>2. QED
      BY <2>1, Requeued
  <1> HIDE DEF queue
  (* The same ids rest at the same places; only the front entry changes.    *)
  <1>3. ASSUME NEW s \in Side, NEW p \in Price
        PROVE  /\ DOMAIN QueueAt(s, p)' = DOMAIN QueueAt(s, p)
               /\ \A i \in DOMAIN QueueAt(s, p) :
                      QueueAt(s, p)'[i].id = QueueAt(s, p)[i].id
    <2>1. CASE s = side /\ p = price
      BY <1>1, <1>2, <2>1 DEF queue
    <2>2. CASE s # side \/ p # price
      BY <1>2, <2>2
    <2>3. QED
      BY <2>1, <2>2
  <1>4. EntriesOK'
    <2> SUFFICES ASSUME NEW s \in Side, NEW p \in Price, NEW i \in DOMAIN QueueAt(s, p)'
                 PROVE  (LET entry == QueueAt(s, p)[i] IN
                         /\ entry.id \in DOMAIN open
                         /\ open[entry.id] = [side |-> s, price |-> p]
                         /\ \E n \in DOMAIN accepted : RestsAs(n, s, p, entry))'
      BY DEF EntriesOK
    <2> DEFINE entry == QueueAt(s, p)[i]
    <2>1. i \in DOMAIN QueueAt(s, p) /\ QueueAt(s, p)'[i].id = entry.id
      BY <1>3
    <2>2. /\ entry.id \in DOMAIN open /\ open[entry.id] = [side |-> s, price |-> p]
          /\ \E n \in DOMAIN accepted : RestsAs(n, s, p, entry)
      BY <2>1, EntryFacts
    <2>3. PICK n \in DOMAIN accepted : RestsAs(n, s, p, entry)
      BY <2>2
    <2>4. accepted' = accepted /\ open' = open
      BY DEF Fills
    <2>5. QueueAt(s, p)'[i].remaining = accepted[n].quantity - executed'[n]
      <3>1. CASE s = side /\ p = price /\ i = 1
        <4>1. QueueAt(s, p)'[i].remaining = left
          BY <1>1, <1>2, <3>1
        <4>2. executed'[n] = accepted[n].quantity - left
          BY <2>3, <3>1 DEF Fills, RestsAs
        <4>3. accepted[n].quantity \in Nat /\ left \in Nat
          BY OrderFacts DEF Fills
        <4>4. QED
          BY <4>1, <4>2, <4>3
      <3>2. CASE s = side /\ p = price /\ i # 1
        <4>1. QueueAt(s, p)'[i] = entry
          BY <1>1, <1>2, <2>1, <3>2 DEF queue
        <4>2. entry.id # QueueAt(side, price)[1].id
          BY <1>1, <2>1, <3>2, OncePerQueue DEF queue
        <4>3. executed'[n] = executed[n]
          BY <2>2, <2>3, <4>2 DEF Fills, RestsAs
        <4>4. QED
          BY <2>3, <4>1, <4>3 DEF RestsAs
      <3>3. CASE s # side \/ p # price
        <4>1. QueueAt(s, p)'[i] = entry
          BY <1>2, <3>3
        <4>2. 1 \in DOMAIN QueueAt(side, price)
          BY <1>1 DEF queue
        <4>3. open[QueueAt(side, price)[1].id] = [side |-> side, price |-> price]
          BY <4>2, EntryFacts
        <4>4. entry.id # QueueAt(side, price)[1].id
          BY <2>2, <3>3, <4>3
        <4>5. executed'[n] = executed[n]
          BY <2>2, <2>3, <4>4 DEF Fills, RestsAs
        <4>6. QED
          BY <2>3, <4>1, <4>5 DEF RestsAs
      <3>4. QED
        BY <3>1, <3>2, <3>3
    <2>6. RestsAs(n, s, p, QueueAt(s, p)[i])'
      BY <2>1, <2>3, <2>4, <2>5 DEF RestsAs
    <2>7. QED
      BY <2>1, <2>2, <2>4, <2>6
  <1>5. OpenOK'
    <2> SUFFICES ASSUME NEW o \in DOMAIN open'
                 PROVE  \E s \in Side, p \in Price :
                            /\ open'[o] = [side |-> s, price |-> p]
                            /\ \E i \in DOMAIN QueueAt(s, p)' : QueueAt(s, p)'[i].id = o
      BY DEF OpenOK
    <2>1. open' = open
      BY DEF Fills
    <2>2. PICK s \in Side, p \in Price :
                   /\ open[o] = [side |-> s, price |-> p]
                   /\ \E j \in DOMAIN QueueAt(s, p) : QueueAt(s, p)[j].id = o
      BY <2>1 DEF OpenOK
    <2>3. QED
      BY <1>3, <2>1, <2>2
  <1>6. QueuesOK'
    <2>1. accepted' = accepted
      BY DEF Fills
    <2>2. QED
      BY <1>3, <2>1 DEF QueuesOK
  <1>7. NeverCrossed'
    <2>1. \A s \in Side, p \in Price : QueueAt(s, p)' # <<>> => QueueAt(s, p) # <<>>
      BY <1>1, <1>2 DEF queue
    <2>2. \A bid, ask \in Price :
              QueueAt("Buy", bid) # <<>> /\ QueueAt("Sell", ask) # <<>> => bid < ask
      BY Crossing
    <2>3. (LevelsOK => (NeverCrossed <=>
               \A bid, ask \in Price :
                   QueueAt("Buy", bid) # <<>> /\ QueueAt("Sell", ask) # <<>> => bid < ask))'
      BY Crossing, PTL
    <2>4. QED
      BY <1>2, <2>1, <2>2, <2>3 DEF Side
  <1>8. QED
    BY <1>2, <1>4, <1>5, <1>6, <1>7

-----------------------------------------------------------------------------
(* A trade, in the terms of the numbers of its two orders: m rests at the   *)
(* front of the best level, t is the one being matched.                     *)
Traded(side, price, quantity, m, t) ==
    LET queue == QueueAt(side, price) IN
    /\ t = Len(accepted) /\ side = Opposite(accepted[t].side)
    /\ DOMAIN levels[side] # {} /\ price = Best(side) /\ queue # <<>>
    /\ call # Nothing /\ call.order = accepted[t]
    /\ call.remaining = accepted[t].quantity - executed[t] /\ call.remaining \in Nat \ {0}
    /\ Reaches(accepted[t], price)
    /\ RestsAs(m, side, price, queue[1]) /\ m # t
    /\ quantity = IF queue[1].remaining < call.remaining THEN queue[1].remaining
                  ELSE call.remaining
    /\ levels' = [levels EXCEPT ![side] =
                      WithQueue(@, price, AfterTrade(queue, queue[1].remaining - quantity))]
    /\ open' = IF queue[1].remaining - quantity = 0 THEN Forget(queue[1].id) ELSE open
    /\ call' = [call EXCEPT !.remaining = @ - quantity]
    /\ executed' = [executed EXCEPT ![m] = @ + quantity, ![t] = @ + quantity]
    /\ UNCHANGED <<used, accepted>>

LEMMA CallFacts ==
    ASSUME OrdersOK, CallOK, call # Nothing
    PROVE  LET t == Len(accepted) IN
           /\ t \in DOMAIN accepted
           /\ call = [order |-> accepted[t], remaining |-> accepted[t].quantity - executed[t]]
           /\ call.order = accepted[t]
           /\ call.remaining = accepted[t].quantity - executed[t]
           /\ call.remaining \in Nat
           /\ accepted[t].id \notin DOMAIN open
           /\ Opposite(accepted[t].side) \in Side
           /\ Opposite(accepted[t].side) # accepted[t].side
  <1>1. accepted \in Seq(Order) /\ accepted # <<>>
    BY DEF OrdersOK, CallOK
  <1>2. Len(accepted) \in DOMAIN accepted
    BY <1>1
  <1>3. Opposite(accepted[Len(accepted)].side) \in Side
        /\ Opposite(accepted[Len(accepted)].side) # accepted[Len(accepted)].side
    BY <1>2, OrderFacts DEF Opposite, Side
  <1>4. QED
    BY <1>2, <1>3 DEF CallOK

LEMMA MatchTrades ==
    ASSUME MatchInv, Match
    PROVE  \E side \in Side, price \in Price, quantity \in Nat \ {0} :
               \E m, t \in DOMAIN accepted : Traded(side, price, quantity, m, t)
  <1> USE DEF MatchInv
  <1> DEFINE t == Len(accepted)
             side == Opposite(accepted[t].side)
             price == Best(side)
             queue == QueueAt(side, price)
             quantity == IF queue[1].remaining < call.remaining THEN queue[1].remaining
                         ELSE call.remaining
             left == queue[1].remaining - quantity
  <1>1. /\ call # Nothing /\ t \in DOMAIN accepted /\ call.order = accepted[t]
        /\ call.remaining = accepted[t].quantity - executed[t] /\ call.remaining \in Nat
        /\ accepted[t].id \notin DOMAIN open /\ side \in Side
    BY CallFacts DEF Match
  <1>2. /\ call.remaining > 0 /\ DOMAIN levels[side] # {}
        /\ Reaches(accepted[t], price)
    BY <1>1 DEF Match, Matches
  <1>3. price \in DOMAIN levels[side] /\ price \in Price
    BY <1>1, <1>2, BestFacts
  <1>4. queue # <<>> /\ levels[side][price] = queue /\ queue \in Seq(Entry)
    BY <1>1, <1>3, Queues
  <1>5. 1 \in DOMAIN queue /\ queue[1] \in Entry
    BY <1>4
  <1>6. /\ levels' = [levels EXCEPT ![side] = WithQueue(@, price, AfterTrade(queue, left))]
        /\ open' = IF left = 0 THEN Forget(queue[1].id) ELSE open
        /\ call' = [call EXCEPT !.remaining = @ - quantity]
        /\ executed' = [executed EXCEPT ![Number(queue[1].id)] = @ + quantity,
                                        ![Number(accepted[t].id)] = @ + quantity]
        /\ UNCHANGED <<used, accepted>>
    BY <1>1, <1>4 DEF Match
  <1>7. quantity \in Nat \ {0}
    BY <1>1, <1>2, <1>5 DEF Entry
  <1> HIDE DEF t, side, price, queue, quantity, left
  <1>8. /\ queue[1].id \in DOMAIN open
        /\ \E n \in DOMAIN accepted : RestsAs(n, side, price, queue[1])
    BY <1>1, <1>3, <1>5, EntryFacts DEF queue
  <1>9. PICK m \in DOMAIN accepted : RestsAs(m, side, price, queue[1])
    BY <1>8
  <1>10. Number(queue[1].id) = m /\ Number(accepted[t].id) = t
    BY <1>1, <1>9, NumberOf DEF RestsAs
  <1>11. m # t
    BY <1>1, <1>8, <1>9 DEF RestsAs
  <1>12. Traded(side, price, quantity, m, t)
    <2>1. executed' = [executed EXCEPT ![m] = @ + quantity, ![t] = @ + quantity]
      BY <1>6, <1>10
    <2>2. call.remaining \in Nat \ {0}
      BY <1>1, <1>2
    <2>3. QED
      BY <1>1, <1>2, <1>4, <1>6, <1>9, <1>11, <2>1, <2>2
      DEF Traded, t, side, price, queue, quantity, left
  <1> HIDE DEF MatchInv
  <1>13. t \in DOMAIN accepted /\ side \in Side /\ price \in Price
    BY <1>1, <1>3
  <1>14. QED
    BY <1>7, <1>12, <1>13, Zenon

(* What a trade does to the quantities, and what it leaves of them.         *)
LEMMA TradeFacts ==
    ASSUME MatchInv, NEW side \in Side, NEW price \in Price, NEW quantity \in Nat \ {0},
           NEW m \in DOMAIN accepted, NEW t \in DOMAIN accepted,
           Traded(side, price, quantity, m, t)
    PROVE  /\ 1 \in DOMAIN QueueAt(side, price) /\ QueueAt(side, price)[1] \in Entry
           /\ QueueAt(side, price)[1].remaining - quantity \in Nat
           /\ executed'[m] = executed[m] + quantity /\ executed'[t] = executed[t] + quantity
           /\ \A n \in DOMAIN accepted : n # m /\ n # t => executed'[n] = executed[n]
           /\ executed' \in Seq(Nat) /\ Len(executed') = Len(executed)
           /\ call' = [order |-> accepted[t],
                       remaining |-> accepted[t].quantity - executed'[t]]
           /\ call'.remaining \in Nat
           /\ accepted[t].id \notin DOMAIN open
  <1>1. LevelsOK /\ OrdersOK /\ EntriesOK /\ CallOK
    BY DEF MatchInv
  <1>2. /\ QueueAt(side, price) \in Seq(Entry) /\ QueueAt(side, price) # <<>>
    BY <1>1, Queues DEF Traded
  <1>3. 1 \in DOMAIN QueueAt(side, price) /\ QueueAt(side, price)[1] \in Entry
    BY <1>2
  <1>4. /\ call # Nothing /\ t = Len(accepted)
        /\ call = [order |-> accepted[t], remaining |-> accepted[t].quantity - executed[t]]
        /\ call.remaining \in Nat
        /\ accepted[t].id \notin DOMAIN open
    BY <1>1, CallFacts DEF Traded
  <1>5. QueueAt(side, price)[1].remaining \in Nat \ {0}
    BY <1>3 DEF Entry
  <1>6. /\ quantity <= QueueAt(side, price)[1].remaining /\ quantity <= call.remaining
    BY <1>4, <1>5 DEF Traded
  <1>7. /\ m \in DOMAIN executed /\ t \in DOMAIN executed /\ m # t
        /\ executed \in Seq(Nat) /\ DOMAIN executed = DOMAIN accepted
        /\ executed[m] \in Nat /\ executed[t] \in Nat
    BY <1>1, OrderFacts DEF OrdersOK, Traded
  <1>8. executed' = [executed EXCEPT ![m] = @ + quantity, ![t] = @ + quantity]
    BY DEF Traded
  <1>9. /\ executed'[m] = executed[m] + quantity /\ executed'[t] = executed[t] + quantity
        /\ \A n \in DOMAIN accepted : n # m /\ n # t => executed'[n] = executed[n]
    BY <1>7, <1>8
  <1>10. executed' \in Seq(Nat) /\ Len(executed') = Len(executed)
    <2>1. /\ executed \in [1 .. Len(executed) -> Nat] /\ Len(executed) \in Nat
          /\ m \in 1 .. Len(executed) /\ t \in 1 .. Len(executed)
      BY <1>7
    <2>2. ASSUME NEW n \in 1 .. Len(executed) PROVE executed'[n] \in Nat
      <3>1. n \in DOMAIN accepted /\ executed[n] \in Nat
        BY <1>7, <2>1
      <3>2. executed'[n] \in {executed[n], executed[n] + quantity}
        BY <1>9, <3>1
      <3>3. QED
        BY <3>1, <3>2
    <2>3. executed' = [n \in 1 .. Len(executed) |-> executed'[n]]
      BY <1>8, <2>1
    <2>4. executed' \in [1 .. Len(executed) -> Nat]
      BY <2>2, <2>3
    <2>5. QED
      BY <2>1, <2>4
  <1>11. call' = [call EXCEPT !.remaining = @ - quantity]
    BY DEF Traded
  <1>12. /\ call' = [order |-> accepted[t], remaining |-> call.remaining - quantity]
    BY <1>4, <1>11
  <1>13. accepted[t].quantity \in Nat
    BY <1>1, OrderFacts
  <1>14. call.remaining - quantity = accepted[t].quantity - executed'[t]
    BY <1>4, <1>7, <1>9, <1>13
  <1>15. call.remaining - quantity \in Nat
    BY <1>4, <1>6
  <1>16. QED
    BY <1>3, <1>4, <1>5, <1>6, <1>9, <1>10, <1>12, <1>14, <1>15

LEMMA MatchKeeps ==
    ASSUME MatchInv, Match
    PROVE  MatchInv'
  <1>1. PICK side \in Side, price \in Price, quantity \in Nat \ {0} :
             \E m, t \in DOMAIN accepted : Traded(side, price, quantity, m, t)
    BY MatchTrades
  <1>2. PICK m \in DOMAIN accepted, t \in DOMAIN accepted :
             Traded(side, price, quantity, m, t)
    BY <1>1
  <1> DEFINE queue == QueueAt(side, price)
             left == queue[1].remaining - quantity
  <1>3. /\ 1 \in DOMAIN queue /\ queue[1] \in Entry /\ left \in Nat
        /\ executed'[m] = executed[m] + quantity /\ executed'[t] = executed[t] + quantity
        /\ \A n \in DOMAIN accepted : n # m /\ n # t => executed'[n] = executed[n]
        /\ executed' \in Seq(Nat) /\ Len(executed') = Len(executed)
        /\ call' = [order |-> accepted[t], remaining |-> accepted[t].quantity - executed'[t]]
        /\ call'.remaining \in Nat
        /\ accepted[t].id \notin DOMAIN open
    BY <1>2, TradeFacts
  <1>4. /\ LevelsOK /\ OrdersOK /\ EntriesOK /\ OpenOK /\ QueuesOK /\ NeverCrossed
        /\ queue \in Seq(Entry) /\ queue # <<>>
    BY <1>3, Queues DEF MatchInv
  <1>5. /\ t = Len(accepted) /\ RestsAs(m, side, price, queue[1]) /\ m # t
        /\ levels' = [levels EXCEPT ![side] = WithQueue(@, price, AfterTrade(queue, left))]
        /\ open' = IF left = 0 THEN Forget(queue[1].id) ELSE open
        /\ used' = used /\ accepted' = accepted
    BY <1>2 DEF Traded
  <1>6. accepted[m].id = queue[1].id /\ accepted[m].quantity - executed[m] = queue[1].remaining
    BY <1>5 DEF RestsAs
  <1>7. \A n \in DOMAIN accepted : accepted[n].id = queue[1].id => n = m
    BY <1>4, <1>6 DEF OrdersOK
  <1>8. \A n \in DOMAIN accepted :
            accepted[n].id \in DOMAIN open /\ accepted[n].id # queue[1].id
                => executed'[n] = executed[n]
    BY <1>3, <1>6
  <1>9. executed'[m] = accepted[m].quantity - left
    <2>1. accepted[m].quantity \in Nat /\ executed[m] \in Nat
      BY <1>4, OrderFacts
    <2>2. queue[1].remaining \in Nat
      BY <1>3 DEF Entry
    <2>3. /\ queue[1].remaining - quantity \in Nat /\ left = queue[1].remaining - quantity
          /\ executed'[m] = executed[m] + quantity
      BY <1>3
    <2> HIDE DEF queue, left
    <2>4. QED
      BY <1>6, <2>1, <2>2, <2>3
  <1>10. LevelsOK' /\ EntriesOK' /\ OpenOK' /\ QueuesOK' /\ NeverCrossed'
    <2>1. CASE left = 0
      <3> DEFINE rest == Tail(queue)
      <3>1. Without(queue, 1, rest)
        <4> HIDE DEF queue
        <4>1. /\ rest \in Seq(Entry) /\ Len(rest) = Len(queue) - 1
              /\ \A i \in 1 .. Len(queue) - 1 : rest[i] = queue[i + 1]
          BY <1>4
        <4>2. DOMAIN rest = 1 .. Len(queue) - 1 /\ \A i \in DOMAIN rest : ~(i < 1)
          BY <1>4, <4>1
        <4> HIDE DEF rest
        <4>3. QED
          BY <4>1, <4>2 DEF Without
      <3>2. AfterTrade(queue, left) = rest
        BY <2>1 DEF AfterTrade
      <3>3. Leaves(side, price, 1, rest)
        BY <1>5, <1>8, <2>1, <3>1, <3>2 DEF Leaves
      <3> HIDE DEF rest
      <3>4. QED
        BY <1>3, <1>4, <3>3, LeftQueues
    <2>2. CASE left # 0
      <3>1. Fills(side, price, left)
        BY <1>3, <1>4, <1>5, <1>7, <1>8, <1>9, <2>2 DEF Fills
      <3> HIDE DEF left
      <3>2. QED
        BY <1>4, <3>1, FilledQueues
    <2>3. QED
      BY <2>1, <2>2
  <1>11. OrdersOK'
    BY <1>3, <1>4, <1>5 DEF OrdersOK
  <1>12. CallOK'
    <2>1. \A id : id \in DOMAIN open' => id \in DOMAIN open
      BY <1>5 DEF Forget
    <2>2. accepted # <<>>
      BY <1>2, CallFacts DEF Traded, MatchInv, CallOK
    <2>3. QED
      BY <1>3, <1>5, <2>1, <2>2 DEF CallOK
  <1>13. QED
    BY <1>10, <1>11, <1>12 DEF MatchInv

-----------------------------------------------------------------------------
LEMMA SubmitKeeps ==
    ASSUME MatchInv, NEW order \in Order, Submit(order)
    PROVE  MatchInv'
  <1>1. /\ call = Nothing /\ order.id \notin used /\ used' = used \cup {order.id}
        /\ call' = [order |-> order, remaining |-> order.quantity]
        /\ accepted' = Append(accepted, order) /\ executed' = Append(executed, 0)
        /\ levels' = levels /\ open' = open
    BY DEF Submit, Unused
  <1>2. /\ accepted \in Seq(Order) /\ executed \in Seq(Nat) /\ Len(executed) = Len(accepted)
        /\ \A m, n \in DOMAIN accepted : accepted[m].id = accepted[n].id => m = n
        /\ \A id : id \in used <=> \E n \in DOMAIN accepted : accepted[n].id = id
    BY DEF MatchInv, OrdersOK
  <1> DEFINE t == Len(accepted) + 1
  <1>3. /\ accepted' \in Seq(Order) /\ Len(accepted') = t /\ DOMAIN accepted' = 1 .. t
        /\ DOMAIN accepted = 1 .. t - 1 /\ t - 1 \in Nat
        /\ accepted'[t] = order /\ \A n \in DOMAIN accepted : accepted'[n] = accepted[n]
    BY <1>1, <1>2
  <1>4. /\ executed' \in Seq(Nat) /\ Len(executed') = t
        /\ executed'[t] = 0 /\ \A n \in DOMAIN accepted : executed'[n] = executed[n]
    BY <1>1, <1>2
  <1> HIDE DEF t
  <1>5. DOMAIN accepted' = DOMAIN accepted \cup {t} /\ t \notin DOMAIN accepted
    BY <1>3
  <1>6. \A n \in DOMAIN accepted : accepted[n].id # order.id
    BY <1>1, <1>2
  <1>7. OrdersOK'
    <2>1. \A m, n \in DOMAIN accepted' : accepted'[m].id = accepted'[n].id => m = n
      BY <1>2, <1>3, <1>5, <1>6
    <2>2. ASSUME NEW id
          PROVE  id \in used' <=> \E n \in DOMAIN accepted' : accepted'[n].id = id
      BY <1>1, <1>2, <1>3, <1>5
    <2>3. QED
      BY <1>3, <1>4, <2>1, <2>2 DEF OrdersOK
  <1>8. /\ LevelsOK' /\ OpenOK' /\ NeverCrossed'
        /\ \A s \in Side, p \in Price : QueueAt(s, p)' = QueueAt(s, p)
    BY <1>1 DEF MatchInv, LevelsOK, OpenOK, NeverCrossed, QueueAt
  <1>9. ASSUME NEW s \in Side, NEW p \in Price, NEW i \in DOMAIN QueueAt(s, p)
        PROVE  \E n \in DOMAIN accepted : RestsAs(n, s, p, QueueAt(s, p)[i])
    BY EntryFacts DEF MatchInv
  <1>10. EntriesOK'
    <2> SUFFICES ASSUME NEW s \in Side, NEW p \in Price, NEW i \in DOMAIN QueueAt(s, p)'
                 PROVE  (LET entry == QueueAt(s, p)[i] IN
                         /\ entry.id \in DOMAIN open
                         /\ open[entry.id] = [side |-> s, price |-> p]
                         /\ \E n \in DOMAIN accepted : RestsAs(n, s, p, entry))'
      BY DEF EntriesOK
    <2>1. i \in DOMAIN QueueAt(s, p) /\ QueueAt(s, p)'[i] = QueueAt(s, p)[i]
      BY <1>8
    <2>2. PICK n \in DOMAIN accepted : RestsAs(n, s, p, QueueAt(s, p)[i])
      BY <1>9, <2>1
    <2>3. RestsAs(n, s, p, QueueAt(s, p)[i])'
      BY <1>3, <1>4, <2>1, <2>2 DEF RestsAs
    <2>4. /\ QueueAt(s, p)[i].id \in DOMAIN open
          /\ open[QueueAt(s, p)[i].id] = [side |-> s, price |-> p]
      BY <2>1, EntryFacts DEF MatchInv
    <2>5. QED
      BY <1>1, <1>5, <2>1, <2>3, <2>4
  <1>11. QueuesOK'
    <2>1. ASSUME NEW s \in Side, NEW p \in Price, NEW i \in DOMAIN QueueAt(s, p),
                 NEW n \in DOMAIN accepted', accepted'[n].id = QueueAt(s, p)[i].id
          PROVE  n \in DOMAIN accepted /\ accepted'[n] = accepted[n]
      <3>1. PICK k \in DOMAIN accepted : accepted[k].id = QueueAt(s, p)[i].id
        BY <1>9 DEF RestsAs
      <3>2. n # t
        BY <1>3, <1>6, <2>1, <3>1
      <3>3. QED
        BY <1>3, <1>5, <3>2
    <2>2. QED
      BY <1>8, <2>1 DEF QueuesOK, MatchInv
  <1>12. CallOK'
    <2>1. order.quantity \in Nat
      BY <1>3, <1>7, BoundsAssumption DEF Order
    <2>2. order.id \notin DOMAIN open
      <3>1. ASSUME order.id \in DOMAIN open PROVE FALSE
        <4>1. PICK s \in Side, p \in Price :
                       \E i \in DOMAIN QueueAt(s, p) : QueueAt(s, p)[i].id = order.id
          BY <3>1 DEF MatchInv, OpenOK
        <4>2. PICK n \in DOMAIN accepted : accepted[n].id = order.id
          BY <1>9, <4>1 DEF RestsAs
        <4>3. QED
          BY <1>6, <4>2
      <3>2. QED
        BY <3>1
    <2>3. accepted' # <<>> /\ accepted'[Len(accepted')] = order
          /\ executed'[Len(accepted')] = 0
      BY <1>3, <1>4
    <2>4. call' = [order |-> order, remaining |-> order.quantity - 0]
      BY <1>1, <2>1
    <2>5. call'.remaining \in Nat /\ call'.order.id \notin DOMAIN open'
      BY <1>1, <2>1, <2>2
    <2>6. call' = [order |-> accepted'[Len(accepted')],
                   remaining |-> accepted'[Len(accepted')].quantity
                                     - executed'[Len(accepted')]]
      BY <2>3, <2>4
    <2>7. QED
      BY <2>3, <2>5, <2>6 DEF CallOK
  <1>13. QED
    BY <1>7, <1>8, <1>10, <1>11, <1>12 DEF MatchInv

-----------------------------------------------------------------------------
(* Behind the orders of its level nothing is crossed: the loop stopped at a *)
(* price beyond the order's.                                                *)
LEMMA BeyondReach ==
    ASSUME MatchInv, Finish, call.remaining > 0, call.order.type = "Limit"
    PROVE  \A p \in Price :
               QueueAt(Opposite(call.order.side), p) # <<>> =>
                   IF call.order.side = "Buy" THEN call.order.price < p
                   ELSE p < call.order.price
  <1> DEFINE side == Opposite(call.order.side)
  <1>1. LevelsOK /\ OrdersOK /\ CallOK /\ call # Nothing
    BY DEF MatchInv, Finish
  <1>2. side \in Side /\ call.order.price \in Price /\ call.order.side \in Side
    BY <1>1, CallFacts, OrderFacts
  <1>3. /\ DOMAIN levels[side] \in SUBSET Price
        /\ \A p : p \in DOMAIN levels[side] <=> QueueAt(side, p) # <<>>
    BY <1>1, <1>2, Queues
  <1>4. DOMAIN levels[side] # {} => ~Reaches(call.order, Best(side))
    BY DEF Finish, Matches
  <1>5. SUFFICES ASSUME NEW p \in Price, QueueAt(side, p) # <<>>
                 PROVE  IF call.order.side = "Buy" THEN call.order.price < p
                        ELSE p < call.order.price
    OBVIOUS
  <1>6. p \in DOMAIN levels[side]
    BY <1>3, <1>5
  <1>7. /\ Best(side) \in Price
        /\ IF side = "Buy" THEN Best(side) >= p ELSE Best(side) <= p
    BY <1>1, <1>2, <1>6, BestFacts
  <1>8. IF call.order.side = "Buy" THEN Best(side) > call.order.price
        ELSE Best(side) < call.order.price
    BY <1>2, <1>4, <1>6, <1>7, BoundsAssumption DEF Reaches, Price
  <1>9. IF call.order.side = "Buy" THEN side = "Sell" ELSE side = "Buy"
    BY DEF Opposite
  <1>10. QED
    BY <1>2, <1>7, <1>8, <1>9, BoundsAssumption DEF Price

LEMMA FinishKeeps ==
    ASSUME MatchInv, Finish
    PROVE  MatchInv'
  <1> DEFINE t == Len(accepted)
             order == accepted[t]
             entry == [id |-> order.id, remaining |-> call.remaining]
             queue == QueueAt(order.side, order.price)
             longer == Append(queue, entry)
             place == [side |-> order.side, price |-> order.price]
  <1>1. /\ LevelsOK /\ OrdersOK /\ EntriesOK /\ OpenOK /\ QueuesOK /\ CallOK /\ NeverCrossed
        /\ call # Nothing /\ call' = Nothing
        /\ used' = used /\ accepted' = accepted /\ executed' = executed
    BY DEF MatchInv, Finish
  <1>2. /\ t \in DOMAIN accepted /\ call.order = order
        /\ call.remaining = order.quantity - executed[t] /\ call.remaining \in Nat
        /\ order.id \notin DOMAIN open
    BY <1>1, CallFacts
  <1>3. OrdersOK' /\ CallOK'
    BY <1>1 DEF OrdersOK, CallOK
  <1>4. CASE ~(call.remaining > 0 /\ order.type = "Limit")
    <2>1. levels' = levels /\ open' = open
      BY <1>2, <1>4 DEF Finish
    <2>2. LevelsOK' /\ NeverCrossed' /\ EntriesOK' /\ OpenOK' /\ QueuesOK'
      BY <1>1, <2>1
      DEF LevelsOK, NeverCrossed, EntriesOK, OpenOK, QueuesOK, QueueAt, RestsAs
    <2>3. QED
      BY <1>3, <2>2 DEF MatchInv
  <1>5. CASE call.remaining > 0 /\ order.type = "Limit"
    <2>1. /\ order.side \in Side /\ order.price \in Price /\ order.id \in OrderId
      BY <1>1, <1>2, <1>5, OrderFacts
    <2>2. /\ levels' = [levels EXCEPT ![order.side] = WithQueue(@, order.price, longer)]
          /\ open' = [id \in DOMAIN open \cup {order.id} |->
                          IF id = order.id THEN place ELSE open[id]]
      BY <1>2, <1>5 DEF Finish, Rested
    <2>3. queue \in Seq(Entry) /\ entry \in Entry
      <3>1. queue \in Seq(Entry)
        BY <1>1, <2>1, Queues
      <3>2. call.remaining \in Nat \ {0}
        BY <1>2, <1>5
      <3>3. entry \in Entry
        BY <2>1, <3>2 DEF Entry
      <3>4. QED
        BY <3>1, <3>3
    <2> HIDE DEF entry, queue
    <2>4. /\ longer \in Seq(Entry) /\ longer # <<>>
          /\ DOMAIN longer = DOMAIN queue \cup {Len(queue) + 1}
          /\ Len(queue) + 1 \notin DOMAIN queue
          /\ longer[Len(queue) + 1] = entry
          /\ \A i \in DOMAIN queue : longer[i] = queue[i] /\ i < Len(queue) + 1
      BY <2>3
    <2> HIDE DEF longer
    <2>5. /\ LevelsOK'
          /\ \A s \in Side, p \in Price :
                 s # order.side \/ p # order.price => QueueAt(s, p)' = QueueAt(s, p)
          /\ (\A s \in Side, p \in Price :
                 s = order.side /\ p = order.price => QueueAt(s, p)' = longer)
      <3>1. PICK s \in Side, p \in Price : s = order.side /\ p = order.price
        BY <2>1
      <3>2. levels' = [levels EXCEPT ![s] = WithQueue(@, p, longer)]
        BY <2>2, <3>1
      <3>3. /\ LevelsOK'
            /\ \A u \in Side, v \in Price : u # s \/ v # p => QueueAt(u, v)' = QueueAt(u, v)
            /\ QueueAt(s, p)' = longer
        BY <1>1, <2>4, <3>2, Requeued
      <3>4. QED
        BY <3>1, <3>3
    <2>6. /\ \A id \in DOMAIN open : /\ id # order.id /\ id \in DOMAIN open'
                                     /\ open'[id] = open[id]
          /\ order.id \in DOMAIN open' /\ open'[order.id] = place
          /\ DOMAIN open' = DOMAIN open \cup {order.id}
      BY <1>2, <2>2
    <2> HIDE DEF place
    (* An entry is an old one at its old place, or the new one.             *)
    <2>7. ASSUME NEW s \in Side, NEW p \in Price, NEW i \in DOMAIN QueueAt(s, p)'
          PROVE  \/ i \in DOMAIN QueueAt(s, p) /\ QueueAt(s, p)'[i] = QueueAt(s, p)[i]
                 \/ /\ s = order.side /\ p = order.price /\ i = Len(queue) + 1
                    /\ QueueAt(s, p)'[i] = entry
      <3>1. CASE s = order.side /\ p = order.price
        BY <2>4, <2>5, <3>1 DEF queue
      <3>2. CASE s # order.side \/ p # order.price
        BY <2>5, <3>2
      <3>3. QED
        BY <3>1, <3>2
    <2>8. ASSUME NEW s \in Side, NEW p \in Price, NEW i \in DOMAIN QueueAt(s, p)
          PROVE  i \in DOMAIN QueueAt(s, p)' /\ QueueAt(s, p)'[i] = QueueAt(s, p)[i]
      <3>1. CASE s = order.side /\ p = order.price
        BY <2>4, <2>5, <3>1 DEF queue
      <3>2. CASE s # order.side \/ p # order.price
        BY <2>5, <3>2
      <3>3. QED
        BY <3>1, <3>2
    <2>9. EntriesOK'
      <3> SUFFICES ASSUME NEW s \in Side, NEW p \in Price, NEW i \in DOMAIN QueueAt(s, p)'
                   PROVE  (LET e == QueueAt(s, p)[i] IN
                           /\ e.id \in DOMAIN open
                           /\ open[e.id] = [side |-> s, price |-> p]
                           /\ \E n \in DOMAIN accepted : RestsAs(n, s, p, e))'
        BY DEF EntriesOK
      <3>1. CASE i \in DOMAIN QueueAt(s, p) /\ QueueAt(s, p)'[i] = QueueAt(s, p)[i]
        <4>1. /\ QueueAt(s, p)[i].id \in DOMAIN open
              /\ open[QueueAt(s, p)[i].id] = [side |-> s, price |-> p]
              /\ \E n \in DOMAIN accepted : RestsAs(n, s, p, QueueAt(s, p)[i])
          BY <1>1, <3>1, EntryFacts
        <4>2. PICK n \in DOMAIN accepted : RestsAs(n, s, p, QueueAt(s, p)[i])
          BY <4>1
        <4>3. RestsAs(n, s, p, QueueAt(s, p)[i])'
          BY <1>1, <3>1, <4>2 DEF RestsAs
        <4>4. QED
          BY <1>1, <2>6, <3>1, <4>1, <4>3
      <3>2. CASE s = order.side /\ p = order.price /\ QueueAt(s, p)'[i] = entry
        <4>1. /\ entry.id = order.id /\ entry.remaining = order.quantity - executed[t]
          BY <1>2 DEF entry
        <4>2. RestsAs(t, s, p, QueueAt(s, p)[i])'
          BY <1>1, <1>5, <3>2, <4>1 DEF RestsAs
        <4>3. QED
          BY <1>1, <1>2, <2>6, <3>2, <4>1, <4>2 DEF place
      <3>3. QED
        BY <2>7, <3>1, <3>2
    <2>10. OpenOK'
      <3> SUFFICES ASSUME NEW o \in DOMAIN open'
                   PROVE  \E s \in Side, p \in Price :
                              /\ open'[o] = [side |-> s, price |-> p]
                              /\ \E i \in DOMAIN QueueAt(s, p)' : QueueAt(s, p)'[i].id = o
        BY DEF OpenOK
      <3>1. CASE o \in DOMAIN open
        <4>1. PICK s \in Side, p \in Price :
                     /\ open[o] = [side |-> s, price |-> p]
                     /\ \E i \in DOMAIN QueueAt(s, p) : QueueAt(s, p)[i].id = o
          BY <1>1, <3>1 DEF OpenOK
        <4>2. QED
          BY <2>6, <2>8, <3>1, <4>1
      <3>2. CASE o = order.id
        <4>1. PICK s \in Side, p \in Price : s = order.side /\ p = order.price
          BY <2>1
        <4>2. /\ Len(queue) + 1 \in DOMAIN QueueAt(s, p)'
              /\ QueueAt(s, p)'[Len(queue) + 1].id = o
          BY <2>4, <2>5, <3>2, <4>1 DEF entry
        <4>3. open'[o] = [side |-> s, price |-> p]
          BY <2>6, <3>2, <4>1 DEF place
        <4>4. QED
          BY <4>2, <4>3
      <3>3. QED
        BY <2>6, <3>1, <3>2
    <2>11. QueuesOK'
      <3> SUFFICES ASSUME NEW s \in Side, NEW p \in Price,
                          NEW i \in DOMAIN QueueAt(s, p)', NEW j \in DOMAIN QueueAt(s, p)',
                          NEW m \in DOMAIN accepted', NEW n \in DOMAIN accepted',
                          i < j,
                          accepted'[m].id = QueueAt(s, p)'[i].id,
                          accepted'[n].id = QueueAt(s, p)'[j].id
                   PROVE  m < n
        BY DEF QueuesOK
      <3>1. i \in Nat \ {0} /\ j \in Nat \ {0}
        <4>1. \A k \in DOMAIN QueueAt(s, p) : k \in Nat \ {0}
          BY <1>1, EntryFacts
        <4>2. Len(queue) + 1 \in Nat \ {0}
          BY <2>3
        <4>3. QED
          BY <2>7, <4>1, <4>2
      <3>2. CASE j \in DOMAIN QueueAt(s, p) /\ QueueAt(s, p)'[j] = QueueAt(s, p)[j]
        <4>1. QueueAt(s, p) \in Seq(Entry)
          BY <1>1, Queues
        <4>2. i \in DOMAIN QueueAt(s, p)
          BY <3>1, <3>2, <4>1
        <4>3. QueueAt(s, p)'[i] = QueueAt(s, p)[i]
          BY <2>8, <4>2
        <4>4. QED
          BY <1>1, <3>2, <4>2, <4>3 DEF QueuesOK
      <3>3. CASE s = order.side /\ p = order.price /\ j = Len(queue) + 1
                 /\ QueueAt(s, p)'[j] = entry
        <4>1. n = t
          BY <1>1, <1>2, <3>3 DEF OrdersOK, entry
        <4>2. i \in DOMAIN QueueAt(s, p) /\ QueueAt(s, p)'[i] = QueueAt(s, p)[i]
          BY <2>7, <3>1, <3>3
        <4>3. QueueAt(s, p)[i].id \in DOMAIN open
          BY <1>1, <4>2, EntryFacts
        <4>4. m # t
          BY <1>1, <1>2, <4>2, <4>3
        <4>5. m \in 1 .. Len(accepted) /\ Len(accepted) \in Nat
          BY <1>1, OrderFacts DEF OrdersOK
        <4>6. QED
          BY <4>1, <4>4, <4>5
      <3>4. QED
        BY <2>7, <3>2, <3>3
    <2>12. NeverCrossed'
      <3>1. \A bid, ask \in Price :
                QueueAt("Buy", bid) # <<>> /\ QueueAt("Sell", ask) # <<>> => bid < ask
        BY <1>1, Crossing
      <3>2. (LevelsOK => (NeverCrossed <=>
                 \A bid, ask \in Price :
                     QueueAt("Buy", bid) # <<>> /\ QueueAt("Sell", ask) # <<>> => bid < ask))'
        BY Crossing, PTL
      <3>3. \A p \in Price : QueueAt(Opposite(order.side), p) # <<>> =>
                IF order.side = "Buy" THEN order.price < p ELSE p < order.price
        BY <1>2, <1>5, BeyondReach
      <3>4. ASSUME NEW bid \in Price, NEW ask \in Price,
                   QueueAt("Buy", bid)' # <<>>, QueueAt("Sell", ask)' # <<>>
            PROVE  bid < ask
        <4>1. CASE order.side = "Buy"
          <5>1. QueueAt("Sell", ask)' = QueueAt("Sell", ask) /\ Opposite(order.side) = "Sell"
            BY <2>5, <4>1 DEF Side, Opposite
          <5>2. CASE bid = order.price
            BY <3>3, <3>4, <4>1, <5>1, <5>2
          <5>3. CASE bid # order.price
            <6>1. QueueAt("Buy", bid)' = QueueAt("Buy", bid)
              BY <2>5, <5>3 DEF Side
            <6>2. QED
              BY <3>1, <3>4, <5>1, <6>1
          <5>4. QED
            BY <5>2, <5>3
        <4>2. CASE order.side = "Sell"
          <5>1. QueueAt("Buy", bid)' = QueueAt("Buy", bid) /\ Opposite(order.side) = "Buy"
            BY <2>5, <4>2 DEF Side, Opposite
          <5>2. CASE ask = order.price
            BY <3>3, <3>4, <4>2, <5>1, <5>2
          <5>3. CASE ask # order.price
            <6>1. QueueAt("Sell", ask)' = QueueAt("Sell", ask)
              BY <2>5, <5>3 DEF Side
            <6>2. QED
              BY <3>1, <3>4, <5>1, <6>1
          <5>4. QED
            BY <5>2, <5>3
        <4>3. QED
          BY <2>1, <4>1, <4>2 DEF Side
      <3>5. (\A bid, ask \in Price :
                QueueAt("Buy", bid) # <<>> /\ QueueAt("Sell", ask) # <<>> => bid < ask)'
        BY <3>4
      <3>6. QED
        BY <2>5, <3>2, <3>5
    <2>13. QED
      BY <1>3, <2>5, <2>9, <2>10, <2>11, <2>12 DEF MatchInv
  <1>6. QED
    BY <1>4, <1>5

-----------------------------------------------------------------------------
LEMMA Removal ==
    ASSUME NEW queue \in Seq(Entry), NEW k \in DOMAIN queue, NEW id, queue[k].id = id,
           \A i \in DOMAIN queue : queue[i].id = id => i = k
    PROVE  Without(queue, k, Erased(queue, id))
  <1> DEFINE front == SubSeq(queue, 1, k - 1)
             back == SubSeq(queue, k + 1, Len(queue))
             rest == front \o back
  <1>1. DOMAIN queue = 1 .. Len(queue) /\ Len(queue) \in Nat /\ k \in 1 .. Len(queue)
    OBVIOUS
  <1>2. {i \in 1 .. Len(queue) : queue[i].id = id} = {k}
    BY <1>1
  <1>3. Min({k}) = k
    BY <1>1 DEF Min
  <1>4. Erased(queue, id) = rest
    <2>1. SelectInSeq(queue, LAMBDA entry : entry.id = id) = k
      BY <1>2, <1>3 DEF SelectInSeq
    <2>2. \E i \in 1 .. Len(queue) : queue[i].id = id
      BY <1>1
    <2>3. QED
      BY <2>1, <2>2 DEF Erased, RemoveFirstMatch, RemoveAt
  <1>5. /\ front \in Seq(Entry) /\ Len(front) = k - 1
        /\ \A i \in 1 .. k - 1 : front[i] = queue[i]
    BY <1>1
  <1>6. /\ back \in Seq(Entry) /\ Len(back) = Len(queue) - k
        /\ \A i \in 1 .. Len(queue) - k : back[i] = queue[i + k]
    BY <1>1
  <1> HIDE DEF front, back
  <1>7. /\ rest \in Seq(Entry) /\ Len(rest) = Len(queue) - 1
        /\ \A i \in 1 .. Len(queue) - 1 : rest[i] = IF i < k THEN queue[i] ELSE queue[i + 1]
    <2>1. /\ rest \in Seq(Entry) /\ Len(rest) = Len(front) + Len(back)
          /\ \A i \in 1 .. Len(front) + Len(back) :
                 rest[i] = IF i <= Len(front) THEN front[i] ELSE back[i - Len(front)]
      <3>1. front \in Seq(Entry) /\ back \in Seq(Entry)
        BY <1>5, <1>6
      <3>2. QED
        BY <3>1
    <2> HIDE DEF rest
    <2>2. Len(front) + Len(back) = Len(queue) - 1
      BY <1>1, <1>5, <1>6
    <2>3. ASSUME NEW i \in 1 .. Len(queue) - 1
          PROVE  rest[i] = IF i < k THEN queue[i] ELSE queue[i + 1]
      <3>1. CASE i < k
        <4>1. i \in 1 .. k - 1
          BY <1>1, <3>1
        <4>2. rest[i] = front[i]
          BY <1>1, <1>5, <2>1, <2>2, <4>1
        <4>3. QED
          BY <1>5, <3>1, <4>1, <4>2
      <3>2. CASE ~(i < k)
        <4>1. i - (k - 1) \in 1 .. Len(queue) - k /\ (i - (k - 1)) + k = i + 1
          BY <1>1, <3>2
        <4>2. rest[i] = back[i - (k - 1)]
          BY <1>1, <1>5, <2>1, <2>2, <3>2
        <4>3. QED
          BY <1>6, <3>2, <4>1, <4>2
      <3>3. QED
        BY <3>1, <3>2
    <2>4. QED
      BY <2>1, <2>2, <2>3
  <1> HIDE DEF rest
  <1>8. Without(queue, k, rest)
    BY <1>7 DEF Without
  <1>9. QED
    BY <1>4, <1>8

(* A cancelled order leaves its queue, wherever in it it is.                *)
LEMMA CancelLeaves ==
    ASSUME MatchInv, NEW id \in OrderId, Cancel(id)
    PROVE  \E side \in Side, price \in Price : \E k \in DOMAIN QueueAt(side, price) :
               \E rest : Leaves(side, price, k, rest) /\ QueueAt(side, price)[k].id = id
  <1>1. /\ LevelsOK /\ OrdersOK /\ EntriesOK /\ OpenOK /\ QueuesOK
        /\ id \in DOMAIN open
    BY DEF MatchInv, Cancel
  <1>2. PICK side \in Side, price \in Price :
               /\ open[id] = [side |-> side, price |-> price]
               /\ \E i \in DOMAIN QueueAt(side, price) : QueueAt(side, price)[i].id = id
    BY <1>1 DEF OpenOK
  <1>3. PICK k \in DOMAIN QueueAt(side, price) : QueueAt(side, price)[k].id = id
    BY <1>2
  <1> DEFINE queue == QueueAt(side, price)
             rest == Erased(queue, id)
  <1>4. queue \in Seq(Entry) /\ queue # <<>> /\ levels[side][price] = queue
    <2>1. /\ queue \in Seq(Entry) /\ price \in DOMAIN levels[side] <=> queue # <<>>
          /\ price \in DOMAIN levels[side] => levels[side][price] = queue
      BY <1>1, Queues
    <2>2. queue # <<>>
      BY <1>3
    <2>3. QED
      BY <2>1, <2>2, <1>1, Queues
  <1>5. \A i \in DOMAIN queue : queue[i].id = id => i = k
    BY <1>1, <1>3, OncePerQueue
  <1>6. Without(queue, k, rest)
    <2> HIDE DEF queue
    <2>1. k \in DOMAIN queue /\ queue[k].id = id
      BY <1>3 DEF queue
    <2>2. QED
      BY <1>4, <1>5, <2>1, Removal
  <1>7. /\ levels' = [levels EXCEPT ![side] = WithQueue(@, price, rest)]
        /\ open' = Forget(id) /\ accepted' = accepted /\ executed' = executed
    <2>1. open[id].side = side /\ open[id].price = price
      BY <1>2
    <2>2. QED
      BY <1>4, <2>1 DEF Cancel
  <1> HIDE DEF rest
  <1>8. Leaves(side, price, k, rest)
    BY <1>3, <1>6, <1>7 DEF Leaves
  <1>9. QED
    BY <1>3, <1>8

LEMMA CancelKeeps ==
    ASSUME MatchInv, NEW id \in OrderId, Cancel(id)
    PROVE  MatchInv'
  <1>1. PICK side \in Side, price \in Price : \E k \in DOMAIN QueueAt(side, price) :
               \E rest : Leaves(side, price, k, rest) /\ QueueAt(side, price)[k].id = id
    BY CancelLeaves
  <1>2. PICK k \in DOMAIN QueueAt(side, price) :
               \E rest : Leaves(side, price, k, rest) /\ QueueAt(side, price)[k].id = id
    BY <1>1
  <1>3. PICK rest : Leaves(side, price, k, rest)
    BY <1>2
  <1>4. LevelsOK' /\ EntriesOK' /\ OpenOK' /\ QueuesOK' /\ NeverCrossed'
    BY <1>3, LeftQueues DEF MatchInv
  <1>5. OrdersOK' /\ CallOK'
    BY DEF MatchInv, Cancel, OrdersOK, CallOK
  <1>6. QED
    BY <1>4, <1>5 DEF MatchInv

LEMMA MatchingInit ==
    ASSUME Init
    PROVE  MatchInv
  <1>1. /\ levels = [side \in Side |-> <<>>] /\ open = <<>> /\ used = {} /\ call = Nothing
        /\ accepted = <<>> /\ executed = <<>>
    BY DEF Init
  <1>2. \A side \in Side : levels[side] = <<>> /\ DOMAIN levels[side] = {}
    BY <1>1
  <1>3. LevelsOK
    <2>1. <<>> \in [{} -> Seq(Entry) \ {<<>>}]
      OBVIOUS
    <2>2. <<>> \in SideMap
      BY <2>1, IsSideMap
    <2>3. QED
      BY <1>1, <2>2 DEF LevelsOK
  <1>4. \A side \in Side, price \in Price : QueueAt(side, price) = <<>>
    BY <1>2 DEF QueueAt
  <1>5. EntriesOK /\ QueuesOK
    BY <1>4 DEF EntriesOK, QueuesOK
  <1>6. OrdersOK /\ OpenOK /\ CallOK /\ NeverCrossed
    BY <1>1, <1>2 DEF OrdersOK, OpenOK, CallOK, NeverCrossed, Side
  <1>7. QED
    BY <1>3, <1>5, <1>6 DEF MatchInv

LEMMA MatchingStep ==
    ASSUME MatchInv, [Next]_vars
    PROVE  MatchInv'
  <1>1. CASE UNCHANGED vars
    BY <1>1 DEF vars, MatchInv, LevelsOK, OrdersOK, EntriesOK, OpenOK, QueuesOK, CallOK,
                NeverCrossed, QueueAt, RestsAs
  <1>2. CASE \E order \in Order : Submit(order)
    BY <1>2, SubmitKeeps
  <1>3. CASE Match
    BY <1>3, MatchKeeps
  <1>4. CASE Finish
    BY <1>4, FinishKeeps
  <1>5. CASE \E id \in OrderId : Cancel(id)
    BY <1>5, CancelKeeps
  <1>6. QED
    BY <1>1, <1>2, <1>3, <1>4, <1>5 DEF Next

(* The engine's invariant: levels are never empty, what rests is an accepted *)
(* limit order with exactly what it has not traded, in the order of          *)
(* acceptance, the index and the queues name each other, the order being     *)
(* matched rests nowhere, and no bid reaches an ask.                         *)
THEOREM MatchInvariant == Spec => []MatchInv
  BY MatchingInit, MatchingStep, PTL DEF Spec

(* The resting book is never crossed or locked, at any turn of the matching  *)
(* loop.                                                                     *)
THEOREM BookIsUncrossed == Spec => []NeverCrossed
  <1>1. MatchInv => NeverCrossed
    BY DEF MatchInv
  <1>2. QED
    BY <1>1, MatchInvariant, PTL

(* cancel and match find each order where the index says and leave no order  *)
(* and no level behind: the index and the queues agree.                      *)
THEOREM IndexIsExact == Spec => []IndexAgrees
  <1>1. ASSUME MatchInv PROVE IndexAgrees
    <2>1. LevelsOK /\ OrdersOK /\ EntriesOK /\ OpenOK /\ QueuesOK
      BY <1>1 DEF MatchInv
    <2>2. ASSUME NEW id \in DOMAIN open
          PROVE  LET queue == QueueAt(open[id].side, open[id].price)
                 IN  \E i \in DOMAIN queue :
                         queue[i].id = id /\ \A j \in DOMAIN queue \ {i} : queue[j].id # id
      <3>1. PICK side \in Side, price \in Price :
                   /\ open[id] = [side |-> side, price |-> price]
                   /\ \E i \in DOMAIN QueueAt(side, price) : QueueAt(side, price)[i].id = id
        BY <2>1 DEF OpenOK
      <3>2. PICK i \in DOMAIN QueueAt(side, price) : QueueAt(side, price)[i].id = id
        BY <3>1
      <3>3. \A j \in DOMAIN QueueAt(side, price) \ {i} : QueueAt(side, price)[j].id # id
        BY <2>1, <3>2, OncePerQueue
      <3>4. open[id].side = side /\ open[id].price = price
        BY <3>1
      <3>5. QED
        BY <3>2, <3>3, <3>4
    <2>3. ASSUME NEW side \in Side, NEW price \in DOMAIN levels[side]
          PROVE  /\ Entries(side, price) # {}
                 /\ \A entry \in Entries(side, price) :
                        /\ entry.id \in DOMAIN open
                        /\ open[entry.id] = [side |-> side, price |-> price]
                        /\ entry.remaining > 0
      <3> DEFINE queue == QueueAt(side, price)
      <3>1. /\ price \in Price /\ queue # <<>> /\ queue \in Seq(Entry)
            /\ levels[side][price] = queue
        BY <2>1, Queues
      <3>2. Entries(side, price) = {queue[i] : i \in DOMAIN queue}
        BY <3>1 DEF Entries
      <3>3. 1 \in DOMAIN queue
        BY <3>1
      <3>4. \A i \in DOMAIN queue : /\ queue[i].id \in DOMAIN open
                                    /\ open[queue[i].id] = [side |-> side, price |-> price]
                                    /\ queue[i] \in Entry
        BY <2>1, <3>1, EntryFacts
      <3> HIDE DEF queue
      <3>5. QED
        BY <3>2, <3>3, <3>4 DEF Entry
    <2>4. QED
      BY <2>2, <2>3 DEF IndexAgrees
  <1>2. QED
    BY <1>1, MatchInvariant, PTL

-----------------------------------------------------------------------------
(* What rests, seen from the numbers of the orders.                         *)
LEMMA OpenOrder ==
    ASSUME MatchInv, NEW n \in DOMAIN accepted, accepted[n].id \in DOMAIN open
    PROVE  /\ accepted[n].side \in Side /\ accepted[n].price \in Price
           /\ \E i \in DOMAIN QueueAt(accepted[n].side, accepted[n].price) :
                  RestsAs(n, accepted[n].side, accepted[n].price,
                          QueueAt(accepted[n].side, accepted[n].price)[i])
           /\ executed[n] < accepted[n].quantity
  <1>1. /\ LevelsOK /\ OrdersOK /\ EntriesOK /\ OpenOK
    BY DEF MatchInv
  <1>2. PICK side \in Side, price \in Price :
               \E i \in DOMAIN QueueAt(side, price) : QueueAt(side, price)[i].id = accepted[n].id
    BY <1>1 DEF OpenOK
  <1>3. PICK i \in DOMAIN QueueAt(side, price) : QueueAt(side, price)[i].id = accepted[n].id
    BY <1>2
  <1>4. /\ QueueAt(side, price)[i] \in Entry
        /\ \E k \in DOMAIN accepted : RestsAs(k, side, price, QueueAt(side, price)[i])
    BY <1>1, EntryFacts
  <1>5. PICK k \in DOMAIN accepted : RestsAs(k, side, price, QueueAt(side, price)[i])
    BY <1>4
  <1>6. k = n
    BY <1>1, <1>3, <1>5 DEF RestsAs, OrdersOK
  <1>7. accepted[n].side = side /\ accepted[n].price = price
    BY <1>5, <1>6 DEF RestsAs
  <1>8. executed[n] < accepted[n].quantity
    <2>1. QueueAt(side, price)[i].remaining \in Nat \ {0}
      BY <1>4 DEF Entry
    <2>2. QueueAt(side, price)[i].remaining = accepted[n].quantity - executed[n]
      BY <1>5, <1>6 DEF RestsAs
    <2>3. accepted[n].quantity \in Nat /\ executed[n] \in Nat
      BY <1>1, OrderFacts
    <2>4. QED
      BY <2>1, <2>2, <2>3
  <1>9. QED
    BY <1>5, <1>6, <1>7, <1>8

LEMMA TakerIs ==
    ASSUME MatchInv, call # Nothing, NEW n \in DOMAIN accepted
    PROVE  /\ call.order.id = accepted[n].id <=> n = Len(accepted)
           /\ n = Len(accepted) => accepted[n].id \notin DOMAIN open
  <1>1. /\ Len(accepted) \in DOMAIN accepted /\ call.order = accepted[Len(accepted)]
        /\ accepted[Len(accepted)].id \notin DOMAIN open
    BY CallFacts DEF MatchInv
  <1>2. QED
    BY <1>1 DEF MatchInv, OrdersOK

LEMMA RestingAre ==
    ASSUME MatchInv
    PROVE  Priority!Resting = {n \in DOMAIN accepted : accepted[n].id \in DOMAIN open}
  <1>1. SUFFICES ASSUME NEW n \in DOMAIN accepted
                 PROVE  (/\ n \notin Gone /\ Priority!Left(n) > 0
                         /\ ~(call # Nothing /\ n = Len(accepted)))
                            <=> accepted[n].id \in DOMAIN open
    BY DEF Priority!Resting, Priority!Taker
  <1>2. accepted[n].quantity \in Nat /\ executed[n] \in Nat
    BY OrderFacts DEF MatchInv
  <1>3. Priority!Left(n) > 0 <=> executed[n] < accepted[n].quantity
    BY <1>2 DEF Priority!Left
  <1>4. n \in Gone <=> /\ accepted[n].id \notin DOMAIN open
                       /\ executed[n] < accepted[n].quantity
                       /\ ~(call # Nothing /\ n = Len(accepted))
    BY TakerIs DEF Gone
  <1>5. accepted[n].id \in DOMAIN open => /\ executed[n] < accepted[n].quantity
                                          /\ ~(call # Nothing /\ n = Len(accepted))
    BY OpenOrder, TakerIs
  <1>6. QED
    BY <1>3, <1>4, <1>5

(* The loop's limit is the abstract one's.                                  *)
LEMMA MakersAre ==
    ASSUME MatchInv, call # Nothing
    PROVE  LET t == Len(accepted) IN
           Priority!Makers = {n \in DOMAIN accepted :
               /\ accepted[n].id \in DOMAIN open
               /\ accepted[n].side = Opposite(accepted[t].side)
               /\ Reaches(accepted[t], accepted[n].price)}
  <1> DEFINE t == Len(accepted)
  <1>1. t \in DOMAIN accepted /\ accepted[t].side \in Side /\ accepted[t].price \in Nat
    BY CallFacts, OrderFacts DEF MatchInv
  <1>2. ASSUME NEW n \in DOMAIN accepted
        PROVE  (/\ accepted[n].side # accepted[t].side
                /\ \/ accepted[t].type = "Market"
                   \/ ~Priority!BetterMaker(accepted[n].side, accepted[t].price,
                                            accepted[n].price))
                <=> (/\ accepted[n].side = Opposite(accepted[t].side)
                     /\ Reaches(accepted[t], accepted[n].price))
    <2>1. accepted[n].side \in Side /\ accepted[n].price \in Nat
      BY OrderFacts DEF MatchInv
    <2>2. QED
      BY <1>1, <2>1 DEF Priority!BetterMaker, Reaches, Opposite, Side
  <1>3. QED
    BY <1>2, RestingAre DEF Priority!Makers, Priority!Taker

-----------------------------------------------------------------------------
(* Each action is the abstract one, by its order's number.                  *)
LEMMA SubmitTakes ==
    ASSUME MatchInv, NEW order \in Order, Submit(order)
    PROVE  Priority!Take(order)
  <1>1. /\ call = Nothing /\ order.id \notin used /\ open' = open
        /\ call' = [order |-> order, remaining |-> order.quantity]
        /\ accepted' = Append(accepted, order) /\ executed' = Append(executed, 0)
    BY DEF Submit, Unused
  <1>2. /\ accepted \in Seq(Order) /\ executed \in Seq(Nat) /\ Len(executed) = Len(accepted)
        /\ \A n \in DOMAIN accepted : accepted[n].id # order.id
    BY <1>1 DEF MatchInv, OrdersOK
  <1>3. call' # Nothing
    <2>1. order.quantity \in Nat
      BY BoundsAssumption DEF Order
    <2>2. QED
      BY <1>1, <2>1, NothingAssumption
  <1>4. Gone' = Gone
    <2> DEFINE t == Len(accepted) + 1
    <2>1. /\ DOMAIN accepted' = DOMAIN accepted \cup {t} /\ accepted'[t] = order
          /\ \A n \in DOMAIN accepted : /\ accepted'[n] = accepted[n]
                                        /\ executed'[n] = executed[n]
      BY <1>1, <1>2
    <2> HIDE DEF t
    <2>2. call'.order = order
      BY <1>1
    <2>3. ASSUME NEW n \in DOMAIN accepted
          PROVE  n \in Gone' <=> n \in Gone
      BY <1>1, <1>2, <2>1, <2>2 DEF Gone
    <2>4. t \notin Gone' /\ t \notin Gone
      <3>1. call'.order.id = accepted'[t].id
        BY <2>1, <2>2
      <3>2. t \notin Gone'
        BY <1>3, <3>1 DEF Gone
      <3>3. t \notin DOMAIN accepted
        BY <1>2 DEF t
      <3>4. QED
        BY <3>2, <3>3 DEF Gone
    <2>5. Gone \subseteq DOMAIN accepted /\ Gone' \subseteq DOMAIN accepted'
      BY DEF Gone
    <2>6. QED
      BY <2>1, <2>3, <2>4, <2>5
  <1>5. QED
    BY <1>1, <1>2, <1>3, <1>4 DEF Priority!Take

LEMMA CallIsCall ==
    ASSUME MatchInv, NEW t \in DOMAIN accepted, NEW r \in Nat
    PROVE  [order |-> accepted[t], remaining |-> r] # Nothing
  <1>1. accepted[t] \in Order
    BY OrderFacts DEF MatchInv
  <1>2. [order |-> accepted[t], remaining |-> r] \in [order : Order, remaining : Nat]
    BY <1>1
  <1>3. QED
    BY <1>2, NothingAssumption

LEMMA MatchTradesWith ==
    ASSUME MatchInv, Match
    PROVE  \E n \in DOMAIN accepted : Priority!TradeWith(n)
  <1>1. PICK side \in Side, price \in Price, quantity \in Nat \ {0} :
             \E m, t \in DOMAIN accepted : Traded(side, price, quantity, m, t)
    BY MatchTrades
  <1>2. PICK m \in DOMAIN accepted, t \in DOMAIN accepted :
             Traded(side, price, quantity, m, t)
    BY <1>1
  <1> DEFINE queue == QueueAt(side, price)
             left == queue[1].remaining - quantity
  <1>3. /\ 1 \in DOMAIN queue /\ queue[1] \in Entry /\ left \in Nat
        /\ executed'[m] = executed[m] + quantity /\ executed'[t] = executed[t] + quantity
        /\ \A n \in DOMAIN accepted : n # m /\ n # t => executed'[n] = executed[n]
        /\ call' = [order |-> accepted[t], remaining |-> accepted[t].quantity - executed'[t]]
        /\ call'.remaining \in Nat
        /\ accepted[t].id \notin DOMAIN open
    BY <1>2, TradeFacts
  <1>4. /\ t = Len(accepted) /\ side = Opposite(accepted[t].side)
        /\ DOMAIN levels[side] # {} /\ price = Best(side)
        /\ call # Nothing /\ call.order = accepted[t]
        /\ call.remaining = accepted[t].quantity - executed[t] /\ call.remaining \in Nat \ {0}
        /\ Reaches(accepted[t], price)
        /\ RestsAs(m, side, price, queue[1]) /\ m # t
        /\ quantity = IF queue[1].remaining < call.remaining THEN queue[1].remaining
                      ELSE call.remaining
        /\ open' = IF left = 0 THEN Forget(queue[1].id) ELSE open
        /\ executed' = [executed EXCEPT ![m] = @ + quantity, ![t] = @ + quantity]
        /\ accepted' = accepted
    BY <1>2 DEF Traded
  <1>5. /\ LevelsOK /\ OrdersOK /\ EntriesOK /\ QueuesOK
    BY DEF MatchInv
  <1>6. /\ accepted[m].id = queue[1].id /\ accepted[m].side = side
        /\ accepted[m].price = price
        /\ queue[1].remaining = accepted[m].quantity - executed[m]
    BY <1>4 DEF RestsAs
  <1>7. queue[1].id \in DOMAIN open
    BY <1>3, <1>5, EntryFacts
  <1>8. \A n \in DOMAIN accepted : accepted[n].id = queue[1].id => n = m
    BY <1>5, <1>6 DEF OrdersOK
  <1>9. /\ Priority!Left(m) = queue[1].remaining /\ Priority!Taker = t
        /\ Priority!Left(Priority!Taker) = call.remaining
    BY <1>4, <1>6 DEF Priority!Left, Priority!Taker
  <1>10. m \in Priority!Makers
    BY <1>4, <1>6, <1>7, MakersAre
  (* Every other maker is behind the front of the best level.               *)
  <1>11. ASSUME NEW n \in Priority!Makers \ {m}
         PROVE  Priority!Ahead(m, n)
    <2>1. /\ n \in DOMAIN accepted /\ accepted[n].id \in DOMAIN open
          /\ accepted[n].side = side
      BY <1>4, <1>11, MakersAre
    <2> DEFINE price2 == accepted[n].price
    <2>2. /\ price2 \in Price
          /\ \E i \in DOMAIN QueueAt(side, price2) :
                 RestsAs(n, side, price2, QueueAt(side, price2)[i])
      BY <2>1, OpenOrder
    <2>3. PICK i \in DOMAIN QueueAt(side, price2) :
                 RestsAs(n, side, price2, QueueAt(side, price2)[i])
      BY <2>2
    <2> HIDE DEF price2
    <2>4. price2 \in DOMAIN levels[side]
      <3>1. QueueAt(side, price2) # <<>>
        BY <2>3
      <3>2. QED
        BY <1>5, <3>1, Queues
    <2>5. IF side = "Buy" THEN price >= price2 ELSE price <= price2
      BY <1>4, <1>5, <2>4, BestFacts
    <2>6. price \in Nat /\ price2 \in Nat
      BY <2>2, BoundsAssumption DEF Price
    <2>7. CASE price2 # price
      <3>1. Priority!BetterMaker(side, price, price2)
        BY <2>5, <2>6, <2>7 DEF Priority!BetterMaker, Side
      <3>2. QED
        BY <1>6, <3>1 DEF Priority!Ahead, price2
    <2>8. CASE price2 = price
      <3>1. i \in DOMAIN queue /\ accepted[n].id = queue[i].id
        BY <2>3, <2>8 DEF RestsAs
      <3>2. i # 1
        BY <1>8, <1>11, <2>1, <3>1
      <3>3. i \in Nat \ {0}
        BY <1>5, <3>1, EntryFacts
      <3>4. 1 < i
        BY <3>2, <3>3
      <3>5. m < n
        BY <1>3, <1>5, <1>6, <2>1, <3>1, <3>4 DEF QueuesOK
      <3>6. QED
        BY <1>6, <2>8, <3>5 DEF Priority!Ahead, price2
    <2>9. QED
      BY <2>7, <2>8
  <1>12. call' # Nothing /\ call'.order = call.order
    <2>1. accepted[t].quantity - executed'[t] \in Nat
      BY <1>3
    <2>2. QED
      BY <1>3, <1>4, <2>1, CallIsCall
  <1>13. Gone' = Gone
    <2>1. ASSUME NEW n \in DOMAIN accepted
          PROVE  n \in Gone' <=> n \in Gone
      <3>1. CASE n = t
        BY <1>4, <1>12, <3>1 DEF Gone
      <3>2. CASE n = m
        <4>1. n \notin Gone
          BY <1>6, <1>7, <3>2 DEF Gone
        <4>2. CASE left = 0
          <5>1. accepted[m].quantity \in Nat /\ executed[m] \in Nat /\ quantity \in Nat
            BY <1>5, OrderFacts
          <5>2. executed'[m] = accepted[m].quantity
            BY <1>3, <1>6, <4>2, <5>1
          <5>3. ~(executed'[m] < accepted[m].quantity)
            BY <5>1, <5>2
          <5>4. QED
            BY <1>4, <3>2, <4>1, <5>3 DEF Gone
        <4>3. CASE left # 0
          <5>1. accepted'[m].id \in DOMAIN open'
            BY <1>4, <1>6, <1>7, <4>3
          <5>2. QED
            BY <3>2, <4>1, <5>1 DEF Gone
        <4>4. QED
          BY <4>2, <4>3
      <3>3. CASE n # t /\ n # m
        <4>1. executed'[n] = executed[n] /\ accepted'[n] = accepted[n]
          BY <1>3, <1>4, <3>3
        <4>2. accepted[n].id \in DOMAIN open' <=> accepted[n].id \in DOMAIN open
          BY <1>4, <1>8, <3>3 DEF Forget
        <4>3. QED
          BY <1>4, <1>12, <4>1, <4>2 DEF Gone
      <3>4. QED
        BY <3>1, <3>2, <3>3
    <2>2. Gone \subseteq DOMAIN accepted /\ Gone' \subseteq DOMAIN accepted
      BY <1>4 DEF Gone
    <2>3. QED
      BY <2>1, <2>2
  <1>14. Priority!TradeWith(m)
    <2>1. (IF Priority!Left(m) < Priority!Left(Priority!Taker) THEN Priority!Left(m)
           ELSE Priority!Left(Priority!Taker)) = quantity
      BY <1>4, <1>9
    <2>2. Priority!Left(Priority!Taker) > 0
      BY <1>4, <1>9
    <2>3. (call # Nothing)' = (call # Nothing)
      BY <1>4, <1>12
    <2>4. QED
      BY <1>4, <1>9, <1>10, <1>11, <1>13, <2>1, <2>2, <2>3 DEF Priority!TradeWith
  <1>15. QED
    BY <1>14

LEMMA FinishSettles ==
    ASSUME MatchInv, Finish
    PROVE  Priority!Settle
  <1> DEFINE t == Len(accepted)
             order == accepted[t]
             side == Opposite(order.side)
  <1>1. /\ LevelsOK /\ OrdersOK /\ CallOK
        /\ call # Nothing /\ call' = Nothing /\ ~Matches(call.order, call.remaining)
        /\ accepted' = accepted /\ executed' = executed
    BY DEF MatchInv, Finish
  <1>2. /\ t \in DOMAIN accepted /\ call.order = order
        /\ call.remaining = order.quantity - executed[t] /\ call.remaining \in Nat
        /\ order.id \notin DOMAIN open /\ side \in Side
    BY <1>1, CallFacts
  <1>3. Priority!Taker = t /\ Priority!Left(Priority!Taker) = call.remaining
    BY <1>2 DEF Priority!Taker, Priority!Left
  <1>4. /\ order.quantity \in Nat /\ executed[t] \in Nat /\ order.type \in {"Limit", "Market"}
        /\ order.price \in Nat
    BY <1>1, <1>2, OrderFacts
  <1>5. call.remaining = 0 \/ Priority!Makers = {}
    <2>1. SUFFICES ASSUME call.remaining > 0, NEW n \in Priority!Makers
                   PROVE  FALSE
      BY <1>2
    <2>2. /\ n \in DOMAIN accepted /\ accepted[n].id \in DOMAIN open
          /\ accepted[n].side = side /\ Reaches(order, accepted[n].price)
      BY <1>1, <2>1, MakersAre
    <2>3. /\ accepted[n].price \in Price
          /\ \E i \in DOMAIN QueueAt(side, accepted[n].price) :
                 RestsAs(n, side, accepted[n].price, QueueAt(side, accepted[n].price)[i])
      BY <2>2, OpenOrder
    <2>4. accepted[n].price \in DOMAIN levels[side]
      <3>1. QueueAt(side, accepted[n].price) # <<>>
        BY <2>3
      <3>2. QED
        BY <1>1, <1>2, <3>1, Queues
    <2>5. /\ Best(side) \in Price
          /\ IF side = "Buy" THEN Best(side) >= accepted[n].price
             ELSE Best(side) <= accepted[n].price
      BY <1>1, <1>2, <2>4, BestFacts
    <2>6. accepted[n].price \in Nat /\ Best(side) \in Nat
      BY <2>3, <2>5, BoundsAssumption DEF Price
    <2>7. side = "Buy" <=> order.side # "Buy"
      BY DEF Opposite
    <2> HIDE DEF side
    <2>8. Reaches(order, Best(side))
      BY <1>4, <2>2, <2>5, <2>6, <2>7 DEF Reaches
    <2>9. QED
      BY <1>1, <1>2, <2>1, <2>4, <2>8 DEF Matches, side
  <1>6. Gone' = IF call.remaining > 0 /\ order.type = "Market" THEN Gone \cup {t} ELSE Gone
    <2>1. ASSUME NEW n \in DOMAIN accepted, n # t
          PROVE  n \in Gone' <=> n \in Gone
      <3>1. accepted[n].id # order.id
        BY <1>1, <1>2, <2>1 DEF OrdersOK
      <3>2. accepted[n].id \in DOMAIN open' <=> accepted[n].id \in DOMAIN open
        BY <1>2, <3>1 DEF Finish
      <3>3. QED
        BY <1>1, <1>2, <3>1, <3>2 DEF Gone
    <2>2. t \notin Gone
      BY <1>1, <1>2 DEF Gone
    <2>3. t \in Gone' <=> call.remaining > 0 /\ order.type = "Market"
      <3>1. t \in Gone' <=> order.id \notin DOMAIN open' /\ executed[t] < order.quantity
        BY <1>1, <1>2 DEF Gone
      <3>2. executed[t] < order.quantity <=> call.remaining > 0
        BY <1>2, <1>4
      <3>3. order.id \in DOMAIN open' <=> call.remaining > 0 /\ order.type = "Limit"
        BY <1>2 DEF Finish
      <3>4. QED
        BY <1>4, <3>1, <3>2, <3>3
    <2>4. Gone \subseteq DOMAIN accepted /\ Gone' \subseteq DOMAIN accepted
      BY <1>1 DEF Gone
    <2> HIDE DEF t
    <2>5. CASE call.remaining > 0 /\ order.type = "Market"
      <3>1. Gone' = Gone \cup {t}
        BY <1>2, <2>1, <2>3, <2>4, <2>5
      <3>2. QED
        BY <2>5, <3>1
    <2>6. CASE ~(call.remaining > 0 /\ order.type = "Market")
      <3>1. Gone' = Gone
        BY <2>1, <2>2, <2>3, <2>4, <2>6
      <3>2. QED
        BY <2>6, <3>1
    <2>7. QED
      BY <2>5, <2>6
  <1>7. QED
    <2>1. (call # Nothing)' = FALSE
      BY <1>1
    <2>2. QED
      BY <1>1, <1>3, <1>5, <1>6, <2>1 DEF Priority!Settle

LEMMA CancelWithdraws ==
    ASSUME MatchInv, NEW id \in OrderId, Cancel(id)
    PROVE  \E n \in DOMAIN accepted : Priority!Withdraw(n)
  <1>1. /\ call = Nothing /\ call' = call /\ id \in DOMAIN open /\ open' = Forget(id)
        /\ accepted' = accepted /\ executed' = executed
    BY DEF Cancel
  <1>2. PICK side \in Side, price \in Price :
               \E i \in DOMAIN QueueAt(side, price) : QueueAt(side, price)[i].id = id
    BY <1>1 DEF MatchInv, OpenOK
  <1>3. PICK i \in DOMAIN QueueAt(side, price) : QueueAt(side, price)[i].id = id
    BY <1>2
  <1>4. \E n \in DOMAIN accepted : RestsAs(n, side, price, QueueAt(side, price)[i])
    BY EntryFacts DEF MatchInv
  <1>5. PICK n \in DOMAIN accepted : accepted[n].id = id
    BY <1>3, <1>4 DEF RestsAs
  <1>6. n \in Priority!Resting
    BY <1>1, <1>5, RestingAre
  <1>7. Gone' = Gone \cup {n}
    <2>1. executed[n] < accepted[n].quantity
      BY <1>1, <1>5, OpenOrder
    <2>2. \A k \in DOMAIN accepted : accepted[k].id = id => k = n
      BY <1>5 DEF MatchInv, OrdersOK
    <2>3. n \in Gone'
      BY <1>1, <1>5, <2>1 DEF Gone, Forget
    <2>4. ASSUME NEW k \in DOMAIN accepted, k # n
          PROVE  k \in Gone' <=> k \in Gone
      BY <1>1, <2>2, <2>4 DEF Gone, Forget
    <2>5. Gone \subseteq DOMAIN accepted /\ Gone' \subseteq DOMAIN accepted
      BY <1>1 DEF Gone
    <2>6. QED
      BY <2>3, <2>4, <2>5
  <1>8. Priority!Withdraw(n)
    BY <1>1, <1>6, <1>7 DEF Priority!Withdraw
  <1>9. QED
    BY <1>8

(* The maps, queues and index implement strict price-time priority: a submit *)
(* takes the order, each turn of its loop trades with the resting order that *)
(* is best by price and then by number, its end settles what is left, and a  *)
(* cancel withdraws a resting order.                                         *)
THEOREM MatchingIsByPriceAndTime == Spec => PriceTimePriority
  <1>1. ASSUME Init PROVE Priority!PriceTimeInit
    <2>1. /\ accepted = <<>> /\ executed = <<>> /\ (call # Nothing) = FALSE
      BY <1>1 DEF Init
    <2>2. Gone = {}
      BY <2>1 DEF Gone
    <2>3. QED
      BY <2>1, <2>2 DEF Priority!PriceTimeInit
  <1>2. ASSUME MatchInv, [Next]_vars
        PROVE  [Priority!PriceTimeNext]_(Priority!priceTimeVars)
    <2>1. CASE UNCHANGED vars
      <3>1. Gone' = Gone /\ (call # Nothing)' = (call # Nothing)
        BY <2>1 DEF vars, Gone
      <3>2. QED
        BY <2>1, <3>1 DEF vars, Priority!priceTimeVars
    <2>2. CASE \E order \in Order : Submit(order)
      BY <1>2, <2>2, SubmitTakes DEF Priority!PriceTimeNext
    <2>3. CASE Match
      BY <1>2, <2>3, MatchTradesWith DEF Priority!PriceTimeNext
    <2>4. CASE Finish
      BY <1>2, <2>4, FinishSettles DEF Priority!PriceTimeNext
    <2>5. CASE \E id \in OrderId : Cancel(id)
      BY <1>2, <2>5, CancelWithdraws DEF Priority!PriceTimeNext
    <2>6. QED
      BY <1>2, <2>1, <2>2, <2>3, <2>4, <2>5 DEF Next
  <1>3. QED
    BY <1>1, <1>2, MatchInvariant, PTL DEF Spec, PriceTimePriority, Priority!PriceTimeSpec
=============================================================================
