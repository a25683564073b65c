--------------------------- MODULE VerifierProofs ---------------------------
(***************************************************************************)
(* What holds of the two halves of verify_day: of the Python book it       *)
(* rebuilds (HorizonBook), for every range of prices, every set of         *)
(* quantities and every sequence of snapshots and updates, and of the      *)
(* streams it brings together (Verification), for every number of          *)
(* recorders, of ids and of events and whatever the files hold.            *)
(***************************************************************************)
EXTENDS HorizonBook, Verification, FiniteSetTheorems, WellFoundedInduction, TLAPS

-----------------------------------------------------------------------------
(* A set of natural numbers has a least one.                                *)
LEMMA LeastNatural ==
    ASSUME NEW S \in SUBSET Nat, S # {}
    PROVE  \E x \in S : \A y \in S : x <= y
  <1> DEFINE R == {z \in Nat \X Nat : z[1] < z[2]}
  <1>1. IsWellFoundedOn(R, Nat)
    BY NatLessThanWellFounded DEF OpToRel
  <1>2. \A x, y \in Nat : <<y, x>> \in R <=> y < x
    OBVIOUS
  <1> HIDE DEF R
  <1>3. PICK x \in S : \A y \in S : ~(<<y, x>> \in R)
    BY <1>1, WFMin
  <1>4. \A y \in S : y \in Nat /\ x \in Nat
    OBVIOUS
  <1>5. \A y \in S : ~(y < x)
    BY <1>2, <1>3, <1>4
  <1>6. QED
    BY <1>4, <1>5

-----------------------------------------------------------------------------
(* Sets of prices have a lowest and a highest price.                        *)
LEMMA Extremes ==
    ASSUME NEW S \in SUBSET Price, S # {}
    PROVE  /\ Lowest(S) \in S /\ \A q \in S : Lowest(S) <= q
           /\ Highest(S) \in S /\ \A q \in S : Highest(S) >= q
  <1>1. S \subseteq Nat
    BY PriceAssumption DEF Price
  <1>2. \E x \in S : \A y \in S : x <= y
    BY <1>1, LeastNatural
  <1>3. \E x \in S : \A y \in S : x >= y
    <2> DEFINE T == {MaxPrice - x : x \in S}
    <2>1. T \in SUBSET Nat /\ T # {}
      <3>1. ASSUME NEW x \in S PROVE MaxPrice - x \in Nat
        BY PriceAssumption DEF Price
      <3>2. QED
        BY <3>1
    <2>2. PICK t \in T : \A u \in T : t <= u
      BY <2>1, LeastNatural
    <2>3. PICK x \in S : t = MaxPrice - x
      OBVIOUS
    <2>4. \A y \in S : MaxPrice - x <= MaxPrice - y
      BY <2>2, <2>3
    <2>5. QED
      BY <1>1, <2>3, <2>4, PriceAssumption
  <1>4. QED
    BY <1>2, <1>3 DEF Lowest, Highest

-----------------------------------------------------------------------------
(* The maps from prices to quantities a side can hold.                      *)
PriceMap == UNION {[S -> Quantity] : S \in SUBSET Price}

Without(f, price) == [p \in DOMAIN f \ {price} |-> f[p]]

LEMMA PriceMaps ==
    ASSUME NEW f \in PriceMap
    PROVE  /\ f \in [DOMAIN f -> Quantity] /\ DOMAIN f \in SUBSET Price
           /\ f = [p \in DOMAIN f |-> f[p]]
  <1>1. PICK S \in SUBSET Price : f \in [S -> Quantity]
    BY DEF PriceMap
  <1>2. QED
    BY <1>1

LEMMA IsPriceMap ==
    ASSUME NEW S \in SUBSET Price, NEW f \in [S -> Quantity]
    PROVE  f \in PriceMap
  BY DEF PriceMap

LEMMA WithMap ==
    ASSUME NEW f \in PriceMap, NEW price \in Price, NEW quantity \in Quantity
    PROVE  /\ With(f, price, quantity) \in PriceMap
           /\ DOMAIN With(f, price, quantity) = DOMAIN f \cup {price}
  <1>1. f \in [DOMAIN f -> Quantity] /\ DOMAIN f \in SUBSET Price
    BY PriceMaps
  <1>2. DOMAIN f \cup {price} \in SUBSET Price
    BY <1>1
  <1>3. With(f, price, quantity) \in [DOMAIN f \cup {price} -> Quantity]
    BY <1>1 DEF With
  <1>4. QED
    BY <1>2, <1>3, IsPriceMap

LEMMA WithoutMap ==
    ASSUME NEW f \in PriceMap, NEW price
    PROVE  /\ Without(f, price) \in PriceMap
           /\ DOMAIN Without(f, price) = DOMAIN f \ {price}
           /\ price \notin DOMAIN f => Without(f, price) = f
  <1>1. /\ f \in [DOMAIN f -> Quantity] /\ DOMAIN f \in SUBSET Price
        /\ f = [p \in DOMAIN f |-> f[p]]
    BY PriceMaps
  <1>2. DOMAIN f \ {price} \in SUBSET Price
    BY <1>1
  <1>3. Without(f, price) \in [DOMAIN f \ {price} -> Quantity]
    BY <1>1 DEF Without
  <1>4. ASSUME price \notin DOMAIN f
        PROVE  Without(f, price) = f
    <2>1. DOMAIN f \ {price} = DOMAIN f
      BY <1>4
    <2>2. QED
      BY <1>1, <2>1 DEF Without
  <1>5. QED
    BY <1>2, <1>3, <1>4, IsPriceMap

LEMMA EmptyMap == <<>> \in PriceMap /\ DOMAIN <<>> = {}
  <1>1. <<>> \in [{} -> Quantity]
    OBVIOUS
  <1>2. QED
    BY <1>1 DEF PriceMap

LEMMA PricesAreFinite == \A S \in SUBSET Price : IsFiniteSet(S) /\ Cardinality(S) \in Nat
  <1>1. IsFiniteSet(Price)
    BY FS_Interval, PriceAssumption DEF Price
  <1>2. QED
    BY <1>1, FS_Subset, FS_CardinalityType

(* The levels of a side that are inside its horizon.                        *)
InsideLevels(side) == {p \in DOMAIN levels[side] : Inside(side, p)}

BookTypes ==
    /\ phase \in {NoBookYet, Ready} \cup Reading
    /\ lastId \in Nat /\ nextId \in Nat
    /\ levels \in [Side -> PriceMap]
    /\ boundary \in [Side -> 0 .. MaxPrice]
    /\ heap \in [Side -> SUBSET Price]
    /\ trusted \in [Side -> Nat]

(* A held price is in the heap, so that a reader who pops what is no longer *)
(* held stops at the best level.                                            *)
HeldInv == HasBook => \A side \in Side : DOMAIN levels[side] \subseteq heap[side]

HorizonInv == BookTypes /\ HeldInv /\ TrustCounted

LEMMA Phases ==
    /\ NoBookYet # Ready /\ NoBookYet \notin Reading /\ Ready \notin Reading
    /\ \A side \in Side, other \in Side :
           /\ Task("apply", side) \in Reading /\ Task("load", side) \in Reading
           /\ Task("apply", side) # Task("load", other)
           /\ Task("apply", side) = Task("apply", other) => side = other
           /\ Task("load", side) = Task("load", other) => side = other
           /\ Task("apply", side).side = side /\ Task("load", side).side = side
           /\ [Task("apply", side) EXCEPT !.side = other] = Task("apply", other)
           /\ [Task("load", side) EXCEPT !.side = other] = Task("load", other)
    /\ Side = {"bid", "ask"}
  BY DEF NoBookYet, Ready, Reading, Task, Side

LEMMA HorizonInit == Init => HorizonInv
  BY EmptyMap, PriceAssumption, Phases DEF Init, HorizonInv, BookTypes, HeldInv, TrustCounted, HasBook

LEMMA RaiseKeeps == Raise => HorizonInv'
  BY EmptyMap, PriceAssumption, Phases DEF Raise, Cleared, HorizonInv, BookTypes, HeldInv, TrustCounted, HasBook

(* Setting and removing a level keep the count.                             *)
LEMMA SetCounts ==
    ASSUME HorizonInv, NEW side \in Side, NEW price \in Price, NEW quantity \in Quantity,
           SetLevel(side, price, quantity)
    PROVE  trusted'[side] = Cardinality(InsideLevels(side)')
  <1> DEFINE was == InsideLevels(side)
             now == InsideLevels(side)'
  <1>1. DOMAIN levels'[side] = DOMAIN levels[side] \cup {price}
    <2>1. levels[side] \in PriceMap /\ levels'[side] = With(levels[side], price, quantity)
      BY DEF SetLevel, HorizonInv, BookTypes
    <2>2. QED
      BY <2>1, WithMap
  <1>2. trusted[side] = Cardinality(was) /\ was \in SUBSET Price
    BY PriceMaps DEF SetLevel, HorizonInv, BookTypes, TrustCounted, HasBook, InsideLevels
  <1>3. boundary' = boundary
    BY DEF SetLevel
  <1>4. trusted'[side] = trusted[side] + Counted(side, price, price \in DOMAIN levels[side])
    BY DEF SetLevel, HorizonInv, BookTypes
  <1>5. IsFiniteSet(was) /\ Cardinality(was) \in Nat
    BY <1>2, PricesAreFinite
  <1>6. CASE Inside(side, price) /\ price \notin DOMAIN levels[side]
    <2>1. now = was \cup {price} /\ price \notin was
      BY <1>1, <1>3, <1>6 DEF InsideLevels, Inside
    <2>2. Cardinality(now) = Cardinality(was) + 1
      BY <1>5, <2>1, FS_AddElement
    <2>3. QED
      BY <1>2, <1>4, <1>6, <2>2 DEF Counted
  <1>7. CASE ~(Inside(side, price) /\ price \notin DOMAIN levels[side])
    <2>1. now = was
      BY <1>1, <1>3, <1>7 DEF InsideLevels, Inside
    <2>2. Counted(side, price, price \in DOMAIN levels[side]) = 0
      BY <1>7 DEF Counted
    <2>3. QED
      BY <1>2, <1>4, <1>5, <2>1, <2>2
  <1>8. QED
    BY <1>6, <1>7

LEMMA RemoveCounts ==
    ASSUME HorizonInv, NEW side \in Side, NEW price \in Price,
           RemoveLevel(side, price), price \in DOMAIN levels[side]
    PROVE  /\ trusted'[side] \in Nat
           /\ trusted'[side] = Cardinality(InsideLevels(side)')
  <1> DEFINE was == InsideLevels(side)
             now == InsideLevels(side)'
  <1>1. DOMAIN levels'[side] = DOMAIN levels[side] \ {price}
    BY DEF RemoveLevel, HorizonInv, BookTypes
  <1>2. trusted[side] = Cardinality(was) /\ was \in SUBSET Price
    BY PriceMaps DEF RemoveLevel, HorizonInv, BookTypes, TrustCounted, HasBook, InsideLevels
  <1>3. boundary' = boundary /\ now \in SUBSET Price
    BY <1>1, <1>2 DEF RemoveLevel, InsideLevels, Inside
  <1>4. trusted'[side] = trusted[side] - Removed(side, price)
    BY DEF RemoveLevel, HorizonInv, BookTypes
  <1>5. IsFiniteSet(was) /\ Cardinality(was) \in Nat /\ Cardinality(now) \in Nat
    BY <1>2, <1>3, PricesAreFinite
  <1>6. CASE Inside(side, price)
    <2>1. now = was \ {price} /\ price \in was
      BY <1>1, <1>3, <1>6 DEF InsideLevels, Inside
    <2>2. Cardinality(now) = Cardinality(was) - 1
      BY <1>5, <2>1, FS_RemoveElement
    <2>3. QED
      BY <1>2, <1>4, <1>5, <1>6, <2>2 DEF Removed
  <1>7. CASE ~Inside(side, price)
    <2>1. now = was
      BY <1>1, <1>3, <1>7 DEF InsideLevels, Inside
    <2>2. QED
      BY <1>2, <1>4, <1>5, <1>7, <2>1 DEF Removed
  <1>8. QED
    BY <1>6, <1>7

(* A trusted side has a level inside its horizon.                           *)
LEMMA TrustedSide ==
    ASSUME HorizonInv, HasBook, NEW side \in Side
    PROVE  /\ InsideLevels(side) \in SUBSET Price
           /\ trusted[side] = Cardinality(InsideLevels(side))
           /\ trusted[side] > 0 <=> \E p \in DOMAIN levels[side] : Inside(side, p)
  <1>1. InsideLevels(side) \in SUBSET Price
    BY PriceMaps DEF HorizonInv, BookTypes, InsideLevels
  <1>2. trusted[side] = Cardinality(InsideLevels(side))
    BY DEF HorizonInv, TrustCounted, InsideLevels
  <1>3. Cardinality(InsideLevels(side)) = 0 <=> InsideLevels(side) = {}
    BY <1>1, PricesAreFinite, FS_EmptySet
  <1>4. trusted[side] > 0 <=> InsideLevels(side) # {}
    BY <1>1, <1>2, <1>3, PricesAreFinite
  <1>5. QED
    BY <1>1, <1>2, <1>4 DEF InsideLevels

(* What a reader leaves in the heap: all the levels, and the best on top.   *)
LEMMA ReadersPop ==
    ASSUME HorizonInv, HasBook, NEW side \in Side, trusted[side] > 0
    PROVE  /\ DOMAIN levels[side] \in SUBSET Price /\ DOMAIN levels[side] # {}
           /\ DOMAIN levels[side] \subseteq Popped(side) /\ Popped(side) \in SUBSET Price
           /\ side = "bid" => Highest(Popped(side)) = Highest(DOMAIN levels[side])
           /\ side = "ask" => Lowest(Popped(side)) = Lowest(DOMAIN levels[side])
  <1> DEFINE D == DOMAIN levels[side]
             P == Popped(side)
  <1>1. D \in SUBSET Price /\ D # {} /\ heap[side] \in SUBSET Price /\ D \subseteq heap[side]
    BY PriceMaps, TrustedSide DEF HorizonInv, BookTypes, HeldInv
  <1>2. heap[side] \cap D = D
    BY <1>1
  <1>3. P = {p \in heap[side] : IF side = "bid" THEN p <= Highest(D) ELSE p >= Lowest(D)}
    BY <1>1, <1>2 DEF Popped
  <1> HIDE DEF D, P
  <1>4. /\ Highest(D) \in D /\ \A q \in D : Highest(D) >= q
        /\ Lowest(D) \in D /\ \A q \in D : Lowest(D) <= q
    BY <1>1, Extremes
  <1>5. D \subseteq P /\ P \in SUBSET Price /\ P # {}
    BY <1>1, <1>3, <1>4
  <1>6. /\ Highest(P) \in P /\ \A q \in P : Highest(P) >= q
        /\ Lowest(P) \in P /\ \A q \in P : Lowest(P) <= q
    BY <1>5, Extremes
  <1>7. /\ Highest(P) \in Int /\ Highest(D) \in Int
        /\ Lowest(P) \in Int /\ Lowest(D) \in Int
    <2>1. Price \subseteq Int
      BY PriceAssumption DEF Price
    <2>2. /\ Highest(P) \in Price /\ Highest(D) \in Price
          /\ Lowest(P) \in Price /\ Lowest(D) \in Price
      BY <1>1, <1>4, <1>5, <1>6
    <2>3. QED
      BY <2>1, <2>2
  <1>8. side = "bid" => Highest(P) = Highest(D)
    <2>1. side = "bid" => Highest(P) <= Highest(D) /\ Highest(P) >= Highest(D)
      BY <1>3, <1>4, <1>5, <1>6
    <2>2. QED
      BY <1>7, <2>1
  <1>9. side = "ask" => Lowest(P) = Lowest(D)
    <2>1. side = "ask" => Lowest(P) >= Lowest(D) /\ Lowest(P) <= Lowest(D)
      BY <1>3, <1>4, <1>5, <1>6, Phases
    <2>2. QED
      BY <1>7, <2>1
  <1>10. QED
    BY <1>1, <1>5, <1>8, <1>9 DEF D, P

LEMMA HorizonStep == HorizonInv /\ [Next]_vars => HorizonInv'
  <1> SUFFICES ASSUME HorizonInv, [Next]_vars PROVE HorizonInv'
    OBVIOUS
  <1> USE DEF HorizonInv
  <1>1. ASSUME NEW id \in 0 .. MaxId, Construct(id) PROVE HorizonInv'
    BY <1>1, EmptyMap, Phases, PriceAssumption
       DEF Construct, BookTypes, HeldInv, TrustCounted, HasBook
  <1>2. ASSUME NEW first \in 0 .. MaxId, NEW final \in 0 .. MaxId, Apply(first, final)
        PROVE  HorizonInv'
    <2>1. CASE Raise
      BY <2>1, RaiseKeeps
    <2>2. CASE /\ phase = Ready /\ phase' = Task("apply", "bid") /\ nextId' = final
               /\ UNCHANGED <<lastId, boundary, removal, levels, heap, trusted>>
      <3>1. HasBook /\ nextId' \in Nat
        BY <1>2, <2>2, MaxIdAssumption DEF HasBook
      <3>2. BookTypes'
        BY <2>2, <3>1, Phases DEF BookTypes
      <3>3. HeldInv' /\ TrustCounted'
        BY <2>2, <3>1 DEF HeldInv, TrustCounted, Inside
      <3>4. QED
        BY <3>2, <3>3
    <2>3. QED
      BY <1>2, <2>1, <2>2 DEF Apply
  <1>3. ASSUME NEW side \in Side, NEW price \in Price, NEW quantity \in Quantity,
               LoadLevel(side, price, quantity)
        PROVE  HorizonInv'
    <2>1. levels[side] \in PriceMap
      BY DEF BookTypes
    <2>2. With(levels[side], price, quantity) \in PriceMap
      BY <2>1, WithMap
    <2>3. BookTypes' /\ ~HasBook'
      BY <1>3, <2>2, Phases DEF LoadLevel, BookTypes, HasBook
    <2>4. QED
      BY <2>3 DEF HeldInv, TrustCounted
  <1>4. ASSUME NEW side \in Side, NEW price \in Price, NEW quantity \in Quantity,
               SetLevel(side, price, quantity)
        PROVE  HorizonInv'
    <2>1. levels[side] \in PriceMap /\ HasBook
      BY <1>4 DEF BookTypes, SetLevel, HasBook
    <2>2. /\ With(levels[side], price, quantity) \in PriceMap
          /\ DOMAIN With(levels[side], price, quantity) = DOMAIN levels[side] \cup {price}
      BY <2>1, WithMap
    <2>3. Counted(side, price, price \in DOMAIN levels[side]) \in Nat
      BY DEF Counted
    <2>4. BookTypes'
      BY <1>4, <2>2, <2>3 DEF SetLevel, BookTypes, Pushed
    <2>5. HeldInv'
      BY <1>4, <2>1, <2>2 DEF SetLevel, BookTypes, HeldInv, Pushed
    <2>6. \A other \in Side : trusted'[other] = Cardinality(InsideLevels(other)')
      <3>1. trusted'[side] = Cardinality(InsideLevels(side)')
        BY <1>4, SetCounts
      <3>2. ASSUME NEW other \in Side \ {side}
            PROVE  trusted'[other] = trusted[other] /\ InsideLevels(other)' = InsideLevels(other)
        BY <1>4 DEF SetLevel, BookTypes, InsideLevels, Inside
      <3>3. QED
        BY <2>1, <3>1, <3>2, TrustedSide
    <2>7. TrustCounted'
      BY <2>6 DEF TrustCounted, InsideLevels
    <2>8. QED
      BY <2>4, <2>5, <2>7
  <1>5. ASSUME NEW side \in Side, NEW price \in Price, RemoveLevel(side, price)
        PROVE  HorizonInv'
    <2>1. levels[side] \in PriceMap /\ HasBook
      BY <1>5 DEF BookTypes, RemoveLevel, HasBook
    <2>2. CASE price \notin DOMAIN levels[side]
      BY <1>5, <2>1, <2>2 DEF RemoveLevel, BookTypes, HeldInv, TrustCounted, Inside
    <2>3. CASE price \in DOMAIN levels[side]
      <3>1. /\ levels' = [levels EXCEPT ![side] = Without(levels[side], price)]
            /\ trusted'[side] \in Nat /\ trusted'[side] = Cardinality(InsideLevels(side)')
            /\ trusted' = [trusted EXCEPT ![side] = @ - Removed(side, price)]
            /\ UNCHANGED <<phase, lastId, nextId, boundary, heap>>
        BY <1>5, <2>3, RemoveCounts DEF RemoveLevel, Without
      <3>2. /\ Without(levels[side], price) \in PriceMap
            /\ DOMAIN Without(levels[side], price) = DOMAIN levels[side] \ {price}
        BY <2>1, WithoutMap
      <3>3. BookTypes' /\ HeldInv'
        BY <2>1, <3>1, <3>2 DEF BookTypes, HeldInv
      <3>4. ASSUME NEW other \in Side \ {side}
            PROVE  trusted'[other] = trusted[other] /\ InsideLevels(other)' = InsideLevels(other)
        BY <3>1 DEF BookTypes, InsideLevels, Inside
      <3>5. TrustCounted'
        BY <2>1, <3>1, <3>4, TrustedSide DEF TrustCounted, InsideLevels
      <3>6. QED
        BY <3>3, <3>5
    <2>4. QED
      BY <2>2, <2>3
  <1>6. CASE OtherSide
    <2>1. /\ phase' \in Reading
          /\ HasBook' => HasBook
      BY <1>6, Phases DEF OtherSide, Reading, HasBook
    <2>2. QED
      BY <1>6, <2>1 DEF OtherSide, BookTypes, HeldInv, TrustCounted, Inside
  <1>7. CASE Constructed
    <2> DEFINE D(side) == DOMAIN levels[side]
    <2>1. \A side \in Side : D(side) \in SUBSET Price /\ D(side) # {}
      BY <1>7, PriceMaps DEF Constructed, BookTypes
    <2>2. \A side \in Side : /\ Lowest(D(side)) \in D(side) /\ Highest(D(side)) \in D(side)
                             /\ \A q \in D(side) : Lowest(D(side)) <= q /\ q <= Highest(D(side))
      BY <2>1, Extremes, PriceAssumption DEF Price
    <2>3. \A side \in Side : D(side) = InsideLevels(side)'
      BY <1>7, <2>2, Phases DEF Constructed, InsideLevels, Inside
    <2>4. boundary' \in [Side -> 0 .. MaxPrice]
      <3>1. Lowest(D("bid")) \in 0 .. MaxPrice /\ Highest(D("ask")) \in 0 .. MaxPrice
        BY <2>1, <2>2, Phases DEF Price
      <3>2. QED
        BY <1>7, <3>1, Phases DEF Constructed
    <2>5. \A side \in Side : Cardinality(D(side)) \in Nat
      BY <2>1, PricesAreFinite
    <2>6. BookTypes' /\ HeldInv'
      BY <1>7, <2>1, <2>4, <2>5 DEF Constructed, BookTypes, HeldInv
    <2>7. TrustCounted'
      BY <1>7, <2>3 DEF Constructed, TrustCounted, InsideLevels
    <2>8. QED
      BY <2>6, <2>7
  <1>8. CASE OneSideMissing \/ InvalidLevel
    BY <1>8, RaiseKeeps DEF OneSideMissing, InvalidLevel
  <1>9. CASE FinishApply
    <2>1. HasBook
      BY <1>9, Phases DEF FinishApply, HasBook
    <2>2. CASE TopTrusted
      <3>1. CASE Raise
        BY <3>1, RaiseKeeps
      <3>2. CASE ~Raise
        <4>1. /\ heap' = [side \in Side |-> Popped(side)]
              /\ phase' = Ready /\ lastId' = nextId /\ nextId' = 0
              /\ UNCHANGED <<boundary, levels, trusted>>
          BY <1>9, <2>2, <3>2 DEF FinishApply
        <4>2. \A side \in Side : Popped(side) \in SUBSET Price
                                 /\ DOMAIN levels[side] \subseteq Popped(side)
          BY <2>1, <2>2, ReadersPop DEF TopTrusted
        <4>3. QED
          BY <2>1, <4>1, <4>2 DEF BookTypes, HeldInv, TrustCounted, Inside
      <3>3. QED
        BY <3>1, <3>2
    <2>3. CASE ~TopTrusted
      BY <1>9, <2>1, <2>3 DEF FinishApply, BookTypes, HeldInv, TrustCounted, Inside
    <2>4. QED
      BY <2>2, <2>3
  <1>10. ASSUME NEW side \in Side, ReadBest(side)
         PROVE  HorizonInv'
    <2>1. HasBook /\ Popped(side) \in SUBSET Price /\ DOMAIN levels[side] \subseteq Popped(side)
      BY <1>10, ReadersPop DEF ReadBest, HasBook
    <2>2. QED
      BY <1>10, <2>1 DEF ReadBest, BookTypes, HeldInv, TrustCounted, HasBook, Inside
  <1>11. CASE UNCHANGED vars
    BY <1>11 DEF vars, BookTypes, HeldInv, TrustCounted, HasBook, Inside
  <1>12. QED
    BY <1>1, <1>2, <1>3, <1>4, <1>5, <1>6, <1>7, <1>8, <1>9, <1>10, <1>11 DEF Next

(* The invariant behind the counters and the heaps of HorizonBook.          *)
THEOREM HorizonInvariant == Spec => []HorizonInv
  <1>1. Init => HorizonInv
    BY HorizonInit
  <1>2. HorizonInv /\ [Next]_vars => HorizonInv'
    BY HorizonStep
  <1>3. QED
    BY <1>1, <1>2, PTL DEF Spec

(* At every level of every update the running counts are the numbers of     *)
(* levels inside the horizon (HorizonBook._set_level and _remove_level).    *)
THEOREM CountsAreTrue == Spec => []TrustCounted
  <1>1. HorizonInv => TrustCounted
    BY DEF HorizonInv
  <1>2. QED
    BY <1>1, HorizonInvariant, PTL

-----------------------------------------------------------------------------
(* The Python book decides as the C++ book.                                 *)
LEMMA MapExtremes ==
    ASSUME HorizonInv, \A side \in Side : DOMAIN levels[side] # {}
    PROVE  /\ Maps!Outermost("bid") = Lowest(DOMAIN levels["bid"])
           /\ Maps!Outermost("ask") = Highest(DOMAIN levels["ask"])
           /\ Maps!Best("bid") = Highest(DOMAIN levels["bid"])
           /\ Maps!Best("ask") = Lowest(DOMAIN levels["ask"])
  <1>1. ASSUME NEW side \in Side
        PROVE  LET D == DOMAIN levels[side] IN
               /\ D \in SUBSET Int /\ D \in SUBSET Price /\ D # {}
    BY PriceMaps, PriceAssumption DEF HorizonInv, BookTypes, Price
  <1> DEFINE B == DOMAIN levels["bid"]
             A == DOMAIN levels["ask"]
  <1>2. /\ B \in SUBSET Int /\ B \in SUBSET Price /\ B # {}
        /\ A \in SUBSET Int /\ A \in SUBSET Price /\ A # {}
    BY <1>1, Phases
  <1>3. /\ Maps!Outermost("bid") = CHOOSE p \in B : \A q \in B : q >= p
        /\ Maps!Outermost("ask") = CHOOSE p \in A : \A q \in A : q <= p
        /\ Maps!Best("bid") = CHOOSE p \in B : \A q \in B : p >= q
        /\ Maps!Best("ask") = CHOOSE p \in A : \A q \in A : p <= q
    BY DEF Maps!Outermost, Maps!Best, Maps!Reaches
  <1> HIDE DEF A, B
  <1>4. /\ Lowest(B) \in B /\ \A q \in B : Lowest(B) <= q
        /\ Highest(A) \in A /\ \A q \in A : Highest(A) >= q
    BY <1>2, Extremes
  <1>5. Maps!Outermost("bid") = Lowest(B)
    <2>1. \A q \in B : q >= Lowest(B)
      BY <1>2, <1>4
    <2>2. PICK p \in B : p = Maps!Outermost("bid") /\ \A q \in B : q >= p
      BY <1>3, <1>4, <2>1
    <2>3. p <= Lowest(B) /\ Lowest(B) <= p
      BY <1>2, <1>4, <2>2
    <2>4. p \in Int /\ Lowest(B) \in Int
      BY <1>2, <1>4
    <2>5. QED
      BY <2>2, <2>3, <2>4
  <1>6. Maps!Outermost("ask") = Highest(A)
    <2>1. \A q \in A : q <= Highest(A)
      BY <1>2, <1>4
    <2>2. PICK p \in A : p = Maps!Outermost("ask") /\ \A q \in A : q <= p
      BY <1>3, <1>4, <2>1
    <2>3. p <= Highest(A) /\ Highest(A) <= p
      BY <1>2, <1>4, <2>2
    <2>4. p \in Int /\ Highest(A) \in Int
      BY <1>2, <1>4
    <2>5. QED
      BY <2>2, <2>3, <2>4
  <1>7. Maps!Best("bid") = Highest(B) /\ Maps!Best("ask") = Lowest(A)
    BY <1>3 DEF Highest, Lowest
  <1>8. QED
    BY <1>5, <1>6, <1>7 DEF A, B

LEMMA MapsTrust ==
    ASSUME HorizonInv, HasBook, NEW side \in Side
    PROVE  Maps!Trusted(side) <=> trusted[side] > 0
  <1>1. \A p : Maps!Reaches(side, p, boundary[side]) <=> Inside(side, p)
    BY DEF Maps!Reaches, Inside
  <1>2. QED
    BY <1>1, TrustedSide DEF Maps!Trusted

(* What ends an update, in both books.                                      *)
LEMMA SameCrossing ==
    ASSUME HorizonInv, FinishApply
    PROVE  Maps!Crossed <=> /\ TopTrusted
                            /\ Crossing(Highest(Popped("bid")), Lowest(Popped("ask")))
  <1>1. HasBook
    BY Phases DEF FinishApply, HasBook
  <1>2. (\A side \in Side : Maps!Trusted(side)) <=> TopTrusted
    BY <1>1, MapsTrust DEF TopTrusted
  <1>3. ASSUME TopTrusted
        PROVE  /\ Maps!Best("bid") = Highest(Popped("bid"))
               /\ Maps!Best("ask") = Lowest(Popped("ask"))
    <2>1. \A side \in Side : trusted[side] > 0
      BY <1>3 DEF TopTrusted
    <2>2. \A side \in Side : DOMAIN levels[side] # {}
      BY <1>1, <2>1, ReadersPop
    <2>3. /\ Highest(Popped("bid")) = Highest(DOMAIN levels["bid"])
          /\ Lowest(Popped("ask")) = Lowest(DOMAIN levels["ask"])
      BY <1>1, <2>1, ReadersPop, Phases
    <2>4. QED
      BY <2>2, <2>3, MapExtremes
  <1>4. Maps!Side = Side
    BY DEF Maps!Side, Side
  <1>5. QED
    BY <1>2, <1>3, <1>4 DEF Maps!Crossed, Crossing

LEMMA SameNames ==
    /\ Maps!Side = Side /\ Maps!Price = Price
    /\ Maps!NoBookYet = NoBookYet /\ Maps!Ready = Ready
    /\ \A side \in Side : /\ Maps!Loading(side) = Task("load", side)
                          /\ Maps!Applying(side) = Task("apply", side)
    /\ Maps!Reading = Reading
    /\ Cleared /\ phase' = NoBookYet => Maps!NoBook
  <1>1. Maps!Reading = Reading
    BY DEF Maps!Reading, Reading, Maps!Loading, Maps!Applying, Maps!Side, Task, Side
  <1>2. QED
    BY <1>1 DEF Maps!Side, Side, Maps!Price, Price, Maps!NoBookYet, NoBookYet, Maps!Ready, Ready,
       Maps!Loading, Maps!Applying, Task, Maps!NoBook, Cleared

LEMMA MapsStep ==
    HorizonInv /\ [Next]_vars => [Maps!BookNext]_(Maps!bookVars)
  <1> SUFFICES ASSUME HorizonInv, [Next]_vars PROVE [Maps!BookNext]_(Maps!bookVars)
    OBVIOUS
  <1> USE SameNames, Phases
  <1>1. ASSUME NEW id \in 0 .. MaxId, Construct(id) PROVE Maps!BookNext
    <2>1. Maps!Load(id)
      BY <1>1 DEF Construct, Maps!Load
    <2>2. QED
      BY <2>1 DEF Maps!BookNext
  <1>2. ASSUME NEW first \in 0 .. MaxId, NEW final \in 0 .. MaxId, Apply(first, final)
        PROVE  Maps!BookNext
    <2>1. first \in Int /\ lastId \in Int
      BY MaxIdAssumption DEF HorizonInv, BookTypes
    <2>2. Maps!Apply(first, final) \/ Maps!SequenceGap(first, final)
      BY <1>2, <2>1 DEF Apply, Raise, Maps!Apply, Maps!SequenceGap
    <2>3. QED
      BY <2>2 DEF Maps!BookNext
  <1>3. ASSUME NEW side \in Side, NEW price \in Price, NEW quantity \in Quantity,
               LoadLevel(side, price, quantity) \/ SetLevel(side, price, quantity)
        PROVE  Maps!BookNext
    <2>1. Maps!LoadLevel(side, price, quantity) \/ Maps!SetLevel(side, price, quantity)
      BY <1>3 DEF LoadLevel, SetLevel, With, Maps!LoadLevel, Maps!SetLevel, Maps!Put
    <2>2. QED
      BY <2>1 DEF Maps!BookNext
  <1>4. ASSUME NEW side \in Side, NEW price \in Price, RemoveLevel(side, price)
        PROVE  Maps!BookNext
    <2>1. Inside(side, price) <=> Maps!Reaches(side, price, boundary[side])
      BY DEF Inside, Maps!Reaches
    <2>2. Maps!Drop(side, price)
      <3>1. levels[side] \in PriceMap /\ levels \in [Side -> PriceMap]
        BY DEF HorizonInv, BookTypes
      <3>2. CASE price \in DOMAIN levels[side]
        BY <1>4, <3>2 DEF RemoveLevel, Maps!Drop
      <3>3. CASE price \notin DOMAIN levels[side]
        <4>1. Without(levels[side], price) = levels[side] /\ levels' = levels
          BY <1>4, <3>1, <3>3, WithoutMap DEF RemoveLevel
        <4>2. levels' = [levels EXCEPT ![side] = Without(levels[side], price)]
          BY <3>1, <4>1
        <4>3. QED
          BY <4>2 DEF Without, Maps!Drop
      <3>4. QED
        BY <3>2, <3>3
    <2>3. Maps!RemoveLevel(side, price)
      BY <1>4, <2>1, <2>2 DEF RemoveLevel, Maps!RemoveLevel
    <2>4. QED
      BY <2>3 DEF Maps!BookNext
  <1>5. CASE OtherSide
    <2>1. Maps!ThenAsks
      BY <1>5 DEF OtherSide, Maps!ThenAsks
    <2>2. QED
      BY <2>1 DEF Maps!BookNext
  <1>6. CASE Constructed
    <2>1. boundary' = [side \in Side |-> Maps!Outermost(side)]
      BY <1>6, MapExtremes DEF Constructed
    <2>2. Maps!Loaded
      BY <1>6, <2>1 DEF Constructed, Maps!Loaded
    <2>3. QED
      BY <2>2 DEF Maps!BookNext
  <1>7. CASE OneSideMissing
    <2>1. Maps!OneSided
      BY <1>7 DEF OneSideMissing, Raise, Maps!OneSided
    <2>2. QED
      BY <2>1 DEF Maps!BookNext
  <1>8. CASE InvalidLevel
    <2>1. Maps!BadLevel
      BY <1>8 DEF InvalidLevel, Raise, Maps!BadLevel
    <2>2. QED
      BY <2>1 DEF Maps!BookNext
  <1>9. CASE FinishApply
    <2>1. CASE Maps!Crossed
      <3>1. Raise /\ phase = Task("apply", "ask")
        BY <1>9, <2>1, SameCrossing DEF FinishApply
      <3>2. Maps!CrossedBook
        BY <2>1, <3>1 DEF Raise, Maps!CrossedBook
      <3>3. QED
        BY <3>2 DEF Maps!BookNext
    <2>2. CASE ~Maps!Crossed
      <3>1. Maps!Applied
        BY <1>9, <2>2, SameCrossing DEF FinishApply, Maps!Applied
      <3>2. QED
        BY <3>1 DEF Maps!BookNext
    <2>3. QED
      BY <2>1, <2>2
  <1>10. ASSUME NEW side \in Side, ReadBest(side)
         PROVE  UNCHANGED Maps!bookVars
    BY <1>10 DEF ReadBest, Maps!bookVars
  <1>11. CASE UNCHANGED vars
    BY <1>11 DEF vars, Maps!bookVars
  <1>12. QED
    BY <1>1, <1>2, <1>3, <1>4, <1>5, <1>6, <1>7, <1>8, <1>9, <1>10, <1>11 DEF Next

(* The Python book implements the C++ book: with lazy heaps and counters it *)
(* decides every update (trusted, crossed, gap, how a removal counts) as    *)
(* the ordered maps do.                                                     *)
THEOREM BooksAgree == Spec => AsHistoricalBook
  <1>1. Init => Maps!BookInit
    BY SameNames DEF Init, Maps!BookInit
  <1>2. HorizonInv /\ [Next]_vars => [Maps!BookNext]_(Maps!bookVars)
    BY MapsStep
  <1>3. QED
    BY <1>1, <1>2, HorizonInvariant, PTL DEF Spec, AsHistoricalBook, Maps!BookSpec

-----------------------------------------------------------------------------
(* Induction and recursion over 0 .. m.  The library's theorems take an     *)
(* operator; these take the set of the numbers that a statement holds of,   *)
(* and the step of a recursion as a function.                               *)
LEMMA Counting ==
    ASSUME NEW m \in Nat, NEW S, 0 \in S,
           \A n \in 0 .. m : n < m /\ n \in S => n + 1 \in S
    PROVE  \A n \in 0 .. m : n \in S
  <1> DEFINE Wrong == {n \in 0 .. m : n \notin S}
  <1>1. SUFFICES ASSUME Wrong # {} PROVE FALSE
    OBVIOUS
  <1>2. Wrong \in SUBSET Nat
    OBVIOUS
  <1>3. PICK n \in Wrong : \A k \in Wrong : n <= k
    BY <1>1, <1>2, LeastNatural
  <1>4. n # 0 /\ n \in 0 .. m /\ n \notin S
    OBVIOUS
  <1>5. n - 1 \in 0 .. m /\ n - 1 < m
    BY <1>4
  <1>6. n - 1 \in S
    BY <1>3, <1>4, <1>5
  <1>7. n - 1 + 1 \in S
    BY <1>5, <1>6
  <1>8. QED
    BY <1>4, <1>7

StaysIn(T, m, step) == \A n \in 1 .. m, t \in T : step[n][t] \in T

Recurs(T, m, base, step) ==
    \E f \in [0 .. m -> T] : f[0] = base /\ \A n \in 1 .. m : f[n] = step[n][f[n - 1]]

(* A function that a step on T defines recursively exists.                  *)
LEMMA Recursion ==
    ASSUME NEW m \in Nat, NEW T, NEW base \in T, NEW step, StaysIn(T, m, step)
    PROVE  Recurs(T, m, base, step)
  <1> DEFINE Right(f, k) == f[0] = base /\ \A n \in 1 .. k : f[n] = step[n][f[n - 1]]
             S == {k \in 0 .. m : \E f \in [0 .. k -> T] : Right(f, k)}
  <1>1. 0 \in S
    <2>1. [n \in 0 .. 0 |-> base] \in [0 .. 0 -> T] /\ Right([n \in 0 .. 0 |-> base], 0)
      OBVIOUS
    <2> HIDE DEF Right
    <2>2. \E f \in [0 .. 0 -> T] : Right(f, 0)
      BY <2>1
    <2>3. QED
      BY <2>2
  <1>2. ASSUME NEW k \in 0 .. m, k < m, k \in S PROVE k + 1 \in S
    <2>1. PICK f \in [0 .. k -> T] : Right(f, k)
      BY <1>2
    <2> DEFINE g == [n \in 0 .. k + 1 |-> IF n = k + 1 THEN step[k + 1][f[k]] ELSE f[n]]
    <2>2. k + 1 \in 1 .. m /\ f[k] \in T /\ step[k + 1][f[k]] \in T
      BY <1>2 DEF StaysIn
    <2>3. g \in [0 .. k + 1 -> T]
      BY <2>2
    <2>4. g[0] = base
      BY <2>1, <1>2
    <2>5. ASSUME NEW n \in 1 .. k + 1 PROVE g[n] = step[n][g[n - 1]]
      <3>1. n \in 0 .. k + 1 /\ n - 1 \in 0 .. k /\ n - 1 # k + 1 /\ n - 1 \in 0 .. k + 1
        BY <1>2
      <3>2. g[n - 1] = f[n - 1]
        BY <3>1
      <3>3. CASE n = k + 1
        BY <3>1, <3>2, <3>3
      <3>4. CASE n # k + 1
        <4>1. n \in 1 .. k
          BY <3>4, <1>2
        <4>2. QED
          BY <2>1, <3>1, <3>2, <3>4, <4>1
      <3>5. QED
        BY <3>3, <3>4
    <2>6. Right(g, k + 1)
      BY <2>4, <2>5
    <2> HIDE DEF Right, g
    <2>7. \E h \in [0 .. k + 1 -> T] : Right(h, k + 1)
      BY <2>3, <2>6
    <2>8. QED
      BY <2>2, <2>7
  <1>3. m \in S
    <2> HIDE DEF S
    <2>1. \A k \in 0 .. m : k \in S
      BY <1>1, <1>2, Counting
    <2>2. QED
      BY <2>1
  <1>4. QED
    BY <1>3 DEF Recurs

-----------------------------------------------------------------------------
(* Intervals of update ids.                                                 *)
LEMMA Intervals ==
    ASSUME NEW i \in Interval
    PROVE  /\ i[1] \in Nat /\ i[2] \in Nat /\ 1 <= i[1] /\ i[1] <= i[2] /\ i[2] <= NumIds
           /\ i = <<i[1], i[2]>>
  BY VerificationAssumption DEF Interval, Id

(* Two ids in order are an interval.                                        *)
LEMMA IsInterval ==
    ASSUME NEW a \in Int, NEW b \in Int, 1 <= a, a <= b, b <= NumIds
    PROVE  <<a, b>> \in Interval /\ <<a, b>>[1] = a /\ <<a, b>>[2] = b
  BY VerificationAssumption DEF Interval, Id

(* The bounds of an interval of a list.                                     *)
LEMMA InList ==
    ASSUME NEW list \in Seq(Interval), NEW n \in 1 .. Len(list)
    PROVE  /\ list[n] \in Interval
           /\ list[n][1] \in Nat /\ list[n][2] \in Nat
           /\ 1 <= list[n][1] /\ list[n][1] <= list[n][2] /\ list[n][2] <= NumIds
  BY Intervals

(* An id is listed if it lies between the bounds of one of them.            *)
LEMMA InListed ==
    ASSUME NEW list \in Seq(Interval), NEW x
    PROVE  x \in Listed(list) <=>
               x \in Int /\ \E n \in 1 .. Len(list) : list[n][1] <= x /\ x <= list[n][2]
  <1>1. DOMAIN list = 1 .. Len(list)
    OBVIOUS
  <1>2. \A n \in 1 .. Len(list) : x \in list[n][1] .. list[n][2] <=>
            x \in Int /\ list[n][1] <= x /\ x <= list[n][2]
    BY InList
  <1>3. QED
    BY <1>1, <1>2 DEF Listed

(* max() and min().                                                         *)
LEMMA HigherLower ==
    ASSUME NEW a \in Int, NEW b \in Int
    PROVE  /\ Higher(a, b) \in {a, b} /\ Higher(a, b) >= a /\ Higher(a, b) >= b
           /\ Lower(a, b) \in {a, b} /\ Lower(a, b) <= a /\ Lower(a, b) <= b
  BY DEF Higher, Lower

-----------------------------------------------------------------------------
(* An interval is appended, or extends the last one.                        *)
LEMMA ExtendedLast ==
    ASSUME NEW list \in Seq(Interval), NEW i \in Interval
    PROVE  LET n == Len(list)
               new == Extended(list, i)
           IN  /\ new \in Seq(Interval) /\ Len(new) \in {n, n + 1} /\ Len(new) > 0
               /\ n = 0 => Len(new) = 1
               /\ Len(new) = n + 1 => /\ \A k \in 1 .. n : new[k] = list[k]
                                      /\ new[n + 1] = i
                                      /\ n > 0 => i[1] > list[n][2] + 1
               /\ Len(new) = n => /\ \A k \in 1 .. n - 1 : new[k] = list[k]
                                  /\ i[1] <= list[n][2] + 1
                                  /\ new[n][1] = list[n][1]
                                  /\ new[n][2] = Higher(list[n][2], i[2])
  <1> DEFINE n == Len(list)
  <1>1. list = <<>> <=> n = 0
    OBVIOUS
  <1>2. n \in Nat /\ Last(list) = list[n] /\ i[1] \in Nat /\ i[2] \in Nat
    BY Intervals DEF Last
  <1>3. CASE list = <<>> \/ i[1] > Last(list)[2] + 1
    <2>1. Extended(list, i) = Append(list, i)
      BY <1>3 DEF Extended
    <2>2. Append(list, i) \in Seq(Interval) /\ Len(Append(list, i)) = n + 1
      OBVIOUS
    <2>3. (\A k \in 1 .. n : Append(list, i)[k] = list[k]) /\ Append(list, i)[n + 1] = i
      OBVIOUS
    <2> HIDE DEF n
    <2>4. QED
      BY <1>1, <1>2, <1>3, <2>1, <2>2, <2>3 DEF n
  <1>4. CASE ~(list = <<>> \/ i[1] > Last(list)[2] + 1)
    <2> DEFINE j == <<list[n][1], Higher(list[n][2], i[2])>>
               new == [list EXCEPT ![n] = j]
    <2>1. n \in 1 .. n
      BY <1>1, <1>2, <1>4
    <2>2. Extended(list, i) = new
      BY <1>4 DEF Extended
    <2>3. /\ list[n][1] \in Nat /\ list[n][2] \in Nat
          /\ 1 <= list[n][1] /\ list[n][1] <= list[n][2] /\ list[n][2] <= NumIds
      BY <2>1, InList
    <2>4. i[2] \in Nat /\ i[2] <= NumIds
      BY Intervals
    <2>5. /\ Higher(list[n][2], i[2]) \in Nat /\ list[n][1] <= Higher(list[n][2], i[2])
          /\ Higher(list[n][2], i[2]) <= NumIds
      BY <2>3, <2>4 DEF Higher
    <2>6. j \in Interval /\ j[1] = list[n][1] /\ j[2] = Higher(list[n][2], i[2])
      BY <2>3, <2>5, IsInterval
    <2> HIDE DEF j
    <2>7. new \in Seq(Interval) /\ Len(new) = n
      BY <2>1, <2>6
    <2>8. (\A k \in 1 .. n - 1 : new[k] = list[k]) /\ new[n] = j
      BY <2>1
    <2>9. i[1] <= list[n][2] + 1
      BY <1>2, <1>4, <2>3
    <2> HIDE DEF new, n
    <2>10. QED
      BY <1>1, <1>2, <2>1, <2>2, <2>6, <2>7, <2>8, <2>9 DEF n
  <1>5. QED
    BY <1>3, <1>4

(* Apart, with the indices spelled out.                                     *)
LEMMA ApartPairs ==
    ASSUME NEW list \in Seq(Interval)
    PROVE  Apart(list) <=>
               \A k, n \in 1 .. Len(list) : k < n => list[n][1] > list[k][2] + 1
  BY DEF Apart

(* Extending an apart list leaves it apart.                                 *)
LEMMA ExtendedApart ==
    ASSUME NEW list \in Seq(Interval), NEW i \in Interval, Apart(list)
    PROVE  Apart(Extended(list, i))
  <1> DEFINE m == Len(list)
             new == Extended(list, i)
  <1>1. /\ new \in Seq(Interval) /\ Len(new) \in {m, m + 1} /\ Len(new) > 0
        /\ Len(new) = m + 1 => /\ \A k \in 1 .. m : new[k] = list[k]
                               /\ new[m + 1] = i
                               /\ m > 0 => i[1] > list[m][2] + 1
        /\ Len(new) = m => /\ \A k \in 1 .. m - 1 : new[k] = list[k]
                           /\ new[m][1] = list[m][1]
    BY ExtendedLast
  <1>2. \A k, n \in 1 .. m : k < n => list[n][1] > list[k][2] + 1
    BY ApartPairs
  <1>3. \A k \in 1 .. m : list[k][1] \in Nat /\ list[k][2] \in Nat /\ list[k][1] <= list[k][2]
    BY InList
  <1>4. m \in Nat /\ i[1] \in Nat
    BY Intervals
  <1> HIDE DEF new, m
  <1>5. ASSUME NEW k \in 1 .. Len(new), NEW n \in 1 .. Len(new), k < n
        PROVE  new[n][1] > new[k][2] + 1
    <2>1. CASE Len(new) = m + 1
      <3>1. k \in 1 .. m /\ new[k] = list[k]
        BY <1>1, <1>4, <1>5, <2>1
      <3>2. CASE n = m + 1
        <4>1. list[m][1] > list[k][2] + 1 \/ k = m
          BY <1>2, <1>4, <3>1
        <4>2. m \in 1 .. m
          BY <1>4, <3>1
        <4>3. m > 0 /\ new[n] = i
          BY <1>1, <1>4, <2>1, <3>2, <4>2
        <4>4. i[1] > list[m][2] + 1
          BY <1>1, <2>1, <4>3
        <4>5. /\ list[m][1] \in Nat /\ list[m][2] \in Nat /\ list[m][1] <= list[m][2]
              /\ list[k][2] \in Nat
          BY <1>3, <3>1, <4>2
        <4>6. i[1] > list[k][2] + 1
          <5>1. CASE k = m
            BY <4>4, <5>1
          <5>2. CASE list[m][1] > list[k][2] + 1
            <6>1. \A a, b, c, d \in Nat : a > b + 1 /\ b >= c /\ c > d + 1 => a > d + 1
              OBVIOUS
            <6>2. list[m][2] >= list[m][1]
              BY <4>5
            <6>3. QED
              BY <1>4, <4>4, <4>5, <5>2, <6>1, <6>2, Zenon
          <5>3. QED
            BY <4>1, <5>1, <5>2
        <4>7. QED
          BY <3>1, <4>3, <4>6
      <3>3. CASE n \in 1 .. m
        BY <1>1, <1>2, <1>5, <2>1, <3>1, <3>3
      <3>4. QED
        BY <1>4, <2>1, <3>2, <3>3
    <2>2. CASE Len(new) = m
      <3>1. k \in 1 .. m - 1 /\ new[k] = list[k] /\ k \in 1 .. m /\ n \in 1 .. m
        BY <1>1, <1>4, <1>5, <2>2
      <3>2. new[n][1] = list[n][1]
        BY <1>1, <1>4, <2>2, <3>1
      <3>3. QED
        BY <1>2, <1>5, <3>1, <3>2
    <2>3. QED
      BY <1>1, <2>1, <2>2
  <1>6. Apart(new)
    BY <1>1, <1>5, ApartPairs
  <1>7. QED
    BY <1>6 DEF new

(* No id is listed that neither was listed nor is in the interval; and all  *)
(* of these are, if the interval starts no earlier than the last one.       *)
LEMMA ExtendedListed ==
    ASSUME NEW list \in Seq(Interval), NEW i \in Interval, NEW x
    PROVE  /\ x \in Listed(Extended(list, i)) => x \in Listed(list) \/ x \in i[1] .. i[2]
           /\ x \in Listed(list) => x \in Listed(Extended(list, i))
           /\ (Len(list) > 0 => list[Len(list)][1] <= i[1]) /\ x \in i[1] .. i[2]
              => x \in Listed(Extended(list, i))
  <1> DEFINE m == Len(list)
             new == Extended(list, i)
  <1>1. /\ new \in Seq(Interval) /\ Len(new) \in {m, m + 1}
        /\ Len(new) = m + 1 => /\ \A k \in 1 .. m : new[k] = list[k]
                               /\ new[m + 1] = i
        /\ Len(new) = m => /\ m > 0
                           /\ \A k \in 1 .. m - 1 : new[k] = list[k]
                           /\ i[1] <= list[m][2] + 1
                           /\ new[m][1] = list[m][1]
                           /\ new[m][2] = Higher(list[m][2], i[2])
    BY ExtendedLast
  <1>2. x \in Listed(list) <=> x \in Int /\ \E n \in 1 .. m : list[n][1] <= x /\ x <= list[n][2]
    BY InListed
  <1>3. x \in Listed(new) <=>
            x \in Int /\ \E n \in 1 .. Len(new) : new[n][1] <= x /\ x <= new[n][2]
    BY <1>1, InListed
  <1>4. m \in Nat /\ i[1] \in Nat /\ i[2] \in Nat /\ i[1] <= i[2]
    BY Intervals
  <1>5. \A k \in 1 .. m : list[k][1] \in Nat /\ list[k][2] \in Nat /\ list[k][1] <= list[k][2]
    BY InList
  <1> HIDE DEF new, m
  <1>6. CASE Len(new) = m + 1
    <2>1. \A n \in 1 .. Len(new) : n \in 1 .. m \/ n = m + 1
      BY <1>4, <1>6
    <2>2. m + 1 \in 1 .. Len(new) /\ \A n \in 1 .. m : n \in 1 .. Len(new)
      BY <1>4, <1>6
    <2>3. x \in Listed(new) <=> x \in Listed(list) \/ x \in i[1] .. i[2]
      BY <1>1, <1>2, <1>3, <1>4, <1>6, <2>1, <2>2
    <2>4. QED
      BY <2>3 DEF new
  <1>7. CASE Len(new) = m
    <2>1. m \in 1 .. m /\ \A n \in 1 .. m : n \in 1 .. m - 1 \/ n = m
      BY <1>1, <1>4, <1>7
    <2>2. /\ Higher(list[m][2], i[2]) \in {list[m][2], i[2]}
          /\ Higher(list[m][2], i[2]) >= list[m][2] /\ Higher(list[m][2], i[2]) >= i[2]
      BY <1>4, <1>5, <2>1, HigherLower
    <2>3. ASSUME x \in Listed(new) PROVE x \in Listed(list) \/ x \in i[1] .. i[2]
      <3>1. PICK n \in 1 .. m : x \in Int /\ new[n][1] <= x /\ x <= new[n][2]
        BY <1>3, <1>7, <2>3
      <3>2. CASE n \in 1 .. m - 1
        BY <1>1, <1>2, <1>7, <3>1, <3>2
      <3>3. CASE n = m
        BY <1>1, <1>2, <1>4, <1>5, <1>7, <2>1, <2>2, <3>1, <3>3
      <3>4. QED
        BY <2>1, <3>2, <3>3
    <2>4. ASSUME x \in Listed(list) PROVE x \in Listed(new)
      <3>1. PICK n \in 1 .. m : x \in Int /\ list[n][1] <= x /\ x <= list[n][2]
        BY <1>2, <2>4
      <3>2. CASE n \in 1 .. m - 1
        BY <1>1, <1>3, <1>7, <3>1, <3>2
      <3>3. CASE n = m
        <4>1. new[m][1] <= x /\ x <= new[m][2]
          BY <1>1, <1>4, <1>5, <1>7, <2>1, <2>2, <3>1, <3>3
        <4>2. QED
          BY <1>3, <1>7, <2>1, <3>1, <4>1
      <3>4. QED
        BY <2>1, <3>2, <3>3
    <2>5. ASSUME list[m][1] <= i[1], x \in i[1] .. i[2] PROVE x \in Listed(new)
      <3>1. x \in Int /\ new[m][1] <= x /\ x <= new[m][2]
        BY <1>1, <1>4, <1>5, <1>7, <2>1, <2>2, <2>5
      <3>2. QED
        BY <1>3, <1>7, <2>1, <3>1
    <2>6. m > 0
      BY <1>1, <1>7
    <2>7. QED
      BY <2>3, <2>4, <2>5, <2>6 DEF new, m
  <1>8. QED
    BY <1>1, <1>6, <1>7

-----------------------------------------------------------------------------
(* The recursive function of Merged exists, and is a list at every index.   *)
LEMMA MergedSteps ==
    ASSUME NEW seq \in Seq(Interval)
    PROVE  \E f : /\ Merged(seq) = f[Len(seq)] /\ f[0] = <<>>
                  /\ \A n \in 0 .. Len(seq) : f[n] \in Seq(Interval)
                  /\ \A n \in 1 .. Len(seq) : f[n] = Extended(f[n - 1], seq[n])
  <1> DEFINE m == Len(seq)
             T == Seq(Interval)
             base == <<>>
             Right(f) == f = [n \in 0 .. m |-> IF n = 0 THEN <<>> ELSE Extended(f[n - 1], seq[n])]
             step == [n \in 1 .. m |-> [t \in T |-> Extended(t, seq[n])]]
             f == CHOOSE g : Right(g)
  <1>1. m \in Nat /\ \A n \in 1 .. m : seq[n] \in Interval
    OBVIOUS
  <1>2. \A n \in 1 .. m, t \in T : Extended(t, seq[n]) \in T
    BY <1>1, ExtendedLast
  <1>3. base \in T
    OBVIOUS
  <1>4. \A n \in 1 .. m, t \in T : step[n][t] = Extended(t, seq[n])
    OBVIOUS
  <1> HIDE DEF T, m, step, base
  <1>5. StaysIn(T, m, step)
    BY <1>2, <1>4 DEF StaysIn
  <1>6. PICK g \in [0 .. m -> T] : g[0] = base /\ \A n \in 1 .. m : g[n] = step[n][g[n - 1]]
    <2>1. Recurs(T, m, base, step)
      BY <1>1, <1>3, <1>5, Recursion
    <2>2. QED
      BY <2>1 DEF Recurs
  <1>7. Right(g)
    <2>1. \A n \in 1 .. m : n - 1 \in 0 .. m
      BY <1>1
    <2>2. \A n \in 1 .. m : g[n] = Extended(g[n - 1], seq[n])
      BY <1>4, <1>6, <2>1
    <2>3. \A n \in 0 .. m : g[n] = IF n = 0 THEN <<>> ELSE Extended(g[n - 1], seq[n])
      <3>1. \A n \in 0 .. m : n = 0 \/ n \in 1 .. m
        BY <1>1
      <3>2. QED
        BY <1>6, <2>2, <3>1 DEF base
    <2>4. QED
      BY <1>6, <2>3
  <1>8. Right(f)
    <2> HIDE DEF Right
    <2>1. QED
      BY <1>7
  <1>9. Merged(seq) = f[m]
    BY DEF Merged, m
  <1> HIDE DEF f
  <1>10. f[0] = <<>> /\ \A n \in 1 .. m : f[n] = Extended(f[n - 1], seq[n])
    <2>1. 0 \in 0 .. m /\ \A n \in 1 .. m : n \in 0 .. m /\ n # 0
      BY <1>1
    <2>2. QED
      BY <1>8, <2>1
  <1>11. \A n \in 0 .. m : f[n] \in T
    <2> DEFINE S == {n \in 0 .. m : f[n] \in T}
    <2>1. 0 \in S
      BY <1>1, <1>3, <1>10 DEF base
    <2>2. ASSUME NEW n \in 0 .. m, n < m, n \in S PROVE n + 1 \in S
      <3>1. n + 1 \in 1 .. m /\ n + 1 \in 0 .. m /\ (n + 1) - 1 = n
        BY <1>1, <2>2
      <3>2. QED
        BY <1>2, <1>10, <2>2, <3>1
    <2> HIDE DEF S
    <2>3. \A n \in 0 .. m : n \in S
      BY <1>1, <2>1, <2>2, Counting
    <2>4. QED
      BY <2>3 DEF S
  <1>12. QED
    BY <1>9, <1>10, <1>11 DEF T, m

(* merge_intervals and _source_intervals build a list of intervals that lie *)
(* apart and list no id that none of their intervals has; if they take the  *)
(* intervals in the order of their first ids, they list all ids.            *)
Rising(seq) == \A m, n \in DOMAIN seq : m < n => seq[m][1] <= seq[n][1]

(* merge_intervals on a list: apart, no id is new, none is lost in order.   *)
LEMMA MergedLists ==
    ASSUME NEW seq \in Seq(Interval)
    PROVE  /\ Merged(seq) \in Seq(Interval) /\ Apart(Merged(seq))
           /\ Merged(seq) = <<>> <=> seq = <<>>
           /\ Listed(Merged(seq)) \subseteq Listed(seq)
           /\ Rising(seq) => Listed(Merged(seq)) = Listed(seq)
  <1> DEFINE m == Len(seq)
  <1>1. PICK f : /\ Merged(seq) = f[m] /\ f[0] = <<>>
                 /\ \A n \in 0 .. m : f[n] \in Seq(Interval)
                 /\ \A n \in 1 .. m : f[n] = Extended(f[n - 1], seq[n])
    BY MergedSteps
  <1>2. m \in Nat /\ \A n \in 1 .. m : seq[n] \in Interval
    OBVIOUS
  <1>3. \A x : x \in Listed(seq) <=>
            x \in Int /\ \E n \in 1 .. m : seq[n][1] <= x /\ x <= seq[n][2]
    BY InListed
  <1>4. \A n \in 1 .. m : seq[n][1] \in Nat /\ seq[n][2] \in Nat /\ seq[n][1] <= seq[n][2]
    BY InList
  <1>5. Rising(seq) <=> \A k, n \in 1 .. m : k < n => seq[k][1] <= seq[n][1]
    BY DEF Rising
  <1>6. seq = <<>> <=> m = 0
    OBVIOUS
  <1> DEFINE Holds(n) ==
                 /\ Apart(f[n]) /\ (Len(f[n]) = 0 <=> n = 0)
                 /\ \A x \in Listed(f[n]) : x \in Listed(seq)
                 /\ Rising(seq) =>
                       /\ Len(f[n]) > 0 => f[n][Len(f[n])][1] <= seq[n][1]
                       /\ \A k \in 1 .. n, x \in Int :
                              seq[k][1] <= x /\ x <= seq[k][2] => x \in Listed(f[n])
  <1> HIDE DEF m
  <1>7. Holds(0)
    <2>1. <<>> \in Seq(Interval) /\ Len(<<>>) = 0
      OBVIOUS
    <2>2. Apart(<<>>) /\ Listed(<<>>) = {}
      BY DEF Apart, Listed
    <2>3. QED
      BY <1>1, <2>1, <2>2
  <1>8. ASSUME NEW n \in 0 .. m, n < m, Holds(n) PROVE Holds(n + 1)
    <2> DEFINE old == f[n]
               new == f[n + 1]
               i == seq[n + 1]
    <2>1. n + 1 \in 1 .. m /\ n + 1 \in 0 .. m /\ (n + 1) - 1 = n /\ n \in Nat
      BY <1>2, <1>8
    <2>2. old \in Seq(Interval) /\ i \in Interval /\ new = Extended(old, i)
      BY <1>1, <1>2, <2>1
    <2>3. i[1] \in Nat /\ i[2] \in Nat
      BY <1>4, <2>1
    <2>4. Apart(new)
      BY <1>8, <2>2, ExtendedApart
    <2> HIDE DEF old, new, i
    <2>5. Len(new) > 0 /\ Len(new) \in Nat /\ n + 1 # 0
      <3>1. new \in Seq(Interval) /\ Len(new) > 0
        BY <2>2, ExtendedLast
      <3>2. QED
        BY <2>1, <3>1
    <2>6. ASSUME NEW x \in Listed(new) PROVE x \in Listed(seq)
      <3>1. x \in Listed(old) \/ x \in i[1] .. i[2]
        BY <2>2, ExtendedListed
      <3>2. QED
        BY <1>3, <1>8, <2>1, <2>3, <3>1 DEF old, i
    <2>7. ASSUME Rising(seq) PROVE new[Len(new)][1] <= seq[n + 1][1]
      <3>1. /\ Len(old) \in Nat /\ Len(new) \in {Len(old), Len(old) + 1}
            /\ Len(new) = Len(old) + 1 => new[Len(new)] = i
            /\ Len(new) = Len(old) => new[Len(new)][1] = old[Len(old)][1]
        <4>1. /\ Len(new) \in {Len(old), Len(old) + 1}
              /\ Len(new) = Len(old) + 1 => new[Len(old) + 1] = i
              /\ Len(new) = Len(old) => new[Len(old)][1] = old[Len(old)][1]
          BY <2>2, ExtendedLast, Zenon
        <4>2. Len(old) \in Nat
          BY <2>2
        <4>3. QED
          BY <4>1, <4>2
      <3>2. CASE Len(new) = Len(old) + 1
        BY <2>3, <3>1, <3>2 DEF i
      <3>3. CASE Len(new) = Len(old)
        <4>1. old[Len(old)][1] <= seq[n][1] /\ n # 0
          BY <1>8, <2>5, <2>7, <3>1, <3>3 DEF old
        <4>2. n \in 1 .. m /\ n < n + 1
          BY <2>1, <4>1
        <4>3. seq[n][1] <= seq[n + 1][1]
          BY <1>5, <2>1, <2>7, <4>2
        <4>4. Len(old) \in 1 .. Len(old)
          BY <2>5, <3>1, <3>3
        <4>5. old[Len(old)][1] \in Nat
          BY <2>2, <4>4, InList
        <4>6. QED
          BY <1>4, <2>1, <3>1, <3>3, <4>1, <4>2, <4>3, <4>5
      <3>4. QED
        BY <3>1, <3>2, <3>3
    <2>8. ASSUME Rising(seq), NEW k \in 1 .. n + 1, NEW x \in Int,
                 seq[k][1] <= x, x <= seq[k][2]
          PROVE  x \in Listed(new)
      <3>1. CASE k \in 1 .. n
        <4>1. x \in Listed(old)
          BY <1>8, <2>8, <3>1 DEF old
        <4>2. QED
          BY <2>2, <4>1, ExtendedListed
      <3>2. CASE k = n + 1
        <4>1. x \in i[1] .. i[2]
          BY <2>3, <2>8, <3>2 DEF i
        <4>2. ASSUME Len(old) > 0 PROVE old[Len(old)][1] <= i[1]
          <5>1. old[Len(old)][1] <= seq[n][1] /\ n # 0
            BY <1>8, <2>8, <4>2 DEF old
          <5>2. n \in 1 .. m /\ n < n + 1
            BY <2>1, <5>1
          <5>3. seq[n][1] <= seq[n + 1][1]
            BY <1>5, <2>1, <2>8, <5>2
          <5>4. Len(old) \in 1 .. Len(old)
            BY <2>2, <4>2
          <5>5. old[Len(old)][1] \in Nat
            BY <2>2, <5>4, InList
          <5>6. QED
            BY <1>4, <2>1, <5>1, <5>2, <5>3, <5>5 DEF i
        <4>3. QED
          BY <2>2, <4>1, <4>2, ExtendedListed
      <3>3. QED
        BY <2>1, <3>1, <3>2
    <2>9. QED
      BY <2>4, <2>5, <2>6, <2>7, <2>8 DEF new
  <1>9. Holds(m)
    <2> DEFINE S == {n \in 0 .. m : Holds(n)}
    <2> HIDE DEF Holds
    <2>1. 0 \in S
      BY <1>2, <1>7
    <2>2. ASSUME NEW n \in 0 .. m, n < m, n \in S PROVE n + 1 \in S
      <3>1. n + 1 \in 0 .. m
        BY <1>2, <2>2
      <3>2. QED
        BY <1>8, <2>2, <3>1
    <2> HIDE DEF S
    <2>3. \A n \in 0 .. m : n \in S
      BY <1>2, <2>1, <2>2, Counting
    <2>4. QED
      BY <1>2, <2>3 DEF S
  <1>10. f[m] \in Seq(Interval) /\ (f[m] = <<>> <=> Len(f[m]) = 0)
    BY <1>1, <1>2
  <1>11. ASSUME Rising(seq), NEW x \in Listed(seq) PROVE x \in Listed(f[m])
    BY <1>3, <1>9, <1>11
  <1>12. QED
    BY <1>1, <1>6, <1>9, <1>10, <1>11

-----------------------------------------------------------------------------
(* sorted(): a set of intervals can be listed in ascending order.           *)
LEMMA IntervalsAreFinite ==
    ASSUME NEW S \in SUBSET Interval
    PROVE  IsFiniteSet(S) /\ Cardinality(S) \in Nat
  <1>1. NumIds \in Nat
    BY VerificationAssumption
  <1>2. IsFiniteSet(Id)
    BY <1>1, FS_Interval DEF Id
  <1>3. IsFiniteSet(Id \X Id)
    BY <1>2, FS_Product
  <1>4. S \in SUBSET (Id \X Id)
    BY DEF Interval
  <1>5. IsFiniteSet(S)
    BY <1>3, <1>4, FS_Subset
  <1>6. QED
    BY <1>5, FS_CardinalityType

(* A set of intervals has a least one.                                      *)
LEMMA LeastInterval ==
    ASSUME NEW S \in SUBSET Interval, S # {}
    PROVE  \E e \in S : \A d \in S : d # e => Smaller(e, d)
  <1>1. \A i \in S : i[1] \in Nat /\ i[2] \in Nat /\ i = <<i[1], i[2]>>
    BY Intervals
  <1>2. PICK a \in {i[1] : i \in S} : \A y \in {i[1] : i \in S} : a <= y
    <2> DEFINE F == {i[1] : i \in S}
    <2>1. F \in SUBSET Nat /\ F # {}
      BY <1>1
    <2> HIDE DEF F
    <2>2. \E x \in F : \A y \in F : x <= y
      BY <2>1, LeastNatural
    <2>3. QED
      BY <2>2 DEF F
  <1>3. PICK b \in {i[2] : i \in {j \in S : j[1] = a}} :
            \A y \in {i[2] : i \in {j \in S : j[1] = a}} : b <= y
    <2> DEFINE F == {i[2] : i \in {j \in S : j[1] = a}}
    <2>1. F \in SUBSET Nat /\ F # {}
      BY <1>1, <1>2
    <2> HIDE DEF F
    <2>2. \E x \in F : \A y \in F : x <= y
      BY <2>1, LeastNatural
    <2>3. QED
      BY <2>2 DEF F
  <1>4. PICK e \in S : e[1] = a /\ e[2] = b
    BY <1>3
  <1>5. ASSUME NEW d \in S, d # e PROVE Smaller(e, d)
    <2>1. d[1] \in Nat /\ d[2] \in Nat /\ e[1] \in Nat /\ e[2] \in Nat
      BY <1>1
    <2>2. d[1] # e[1] \/ d[2] # e[2]
      BY <1>1, <1>5
    <2>3. a <= d[1]
      BY <1>2
    <2>4. d[1] = a => b <= d[2]
      BY <1>3
    <2>5. QED
      BY <1>4, <2>1, <2>2, <2>3, <2>4 DEF Smaller
  <1>6. QED
    BY <1>5

Ascends(seq) == \A m, n \in DOMAIN seq : m < n => Smaller(seq[m], seq[n])

Lists(S, k) == \E seq \in [1 .. k -> S] : Ascends(seq)

(* The least interval goes before a list of the others.                     *)
LEMMA AscendingFrom ==
    ASSUME NEW S \in SUBSET Interval, NEW k \in Nat, NEW e \in S,
           \A d \in S : d # e => Smaller(e, d), Lists(S \ {e}, k)
    PROVE  Lists(S, k + 1)
  <1>1. PICK rest \in [1 .. k -> S \ {e}] : Ascends(rest)
    BY DEF Lists
  <1> DEFINE seq == [n \in 1 .. k + 1 |-> IF n = 1 THEN e ELSE rest[n - 1]]
  <1>2. \A n \in 1 .. k + 1 : n # 1 => n - 1 \in 1 .. k /\ n \in 2 .. k + 1
    OBVIOUS
  <1>3. seq \in [1 .. k + 1 -> S]
    BY <1>2
  <1>4. ASSUME NEW m \in 1 .. k + 1, NEW n \in 1 .. k + 1, m < n
        PROVE  Smaller(seq[m], seq[n])
    <2>1. n # 1 /\ seq[n] = rest[n - 1] /\ n - 1 \in 1 .. k
      BY <1>2, <1>4
    <2>2. CASE m = 1
      <3>1. rest[n - 1] \in S /\ rest[n - 1] # e
        BY <2>1
      <3>2. QED
        BY <2>1, <2>2, <3>1
    <2>3. CASE m # 1
      <3>1. m - 1 \in 1 .. k /\ m - 1 < n - 1 /\ seq[m] = rest[m - 1]
        BY <1>2, <1>4, <2>3
      <3>2. QED
        BY <1>1, <2>1, <3>1 DEF Ascends
    <2>4. QED
      BY <2>2, <2>3
  <1>5. Ascends(seq)
    BY <1>4 DEF Ascends
  <1> HIDE DEF seq
  <1>6. QED
    BY <1>3, <1>5 DEF Lists

(* Every set of intervals can be listed in order.                           *)
LEMMA CanBeListed ==
    ASSUME NEW S \in SUBSET Interval
    PROVE  Lists(S, Cardinality(S))
  <1> DEFINE m == Cardinality(S)
             Listable(k) == \A R \in SUBSET Interval : Cardinality(R) = k => Lists(R, k)
             K == {k \in 0 .. m : Listable(k)}
  <1>1. m \in Nat
    BY IntervalsAreFinite
  <1>2. Listable(0)
    <2>1. ASSUME NEW R \in SUBSET Interval PROVE Lists(R, 0)
      <3>1. [n \in 1 .. 0 |-> n] \in [1 .. 0 -> R] /\ Ascends([n \in 1 .. 0 |-> n])
        BY DEF Ascends
      <3>2. QED
        BY <3>1 DEF Lists
    <2>2. QED
      BY <2>1
  <1>3. ASSUME NEW k \in Nat, Listable(k) PROVE Listable(k + 1)
    <2>1. ASSUME NEW R \in SUBSET Interval, Cardinality(R) = k + 1 PROVE Lists(R, k + 1)
      <3>1. IsFiniteSet(R)
        BY IntervalsAreFinite
      <3>2. R # {}
        BY <2>1, FS_EmptySet
      <3>3. PICK e \in R : \A d \in R : d # e => Smaller(e, d)
        BY <3>2, LeastInterval
      <3>4. Cardinality(R \ {e}) = (k + 1) - 1
        BY <2>1, <3>1, FS_RemoveElement
      <3>5. Lists(R \ {e}, k)
        BY <1>3, <3>4
      <3>6. QED
        BY <3>3, <3>5, AscendingFrom
    <2>2. QED
      BY <2>1
  <1> HIDE DEF Listable, m
  <1>4. \A k \in 0 .. m : k \in K
    <2>1. 0 \in K
      BY <1>1, <1>2
    <2>2. ASSUME NEW k \in 0 .. m, k < m, k \in K PROVE k + 1 \in K
      BY <1>1, <1>3, <2>2
    <2> HIDE DEF K
    <2>3. QED
      BY <1>1, <2>1, <2>2, Counting
  <1>5. Listable(m)
    BY <1>1, <1>4
  <1>6. QED
    BY <1>5 DEF Listable, m

(* What sorted() returns.                                                   *)
LEMMA AscendingLists ==
    ASSUME NEW S \in SUBSET Interval
    PROVE  /\ Ascending(S) \in Seq(Interval) /\ Len(Ascending(S)) = Cardinality(S)
           /\ \A n \in 1 .. Len(Ascending(S)) : Ascending(S)[n] \in S
           /\ \A i \in S : \E n \in 1 .. Len(Ascending(S)) : Ascending(S)[n] = i
           /\ Rising(Ascending(S))
  <1> DEFINE m == Cardinality(S)
             seq == Ascending(S)
  <1>1. m \in Nat /\ IsFiniteSet(S)
    BY IntervalsAreFinite
  <1>2. \E s \in [1 .. m -> S] : \A k, n \in DOMAIN s : k < n => Smaller(s[k], s[n])
    BY CanBeListed DEF Lists, Ascends
  <1>3. seq \in [1 .. m -> S] /\ \A k, n \in DOMAIN seq : k < n => Smaller(seq[k], seq[n])
    BY <1>2 DEF Ascending
  <1> HIDE DEF m, seq
  <1>4. seq \in Seq(Interval) /\ Len(seq) = m /\ DOMAIN seq = 1 .. m
    BY <1>1, <1>3
  <1>5. \A n \in 1 .. m : seq[n] \in S /\ seq[n][1] \in Nat /\ seq[n][2] \in Nat
    BY <1>3, Intervals
  <1>6. \A k, n \in 1 .. m : k < n => Smaller(seq[k], seq[n])
    BY <1>3, <1>4
  <1>7. Rising(seq)
    BY <1>4, <1>5, <1>6 DEF Rising, Smaller
  <1>8. seq \in Injection(1 .. m, S)
    <2>1. ASSUME NEW k \in 1 .. m, NEW n \in 1 .. m, seq[k] = seq[n] PROVE k = n
      <3>1. ~Smaller(seq[k], seq[n]) /\ ~Smaller(seq[n], seq[k])
        BY <1>5, <2>1 DEF Smaller
      <3>2. ~(k < n) /\ ~(n < k)
        BY <1>6, <3>1
      <3>3. QED
        BY <1>1, <3>2
    <2>2. IsInjective(seq)
      BY <1>4, <2>1 DEF IsInjective
    <2>3. QED
      BY <1>3, <2>2 DEF Injection
  <1>9. Cardinality(1 .. m) = m
    BY <1>1, FS_Interval
  <1>10. seq \in Surjection(1 .. m, S)
    BY <1>1, <1>8, <1>9, FS_Injection DEF m
  <1>11. \A i \in S : \E n \in 1 .. m : seq[n] = i
    BY <1>10 DEF Surjection
  <1>12. QED
    BY <1>4, <1>5, <1>7, <1>11 DEF seq, m

(* merge_intervals.                                                         *)
LEMMA MergeIntervalsLists ==
    ASSUME NEW S \in SUBSET Interval
    PROVE  /\ MergeIntervals(S) \in Seq(Interval) /\ Apart(MergeIntervals(S))
           /\ MergeIntervals(S) = <<>> <=> S = {}
           /\ \A x : x \in Listed(MergeIntervals(S)) <=> \E i \in S : x \in i[1] .. i[2]
  <1> DEFINE seq == Ascending(S)
  <1>1. /\ seq \in Seq(Interval) /\ Len(seq) = Cardinality(S) /\ Rising(seq)
        /\ \A n \in 1 .. Len(seq) : seq[n] \in S
        /\ \A i \in S : \E n \in 1 .. Len(seq) : seq[n] = i
    BY AscendingLists
  <1> HIDE DEF seq
  <1>2. /\ Merged(seq) \in Seq(Interval) /\ Apart(Merged(seq))
        /\ Merged(seq) = <<>> <=> seq = <<>>
        /\ Listed(Merged(seq)) = Listed(seq)
    BY <1>1, MergedLists
  <1>3. MergeIntervals(S) = Merged(seq)
    BY DEF MergeIntervals, seq
  <1>4. seq = <<>> <=> S = {}
    <2>1. seq = <<>> <=> Len(seq) = 0
      BY <1>1
    <2>2. IsFiniteSet(S)
      BY IntervalsAreFinite
    <2>3. QED
      BY <1>1, <2>1, <2>2, FS_EmptySet
  <1>5. ASSUME NEW x PROVE x \in Listed(seq) <=> \E i \in S : x \in i[1] .. i[2]
    <2>1. x \in Listed(seq) <=>
              x \in Int /\ \E n \in 1 .. Len(seq) : seq[n][1] <= x /\ x <= seq[n][2]
      BY <1>1, InListed
    <2>2. \A n \in 1 .. Len(seq) : seq[n][1] \in Nat /\ seq[n][2] \in Nat
      BY <1>1, InList
    <2>3. \A i \in S : i[1] \in Nat /\ i[2] \in Nat
      BY Intervals
    <2>4. QED
      BY <1>1, <2>1, <2>2, <2>3
  <1>6. QED
    BY <1>2, <1>3, <1>4, <1>5

-----------------------------------------------------------------------------
(* The sum of coverage_summary: how many ids an apart list has.             *)
LEMMA CoveredSteps ==
    ASSUME NEW list \in Seq(Interval)
    PROVE  \E f : /\ Covered(list) = f[Len(list)] /\ f[0] = 0
                  /\ \A n \in 1 .. Len(list) : f[n] = f[n - 1] + list[n][2] - list[n][1] + 1
  <1> DEFINE m == Len(list)
             Right(f) == f = [n \in 0 .. m |->
                                IF n = 0 THEN 0 ELSE f[n - 1] + list[n][2] - list[n][1] + 1]
             step == [n \in 1 .. m |-> [t \in Int |-> t + list[n][2] - list[n][1] + 1]]
             f == CHOOSE g : Right(g)
  <1>1. m \in Nat /\ \A n \in 1 .. m : list[n][1] \in Nat /\ list[n][2] \in Nat
    BY InList
  <1>2. \A n \in 1 .. m, t \in Int : t + list[n][2] - list[n][1] + 1 \in Int
    BY <1>1
  <1> DEFINE T == Int
             base == 0
  <1>3. base \in T
    OBVIOUS
  <1>4. \A n \in 1 .. m, t \in T : step[n][t] = t + list[n][2] - list[n][1] + 1
    OBVIOUS
  <1>5. StaysIn(T, m, step)
    BY <1>2, <1>4 DEF StaysIn
  <1> HIDE DEF m, step, base, T
  <1>6. PICK g \in [0 .. m -> T] : g[0] = base /\ \A n \in 1 .. m : g[n] = step[n][g[n - 1]]
    <2>1. Recurs(T, m, base, step)
      BY <1>1, <1>3, <1>5, Recursion
    <2>2. QED
      BY <2>1 DEF Recurs
  <1>7. Right(g)
    <2>1. \A n \in 1 .. m : n - 1 \in 0 .. m
      BY <1>1
    <2>2. \A n \in 1 .. m : g[n] = g[n - 1] + list[n][2] - list[n][1] + 1
      BY <1>4, <1>6, <2>1 DEF T
    <2>3. \A n \in 0 .. m : n = 0 \/ n \in 1 .. m
      BY <1>1
    <2>4. \A n \in 0 .. m :
              g[n] = IF n = 0 THEN 0 ELSE g[n - 1] + list[n][2] - list[n][1] + 1
      BY <1>6, <2>2, <2>3 DEF base
    <2>5. QED
      BY <1>6, <2>4
  <1>8. Right(f)
    <2> HIDE DEF Right
    <2>1. QED
      BY <1>7
  <1>9. Covered(list) = f[m]
    BY DEF Covered, m
  <1> HIDE DEF f
  <1>10. f[0] = 0 /\ \A n \in 1 .. m : f[n] = f[n - 1] + list[n][2] - list[n][1] + 1
    <2>1. 0 \in 0 .. m /\ \A n \in 1 .. m : n \in 0 .. m /\ n # 0
      BY <1>1
    <2>2. QED
      BY <1>8, <2>1
  <1>11. QED
    BY <1>9, <1>10 DEF m

(* The ids of the first n intervals of a list.                              *)
FirstIds(list, n) == {x \in Id : \E k \in 1 .. n : list[k][1] <= x /\ x <= list[k][2]}

(* Sets of ids are finite.                                                  *)
LEMMA IdsAreFinite ==
    ASSUME NEW S \in SUBSET Id
    PROVE  IsFiniteSet(S) /\ Cardinality(S) \in Nat
  <1>1. IsFiniteSet(Id)
    BY VerificationAssumption, FS_Interval DEF Id
  <1>2. QED
    BY <1>1, FS_Subset, FS_CardinalityType

(* What a list holds are its first ids, up to the last interval.            *)
LEMMA AllIds ==
    ASSUME NEW list \in Seq(Interval)
    PROVE  Listed(list) = FirstIds(list, Len(list)) /\ Listed(list) \in SUBSET Id
  <1>1. ASSUME NEW x PROVE x \in Listed(list) <=> x \in FirstIds(list, Len(list))
    <2>1. x \in Listed(list) <=>
              x \in Int /\ \E n \in 1 .. Len(list) : list[n][1] <= x /\ x <= list[n][2]
      BY InListed
    <2>2. ASSUME x \in Int, NEW n \in 1 .. Len(list), list[n][1] <= x, x <= list[n][2]
          PROVE  x \in Id
      BY <2>2, InList, VerificationAssumption DEF Id
    <2>3. x \in Id => x \in Int
      BY DEF Id
    <2>4. QED
      BY <2>1, <2>2, <2>3 DEF FirstIds
  <1>2. QED
    BY <1>1 DEF FirstIds

(* Each interval of an apart list adds ids that the earlier ones have not.  *)
LEMMA NextIds ==
    ASSUME NEW list \in Seq(Interval), Apart(list), NEW n \in 1 .. Len(list)
    PROVE  /\ FirstIds(list, n) = FirstIds(list, n - 1) \cup (list[n][1] .. list[n][2])
           /\ FirstIds(list, n - 1) \cap (list[n][1] .. list[n][2]) = {}
  <1> DEFINE lo == list[n][1]
             hi == list[n][2]
  <1>1. lo \in Nat /\ hi \in Nat /\ 1 <= lo /\ lo <= hi /\ hi <= NumIds /\ NumIds \in Nat
    BY InList, VerificationAssumption
  <1>2. n \in Nat /\ n - 1 \in Nat
    OBVIOUS
  <1>3. \A k \in 1 .. n - 1 : k \in 1 .. Len(list) /\ k < n
    OBVIOUS
  <1>4. \A k \in 1 .. n - 1 : lo > list[k][2] + 1 /\ list[k][2] \in Nat
    <2>1. \A k \in 1 .. Len(list) : k < n => lo > list[k][2] + 1
      BY ApartPairs
    <2>2. QED
      BY <1>3, <2>1, InList
  <1> HIDE DEF lo, hi
  <1>5. ASSUME NEW x
        PROVE  x \in FirstIds(list, n) <=> x \in FirstIds(list, n - 1) \cup (lo .. hi)
    <2>1. \A k : k \in 1 .. n <=> k \in 1 .. n - 1 \/ k = n
      BY <1>2
    <2>2. x \in lo .. hi <=> x \in Id /\ lo <= x /\ x <= hi
      BY <1>1 DEF Id
    <2>3. QED
      BY <2>1, <2>2 DEF FirstIds, lo, hi
  <1>6. ASSUME NEW x \in FirstIds(list, n - 1), x \in lo .. hi PROVE FALSE
    <2>1. PICK k \in 1 .. n - 1 : x <= list[k][2]
      BY <1>6 DEF FirstIds
    <2>2. QED
      BY <1>1, <1>4, <1>6, <2>1
  <1>7. QED
    BY <1>5, <1>6 DEF lo, hi

(* The sum of the lengths of an apart list is the number of its ids.        *)
LEMMA CoveredCounts ==
    ASSUME NEW list \in Seq(Interval), Apart(list)
    PROVE  Covered(list) = Cardinality(Listed(list))
  <1> DEFINE m == Len(list)
  <1>1. PICK f : /\ Covered(list) = f[m] /\ f[0] = 0
                 /\ \A n \in 1 .. m : f[n] = f[n - 1] + list[n][2] - list[n][1] + 1
    BY CoveredSteps
  <1> DEFINE S == {n \in 0 .. m : f[n] = Cardinality(FirstIds(list, n))}
  <1>2. m \in Nat
    OBVIOUS
  <1>3. 0 \in S
    <2>1. FirstIds(list, 0) = {}
      BY DEF FirstIds
    <2>2. f[0] = Cardinality(FirstIds(list, 0))
      BY <1>1, <2>1, FS_EmptySet
    <2>3. QED
      BY <1>2, <2>2
  <1>4. ASSUME NEW k \in 0 .. m, k < m, k \in S PROVE k + 1 \in S
    <2> DEFINE n == k + 1
               A == FirstIds(list, k)
               B == list[n][1] .. list[n][2]
    <2>1. n \in 1 .. m /\ n \in 0 .. m /\ n - 1 = k
      BY <1>2, <1>4
    <2>2. FirstIds(list, n) = A \cup B /\ A \cap B = {}
      BY <2>1, NextIds
    <2>3. list[n][1] \in Nat /\ list[n][2] \in Nat /\ list[n][1] <= list[n][2]
      BY <2>1, InList
    <2>4. IsFiniteSet(B) /\ Cardinality(B) = list[n][2] - list[n][1] + 1
      <3> DEFINE lo == list[n][1]
                 hi == list[n][2]
      <3>1. lo \in Int /\ hi \in Int /\ ~(lo > hi)
        BY <2>3
      <3> HIDE DEF lo, hi
      <3>2. /\ IsFiniteSet(lo .. hi)
            /\ Cardinality(lo .. hi) = IF lo > hi THEN 0 ELSE hi - lo + 1
        BY <3>1, FS_Interval
      <3>3. QED
        BY <3>1, <3>2 DEF lo, hi
    <2>5. IsFiniteSet(A) /\ Cardinality(A) \in Nat
      BY IdsAreFinite DEF FirstIds
    <2> HIDE DEF A, B
    <2>6. Cardinality(A \cup B) = Cardinality(A) + Cardinality(B) - Cardinality({})
      BY <2>2, <2>4, <2>5, FS_Union
    <2>7. Cardinality(A \cup B) = Cardinality(A) + Cardinality(B)
      BY <2>3, <2>4, <2>5, <2>6, FS_EmptySet
    <2>8. f[k] = Cardinality(A)
      BY <1>4 DEF A
    <2>9. f[n] = f[k] + list[n][2] - list[n][1] + 1
      BY <1>1, <2>1
    <2>10. f[n] = Cardinality(FirstIds(list, n))
      <3>1. f[n] = Cardinality(A) + Cardinality(B)
        BY <2>3, <2>4, <2>5, <2>8, <2>9
      <3>2. QED
        BY <2>2, <2>7, <3>1
    <2>11. QED
      BY <2>1, <2>10
  <1> HIDE DEF S, m
  <1>5. \A n \in 0 .. m : n \in S
    BY <1>2, <1>3, <1>4, Counting
  <1>6. f[m] = Cardinality(FirstIds(list, m))
    BY <1>2, <1>5 DEF S
  <1>7. QED
    BY <1>1, <1>6, AllIds DEF m

-----------------------------------------------------------------------------
(* The walk over the clipped intervals that finds the missing ones.         *)
EndsBefore(list, c) == \A k \in 1 .. Len(list) : list[k][2] + 1 < c

(* An interval behind the end of an apart list leaves it apart.             *)
LEMMA AppendedInterval ==
    ASSUME NEW list \in Seq(Interval), NEW i \in Interval, Apart(list), EndsBefore(list, i[1])
    PROVE  /\ Append(list, i) \in Seq(Interval) /\ Apart(Append(list, i))
           /\ \A x : x \in Listed(Append(list, i)) <=> x \in Listed(list) \/ x \in i[1] .. i[2]
           /\ \A c \in Int : c > i[2] + 1 => EndsBefore(Append(list, i), c)
  <1> DEFINE m == Len(list)
             new == Append(list, i)
  <1>1. /\ new \in Seq(Interval) /\ Len(new) = m + 1 /\ m \in Nat /\ new[m + 1] = i
        /\ \A k \in 1 .. m : new[k] = list[k]
    OBVIOUS
  <1>2. /\ \A k \in 1 .. m : list[k][1] \in Nat /\ list[k][2] \in Nat
        /\ \A k \in 1 .. m : list[k][2] + 1 < i[1]
        /\ \A k, n \in 1 .. m : k < n => list[n][1] > list[k][2] + 1
    BY InList, ApartPairs DEF EndsBefore
  <1>3. i[1] \in Nat /\ i[2] \in Nat /\ i[1] <= i[2]
    BY Intervals
  <1>4. \A x : x \in Listed(list) <=> x \in Int /\ \E n \in 1 .. m : list[n][1] <= x /\ x <= list[n][2]
    BY InListed
  <1>5. \A x : x \in Listed(new) <=>
            x \in Int /\ \E n \in 1 .. Len(new) : new[n][1] <= x /\ x <= new[n][2]
    BY <1>1, InListed
  <1>6. Apart(new) <=> \A k, n \in 1 .. Len(new) : k < n => new[n][1] > new[k][2] + 1
    BY <1>1, ApartPairs
  <1> HIDE DEF m, new
  <1>7. /\ m + 1 \in 1 .. m + 1 /\ \A k \in 1 .. m : k \in 1 .. m + 1
        /\ \A k \in 1 .. m + 1 : k \in 1 .. m \/ k = m + 1
    BY <1>1
  <1>8. Apart(new)
    <2>1. ASSUME NEW k \in 1 .. m + 1, NEW n \in 1 .. m + 1, k < n
          PROVE  new[n][1] > new[k][2] + 1
      <3>1. k \in 1 .. m
        BY <1>1, <2>1
      <3>2. CASE n = m + 1
        BY <1>1, <1>2, <1>3, <3>1, <3>2
      <3>3. CASE n \in 1 .. m
        BY <1>1, <1>2, <2>1, <3>1, <3>3
      <3>4. QED
        BY <1>7, <3>2, <3>3
    <2>2. QED
      BY <1>1, <1>6, <2>1
  <1>9. ASSUME NEW x PROVE x \in Listed(new) <=> x \in Listed(list) \/ x \in i[1] .. i[2]
    <2>1. x \in i[1] .. i[2] <=> x \in Int /\ i[1] <= x /\ x <= i[2]
      BY <1>3
    <2>2. QED
      BY <1>1, <1>4, <1>5, <1>7, <2>1
  <1>10. ASSUME NEW c \in Int, c > i[2] + 1 PROVE EndsBefore(new, c)
    <2>1. ASSUME NEW k \in 1 .. m + 1 PROVE new[k][2] + 1 < c
      <3>1. CASE k \in 1 .. m
        <4>1. new[k] = list[k] /\ list[k][2] \in Nat /\ list[k][2] + 1 < i[1]
          BY <1>1, <1>2, <3>1
        <4>2. list[k][2] + 1 < c
          BY <1>3, <1>10, <4>1
        <4>3. QED
          BY <4>1, <4>2
      <3>2. CASE k = m + 1
        BY <1>1, <1>10, <3>2
      <3>3. QED
        BY <1>7, <3>1, <3>2
    <2>2. QED
      BY <1>1, <2>1 DEF EndsBefore
  <1>11. QED
    BY <1>1, <1>8, <1>9, <1>10 DEF new

Walk == [cursor : Nat \ {0}, missing : Seq(Interval)]

(* One interval of the loop over the clipped intervals.                     *)
LEMMA PassedKeeps ==
    ASSUME NEW walk \in Walk, NEW i \in Interval
    PROVE  /\ Passed(walk, i) \in Walk
           /\ Passed(walk, i).cursor = Higher(walk.cursor, i[2] + 1)
           /\ i[1] > walk.cursor => /\ <<walk.cursor, i[1] - 1>> \in Interval
                                    /\ Passed(walk, i).missing =
                                           Append(walk.missing, <<walk.cursor, i[1] - 1>>)
           /\ ~(i[1] > walk.cursor) => Passed(walk, i).missing = walk.missing
  <1>1. walk.cursor \in Nat /\ walk.cursor >= 1 /\ walk.missing \in Seq(Interval)
    BY DEF Walk
  <1>2. i[1] \in Nat /\ i[2] \in Nat /\ i[1] <= NumIds /\ NumIds \in Nat
    BY Intervals, VerificationAssumption
  <1>3. Higher(walk.cursor, i[2] + 1) \in Nat \ {0}
    BY <1>1, <1>2 DEF Higher
  <1>4. i[1] > walk.cursor => <<walk.cursor, i[1] - 1>> \in Interval
    BY <1>1, <1>2, IsInterval
  <1> DEFINE c == Higher(walk.cursor, i[2] + 1)
             gap == <<walk.cursor, i[1] - 1>>
             list == IF i[1] > walk.cursor THEN Append(walk.missing, gap) ELSE walk.missing
  <1>5. Passed(walk, i) = [cursor |-> c, missing |-> list]
    BY DEF Passed
  <1>6. list \in Seq(Interval)
    <2> HIDE DEF gap
    <2>1. i[1] > walk.cursor => Append(walk.missing, gap) \in Seq(Interval)
      BY <1>1, <1>4 DEF gap
    <2>2. QED
      BY <1>1, <2>1
  <1> HIDE DEF list, c
  <1>7. [cursor |-> c, missing |-> list] \in Walk
    BY <1>3, <1>6 DEF Walk, c
  <1>8. Passed(walk, i) \in Walk /\ Passed(walk, i).cursor = c /\ Passed(walk, i).missing = list
    BY <1>5, <1>7
  <1>9. QED
    BY <1>4, <1>8 DEF list, c

(* The recursive function of Walked exists.                                 *)
LEMMA WalkedSteps ==
    ASSUME NEW list \in Seq(Interval), NEW d \in Interval
    PROVE  \E f : /\ Walked(list, d) = f[Len(list)]
                  /\ f[0] = [cursor |-> d[1], missing |-> <<>>]
                  /\ \A n \in 0 .. Len(list) : f[n] \in Walk
                  /\ \A n \in 1 .. Len(list) : f[n] = Passed(f[n - 1], list[n])
  <1> DEFINE m == Len(list)
             T == Walk
             base == [cursor |-> d[1], missing |-> <<>>]
             Right(f) == f = [n \in 0 .. m |->
                                IF n = 0 THEN base ELSE Passed(f[n - 1], list[n])]
             step == [n \in 1 .. m |-> [t \in T |-> Passed(t, list[n])]]
             f == CHOOSE g : Right(g)
  <1>1. m \in Nat /\ \A n \in 1 .. m : list[n] \in Interval
    OBVIOUS
  <1>2. \A n \in 1 .. m, t \in T : Passed(t, list[n]) \in T
    BY <1>1, PassedKeeps
  <1>3. base \in T
    <2>1. d[1] \in Nat \ {0}
      BY Intervals
    <2>2. QED
      BY <2>1 DEF Walk
  <1>4. \A n \in 1 .. m, t \in T : step[n][t] = Passed(t, list[n])
    OBVIOUS
  <1>5. StaysIn(T, m, step)
    BY <1>2, <1>4 DEF StaysIn
  <1>6. Walked(list, d) = f[m]
    BY DEF Walked
  <1> HIDE DEF T, m, step, base
  <1>7. PICK g \in [0 .. m -> T] : g[0] = base /\ \A n \in 1 .. m : g[n] = step[n][g[n - 1]]
    <2>1. Recurs(T, m, base, step)
      BY <1>1, <1>3, <1>5, Recursion
    <2>2. QED
      BY <2>1 DEF Recurs
  <1>8. Right(g)
    <2>1. \A n \in 1 .. m : n - 1 \in 0 .. m
      BY <1>1
    <2>2. \A n \in 1 .. m : g[n] = Passed(g[n - 1], list[n])
      BY <1>4, <1>7, <2>1
    <2>3. \A n \in 0 .. m : n = 0 \/ n \in 1 .. m
      BY <1>1
    <2>4. \A n \in 0 .. m : g[n] = IF n = 0 THEN base ELSE Passed(g[n - 1], list[n])
      BY <1>7, <2>2, <2>3
    <2>5. QED
      BY <1>7, <2>4
  <1>9. Right(f)
    <2> HIDE DEF Right
    <2>1. QED
      BY <1>8
  <1> HIDE DEF f
  <1>10. f[0] = base /\ \A n \in 1 .. m : f[n] = Passed(f[n - 1], list[n])
    <2>1. 0 \in 0 .. m /\ \A n \in 1 .. m : n \in 0 .. m /\ n # 0
      BY <1>1
    <2>2. QED
      BY <1>9, <2>1
  <1>11. \A n \in 0 .. m : f[n] \in T
    <2> DEFINE S == {n \in 0 .. m : f[n] \in T}
    <2>1. 0 \in S
      BY <1>1, <1>3, <1>10
    <2>2. ASSUME NEW n \in 0 .. m, n < m, n \in S PROVE n + 1 \in S
      <3>1. n + 1 \in 1 .. m /\ n + 1 \in 0 .. m /\ (n + 1) - 1 = n
        BY <1>1, <2>2
      <3>2. QED
        BY <1>2, <1>10, <2>2, <3>1
    <2> HIDE DEF S
    <2>3. \A n \in 0 .. m : n \in S
      BY <1>1, <2>1, <2>2, Counting
    <2>4. QED
      BY <2>3 DEF S
  <1>12. QED
    BY <1>6, <1>10, <1>11 DEF T, m, base

(* An interval behind the cursor: what is between them is missing.          *)
LEMMA PassedWalk ==
    ASSUME NEW walk \in Walk, NEW i \in Interval, Apart(walk.missing),
           EndsBefore(walk.missing, walk.cursor), walk.cursor <= i[1]
    PROVE  /\ Passed(walk, i).cursor = i[2] + 1
           /\ Apart(Passed(walk, i).missing)
           /\ EndsBefore(Passed(walk, i).missing, i[2] + 1)
           /\ \A x : x \in Listed(Passed(walk, i).missing) <=>
                         x \in Listed(walk.missing) \/ x \in walk.cursor .. i[1] - 1
  <1> DEFINE c == walk.cursor
             old == walk.missing
             new == Passed(walk, i).missing
             gap == <<c, i[1] - 1>>
  <1>1. c \in Nat /\ old \in Seq(Interval)
    BY DEF Walk
  <1>2. i[1] \in Nat /\ i[2] \in Nat /\ i[1] <= i[2]
    BY Intervals
  <1>3. Passed(walk, i).cursor = i[2] + 1
    <2>1. Passed(walk, i).cursor = Higher(c, i[2] + 1)
      BY PassedKeeps
    <2>2. Higher(c, i[2] + 1) = i[2] + 1
      BY <1>1, <1>2 DEF Higher
    <2>3. QED
      BY <2>1, <2>2
  <1> HIDE DEF c, old
  <1>4. CASE i[1] > c
    <2>1. gap \in Interval /\ new = Append(old, gap)
      BY <1>4, PassedKeeps DEF c, old
    <2>2. gap[1] = c /\ gap[2] = i[1] - 1
      OBVIOUS
    <2> HIDE DEF gap, new
    <2>3. Apart(old) /\ EndsBefore(old, gap[1])
      BY <2>2 DEF c, old
    <2>4. /\ Apart(new)
          /\ \A x : x \in Listed(new) <=> x \in Listed(old) \/ x \in gap[1] .. gap[2]
          /\ \A b \in Int : b > gap[2] + 1 => EndsBefore(new, b)
      BY <1>1, <2>1, <2>3, AppendedInterval
    <2>5. EndsBefore(new, i[2] + 1)
      <3>1. i[2] + 1 \in Int /\ i[2] + 1 > gap[2] + 1
        BY <1>2, <2>2
      <3>2. QED
        BY <2>4, <3>1
    <2>6. QED
      BY <1>3, <2>2, <2>4, <2>5 DEF new, old, c
  <1>5. CASE ~(i[1] > c)
    <2>1. new = old
      BY <1>5, PassedKeeps DEF c, old
    <2>2. c = i[1]
      BY <1>1, <1>2, <1>5 DEF c
    <2>3. \A x : x \notin c .. i[1] - 1
      BY <1>2, <2>2
    <2>4. EndsBefore(old, i[2] + 1)
      <3>1. \A k \in 1 .. Len(old) : old[k][2] + 1 < c /\ old[k][2] \in Nat
        BY <1>1, InList DEF EndsBefore, c, old
      <3>2. QED
        BY <1>2, <2>2, <3>1 DEF EndsBefore
    <2> HIDE DEF new
    <2>5. QED
      BY <1>3, <2>1, <2>3, <2>4 DEF new, old, c
  <1>6. QED
    BY <1>4, <1>5

(* The missing intervals of an apart list within d.                         *)
Within(list, d) == \A n \in 1 .. Len(list) : d[1] <= list[n][1] /\ list[n][2] <= d[2]

(* The loop over the clipped intervals, all of it.                         *)
LEMMA WalkedIds ==
    ASSUME NEW list \in Seq(Interval), NEW d \in Interval, Apart(list), Within(list, d)
    PROVE  LET walk == Walked(list, d)
           IN  /\ walk \in Walk /\ Apart(walk.missing) /\ EndsBefore(walk.missing, walk.cursor)
               /\ walk.cursor >= d[1] /\ walk.cursor <= d[2] + 1
               /\ Len(list) > 0 => walk.cursor = list[Len(list)][2] + 1
               /\ \A x : x \in Listed(walk.missing) <=>
                            x \in d[1] .. walk.cursor - 1 /\ x \notin Listed(list)
  <1> DEFINE m == Len(list)
  <1>1. PICK f : /\ Walked(list, d) = f[m]
                 /\ f[0] = [cursor |-> d[1], missing |-> <<>>]
                 /\ \A n \in 0 .. m : f[n] \in Walk
                 /\ \A n \in 1 .. m : f[n] = Passed(f[n - 1], list[n])
    BY WalkedSteps
  <1>2. m \in Nat /\ \A n \in 1 .. m : list[n] \in Interval
    OBVIOUS
  <1>3. /\ \A n \in 1 .. m : /\ list[n][1] \in Nat /\ list[n][2] \in Nat
                             /\ list[n][1] <= list[n][2]
                             /\ d[1] <= list[n][1] /\ list[n][2] <= d[2]
        /\ \A k, n \in 1 .. m : k < n => list[n][1] > list[k][2] + 1
    BY InList, ApartPairs DEF Within
  <1>4. /\ d[1] \in Nat /\ d[2] \in Nat /\ 1 <= d[1] /\ d[2] <= NumIds /\ NumIds \in Nat
        /\ d[1] <= d[2]
    BY Intervals, VerificationAssumption
  <1> HIDE DEF m
  <1> DEFINE Holds(n) == /\ f[n].cursor = IF n = 0 THEN d[1] ELSE list[n][2] + 1
                         /\ Apart(f[n].missing) /\ EndsBefore(f[n].missing, f[n].cursor)
                         /\ \A x : x \in Listed(f[n].missing) <=>
                                x \in d[1] .. f[n].cursor - 1 /\ x \notin FirstIds(list, n)
  <1>5. Holds(0)
    <2>1. <<>> \in Seq(Interval) /\ Len(<<>>) = 0
      OBVIOUS
    <2>2. Apart(<<>>) /\ Listed(<<>>) = {} /\ EndsBefore(<<>>, d[1])
      BY <2>1 DEF Apart, Listed, EndsBefore
    <2>3. \A x : x \notin d[1] .. d[1] - 1
      BY <1>4
    <2>4. QED
      BY <1>1, <2>2, <2>3
  <1>6. ASSUME NEW k \in 0 .. m, k < m, Holds(k) PROVE Holds(k + 1)
    <2> DEFINE n == k + 1
               c == f[k].cursor
               lo == list[n][1]
               hi == list[n][2]
    <2>1. n \in 1 .. m /\ n \in 0 .. m /\ n - 1 = k /\ n # 0 /\ k \in Nat
      BY <1>2, <1>6
    <2>2. f[n] = Passed(f[k], list[n]) /\ f[k] \in Walk /\ list[n] \in Interval
      BY <1>1, <1>2, <2>1
    <2>3. lo \in Nat /\ hi \in Nat /\ lo <= hi /\ d[1] <= lo /\ hi <= d[2]
      BY <1>3, <2>1
    <2>4. c \in Nat /\ d[1] <= c /\ c <= lo
      <3> HIDE DEF n, c, lo, hi
      <3>1. CASE k = 0
        <4>1. c = d[1]
          BY <1>6, <3>1 DEF c
        <4>2. QED
          BY <1>4, <2>3, <4>1
      <3>2. CASE k # 0
        <4>1. k \in 1 .. m /\ k < n
          BY <2>1, <3>2
        <4>2. lo > list[k][2] + 1 /\ list[k][2] \in Nat /\ d[1] <= list[k][2]
          <5>1. lo > list[k][2] + 1
            BY <1>3, <2>1, <4>1 DEF lo
          <5>2. list[k][1] \in Nat /\ list[k][2] \in Nat
            BY <1>3, <4>1
          <5>3. list[k][1] <= list[k][2] /\ d[1] <= list[k][1]
            BY <1>3, <4>1
          <5>4. QED
            BY <1>4, <5>1, <5>2, <5>3
        <4>3. c = list[k][2] + 1
          BY <1>6, <3>2 DEF c
        <4>4. c \in Nat /\ c <= lo
          BY <2>3, <4>2, <4>3
        <4>5. d[1] \in Nat /\ d[1] <= c
          BY <1>4, <4>2, <4>3
        <4>6. QED
          BY <4>4, <4>5
      <3>3. QED
        BY <3>1, <3>2
    <2>5. Apart(f[k].missing) /\ EndsBefore(f[k].missing, f[k].cursor) /\ f[k].cursor <= list[n][1]
      BY <1>6, <2>4
    <2>6. /\ f[n].cursor = hi + 1 /\ Apart(f[n].missing) /\ EndsBefore(f[n].missing, hi + 1)
          /\ \A x : x \in Listed(f[n].missing) <=>
                        x \in Listed(f[k].missing) \/ x \in c .. lo - 1
      BY <2>2, <2>5, PassedWalk
    <2>7. /\ FirstIds(list, n) = FirstIds(list, k) \cup (lo .. hi)
          /\ FirstIds(list, k) \cap (lo .. hi) = {}
      <3> HIDE DEF n, c, lo, hi
      <3>1. /\ FirstIds(list, n) = FirstIds(list, n - 1) \cup (list[n][1] .. list[n][2])
            /\ FirstIds(list, n - 1) \cap (list[n][1] .. list[n][2]) = {}
        BY <2>1, NextIds DEF m
      <3>2. QED
        BY <2>1, <3>1 DEF lo, hi
    <2>8. \A x : x \in Listed(f[k].missing) <=> x \in d[1] .. c - 1 /\ x \notin FirstIds(list, k)
      BY <1>6
    <2>9. \A x \in FirstIds(list, k) : x \in Int /\ x < c
      <3>1. ASSUME NEW x \in FirstIds(list, k) PROVE x \in Int /\ x < c
        <4>1. PICK j \in 1 .. k : list[j][1] <= x /\ x <= list[j][2]
          BY DEF FirstIds
        <4>2. x \in Int /\ j \in 1 .. m /\ k \in 1 .. m /\ k # 0
          BY <1>2, <2>1, <1>6 DEF FirstIds, Id
        <4>3. j = k \/ (j < k /\ list[k][1] > list[j][2] + 1)
          <5>1. j = k \/ j < k
            BY <2>1, <4>2
          <5>2. j < k => list[k][1] > list[j][2] + 1
            BY <1>3, <4>2
          <5>3. QED
            BY <5>1, <5>2
        <4>4. c = list[k][2] + 1
          BY <1>6, <4>2
        <4>5. /\ list[j][2] \in Nat /\ list[k][1] \in Nat /\ list[k][2] \in Nat
              /\ list[k][1] <= list[k][2]
          BY <1>3, <4>2
        <4>6. x <= list[k][2]
          <5>1. CASE j = k
            BY <4>1, <5>1
          <5>2. CASE list[k][1] > list[j][2] + 1
            BY <4>1, <4>2, <4>5, <5>2
          <5>3. QED
            BY <4>3, <5>1, <5>2
        <4>7. QED
          BY <4>2, <4>4, <4>5, <4>6
      <3>2. QED
        BY <3>1
    <2> HIDE DEF n, c, lo, hi
    <2>10. ASSUME NEW x
           PROVE  x \in Listed(f[n].missing) <=>
                      x \in d[1] .. hi /\ x \notin FirstIds(list, n)
      <3>1. x \in Listed(f[n].missing) <=>
                (x \in d[1] .. c - 1 /\ x \notin FirstIds(list, k)) \/ x \in c .. lo - 1
        BY <2>6, <2>8
      <3>2. x \in FirstIds(list, n) <=> x \in FirstIds(list, k) \/ x \in lo .. hi
        BY <2>7
      <3>3. x \in FirstIds(list, k) => x \in Int /\ x < c
        BY <2>9
      <3>4. QED
        BY <1>4, <2>3, <2>4, <3>1, <3>2, <3>3
    <2>11. hi + 1 - 1 = hi
      BY <2>3
    <2>12. Holds(n)
      <3>1. f[n].cursor = list[n][2] + 1 /\ f[n].cursor = IF n = 0 THEN d[1] ELSE list[n][2] + 1
        BY <2>1, <2>6 DEF hi
      <3>2. f[n].cursor - 1 = hi /\ hi + 1 = f[n].cursor
        BY <2>3, <2>6, <2>11
      <3>3. QED
        BY <2>6, <2>10, <3>1, <3>2, Zenon
    <2>13. QED
      BY <2>12 DEF n
  <1> DEFINE S == {n \in 0 .. m : Holds(n)}
  <1>7. \A n \in 0 .. m : n \in S
    <2> HIDE DEF Holds
    <2>1. 0 \in S
      BY <1>2, <1>5
    <2>2. ASSUME NEW n \in 0 .. m, n < m, n \in S PROVE n + 1 \in S
      <3>1. n + 1 \in 0 .. m
        BY <1>2, <2>2
      <3>2. QED
        BY <1>6, <2>2, <3>1
    <2> HIDE DEF S
    <2>3. QED
      BY <1>2, <2>1, <2>2, Counting
  <1>8. Holds(m) /\ f[m] \in Walk
    <2> HIDE DEF Holds
    <2>1. QED
      BY <1>1, <1>2, <1>7
  <1>9. Listed(list) = FirstIds(list, m)
    BY AllIds DEF m
  <1>10. f[m].cursor >= d[1] /\ f[m].cursor <= d[2] + 1 /\ (m > 0 => f[m].cursor = list[m][2] + 1)
    <2>1. CASE m = 0
      BY <1>4, <1>8, <2>1
    <2>2. CASE m # 0
      <3>1. m \in 1 .. m
        BY <1>2, <2>2
      <3>2. d[1] <= list[m][1] /\ list[m][1] <= list[m][2] /\ list[m][1] \in Nat /\ list[m][2] \in Nat
        BY <1>3, <3>1
      <3>3. f[m].cursor = list[m][2] + 1 /\ list[m][2] <= d[2]
        BY <1>3, <1>8, <2>2, <3>1
      <3>4. d[1] \in Nat /\ d[2] \in Nat
        BY <1>4
      <3>5. f[m].cursor >= d[1] /\ f[m].cursor <= d[2] + 1
        BY <3>2, <3>3, <3>4
      <3>6. QED
        BY <3>3, <3>5
    <2>3. QED
      BY <2>1, <2>2
  <1>11. QED
    BY <1>1, <1>8, <1>9, <1>10 DEF m

(* What is missing: all of d that the list does not hold.                   *)
LEMMA MissingIds ==
    ASSUME NEW list \in Seq(Interval), NEW d \in Interval, Apart(list), Within(list, d)
    PROVE  /\ Missing(list, d) \in Seq(Interval) /\ Apart(Missing(list, d))
           /\ \A x : x \in Listed(Missing(list, d)) <=> x \in d[1] .. d[2] /\ x \notin Listed(list)
  <1> DEFINE walk == Walked(list, d)
             rest == <<walk.cursor, d[2]>>
  <1>1. /\ walk \in Walk /\ Apart(walk.missing) /\ EndsBefore(walk.missing, walk.cursor)
        /\ walk.cursor >= d[1] /\ walk.cursor <= d[2] + 1
        /\ Len(list) > 0 => walk.cursor = list[Len(list)][2] + 1
        /\ \A x : x \in Listed(walk.missing) <=>
                     x \in d[1] .. walk.cursor - 1 /\ x \notin Listed(list)
    BY WalkedIds
  <1>2. d[1] \in Nat /\ d[2] \in Nat /\ 1 <= d[1] /\ d[2] <= NumIds /\ NumIds \in Nat /\ d[1] <= d[2]
    BY Intervals, VerificationAssumption
  <1>3. Missing(list, d) = IF walk.cursor <= d[2] THEN Append(walk.missing, rest) ELSE walk.missing
    BY DEF Missing
  <1> HIDE DEF walk
  <1>4. walk.cursor \in Nat /\ walk.missing \in Seq(Interval)
    BY <1>1 DEF Walk
  <1>5. ASSUME NEW x \in Listed(list) PROVE x \in Int /\ x < walk.cursor /\ x <= d[2]
    <2>1. PICK n \in 1 .. Len(list) : x \in Int /\ list[n][1] <= x /\ x <= list[n][2]
      BY InListed
    <2>2. Len(list) \in 1 .. Len(list) /\ Len(list) > 0
      OBVIOUS
    <2>3. /\ list[n][2] \in Nat /\ list[n][2] <= d[2]
          /\ list[Len(list)][1] \in Nat /\ list[Len(list)][2] \in Nat
          /\ list[Len(list)][1] <= list[Len(list)][2]
      BY <2>2, InList DEF Within
    <2>4. n = Len(list) \/ list[Len(list)][1] > list[n][2] + 1
      <3>1. n = Len(list) \/ n < Len(list)
        OBVIOUS
      <3>2. QED
        BY <2>2, <3>1, ApartPairs
    <2>5. x <= list[Len(list)][2]
      <3>1. CASE n = Len(list)
        BY <2>1, <3>1
      <3>2. CASE list[Len(list)][1] > list[n][2] + 1
        <4>1. \A a, b, c \in Nat : b > a + 1 /\ b <= c => a <= c
          OBVIOUS
        <4>2. list[n][2] <= list[Len(list)][2]
          BY <2>3, <3>2, <4>1
        <4>3. \A a, c \in Nat : x <= a /\ a <= c => x <= c
          BY <2>1
        <4>4. QED
          BY <2>1, <2>3, <4>2, <4>3
      <3>3. QED
        BY <2>4, <3>1, <3>2
    <2>6. walk.cursor = list[Len(list)][2] + 1
      BY <1>1, <2>2
    <2>7. x <= d[2]
      BY <1>2, <2>1, <2>3
    <2>8. QED
      BY <2>1, <2>3, <2>5, <2>6, <2>7
  <1>6. CASE walk.cursor <= d[2]
    <2>1. rest \in Interval /\ rest[1] = walk.cursor /\ rest[2] = d[2]
      BY <1>1, <1>2, <1>4, <1>6, IsInterval
    <2> HIDE DEF rest
    <2>2. /\ Append(walk.missing, rest) \in Seq(Interval) /\ Apart(Append(walk.missing, rest))
          /\ \A x : x \in Listed(Append(walk.missing, rest)) <=>
                        x \in Listed(walk.missing) \/ x \in rest[1] .. rest[2]
      BY <1>1, <1>4, <2>1, AppendedInterval
    <2>3. ASSUME NEW x
          PROVE  x \in Listed(walk.missing) \/ x \in rest[1] .. rest[2] <=>
                     x \in d[1] .. d[2] /\ x \notin Listed(list)
      <3>1. x \in Listed(walk.missing) <=> x \in d[1] .. walk.cursor - 1 /\ x \notin Listed(list)
        BY <1>1
      <3>2. x \in Listed(list) => x \in Int /\ x < walk.cursor
        BY <1>5
      <3>3. QED
        BY <1>1, <1>2, <1>4, <1>6, <2>1, <3>1, <3>2
    <2>4. QED
      BY <1>3, <1>6, <2>2, <2>3
  <1>7. CASE ~(walk.cursor <= d[2])
    <2>1. ASSUME NEW x
          PROVE  x \in Listed(walk.missing) <=> x \in d[1] .. d[2] /\ x \notin Listed(list)
      <3>1. x \in Listed(walk.missing) <=> x \in d[1] .. walk.cursor - 1 /\ x \notin Listed(list)
        BY <1>1
      <3>2. walk.cursor = d[2] + 1
        BY <1>1, <1>2, <1>4, <1>7
      <3>3. QED
        BY <1>2, <1>4, <3>1, <3>2
    <2>2. QED
      BY <1>1, <1>3, <1>4, <1>7, <2>1
  <1>8. QED
    BY <1>6, <1>7

-----------------------------------------------------------------------------
(* coverage_summary.                                                        *)
LEMMA ClippedIds ==
    ASSUME NEW list \in Seq(Interval), NEW d \in Interval
    PROVE  LET clipped == Clipped(ToSet(list), d)
           IN  /\ clipped \in Seq(Interval) /\ Apart(clipped) /\ Within(clipped, d)
               /\ \A x : x \in Listed(clipped) <=> x \in Listed(list) /\ x \in d[1] .. d[2]
  <1> DEFINE clipped == Clipped(ToSet(list), d)
             Cut(i) == <<Higher(i[1], d[1]), Lower(i[2], d[2])>>
             Met == {i \in ToSet(list) : i[2] >= d[1] /\ i[1] <= d[2]}
             S == {Cut(i) : i \in Met}
  <1>1. d[1] \in Nat /\ d[2] \in Nat /\ 1 <= d[1] /\ d[1] <= d[2] /\ d[2] <= NumIds
    BY Intervals
  <1>2. \A i : i \in ToSet(list) <=> \E n \in 1 .. Len(list) : list[n] = i
    BY DEF ToSet
  <1>3. ASSUME NEW i \in Met
        PROVE  /\ Cut(i) \in Interval
               /\ \A x : x \in Cut(i)[1] .. Cut(i)[2] <=> x \in i[1] .. i[2] /\ x \in d[1] .. d[2]
    <2>1. i[1] \in Nat /\ i[2] \in Nat /\ 1 <= i[1] /\ i[1] <= i[2] /\ i[2] <= NumIds
      BY <1>2, Intervals
    <2>2. i[2] >= d[1] /\ i[1] <= d[2]
      OBVIOUS
    <2> DEFINE a == Higher(i[1], d[1])
               b == Lower(i[2], d[2])
    <2>3. /\ a \in Nat /\ b \in Nat /\ 1 <= a /\ a <= b /\ b <= NumIds
          /\ a = (IF i[1] > d[1] THEN i[1] ELSE d[1]) /\ b = (IF i[2] < d[2] THEN i[2] ELSE d[2])
      BY <1>1, <2>1, <2>2 DEF Higher, Lower
    <2> HIDE DEF a, b
    <2>4. <<a, b>> \in Interval /\ <<a, b>>[1] = a /\ <<a, b>>[2] = b
      BY <2>3, IsInterval
    <2>5. \A x : x \in a .. b <=> x \in i[1] .. i[2] /\ x \in d[1] .. d[2]
      BY <1>1, <2>1, <2>2, <2>3
    <2>6. QED
      BY <2>4, <2>5 DEF a, b
  <1> HIDE DEF Cut
  <1>4. S \in SUBSET Interval
    BY <1>3
  <1>5. clipped = MergeIntervals(S)
    BY DEF Clipped, Cut
  <1>6. \A x : (\E j \in S : x \in j[1] .. j[2]) <=> \E i \in Met : x \in Cut(i)[1] .. Cut(i)[2]
    OBVIOUS
  <1> HIDE DEF S
  <1>7. /\ clipped \in Seq(Interval) /\ Apart(clipped)
        /\ \A x : x \in Listed(clipped) <=> \E i \in S : x \in i[1] .. i[2]
    BY <1>4, <1>5, MergeIntervalsLists
  <1>8. ASSUME NEW x PROVE x \in Listed(clipped) <=> x \in Listed(list) /\ x \in d[1] .. d[2]
    <2>1. x \in Listed(clipped) <=> \E i \in Met : x \in i[1] .. i[2] /\ x \in d[1] .. d[2]
      BY <1>3, <1>6, <1>7
    <2>2. \A n \in 1 .. Len(list) : list[n][1] \in Nat /\ list[n][2] \in Nat
      BY InList
    <2>3. ASSUME NEW n \in 1 .. Len(list), x \in list[n][1] .. list[n][2], x \in d[1] .. d[2]
          PROVE  list[n] \in Met
      BY <1>1, <1>2, <2>2, <2>3
    <2>4. x \in Listed(list) <=> \E n \in 1 .. Len(list) : x \in list[n][1] .. list[n][2]
      BY <2>2, InListed
    <2>5. QED
      BY <1>2, <2>1, <2>3, <2>4
  <1>9. Within(clipped, d)
    <2> HIDE DEF clipped
    <2>1. ASSUME NEW n \in 1 .. Len(clipped)
          PROVE  d[1] <= clipped[n][1] /\ clipped[n][2] <= d[2]
      <3>1. /\ clipped[n][1] \in Nat /\ clipped[n][2] \in Nat
            /\ clipped[n][1] <= clipped[n][2]
        BY <1>7, InList
      <3>2. clipped[n][1] \in Listed(clipped) /\ clipped[n][2] \in Listed(clipped)
        BY <1>7, <3>1, InListed
      <3>3. clipped[n][1] \in d[1] .. d[2] /\ clipped[n][2] \in d[1] .. d[2]
        BY <1>8, <3>2
      <3>4. QED
        BY <1>1, <3>3
    <2>2. QED
      BY <2>1 DEF Within
  <1>10. QED
    BY <1>7, <1>8, <1>9

(* A summary counts the ids within d and lists the others.                  *)
LEMMA SummaryIds ==
    ASSUME NEW list \in Seq(Interval), NEW d \in Interval
    PROVE  LET summary == Summary(list, d)
           IN  /\ summary.missing \in Seq(Interval) /\ Apart(summary.missing)
               /\ Listed(summary.missing) = (d[1] .. d[2]) \ Listed(list)
               /\ summary.covered = Cardinality((d[1] .. d[2]) \cap Listed(list))
  <1> DEFINE whole == MergeIntervals(ToSet(list))
             clipped == Clipped(ToSet(whole), d)
  <1>1. Summary(list, d) = [covered |-> Covered(clipped), missing |-> Missing(clipped, d)]
    BY DEF Summary
  <1>2. ToSet(list) \in SUBSET Interval
    BY DEF ToSet
  <1>3. /\ whole \in Seq(Interval)
        /\ \A x : x \in Listed(whole) <=> \E i \in ToSet(list) : x \in i[1] .. i[2]
    BY <1>2, MergeIntervalsLists
  <1>4. \A x : x \in Listed(list) <=> \E i \in ToSet(list) : x \in i[1] .. i[2]
    BY DEF Listed, ToSet
  <1> HIDE DEF whole
  <1>5. /\ clipped \in Seq(Interval) /\ Apart(clipped) /\ Within(clipped, d)
        /\ \A x : x \in Listed(clipped) <=> x \in Listed(whole) /\ x \in d[1] .. d[2]
    BY <1>3, ClippedIds
  <1> HIDE DEF clipped
  <1>6. \A x : x \in Listed(clipped) <=> x \in Listed(list) /\ x \in d[1] .. d[2]
    BY <1>3, <1>4, <1>5
  <1>7. /\ Missing(clipped, d) \in Seq(Interval) /\ Apart(Missing(clipped, d))
        /\ \A x : x \in Listed(Missing(clipped, d)) <=> x \in d[1] .. d[2] /\ x \notin Listed(clipped)
    BY <1>5, MissingIds
  <1>8. Covered(clipped) = Cardinality(Listed(clipped))
    BY <1>5, CoveredCounts
  <1>9. Listed(clipped) = (d[1] .. d[2]) \cap Listed(list)
    BY <1>6
  <1>10. Listed(Missing(clipped, d)) = (d[1] .. d[2]) \ Listed(list)
    <2>1. \A x : x \in Listed(Missing(clipped, d)) <=> x \in (d[1] .. d[2]) \ Listed(list)
      BY <1>6, <1>7
    <2>2. QED
      BY <2>1
  <1>11. QED
    BY <1>1, <1>7, <1>8, <1>9, <1>10

-----------------------------------------------------------------------------
(* The intervals of a source's events, and of all sources'.                 *)
LEMMA InIds ==
    ASSUME NEW E, NEW x
    PROVE  x \in IdsOf(E) <=> \E e \in E : x \in e.ids[1] .. e.ids[2]
  BY DEF IdsOf

(* What _source_intervals returns, in file order and in any.                *)
LEMMA SourceLists ==
    ASSUME NEW events \in Seq(Event)
    PROVE  /\ SourceIntervals(events) \in Seq(Interval)
           /\ SourceIntervals(events) = <<>> <=> events = <<>>
           /\ Listed(SourceIntervals(events)) \subseteq IdsOf(ToSet(events))
           /\ (\A i, j \in DOMAIN events : i < j => ~Smaller(events[j].ids, events[i].ids))
              => Listed(SourceIntervals(events)) = IdsOf(ToSet(events))
  <1> DEFINE m == Len(events)
             seq == [n \in 1 .. m |-> events[n].ids]
  <1>1. m \in Nat /\ DOMAIN events = 1 .. m /\ \A n \in 1 .. m : events[n] \in Event
    OBVIOUS
  <1>2. \A n \in 1 .. m : events[n].ids \in Interval
    BY <1>1 DEF Event
  <1>3. seq \in Seq(Interval) /\ Len(seq) = m /\ \A n \in 1 .. m : seq[n] = events[n].ids
    BY <1>1, <1>2
  <1>4. SourceIntervals(events) = Merged(seq)
    BY DEF SourceIntervals
  <1>5. (seq = <<>> <=> m = 0) /\ (events = <<>> <=> m = 0)
    <2> HIDE DEF seq
    <2>1. QED
      BY <1>3
  <1> HIDE DEF seq, m
  <1>6. /\ Merged(seq) \in Seq(Interval) /\ (Merged(seq) = <<>> <=> seq = <<>>)
        /\ Listed(Merged(seq)) \subseteq Listed(seq)
        /\ Rising(seq) => Listed(Merged(seq)) = Listed(seq)
    BY <1>3, MergedLists
  <1>7. Listed(seq) = IdsOf(ToSet(events))
    <2>1. DOMAIN seq = 1 .. m
      BY <1>3
    <2>2. \A x : x \in Listed(seq) <=> \E n \in 1 .. m : x \in events[n].ids[1] .. events[n].ids[2]
      BY <1>3, <2>1 DEF Listed
    <2>3. \A e : e \in ToSet(events) <=> \E n \in 1 .. m : events[n] = e
      BY <1>1 DEF ToSet
    <2>4. \A x : x \in Listed(seq) <=> x \in IdsOf(ToSet(events))
      BY <2>2, <2>3, InIds
    <2>5. QED
      BY <2>4
  <1>8. ASSUME \A i, j \in DOMAIN events : i < j => ~Smaller(events[j].ids, events[i].ids)
        PROVE  Rising(seq)
    <2>1. DOMAIN seq = 1 .. m
      BY <1>3
    <2>2. ASSUME NEW i \in 1 .. m, NEW j \in 1 .. m, i < j PROVE seq[i][1] <= seq[j][1]
      <3>1. ~Smaller(events[j].ids, events[i].ids)
        BY <1>1, <1>8, <2>2
      <3>2. seq[i][1] \in Nat /\ seq[j][1] \in Nat
        BY <1>2, <1>3, Intervals
      <3>3. QED
        BY <1>3, <3>1, <3>2 DEF Smaller
    <2>3. QED
      BY <2>1, <2>2 DEF Rising
  <1>9. QED
    BY <1>4, <1>5, <1>6, <1>7, <1>8

(* In any order, an event adds to the list those of its ids that are beyond *)
(* the ends of all the events before it.                                    *)
PastEnd(list, x) == Len(list) > 0 => list[Len(list)][2] < x

(* What an interval adds to a list in any order.                            *)
LEMMA ExtendedPast ==
    ASSUME NEW list \in Seq(Interval), NEW i \in Interval, NEW x \in Int
    PROVE  /\ PastEnd(Extended(list, i), x) <=> PastEnd(list, x) /\ i[2] < x
           /\ x \in Listed(Extended(list, i)) <=>
                  x \in Listed(list) \/ (x \in i[1] .. i[2] /\ PastEnd(list, x))
  <1> DEFINE m == Len(list)
             new == Extended(list, i)
  <1>1. /\ new \in Seq(Interval) /\ Len(new) \in {m, m + 1}
        /\ Len(new) = m + 1 => /\ \A k \in 1 .. m : new[k] = list[k]
                               /\ new[m + 1] = i
                               /\ m > 0 => i[1] > list[m][2] + 1
        /\ Len(new) = m => /\ m > 0
                           /\ \A k \in 1 .. m - 1 : new[k] = list[k]
                           /\ i[1] <= list[m][2] + 1
                           /\ new[m][1] = list[m][1]
                           /\ new[m][2] = Higher(list[m][2], i[2])
    BY ExtendedLast
  <1>2. x \in Listed(list) <=> \E n \in 1 .. m : list[n][1] <= x /\ x <= list[n][2]
    BY InListed
  <1>3. x \in Listed(new) <=> \E n \in 1 .. Len(new) : new[n][1] <= x /\ x <= new[n][2]
    BY <1>1, InListed
  <1>4. m \in Nat /\ i[1] \in Nat /\ i[2] \in Nat /\ i[1] <= i[2]
    BY Intervals
  <1>5. \A k \in 1 .. m : list[k][1] \in Nat /\ list[k][2] \in Nat /\ list[k][1] <= list[k][2]
    BY InList
  <1>6. /\ PastEnd(list, x) <=> (m > 0 => list[m][2] < x)
        /\ PastEnd(new, x) <=> (Len(new) > 0 => new[Len(new)][2] < x)
    BY DEF PastEnd
  <1> HIDE DEF new, m
  <1>7. CASE Len(new) = m + 1
    <2>1. \A n : n \in 1 .. Len(new) <=> n \in 1 .. m \/ n = m + 1
      BY <1>4, <1>7
    <2>2. m > 0 => i[1] > list[m][2] + 1 /\ list[m][2] \in Nat
      BY <1>1, <1>4, <1>5, <1>7
    <2>3. PastEnd(new, x) <=> i[2] < x
      <3>1. new[Len(new)] = i
        BY <1>1, <1>7
      <3>2. Len(new) > 0
        BY <1>4, <1>7
      <3>3. QED
        BY <1>6, <3>1, <3>2
    <2>4. x \in i[1] .. i[2] \/ i[2] < x => PastEnd(list, x)
      BY <1>4, <1>6, <2>2
    <2>5. x \in Listed(new) <=> x \in Listed(list) \/ x \in i[1] .. i[2]
      BY <1>1, <1>2, <1>3, <1>4, <1>7, <2>1
    <2>6. QED
      BY <2>3, <2>4, <2>5 DEF new
  <1>8. CASE Len(new) = m
    <2>1. m \in 1 .. m /\ m > 0 /\ \A n \in 1 .. m : n \in 1 .. m - 1 \/ n = m
      BY <1>1, <1>4, <1>8
    <2> DEFINE lo == list[m][1]
               hi == list[m][2]
               top == Higher(hi, i[2])
    <2>2. lo \in Nat /\ hi \in Nat /\ lo <= hi /\ i[1] <= hi + 1
      BY <1>1, <1>5, <1>8, <2>1
    <2>3. new[m][1] = lo /\ new[m][2] = top
      BY <1>1, <1>8
    <2> HIDE DEF lo, hi
    <2>4. top \in {hi, i[2]} /\ top >= hi /\ top >= i[2] /\ top \in Nat
      BY <1>4, <2>2, HigherLower
    <2> HIDE DEF top
    <2>5. PastEnd(list, x) <=> hi < x
      BY <1>6, <2>1 DEF hi
    <2>6. PastEnd(new, x) <=> top < x
      BY <1>6, <1>8, <2>1, <2>3
    <2>7. top < x <=> hi < x /\ i[2] < x
      BY <1>4, <2>2, <2>4
    <2>8. lo <= x /\ x <= top <=> (lo <= x /\ x <= hi) \/ (x \in i[1] .. i[2] /\ hi < x)
      BY <1>4, <2>2, <2>4
    <2>9. x \in Listed(new) <=> (\E n \in 1 .. m - 1 : list[n][1] <= x /\ x <= list[n][2])
                                \/ (lo <= x /\ x <= top)
      <3>1. x \in Listed(new) <=> (\E n \in 1 .. m - 1 : new[n][1] <= x /\ x <= new[n][2])
                                  \/ (new[m][1] <= x /\ x <= new[m][2])
        <4>1. \A n \in 1 .. m - 1 : n \in 1 .. m
          BY <1>4
        <4>2. QED
          BY <1>3, <1>8, <2>1, <4>1
      <3>2. QED
        BY <1>1, <1>8, <2>3, <3>1
    <2>10. x \in Listed(list) <=> (\E n \in 1 .. m - 1 : list[n][1] <= x /\ x <= list[n][2])
                                  \/ (lo <= x /\ x <= hi)
      <3>1. \A n \in 1 .. m - 1 : n \in 1 .. m
        BY <1>4
      <3>2. QED
        BY <1>2, <2>1, <3>1 DEF lo, hi
    <2>11. QED
      BY <2>5, <2>6, <2>7, <2>8, <2>9, <2>10 DEF new
  <1>9. QED
    BY <1>1, <1>7, <1>8

Beyond(events, n, x) == \A k \in 1 .. n : events[k].ids[2] < x

KeptIds(events, n) ==
    {x \in Id : \E k \in 1 .. n : /\ events[k].ids[1] <= x /\ x <= events[k].ids[2]
                                 /\ Beyond(events, k - 1, x)}

(* One event more.                                                          *)
LEMMA KeptStep ==
    ASSUME NEW events \in Seq(Event), NEW n \in 1 .. Len(events), NEW x
    PROVE  /\ Beyond(events, n, x) <=> Beyond(events, n - 1, x) /\ events[n].ids[2] < x
           /\ x \in KeptIds(events, n) <=>
                  \/ x \in KeptIds(events, n - 1)
                  \/ /\ x \in Id /\ events[n].ids[1] <= x /\ x <= events[n].ids[2]
                     /\ Beyond(events, n - 1, x)
  <1>1. \A k : k \in 1 .. n <=> k \in 1 .. n - 1 \/ k = n
    OBVIOUS
  <1>2. Beyond(events, n, x) <=> Beyond(events, n - 1, x) /\ events[n].ids[2] < x
    BY <1>1 DEF Beyond
  <1>3. QED
    BY <1>1, <1>2 DEF KeptIds

(* What _source_intervals keeps of a file in any order.                     *)
LEMMA SourceIds ==
    ASSUME NEW events \in Seq(Event)
    PROVE  Listed(SourceIntervals(events)) = KeptIds(events, Len(events))
  <1> DEFINE m == Len(events)
             seq == [n \in 1 .. m |-> events[n].ids]
  <1>1. m \in Nat /\ \A n \in 1 .. m : events[n].ids \in Interval
    <2>1. m \in Nat /\ \A n \in 1 .. m : events[n] \in Event
      OBVIOUS
    <2>2. QED
      BY <2>1 DEF Event
  <1>2. seq \in Seq(Interval) /\ Len(seq) = m /\ \A n \in 1 .. m : seq[n] = events[n].ids
    BY <1>1
  <1>3. SourceIntervals(events) = Merged(seq)
    BY DEF SourceIntervals
  <1> HIDE DEF seq, m
  <1>4. PICK f : /\ Merged(seq) = f[m] /\ f[0] = <<>>
                 /\ \A n \in 0 .. m : f[n] \in Seq(Interval)
                 /\ \A n \in 1 .. m : f[n] = Extended(f[n - 1], seq[n])
    BY <1>2, MergedSteps
  <1> DEFINE Right(n, x) == /\ PastEnd(f[n], x) <=> Beyond(events, n, x)
                            /\ x \in Listed(f[n]) <=> x \in KeptIds(events, n)
             S == {n \in 0 .. m : \A x \in Id : Right(n, x)}
  <1>5. \A x \in Id : x \in Int
    BY DEF Id
  <1>6. 0 \in S
    <2>1. 0 \in 0 .. m /\ Len(f[0]) = 0 /\ Listed(f[0]) = {}
      BY <1>1, <1>4 DEF Listed
    <2>2. \A x : PastEnd(f[0], x) /\ Beyond(events, 0, x) /\ x \notin KeptIds(events, 0)
      BY <2>1 DEF PastEnd, Beyond, KeptIds
    <2>3. QED
      BY <2>1, <2>2
  <1>7. ASSUME NEW k \in 0 .. m, k < m, k \in S PROVE k + 1 \in S
    <2>1. k + 1 \in 1 .. m /\ k + 1 \in 0 .. m /\ (k + 1) - 1 = k
      BY <1>1, <1>7
    <2>2. /\ f[k] \in Seq(Interval) /\ events[k + 1].ids \in Interval
          /\ f[k + 1] = Extended(f[k], events[k + 1].ids)
      BY <1>1, <1>2, <1>4, <2>1
    <2>3. ASSUME NEW x \in Id PROVE Right(k + 1, x)
      <3>1. Right(k, x)
        BY <1>7
      <3>2. /\ PastEnd(f[k + 1], x) <=> PastEnd(f[k], x) /\ events[k + 1].ids[2] < x
            /\ x \in Listed(f[k + 1]) <=>
                   \/ x \in Listed(f[k])
                   \/ x \in events[k + 1].ids[1] .. events[k + 1].ids[2] /\ PastEnd(f[k], x)
        BY <1>5, <2>2, ExtendedPast
      <3>3. /\ Beyond(events, k + 1, x) <=> Beyond(events, k, x) /\ events[k + 1].ids[2] < x
            /\ x \in KeptIds(events, k + 1) <=>
                   \/ x \in KeptIds(events, k)
                   \/ /\ events[k + 1].ids[1] <= x /\ x <= events[k + 1].ids[2]
                      /\ Beyond(events, k, x)
        BY <2>1, KeptStep DEF m
      <3>4. x \in events[k + 1].ids[1] .. events[k + 1].ids[2] <=>
                events[k + 1].ids[1] <= x /\ x <= events[k + 1].ids[2]
        BY <1>5, <2>2, Intervals
      <3>5. QED
        BY <3>1, <3>2, <3>3, <3>4
    <2>4. QED
      BY <2>1, <2>3
  <1>8. m \in S
    <2> HIDE DEF S
    <2>1. \A k \in 0 .. m : k \in S
      BY <1>1, <1>6, <1>7, Counting
    <2>2. QED
      BY <1>1, <2>1
  <1>9. \A x \in Id : x \in Listed(f[m]) <=> x \in KeptIds(events, m)
    BY <1>8
  <1>10. Listed(f[m]) \subseteq Id
    BY <1>1, <1>4, AllIds
  <1>11. QED
    BY <1>3, <1>4, <1>9, <1>10 DEF KeptIds, m

AreFiles == files \in [Source -> Seq(Event)]

(* What the joint intervals hold: all that the sources list.                *)
LEMMA JointIds ==
    ASSUME AreFiles
    PROVE  /\ Joint \in Seq(Interval) /\ Apart(Joint)
           /\ \A x : x \in Listed(Joint) <=>
                        \E s \in Source : x \in Listed(SourceIntervals(files[s]))
           /\ Joint = <<>> <=> \A s \in Source : files[s] = <<>>
           /\ Listed(Joint) \subseteq IdsOf(AllEvents)
           /\ AllSorted => Listed(Joint) = IdsOf(AllEvents)
  <1> DEFINE List(s) == SourceIntervals(files[s])
             S == UNION {ToSet(List(s)) : s \in Source}
  <1>1. ASSUME NEW s \in Source
        PROVE  /\ List(s) \in Seq(Interval) /\ (List(s) = <<>> <=> files[s] = <<>>)
               /\ Listed(List(s)) \subseteq IdsOf(EventsOf(s))
               /\ AllSorted => Listed(List(s)) = IdsOf(EventsOf(s))
    <2>1. files[s] \in Seq(Event)
      BY DEF AreFiles
    <2>2. AllSorted => \A i, j \in DOMAIN files[s] : i < j => ~Smaller(files[s][j].ids, files[s][i].ids)
      BY DEF AllSorted, Sorted
    <2>3. QED
      BY <2>1, <2>2, SourceLists DEF EventsOf
  <1>2. ASSUME NEW s \in Source
        PROVE  /\ ToSet(List(s)) \subseteq Interval
               /\ ToSet(List(s)) = {} <=> files[s] = <<>>
               /\ \A x : x \in Listed(List(s)) <=> \E i \in ToSet(List(s)) : x \in i[1] .. i[2]
    <2> HIDE DEF List
    <2>1. List(s) \in Seq(Interval) /\ (List(s) = <<>> <=> files[s] = <<>>)
      BY <1>1
    <2>2. \A i : i \in ToSet(List(s)) <=> \E n \in 1 .. Len(List(s)) : List(s)[n] = i
      BY <2>1 DEF ToSet
    <2>3. List(s) = <<>> <=> Len(List(s)) = 0
      BY <2>1
    <2>4. ToSet(List(s)) = {} <=> Len(List(s)) = 0
      <3>1. Len(List(s)) \in Nat
        BY <2>1
      <3>2. Len(List(s)) # 0 => 1 \in 1 .. Len(List(s))
        BY <3>1
      <3>3. Len(List(s)) = 0 => 1 .. Len(List(s)) = {}
        BY <3>1
      <3>4. QED
        BY <2>2, <3>2, <3>3
    <2>5. ToSet(List(s)) \subseteq Interval
      BY <2>1, <2>2
    <2>6. QED
      BY <2>1, <2>3, <2>4, <2>5 DEF Listed, ToSet
  <1>3. Joint = MergeIntervals(S)
    BY DEF Joint
  <1> HIDE DEF List
  <1>4. S \in SUBSET Interval /\ (S = {} <=> \A s \in Source : files[s] = <<>>)
    BY <1>2
  <1>5. \A x : (\E i \in S : x \in i[1] .. i[2]) <=> \E s \in Source : x \in Listed(List(s))
    BY <1>2
  <1> HIDE DEF S
  <1>6. /\ Joint \in Seq(Interval) /\ Apart(Joint) /\ (Joint = <<>> <=> S = {})
        /\ \A x : x \in Listed(Joint) <=> \E i \in S : x \in i[1] .. i[2]
    BY <1>3, <1>4, MergeIntervalsLists
  <1>7. \A x : x \in Listed(Joint) <=> \E s \in Source : x \in Listed(List(s))
    BY <1>5, <1>6
  <1>8. \A x : x \in IdsOf(AllEvents) <=> \E s \in Source : x \in IdsOf(EventsOf(s))
    BY InIds DEF AllEvents
  <1>9. Listed(Joint) \subseteq IdsOf(AllEvents)
    BY <1>1, <1>7, <1>8
  <1>10. AllSorted => Listed(Joint) = IdsOf(AllEvents)
    <2>1. ASSUME AllSorted, NEW x PROVE x \in Listed(Joint) <=> x \in IdsOf(AllEvents)
      BY <1>1, <1>7, <1>8, <2>1
    <2>2. QED
      BY <2>1
  <1>11. QED
    BY <1>4, <1>6, <1>7, <1>9, <1>10 DEF List

(* The denominator spans the joint intervals.                               *)
LEMMA DenominatorSpans ==
    ASSUME AreFiles, Joint # <<>>
    PROVE  /\ Denominator \in Interval
           /\ Denominator[1] \in Listed(Joint) /\ Denominator[2] \in Listed(Joint)
           /\ Listed(Joint) \subseteq Denominator[1] .. Denominator[2]
  <1> DEFINE list == Joint
             m == Len(list)
  <1>1. list \in Seq(Interval) /\ Apart(list) /\ list # <<>>
    BY JointIds
  <1> HIDE DEF list
  <1>2. m \in Nat /\ 1 \in 1 .. m /\ m \in 1 .. m
    BY <1>1
  <1>3. Denominator = <<list[1][1], list[m][2]>>
    BY DEF Denominator, Last, list
  <1>4. \A n \in 1 .. m : /\ list[n][1] \in Nat /\ list[n][2] \in Nat /\ 1 <= list[n][1]
                          /\ list[n][1] <= list[n][2] /\ list[n][2] <= NumIds
    BY <1>1, InList
  <1>5. \A k, n \in 1 .. m : k < n => list[n][1] > list[k][2] + 1
    BY <1>1, ApartPairs
  <1> HIDE DEF m
  <1>6. ASSUME NEW n \in 1 .. m PROVE list[1][1] <= list[n][1] /\ list[n][2] <= list[m][2]
    <2>1. (n = 1 \/ list[n][1] > list[1][2] + 1) /\ (n = m \/ list[m][1] > list[n][2] + 1)
      BY <1>2, <1>5
    <2>2. \A a, b, c \in Nat : a <= b /\ c > b + 1 => a <= c
      OBVIOUS
    <2>3. list[1][1] <= list[n][1]
      <3>1. CASE n = 1
        BY <1>4, <3>1
      <3>2. CASE list[n][1] > list[1][2] + 1
        BY <1>2, <1>4, <2>2, <3>2
      <3>3. QED
        BY <2>1, <3>1, <3>2
    <2>4. list[n][2] <= list[m][2]
      <3>1. CASE n = m
        BY <1>4, <3>1
      <3>2. CASE list[m][1] > list[n][2] + 1
        <4>1. \A a, b, c \in Nat : b > a + 1 /\ b <= c => a <= c
          OBVIOUS
        <4>2. QED
          BY <1>2, <1>4, <3>2, <4>1
      <3>3. QED
        BY <2>1, <3>1, <3>2
    <2>5. QED
      BY <2>3, <2>4
  <1>7. list[1][1] <= list[m][2]
    BY <1>2, <1>4, <1>6
  <1>8. /\ <<list[1][1], list[m][2]>> \in Interval
        /\ <<list[1][1], list[m][2]>>[1] = list[1][1] /\ <<list[1][1], list[m][2]>>[2] = list[m][2]
    BY <1>2, <1>4, <1>7, IsInterval
  <1>9. \A x : x \in Listed(list) <=> x \in Int /\ \E n \in 1 .. m : list[n][1] <= x /\ x <= list[n][2]
    BY <1>1, InListed DEF m
  <1>10. list[1][1] \in Listed(list) /\ list[m][2] \in Listed(list)
    BY <1>2, <1>4, <1>9
  <1>11. ASSUME NEW x \in Listed(list) PROVE x \in list[1][1] .. list[m][2]
    <2>1. PICK n \in 1 .. m : x \in Int /\ list[n][1] <= x /\ x <= list[n][2]
      BY <1>9
    <2>2. list[1][1] <= list[n][1] /\ list[n][2] <= list[m][2]
      BY <1>6
    <2>3. /\ list[1][1] \in Nat /\ list[m][2] \in Nat /\ list[n][1] \in Nat /\ list[n][2] \in Nat
      BY <1>2, <1>4
    <2>4. QED
      BY <2>1, <2>2, <2>3
  <1>12. QED
    BY <1>3, <1>8, <1>10, <1>11 DEF list

-----------------------------------------------------------------------------
(* The inductive invariant.  What the merge has popped off the files:       *)
PoppedEvents == UNION {{files[s][i] : i \in 1 .. next[s] - 1} : s \in Source}

VerifyTypes ==
    /\ AreFiles
    /\ stage \in {"coverage", "merge", "conflict", "reported"}
    /\ next \in [Source -> Nat]
    /\ \A s \in Source : next[s] \in 1 .. Len(files[s]) + 1
    /\ previous \in Event \cup {None} /\ merged \in Seq(Event)
    /\ highest \in Id \cup {None} /\ gaps \in Nat

(* A report says what coverage_summary makes of the files.                  *)
ReportInv ==
    report # None =>
        /\ Joint # <<>>
        /\ report = [joint  |-> Summary(Joint, Denominator),
                     source |-> [s \in Source |->
                                    Summary(SourceIntervals(files[s]), Denominator)]]

ConflictInv ==
    stage = "conflict" => \E d, e \in AllEvents : d.ids = e.ids /\ d.updates # e.updates

(* What was popped has got through, and of sorted files whatever is left    *)
(* comes after it.                                                          *)
MergeInv ==
    stage # "conflict" =>
        /\ ToSet(merged) = PoppedEvents
        /\ previous = None => merged = <<>>
        /\ previous # None => previous \in ToSet(merged)
        /\ AllSorted /\ previous # None =>
              /\ \A e \in ToSet(merged) : ~Smaller(previous.ids, e.ids)
              /\ \A s \in Source : \A i \in next[s] .. Len(files[s]) :
                     ~Smaller(files[s][i].ids, previous.ids)
        /\ stage = "reported" => \A s \in Source : next[s] = Len(files[s]) + 1

DistinctInv == AllSorted => \A d, e \in ToSet(merged) : d.ids = e.ids => d = e

(* The ids of a set that its next id does not follow: the ends of its runs. *)
Ends(ids) == {x \in ids : x + 1 \notin ids}

(* The ids that the intervals of the popped events give.                    *)
PoppedIds == UNION {KeptIds(files[s], next[s] - 1) : s \in Source}

(* The ids that the event a source offers will add.                         *)
New(s, x) == Offers(s).ids[1] <= x /\ Beyond(files[s], next[s] - 1, x)

HighestId == IF highest = None THEN 0 ELSE highest

(* Sorted or not, what an offered event adds below the highest id is there. *)
Filled == \A s \in InHeap, x \in Id : x <= HighestId /\ New(s, x) => x \in PoppedIds

GapInv ==
    stage # "conflict" =>
        /\ highest = None <=> merged = <<>>
        /\ highest # None => highest \in PoppedIds
        /\ \A e \in ToSet(merged) : e.ids[2] <= HighestId
        /\ Filled
        /\ gaps = Cardinality(Ends(PoppedIds) \ {highest})

VerifyInv == VerifyTypes /\ ReportInv /\ ConflictInv /\ MergeInv /\ DistinctInv /\ GapInv

(* The order of the intervals is total.                                     *)
LEMMA Order ==
    ASSUME NEW a \in Interval, NEW b \in Interval, NEW c \in Interval
    PROVE  /\ ~Smaller(b, a) /\ ~Smaller(c, b) => ~Smaller(c, a)
           /\ ~Smaller(b, a) => a[1] <= b[1]
           /\ ~Smaller(a, b) /\ ~Smaller(b, a) => a = b
           /\ Smaller(a, b) => ~Smaller(b, a)
           /\ ~Smaller(a, a)
  <1>1. /\ a[1] \in Nat /\ a[2] \in Nat /\ b[1] \in Nat /\ b[2] \in Nat
        /\ c[1] \in Nat /\ c[2] \in Nat /\ a = <<a[1], a[2]>> /\ b = <<b[1], b[2]>>
    BY Intervals
  <1>2. ~Smaller(b, a) /\ ~Smaller(c, b) => ~Smaller(c, a)
    BY <1>1 DEF Smaller
  <1>3. ~Smaller(b, a) => a[1] <= b[1]
    BY <1>1 DEF Smaller
  <1>4. ~Smaller(a, b) /\ ~Smaller(b, a) => a[1] = b[1] /\ a[2] = b[2]
    BY <1>1 DEF Smaller
  <1>5. (Smaller(a, b) => ~Smaller(b, a)) /\ ~Smaller(a, a)
    BY <1>1 DEF Smaller
  <1>6. QED
    BY <1>1, <1>2, <1>3, <1>4, <1>5

(* Until an event has got through, none was popped; what got through and    *)
(* what is in the files are events.                                         *)
LEMMA EventTypes ==
    ASSUME VerifyTypes
    PROVE  /\ \A s \in Source : /\ files[s] \in Seq(Event) /\ Len(files[s]) \in Nat
                                /\ next[s] \in Nat /\ 1 <= next[s] /\ next[s] <= Len(files[s]) + 1
                                /\ \A i \in 1 .. Len(files[s]) :
                                       files[s][i] \in Event /\ files[s][i].ids \in Interval
           /\ \A e \in ToSet(merged) : e \in Event /\ e.ids \in Interval
           /\ \A e \in AllEvents : e \in Event /\ e.ids \in Interval
  <1>1. \A e \in Event : e.ids \in Interval
    BY DEF Event
  <1>2. ASSUME NEW s \in Source
        PROVE  /\ files[s] \in Seq(Event) /\ Len(files[s]) \in Nat
               /\ next[s] \in Nat /\ 1 <= next[s] /\ next[s] <= Len(files[s]) + 1
               /\ \A i \in 1 .. Len(files[s]) : files[s][i] \in Event /\ files[s][i].ids \in Interval
    <2>1. files[s] \in Seq(Event)
      BY DEF VerifyTypes, AreFiles
    <2>2. Len(files[s]) \in Nat /\ \A i \in 1 .. Len(files[s]) : files[s][i] \in Event
      BY <2>1
    <2>3. next[s] \in 1 .. Len(files[s]) + 1 /\ next[s] \in Nat
      BY DEF VerifyTypes
    <2>4. QED
      BY <1>1, <2>1, <2>2, <2>3
  <1>3. \A e \in ToSet(merged) : e \in Event
    BY DEF VerifyTypes, ToSet
  <1>4. \A e \in AllEvents : e \in Event
    BY <1>2 DEF AllEvents, EventsOf, ToSet
  <1>5. QED
    BY <1>1, <1>2, <1>3, <1>4

(* merge_sorted pops the least event that is left in sorted files.          *)
LEMMA LeastLeft ==
    ASSUME VerifyTypes, AllSorted, NEW s \in Source, s \in InHeap, Least(s),
           NEW t \in Source, NEW i \in next[t] .. Len(files[t])
    PROVE  ~Smaller(files[t][i].ids, Offers(s).ids)
  <1> DEFINE a == Offers(s).ids
             b == Offers(t).ids
             c == files[t][i].ids
  <1>1. /\ \A r \in Source : /\ Len(files[r]) \in Nat /\ next[r] \in Nat /\ 1 <= next[r]
                             /\ \A j \in 1 .. Len(files[r]) : files[r][j].ids \in Interval
    BY EventTypes
  <1>2. next[s] \in 1 .. Len(files[s])
    BY <1>1 DEF InHeap
  <1>3. /\ t \in InHeap /\ next[t] \in 1 .. Len(files[t]) /\ i \in 1 .. Len(files[t])
        /\ i = next[t] \/ next[t] < i
    BY <1>1 DEF InHeap
  <1>4. a \in Interval /\ b \in Interval /\ c \in Interval
    BY <1>1, <1>2, <1>3 DEF Offers
  <1>5. ~Smaller(b, a)
    BY <1>3 DEF Least
  <1>6. ~Smaller(c, b)
    <2>1. CASE i = next[t]
      BY <1>4, <2>1, Order DEF Offers
    <2>2. CASE next[t] < i
      <3>1. DOMAIN files[t] = 1 .. Len(files[t])
        BY DEF VerifyTypes, AreFiles
      <3>2. QED
        BY <1>3, <2>2, <3>1 DEF AllSorted, Sorted, Offers
    <2>3. QED
      BY <1>3, <2>1, <2>2
  <1> HIDE DEF a, b, c
  <1>7. ~Smaller(c, a)
    BY <1>4, <1>5, <1>6, Order
  <1>8. QED
    BY <1>7 DEF a, c

(* A popped event joins the popped ones.                                    *)
LEMMA Joins ==
    ASSUME VerifyTypes, NEW s \in Source, PoppedFrom(s), files' = files
    PROVE  /\ PoppedEvents' = PoppedEvents \cup {Offers(s)}
           /\ Offers(s) \in Event /\ Offers(s) \in AllEvents /\ Offers(s).ids \in Interval
           /\ next' \in [Source -> Nat]
           /\ \A t \in Source : next'[t] \in 1 .. Len(files[t]) + 1
           /\ \A t \in Source : next[t] <= next'[t]
           /\ next[s] \in 1 .. Len(files[s])
  <1>1. \A r \in Source : /\ Len(files[r]) \in Nat /\ next[r] \in Nat /\ 1 <= next[r]
                          /\ next[r] <= Len(files[r]) + 1 /\ DOMAIN files[r] = 1 .. Len(files[r])
                          /\ \A j \in 1 .. Len(files[r]) :
                                 files[r][j] \in Event /\ files[r][j].ids \in Interval
    BY EventTypes DEF VerifyTypes, AreFiles
  <1>2. next[s] \in 1 .. Len(files[s]) /\ next' = [next EXCEPT ![s] = @ + 1]
    BY <1>1 DEF PoppedFrom, InHeap
  <1>3. next \in [Source -> Nat]
    BY DEF VerifyTypes
  <1>4. next' \in [Source -> Nat] /\ \A t \in Source : next'[t] = IF t = s THEN next[t] + 1 ELSE next[t]
    BY <1>1, <1>2, <1>3
  <1>5. \A t \in Source : next'[t] \in 1 .. Len(files[t]) + 1 /\ next[t] <= next'[t]
    BY <1>1, <1>2, <1>4
  <1>6. Offers(s) \in Event /\ Offers(s).ids \in Interval
    BY <1>1, <1>2 DEF Offers
  <1>7. Offers(s) \in AllEvents
    BY <1>1, <1>2 DEF Offers, AllEvents, EventsOf, ToSet
  <1>8. ASSUME NEW e PROVE e \in PoppedEvents' <=> e \in PoppedEvents \cup {Offers(s)}
    <2>1. e \in PoppedEvents <=> \E t \in Source : \E i \in 1 .. next[t] - 1 : e = files[t][i]
      BY DEF PoppedEvents
    <2>2. e \in PoppedEvents' <=> \E t \in Source : \E i \in 1 .. next'[t] - 1 : e = files[t][i]
      BY DEF PoppedEvents
    <2>3. \A t \in Source : \A i : i \in 1 .. next'[t] - 1 <=>
              i \in 1 .. next[t] - 1 \/ (t = s /\ i = next[s])
      BY <1>1, <1>4
    <2>4. QED
      BY <2>1, <2>2, <2>3 DEF Offers
  <1>9. QED
    BY <1>2, <1>4, <1>5, <1>6, <1>7, <1>8

-----------------------------------------------------------------------------
(* An interval that starts behind the highest id but one leaves a gap, and  *)
(* the highest id becomes the end of a run; any other that starts no        *)
(* earlier than the highest run ends none.                                  *)
LEMMA GapStep ==
    ASSUME NEW A \in SUBSET Id, NEW h \in A, \A x \in A : x <= h,
           NEW p \in Id, p .. h \subseteq A,
           NEW i \in Interval, p <= i[1]
    PROVE  LET B == A \cup (i[1] .. i[2])
               g == Higher(h, i[2])
           IN  Cardinality(Ends(B) \ {g}) =
                   Cardinality(Ends(A) \ {h}) + IF i[1] > h + 1 THEN 1 ELSE 0
  <1> DEFINE lo == i[1]
             hi == i[2]
             B == A \cup (lo .. hi)
             g == Higher(h, hi)
  <1>1. /\ lo \in Nat /\ hi \in Nat /\ lo <= hi /\ p \in Nat /\ h \in Nat
        /\ \A x \in A : x \in Nat
    BY Intervals DEF Id
  <1>2. IsFiniteSet(Ends(A) \ {h}) /\ Cardinality(Ends(A) \ {h}) \in Nat
    BY IdsAreFinite DEF Ends
  <1> HIDE DEF lo, hi
  <1>3. CASE lo > h + 1
    <2>1. g = hi
      BY <1>1, <1>3 DEF Higher
    <2>2. ASSUME NEW x PROVE x \in Ends(B) \ {hi} <=> x \in (Ends(A) \ {h}) \cup {h}
      <3>1. x \in Ends(B) \ {hi} => x \in Ends(A)
        BY <1>1 DEF Ends
      <3>2. x \in A => x \notin lo .. hi /\ x + 1 \notin lo .. hi /\ x # hi
        BY <1>1, <1>3
      <3>3. x \in Ends(A) => x \in Ends(B) \ {hi}
        BY <3>2 DEF Ends
      <3>4. h \in Ends(A)
        BY <1>1 DEF Ends
      <3>5. QED
        BY <3>1, <3>3, <3>4
    <2>3. Ends(B) \ {hi} = (Ends(A) \ {h}) \cup {h}
      BY <2>2
    <2>4. Cardinality((Ends(A) \ {h}) \cup {h}) = Cardinality(Ends(A) \ {h}) + 1
      BY <1>2, FS_AddElement
    <2>5. QED
      BY <1>3, <2>1, <2>3, <2>4 DEF lo, hi
  <1>4. CASE ~(lo > h + 1)
    <2>1. g \in Nat /\ (g = h \/ g = hi) /\ h <= g /\ hi <= g /\ (h < hi => g = hi)
          /\ (~(h < hi) => g = h)
      BY <1>1 DEF Higher
    <2> HIDE DEF g
    <2>2. \A x \in Nat : p <= x /\ x <= h => x \in A
      BY <1>1
    <2>3. \A x \in Nat : lo <= x /\ x <= hi => x \in B
      BY <1>1
    <2>4. p <= lo
      BY DEF lo
    <2>5. ASSUME NEW x \in Ends(B) \ {g} PROVE x \in Ends(A) \ {h}
      <3>1. x \in B /\ x + 1 \notin B /\ x # g /\ x \in Nat
        BY <1>1 DEF Ends
      <3>2. ASSUME x \in lo .. hi PROVE FALSE
        <4>1. lo <= x /\ x <= hi
          BY <1>1, <3>2
        <4>2. x = hi
          BY <1>1, <2>3, <3>1, <4>1
        <4>3. hi < h /\ p <= x + 1 /\ x + 1 <= h
          BY <1>1, <2>1, <2>4, <3>1, <4>1, <4>2
        <4>4. x + 1 \in A
          BY <2>2, <3>1, <4>3
        <4>5. QED
          BY <3>1, <4>4
      <3>3. x \in A /\ x + 1 \notin A
        BY <3>1, <3>2
      <3>4. x # h
        <4>1. SUFFICES ASSUME x = h PROVE FALSE
          OBVIOUS
        <4>2. h < hi
          BY <1>1, <2>1, <3>1, <4>1
        <4>3. lo <= x + 1 /\ x + 1 <= hi
          BY <1>1, <1>4, <4>1, <4>2
        <4>4. QED
          BY <2>3, <3>1, <4>3
      <3>5. QED
        BY <3>3, <3>4 DEF Ends
    <2>6. ASSUME NEW x \in Ends(A) \ {h} PROVE x \in Ends(B) \ {g}
      <3>1. x \in A /\ x + 1 \notin A /\ x # h /\ x \in Nat /\ x <= h
        BY <1>1 DEF Ends
      <3>2. x + 1 < p
        BY <1>1, <2>2, <3>1
      <3>3. x + 1 \notin lo .. hi /\ x # g
        BY <1>1, <2>1, <2>4, <3>1, <3>2
      <3>4. QED
        BY <3>1, <3>3 DEF Ends
    <2>7. Ends(B) \ {g} = Ends(A) \ {h}
      BY <2>5, <2>6
    <2>8. QED
      <3>1. Cardinality(Ends(A) \ {h}) = Cardinality(Ends(A) \ {h}) + 0
        BY <1>2
      <3>2. (IF lo > h + 1 THEN 1 ELSE 0) = 0
        BY <1>4
      <3>3. QED
        BY <2>7, <3>1, <3>2, Zenon DEF g, lo, hi
  <1>5. QED
    BY <1>3, <1>4

-----------------------------------------------------------------------------
(* The ids of the intervals while events are popped off the files.          *)
Added(s) == {x \in Id : x <= Offers(s).ids[2] /\ New(s, x)}

(* The ids listed so far lie within the events popped so far.               *)
LEMMA IdsPopped ==
    ASSUME VerifyTypes
    PROVE  /\ PoppedIds \subseteq Id
           /\ \A x \in PoppedIds : \E e \in PoppedEvents : x <= e.ids[2]
           /\ \A s \in Source : \A k \in 1 .. next[s] - 1 : files[s][k] \in PoppedEvents
  <1>1. PoppedIds \subseteq Id
    BY DEF PoppedIds, KeptIds
  <1>2. ASSUME NEW x \in PoppedIds PROVE \E e \in PoppedEvents : x <= e.ids[2]
    <2>1. PICK s \in Source : x \in KeptIds(files[s], next[s] - 1)
      BY DEF PoppedIds
    <2>2. PICK k \in 1 .. next[s] - 1 : x <= files[s][k].ids[2]
      BY <2>1 DEF KeptIds
    <2>3. files[s][k] \in PoppedEvents
      BY DEF PoppedEvents
    <2>4. QED
      BY <2>2, <2>3
  <1>3. QED
    BY <1>1, <1>2 DEF PoppedEvents

(* The interval that a popped event adds.                                   *)
LEMMA AddedInterval ==
    ASSUME VerifyTypes, NEW s \in Source, s \in InHeap, Added(s) # {}
    PROVE  \E lo \in Added(s) : /\ <<lo, Offers(s).ids[2]>> \in Interval
                                 /\ \A x \in Id : x \in Added(s) <=> lo <= x /\ x <= Offers(s).ids[2]
  <1> DEFINE e == Offers(s)
             n == next[s] - 1
  <1>1. /\ Len(files[s]) \in Nat /\ next[s] \in 1 .. Len(files[s])
        /\ \A k \in 1 .. Len(files[s]) : files[s][k].ids \in Interval
    BY EventTypes DEF InHeap
  <1>2. e.ids \in Interval
    BY <1>1 DEF Offers
  <1>3. \A k \in 1 .. n : files[s][k].ids[2] \in Nat
    <2>1. \A k \in 1 .. n : k \in 1 .. Len(files[s])
      BY <1>1
    <2>2. QED
      BY <1>1, <2>1, Intervals
  <1>4. e.ids[1] \in Nat /\ e.ids[2] \in Nat /\ e.ids[2] <= NumIds /\ NumIds \in Nat
    BY <1>2, Intervals, VerificationAssumption
  <1>5. Added(s) \in SUBSET Nat /\ \A x \in Id : x \in Nat /\ 1 <= x
    BY DEF Added, Id
  <1>6. PICK lo \in Added(s) : \A x \in Added(s) : lo <= x
    BY <1>5, LeastNatural
  <1> HIDE DEF e, n
  <1>7. /\ lo \in Id /\ lo <= e.ids[2] /\ e.ids[1] <= lo
        /\ \A k \in 1 .. n : files[s][k].ids[2] < lo
    BY <1>6 DEF Added, New, Beyond, e, n
  <1>8. ASSUME NEW x \in Id, lo <= x, x <= e.ids[2] PROVE x \in Added(s)
    <2>1. lo \in Nat /\ x \in Nat
      BY <1>5, <1>7
    <2>2. e.ids[1] <= x
      BY <1>4, <1>7, <1>8, <2>1
    <2>3. \A k \in 1 .. n : files[s][k].ids[2] < x
      BY <1>3, <1>7, <1>8, <2>1
    <2>4. QED
      BY <1>8, <2>2, <2>3 DEF Added, New, Beyond, e, n
  <1>9. ASSUME NEW x \in Added(s) PROVE lo <= x /\ x <= e.ids[2]
    BY <1>6 DEF Added, e
  <1>10. <<lo, e.ids[2]>> \in Interval
    <2>1. lo \in Nat /\ 1 <= lo
      BY <1>5, <1>7
    <2>2. QED
      BY <1>4, <1>7, <2>1, IsInterval
  <1>11. QED
    BY <1>6, <1>8, <1>9, <1>10 DEF e

(* Popping an event adds them.                                              *)
LEMMA IdsJoin ==
    ASSUME VerifyTypes, NEW s \in Source, PoppedFrom(s), files' = files
    PROVE  /\ PoppedIds' = PoppedIds \cup Added(s)
           /\ InHeap' \subseteq InHeap /\ s \in InHeap
           /\ \A t \in InHeap' : t # s => next'[t] = next[t]
           /\ \A x : Beyond(files[s], next'[s] - 1, x) <=>
                         Beyond(files[s], next[s] - 1, x) /\ Offers(s).ids[2] < x
  <1>1. /\ next[s] \in 1 .. Len(files[s]) /\ next' = [next EXCEPT ![s] = @ + 1]
        /\ next \in [Source -> Nat] /\ s \in InHeap
    BY Joins DEF PoppedFrom, VerifyTypes
  <1>2. next'[s] = next[s] + 1 /\ \A t \in Source : t # s => next'[t] = next[t]
    BY <1>1
  <1>3. \A t \in Source : files[t] \in Seq(Event) /\ Len(files[t]) \in Nat /\ next[t] \in Nat
    BY <1>1, EventTypes
  <1>4. next'[s] - 1 = next[s] /\ files[s][next[s]] = Offers(s)
    BY <1>2, <1>3 DEF Offers
  <1>5. \A x : /\ Beyond(files[s], next'[s] - 1, x) <=>
                       Beyond(files[s], next[s] - 1, x) /\ Offers(s).ids[2] < x
               /\ x \in KeptIds(files[s], next'[s] - 1) <=>
                      x \in KeptIds(files[s], next[s] - 1) \/ x \in Added(s)
    <2>1. SUFFICES ASSUME NEW x
                   PROVE  /\ Beyond(files[s], next[s], x) <=>
                                 Beyond(files[s], next[s] - 1, x) /\ Offers(s).ids[2] < x
                          /\ x \in KeptIds(files[s], next[s]) <=>
                                 x \in KeptIds(files[s], next[s] - 1) \/ x \in Added(s)
      BY <1>4
    <2>2. /\ Beyond(files[s], next[s], x) <=>
                 Beyond(files[s], next[s] - 1, x) /\ files[s][next[s]].ids[2] < x
          /\ x \in KeptIds(files[s], next[s]) <=>
                 \/ x \in KeptIds(files[s], next[s] - 1)
                 \/ /\ x \in Id /\ files[s][next[s]].ids[1] <= x /\ x <= files[s][next[s]].ids[2]
                    /\ Beyond(files[s], next[s] - 1, x)
      BY <1>1, <1>3, KeptStep
    <2>3. QED
      BY <1>4, <2>2 DEF Added, New
  <1>6. ASSUME NEW x PROVE x \in PoppedIds' <=> x \in PoppedIds \cup Added(s)
    <2>1. x \in PoppedIds <=> \E t \in Source : x \in KeptIds(files[t], next[t] - 1)
      BY DEF PoppedIds
    <2>2. x \in PoppedIds' <=> \E t \in Source : x \in KeptIds(files[t], next'[t] - 1)
      BY DEF PoppedIds, KeptIds, Beyond, Id
    <2>3. \A t \in Source : t # s => KeptIds(files[t], next'[t] - 1) = KeptIds(files[t], next[t] - 1)
      BY <1>2
    <2>4. QED
      BY <1>5, <2>1, <2>2, <2>3
  <1>7. InHeap' \subseteq InHeap
    BY <1>1, <1>2, <1>3 DEF InHeap
  <1>8. InHeap' \subseteq Source
    BY DEF InHeap
  <1>9. QED
    BY <1>1, <1>2, <1>5, <1>6, <1>7, <1>8

(* It keeps the ids below the highest filled: no source offers an event     *)
(* that begins before the popped one.                                       *)
LEMMA FilledStep ==
    ASSUME VerifyTypes, NEW s \in Source, PoppedFrom(s), files' = files, Filled,
           HighestId \in Nat, HighestId' = Higher(HighestId, Offers(s).ids[2]),
           \A k \in 1 .. next[s] - 1 : files[s][k].ids[2] <= HighestId
    PROVE  Filled'
  <1> DEFINE e == Offers(s)
             h == HighestId
  <1>1. /\ PoppedIds' = PoppedIds \cup Added(s)
        /\ InHeap' \subseteq InHeap /\ s \in InHeap
        /\ \A t \in InHeap' : t # s => next'[t] = next[t]
        /\ \A x : Beyond(files[s], next'[s] - 1, x) <=>
                      Beyond(files[s], next[s] - 1, x) /\ e.ids[2] < x
    BY IdsJoin
  <1>2. \A t \in InHeap : Offers(t).ids[1] \in Nat /\ Offers(t).ids[2] \in Nat
                           /\ Offers(t).ids[1] <= Offers(t).ids[2]
    <2>1. \A t \in InHeap : Offers(t).ids \in Interval
      BY EventTypes DEF InHeap, Offers
    <2>2. QED
      BY <2>1, Intervals
  <1>3. \A t \in InHeap : e.ids[1] <= Offers(t).ids[1]
    <2>1. \A t \in InHeap : ~Smaller(Offers(t).ids, e.ids)
      BY DEF PoppedFrom, Least
    <2>2. QED
      BY <1>1, <1>2, <2>1 DEF Smaller
  <1>4. /\ HighestId' \in {h, e.ids[2]} /\ HighestId' \in Nat
        /\ h <= HighestId' /\ e.ids[2] <= HighestId' /\ \A x \in Nat : x <= HighestId' => x <= h \/ x <= e.ids[2]
    BY <1>1, <1>2 DEF Higher
  <1>5. \A x \in Id : x \in Nat
    BY DEF Id
  <1>6. \A k \in 1 .. next[s] - 1 : files[s][k].ids[2] \in Nat
    <2>1. \A k \in 1 .. next[s] - 1 : k \in 1 .. Len(files[s]) /\ files[s][k].ids \in Interval
      BY EventTypes
    <2>2. QED
      BY <2>1, Intervals
  <1>7. \A t \in InHeap, x \in Id :
            x <= h /\ Offers(t).ids[1] <= x /\ Beyond(files[t], next[t] - 1, x) => x \in PoppedIds
    BY DEF Filled, New
  <1> HIDE DEF e, h
  <1>8. ASSUME NEW t \in InHeap', NEW x \in Id, x <= HighestId', Offers(t)'.ids[1] <= x,
               Beyond(files[t], next'[t] - 1, x)
        PROVE  x \in PoppedIds \cup Added(s)
    <2>1. t \in InHeap /\ x \in Nat /\ (x <= h \/ x <= e.ids[2])
      BY <1>1, <1>4, <1>5, <1>8
    <2>2. CASE t # s
      <3>1. next'[t] = next[t] /\ Offers(t)' = Offers(t)
        BY <1>1, <2>2 DEF Offers
      <3>2. Offers(t).ids[1] <= x /\ Beyond(files[t], next[t] - 1, x)
        BY <1>8, <3>1
      <3>3. CASE x <= h
        BY <1>7, <2>1, <3>2, <3>3
      <3>4. CASE h < x /\ x <= e.ids[2]
        <4>1. e.ids[1] <= x
          BY <1>1, <1>2, <1>3, <2>1, <3>2 DEF e
        <4>2. \A k \in 1 .. next[s] - 1 : files[s][k].ids[2] < x
          BY <1>6, <2>1, <3>4 DEF h
        <4>3. QED
          BY <1>8, <3>4, <4>1, <4>2 DEF Added, New, Beyond, e
      <3>5. QED
        <4>1. h \in Nat
          BY DEF h
        <4>2. QED
          BY <2>1, <3>3, <3>4, <4>1
    <2>3. CASE t = s
      <3>1. Beyond(files[s], next[s] - 1, x) /\ e.ids[2] < x
        BY <1>1, <1>8, <2>3 DEF e
      <3>2. e.ids[1] <= x /\ x <= h
        BY <1>1, <1>2, <2>1, <3>1 DEF e
      <3>3. QED
        BY <1>1, <1>7, <3>1, <3>2 DEF e
    <2>4. QED
      BY <2>2, <2>3
  <1>9. QED
    BY <1>1, <1>8 DEF Filled, New, Beyond, Id

(* What is known of the ids when a source offers its next event.            *)
LEMMA WhenOffered ==
    ASSUME VerifyTypes, MergeInv, GapInv, stage = "merge", NEW s \in Source, s \in InHeap
    PROVE  /\ HighestId \in Nat /\ (HighestId = 0 <=> highest = None) /\ (highest # None => HighestId = highest)
           /\ highest # None => highest \in Id
           /\ \A x \in PoppedIds : x <= HighestId
           /\ \A k \in 1 .. next[s] - 1 : /\ files[s][k].ids[2] \in Nat
                                           /\ files[s][k].ids[2] <= HighestId
           /\ Offers(s).ids \in Interval
  <1>1. None \notin Id /\ \A x \in Id : x \in Nat /\ x # 0
    BY VerificationAssumption DEF Id
  <1>2. highest \in Id \cup {None}
    BY DEF VerifyTypes
  <1>3. /\ HighestId \in Nat /\ (HighestId = 0 <=> highest = None) /\ (highest # None => HighestId = highest)
        /\ highest # None => highest \in Id
    BY <1>1, <1>2 DEF HighestId
  <1>4. \A e \in PoppedEvents : e.ids[2] <= HighestId
    BY DEF MergeInv, GapInv
  <1>5. \A t \in Source : /\ Len(files[t]) \in Nat /\ next[t] \in Nat /\ 1 <= next[t]
                          /\ next[t] <= Len(files[t]) + 1
                          /\ \A k \in 1 .. Len(files[t]) : files[t][k].ids \in Interval
    BY EventTypes
  <1>6. \A e \in PoppedEvents : e.ids[2] \in Nat
    <2>1. \A e \in PoppedEvents : e.ids \in Interval
      BY EventTypes DEF MergeInv
    <2>2. QED
      BY <2>1, Intervals
  <1>7. ASSUME NEW x \in PoppedIds PROVE x <= HighestId
    <2>1. PICK e \in PoppedEvents : x <= e.ids[2]
      BY IdsPopped
    <2>2. x \in Nat
      BY <1>1, IdsPopped
    <2>3. e.ids[2] \in Nat /\ e.ids[2] <= HighestId
      BY <1>4, <1>6
    <2>4. QED
      BY <1>3, <2>1, <2>2, <2>3
  <1>8. Offers(s).ids \in Interval
    BY <1>5 DEF InHeap, Offers
  <1>9. QED
    BY <1>3, <1>4, <1>6, <1>7, <1>8, IdsPopped

(* The next event adds an end of a run exactly if it begins behind the      *)
(* highest id but one.                                                      *)
LEMMA GapsStep ==
    ASSUME VerifyTypes, MergeInv, GapInv, stage = "merge",
           NEW s \in Source, PoppedFrom(s), files' = files
    PROVE  LET e == Offers(s)
               g == Higher(HighestId, e.ids[2])
           IN  /\ g \in PoppedIds'
               /\ Cardinality(Ends(PoppedIds') \ {g}) =
                      gaps + IF highest # None /\ e.ids[1] > highest + 1 THEN 1 ELSE 0
  <1> DEFINE e == Offers(s)
             h == HighestId
             g == Higher(h, e.ids[2])
             A == PoppedIds
  <1>1. s \in InHeap /\ PoppedIds' = A \cup Added(s)
    BY IdsJoin
  <1>2. /\ h \in Nat /\ (h = 0 <=> highest = None) /\ (highest # None => h = highest)
        /\ highest # None => highest \in Id
        /\ \A x \in A : x <= h
        /\ \A k \in 1 .. next[s] - 1 : files[s][k].ids[2] \in Nat /\ files[s][k].ids[2] <= h
        /\ e.ids \in Interval
    BY <1>1, WhenOffered
  <1>3. /\ e.ids[1] \in Nat /\ e.ids[2] \in Nat /\ 1 <= e.ids[1]
        /\ e.ids[1] <= e.ids[2] /\ e.ids[2] <= NumIds /\ NumIds \in Nat
    BY <1>2, Intervals, VerificationAssumption
  <1>4. /\ gaps = Cardinality(Ends(A) \ {highest}) /\ gaps \in Nat
        /\ highest # None => highest \in A
        /\ A \subseteq Id
    BY IdsPopped DEF GapInv, VerifyTypes
  <1>5. \A x \in Id : x <= h /\ New(s, x) => x \in A
    BY <1>1 DEF GapInv, Filled
  <1>6. \A x \in Id : h < x /\ e.ids[1] <= x => New(s, x)
    <2>1. \A x \in Id : x \in Nat
      BY DEF Id
    <2>2. ASSUME NEW x \in Id, h < x PROVE Beyond(files[s], next[s] - 1, x)
      BY <1>2, <2>1, <2>2 DEF Beyond
    <2>3. QED
      BY <2>2 DEF New
  <1>7. \A x \in Id : x \in Added(s) <=> x <= e.ids[2] /\ New(s, x)
    BY DEF Added
  <1>8. \A x \in Nat : x \in Id <=> 1 <= x /\ x <= NumIds
    BY <1>3 DEF Id
  <1> HIDE DEF e, h, A
  <1>9. CASE Added(s) = {}
    <2>1. e.ids[2] <= h
      <3>1. e.ids[2] \in Id
        BY <1>3, <1>8
      <3>2. QED
        BY <1>2, <1>3, <1>6, <1>7, <1>9, <3>1
    <2>2. highest # None /\ g = highest /\ ~(e.ids[1] > highest + 1)
      BY <1>2, <1>3, <2>1 DEF Higher
    <2>3. PoppedIds' = A
      BY <1>1, <1>9
    <2>4. QED
      <3>1. gaps = gaps + 0
        BY <1>4
      <3>2. g \in PoppedIds' /\ Cardinality(Ends(PoppedIds') \ {g}) = gaps
        BY <1>4, <2>2, <2>3
      <3>3. QED
        BY <2>2, <3>1, <3>2, Zenon DEF e, h
  <1>10. CASE Added(s) # {}
    <2>1. PICK lo \in Added(s) :
              /\ <<lo, e.ids[2]>> \in Interval
              /\ \A x \in Id : x \in Added(s) <=> lo <= x /\ x <= e.ids[2]
      BY <1>1, <1>10, AddedInterval DEF e
    <2> DEFINE hi == e.ids[2]
    <2>2. /\ lo \in Id /\ lo \in Nat /\ 1 <= lo /\ lo <= hi /\ hi \in Nat /\ hi <= NumIds
          /\ New(s, lo) /\ e.ids[1] <= lo
      BY <1>3, <1>7, <2>1 DEF Added, Id, New, e
    <2>3. PoppedIds' = A \cup (lo .. hi)
      <3>1. \A x : x \in Added(s) <=> x \in lo .. hi
        <4>1. \A x : x \in Added(s) => x \in Id /\ x \in Nat
          BY DEF Added, Id
        <4>2. \A x : x \in lo .. hi => x \in Nat /\ x \in Id /\ lo <= x /\ x <= hi
          BY <1>3, <1>8, <2>2
        <4>3. QED
          BY <2>1, <2>2, <4>1, <4>2
      <3>2. QED
        BY <1>1, <3>1
    <2>4. CASE highest = None
      <3>1. h = 0 /\ A = {}
        BY <1>2, <1>4, <1>8, <2>4 DEF Id
      <3>2. g = hi
        BY <2>2, <3>1 DEF Higher
      <3>3. Ends(lo .. hi) \ {hi} = {} /\ hi \in lo .. hi
        BY <2>2 DEF Ends
      <3>4. Ends(A) \ {highest} = {}
        BY <3>1 DEF Ends
      <3>5. PoppedIds' = lo .. hi
        BY <2>3, <3>1
      <3>6. gaps = Cardinality({}) /\ gaps + 0 = gaps
        BY <1>4, <3>4
      <3>7. g \in PoppedIds' /\ Cardinality(Ends(PoppedIds') \ {g}) = gaps
        BY <3>2, <3>3, <3>5, <3>6
      <3>8. QED
        BY <2>4, <3>6, <3>7, Zenon DEF e, h
    <2>5. CASE highest # None
      <3>1. h = highest /\ h \in Id /\ h \in A /\ h \in Nat
        BY <1>2, <1>4, <2>5
      <3> DEFINE p == IF lo <= h THEN lo ELSE h
      <3>2. p \in Id /\ p <= lo
        BY <2>2, <3>1
      <3>3. p .. h \subseteq A
        <4>1. CASE lo <= h
          <5>1. ASSUME NEW x \in lo .. h PROVE x \in A
            <6>1. x \in Id /\ x \in Nat /\ lo <= x /\ x <= h
              <7>1. x \in Nat /\ lo <= x /\ x <= h
                BY <2>2, <3>1
              <7>2. h <= NumIds
                BY <1>8, <3>1
              <7>3. 1 <= x /\ x <= NumIds
                BY <1>3, <2>2, <3>1, <7>1, <7>2
              <7>4. QED
                BY <1>8, <7>1, <7>3
            <6>2. \A k \in 1 .. next[s] - 1 : files[s][k].ids[2] < x
              BY <1>2, <2>2, <6>1 DEF New, Beyond
            <6>3. New(s, x)
              BY <1>3, <2>2, <6>1, <6>2 DEF New, Beyond, e
            <6>4. QED
              BY <1>5, <6>1, <6>3
          <5>2. QED
            BY <4>1, <5>1
        <4>2. CASE ~(lo <= h)
          <5>1. h .. h = {h}
            BY <3>1
          <5>2. QED
            BY <3>1, <4>2, <5>1
        <4>3. QED
          BY <4>1, <4>2
      <3>4. lo > h + 1 <=> e.ids[1] > h + 1
        <4>1. e.ids[1] > h + 1 => lo > h + 1
          BY <1>3, <2>2, <3>1
        <4>2. ASSUME lo > h + 1, ~(e.ids[1] > h + 1) PROVE FALSE
          <5>1. h + 1 \in Id /\ h + 1 <= hi /\ h < h + 1 /\ e.ids[1] <= h + 1
            BY <1>3, <1>8, <2>2, <3>1, <4>2
          <5>2. h + 1 \in Added(s)
            BY <1>6, <1>7, <5>1
          <5>3. lo <= h + 1
            BY <2>1, <5>1, <5>2
          <5>4. QED
            BY <2>2, <3>1, <4>2, <5>3
        <4>3. QED
          BY <4>1, <4>2
      <3> DEFINE i == <<lo, hi>>
      <3>5. i \in Interval /\ i[1] = lo /\ i[2] = hi
        BY <2>1
      <3> HIDE DEF p, i
      <3>6. Cardinality(Ends(A \cup (i[1] .. i[2])) \ {Higher(h, i[2])}) =
                Cardinality(Ends(A) \ {h}) + IF i[1] > h + 1 THEN 1 ELSE 0
        <4>1. p <= i[1] /\ (\A x \in A : x <= h) /\ A \in SUBSET Id
          BY <1>2, <1>4, <3>2, <3>5
        <4>2. QED
          BY <3>1, <3>2, <3>3, <3>5, <4>1, GapStep
      <3>7. Cardinality(Ends(PoppedIds') \ {g}) = gaps + IF e.ids[1] > h + 1 THEN 1 ELSE 0
        <4>1. (IF i[1] > h + 1 THEN 1 ELSE 0) = IF e.ids[1] > h + 1 THEN 1 ELSE 0
          BY <3>4, <3>5
        <4>2. QED
          BY <1>4, <2>3, <3>1, <3>5, <3>6, <4>1, Zenon
      <3>8. g \in PoppedIds'
        <4>1. g \in {h, hi} /\ hi \in lo .. hi
          BY <2>2, <3>1 DEF Higher
        <4>2. QED
          BY <2>3, <3>1, <4>1
      <3>9. QED
        BY <2>5, <3>1, <3>7, <3>8, Zenon DEF e, h
    <2>6. QED
      BY <2>4, <2>5
  <1>11. QED
    BY <1>9, <1>10

(* The highest id and what is filled below it depend on nothing else.       *)
LEMMA SameIds ==
    ASSUME UNCHANGED <<files, next, highest>>
    PROVE  PoppedIds' = PoppedIds /\ HighestId' = HighestId /\ (Filled' <=> Filled)
  <1>1. PoppedIds' = PoppedIds /\ HighestId' = HighestId
    BY DEF PoppedIds, HighestId
  <1>2. InHeap' = InHeap /\ \A s, x : New(s, x)' <=> New(s, x)
    BY DEF InHeap, New, Offers
  <1>3. QED
    BY <1>1, <1>2 DEF Filled

-----------------------------------------------------------------------------
(* One step of verify_day.                                                  *)
LEMMA SameFiles ==
    ASSUME files' = files
    PROVE  /\ AreFiles' <=> AreFiles
           /\ AllSorted' <=> AllSorted
           /\ AllEvents' = AllEvents
           /\ Joint' = Joint /\ Denominator' = Denominator
  <1>1. Joint' = Joint
    BY DEF Joint
  <1>2. QED
    BY <1>1 DEF AreFiles, AllSorted, Sorted, AllEvents, EventsOf, Denominator

(* Before the first step.                                                   *)
LEMMA VerifyStart == VerifyInit => VerifyInv
  <1> SUFFICES ASSUME VerifyInit PROVE VerifyInv
    OBVIOUS
  <1>1. AreFiles
    <2>1. ASSUME NEW f \in SeqOf(Event, MaxEvents) PROVE f \in Seq(Event)
      <3>1. PICK m \in 0 .. MaxEvents : f \in [1 .. m -> Event]
        BY DEF SeqOf
      <3>2. m \in Nat
        BY VerificationAssumption
      <3>3. QED
        BY <3>1, <3>2
    <2>2. QED
      BY <2>1 DEF AreFiles, VerifyInit
  <1>2. \A s \in Source : Len(files[s]) \in Nat
    BY <1>1 DEF AreFiles
  <1>3. <<>> \in Seq(Event) /\ ToSet(<<>>) = {}
    BY DEF ToSet
  <1>4. VerifyTypes
    BY <1>1, <1>2, <1>3 DEF VerifyInit, VerifyTypes
  <1>5. PoppedEvents = {}
    BY DEF VerifyInit, PoppedEvents
  <1>6. PoppedIds = {} /\ Cardinality(Ends(PoppedIds) \ {highest}) = 0
    <2>1. \A s \in Source : KeptIds(files[s], next[s] - 1) = {}
      BY DEF VerifyInit, KeptIds
    <2>2. PoppedIds = {}
      BY <2>1 DEF PoppedIds
    <2>3. Ends(PoppedIds) \ {highest} = {}
      BY <2>2 DEF Ends
    <2>4. QED
      BY <2>2, <2>3, FS_EmptySet
  <1>7. ReportInv /\ ConflictInv
    BY DEF VerifyInit, ReportInv, ConflictInv
  <1>8. MergeInv /\ DistinctInv
    BY <1>3, <1>5 DEF VerifyInit, MergeInv, DistinctInv
  <1>9. GapInv
    <2>1. HighestId = 0 /\ Filled
      BY DEF VerifyInit, HighestId, Filled, Id
    <2>2. QED
      BY <1>3, <1>6, <2>1 DEF VerifyInit, GapInv
  <1>10. QED
    BY <1>4, <1>7, <1>8, <1>9 DEF VerifyInv

(* Nothing but the coverage has happened, or nothing is left to merge.      *)
LEMMA QuietStep ==
    ASSUME VerifyInv, MeasureCoverage \/ NothingRecorded \/ WriteReport
    PROVE  VerifyInv'
  <1>1. /\ UNCHANGED <<files, next, previous, merged, highest, gaps>>
        /\ stage \in {"coverage", "merge"} /\ stage' \in {"merge", "reported"}
    BY DEF MeasureCoverage, NothingRecorded, WriteReport
  <1>2. /\ AreFiles' <=> AreFiles
        /\ AllSorted' <=> AllSorted
        /\ AllEvents' = AllEvents
        /\ Joint' = Joint /\ Denominator' = Denominator
    BY <1>1, SameFiles
  <1>3. VerifyTypes'
    BY <1>1, <1>2 DEF VerifyInv, VerifyTypes
  <1>4. ReportInv'
    <2>1. CASE MeasureCoverage
      <3>1. /\ Joint # <<>>
            /\ report' = [joint  |-> Summary(Joint, Denominator),
                          source |-> [s \in Source |->
                                         Summary(SourceIntervals(files[s]), Denominator)]]
        BY <2>1 DEF MeasureCoverage
      <3>2. QED
        BY <1>1, <1>2, <3>1 DEF ReportInv
    <2>2. CASE NothingRecorded \/ WriteReport
      <3>1. report' = report
        BY <2>2 DEF NothingRecorded, WriteReport
      <3>2. QED
        BY <1>1, <1>2, <3>1 DEF ReportInv, VerifyInv
    <2>3. QED
      BY <2>1, <2>2
  <1>5. stage' = "reported" => \A s \in Source : next[s] = Len(files[s]) + 1
    <2>1. \A s \in Source : /\ files[s] \in Seq(Event) /\ Len(files[s]) \in Nat
                            /\ next[s] \in Nat /\ 1 <= next[s] /\ next[s] <= Len(files[s]) + 1
      BY EventTypes DEF VerifyInv
    <2>2. CASE MeasureCoverage
      BY <2>2 DEF MeasureCoverage
    <2>3. CASE NothingRecorded
      <3>1. \A s \in Source : files[s] = <<>>
        BY <2>3, JointIds DEF NothingRecorded, VerifyInv, VerifyTypes
      <3>2. \A s \in Source : Len(files[s]) = 0
        BY <3>1
      <3>3. QED
        BY <2>1, <3>2
    <2>4. CASE WriteReport
      <3>1. InHeap = {}
        BY <2>4 DEF WriteReport
      <3>2. QED
        BY <2>1, <3>1 DEF InHeap
    <2>5. QED
      BY <2>2, <2>3, <2>4
  <1>6. MergeInv'
    <2>1. PoppedEvents' = PoppedEvents
      BY <1>1 DEF PoppedEvents
    <2>2. QED
      BY <1>1, <1>2, <1>5, <2>1 DEF VerifyInv, MergeInv
  <1>7. ConflictInv' /\ DistinctInv' /\ GapInv'
    <2>1. PoppedIds' = PoppedIds /\ HighestId' = HighestId /\ (Filled' <=> Filled)
      BY <1>1, SameIds
    <2>2. QED
      BY <1>1, <1>2, <2>1 DEF VerifyInv, ConflictInv, DistinctInv, GapInv
  <1>8. QED
    BY <1>3, <1>4, <1>6, <1>7 DEF VerifyInv

(* A repeated event: dropped, or a conflict.                                *)
LEMMA DropStep ==
    ASSUME VerifyInv, NEW s \in Source, DropDuplicate(s)
    PROVE  VerifyInv'
  <1> DEFINE e == Offers(s)
  <1>1. /\ stage = "merge" /\ PoppedFrom(s)
        /\ previous # None /\ e.ids = previous.ids /\ e.updates = previous.updates
        /\ UNCHANGED <<files, stage, report, previous, merged, highest, gaps>>
    BY DEF DropDuplicate, Repeats, Conflicts
  <1>2. VerifyTypes /\ MergeInv
    BY DEF VerifyInv
  <1>3. /\ PoppedEvents' = PoppedEvents \cup {e}
        /\ e \in Event
        /\ next' \in [Source -> Nat]
        /\ \A t \in Source : next'[t] \in 1 .. Len(files[t]) + 1
        /\ \A t \in Source : next[t] <= next'[t]
    BY <1>1, <1>2, Joins
  <1>4. /\ AreFiles' <=> AreFiles
        /\ AllSorted' <=> AllSorted
        /\ AllEvents' = AllEvents
        /\ Joint' = Joint /\ Denominator' = Denominator
    BY <1>1, SameFiles
  <1>5. e = previous
    <2>1. \A d \in Event : d = [ids |-> d.ids, updates |-> d.updates]
      BY DEF Event
    <2>2. previous \in Event
      BY <1>1, <1>2 DEF VerifyTypes
    <2> HIDE DEF e
    <2>3. QED
      BY <1>1, <1>3, <2>1, <2>2
  <1>6. e \in PoppedEvents
    BY <1>1, <1>2, <1>5 DEF MergeInv
  <1>7. VerifyTypes'
    BY <1>1, <1>2, <1>3, <1>4 DEF VerifyTypes
  <1>8. \A t \in Source : next[t] \in Nat /\ next'[t] \in Nat
    BY <1>2, <1>3 DEF VerifyTypes
  <1>9. MergeInv'
    <2>1. \A t \in Source : \A i : i \in next'[t] .. Len(files[t]) => i \in next[t] .. Len(files[t])
      <3>1. \A t \in Source : Len(files[t]) \in Nat
        BY <1>2, EventTypes
      <3>2. QED
        BY <1>3, <1>8, <3>1
    <2>2. PoppedEvents' = PoppedEvents
      BY <1>3, <1>6
    <2>3. QED
      BY <1>1, <1>2, <1>4, <2>1, <2>2 DEF MergeInv
  <1>10. ReportInv' /\ ConflictInv' /\ DistinctInv'
    BY <1>1, <1>4 DEF VerifyInv, ReportInv, ConflictInv, DistinctInv
  <1>11. GapInv'
    <2>1. GapInv /\ s \in InHeap
      BY <1>1 DEF VerifyInv, PoppedFrom
    <2>2. /\ HighestId \in Nat /\ e.ids \in Interval
          /\ \A k \in 1 .. next[s] - 1 : files[s][k].ids[2] <= HighestId
      BY <1>1, <1>2, <2>1, WhenOffered
    <2>3. e.ids[2] <= HighestId /\ e.ids[2] \in Nat
      BY <1>1, <1>2, <1>5, <1>6, <2>1, <2>2, Intervals DEF MergeInv, GapInv
    <2>4. HighestId' = HighestId /\ HighestId' = Higher(HighestId, e.ids[2])
      BY <1>1, <2>2, <2>3 DEF HighestId, Higher
    <2>5. Filled'
      BY <1>1, <1>2, <2>1, <2>2, <2>4, FilledStep DEF GapInv
    <2>6. PoppedIds' = PoppedIds
      <3>1. PoppedIds' = PoppedIds \cup Added(s)
        BY <1>1, <1>2, IdsJoin
      <3>2. ASSUME NEW x \in Added(s) PROVE x \in PoppedIds
        <4>1. x \in Id /\ x \in Nat /\ x <= e.ids[2] /\ New(s, x)
          BY DEF Added, Id
        <4>2. x <= HighestId
          BY <2>2, <2>3, <4>1
        <4>3. QED
          BY <1>1, <2>1, <4>1, <4>2 DEF GapInv, Filled
      <3>3. QED
        BY <3>1, <3>2
    <2>7. QED
      BY <1>1, <2>1, <2>4, <2>5, <2>6 DEF GapInv
  <1>12. QED
    BY <1>7, <1>9, <1>10, <1>11 DEF VerifyInv

(* A conflict: the merge ends here.                                         *)
LEMMA ConflictStep ==
    ASSUME VerifyInv, NEW s \in Source, RaiseConflict(s)
    PROVE  VerifyInv'
  <1> DEFINE e == Offers(s)
  <1>1. /\ stage = "merge" /\ PoppedFrom(s) /\ stage' = "conflict"
        /\ previous # None /\ e.ids = previous.ids /\ e.updates # previous.updates
        /\ UNCHANGED <<files, report, previous, merged, highest, gaps>>
    BY DEF RaiseConflict, Repeats, Conflicts
  <1>2. VerifyTypes /\ MergeInv
    BY DEF VerifyInv
  <1>3. /\ e \in AllEvents /\ next' \in [Source -> Nat]
        /\ \A t \in Source : next'[t] \in 1 .. Len(files[t]) + 1
    BY <1>1, <1>2, Joins
  <1>4. /\ AreFiles' <=> AreFiles
        /\ AllSorted' <=> AllSorted
        /\ AllEvents' = AllEvents
        /\ Joint' = Joint /\ Denominator' = Denominator
    BY <1>1, SameFiles
  <1>5. VerifyTypes'
    BY <1>1, <1>2, <1>3, <1>4 DEF VerifyTypes
  <1>6. previous \in AllEvents
    <2>1. previous \in PoppedEvents
      BY <1>1, <1>2 DEF MergeInv
    <2>2. PICK t \in Source : \E i \in 1 .. next[t] - 1 : previous = files[t][i]
      BY <2>1 DEF PoppedEvents
    <2>3. PICK i \in 1 .. next[t] - 1 : previous = files[t][i]
      BY <2>2
    <2>4. i \in DOMAIN files[t]
      <3>1. /\ files[t] \in Seq(Event) /\ Len(files[t]) \in Nat /\ next[t] \in Nat
            /\ next[t] <= Len(files[t]) + 1
        BY <1>2, EventTypes
      <3>2. QED
        BY <3>1
    <2>5. QED
      BY <2>3, <2>4 DEF AllEvents, EventsOf, ToSet
  <1>7. ConflictInv'
    BY <1>1, <1>3, <1>4, <1>6 DEF ConflictInv
  <1>8. MergeInv'
    BY <1>1 DEF MergeInv
  <1>9. ReportInv' /\ DistinctInv' /\ GapInv'
    BY <1>1, <1>4 DEF VerifyInv, ReportInv, DistinctInv, GapInv
  <1>10. QED
    BY <1>5, <1>7, <1>8, <1>9 DEF VerifyInv

(* A new event goes on to reconstruct().                                    *)
LEMMA YieldStep ==
    ASSUME VerifyInv, NEW s \in Source, Yield(s)
    PROVE  VerifyInv'
  <1> DEFINE e == Offers(s)
             M == ToSet(merged)
  <1>1. /\ stage = "merge" /\ PoppedFrom(s)
        /\ previous # None => e.ids # previous.ids
        /\ previous' = e /\ merged' = Append(merged, e)
        /\ gaps' = IF highest # None /\ e.ids[1] > highest + 1 THEN gaps + 1 ELSE gaps
        /\ highest' = IF highest = None THEN e.ids[2] ELSE Higher(highest, e.ids[2])
        /\ UNCHANGED <<files, stage, report>>
    BY DEF Yield, Repeats, FollowsGap
  <1>2. VerifyTypes /\ MergeInv /\ DistinctInv /\ GapInv
    BY DEF VerifyInv
  <1>3. /\ PoppedEvents' = PoppedEvents \cup {e}
        /\ e \in Event /\ e.ids \in Interval
        /\ next' \in [Source -> Nat]
        /\ \A t \in Source : next'[t] \in 1 .. Len(files[t]) + 1
        /\ \A t \in Source : next[t] <= next'[t]
        /\ next[s] \in 1 .. Len(files[s])
    BY <1>1, <1>2, Joins
  <1>4. /\ AreFiles' <=> AreFiles
        /\ AllSorted' <=> AllSorted
        /\ AllEvents' = AllEvents
        /\ Joint' = Joint /\ Denominator' = Denominator
    BY <1>1, SameFiles
  <1>5. /\ e.ids[1] \in Nat /\ e.ids[2] \in Nat /\ e.ids[1] \in Id /\ e.ids[2] \in Id
        /\ e.ids[1] <= e.ids[2]
    BY <1>3, Intervals, VerificationAssumption DEF Id
  <1>6. \A d \in M : d \in Event /\ d.ids \in Interval
    BY <1>2, EventTypes
  <1>7. None \notin Event /\ None \notin Id
    BY VerificationAssumption
  <1>8. merged \in Seq(Event) /\ (previous = None => M = {}) /\ (merged = <<>> <=> M = {})
    <2>1. merged \in Seq(Event)
      BY <1>2 DEF VerifyTypes
    <2>2. merged = <<>> <=> M = {}
      <3>1. merged = <<>> <=> Len(merged) = 0
        BY <2>1
      <3>2. Len(merged) # 0 => 1 \in DOMAIN merged
        BY <2>1
      <3>3. QED
        BY <2>1, <3>1, <3>2 DEF ToSet
    <2>3. QED
      BY <1>1, <1>2, <2>1, <2>2 DEF MergeInv
  <1> HIDE DEF e
  <1>9. ToSet(merged') = M \cup {e} /\ merged' \in Seq(Event) /\ merged' # <<>>
    <2>1. /\ Append(merged, e) \in Seq(Event) /\ Len(Append(merged, e)) = Len(merged) + 1
          /\ \A i \in 1 .. Len(merged) : Append(merged, e)[i] = merged[i]
          /\ Append(merged, e)[Len(merged) + 1] = e /\ Len(merged) \in Nat
      BY <1>3, <1>8
    <2>2. DOMAIN merged = 1 .. Len(merged) /\ DOMAIN Append(merged, e) = 1 .. Len(merged) + 1
      BY <1>8, <2>1
    <2>3. \A i : i \in 1 .. Len(merged) + 1 <=> i \in 1 .. Len(merged) \/ i = Len(merged) + 1
      BY <2>1
    <2>4. \A d : d \in ToSet(Append(merged, e)) <=> d \in M \cup {e}
      BY <2>1, <2>2, <2>3 DEF ToSet
    <2>5. ToSet(Append(merged, e)) = M \cup {e}
      BY <2>4
    <2>6. Append(merged, e) # <<>>
      BY <2>1
    <2>7. QED
      BY <1>1, <2>1, <2>5, <2>6
  <1>10. highest' \in Id
    BY <1>1, <1>2, <1>5, <1>7 DEF VerifyTypes, Higher, Id
  <1>11. VerifyTypes'
    <2>1. gaps' \in Nat
      BY <1>1, <1>2 DEF VerifyTypes
    <2>2. previous' \in Event /\ stage' \in {"coverage", "merge", "conflict", "reported"}
      BY <1>1, <1>3
    <2>3. AreFiles'
      BY <1>2, <1>4 DEF VerifyTypes
    <2>4. QED
      BY <1>1, <1>3, <1>9, <1>10, <2>1, <2>2, <2>3 DEF VerifyTypes
  <1>12. ASSUME AllSorted, NEW d \in M PROVE ~Smaller(e.ids, d.ids) /\ d.ids # e.ids
    <2>1. /\ previous # None /\ previous \in M
          /\ ~Smaller(previous.ids, d.ids)
          /\ \A t \in Source : \A i \in next[t] .. Len(files[t]) :
                 ~Smaller(files[t][i].ids, previous.ids)
      BY <1>1, <1>2, <1>8, <1>12 DEF MergeInv
    <2>2. ~Smaller(e.ids, previous.ids)
      <3>1. next[s] \in next[s] .. Len(files[s])
        BY <1>3
      <3>2. QED
        BY <2>1, <3>1 DEF e, Offers
    <2>3. d.ids \in Interval /\ previous.ids \in Interval
      BY <1>6, <2>1
    <2>4. ~Smaller(e.ids, d.ids)
      BY <1>3, <2>1, <2>2, <2>3, Order
    <2>5. d.ids # e.ids
      BY <1>1, <1>3, <2>1, <2>2, <2>3, Order DEF e
    <2>6. QED
      BY <2>4, <2>5
  <1>13. MergeInv'
    <2>1. ToSet(merged') = PoppedEvents'
      BY <1>1, <1>2, <1>3, <1>9 DEF MergeInv
    <2>2. previous' \in ToSet(merged') /\ previous' # None
      BY <1>1, <1>3, <1>7, <1>9 DEF e
    <2>3. ASSUME AllSorted, NEW d \in ToSet(merged') PROVE ~Smaller(previous'.ids, d.ids)
      <3>1. ~Smaller(e.ids, e.ids)
        BY <1>3, Order
      <3>2. QED
        BY <1>1, <1>9, <1>12, <2>3, <3>1 DEF e
    <2>4. ASSUME AllSorted, NEW t \in Source, NEW i \in next'[t] .. Len(files[t])
          PROVE  ~Smaller(files[t][i].ids, previous'.ids)
      <3>1. i \in next[t] .. Len(files[t])
        <4>1. next[t] \in Nat /\ next'[t] \in Nat /\ next[t] <= next'[t] /\ Len(files[t]) \in Nat
          BY <1>2, <1>3, EventTypes
        <4>2. QED
          BY <4>1
      <3>2. s \in InHeap /\ Least(s)
        BY <1>1 DEF PoppedFrom
      <3>3. ~Smaller(files[t][i].ids, Offers(s).ids)
        BY <1>2, <2>4, <3>1, <3>2, LeastLeft
      <3>4. QED
        BY <1>1, <3>3 DEF e
    <2>5. stage' = "merge"
      BY <1>1
    <2>6. QED
      BY <1>1, <1>4, <2>1, <2>2, <2>3, <2>4, <2>5 DEF MergeInv
  <1>14. DistinctInv'
    <2>1. ASSUME AllSorted, NEW c \in M \cup {e}, NEW d \in M \cup {e}, c.ids = d.ids
          PROVE  c = d
      BY <1>2, <1>12, <2>1 DEF DistinctInv
    <2>2. QED
      BY <1>4, <1>9, <2>1 DEF DistinctInv
  <1>15. GapInv'
    <2> DEFINE g == Higher(HighestId, e.ids[2])
    <2>1. GapInv /\ s \in InHeap
      BY <1>1, <1>2 DEF PoppedFrom
    <2>2. /\ HighestId \in Nat /\ (HighestId = 0 <=> highest = None) /\ (highest # None => HighestId = highest)
          /\ \A k \in 1 .. next[s] - 1 : files[s][k].ids[2] <= HighestId
      BY <1>1, <1>2, <2>1, WhenOffered
    <2>3. highest' = g /\ highest' # None /\ HighestId' = g /\ HighestId <= g /\ e.ids[2] <= g /\ g \in Nat
      <3>1. g \in {HighestId, e.ids[2]} /\ HighestId <= g /\ e.ids[2] <= g
        <4>1. HighestId \in Int /\ e.ids[2] \in Int
          BY <1>5, <2>2
        <4>2. QED
          BY <4>1, HigherLower
      <3>2. e.ids[2] # 0
        BY <1>5 DEF Id
      <3>3. highest' = g
        BY <1>1, <1>5, <2>2, <3>2 DEF Higher, e
      <3>4. highest' # None
        BY <1>7, <1>10
      <3>5. QED
        BY <1>5, <2>2, <3>1, <3>3, <3>4 DEF HighestId
    <2>4. \A d \in ToSet(merged') : d.ids[2] <= HighestId'
      <3>1. \A d \in M : d.ids[2] <= HighestId /\ d.ids[2] \in Nat
        BY <1>1, <1>6, <2>1, Intervals DEF GapInv
      <3>2. \A d \in M : d.ids[2] <= g
        BY <2>2, <2>3, <3>1
      <3>3. QED
        BY <1>9, <2>3, <3>2
    <2>5. Filled'
      BY <1>1, <1>2, <2>1, <2>2, <2>3, FilledStep DEF GapInv, e
    <2>6. /\ g \in PoppedIds'
          /\ Cardinality(Ends(PoppedIds') \ {g}) =
                 gaps + IF highest # None /\ e.ids[1] > highest + 1 THEN 1 ELSE 0
      BY <1>1, <1>2, GapsStep DEF e
    <2>7. gaps' = gaps + IF highest # None /\ e.ids[1] > highest + 1 THEN 1 ELSE 0
      BY <1>1, <1>2 DEF VerifyTypes, e
    <2>8. gaps' = Cardinality(Ends(PoppedIds') \ {highest'}) /\ highest' \in PoppedIds'
      BY <2>3, <2>6, <2>7
    <2>9. QED
      BY <1>9, <2>3, <2>4, <2>5, <2>8 DEF GapInv
  <1>16. ReportInv' /\ ConflictInv'
    BY <1>1, <1>4 DEF VerifyInv, ReportInv, ConflictInv
  <1>17. QED
    BY <1>11, <1>13, <1>14, <1>15, <1>16 DEF VerifyInv

(* Every step keeps the invariant.                                          *)
LEMMA VerifyStep == VerifyInv /\ [VerifyNext]_verifyVars => VerifyInv'
  <1> SUFFICES ASSUME VerifyInv, [VerifyNext]_verifyVars PROVE VerifyInv'
    OBVIOUS
  <1>1. CASE MeasureCoverage \/ NothingRecorded \/ WriteReport
    BY <1>1, QuietStep
  <1>2. CASE \E s \in Source : DropDuplicate(s)
    BY <1>2, DropStep
  <1>3. CASE \E s \in Source : RaiseConflict(s)
    BY <1>3, ConflictStep
  <1>4. CASE \E s \in Source : Yield(s)
    BY <1>4, YieldStep
  <1>5. CASE UNCHANGED verifyVars
    <2>1. UNCHANGED <<files, stage, report, next, previous, merged, highest, gaps>>
      BY <1>5 DEF verifyVars
    <2>2. /\ AreFiles' <=> AreFiles
          /\ AllSorted' <=> AllSorted
          /\ AllEvents' = AllEvents
          /\ Joint' = Joint /\ Denominator' = Denominator
      BY <2>1, SameFiles
    <2>3. PoppedEvents' = PoppedEvents
      BY <2>1 DEF PoppedEvents
    <2>4. VerifyTypes' /\ ReportInv' /\ ConflictInv'
      BY <2>1, <2>2 DEF VerifyInv, VerifyTypes, ReportInv, ConflictInv
    <2>5. MergeInv' /\ DistinctInv'
      BY <2>1, <2>2, <2>3 DEF VerifyInv, MergeInv, DistinctInv
    <2>6. GapInv'
      <3>1. PoppedIds' = PoppedIds /\ HighestId' = HighestId /\ (Filled' <=> Filled)
        BY <2>1, SameIds
      <3>2. QED
        BY <2>1, <3>1 DEF VerifyInv, GapInv
    <2>7. QED
      BY <2>4, <2>5, <2>6 DEF VerifyInv
  <1>6. QED
    BY <1>1, <1>2, <1>3, <1>4, <1>5 DEF VerifyNext

(* The merge drops only what it has, keeps the order of sorted files, and   *)
(* its gaps are the ends of the runs of the ids that the intervals of what  *)
(* it has passed give (merge_sorted, deduplicate_depth, reconstruct).       *)
THEOREM VerifyInvariant == VerifySpec => []VerifyInv
  <1>1. VerifyInit => VerifyInv
    BY VerifyStart
  <1>2. VerifyInv /\ [VerifyNext]_verifyVars => VerifyInv'
    BY VerifyStep
  <1>3. QED
    BY <1>1, <1>2, PTL DEF VerifySpec

(* What the report says, in the words of the property.                      *)
LEMMA ReportDescribes == VerifyInv => CoverageHolds
  <1> SUFFICES ASSUME VerifyInv, report # None PROVE CoverageHolds
    BY DEF CoverageHolds
  <1> DEFINE d == Denominator
  <1>1. AreFiles /\ Joint # <<>>
    BY DEF VerifyInv, VerifyTypes, ReportInv
  <1>2. /\ report.joint = Summary(Joint, d)
        /\ \A s \in Source : report.source[s] = Summary(SourceIntervals(files[s]), d)
    BY DEF VerifyInv, ReportInv
  <1>3. /\ Joint \in Seq(Interval)
        /\ Listed(Joint) \subseteq IdsOf(AllEvents)
        /\ AllSorted => Listed(Joint) = IdsOf(AllEvents)
    BY <1>1, JointIds
  <1>4. d \in Interval
    BY <1>1, DenominatorSpans
  <1>5. /\ Apart(report.joint.missing)
        /\ Listed(report.joint.missing) = (d[1] .. d[2]) \ Listed(Joint)
        /\ report.joint.covered = Cardinality((d[1] .. d[2]) \cap Listed(Joint))
    BY <1>2, <1>3, <1>4, SummaryIds
  <1>6. ASSUME AllSorted PROVE Describes(report.joint, AllEvents)
    BY <1>3, <1>5, <1>6 DEF Describes
  <1>7. ASSUME AllSorted, NEW s \in Source PROVE Describes(report.source[s], EventsOf(s))
    <2> DEFINE list == SourceIntervals(files[s])
    <2>1. list \in Seq(Interval) /\ Listed(list) = IdsOf(EventsOf(s))
      <3>1. files[s] \in Seq(Event)
        BY <1>1 DEF AreFiles
      <3>2. \A i, j \in DOMAIN files[s] : i < j => ~Smaller(files[s][j].ids, files[s][i].ids)
        BY <1>7 DEF AllSorted, Sorted
      <3>3. QED
        BY <3>1, <3>2, SourceLists DEF EventsOf
    <2>2. /\ Apart(Summary(list, d).missing)
          /\ Listed(Summary(list, d).missing) = (d[1] .. d[2]) \ Listed(list)
          /\ Summary(list, d).covered = Cardinality((d[1] .. d[2]) \cap Listed(list))
      BY <1>4, <2>1, SummaryIds
    <2>3. QED
      BY <1>2, <2>1, <2>2 DEF Describes
  <1>8. (d[1] .. d[2]) \ Listed(report.joint.missing) \subseteq IdsOf(AllEvents)
    BY <1>3, <1>5
  <1>9. QED
    BY <1>6, <1>7, <1>8 DEF CoverageHolds

(* For any number of recorders, events and ids, the report gives exactly    *)
(* the ids that no event of sorted files carries, and of files in any order *)
(* counts none that no event carries (coverage_summary).                    *)
THEOREM CoverageIsExact == VerifySpec => []CoverageHolds
  BY VerifyInvariant, ReportDescribes, PTL

(* When all is read, all of it has got through.                             *)
LEMMA AllGetThrough ==
    ASSUME VerifyInv, stage = "reported"
    PROVE  ToSet(merged) = AllEvents
  <1>1. ToSet(merged) = PoppedEvents /\ \A s \in Source : next[s] = Len(files[s]) + 1
    BY DEF VerifyInv, MergeInv
  <1>2. ASSUME NEW s \in Source
        PROVE  {files[s][i] : i \in 1 .. next[s] - 1} = EventsOf(s)
    <2>1. Len(files[s]) \in Nat /\ DOMAIN files[s] = 1 .. Len(files[s])
      BY EventTypes DEF VerifyInv, VerifyTypes, AreFiles
    <2>2. next[s] - 1 = Len(files[s])
      BY <1>1, <2>1
    <2>3. QED
      BY <2>1, <2>2 DEF EventsOf, ToSet
  <1>3. PoppedEvents = AllEvents
    BY <1>2 DEF PoppedEvents, AllEvents
  <1>4. QED
    BY <1>1, <1>3

(* An event still to come cannot conflict with one that was passed.         *)
LEMMA ConflictsDecide == VerifyInv => ConflictsFound
  <1> SUFFICES ASSUME VerifyInv, AllSorted
               PROVE  LET conflict == \E d, e \in AllEvents : d.ids = e.ids /\ d.updates # e.updates
                      IN  /\ stage = "conflict" => conflict
                          /\ stage = "reported" => ~conflict
    BY DEF ConflictsFound
  <1>1. stage = "conflict" => \E d, e \in AllEvents : d.ids = e.ids /\ d.updates # e.updates
    BY DEF VerifyInv, ConflictInv
  <1>2. ASSUME stage = "reported", NEW d \in AllEvents, NEW e \in AllEvents, d.ids = e.ids
        PROVE  d.updates = e.updates
    <2>1. d \in ToSet(merged) /\ e \in ToSet(merged)
      BY <1>2, AllGetThrough DEF VerifyInv
    <2>2. QED
      BY <1>2, <2>1 DEF VerifyInv, DistinctInv
  <1>3. QED
    BY <1>1, <1>2

(* For any number of recorders and events, the verification of sorted files *)
(* ends in a conflict exactly if two events of equal ids differ, wherever   *)
(* they are (merge_sorted, deduplicate_depth).                              *)
THEOREM ConflictsAreFound == VerifySpec => []ConflictsFound
  BY VerifyInvariant, ConflictsDecide, PTL

(* The ends of the runs of ids below the highest are followed by exactly    *)
(* one missing interval each.                                               *)
LEMMA MissingFollowEnds ==
    ASSUME NEW list \in Seq(Interval), Apart(list), NEW d \in Interval, NEW A,
           Listed(list) = (d[1] .. d[2]) \ A, d[1] \in A, d[2] \in A, A \subseteq d[1] .. d[2]
    PROVE  Cardinality(Ends(A) \ {d[2]}) = Len(list)
  <1> DEFINE m == Len(list)
             E == Ends(A) \ {d[2]}
             f == [n \in 1 .. m |-> list[n][1] - 1]
             lo == d[1]
             hi == d[2]
  <1>1. m \in Nat /\ lo \in Nat /\ hi \in Nat
    BY Intervals
  <1>2. \A n \in 1 .. m : list[n][1] \in Nat /\ list[n][2] \in Nat /\ list[n][1] <= list[n][2]
    BY InList
  <1>3. \A k, n \in 1 .. m : k < n => list[n][1] > list[k][2] + 1
    BY ApartPairs
  <1>4. \A x : (x \in Int /\ \E n \in 1 .. m : list[n][1] <= x /\ x <= list[n][2]) <=>
                   x \in lo .. hi /\ x \notin A
    <2>1. \A x : x \in Listed(list) <=> x \in lo .. hi /\ x \notin A
      OBVIOUS
    <2>2. \A x : x \in Listed(list) <=>
                     x \in Int /\ \E n \in 1 .. m : list[n][1] <= x /\ x <= list[n][2]
      BY InListed
    <2>3. QED
      BY <2>1, <2>2
  <1>5. lo \in A /\ hi \in A /\ A \subseteq lo .. hi
    OBVIOUS
  <1> HIDE DEF m, lo, hi
  <1>6. ASSUME NEW n \in 1 .. m PROVE list[n][1] - 1 \in E
    <2> DEFINE x == list[n][1] - 1
    <2>1. list[n][1] \in lo .. hi /\ list[n][1] \notin A
      BY <1>2, <1>4
    <2>2. lo < list[n][1] /\ x \in lo .. hi /\ x + 1 = list[n][1]
      BY <1>1, <1>2, <1>5, <2>1
    <2> HIDE DEF x
    <2>3. x \in A
      <3>1. SUFFICES ASSUME x \notin A PROVE FALSE
        OBVIOUS
      <3>2. PICK k \in 1 .. m : list[k][1] <= x /\ x <= list[k][2]
        BY <1>4, <2>2, <3>1
      <3>3. /\ list[n][1] \in Nat /\ list[n][2] \in Nat /\ list[n][1] <= list[n][2]
            /\ list[k][1] \in Nat /\ list[k][2] \in Nat /\ x \in Int
        BY <1>2, <2>2
      <3>4. CASE k < n
        <4>1. list[n][1] > list[k][2] + 1
          BY <1>3, <3>4
        <4>2. QED
          BY <2>2, <3>2, <3>3, <4>1
      <3>5. CASE n < k
        <4>1. list[k][1] > list[n][2] + 1
          BY <1>3, <3>5
        <4>2. QED
          BY <2>2, <3>2, <3>3, <4>1
      <3>6. CASE n = k
        BY <2>2, <3>2, <3>3, <3>6
      <3>7. QED
        BY <1>1, <3>4, <3>5, <3>6
    <2>4. x # hi
      BY <1>1, <2>1, <2>2
    <2>5. QED
      BY <2>1, <2>2, <2>3, <2>4 DEF Ends, x, hi
  <1>7. f \in [1 .. m -> E]
    BY <1>6
  <1>8. IsInjective(f)
    <2>1. ASSUME NEW k \in 1 .. m, NEW n \in 1 .. m, f[k] = f[n] PROVE k = n
      <3>1. /\ list[k][1] = list[n][1] /\ list[k][1] \in Nat /\ list[n][1] \in Nat
            /\ list[k][2] \in Nat /\ list[n][2] \in Nat
            /\ list[k][1] <= list[k][2] /\ list[n][1] <= list[n][2]
        <4>1. /\ list[k][1] \in Nat /\ list[n][1] \in Nat
              /\ list[k][2] \in Nat /\ list[n][2] \in Nat
              /\ list[k][1] <= list[k][2] /\ list[n][1] <= list[n][2]
          BY <1>2
        <4>2. f[k] = list[k][1] - 1 /\ f[n] = list[n][1] - 1
          OBVIOUS
        <4>3. list[k][1] - 1 = list[n][1] - 1
          BY <2>1, <4>2
        <4>4. QED
          BY <4>1, <4>3
      <3>2. ~(k < n)
        <4>1. k < n => list[n][1] > list[k][2] + 1
          BY <1>3
        <4>2. QED
          BY <3>1, <4>1
      <3>3. ~(n < k)
        <4>1. n < k => list[k][1] > list[n][2] + 1
          BY <1>3
        <4>2. QED
          BY <3>1, <4>1
      <3>4. QED
        BY <1>1, <3>2, <3>3
    <2>2. QED
      BY <2>1 DEF IsInjective
  <1>9. ASSUME NEW x \in E PROVE \E n \in 1 .. m : f[n] = x
    <2>1. x \in A /\ x + 1 \notin A /\ x # hi /\ x \in Nat /\ x \in lo .. hi
      BY <1>1, <1>5 DEF Ends, hi
    <2>2. x + 1 \in lo .. hi
      BY <1>1, <2>1
    <2>3. PICK n \in 1 .. m : list[n][1] <= x + 1 /\ x + 1 <= list[n][2]
      BY <1>4, <2>1, <2>2
    <2>4. list[n][1] \in Nat /\ list[n][2] \in Nat
      BY <1>2
    <2>5. ~(list[n][1] <= x)
      <3>1. SUFFICES ASSUME list[n][1] <= x PROVE FALSE
        OBVIOUS
      <3>2. x \in Int /\ x <= list[n][2]
        BY <2>1, <2>3, <2>4
      <3>3. x \notin A
        BY <1>4, <3>1, <3>2
      <3>4. QED
        BY <2>1, <3>3
    <2>6. list[n][1] - 1 = x
      <3>1. \A a, b \in Nat : a <= b + 1 /\ ~(a <= b) => a - 1 = b
        OBVIOUS
      <3>2. QED
        BY <2>1, <2>3, <2>4, <2>5, <3>1
    <2>7. QED
      BY <2>6
  <1> HIDE DEF f, E
  <1>10. f \in Bijection(1 .. m, E)
    BY <1>7, <1>8, <1>9 DEF Bijection, Injection, Surjection
  <1>11. IsFiniteSet(1 .. m) /\ Cardinality(1 .. m) = m
    BY <1>1, FS_Interval
  <1>12. Cardinality(E) = m
    BY <1>10, <1>11, FS_Bijection DEF ExistsBijection
  <1>13. QED
    BY <1>12 DEF E, m

(* The popped ids are in the end those of the joint intervals.              *)
LEMMA AllListed ==
    ASSUME VerifyInv, stage = "reported"
    PROVE  PoppedIds = Listed(Joint)
  <1>1. \A s \in Source : /\ files[s] \in Seq(Event) /\ Len(files[s]) \in Nat
                          /\ next[s] = Len(files[s]) + 1
    BY EventTypes DEF VerifyInv, MergeInv
  <1>2. ASSUME NEW s \in Source
        PROVE  KeptIds(files[s], next[s] - 1) = Listed(SourceIntervals(files[s]))
    <2>1. next[s] - 1 = Len(files[s])
      BY <1>1
    <2>2. QED
      BY <1>1, <2>1, SourceIds
  <1>3. \A x : x \in Listed(Joint) <=> \E s \in Source : x \in Listed(SourceIntervals(files[s]))
    BY JointIds DEF VerifyInv, VerifyTypes
  <1>4. \A x : x \in PoppedIds <=> x \in Listed(Joint)
    BY <1>2, <1>3 DEF PoppedIds
  <1>5. QED
    BY <1>4

(* Gaps counted, ends of runs and missing intervals are as many.            *)
LEMMA GapsCount == VerifyInv => GapsMatchCoverage
  <1> SUFFICES ASSUME VerifyInv, stage = "reported"
               PROVE  /\ ToSet(merged) = AllEvents
                      /\ report # None => gaps = Len(report.joint.missing)
    BY DEF GapsMatchCoverage
  <1>1. ToSet(merged) = AllEvents
    BY AllGetThrough
  <1>2. ASSUME report # None PROVE gaps = Len(report.joint.missing)
    <2> DEFINE d == Denominator
               A == Listed(Joint)
               missing == report.joint.missing
    <2>1. AreFiles /\ Joint # <<>> /\ report.joint = Summary(Joint, d)
      BY <1>2 DEF VerifyInv, VerifyTypes, ReportInv
    <2>2. Joint \in Seq(Interval) /\ A = PoppedIds
      BY <2>1, JointIds, AllListed
    <2>3. d \in Interval /\ d[1] \in A /\ d[2] \in A /\ A \subseteq d[1] .. d[2]
      BY <2>1, DenominatorSpans
    <2>4. /\ missing \in Seq(Interval) /\ Apart(missing)
          /\ Listed(missing) = (d[1] .. d[2]) \ A
      BY <2>1, <2>2, <2>3, SummaryIds
    <2>5. gaps = Cardinality(Ends(A) \ {highest})
      BY <2>2 DEF VerifyInv, GapInv
    <2>6. highest = d[2]
      <3>1. merged # <<>>
        <4>1. PICK e \in PoppedEvents : d[2] <= e.ids[2]
          BY <2>2, <2>3, IdsPopped DEF VerifyInv
        <4>2. e \in ToSet(merged)
          BY <4>1 DEF VerifyInv, MergeInv
        <4>3. QED
          BY <4>2 DEF ToSet
      <3>2. highest # None /\ highest \in A /\ HighestId = highest
        BY <2>2, <3>1 DEF VerifyInv, GapInv, HighestId
      <3>3. d[1] \in Nat /\ d[2] \in Nat
        BY <2>3, Intervals
      <3>4. highest <= d[2] /\ highest \in Nat
        BY <2>3, <3>2, <3>3
      <3>5. d[2] <= highest
        <4>1. PICK e \in PoppedEvents : d[2] <= e.ids[2]
          BY <2>2, <2>3, IdsPopped DEF VerifyInv
        <4>2. e \in ToSet(merged)
          BY <4>1 DEF VerifyInv, MergeInv
        <4>3. e.ids[2] <= highest
          BY <3>2, <4>2 DEF VerifyInv, GapInv
        <4>4. e.ids[2] \in Nat
          BY <4>2, EventTypes, Intervals DEF VerifyInv
        <4>5. QED
          BY <3>3, <3>4, <4>1, <4>3, <4>4
      <3>6. QED
        BY <3>3, <3>4, <3>5
    <2> HIDE DEF d, A, missing
    <2>7. Cardinality(Ends(A) \ {d[2]}) = Len(missing)
      BY <2>3, <2>4, MissingFollowEnds
    <2>8. QED
      BY <2>5, <2>6, <2>7 DEF missing
  <1>3. QED
    BY <1>1, <1>2

(* For any number of recorders and events in any order, the gaps that the   *)
(* rebuilding counts in their merge are as many as the intervals the        *)
(* coverage report misses, and no event was lost (verify_day).              *)
THEOREM GapsAreMissing == VerifySpec => []GapsMatchCoverage
  BY VerifyInvariant, GapsCount, PTL

=============================================================================
