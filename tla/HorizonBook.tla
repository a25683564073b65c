---------------------------- MODULE HorizonBook ----------------------------
(***************************************************************************)
(* HorizonBook, the Python book the verifier replays a day with.  Instead  *)
(* of ordered maps it keeps a dictionary per side, a count of the levels   *)
(* inside the horizon that every change of a level has to keep up, and a   *)
(* heap of prices that removed levels are only dropped from when a reader  *)
(* meets them at the top.  A heap is the set of the prices in it: a price  *)
(* pushed twice is popped twice, by the same reader.                       *)
(***************************************************************************)
EXTENDS Integers, FiniteSets

CONSTANTS
    MaxPrice,       \* bound: prices are 1 .. MaxPrice
    Quantity,       \* the quantities a level can have
    MaxId           \* bound: update ids

ASSUME PriceAssumption == MaxPrice \in Nat \ {0}
ASSUME QuantityAssumption == Quantity \subseteq Nat \ {0}
ASSUME MaxIdAssumption == MaxId \in Nat

VARIABLES
    phase, lastId, nextId, boundary, removal,
    levels,         \* bids and asks
    heap,           \* _bid_heap and _ask_heap
    trusted         \* _trusted_bid_levels and _trusted_ask_levels

vars == <<phase, lastId, nextId, boundary, removal, levels, heap, trusted>>

Side  == {"bid", "ask"}
Price == 1 .. MaxPrice

Task(t, side) == [task |-> t, side |-> side]
NoBookYet == Task("none", "bid")
Ready == Task("ready", "bid")
Reading == {Task(t, side) : t \in {"load", "apply"}, side \in Side}

(* Slip: a price at the boundary is outside.                                *)
InsideStrictly(side, price) ==
    IF side = "bid" THEN price > boundary[side] ELSE price < boundary[side]

(* inside_horizon                                                          *)
Inside(side, price) ==
    IF side = "bid" THEN price >= boundary[side] ELSE price <= boundary[side]

Highest(prices) == CHOOSE p \in prices : \A q \in prices : p >= q
Lowest(prices)  == CHOOSE p \in prices : \A q \in prices : p <= q

Top(side, prices) == IF side = "bid" THEN Highest(prices) ELSE Lowest(prices)

(* best_bid and best_ask pop the prices no longer held off the top.        *)
Popped(side) ==
    LET held == heap[side] \cap DOMAIN levels[side]
    IN  IF held = {} THEN {}
        ELSE {p \in heap[side] : IF side = "bid" THEN p <= Highest(held)
                                 ELSE p >= Lowest(held)}

TopTrusted == \A side \in Side : trusted[side] > 0

Cleared ==
    /\ lastId' = 0 /\ nextId' = 0
    /\ levels' = [side \in Side |-> <<>>]
    /\ boundary' = [side \in Side |-> 0]
    /\ heap' = [side \in Side |-> {}]
    /\ trusted' = [side \in Side |-> 0]
    /\ removal' = "none"

(* An exception leaves the constructor or apply; reconstruct drops the book.*)
Raise == phase' = NoBookYet /\ Cleared

Init ==
    /\ phase = NoBookYet
    /\ lastId = 0 /\ nextId = 0
    /\ levels = [side \in Side |-> <<>>]
    /\ boundary = [side \in Side |-> 0]
    /\ heap = [side \in Side |-> {}]
    /\ trusted = [side \in Side |-> 0]
    /\ removal = "none"

Construct(id) ==
    /\ phase \in {NoBookYet, Ready}
    /\ phase' = Task("load", "bid") /\ lastId' = id
    /\ nextId' = 0 /\ removal' = "none"
    /\ levels' = [side \in Side |-> <<>>]
    /\ boundary' = [side \in Side |-> 0]
    /\ heap' = [side \in Side |-> {}]
    /\ trusted' = [side \in Side |-> 0]

With(held, price, quantity) ==
    [p \in DOMAIN held \cup {price} |-> IF p = price THEN quantity ELSE held[p]]

LoadLevel(side, price, quantity) ==
    /\ phase = Task("load", side)
    /\ levels' = [levels EXCEPT ![side] = With(@, price, quantity)]
    /\ UNCHANGED <<phase, lastId, nextId, boundary, removal, heap, trusted>>

OtherSide ==
    /\ phase \in Reading /\ phase.side = "bid"
    /\ phase' = [phase EXCEPT !.side = "ask"]
    /\ UNCHANGED <<lastId, nextId, boundary, removal, levels, heap, trusted>>

(* Every level of the snapshot is inside the horizon it defines.           *)
Constructed ==
    /\ phase = Task("load", "ask")
    /\ \A side \in Side : DOMAIN levels[side] # {}
    /\ boundary' = [bid |-> Lowest(DOMAIN levels["bid"]), ask |-> Highest(DOMAIN levels["ask"])]
    /\ heap' = [side \in Side |-> DOMAIN levels[side]]
    /\ trusted' = [side \in Side |-> Cardinality(DOMAIN levels[side])]
    /\ phase' = Ready
    /\ UNCHANGED <<lastId, nextId, removal, levels>>

OneSideMissing ==
    /\ phase = Task("load", "ask")
    /\ \E side \in Side : DOMAIN levels[side] = {}
    /\ Raise

(* An event that ends at or before last_update_id is answered at once.     *)
Apply(first, final) ==
    /\ phase = Ready
    /\ first <= final /\ final > lastId
    /\ IF first > lastId + 1 THEN Raise
       ELSE /\ phase' = Task("apply", "bid") /\ nextId' = final
            /\ UNCHANGED <<lastId, boundary, removal, levels, heap, trusted>>

(* Slip: a level set at the boundary is not counted.                        *)
CountedStrictly(side, price, wasPresent) ==
    IF ~wasPresent /\ InsideStrictly(side, price) THEN 1 ELSE 0

(* What setting a level adds to the count.                                 *)
Counted(side, price, wasPresent) ==
    IF ~wasPresent /\ Inside(side, price) THEN 1 ELSE 0

Pushed(side, price, wasPresent) == IF wasPresent THEN {} ELSE {price}

SetLevel(side, price, quantity) ==
    /\ phase = Task("apply", side)
    /\ LET wasPresent == price \in DOMAIN levels[side]
       IN  /\ levels' = [levels EXCEPT ![side] = With(@, price, quantity)]
           /\ heap' = [heap EXCEPT ![side] = @ \cup Pushed(side, price, wasPresent)]
           /\ trusted' = [trusted EXCEPT ![side] = @ + Counted(side, price, wasPresent)]
    /\ removal' = "none"
    /\ UNCHANGED <<phase, lastId, nextId, boundary>>

(* What removing a level that was present takes from the count.            *)
Removed(side, price) == IF Inside(side, price) THEN 1 ELSE 0

RemoveLevel(side, price) ==
    /\ phase = Task("apply", side)
    /\ IF price \in DOMAIN levels[side]
       THEN /\ levels' = [levels EXCEPT ![side] = [p \in DOMAIN @ \ {price} |-> @[p]]]
            /\ trusted' = [trusted EXCEPT ![side] = @ - Removed(side, price)]
            /\ removal' = "seen"
       ELSE /\ removal' = IF Inside(side, price) THEN "unseen" ELSE "outer"
            /\ UNCHANGED <<levels, trusted>>
    /\ UNCHANGED <<phase, lastId, nextId, boundary, heap>>

(* _number or a range check raises in the middle of a side.                *)
InvalidLevel == phase \in Reading /\ Raise

(* Slip: a locked book passes.                                              *)
CrossedTops(bid, ask) == bid > ask

(* The check that ends apply: crossed or locked.                           *)
Crossing(bid, ask) == bid >= ask

FinishApply ==
    /\ phase = Task("apply", "ask")
    /\ IF TopTrusted
       THEN LET pops == [side \in Side |-> Popped(side)]
            IN  IF Crossing(Highest(pops["bid"]), Lowest(pops["ask"])) THEN Raise
                ELSE heap' = pops
                     /\ phase' = Ready /\ lastId' = nextId /\ nextId' = 0
                     /\ removal' = "none" /\ UNCHANGED <<boundary, levels, trusted>>
       ELSE /\ phase' = Ready /\ lastId' = nextId /\ nextId' = 0
            /\ removal' = "none" /\ UNCHANGED <<boundary, levels, heap, trusted>>

(* best_bid or best_ask is read, by matches_ticker or a caller.            *)
ReadBest(side) ==
    /\ phase = Ready
    /\ trusted[side] > 0
    /\ heap' = [heap EXCEPT ![side] = Popped(side)]
    /\ UNCHANGED <<phase, lastId, nextId, boundary, removal, levels, trusted>>

Next ==
    \/ \E id \in 0 .. MaxId : Construct(id)
    \/ \E first, final \in 0 .. MaxId : Apply(first, final)
    \/ \E side \in Side, price \in Price :
           \/ \E quantity \in Quantity :
                  LoadLevel(side, price, quantity) \/ SetLevel(side, price, quantity)
           \/ RemoveLevel(side, price)
    \/ OtherSide \/ Constructed \/ OneSideMissing \/ InvalidLevel \/ FinishApply
    \/ \E side \in Side : ReadBest(side)

Spec == Init /\ [][Next]_vars

-----------------------------------------------------------------------------
HasBook == phase = Ready \/ phase \in {Task("apply", side) : side \in Side}

(* The running counts are the numbers of levels inside the horizon, at     *)
(* every level of every update: a side is trusted exactly when one of its  *)
(* levels is at or inside its boundary.                                    *)
TrustCounted ==
    HasBook => \A side \in Side :
        trusted[side] = Cardinality({p \in DOMAIN levels[side] : Inside(side, p)})

Maps == INSTANCE HistoricalBook

(* The Python book implements the C++ book: with lazy heaps and counters   *)
(* it decides every update (trusted, crossed, gap, how a removal counts)   *)
(* as the ordered maps do.                                                 *)
AsHistoricalBook == Maps!BookSpec
=============================================================================
