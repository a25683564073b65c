--------------------------- MODULE HistoricalBook ---------------------------
(***************************************************************************)
(* HistoricalBook, the C++ book of aggregated levels: two maps from prices *)
(* to quantities and the outermost prices of the snapshot.  Inside those   *)
(* boundaries a missing level is known to be empty, outside it is unknown, *)
(* so a side is trusted only while its best level is inside.  A snapshot   *)
(* and an update are read level by level, the bids before the asks; an     *)
(* exception at any level discards the book (ReplayEngine::apply).         *)
(***************************************************************************)
EXTENDS Integers

CONSTANTS
    MaxPrice,       \* bound: ticks
    Quantity,       \* the nonzero quantities
    MaxId           \* bound: update ids

Side  == {"bid", "ask"}
Price == 1 .. MaxPrice

VARIABLES
    phase,          \* what is being read, and of which side
    lastId,         \* last_update_id_
    nextId,         \* the event's final_update_id while it is applied
    levels,         \* levels["bid"] is bids_, levels["ask"] is asks_
    boundary,       \* bid_boundary_ and ask_boundary_
    removal         \* how the last level was counted as a removal

bookVars == <<phase, lastId, nextId, levels, boundary, removal>>

NoBookYet == [task |-> "none", side |-> "bid"]
Ready     == [task |-> "ready", side |-> "bid"]
Loading(side)  == [task |-> "load", side |-> side]
Applying(side) == [task |-> "apply", side |-> side]
Reading        == {Loading(side) : side \in Side} \cup {Applying(side) : side \in Side}

(* No further out than q, on this side of the book.                        *)
Reaches(side, p, q) == IF side = "bid" THEN p >= q ELSE p <= q

Best(side) ==
    CHOOSE p \in DOMAIN levels[side] : \A q \in DOMAIN levels[side] : Reaches(side, p, q)

Trusted(side) == \E p \in DOMAIN levels[side] : Reaches(side, p, boundary[side])

NoBook ==
    /\ phase' = NoBookYet
    /\ lastId' = 0 /\ nextId' = 0
    /\ levels' = [side \in Side |-> <<>>]
    /\ boundary' = [side \in Side |-> 0]
    /\ removal' = "none"

BookInit ==
    /\ phase = NoBookYet
    /\ lastId = 0 /\ nextId = 0
    /\ levels = [side \in Side |-> <<>>]
    /\ boundary = [side \in Side |-> 0]
    /\ removal = "none"

Load(id) ==
    /\ phase \in {NoBookYet, Ready}
    /\ phase' = Loading("bid")
    /\ lastId' = id /\ nextId' = 0
    /\ levels' = [side \in Side |-> <<>>]
    /\ boundary' = [side \in Side |-> 0]
    /\ removal' = "none"

Put(side, price, quantity) ==
    levels' = [levels EXCEPT ![side] =
                  [p \in DOMAIN @ \cup {price} |-> IF p = price THEN quantity ELSE @[p]]]
Drop(side, price) ==
    levels' = [levels EXCEPT ![side] = [p \in DOMAIN @ \ {price} |-> @[p]]]

(* A zero entry of a snapshot does not erase an earlier one.               *)
LoadLevel(side, price, quantity) ==
    /\ phase = Loading(side)
    /\ Put(side, price, quantity)
    /\ UNCHANGED <<phase, lastId, nextId, boundary, removal>>

(* The outermost price of what a side holds now.                           *)
Outermost(side) ==
    CHOOSE p \in DOMAIN levels[side] : \A q \in DOMAIN levels[side] : Reaches(side, q, p)

Loaded ==
    /\ phase = Loading("ask")
    /\ \A side \in Side : DOMAIN levels[side] # {}
    /\ boundary' = [side \in Side |-> Outermost(side)]
    /\ phase' = Ready
    /\ UNCHANGED <<lastId, nextId, levels, removal>>

OneSided ==
    /\ phase = Loading("ask")
    /\ \E side \in Side : DOMAIN levels[side] = {}
    /\ NoBook

(* An event that ends at or before the book's id changes nothing.          *)
Apply(first, final) ==
    /\ phase = Ready
    /\ first <= final /\ final > lastId
    /\ first <= lastId + 1
    /\ phase' = Applying("bid") /\ nextId' = final
    /\ UNCHANGED <<lastId, levels, boundary, removal>>

SequenceGap(first, final) ==
    /\ phase = Ready
    /\ first <= final /\ first > lastId + 1
    /\ NoBook

SetLevel(side, price, quantity) ==
    /\ phase = Applying(side)
    /\ Put(side, price, quantity)
    /\ removal' = "none"
    /\ UNCHANGED <<phase, lastId, nextId, boundary>>

RemoveLevel(side, price) ==
    /\ phase = Applying(side)
    /\ Drop(side, price)
    /\ removal' = IF price \in DOMAIN levels[side] THEN "seen"
                  ELSE IF Reaches(side, price, boundary[side]) THEN "unseen" ELSE "outer"
    /\ UNCHANGED <<phase, lastId, nextId, boundary>>

ThenAsks ==
    /\ phase \in Reading /\ phase.side = "bid"
    /\ phase' = [phase EXCEPT !.side = "ask"]
    /\ UNCHANGED <<lastId, nextId, levels, boundary, removal>>

(* A price that is not positive or a quantity that is negative.            *)
BadLevel == phase \in Reading /\ NoBook

Crossed == /\ \A side \in Side : Trusted(side)
           /\ Best("bid") >= Best("ask")

Applied ==
    /\ phase = Applying("ask")
    /\ ~Crossed
    /\ phase' = Ready /\ lastId' = nextId /\ nextId' = 0 /\ removal' = "none"
    /\ UNCHANGED <<levels, boundary>>

CrossedBook == phase = Applying("ask") /\ Crossed /\ NoBook

BookNext ==
    \/ \E id \in 0 .. MaxId : Load(id)
    \/ \E first, final \in 0 .. MaxId : Apply(first, final) \/ SequenceGap(first, final)
    \/ \E side \in Side, price \in Price :
           \/ \E quantity \in Quantity :
                  LoadLevel(side, price, quantity) \/ SetLevel(side, price, quantity)
           \/ RemoveLevel(side, price)
    \/ ThenAsks \/ Loaded \/ OneSided \/ BadLevel \/ Applied \/ CrossedBook

BookSpec == BookInit /\ [][BookNext]_bookVars
=============================================================================
