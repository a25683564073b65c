--------------------------- MODULE MatchingEngine ---------------------------
(***************************************************************************)
(* counterback::MatchingEngine, the synthetic order book: two ordered maps *)
(* from prices to FIFO queues, an index from open order ids to their place *)
(* and the set of the ids ever used.  submit is one call; its matching     *)
(* loop is a step per trade, so that the invariants are about every turn   *)
(* of the loop.  A refused order leaves the engine as it was: submit       *)
(* throws before its first change, so that refusing is no step.            *)
(***************************************************************************)
EXTENDS Integers, Sequences, SequencesExt

CONSTANTS
    OrderId,        \* the nonzero ids
    MaxPrice,       \* bound: ticks
    MaxQuantity,    \* bound: lots
    Nothing         \* no call

ASSUME BoundsAssumption == MaxPrice \in Nat \ {0} /\ MaxQuantity \in Nat \ {0}

Side  == {"Buy", "Sell"}
Price == 1 .. MaxPrice

(* The orders submit accepts, if their id is new: a market order's price   *)
(* is zero.                                                                *)
Order ==
    [id : OrderId, side : Side, type : {"Limit"}, price : Price, quantity : 1 .. MaxQuantity]
        \cup
    [id : OrderId, side : Side, type : {"Market"}, price : {0}, quantity : 1 .. MaxQuantity]

ASSUME NothingAssumption == Nothing \notin [order : Order, remaining : Nat]

VARIABLES
    levels,         \* levels["Buy"] is bids_, levels["Sell"] is asks_
    open,           \* open_
    used,           \* used_ids_
    call,           \* the submit being executed: its order and what remains
    accepted,       \* history: the orders, as they were accepted
    executed        \* history: what each of them has traded

vars == <<levels, open, used, call, accepted, executed>>

Init ==
    /\ levels = [side \in Side |-> <<>>]
    /\ open = <<>> /\ used = {} /\ call = Nothing
    /\ accepted = <<>> /\ executed = <<>>

Opposite(side) == IF side = "Buy" THEN "Sell" ELSE "Buy"

(* begin() of a side's map: bids_ is ordered by std::greater.              *)
Best(side) ==
    CHOOSE p \in DOMAIN levels[side] : \A q \in DOMAIN levels[side] :
        IF side = "Buy" THEN p >= q ELSE p <= q

(* Slip: an order at the level's price is not matched.                      *)
ReachesBeyond(order, price) ==
    \/ order.type = "Market"
    \/ IF order.side = "Buy" THEN price < order.price ELSE price > order.price

(* The loop breaks at a level beyond the price of a limit order.           *)
Reaches(order, price) ==
    \/ order.type = "Market"
    \/ IF order.side = "Buy" THEN price <= order.price ELSE price >= order.price

Matches(order, remaining) ==
    /\ remaining > 0
    /\ DOMAIN levels[Opposite(order.side)] # {}
    /\ Reaches(order, Best(Opposite(order.side)))

Number(id) == CHOOSE n \in DOMAIN accepted : accepted[n].id = id

(* Slip: an emptied queue stays in the map.                                 *)
WithEmptyQueue(queues, price, queue) ==
    [p \in DOMAIN queues \cup {price} |-> IF p = price THEN queue ELSE queues[p]]

(* A side's map once the queue at a price is this one.                     *)
WithQueue(queues, price, queue) ==
    IF queue = <<>> THEN [p \in DOMAIN queues \ {price} |-> queues[p]]
    ELSE [p \in DOMAIN queues \cup {price} |-> IF p = price THEN queue ELSE queues[p]]

(* What a trade leaves of a queue whose front order now has this remainder.*)
AfterTrade(queue, remaining) ==
    IF remaining = 0 THEN Tail(queue)
    ELSE <<[queue[1] EXCEPT !.remaining = remaining]>> \o Tail(queue)

Forget(id) == [i \in DOMAIN open \ {id} |-> open[i]]

Unused(id) == id \notin used

Submit(order) ==
    /\ call = Nothing
    /\ Unused(order.id)
    /\ used' = used \cup {order.id}
    /\ call' = [order |-> order, remaining |-> order.quantity]
    /\ accepted' = Append(accepted, order)
    /\ executed' = Append(executed, 0)
    /\ UNCHANGED <<levels, open>>

Match ==
    /\ call # Nothing
    /\ Matches(call.order, call.remaining)
    /\ LET side     == Opposite(call.order.side)
           price    == Best(side)
           queue    == levels[side][price]
           maker    == queue[1]
           quantity == IF maker.remaining < call.remaining THEN maker.remaining
                       ELSE call.remaining
           left     == maker.remaining - quantity
       IN  /\ levels' = [levels EXCEPT ![side] =
                             WithQueue(@, price, AfterTrade(queue, left))]
           /\ open' = IF left = 0 THEN Forget(maker.id) ELSE open
           /\ call' = [call EXCEPT !.remaining = @ - quantity]
           /\ executed' = [executed EXCEPT ![Number(maker.id)] = @ + quantity,
                                           ![Number(call.order.id)] = @ + quantity]
    /\ UNCHANGED <<used, accepted>>

QueueAt(side, price) ==
    IF price \in DOMAIN levels[side] THEN levels[side][price] ELSE <<>>

(* Slip: the remainder joins the front of its queue.                        *)
RestedInFront(queue, entry) == <<entry>> \o queue

(* rest: the remainder joins the back of its queue.                        *)
Rested(queue, entry) == Append(queue, entry)

Finish ==
    /\ call # Nothing
    /\ ~Matches(call.order, call.remaining)
    /\ LET order == call.order
           entry == [id |-> order.id, remaining |-> call.remaining]
           queue == Rested(QueueAt(order.side, order.price), entry)
       IN  IF call.remaining > 0 /\ order.type = "Limit"
           THEN /\ levels' = [levels EXCEPT ![order.side] = WithQueue(@, order.price, queue)]
                /\ open' = [id \in DOMAIN open \cup {order.id} |->
                                IF id = order.id
                                THEN [side |-> order.side, price |-> order.price]
                                ELSE open[id]]
           ELSE UNCHANGED <<levels, open>>
    /\ call' = Nothing
    /\ UNCHANGED <<used, accepted, executed>>

(* The order is erased from wherever in its queue it is.                   *)
Erased(queue, id) == RemoveFirstMatch(queue, LAMBDA entry : entry.id = id)

(* cancel: an id that is not open is a call that changes nothing.          *)
Cancel(id) ==
    /\ call = Nothing
    /\ id \in DOMAIN open
    /\ LET side  == open[id].side
           price == open[id].price
           queue == Erased(levels[side][price], id)
       IN  levels' = [levels EXCEPT ![side] = WithQueue(@, price, queue)]
    /\ open' = Forget(id)
    /\ UNCHANGED <<used, call, accepted, executed>>

Next ==
    \/ \E order \in Order : Submit(order)
    \/ Match
    \/ Finish
    \/ \E id \in OrderId : Cancel(id)

Spec == Init /\ [][Next]_vars

-----------------------------------------------------------------------------
Entries(side, price) ==
    {levels[side][price][i] : i \in DOMAIN levels[side][price]}

(* The index and the queues tell the same story at every turn of the loop: *)
(* each open id is in exactly one place, the one the index names, no order *)
(* rests with nothing left and no level is left without an order (match    *)
(* takes front() of the first level, cancel erases at the indexed place    *)
(* without looking).                                                       *)
IndexAgrees ==
    /\ \A id \in DOMAIN open :
           LET queue == QueueAt(open[id].side, open[id].price)
           IN  \E i \in DOMAIN queue :
                   queue[i].id = id /\ \A j \in DOMAIN queue \ {i} : queue[j].id # id
    /\ \A side \in Side : \A price \in DOMAIN levels[side] :
           /\ Entries(side, price) # {}
           /\ \A entry \in Entries(side, price) :
                  /\ entry.id \in DOMAIN open
                  /\ open[entry.id] = [side |-> side, price |-> price]
                  /\ entry.remaining > 0

(* However orders, partial fills and cancellations interleave, the resting *)
(* book is never crossed or locked, not even within a submit.              *)
NeverCrossed ==
    \A bid \in DOMAIN levels["Buy"], ask \in DOMAIN levels["Sell"] : bid < ask

(* An order neither resting nor being matched, with something left of it.  *)
Gone == {n \in DOMAIN accepted :
            /\ accepted[n].id \notin DOMAIN open
            /\ executed[n] < accepted[n].quantity
            /\ ~(call # Nothing /\ call.order.id = accepted[n].id)}

Priority == INSTANCE PriceTime WITH withdrawn <- Gone, matching <- (call # Nothing)

(* The maps, queues and index implement strict price-time priority: every  *)
(* trade is with the best and, at its price, the longest-accepted order,   *)
(* partial fills keep their place, a quantity is traded once and an id is  *)
(* accepted once in the engine's lifetime.                                 *)
PriceTimePriority == Priority!PriceTimeSpec
=============================================================================
