------------------------------ MODULE PriceTime ------------------------------
(***************************************************************************)
(* What the matching engine promises, without price levels, queues or an   *)
(* index of orders: orders are numbered as they are accepted, and every    *)
(* trade of an incoming order is with the resting order that has the best  *)
(* price and, among those, the lowest number (docs/cpp-engine.md, and the  *)
(* flat-vector ReferenceBook of engine/tests/matching_engine_test.cpp).    *)
(***************************************************************************)
EXTENDS Integers, Sequences

CONSTANT Order      \* the well-formed orders

VARIABLES
    accepted,       \* the accepted orders, in the order of acceptance
    executed,       \* executed[n]: what accepted[n] has traded so far
    withdrawn,      \* the numbers of the cancelled and expired orders
    matching        \* the last accepted order is being matched

priceTimeVars == <<accepted, executed, withdrawn, matching>>

Taker   == Len(accepted)
Left(n) == accepted[n].quantity - executed[n]

Resting == {n \in DOMAIN accepted :
                n \notin withdrawn /\ Left(n) > 0 /\ ~(matching /\ n = Taker)}

(* p is a better price than q for who trades with an order of this side.   *)
BetterMaker(side, p, q) == IF side = "Sell" THEN p < q ELSE p > q

Makers ==
    LET taker == accepted[Taker]
    IN  {n \in Resting :
            /\ accepted[n].side # taker.side
            /\ \/ taker.type = "Market"
               \/ ~BetterMaker(accepted[n].side, taker.price, accepted[n].price)}

Ahead(m, n) ==
    LET p == accepted[m].price
        q == accepted[n].price
    IN  BetterMaker(accepted[m].side, p, q) \/ (p = q /\ m < n)

PriceTimeInit ==
    accepted = <<>> /\ executed = <<>> /\ withdrawn = {} /\ matching = FALSE

Take(order) ==
    /\ ~matching
    /\ \A n \in DOMAIN accepted : accepted[n].id # order.id
    /\ accepted' = Append(accepted, order)
    /\ executed' = Append(executed, 0)
    /\ matching' = TRUE
    /\ UNCHANGED withdrawn

TradeWith(m) ==
    LET quantity == IF Left(m) < Left(Taker) THEN Left(m) ELSE Left(Taker)
    IN  /\ matching /\ Left(Taker) > 0
        /\ m \in Makers
        /\ \A n \in Makers \ {m} : Ahead(m, n)
        /\ executed' = [executed EXCEPT ![m] = @ + quantity, ![Taker] = @ + quantity]
        /\ UNCHANGED <<accepted, withdrawn, matching>>

(* A limit order's remainder rests; a market order's expires.              *)
Settle ==
    /\ matching
    /\ Left(Taker) = 0 \/ Makers = {}
    /\ matching' = FALSE
    /\ withdrawn' = IF Left(Taker) > 0 /\ accepted[Taker].type = "Market"
                    THEN withdrawn \cup {Taker} ELSE withdrawn
    /\ UNCHANGED <<accepted, executed>>

Withdraw(n) ==
    /\ ~matching
    /\ n \in Resting
    /\ withdrawn' = withdrawn \cup {n}
    /\ UNCHANGED <<accepted, executed, matching>>

PriceTimeNext ==
    \/ \E order \in Order : Take(order)
    \/ \E n \in DOMAIN accepted : TradeWith(n) \/ Withdraw(n)
    \/ Settle

PriceTimeSpec == PriceTimeInit /\ [][PriceTimeNext]_priceTimeVars
=============================================================================
