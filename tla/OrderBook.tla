------------------------------ MODULE OrderBook ------------------------------
(* The order book of one symbol (03-order-matching-engine).  One thread owns  *)
(* it, so a call of AddOrder is not interleaved with another; its loop is     *)
(* modelled match by match, because the properties look inside it.            *)
EXTENDS Integers, Sequences, FiniteSetsExt

CONSTANTS Prices, Quantities, MaxOrders, NoOrder

\* Among any prices there is a lowest and a highest: what Keys.First() relies on.
ASSUME BookAssumption ==
  /\ Prices \subseteq Int /\ Quantities \subseteq Nat \ {0} /\ MaxOrders \in Nat
  /\ \A S \in SUBSET Prices : S # {} => \E lo, hi \in S : \A p \in S : lo <= p /\ p <= hi

VARIABLES
  book,      \* _bids and _asks: side -> price -> the queue; an empty queue is
             \* a price that is not in the dictionary
  taker,     \* the order AddOrder is called with, or NoOrder
  arrivals,  \* how many orders arrived; an order's id is its arrival
  trade      \* (history) the last Trade added, with the sides' remainders

bookVars == <<book, taker, arrivals, trade>>

Opposite(side) == IF side = "Buy" THEN "Sell" ELSE "Buy"
Resting(side) == {p \in Prices : book[side][p] # <<>>}

BookInit ==
  /\ book = [side \in {"Buy", "Sell"} |-> [p \in Prices |-> <<>>]]
  /\ taker = NoOrder
  /\ arrivals = 0
  /\ trade = NoOrder

PlaceOrder(side, type, price, quantity) ==
  /\ taker = NoOrder /\ arrivals < MaxOrders
  /\ taker' = [id |-> arrivals, side |-> side, type |-> type, price |-> price,
               remaining |-> quantity]
  /\ arrivals' = arrivals + 1
  /\ trade' = NoOrder
  /\ UNCHANGED book

\* Mutant: both dictionaries ascend.
BestPriceAscending(side) == Min(Resting(side))

\* Keys.First(): asks ascend, bids descend by their comparer.
BestPrice(side) == IF side = "Sell" THEN Min(Resting(side)) ELSE Max(Resting(side))

\* Mutant: an equal price is no match.
CrossesStrictly(order, best) ==
  \/ order.type = "Market"
  \/ IF order.side = "Buy" THEN order.price > best ELSE order.price < best

Crosses(order, best) ==
  \/ order.type = "Market"
  \/ IF order.side = "Buy" THEN order.price >= best ELSE order.price <= best

Matches(order) ==
  /\ order.remaining > 0
  /\ Resting(Opposite(order.side)) # {}
  /\ Crosses(order, BestPrice(Opposite(order.side)))

\* One turn of the inner loop: the oldest order at the best price is filled as
\* far as both allow, at its price, and leaves its queue when it is filled.
Match ==
  /\ taker # NoOrder /\ Matches(taker)
  /\ LET other == Opposite(taker.side)
         best == BestPrice(other)
         maker == Head(book[other][best])
         qty == Min({taker.remaining, maker.remaining})
     IN /\ taker' = [taker EXCEPT !.remaining = @ - qty]
        /\ book' = [book EXCEPT ![other][best] =
             IF maker.remaining = qty THEN Tail(@)
             ELSE <<[maker EXCEPT !.remaining = @ - qty]>> \o Tail(@)]
        /\ trade' = [maker |-> maker, price |-> best, qty |-> qty]
  /\ UNCHANGED arrivals

\* The end of AddOrder: the rest of a limit order joins the queue of its price,
\* the rest of a market order is dropped.
Rest ==
  /\ taker # NoOrder /\ ~Matches(taker)
  /\ book' = IF taker.remaining = 0 \/ taker.type = "Market" THEN book
             ELSE [book EXCEPT ![taker.side][taker.price] = Append(@, taker)]
  /\ taker' = NoOrder /\ trade' = NoOrder
  /\ UNCHANGED arrivals

BookNext ==
  \/ \E side \in {"Buy", "Sell"}, type \in {"Limit", "Market"}, p \in Prices, q \in Quantities :
       PlaceOrder(side, type, p, q)
  \/ Match
  \/ Rest

BookSpec == BookInit /\ [][BookNext]_bookVars

-----------------------------------------------------------------------------
RestingOrders(side) == UNION {{book[side][p][i] : i \in DOMAIN book[side][p]} : p \in Prices}

\* Between two calls no bid reaches an ask, so nothing that could trade is left
\* resting, after any mixture of partial fills, sweeps and market orders.
NeverCrossed ==
  taker = NoOrder =>
    \A b \in RestingOrders("Buy"), a \in RestingOrders("Sell") : b.price < a.price

\* Price-time priority: no order rests that should have been filled before the
\* one that was, at a better price or at the same and earlier; and the trade is
\* at the maker's own price, within the limit of both.
PriceTimePriority ==
  trade # NoOrder =>
    /\ trade.price = trade.maker.price
    /\ taker.type = "Market" \/ IF taker.side = "Buy" THEN trade.price <= taker.price
                                                      ELSE trade.price >= taker.price
    /\ \A o \in RestingOrders(trade.maker.side) :
         o.id # trade.maker.id =>
           \/ IF o.side = "Sell" THEN o.price > trade.price ELSE o.price < trade.price
           \/ o.price = trade.price /\ o.id > trade.maker.id
=============================================================================
