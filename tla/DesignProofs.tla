---------------------------- MODULE DesignProofs ----------------------------
(* Proofs about the order book, the elevators, the sliding window log, the   *)
(* logging pipeline and the delivery worker, each for any of its constants,  *)
(* and about the two caches, for any keys and any capacity: the linked list  *)
(* of the LRU cache holds its keys by their last use, and the LFU cache      *)
(* evicts the key least often used, of those the one unused for longest.     *)
EXTENDS OrderBook, Elevators, RateLimiter, LogPipeline, DeliveryWorker, LruCache, LfuCache,
        DataLemmas

-----------------------------------------------------------------------------
(* The order book, for any prices, quantities and number of orders.          *)

Sides == {"Buy", "Sell"}
Orders == [id : Nat, side : Sides, type : {"Limit", "Market"}, price : Prices, remaining : Nat]

\* A queue holds orders of its side and price, the earlier arrival first, and
\* all of them arrived before `next'.
InTurn(q, side, p, next) ==
  /\ q \in Seq(Orders)
  /\ \A i \in 1..Len(q) : q[i].side = side /\ q[i].price = p /\ q[i].id < next
  /\ \A i, j \in 1..Len(q) : i < j => q[i].id < q[j].id

\* The order AddOrder is working on is the last that arrived.
NextToRest == IF taker = NoOrder THEN arrivals ELSE taker.id

BookShape ==
  /\ arrivals \in Nat
  /\ book \in [Sides -> [Prices -> Seq(Orders)]]
  /\ taker # NoOrder => taker \in Orders /\ taker.id + 1 = arrivals

Queues == \A s \in Sides, p \in Prices : InTurn(book[s][p], s, p, NextToRest)

\* No price with a bid reaches one with an ask, also while AddOrder runs.
Uncrossed == \A b \in Resting("Buy"), a \in Resting("Sell") : b < a

BookInv == BookShape /\ Queues /\ Uncrossed /\ PriceTimePriority

-----------------------------------------------------------------------------
(* Facts about prices, quantities and queues                                 *)

\* A side's best price is one of its own, and none of its prices is better.
LEMMA BestIsBest ==
  ASSUME NEW s \in Sides, Resting(s) # {}
  PROVE  /\ BestPrice(s) \in Resting(s)
         /\ \A p \in Resting(s) : IF s = "Sell" THEN BestPrice(s) <= p ELSE p <= BestPrice(s)
PROOF
  <1>1. Resting(s) \subseteq Prices /\ Resting(s) # {}
    BY DEF Resting
  <1>2. PICK lo \in Resting(s), hi \in Resting(s) : \A p \in Resting(s) : lo <= p /\ p <= hi
    <2>1. \A R \in SUBSET Prices : R # {} => \E lo, hi \in R : \A p \in R : lo <= p /\ p <= hi
      BY BookAssumption
    <2> QED  BY <1>1, <2>1
  <1>3. Min(Resting(s)) \in Resting(s) /\ \A p \in Resting(s) : Min(Resting(s)) <= p
    BY <1>2 DEF Min
  <1>4. Max(Resting(s)) \in Resting(s) /\ \A p \in Resting(s) : p <= Max(Resting(s))
    BY <1>2 DEF Max
  <1> QED  BY <1>3, <1>4 DEF BestPrice

\* What is traded is no more than either side has left.
LEMMA TradedQuantity ==
  ASSUME NEW a \in Nat, NEW b \in Nat
  PROVE  Min({a, b}) \in Nat /\ Min({a, b}) <= a /\ Min({a, b}) <= b
PROOF
  <1>1. \E x \in {a, b} : \A y \in {a, b} : x <= y
    BY a <= b \/ b <= a
  <1>2. Min({a, b}) \in {a, b} /\ \A y \in {a, b} : Min({a, b}) <= y
    BY <1>1 DEF Min
  <1> QED  BY <1>2

LEMMA OrderIds ==
  ASSUME NEW q \in Seq(Orders), NEW i \in 1..Len(q)
  PROVE  q[i] \in Orders /\ q[i].id \in Nat
PROOF
  <1>1. q[i] \in Orders
    OBVIOUS
  <1> QED  BY <1>1 DEF Orders

\* A queue stays in turn as more orders arrive.
LEMMA MoreArrive ==
  ASSUME NEW s, NEW p, NEW q, NEW next \in Nat, InTurn(q, s, p, next)
  PROVE  InTurn(q, s, p, next + 1)
PROOF
  <1>1. \A i \in 1..Len(q) : q[i].id \in Nat
    BY OrderIds DEF InTurn
  <1> QED  BY <1>1 DEF InTurn

\* Filling the head of a queue, in part or whole, keeps the queue in turn, and
\* everyone behind the head arrived after it.
LEMMA FillHead ==
  ASSUME NEW s \in Sides, NEW p \in Prices, NEW next \in Nat, NEW q, InTurn(q, s, p, next), q # <<>>,
         NEW m \in Orders, m.id = Head(q).id, m.side = Head(q).side, m.price = Head(q).price
  PROVE  /\ Head(q) \in Orders /\ Head(q).side = s /\ Head(q).price = p
         /\ InTurn(Tail(q), s, p, next)
         /\ InTurn(<<m>> \o Tail(q), s, p, next)
         /\ \A i \in 1..Len(Tail(q)) : Tail(q)[i].id > m.id
         /\ \A i \in 1..Len(<<m>> \o Tail(q)) :
              (<<m>> \o Tail(q))[i].id # m.id => (<<m>> \o Tail(q))[i].id > m.id
PROOF
  <1>1. q \in Seq(Orders) /\ Len(q) \in Nat /\ Len(q) >= 1
    BY DEF InTurn
  <1>2. Head(q) = q[1] /\ q[1] \in Orders /\ q[1].side = s /\ q[1].price = p /\ q[1].id < next
    BY <1>1 DEF InTurn
  <1>3. /\ Tail(q) \in Seq(Orders) /\ Len(Tail(q)) = Len(q) - 1
        /\ \A i \in 1..Len(Tail(q)) : Tail(q)[i] = q[i + 1] /\ i + 1 \in 1..Len(q)
    BY <1>1
  <1>4. InTurn(Tail(q), s, p, next)
    BY <1>1, <1>3 DEF InTurn
  <1>5. \A i \in 1..Len(Tail(q)) : Tail(q)[i].id > m.id
    <2> TAKE i \in 1..Len(Tail(q))
    <2>1. q[1].id < q[i + 1].id
      BY <1>1, <1>3 DEF InTurn
    <2>2. q[i + 1].id \in Nat /\ q[1].id \in Nat
      BY <1>1, <1>3, OrderIds
    <2> QED  BY <1>2, <1>3, <2>1, <2>2
  <1> DEFINE r == <<m>> \o Tail(q)
  <1>6. /\ r \in Seq(Orders) /\ Len(r) = Len(q)
        /\ r[1] = m
        /\ \A i \in 1..Len(r) : i # 1 => r[i] = Tail(q)[i - 1] /\ i - 1 \in 1..Len(Tail(q))
    BY <1>1, <1>3
  <1> HIDE DEF r
  <1>7. \A i \in 1..Len(r) : r[i].side = s /\ r[i].price = p /\ r[i].id < next
    BY <1>2, <1>4, <1>6 DEF InTurn
  <1>8. \A i, j \in 1..Len(r) : i < j => r[i].id < r[j].id
    <2> SUFFICES ASSUME NEW i \in 1..Len(r), NEW j \in 1..Len(r), i < j PROVE r[i].id < r[j].id
      OBVIOUS
    <2>1. j # 1 /\ r[j] = Tail(q)[j - 1] /\ j - 1 \in 1..Len(Tail(q))
      BY <1>1, <1>6
    <2>2. CASE i = 1
      <3>1. m.id \in Nat /\ r[j].id \in Nat
        BY <1>1, <1>6, OrderIds
      <3> QED  BY <1>5, <1>6, <2>1, <2>2, <3>1
    <2>3. CASE i # 1
      <3>1. i - 1 \in 1..Len(Tail(q)) /\ r[i] = Tail(q)[i - 1] /\ i - 1 < j - 1
        BY <1>6, <2>3
      <3> QED  BY <1>4, <2>1, <3>1 DEF InTurn
    <2> QED  BY <2>2, <2>3
  <1>9. \A i \in 1..Len(r) : r[i].id # m.id => r[i].id > m.id
    BY <1>5, <1>6
  <1>10. InTurn(r, s, p, next)
    BY <1>6, <1>7, <1>8 DEF InTurn
  <1> QED  BY <1>2, <1>4, <1>5, <1>9, <1>10 DEF r

\* A latecomer at the end keeps a queue in turn.
LEMMA JoinQueue ==
  ASSUME NEW s \in Sides, NEW p \in Prices, NEW q, NEW o \in Orders,
         o.side = s, o.price = p, InTurn(q, s, p, o.id)
  PROVE  InTurn(Append(q, o), s, p, o.id + 1)
PROOF
  <1>1. q \in Seq(Orders) /\ Len(q) \in Nat /\ o.id \in Nat
    BY DEF InTurn, Orders
  <1> DEFINE r == Append(q, o)
  <1>2. /\ r \in Seq(Orders) /\ Len(r) = Len(q) + 1 /\ r[Len(r)] = o
        /\ \A i \in 1..Len(r) : i # Len(r) => r[i] = q[i] /\ i \in 1..Len(q)
    BY <1>1
  <1> HIDE DEF r
  <1>3. \A i \in 1..Len(q) : q[i].id \in Nat
    BY <1>1, OrderIds
  <1>4. \A i \in 1..Len(r) : r[i].side = s /\ r[i].price = p /\ r[i].id < o.id + 1
    BY <1>1, <1>2, <1>3 DEF InTurn
  <1>5. \A i, j \in 1..Len(r) : i < j => r[i].id < r[j].id
    BY <1>1, <1>2, <1>3 DEF InTurn
  <1> QED  BY <1>2, <1>4, <1>5 DEF InTurn, r

-----------------------------------------------------------------------------
(* The steps                                                                 *)

LEMMA BookStart == BookInit => BookInv
BY DEF BookInit, BookInv, BookShape, Queues, InTurn, NextToRest, Uncrossed, Resting,
       PriceTimePriority, Sides

\* A new order arrives after all that rest, and changes nothing else.
LEMMA PlaceOrderKeeps ==
  ASSUME BookInv, NEW side \in Sides, NEW type \in {"Limit", "Market"}, NEW p \in Prices,
         NEW n \in Quantities, PlaceOrder(side, type, p, n)
  PROVE  BookInv'
PROOF
  <1>1. /\ taker = NoOrder /\ arrivals \in Nat /\ UNCHANGED book /\ trade' = NoOrder
        /\ arrivals' = arrivals + 1
        /\ taker' = [id |-> arrivals, side |-> side, type |-> type, price |-> p, remaining |-> n]
    BY DEF BookInv, BookShape, PlaceOrder
  <1>2. taker' \in Orders /\ taker'.id = arrivals
    BY <1>1, BookAssumption DEF Orders
  <1>3. BookShape'
    BY <1>1, <1>2 DEF BookInv, BookShape
  <1>4. NextToRest = arrivals /\ NextToRest' \in {arrivals, arrivals + 1}
    BY <1>1, <1>2 DEF NextToRest
  <1>5. Queues'
    <2> SUFFICES ASSUME NEW s \in Sides, NEW r \in Prices PROVE InTurn(book[s][r], s, r, NextToRest')
      BY <1>1 DEF Queues
    <2>1. InTurn(book[s][r], s, r, arrivals)
      BY <1>4 DEF BookInv, Queues
    <2>2. NextToRest' \in {arrivals, arrivals + 1} /\ arrivals \in Nat
      BY <1>1, <1>4
    <2> QED  BY <2>1, <2>2, MoreArrive
  <1>6. Uncrossed' /\ PriceTimePriority'
    BY <1>1 DEF BookInv, Uncrossed, Resting, PriceTimePriority
  <1> QED  BY <1>3, <1>5, <1>6 DEF BookInv

\* The rest of a limit order crosses nothing, or it would have matched.
LEMMA RestKeeps ==
  ASSUME BookInv, Rest
  PROVE  BookInv'
PROOF
  <1>1. /\ taker # NoOrder /\ ~Matches(taker) /\ taker' = NoOrder /\ trade' = NoOrder
        /\ UNCHANGED arrivals /\ arrivals \in Nat
        /\ taker \in Orders /\ taker.id + 1 = arrivals /\ taker.id \in Nat
        /\ taker.side \in Sides /\ taker.price \in Prices /\ taker.remaining \in Nat
        /\ book \in [Sides -> [Prices -> Seq(Orders)]]
    BY DEF BookInv, BookShape, Rest, Orders
  <1>2. NextToRest = taker.id /\ NextToRest' = taker.id + 1
    BY <1>1 DEF NextToRest
  <1>3. PriceTimePriority'
    BY <1>1 DEF PriceTimePriority
  <1>4. \A s \in Sides, p \in Prices : InTurn(book[s][p], s, p, taker.id + 1)
    BY <1>1, <1>2, MoreArrive DEF BookInv, Queues
  <1>5. CASE taker.remaining = 0 \/ taker.type = "Market"
    <2>1. UNCHANGED book
      BY <1>5 DEF Rest
    <2> QED  BY <1>1, <1>2, <1>3, <1>4, <2>1 DEF BookInv, BookShape, Queues, Uncrossed, Resting
  <1>6. CASE ~(taker.remaining = 0 \/ taker.type = "Market")
    <2> DEFINE s == taker.side
               p == taker.price
    <2>1. book' = [book EXCEPT ![s] = [book[s] EXCEPT ![p] = Append(book[s][p], taker)]]
      BY <1>6 DEF Rest
    <2>2. InTurn(Append(book[s][p], taker), s, p, taker.id + 1)
      BY <1>1, <1>2, JoinQueue DEF BookInv, Queues
    <2>3. book' \in [Sides -> [Prices -> Seq(Orders)]]
      BY <1>1, <2>1, <2>2 DEF InTurn
    <2>4. \A t \in Sides, r \in Prices : book'[t][r] = IF t = s /\ r = p THEN Append(book[s][p], taker) ELSE book[t][r]
      BY <1>1, <2>1
    <2>5. Queues'
      BY <1>2, <1>4, <2>2, <2>4 DEF Queues
    <2>6. \A t \in Sides : Resting(t)' \subseteq Resting(t) \cup (IF t = s THEN {p} ELSE {})
      BY <1>1, <2>4 DEF Resting
    <2>7. \A r \in Resting(Opposite(s)) : IF s = "Buy" THEN p < r ELSE r < p
      <3>1. CASE Resting(Opposite(s)) = {}
        BY <3>1
      <3>2. CASE Resting(Opposite(s)) # {}
        <4>1. Opposite(s) \in Sides /\ (Opposite(s) = "Sell" <=> s = "Buy")
          BY <1>1 DEF Opposite, Sides
        <4>2. ~Crosses(taker, BestPrice(Opposite(s)))
          BY <1>1, <1>6, <3>2 DEF Matches
        <4>3. /\ BestPrice(Opposite(s)) \in Int /\ p \in Int
              /\ \A r \in Resting(Opposite(s)) : r \in Int
              /\ \A r \in Resting(Opposite(s)) :
                   IF s = "Buy" THEN BestPrice(Opposite(s)) <= r ELSE r <= BestPrice(Opposite(s))
          BY <1>1, <3>2, <4>1, BestIsBest, BookAssumption DEF Resting
        <4>4. IF s = "Buy" THEN p < BestPrice(Opposite(s)) ELSE BestPrice(Opposite(s)) < p
          BY <4>2, <4>3 DEF Crosses
        <4> QED  BY <4>3, <4>4
      <3> QED  BY <3>1, <3>2
    <2>8. Uncrossed'
      BY <1>1, <2>6, <2>7 DEF BookInv, Uncrossed, Opposite, Sides
    <2> QED  BY <1>1, <1>3, <2>3, <2>5, <2>8 DEF BookInv, BookShape
  <1> QED  BY <1>5, <1>6

\* A fill takes the oldest order at the best price.
LEMMA MatchKeeps ==
  ASSUME BookInv, Match
  PROVE  BookInv'
PROOF
  <1>0. PICK other, best, q, maker, qty, less, left :
          /\ other = Opposite(taker.side) /\ best = BestPrice(other)
          /\ q = book[other][best] /\ maker = Head(q)
          /\ qty = Min({taker.remaining, maker.remaining})
          /\ less = [maker EXCEPT !.remaining = @ - qty]
          /\ left = IF maker.remaining = qty THEN Tail(q) ELSE <<less>> \o Tail(q)
    OBVIOUS
  <1>1. /\ taker # NoOrder /\ taker \in Orders /\ taker.id + 1 = arrivals /\ arrivals \in Nat
        /\ taker.id \in Nat /\ taker.remaining \in Nat /\ taker.side \in Sides
        /\ book \in [Sides -> [Prices -> Seq(Orders)]]
        /\ other \in Sides /\ Resting(other) # {} /\ Crosses(taker, best)
        /\ UNCHANGED arrivals
    BY <1>0 DEF BookInv, BookShape, Match, Matches, Orders, Opposite, Sides
  <1>2. /\ taker' = [taker EXCEPT !.remaining = @ - qty]
        /\ book' = [book EXCEPT ![other] = [book[other] EXCEPT ![best] = left]]
        /\ trade' = [maker |-> maker, price |-> best, qty |-> qty]
    BY <1>0 DEF Match
  <1>3. /\ best \in Prices /\ q # <<>> /\ NextToRest = taker.id
        /\ \A p \in Resting(other) : IF other = "Sell" THEN best <= p ELSE p <= best
    BY <1>0, <1>1, BestIsBest DEF Resting, NextToRest
  <1>4. InTurn(q, other, best, taker.id)
    BY <1>0, <1>1, <1>3 DEF BookInv, Queues
  <1>5. maker \in Orders /\ maker.remaining \in Nat /\ maker.side = other /\ maker.price = best
    <2>1. q \in Seq(Orders) /\ Len(q) \in Nat /\ 1 \in 1..Len(q) /\ maker = q[1]
      <3>1. q \in Seq(Orders) /\ q # <<>>
        BY <1>3, <1>4 DEF InTurn
      <3>2. maker = Head(q)
        BY <1>0
      <3> QED  BY <3>1, <3>2
    <2>2. maker \in Orders
      BY <2>1, OrderIds
    <2>3. maker.remaining \in Nat
      BY <2>2 DEF Orders
    <2>4. q[1].side = other /\ q[1].price = best
      BY <1>4, <2>1 DEF InTurn
    <2> QED  BY <2>1, <2>2, <2>3, <2>4
  <1>6. qty \in Nat /\ qty <= taker.remaining /\ qty <= maker.remaining
    BY <1>0, <1>1, <1>5, TradedQuantity
  <1>7. /\ less \in Orders /\ less.id = maker.id /\ less.side = maker.side /\ less.price = maker.price
        /\ taker' \in Orders /\ taker'.id = taker.id /\ taker'.type = taker.type
        /\ taker'.side = taker.side /\ taker'.price = taker.price
    <2>1. ASSUME NEW o \in Orders, NEW n, o.remaining - n \in Nat,
                 NEW c, c = [o EXCEPT !.remaining = @ - n]
          PROVE  /\ c \in Orders /\ c.id = o.id /\ c.type = o.type
                 /\ c.side = o.side /\ c.price = o.price
      BY <2>1 DEF Orders
    <2>2. maker.remaining - qty \in Nat /\ taker.remaining - qty \in Nat
      BY <1>1, <1>5, <1>6
    <2>3. /\ less \in Orders /\ less.id = maker.id /\ less.side = maker.side
          /\ less.price = maker.price
      <3>1. less = [maker EXCEPT !.remaining = @ - qty]
        BY <1>0
      <3> QED  BY <1>5, <2>1, <2>2, <3>1
    <2> QED  BY <1>1, <1>2, <2>1, <2>2, <2>3
  <1>8. /\ InTurn(left, other, best, taker.id)
        /\ \A i \in 1..Len(left) : left[i].id # maker.id => left[i].id > maker.id
    <2>1. /\ InTurn(Tail(q), other, best, taker.id)
          /\ InTurn(<<less>> \o Tail(q), other, best, taker.id)
          /\ \A i \in 1..Len(Tail(q)) : Tail(q)[i].id > less.id
          /\ \A i \in 1..Len(<<less>> \o Tail(q)) :
               (<<less>> \o Tail(q))[i].id # less.id => (<<less>> \o Tail(q))[i].id > less.id
      <3>1. /\ other \in Sides /\ best \in Prices /\ taker.id \in Nat /\ q # <<>>
            /\ less \in Orders /\ less.id = Head(q).id /\ less.side = Head(q).side
            /\ less.price = Head(q).price
        BY <1>0, <1>1, <1>3, <1>7
      <3> QED  BY <1>4, <3>1, FillHead
    <2>2. CASE maker.remaining = qty
      <3>1. left = Tail(q)
        BY <1>0, <2>2
      <3> QED  BY <1>7, <2>1, <3>1
    <2>3. CASE maker.remaining # qty
      <3>1. left = <<less>> \o Tail(q)
        BY <1>0, <2>3
      <3> QED  BY <1>7, <2>1, <3>1
    <2> QED  BY <2>2, <2>3
  <1>9. /\ book' \in [Sides -> [Prices -> Seq(Orders)]]
        /\ \A s \in Sides, p \in Prices :
             book'[s][p] = IF s = other /\ p = best THEN left ELSE book[s][p]
    BY <1>1, <1>2, <1>3, <1>8 DEF InTurn
  <1>10. NextToRest' = taker.id \/ NextToRest' = taker.id + 1
    BY <1>1, <1>7 DEF NextToRest
  <1>11. Queues'
    <2>1. \A s \in Sides, p \in Prices : InTurn(book'[s][p], s, p, taker.id)
      BY <1>3, <1>8, <1>9 DEF BookInv, Queues
    <2> QED  BY <1>1, <1>10, <2>1, MoreArrive DEF Queues
  <1>12. \A s \in Sides : Resting(s)' \subseteq Resting(s)
    BY <1>0, <1>1, <1>3, <1>9, ZenonT(30) DEF Resting
  <1>13. Uncrossed'
    BY <1>12 DEF BookInv, Uncrossed, Sides
  <1>14. PriceTimePriority'
    <2>1. best = maker.price /\ maker.side = other
      BY <1>5
    <2>2. \/ taker.type = "Market"
          \/ IF taker.side = "Buy" THEN best <= taker.price ELSE best >= taker.price
      <3>1. best \in Int /\ taker.price \in Int
        BY <1>1, <1>3, BookAssumption DEF Orders
      <3> QED  BY <1>1, <3>1 DEF Crosses
    <2>3. ASSUME NEW o \in RestingOrders(other)', o.id # maker.id
          PROVE  \/ IF o.side = "Sell" THEN o.price > best ELSE o.price < best
                 \/ o.price = best /\ o.id > maker.id
      <3>1. PICK p \in Prices : \E i \in 1..Len(book'[other][p]) : o = book'[other][p][i]
        <4>1. \A p \in Prices : DOMAIN book'[other][p] = 1..Len(book'[other][p])
          <5>1. \A p \in Prices : book'[other][p] \in Seq(Orders)
            BY <1>1, <1>9
          <5> QED  BY <5>1
        <4> QED  BY <2>3, <4>1 DEF RestingOrders
      <3>2. PICK i \in 1..Len(book'[other][p]) : o = book'[other][p][i]
        BY <3>1
      <3>3. CASE p = best
        <4>1. book'[other][p] = left
          BY <1>1, <1>9, <3>3
        <4>2. o.price = best
          BY <1>8, <3>2, <4>1 DEF InTurn
        <4> QED  BY <1>8, <2>3, <3>2, <4>1, <4>2
      <3>4. CASE p # best
        <4>1. book'[other][p] = book[other][p]
          BY <1>1, <1>9, <3>4
        <4>2. o.price = p /\ o.side = other
          BY <1>1, <3>2, <4>1 DEF BookInv, Queues, InTurn
        <4>3. p \in Resting(other)
          BY <1>1, <3>2, <4>1 DEF Resting
        <4>4. p \in Int /\ best \in Int
          BY <1>3, BookAssumption
        <4> QED  BY <1>3, <3>4, <4>2, <4>3, <4>4
      <3> QED  BY <3>3, <3>4
    <2>4. trade'.maker = maker /\ trade'.price = best
      <3>1. trade' = [maker |-> maker, price |-> best, qty |-> qty]
        BY <1>2
      <3> QED  BY ONLY <3>1
    <2> QED  BY <1>7, <2>1, <2>2, <2>3, <2>4 DEF PriceTimePriority
  <1>15. BookShape'
    BY <1>1, <1>7, <1>9 DEF BookShape
  <1> QED  BY <1>11, <1>13, <1>14, <1>15 DEF BookInv

-----------------------------------------------------------------------------
(* The theorems                                                              *)

\* The inductive invariant holds in every reachable state.
THEOREM BookInvariant == BookSpec => []BookInv
PROOF
  <1>1. BookInv /\ [BookNext]_bookVars => BookInv'
    <2> SUFFICES ASSUME BookInv, [BookNext]_bookVars PROVE BookInv'
      OBVIOUS
    <2>1. CASE \E side \in {"Buy", "Sell"}, type \in {"Limit", "Market"}, p \in Prices, q \in Quantities :
                  PlaceOrder(side, type, p, q)
      BY <2>1, PlaceOrderKeeps DEF Sides
    <2>2. CASE Match
      BY <2>2, MatchKeeps
    <2>3. CASE Rest
      BY <2>3, RestKeeps
    <2>4. CASE UNCHANGED bookVars
      BY <2>4 DEF bookVars, BookInv, BookShape, Queues, InTurn, NextToRest, Uncrossed, Resting,
                  PriceTimePriority, RestingOrders
    <2> QED  BY <2>1, <2>2, <2>3, <2>4 DEF BookNext
  <1> QED  BY <1>1, BookStart, PTL DEF BookSpec

\* AddOrder never leaves a bid that reaches an ask, after any mixture of partial
\* fills, sweeps of several prices and market orders.
THEOREM BookNeverCrossed == BookSpec => []NeverCrossed
PROOF
  <1>1. BookInv => NeverCrossed
    <2> SUFFICES ASSUME BookInv, NEW b \in RestingOrders("Buy"), NEW a \in RestingOrders("Sell")
                 PROVE  b.price < a.price
      BY DEF NeverCrossed
    <2>1. ASSUME NEW s \in Sides, NEW o \in RestingOrders(s)
          PROVE  o.price \in Resting(s)
      <3>1. PICK p \in Prices : \E i \in DOMAIN book[s][p] : o = book[s][p][i]
        BY <2>1 DEF RestingOrders
      <3>2. InTurn(book[s][p], s, p, NextToRest)
        BY DEF BookInv, Queues
      <3> QED  BY <3>1, <3>2 DEF InTurn, Resting
    <2> QED  BY <2>1 DEF BookInv, Uncrossed, Sides
  <1> QED  BY <1>1, BookInvariant, PTL

\* Every fill of AddOrder goes to the best price and there to the oldest order.
THEOREM BookPriceTimePriority == BookSpec => []PriceTimePriority
BY BookInvariant, PTL DEF BookInv

-----------------------------------------------------------------------------
(* Elevators.                                                                 *)

ElevatorTypes ==
  /\ floor \in [Cars -> 0 .. TopFloor]
  /\ heading \in [Cars -> {"Idle", "Up", "Down"}]
  /\ stops \in [Cars -> SUBSET Buttons]
  /\ turns \in [Cars -> [Buttons -> {0, 1}]]

\* A request that a car has turned round for lies ahead of it.
TurnedFor(c, r) ==
  turns[c][r] = 1 =>
    /\ r \in stops[c]
    /\ heading[c] # "Idle" /\ AtOrBeyond(r.floor, floor[c], heading[c])

ElevatorInv ==
  /\ ElevatorTypes
  /\ \A c \in Cars : \A r \in Buttons : TurnedFor(c, r)

LEMMA ButtonFloors ==
  ASSUME NEW r \in Buttons
  PROVE  r.floor \in 0 .. TopFloor
BY ElevatorAssumption

LEMMA ElevatorInitially ==
  ASSUME ElevatorInit
  PROVE  ElevatorInv
BY ElevatorAssumption DEF ElevatorInit, ElevatorInv, ElevatorTypes, TurnedFor

LEMMA RequestKeeps ==
  ASSUME ElevatorInv, NEW r \in Buttons, RequestElevator(r)
  PROVE  ElevatorInv'
PROOF
  <1>1. ElevatorTypes /\ UNCHANGED <<floor, heading, turns>>
    BY DEF ElevatorInv, RequestElevator
  <1>2. PICK c \in SelectElevator(r) : AddRequest(c, r)
    BY DEF RequestElevator
  <1>3. stops' \in [Cars -> SUBSET Buttons] /\ \A d \in Cars : stops[d] \subseteq stops'[d]
    BY <1>1, <1>2 DEF AddRequest, ElevatorTypes
  <1>4. \A d \in Cars : \A q \in Buttons : TurnedFor(d, q)'
    BY <1>1, <1>3 DEF ElevatorInv, TurnedFor
  <1> QED  BY <1>1, <1>3, <1>4 DEF ElevatorInv, ElevatorTypes

\* One car's part of a step: it moves towards a request, and turns only when
\* none is left ahead.
LEMMA CarMoves ==
  ASSUME ElevatorInv, Step, NEW c \in Cars
  PROVE  /\ NewFloor(c) \in 0 .. TopFloor
         /\ NewHeading(c) \in {"Idle", "Up", "Down"}
         /\ ~Turns(c) => \A r \in stops[c] \ Here(c) :
              heading[c] # "Idle" /\ AtOrBeyond(r.floor, floor[c], heading[c]) =>
                NewHeading(c) # "Idle" /\ AtOrBeyond(r.floor, NewFloor(c), NewHeading(c))
         /\ Turns(c) => \A r \in stops[c] :
              /\ NewHeading(c) # "Idle" /\ AtOrBeyond(r.floor, NewFloor(c), NewHeading(c))
              /\ turns[c][r] = 0
PROOF
  <1>1. /\ floor[c] \in 0 .. TopFloor /\ heading[c] \in {"Idle", "Up", "Down"} /\ TopFloor \in Nat
        /\ stops[c] \subseteq Buttons
        /\ \A r \in stops[c] : r.floor \in 0 .. TopFloor
        /\ \A r \in stops[c] : TurnedFor(c, r) /\ turns[c][r] \in {0, 1}
    BY ElevatorAssumption, ButtonFloors DEF ElevatorInv, ElevatorTypes
  <1>2. Heading(c) \in {"Up", "Down"} /\ (heading[c] # "Idle" => Heading(c) = heading[c])
    BY <1>1 DEF Heading
  <1>3. NewHeading(c) \in {"Idle", "Up", "Down"}
    BY <1>2 DEF NewHeading
  <1>4. NewFloor(c) \in 0 .. TopFloor
    BY <1>1, <1>2 DEF NewFloor, MoreAhead
  <1>5. ASSUME ~Turns(c), NEW r \in stops[c] \ Here(c), heading[c] # "Idle",
               AtOrBeyond(r.floor, floor[c], heading[c])
        PROVE  NewHeading(c) # "Idle" /\ AtOrBeyond(r.floor, NewFloor(c), NewHeading(c))
    <2>1. stops[c] # {} /\ r.floor # floor[c]
      BY DEF Here
    <2>2. NewHeading(c) = heading[c]
      BY <1>2, <1>5, <2>1 DEF NewHeading
    <2>3. CASE Here(c) # {}
      BY <1>5, <2>2, <2>3 DEF NewFloor
    <2>4. CASE Here(c) = {}
      <3>1. MoreAhead(c)
        BY <1>5, <2>1, <2>4 DEF Turns
      <3>2. NewFloor(c) = IF heading[c] = "Up" THEN floor[c] + 1 ELSE floor[c] - 1
        BY <1>2, <1>5, <2>1, <2>4, <3>1 DEF NewFloor
      <3> QED  BY <1>1, <1>5, <2>1, <2>2, <3>2 DEF AtOrBeyond
    <2> QED  BY <2>3, <2>4
  <1>6. ASSUME Turns(c), NEW r \in stops[c]
        PROVE  /\ NewHeading(c) # "Idle" /\ AtOrBeyond(r.floor, NewFloor(c), NewHeading(c))
               /\ turns[c][r] = 0
    <2>1. stops[c] # {} /\ Here(c) = {} /\ ~MoreAhead(c)
      BY <1>6 DEF Turns
    <2>2. r.floor # floor[c]
      BY <2>1 DEF Here
    <2>3. IF Heading(c) = "Up" THEN r.floor < floor[c] ELSE r.floor > floor[c]
      BY <1>1, <1>2, <2>1, <2>2 DEF MoreAhead
    <2>4. NewFloor(c) = floor[c] /\ NewHeading(c) = IF Heading(c) = "Up" THEN "Down" ELSE "Up"
      BY <1>6, <2>1 DEF NewFloor, NewHeading
    <2>5. NewHeading(c) # "Idle" /\ AtOrBeyond(r.floor, NewFloor(c), NewHeading(c))
      BY <1>1, <2>3, <2>4 DEF AtOrBeyond
    <2>6. turns[c][r] # 1
      BY <1>1, <1>2, <2>3 DEF TurnedFor, AtOrBeyond
    <2> QED  BY <1>1, <2>5, <2>6
  <1> QED  BY <1>3, <1>4, <1>5, <1>6

LEMMA StepKeeps ==
  ASSUME ElevatorInv, Step
  PROVE  ElevatorInv'
PROOF
  <1>1. ElevatorTypes
    BY DEF ElevatorInv
  <1>2. /\ floor' \in [Cars -> 0 .. TopFloor]
        /\ heading' \in [Cars -> {"Idle", "Up", "Down"}]
        /\ stops' \in [Cars -> SUBSET Buttons]
    BY <1>1, CarMoves DEF Step, ElevatorTypes
  <1>3. ASSUME NEW c \in Cars, NEW r \in Buttons
        PROVE  turns'[c][r] \in {0, 1} /\ TurnedFor(c, r)'
    <2>1. /\ turns'[c][r] = IF r \notin stops'[c] THEN 0
                            ELSE IF Turns(c) THEN turns[c][r] + 1 ELSE turns[c][r]
          /\ stops'[c] = stops[c] \ Here(c) /\ floor'[c] = NewFloor(c) /\ heading'[c] = NewHeading(c)
      BY DEF Step
    <2>2. turns[c][r] \in {0, 1} /\ TurnedFor(c, r)
      BY <1>1 DEF ElevatorInv, ElevatorTypes
    <2>3. CASE r \notin stops'[c]
      BY <2>1, <2>3 DEF TurnedFor
    <2>4. CASE r \in stops'[c] /\ Turns(c)
      BY <2>1, <2>4, CarMoves DEF TurnedFor
    <2>5. CASE r \in stops'[c] /\ ~Turns(c)
      <3>1. turns'[c][r] = turns[c][r] /\ r \in stops[c] \ Here(c)
        BY <2>1, <2>5
      <3>2. turns[c][r] = 1 => heading'[c] # "Idle" /\ AtOrBeyond(r.floor, floor'[c], heading'[c])
        BY <2>1, <2>2, <2>5, <3>1, CarMoves DEF TurnedFor
      <3> QED  BY <2>2, <2>5, <3>1, <3>2 DEF TurnedFor
    <2> QED  BY <2>3, <2>4, <2>5
  <1>4. turns' \in [Cars -> [Buttons -> {0, 1}]]
    <2>1. \A c \in Cars : turns'[c] = [r \in Buttons |-> turns'[c][r]]
      BY DEF Step
    <2>2. \A c \in Cars : turns'[c] \in [Buttons -> {0, 1}]
      BY <1>3, <2>1
    <2>3. turns' = [c \in Cars |-> turns'[c]]
      BY DEF Step
    <2> QED  BY <2>2, <2>3
  <1> QED  BY <1>2, <1>3, <1>4 DEF ElevatorInv, ElevatorTypes

\* A car turns round at most once before it serves a request it has, and never
\* leaves its floors, for any number of cars, floors and buttons.
THEOREM AlwaysAtMostOneReversal ==
  ElevatorSpec => [](AtMostOneReversal /\ floor \in [Cars -> 0 .. TopFloor])
PROOF
  <1>1. ElevatorInit => ElevatorInv
    BY ElevatorInitially
  <1>2. ElevatorInv /\ [ElevatorNext]_elevatorVars => ElevatorInv'
    <2> SUFFICES ASSUME ElevatorInv, [ElevatorNext]_elevatorVars PROVE ElevatorInv'
      OBVIOUS
    <2>1. CASE ElevatorNext
      BY <2>1, RequestKeeps, StepKeeps DEF ElevatorNext
    <2>2. CASE UNCHANGED elevatorVars
      BY <2>2 DEF elevatorVars, ElevatorInv, ElevatorTypes, TurnedFor
    <2> QED  BY <2>1, <2>2
  <1>3. ElevatorInv => AtMostOneReversal /\ floor \in [Cars -> 0 .. TopFloor]
    BY DEF ElevatorInv, ElevatorTypes, AtMostOneReversal
  <1> QED  BY <1>1, <1>2, <1>3, PTL DEF ElevatorSpec

-----------------------------------------------------------------------------
(* The sliding window log.                                                    *)

LimiterTypes ==
  /\ clock \in Nat
  /\ log \in Seq(Nat) /\ allowed \in Seq(Nat)
  /\ requester \in [Requesters -> [at : {"away", "calling", "inside"}, now : Nat]]

\* How many of the allowed requests were pruned.
Gone == Len(allowed) - Len(log)

\* No time that is read from now on is before t: not by a thread that holds the
\* lock and has read it, nor by one that will.
NotBefore(t) ==
  /\ t <= clock
  /\ \A r \in Requesters : requester[r].at = "inside" => t <= requester[r].now

\* The same of the next state, for a time that is known in this one.
NotBeforeNext(t) ==
  /\ t <= clock'
  /\ \A r \in Requesters : requester'[r].at = "inside" => t <= requester'[r].now

LogInOrder == \A i, j \in 1 .. Len(log) : i <= j => log[i] <= log[j]

\* The log is the end of what was allowed, and what it misses is out of every
\* window to come.
LogIsTheRest ==
  /\ Len(log) <= Len(allowed)
  /\ \A i \in 1 .. Len(log) : log[i] = allowed[Gone + i]
  /\ \A i \in 1 .. Gone : NotBefore(allowed[i] + Window + 1)

LogIsPast == \A i \in 1 .. Len(log) : NotBefore(log[i])

LimiterInv ==
  /\ LimiterTypes
  /\ LogInOrder
  /\ LogIsTheRest
  /\ LogIsPast
  /\ \A r \in Requesters : requester[r].at = "inside" => requester[r].now <= clock
  /\ \A r, q \in Requesters : requester[r].at = "inside" /\ requester[q].at = "inside" => r = q

LEMMA LimiterInitially ==
  ASSUME LimiterInit
  PROVE  LimiterInv
BY DEF LimiterInit, LimiterInv, LimiterTypes, LogInOrder, LogIsTheRest, LogIsPast, Gone, Away

LEMMA MinIsLeast ==
  ASSUME NEW S, S \subseteq Nat, S # {}
  PROVE  Min(S) \in S /\ \A k \in S : Min(S) <= k
BY LeastNat DEF Min

\* Where pruning stops: from there on everything is in the window, and nothing
\* before is.
LEMMA PrunedIs ==
  ASSUME LimiterInv, NEW now \in Nat
  PROVE  \E m \in 1 .. (Len(log) + 1) :
           /\ Pruned(now) = SubSeq(log, m, Len(log))
           /\ \A i \in 1 .. Len(log) : log[i] >= now - Window <=> i >= m
PROOF
  <1> DEFINE kept == {i \in DOMAIN log : log[i] >= now - Window}
  <1>1. /\ log \in Seq(Nat) /\ Len(log) \in Nat /\ DOMAIN log = 1 .. Len(log) /\ LogInOrder
        /\ Window \in Nat /\ \A i \in 1 .. Len(log) : log[i] \in Nat
    BY LimiterAssumption DEF LimiterInv, LimiterTypes
  <1>2. CASE kept = {}
    <2>1. Pruned(now) = <<>>
      BY <1>2 DEF Pruned
    <2>2. SubSeq(log, Len(log) + 1, Len(log)) = <<>>
      BY <1>1
    <2>3. \A i \in 1 .. Len(log) : log[i] >= now - Window <=> i >= Len(log) + 1
      BY <1>1, <1>2
    <2> QED  BY <1>1, <2>1, <2>2, <2>3, SMTT(20)
  <1>3. CASE kept # {}
    <2> DEFINE m == Min(kept)
    <2>1. kept \subseteq Nat
      BY <1>1
    <2>2. m \in kept /\ \A k \in kept : m <= k
      <3> HIDE DEF kept
      <3> QED  BY <1>3, <2>1, MinIsLeast
    <2>3. m \in 1 .. Len(log) /\ log[m] >= now - Window
      BY <1>1, <2>2
    <2>4. Pruned(now) = SubSeq(log, m, Len(log))
      BY <1>3 DEF Pruned
    <2> HIDE DEF m
    <2>5. ASSUME NEW i \in 1 .. Len(log) PROVE log[i] >= now - Window <=> i >= m
      <3>1. CASE i >= m
        BY <1>1, <2>3, <3>1 DEF LogInOrder
      <3>2. CASE ~(i >= m)
        BY <1>1, <2>2, <2>3, <3>2
      <3> QED  BY <3>1, <3>2
    <2>6. m \in 1 .. (Len(log) + 1)
      BY <1>1, <2>3
    <2> HIDE DEF kept
    <2> QED  BY <2>4, <2>5, <2>6
  <1> QED  BY <1>2, <1>3

\* Pruning counts the window.
LEMMA PrunedCounts ==
  ASSUME LimiterInv, NEW r \in Requesters, requester[r].at = "inside"
  PROVE  Cardinality(InWindow(requester[r].now)) = Len(Pruned(requester[r].now))
PROOF
  <1> DEFINE now == requester[r].now
  <1>1. now \in Nat /\ Window \in Nat /\ Len(log) \in Nat /\ Len(allowed) \in Nat /\ Gone \in Nat
        /\ Len(allowed) = Gone + Len(log) /\ DOMAIN allowed = 1 .. Len(allowed)
        /\ \A i \in 1 .. Len(allowed) : allowed[i] \in Nat
    BY LimiterAssumption DEF LimiterInv, LimiterTypes, LogIsTheRest, Gone
  <1>2. PICK m \in 1 .. (Len(log) + 1) :
          /\ Pruned(now) = SubSeq(log, m, Len(log))
          /\ \A i \in 1 .. Len(log) : log[i] >= now - Window <=> i >= m
    BY <1>1, PrunedIs
  <1>3. InWindow(now) = (Gone + m) .. Len(allowed)
    <2>1. ASSUME NEW i \in 1 .. Len(allowed)
          PROVE  allowed[i] >= now - Window <=> i >= Gone + m
      <3>1. CASE i <= Gone
        <4>1. allowed[i] + Window + 1 <= now
          BY <1>1, <2>1, <3>1 DEF LimiterInv, LogIsTheRest, NotBefore
        <4> QED  BY <1>1, <1>2, <3>1, <4>1
      <3>2. CASE ~(i <= Gone)
        <4>1. i - Gone \in 1 .. Len(log) /\ Gone + (i - Gone) = i
          BY <1>1, <3>2
        <4>2. allowed[i] = log[i - Gone]
          BY <4>1 DEF LimiterInv, LogIsTheRest
        <4> HIDE DEF now
        <4> QED  BY <1>1, <1>2, <4>1, <4>2
      <3> QED  BY <3>1, <3>2
    <2> HIDE DEF now
    <2>2. \A i \in (Gone + m) .. Len(allowed) : i \in 1 .. Len(allowed)
      BY <1>1
    <2> QED  BY <1>1, <2>1, <2>2 DEF InWindow
  <1>4. Cardinality((Gone + m) .. Len(allowed)) = Len(log) - m + 1
    <2>1. Gone + m \in Int /\ Len(allowed) \in Int
      BY <1>1
    <2>2. Cardinality((Gone + m) .. Len(allowed)) =
            IF Gone + m > Len(allowed) THEN 0 ELSE Len(allowed) - (Gone + m) + 1
      BY <2>1, FS_Interval
    <2> QED  BY <1>1, <2>2
  <1>5. Len(SubSeq(log, m, Len(log))) = Len(log) - m + 1
    BY <1>1 DEF LimiterInv, LimiterTypes
  <1> QED  BY <1>2, <1>3, <1>4, <1>5

LEMMA WaitKeeps ==
  ASSUME LimiterInv, Passes \/ \E r \in Requesters : CallTryAcquire(r) \/ EnterLock(r)
  PROVE  LimiterInv'
PROOF
  <1>1. LimiterTypes /\ log' = log /\ allowed' = allowed /\ Gone' = Gone
    BY DEF LimiterInv, Passes, CallTryAcquire, EnterLock, Gone
  <1>2. clock' \in Nat /\ clock <= clock'
    BY <1>1 DEF LimiterTypes, Passes, CallTryAcquire, EnterLock
  <1>3. /\ requester' \in [Requesters -> [at : {"away", "calling", "inside"}, now : Nat]]
        /\ \A q \in Requesters : requester'[q].at = "inside" =>
             \/ requester[q].at = "inside" /\ requester'[q].now = requester[q].now
             \/ requester'[q].now = clock /\ clock' = clock
        /\ \A q, p \in Requesters : requester'[q].at = "inside" /\ requester'[p].at = "inside" => q = p
    <2>1. CASE Passes
      BY <1>1, <2>1 DEF LimiterTypes, Passes, LimiterInv
    <2>2. ASSUME NEW r \in Requesters, NEW a \in {"calling", "inside"},
                 requester' = [requester EXCEPT ![r] = [at |-> a, now |-> clock]],
                 a = "inside" => ~Locked, clock' = clock
          PROVE  <1>3!:
      <3> DEFINE c == [at |-> a, now |-> clock]
      <3>1. c \in [at : {"away", "calling", "inside"}, now : Nat] /\ c.at = a /\ c.now = clock
        BY <1>1 DEF LimiterTypes
      <3>2. requester' = [requester EXCEPT ![r] = c]
        BY <2>2
      <3> HIDE DEF c
      <3> QED  BY <1>1, <2>2, <3>1, <3>2 DEF LimiterTypes, LimiterInv, Locked
    <2>3. ASSUME NEW r \in Requesters, CallTryAcquire(r) PROVE <1>3!:
      BY <2>2, <2>3 DEF CallTryAcquire
    <2>4. ASSUME NEW r \in Requesters, EnterLock(r) PROVE <1>3!:
      BY <2>2, <2>4 DEF EnterLock
    <2> QED  BY <2>1, <2>3, <2>4
  <1>5. \A t \in Int : NotBefore(t) => NotBeforeNext(t)
    BY <1>1, <1>2, <1>3, SMTT(20) DEF NotBefore, NotBeforeNext, LimiterTypes
  <1>7. \A r \in Requesters : requester'[r].at = "inside" => requester'[r].now <= clock'
    BY <1>1, <1>2, <1>3 DEF LimiterInv, LimiterTypes
  <1>8. (\A i \in 1 .. Len(log) : log[i] \in Int) /\ (\A i \in 1 .. Gone : allowed[i] + Window + 1 \in Int)
    BY <1>1, LimiterAssumption, SMTT(20) DEF LimiterInv, LimiterTypes, LogIsTheRest, Gone
  <1>9. LogIsPast'
    BY <1>1, <1>5, <1>8 DEF LimiterInv, LogIsPast, NotBefore, NotBeforeNext
  <1>10. LogIsTheRest' /\ LogInOrder'
    <2>1. \A i \in 1 .. Gone : NotBeforeNext(allowed[i] + Window + 1)
      BY <1>5, <1>8 DEF LimiterInv, LogIsTheRest
    <2> QED  BY <1>1, <2>1 DEF LimiterInv, LogIsTheRest, LogInOrder, NotBefore, NotBeforeNext
  <1> QED  BY <1>1, <1>2, <1>3, <1>7, <1>9, <1>10 DEF LimiterInv, LimiterTypes

LEMMA DecideKeeps ==
  ASSUME LimiterInv, NEW r \in Requesters, Decide(r)
  PROVE  LimiterInv'
PROOF
  <1> DEFINE now == requester[r].now
             kept == Pruned(now)
             n == Len(log)
  <1>1. /\ LimiterTypes /\ requester[r].at = "inside" /\ now \in Nat /\ now <= clock
        /\ clock' = clock /\ requester' = [requester EXCEPT ![r] = Away]
        /\ Window \in Nat
    BY LimiterAssumption DEF LimiterInv, LimiterTypes, Decide
  <1>2. /\ log \in Seq(Nat) /\ n \in Nat /\ Len(allowed) \in Nat /\ Gone \in Nat /\ Len(allowed) = Gone + n
        /\ \A i \in 1 .. Len(allowed) : allowed[i] \in Nat
        /\ \A i \in 1 .. n : log[i] \in Nat /\ log[i] <= now /\ log[i] = allowed[Gone + i]
    BY <1>1, SMTT(20) DEF LimiterInv, LimiterTypes, LogIsTheRest, LogIsPast, Gone, NotBefore
  <1>3. PICK m \in 1 .. (n + 1) :
          /\ kept = SubSeq(log, m, n)
          /\ \A i \in 1 .. n : log[i] >= now - Window <=> i >= m
    BY <1>1, PrunedIs
  <1>4. /\ kept \in Seq(Nat) /\ Len(kept) = n - m + 1 /\ Len(kept) \in Nat
        /\ \A i \in 1 .. Len(kept) : kept[i] = log[m + i - 1] /\ m + i - 1 \in 1 .. n
    <2> HIDE DEF kept, now
    <2>1. SubSeq(log, m, n) \in Seq(Nat) /\ Len(SubSeq(log, m, n)) = n - m + 1
      BY <1>2
    <2>2. \A i \in 1 .. n - m + 1 : SubSeq(log, m, n)[i] = log[m + i - 1] /\ m + i - 1 \in 1 .. n
      BY <1>2
    <2>3. n - m + 1 \in Nat
      BY <1>2
    <2> HIDE DEF n
    <2> QED  BY <1>3, <2>1, <2>2, <2>3
  <1>5. /\ requester' \in [Requesters -> [at : {"away", "calling", "inside"}, now : Nat]]
        /\ \A q \in Requesters : requester'[q].at # "inside"
    BY <1>1 DEF LimiterInv, LimiterTypes, Away
  <1>6. \A t \in Int : t <= now => NotBeforeNext(t)
    BY <1>1, <1>5 DEF NotBeforeNext, LimiterTypes
  <1>7. \A i \in 1 .. (Gone + m - 1) : allowed[i] + Window + 1 \in Int /\ allowed[i] + Window + 1 <= now
    <2> TAKE i \in 1 .. (Gone + m - 1)
    <2>1. i \in 1 .. Len(allowed) /\ allowed[i] \in Nat
      BY <1>2
    <2>2. CASE i <= Gone
      <3>1. i \in 1 .. Gone
        BY <1>2, <2>2
      <3> QED  BY <1>1, <2>1, <3>1 DEF LimiterInv, LogIsTheRest, NotBefore
    <2>3. CASE ~(i <= Gone)
      <3>1. i - Gone \in 1 .. n /\ ~(i - Gone >= m) /\ Gone + (i - Gone) = i
        BY <1>2, <2>3, SMTT(20)
      <3>2. allowed[i] = log[i - Gone]
        BY <1>2, <3>1
      <3>3. ~(allowed[i] >= now - Window)
        BY <1>3, <3>1, <3>2
      <3> QED  BY <1>1, <2>1, <3>3
    <2> QED  BY <2>2, <2>3
  <1>8. \A i \in 1 .. Len(kept) : kept[i] = allowed[Gone + m - 1 + i] /\ kept[i] \in Nat /\ kept[i] <= now
    <2> TAKE i \in 1 .. Len(kept)
    <2>1. m + i - 1 \in 1 .. n /\ kept[i] = log[m + i - 1]
      BY <1>4
    <2>2. Gone + (m + i - 1) = Gone + m - 1 + i
      BY <1>2, <1>4
    <2> QED  BY <1>2, <2>1, <2>2
  <1>9. \A i, j \in 1 .. Len(kept) : i <= j => kept[i] <= kept[j]
    <2> TAKE i, j \in 1 .. Len(kept)
    <2>1. /\ m + i - 1 \in 1 .. n /\ m + j - 1 \in 1 .. n
          /\ kept[i] = log[m + i - 1] /\ kept[j] = log[m + j - 1]
      BY <1>4
    <2>2. i <= j => m + i - 1 <= m + j - 1
      BY <1>2, <1>4
    <2> HIDE DEF kept
    <2> QED  BY <2>1, <2>2 DEF LimiterInv, LogInOrder
  <1>13. /\ Len(kept) + Gone + m - 1 = Len(allowed) /\ Gone + m - 1 \in Nat
         /\ m \in Nat \ {0} /\ n - m + 2 = Len(kept) + 1
    BY <1>2, <1>3, <1>4
  <1>14. /\ kept \in Seq(Nat) /\ Len(kept) \in Nat /\ Len(allowed) \in Nat
         /\ Gone \in Nat /\ m \in Nat /\ n \in Nat /\ Gone + m - 1 \in Nat
         /\ Len(kept) + Gone + m - 1 = Len(allowed)
    BY <1>2, <1>4, <1>13
  <1> HIDE DEF now, kept, n
  <1>10. CASE log' = kept /\ allowed' = allowed
    <2>1. Len(log') = Len(kept) /\ Gone' = Gone + m - 1
      BY <1>10, <1>14 DEF Gone
    <2>2. LimiterTypes'
      BY <1>1, <1>14, <1>5, <1>10 DEF LimiterTypes
    <2>3. LogInOrder'
      BY <1>9, <1>10 DEF LogInOrder
    <2>4. LogIsTheRest'
      <3>1. \A i \in 1 .. (Gone + m - 1) : NotBeforeNext(allowed[i] + Window + 1)
        BY <1>6, <1>7
      <3>2. Len(log') <= Len(allowed')
        BY <1>10, <1>14
      <3> QED  BY <1>8, <1>10, <2>1, <3>1, <3>2 DEF LogIsTheRest, NotBefore, NotBeforeNext
    <2>5. LogIsPast'
      <3>1. \A i \in 1 .. Len(kept) : NotBeforeNext(kept[i])
        BY <1>6, <1>8
      <3> QED  BY <1>10, <3>1 DEF LogIsPast, NotBefore, NotBeforeNext
    <2> QED  BY <1>5, <2>2, <2>3, <2>4, <2>5 DEF LimiterInv
  <1>11. CASE log' = Append(kept, now) /\ allowed' = Append(allowed, now)
    <2>0. now \in Nat /\ allowed \in Seq(Nat)
      BY <1>1 DEF LimiterTypes, now
    <2>1. /\ Len(log') = Len(kept) + 1 /\ Len(allowed') = Len(allowed) + 1
          /\ \A i \in 1 .. Len(kept) : log'[i] = kept[i]
          /\ log'[Len(kept) + 1] = now
          /\ \A i \in 1 .. Len(allowed) : allowed'[i] = allowed[i]
          /\ allowed'[Len(allowed) + 1] = now
          /\ log' \in Seq(Nat) /\ allowed' \in Seq(Nat)
      BY <1>14, <1>11, <2>0
    <2>8. Gone' = Gone + m - 1
      BY <1>14, <2>1 DEF Gone
    <2>2. LimiterTypes'
      BY <1>1, <1>5, <2>1 DEF LimiterTypes
    <2>3. \A i \in 1 .. (Len(kept) + 1) : i \in 1 .. Len(kept) \/ i = Len(kept) + 1
      BY <1>14
    <2>4. LogInOrder'
      <3> SUFFICES ASSUME NEW i \in 1 .. (Len(kept) + 1), NEW j \in 1 .. (Len(kept) + 1), i <= j
                   PROVE  log'[i] <= log'[j]
        BY <2>1 DEF LogInOrder
      <3>1. CASE i \in 1 .. Len(kept) /\ j \in 1 .. Len(kept)
        BY <1>9, <2>1, <3>1
      <3>2. CASE j = Len(kept) + 1
        <4>1. CASE i \in 1 .. Len(kept)
          <5>1. log'[i] = kept[i] /\ kept[i] <= now /\ log'[j] = now
            BY <1>8, <2>1, <3>2, <4>1
          <5> QED  BY <5>1
        <4>2. CASE i = Len(kept) + 1
          BY <2>0, <2>1, <3>2, <4>2
        <4> QED  BY <2>3, <4>1, <4>2
      <3>3. ~(i = Len(kept) + 1 /\ j \in 1 .. Len(kept))
        BY <1>14
      <3> QED  BY <2>3, <3>1, <3>2, <3>3
    <2>5. \A i \in 1 .. Len(log') : log'[i] \in Int /\ log'[i] <= now
      <3> SUFFICES ASSUME NEW i \in 1 .. (Len(kept) + 1) PROVE log'[i] \in Int /\ log'[i] <= now
        BY <2>1
      <3>1. CASE i \in 1 .. Len(kept)
        <4>1. log'[i] = kept[i] /\ kept[i] \in Nat /\ kept[i] <= now
          BY <1>8, <2>1, <3>1
        <4> QED  BY <4>1
      <3>2. CASE i = Len(kept) + 1
        BY <2>0, <2>1, <3>2
      <3> QED  BY <2>3, <3>1, <3>2
    <2>6. LogIsTheRest'
      <3>1. \A i \in 1 .. (Gone + m - 1) : NotBeforeNext(allowed[i] + Window + 1) /\ allowed'[i] = allowed[i]
        <4>1. \A i \in 1 .. (Gone + m - 1) : i \in 1 .. Len(allowed)
          BY <1>14
        <4> QED  BY <1>6, <1>7, <2>1, <4>1
      <3>2. ASSUME NEW i \in 1 .. (Len(kept) + 1) PROVE log'[i] = allowed'[Gone + m - 1 + i]
        <4>1. CASE i \in 1 .. Len(kept)
          <5>1. Gone + m - 1 + i \in 1 .. Len(allowed)
            BY <1>14, <4>1
          <5> QED  BY <1>8, <2>1, <4>1, <5>1
        <4>2. CASE i = Len(kept) + 1
          <5>1. Gone + m - 1 + i = Len(allowed) + 1
            BY <1>14, <4>2
          <5> QED  BY <2>1, <4>2, <5>1
        <4> QED  BY <2>3, <4>1, <4>2
      <3>3. Len(log') <= Len(allowed')
        BY <1>14, <2>1
      <3> QED  BY <2>1, <2>8, <3>1, <3>2, <3>3 DEF LogIsTheRest, NotBefore, NotBeforeNext
    <2>7. LogIsPast'
      <3>1. \A i \in 1 .. Len(log') : NotBeforeNext(log'[i])
        BY <1>6, <2>5
      <3> QED  BY <3>1 DEF LogIsPast, NotBefore, NotBeforeNext
    <2> QED  BY <1>5, <2>2, <2>4, <2>6, <2>7 DEF LimiterInv
  <1>12. (log' = kept /\ allowed' = allowed) \/ (log' = Append(kept, now) /\ allowed' = Append(allowed, now))
    BY DEF Decide, kept, now
  <1> QED  BY <1>10, <1>11, <1>12

\* The limit is exact, for any window, limit and number of threads, however
\* they race for the lock.
THEOREM LimitAlwaysExact == LimiterSpec => LimitIsExact
PROOF
  <1>1. LimiterInit => LimiterInv
    BY LimiterInitially
  <1>2. LimiterInv /\ [LimiterNext]_limiterVars => LimiterInv'
    <2> SUFFICES ASSUME LimiterInv, [LimiterNext]_limiterVars PROVE LimiterInv'
      OBVIOUS
    <2>1. CASE LimiterNext
      BY <2>1, WaitKeeps, DecideKeeps DEF LimiterNext
    <2>2. CASE UNCHANGED limiterVars
      BY <2>2 DEF limiterVars, LimiterInv, LimiterTypes, LogInOrder, LogIsTheRest, LogIsPast, NotBefore, Gone
    <2> QED  BY <2>1, <2>2
  <1> DEFINE Exact == \A r \in Requesters : Decide(r) =>
               (allowed' # allowed <=> Cardinality(InWindow(requester[r].now)) < MaxRequests)
  <1>3. LimiterInv => Exact
    <2> SUFFICES ASSUME LimiterInv, NEW r \in Requesters, Decide(r)
                 PROVE  allowed' # allowed <=> Cardinality(InWindow(requester[r].now)) < MaxRequests
      OBVIOUS
    <2> DEFINE kept == Pruned(requester[r].now)
    <2>1. Cardinality(InWindow(requester[r].now)) = Len(kept)
      BY PrunedCounts DEF Decide
    <2>2. allowed' = IF Len(kept) < MaxRequests THEN Append(allowed, requester[r].now) ELSE allowed
      BY DEF Decide
    <2>3. Append(allowed, requester[r].now) # allowed
      <3>1. allowed \in Seq(Nat) /\ requester[r].now \in Nat
        BY DEF LimiterInv, LimiterTypes
      <3>2. Len(Append(allowed, requester[r].now)) = Len(allowed) + 1 /\ Len(allowed) \in Nat
        BY <3>1
      <3> QED  BY <3>2
    <2> HIDE DEF kept
    <2> QED  BY <2>1, <2>2, <2>3
  <1>4. LimiterInv /\ [LimiterNext]_limiterVars => [Exact]_limiterVars
    BY <1>3
  <1> QED  BY <1>1, <1>2, <1>4, PTL DEF LimiterSpec, LimitIsExact

-----------------------------------------------------------------------------
(* The logging pipeline.                                                      *)

\* The turns of Shown over the first m records.
ShowingStep(i, records, shown, n) ==
  IF n = 0 THEN <<>>
  ELSE IF records[n] >= SinkLevels[i] THEN Append(shown[n - 1], records[n])
  ELSE shown[n - 1]

Showing(i, records, m, shown) == shown = [n \in 0 .. m |-> ShowingStep(i, records, shown, n)]

LEMMA ShowingsExist ==
  ASSUME NEW i, NEW records, NEW m \in Nat
  PROVE  \E shown : Showing(i, records, m, shown)
PROOF
  <1> DEFINE bad == {k \in Nat : \A shown : ~ Showing(i, records, k, shown)}
  <1>1. SUFFICES ASSUME bad # {} PROVE FALSE
    OBVIOUS
  <1>2. PICK k \in bad : \A l \in bad : k <= l
    <2>1. bad \subseteq Nat
      OBVIOUS
    <2> HIDE DEF bad
    <2> QED  BY <1>1, <2>1, LeastNat
  <1>3. k \in Nat /\ \A shown : ~ Showing(i, records, k, shown)
    OBVIOUS
  <1>4. CASE k = 0
    <2> DEFINE g == [n \in 0 .. 0 |-> <<>>]
    <2>1. \A n \in 0 .. 0 : ShowingStep(i, records, g, n) = <<>>
      BY DEF ShowingStep
    <2>2. g = [n \in 0 .. 0 |-> ShowingStep(i, records, g, n)]
      <3>1. [n \in 0 .. 0 |-> ShowingStep(i, records, g, n)] = [n \in 0 .. 0 |-> <<>>]
        BY <2>1
      <3> QED  BY <3>1
    <2>3. Showing(i, records, 0, g)
      <3> HIDE DEF g
      <3> QED  BY <2>2 DEF Showing
    <2> QED  BY <1>3, <1>4, <2>3
  <1>5. CASE k # 0
    <2>1. k - 1 \in Nat /\ k - 1 \notin bad
      BY <1>2, <1>3, <1>5
    <2>2. PICK f : Showing(i, records, k - 1, f)
      BY <2>1
    <2> DEFINE g == [n \in 0 .. k |-> IF n = k THEN ShowingStep(i, records, f, k) ELSE f[n]]
    <2>3. \A n \in 0 .. (k - 1) : f[n] = ShowingStep(i, records, f, n)
      BY <2>2 DEF Showing
    <2>4. ASSUME NEW n \in 0 .. k PROVE g[n] = ShowingStep(i, records, g, n)
      <3>1. n # 0 => n - 1 \in 0 .. k /\ n - 1 # k
        BY <1>3
      <3>2. n # 0 => g[n - 1] = f[n - 1]
        BY <3>1
      <3>3. ShowingStep(i, records, g, n) = ShowingStep(i, records, f, n)
        <4> HIDE DEF g
        <4> QED  BY <3>2 DEF ShowingStep
      <3>4. n # k => n \in 0 .. (k - 1)
        BY <1>3
      <3>5. g[n] = ShowingStep(i, records, f, n)
        <4> HIDE DEF bad
        <4> QED  BY <2>3, <3>4
      <3> QED  BY <3>3, <3>5
    <2>5. g = [n \in 0 .. k |-> g[n]]
      OBVIOUS
    <2>6. Showing(i, records, k, g)
      <3> HIDE DEF g
      <3> QED  BY <2>4, <2>5 DEF Showing
    <2> QED  BY <1>3, <2>6
  <1> QED  BY <1>4, <1>5

\* The turns of two sequences of records with the same beginning.
LEMMA ShowingsAgree ==
  ASSUME NEW i, NEW r, NEW s, NEW m \in Nat, NEW k \in Nat, NEW f, NEW g,
         Showing(i, r, m, f), Showing(i, s, k, g), m <= k, \A n \in 1 .. m : r[n] = s[n]
  PROVE  \A n \in 0 .. m : f[n] = g[n]
PROOF
  <1> DEFINE bad == {n \in 0 .. m : f[n] # g[n]}
  <1>1. SUFFICES ASSUME bad # {} PROVE FALSE
    OBVIOUS
  <1>2. PICK n \in bad : \A l \in bad : n <= l
    <2>1. bad \subseteq Nat
      OBVIOUS
    <2> HIDE DEF bad
    <2> QED  BY <1>1, <2>1, LeastNat
  <1>3. n \in 0 .. m /\ n \in 0 .. k /\ f[n] # g[n]
    OBVIOUS
  <1>4. f[n] = ShowingStep(i, r, f, n) /\ g[n] = ShowingStep(i, s, g, n)
    <2> HIDE DEF bad
    <2> QED  BY <1>3 DEF Showing
  <1>5. n # 0 => f[n - 1] = g[n - 1]
    <2>1. n # 0 => n - 1 \in 0 .. m /\ ~(n <= n - 1)
      BY <1>3
    <2> QED  BY <1>2, <2>1
  <1>6. n # 0 => r[n] = s[n]
    <2>1. n # 0 => n \in 1 .. m
      BY <1>3
    <2> QED  BY <2>1
  <1> HIDE DEF bad
  <1> QED  BY <1>3, <1>4, <1>5, <1>6 DEF ShowingStep

LEMMA ShownIs ==
  ASSUME NEW i, NEW records \in Seq(Nat)
  PROVE  \E f : Showing(i, records, Len(records), f) /\ Shown(i, records) = f[Len(records)]
PROOF
  <1> DEFINE m == Len(records)
             f == CHOOSE f : Showing(i, records, m, f)
  <1>1. m \in Nat
    OBVIOUS
  <1>2. Shown(i, records) = f[m]
    BY DEF Shown, Showing, ShowingStep
  <1>3. Showing(i, records, m, f)
    <2> HIDE DEF m
    <2> QED  BY <1>1, ShowingsExist
  <1> HIDE DEF f, m
  <1>4. \E g : Showing(i, records, m, g) /\ Shown(i, records) = g[m]
    BY <1>2, <1>3
  <1> QED  BY <1>4 DEF m

LEMMA TurnsAreSeqs ==
  ASSUME NEW i, NEW records \in Seq(Nat), NEW f, Showing(i, records, Len(records), f)
  PROVE  \A n \in 0 .. Len(records) : f[n] \in Seq(Nat)
PROOF
  <1> DEFINE m == Len(records)
             bad == {n \in 0 .. m : f[n] \notin Seq(Nat)}
  <1>1. SUFFICES ASSUME bad # {} PROVE FALSE
    OBVIOUS
  <1>2. m \in Nat /\ \A n \in 1 .. m : records[n] \in Nat
    OBVIOUS
  <1>3. PICK n \in bad : \A l \in bad : n <= l
    <2>1. bad \subseteq Nat
      OBVIOUS
    <2> HIDE DEF bad
    <2> QED  BY <1>1, <2>1, LeastNat
  <1>4. n \in 0 .. m /\ f[n] \notin Seq(Nat)
    OBVIOUS
  <1>5. f[n] = ShowingStep(i, records, f, n)
    <2> HIDE DEF bad
    <2> QED  BY <1>4 DEF Showing
  <1>6. CASE n = 0
    BY <1>4, <1>5, <1>6 DEF ShowingStep
  <1>7. CASE n # 0
    <2>1. n - 1 \in 0 .. m /\ ~(n <= n - 1) /\ n \in 1 .. m
      BY <1>2, <1>4, <1>7
    <2>2. f[n - 1] \in Seq(Nat)
      BY <1>3, <2>1
    <2>3. Append(f[n - 1], records[n]) \in Seq(Nat)
      BY <1>2, <2>1, <2>2
    <2> HIDE DEF bad, m
    <2> QED  BY <1>4, <1>5, <1>7, <2>2, <2>3 DEF ShowingStep
  <1> QED  BY <1>6, <1>7

\* What Shown does with a record at the end, and with one at the beginning.
LEMMA ShownOfNothing ==
  ASSUME NEW i
  PROVE  Shown(i, <<>>) = <<>>
PROOF
  <1>1. <<>> \in Seq(Nat) /\ Len(<<>>) = 0
    OBVIOUS
  <1>2. PICK f : Showing(i, <<>>, 0, f) /\ Shown(i, <<>>) = f[0]
    BY <1>1, ShownIs
  <1>3. f[0] = ShowingStep(i, <<>>, f, 0)
    BY <1>2 DEF Showing
  <1> QED  BY <1>2, <1>3 DEF ShowingStep

LEMMA ShownIsSeq ==
  ASSUME NEW i, NEW records \in Seq(Nat)
  PROVE  Shown(i, records) \in Seq(Nat)
PROOF
  <1>1. PICK f : Showing(i, records, Len(records), f) /\ Shown(i, records) = f[Len(records)]
    BY ShownIs
  <1>2. Len(records) \in 0 .. Len(records)
    OBVIOUS
  <1> QED  BY <1>1, <1>2, TurnsAreSeqs

LEMMA ShownOfAppend ==
  ASSUME NEW i, NEW s \in Seq(Nat), NEW x \in Nat
  PROVE  Shown(i, Append(s, x)) = IF x >= SinkLevels[i] THEN Append(Shown(i, s), x) ELSE Shown(i, s)
PROOF
  <1> DEFINE t == Append(s, x)
             m == Len(s)
  <1>1. t \in Seq(Nat) /\ Len(t) = m + 1 /\ m \in Nat /\ t[m + 1] = x /\ \A n \in 1 .. m : s[n] = t[n]
    OBVIOUS
  <1> HIDE DEF t
  <1>2. PICK f : Showing(i, s, m, f) /\ Shown(i, s) = f[m]
    BY ShownIs
  <1>3. PICK g : Showing(i, t, m + 1, g) /\ Shown(i, t) = g[m + 1]
    BY <1>1, ShownIs
  <1>4. f[m] = g[m]
    <2>1. m + 1 \in Nat /\ m <= m + 1 /\ m \in 0 .. m
      BY <1>1
    <2> HIDE DEF m
    <2>2. \A n \in 0 .. m : f[n] = g[n]
      BY <1>1, <1>2, <1>3, <2>1, ShowingsAgree
    <2> QED  BY <2>1, <2>2
  <1>5. g[m + 1] = ShowingStep(i, t, g, m + 1)
    <2>1. m + 1 \in 0 .. m + 1
      BY <1>1
    <2> HIDE DEF m
    <2> QED  BY <1>3, <2>1 DEF Showing
  <1>6. m + 1 # 0 /\ (m + 1) - 1 = m
    BY <1>1
  <1> HIDE DEF m
  <1>7. Shown(i, t) = IF x >= SinkLevels[i] THEN Append(Shown(i, s), x) ELSE Shown(i, s)
    BY <1>1, <1>2, <1>3, <1>4, <1>5, <1>6 DEF ShowingStep
  <1> QED  BY <1>7 DEF t

FirstShown(i, x) == IF x >= SinkLevels[i] THEN <<x>> ELSE <<>>

LEMMA ShownOfPrepend ==
  ASSUME NEW i, NEW s \in Seq(Nat), NEW x \in Nat
  PROVE  Shown(i, <<x>> \o s) = FirstShown(i, x) \o Shown(i, s)
PROOF
  <1> DEFINE t == <<x>> \o s
             m == Len(s)
             h == FirstShown(i, x)
  <1>1. m \in Nat /\ \A n \in 1 .. m : s[n] \in Nat
    OBVIOUS
  <1>2. t \in Seq(Nat) /\ Len(t) = m + 1 /\ t[1] = x /\ \A n \in 2 .. m + 1 : t[n] = s[n - 1]
    BY PrependIs
  <1>3. h \in Seq(Nat)
    BY DEF FirstShown
  <1> HIDE DEF t
  <1>4. PICK f : Showing(i, s, m, f) /\ Shown(i, s) = f[m]
    BY ShownIs
  <1>5. PICK g : Showing(i, t, m + 1, g) /\ Shown(i, t) = g[m + 1]
    BY <1>2, ShownIs
  <1>6. \A n \in 0 .. m : f[n] \in Seq(Nat)
    BY <1>4, TurnsAreSeqs
  <1>7. (\A n \in 0 .. m : f[n] = ShowingStep(i, s, f, n)) /\ (\A n \in 0 .. m + 1 : g[n] = ShowingStep(i, t, g, n))
    <2> HIDE DEF m
    <2> QED  BY <1>4, <1>5 DEF Showing
  <1> HIDE DEF h, m
  <1> DEFINE bad == {n \in 0 .. m : g[n + 1] # h \o f[n]}
  <1>8. bad = {}
    <2>1. SUFFICES ASSUME bad # {} PROVE FALSE
      OBVIOUS
    <2>2. PICK n \in bad : \A l \in bad : n <= l
      <3>1. bad \subseteq Nat
        OBVIOUS
      <3> HIDE DEF bad
      <3> QED  BY <2>1, <3>1, LeastNat
    <2>3. n \in 0 .. m /\ g[n + 1] # h \o f[n]
      OBVIOUS
    <2>4. \A l \in 0 .. m : l \notin bad => g[l + 1] = h \o f[l]
      OBVIOUS
    <2> HIDE DEF bad
    <2>5. n \in Nat /\ n + 1 \in 0 .. m + 1 /\ n + 1 # 0 /\ (n + 1) - 1 = n
      BY <1>1, <2>3
    <2>6. /\ f[n] = ShowingStep(i, s, f, n)
          /\ g[n + 1] = IF t[n + 1] >= SinkLevels[i] THEN Append(g[n], t[n + 1]) ELSE g[n]
      BY <1>7, <2>3, <2>5 DEF ShowingStep
    <2>7. CASE n = 0
      <3>1. g[0] = <<>> /\ f[0] = <<>>
        <4>1. 0 \in 0 .. m /\ 0 \in 0 .. m + 1
          BY <1>1
        <4> QED  BY <1>7, <4>1 DEF ShowingStep
      <3>2. g[1] = IF x >= SinkLevels[i] THEN Append(<<>>, x) ELSE <<>>
        BY <1>2, <2>6, <2>7, <3>1
      <3>3. Append(<<>>, x) = <<x>>
        OBVIOUS
      <3>4. h \o <<>> = h
        BY <1>3
      <3> QED  BY <2>3, <2>7, <3>1, <3>2, <3>3, <3>4 DEF h, FirstShown
    <2>8. CASE n # 0
      <3>1. n - 1 \in 0 .. m /\ ~(n <= n - 1) /\ n \in 1 .. m /\ n + 1 \in 2 .. m + 1 /\ (n - 1) + 1 = n
        BY <1>1, <2>3, <2>8
      <3>2. g[n] = h \o f[n - 1]
        BY <2>2, <2>4, <3>1
      <3>3. t[n + 1] = s[n] /\ s[n] \in Nat /\ f[n - 1] \in Seq(Nat)
        BY <1>1, <1>2, <1>6, <2>5, <3>1
      <3>4. h \o Append(f[n - 1], s[n]) = Append(h \o f[n - 1], s[n])
        BY <1>3, <3>3, AppendBehind
      <3>5. f[n] = IF s[n] >= SinkLevels[i] THEN Append(f[n - 1], s[n]) ELSE f[n - 1]
        BY <2>6, <2>8 DEF ShowingStep
      <3> QED  BY <2>3, <2>6, <3>2, <3>3, <3>4, <3>5
    <2> QED  BY <2>7, <2>8
  <1>9. g[m + 1] = h \o f[m]
    <2>1. m \in 0 .. m
      BY <1>1
    <2> QED  BY <1>8, <2>1
  <1> QED  BY <1>4, <1>5, <1>9 DEF t, h

Tasks ==
  [at : {"taking", "ended"}] \cup [at : {"writing"}, level : Nat, sink : LogSinks]

LogTypes ==
  /\ logQueue \in Seq(Nat) /\ accepted \in Seq(Nat)
  /\ offered \in [LogSinks -> Seq(Nat)]
  /\ task \in Tasks
  /\ disposal \in {"none", "waiting", "returned"}

LogInv ==
  /\ LogTypes
  /\ \A i \in LogSinks : offered[i] \o Shown(i, StillToCome(i)) = Shown(i, accepted)
  /\ task.at = "ended" => logQueue = <<>> /\ addingCompleted
  /\ disposal = "returned" => task.at = "ended"

\* What the worker has in its hands for a sink.
InHand(i) == IF task.at = "writing" /\ task.sink <= i THEN <<task.level>> ELSE <<>>

LEMMA TaskFacts ==
  ASSUME LogTypes, task.at = "writing"
  PROVE  task.level \in Nat /\ task.sink \in LogSinks
BY DEF LogTypes, Tasks

LEMMA InHandIsSeq ==
  ASSUME LogTypes, NEW i
  PROVE  InHand(i) \in Seq(Nat) /\ StillToCome(i) = InHand(i) \o logQueue /\ StillToCome(i) \in Seq(Nat)
PROOF
  <1>1. InHand(i) \in Seq(Nat)
    BY TaskFacts DEF InHand
  <1>2. StillToCome(i) = InHand(i) \o logQueue
    BY DEF StillToCome, InHand
  <1>3. InHand(i) \o logQueue \in Seq(Nat)
    BY <1>1, ConcatProperties DEF LogTypes
  <1> QED  BY <1>1, <1>2, <1>3

LEMMA SinksAre ==
  /\ LogSinks = 1 .. Len(SinkLevels) /\ Len(SinkLevels) \in Nat
  /\ \A i \in LogSinks : SinkLevels[i] \in Nat
BY LogAssumption DEF LogSinks

LEMMA LogInitially ==
  ASSUME LogInit
  PROVE  LogInv
PROOF
  <1>1. LogTypes
    BY DEF LogInit, LogTypes, Tasks, BetweenRecords
  <1>2. ASSUME NEW i \in LogSinks PROVE offered[i] \o Shown(i, StillToCome(i)) = Shown(i, accepted)
    <2>1. StillToCome(i) = <<>> /\ offered[i] = <<>> /\ accepted = <<>>
      BY DEF LogInit, StillToCome, BetweenRecords
    <2>2. Shown(i, <<>>) = <<>>
      BY ShownOfNothing
    <2>3. offered[i] \o Shown(i, StillToCome(i)) = <<>> \o <<>>
      BY <2>1, <2>2
    <2>4. <<>> \o <<>> = <<>>
      OBVIOUS
    <2> QED  BY <2>1, <2>2, <2>3, <2>4
  <1> QED  BY <1>1, <1>2 DEF LogInit, LogInv, BetweenRecords

LEMMA LogKeeps ==
  ASSUME LogInv, NEW level \in Levels, Log(level)
  PROVE  LogInv'
PROOF
  <1>0. LogTypes /\ level \in Nat
    BY LogAssumption DEF LogInv
  <1>1. task' = task /\ disposal' = disposal /\ addingCompleted' = addingCompleted /\ offered' = offered
    BY DEF Log
  <1>2. CASE logQueue' = logQueue /\ accepted' = accepted
    <2>1. \A i \in LogSinks : StillToCome(i)' = StillToCome(i)
      BY <1>1, <1>2 DEF StillToCome
    <2> QED  BY <1>0, <1>1, <1>2, <2>1 DEF LogInv, LogTypes
  <1>3. CASE ~addingCompleted /\ logQueue' = Append(logQueue, level) /\ accepted' = Append(accepted, level)
    <2>1. LogTypes'
      BY <1>0, <1>1, <1>3 DEF LogTypes
    <2>2. ASSUME NEW i \in LogSinks
          PROVE  offered'[i] \o Shown(i, StillToCome(i)') = Shown(i, accepted')
      <3> DEFINE a == offered[i]
                 b == Shown(i, StillToCome(i))
                 c == Shown(i, accepted)
      <3>1. /\ InHand(i) \in Seq(Nat) /\ StillToCome(i) = InHand(i) \o logQueue
            /\ StillToCome(i) \in Seq(Nat) /\ logQueue \in Seq(Nat) /\ accepted \in Seq(Nat)
            /\ a \in Seq(Nat)
        BY <1>0, InHandIsSeq DEF LogTypes
      <3>2. StillToCome(i)' = InHand(i) \o Append(logQueue, level)
        BY <1>1, <1>3 DEF StillToCome, InHand
      <3>3. StillToCome(i)' = Append(StillToCome(i), level)
        BY <1>0, <3>1, <3>2, AppendBehind
      <3>4. a \o b = c /\ b \in Seq(Nat)
        BY <3>1, ShownIsSeq DEF LogInv
      <3>5. /\ Shown(i, Append(StillToCome(i), level)) = IF level >= SinkLevels[i] THEN Append(b, level) ELSE b
            /\ Shown(i, Append(accepted, level)) = IF level >= SinkLevels[i] THEN Append(c, level) ELSE c
        BY <1>0, <3>1, ShownOfAppend
      <3>6. a \o Append(b, level) = Append(a \o b, level)
        BY <1>0, <3>1, <3>4, AppendBehind
      <3>7. offered'[i] = a
        BY <1>1
      <3> HIDE DEF a, b, c
      <3> QED  BY <1>3, <3>3, <3>4, <3>5, <3>6, <3>7
    <2> QED  BY <1>1, <1>3, <2>1, <2>2 DEF LogInv
  <1> QED  BY <1>2, <1>3 DEF Log

LEMMA TakeKeepsLog ==
  ASSUME LogInv, TakeRecord
  PROVE  LogInv'
PROOF
  <1>0. /\ LogTypes /\ task.at = "taking" /\ disposal' = disposal
        /\ addingCompleted' = addingCompleted /\ offered' = offered /\ accepted' = accepted
    BY DEF LogInv, TakeRecord
  <1>1. \A i \in LogSinks : StillToCome(i) = logQueue
    BY <1>0 DEF StillToCome, LogTypes
  <1>2. CASE logQueue # <<>> /\ task' = After(0, Head(logQueue)) /\ logQueue' = Tail(logQueue)
    <2>1. Head(logQueue) \in Nat /\ Tail(logQueue) \in Seq(Nat) /\ logQueue = <<Head(logQueue)>> \o Tail(logQueue)
      <3> DEFINE t == <<Head(logQueue)>> \o Tail(logQueue)
      <3>1. /\ Head(logQueue) \in Nat /\ Tail(logQueue) \in Seq(Nat) /\ Len(Tail(logQueue)) = Len(logQueue) - 1
            /\ Head(logQueue) = logQueue[1] /\ Len(logQueue) \in Nat
            /\ \A n \in 1 .. Len(logQueue) - 1 : Tail(logQueue)[n] = logQueue[n + 1]
        BY <1>0, <1>2 DEF LogTypes
      <3>2. t \in Seq(Nat) /\ Len(t) = Len(Tail(logQueue)) + 1 /\ t[1] = Head(logQueue)
            /\ \A n \in 2 .. Len(Tail(logQueue)) + 1 : t[n] = Tail(logQueue)[n - 1]
        BY <3>1, PrependIs
      <3> HIDE DEF t
      <3>3. Len(t) = Len(logQueue) /\ \A n \in 1 .. Len(t) : t[n] = logQueue[n]
        <4>1. Len(t) = Len(logQueue)
          BY <3>1, <3>2
        <4>2. ASSUME NEW n \in 1 .. Len(t) PROVE t[n] = logQueue[n]
          <5>1. CASE n = 1
            BY <3>1, <3>2, <5>1
          <5>2. CASE n # 1
            <6>1. n \in 2 .. Len(Tail(logQueue)) + 1 /\ n - 1 \in 1 .. Len(logQueue) - 1 /\ (n - 1) + 1 = n
              BY <3>1, <3>2, <5>2
            <6> QED  BY <3>1, <3>2, <6>1
          <5> QED  BY <5>1, <5>2
        <4> QED  BY <4>1, <4>2
      <3>4. t = logQueue
        BY <1>0, <3>2, <3>3, SeqEqual DEF LogTypes
      <3> QED  BY <3>1, <3>4 DEF t
    <2>2. /\ task' \in Tasks
          /\ task'.at = "taking" \/ (task'.at = "writing" /\ task'.sink = 1 /\ task'.level = Head(logQueue))
          /\ LogSinks # {} => task'.at = "writing"
      <3>1. CASE Len(SinkLevels) = 0
        BY <1>2, <3>1, SinksAre DEF After, BetweenRecords, Tasks
      <3>2. CASE Len(SinkLevels) # 0
        <4>1. 0 < Len(SinkLevels) /\ 1 \in LogSinks
          BY <3>2, SinksAre
        <4>2. task' = Fanning(Head(logQueue), 1)
          BY <1>2, <4>1 DEF After
        <4> QED  BY <2>1, <4>1, <4>2 DEF Fanning, Tasks
      <3> QED  BY <3>1, <3>2
    <2>3. LogTypes'
      BY <1>0, <1>2, <2>1, <2>2 DEF LogTypes
    <2>4. \A i \in LogSinks : StillToCome(i)' = logQueue
      <3> TAKE i \in LogSinks
      <3>1. 1 <= i
        BY SinksAre
      <3> QED  BY <1>2, <2>1, <2>2, <3>1 DEF StillToCome
    <2>5. \A i \in LogSinks : offered'[i] \o Shown(i, StillToCome(i)') = Shown(i, accepted')
      BY <1>0, <1>1, <2>4 DEF LogInv
    <2>6. task'.at # "ended" /\ disposal' # "returned"
      BY <1>0, <2>2 DEF LogInv
    <2> QED  BY <2>3, <2>5, <2>6 DEF LogInv
  <1>3. CASE logQueue = <<>> /\ addingCompleted /\ task' = [at |-> "ended"] /\ logQueue' = logQueue
    <2>1. task' \in Tasks /\ task'.at = "ended"
      BY <1>3 DEF Tasks
    <2>2. \A i \in LogSinks : StillToCome(i)' = logQueue
      BY <1>0, <1>3, <2>1 DEF StillToCome, LogTypes
    <2> QED  BY <1>0, <1>1, <1>3, <2>1, <2>2 DEF LogInv, LogTypes
  <1> QED  BY <1>2, <1>3 DEF TakeRecord

LEMMA WriteKeeps ==
  ASSUME LogInv, WriteToSink
  PROVE  LogInv'
PROOF
  <1> DEFINE j == task.sink
             x == task.level
  <1>0. /\ LogTypes /\ task.at = "writing" /\ disposal' = disposal /\ logQueue' = logQueue
        /\ addingCompleted' = addingCompleted /\ accepted' = accepted
        /\ j \in LogSinks /\ x \in Nat /\ j \in Nat
        /\ offered' = (IF x >= SinkLevels[j] THEN [offered EXCEPT ![j] = Append(@, x)] ELSE offered)
        /\ task' = After(j, x)
    BY TaskFacts, SinksAre DEF LogInv, WriteToSink, Offers
  <1> HIDE DEF j, x
  <1>1. /\ task' \in Tasks /\ task'.at \in {"taking", "writing"}
        /\ task'.at = "writing" => task'.sink = j + 1 /\ task'.level = x
        /\ j < Len(SinkLevels) => task'.at = "writing"
    <2>1. CASE j < Len(SinkLevels)
      <3>1. task' = Fanning(x, j + 1) /\ j + 1 \in LogSinks
        BY <1>0, <2>1, SinksAre DEF After
      <3> QED  BY <1>0, <3>1 DEF Fanning, Tasks
    <2>2. CASE ~(j < Len(SinkLevels))
      BY <1>0, <2>2 DEF After, BetweenRecords, Tasks
    <2> QED  BY <2>1, <2>2
  <1>2. offered' \in [LogSinks -> Seq(Nat)]
    <2>1. Append(offered[j], x) \in Seq(Nat)
      BY <1>0 DEF LogTypes
    <2> QED  BY <1>0, <2>1 DEF LogTypes
  <1>3. LogTypes'
    BY <1>0, <1>1, <1>2 DEF LogTypes
  <1>4. ASSUME NEW i \in LogSinks
        PROVE  offered'[i] \o Shown(i, StillToCome(i)') = Shown(i, accepted')
    <2>0. offered[i] \in Seq(Nat) /\ logQueue \in Seq(Nat) /\ i \in Nat /\ i <= Len(SinkLevels)
      <3>1. offered \in [LogSinks -> Seq(Nat)] /\ logQueue \in Seq(Nat)
        BY <1>0 DEF LogTypes
      <3>2. i \in Nat /\ i <= Len(SinkLevels)
        BY SinksAre
      <3> QED  BY <3>1, <3>2
    <2>1. CASE i = j
      <3>1. StillToCome(i) = <<x>> \o logQueue
        BY <1>0, <2>0, <2>1, SMTT(20) DEF StillToCome, j, x
      <3>2. StillToCome(i)' = <<>> \o logQueue
        <4>1. ~(task'.at = "writing" /\ task'.sink <= i)
          BY <1>0, <1>1, <2>0, <2>1
        <4> QED  BY <1>0, <4>1 DEF StillToCome
      <3>3. <<>> \o logQueue = logQueue
        BY <2>0
      <3> DEFINE a == offered[i]
                 b == Shown(i, logQueue)
                 f == FirstShown(i, x)
      <3>4. Shown(i, <<x>> \o logQueue) = f \o b /\ b \in Seq(Nat)
        BY <1>0, <2>0, ShownOfPrepend, ShownIsSeq
      <3>5. a \o (f \o b) = Shown(i, accepted)
        BY <3>1, <3>4 DEF LogInv
      <3>6. f \in Seq(Nat) /\ offered'[i] = a \o f
        <4>1. CASE x >= SinkLevels[i]
          <5>1. f = <<x>> /\ f \in Seq(Nat)
            BY <1>0, <4>1 DEF FirstShown
          <5>2. offered'[i] = Append(a, x)
            BY <1>0, <2>1, <4>1 DEF LogTypes
          <5> QED  BY <1>0, <2>0, <5>1, <5>2, AppendIsConcat
        <4>2. CASE ~(x >= SinkLevels[i])
          <5>1. f = <<>> /\ offered'[i] = a
            BY <1>0, <2>1, <4>2 DEF FirstShown
          <5>2. a \o <<>> = a
            BY <2>0
          <5> HIDE DEF a, f
          <5>3. <<>> \in Seq(Nat)
            OBVIOUS
          <5> QED  BY <5>1, <5>2, <5>3
        <4> QED  BY <4>1, <4>2
      <3>7. (a \o f) \o b = a \o (f \o b)
        <4>1. a \in Seq(Nat) /\ b \in Seq(Nat) /\ f \in Seq(Nat)
          BY <2>0, <3>4, <3>6
        <4> HIDE DEF a, b, f
        <4> QED  BY <4>1, ConcatAssociative, SMTT(20)
      <3> HIDE DEF a, b, f
      <3>8. Shown(i, StillToCome(i)') = b
        BY <3>2, <3>3 DEF b
      <3> QED  BY <1>0, <3>5, <3>6, <3>7, <3>8
    <2>2. CASE i # j
      <3>1. offered'[i] = offered[i]
        BY <1>0, <2>2 DEF LogTypes
      <3>2. StillToCome(i)' = StillToCome(i)
        <4>1. CASE i < j
          <5>1. ~(j <= i) /\ ~(task'.at = "writing" /\ task'.sink <= i)
            BY <1>0, <1>1, <2>0, <4>1
          <5> QED  BY <1>0, <5>1 DEF StillToCome, j
        <4>2. CASE i > j
          <5>1. j <= i /\ j < Len(SinkLevels) /\ j + 1 <= i
            BY <1>0, <2>0, <4>2, SinksAre
          <5>2. task'.at = "writing" /\ task'.sink <= i /\ task'.level = x
            BY <1>1, <5>1
          <5> QED  BY <1>0, <5>1, <5>2 DEF StillToCome, j, x
        <4> QED  BY <1>0, <2>0, <2>2, <4>1, <4>2
      <3> QED  BY <1>0, <3>1, <3>2 DEF LogInv
    <2> QED  BY <2>1, <2>2
  <1>5. task'.at # "ended" /\ disposal' # "returned"
    BY <1>0, <1>1 DEF LogInv
  <1> QED  BY <1>3, <1>4, <1>5 DEF LogInv

\* Every sink gets the accepted records its threshold lets through, in order,
\* for any sinks, any capacity and any number of records.
THEOREM EverySinkAlwaysGetsTheLog == LogSpec => []EverySinkGetsTheLog
PROOF
  <1>1. LogInit => LogInv
    BY LogInitially
  <1>2. LogInv /\ [LogNext]_logVars => LogInv'
    <2> SUFFICES ASSUME LogInv, [LogNext]_logVars PROVE LogInv'
      OBVIOUS
    <2>1. ASSUME NEW level \in Levels, Log(level) PROVE LogInv'
      BY <2>1, LogKeeps
    <2>2. CASE TakeRecord
      BY <2>2, TakeKeepsLog
    <2>3. CASE WriteToSink
      BY <2>3, WriteKeeps
    <2>4. ASSUME BeginDispose \/ DisposeReturns \/ UNCHANGED logVars PROVE LogInv'
      <3>1. /\ logQueue' = logQueue /\ task' = task /\ offered' = offered /\ accepted' = accepted
            /\ addingCompleted => addingCompleted'
            /\ disposal' \in {"none", "waiting", "returned"}
            /\ disposal' = "returned" => task.at = "ended"
        BY <2>4 DEF BeginDispose, DisposeReturns, logVars, LogInv, LogTypes
      <3>2. \A i \in LogSinks : StillToCome(i)' = StillToCome(i)
        BY <3>1 DEF StillToCome
      <3> QED  BY <3>1, <3>2 DEF LogInv, LogTypes
    <2> QED  BY <2>1, <2>2, <2>3, <2>4 DEF LogNext
  <1>3. LogInv => EverySinkGetsTheLog
    <2> SUFFICES ASSUME LogInv, NEW i \in LogSinks, disposal = "returned"
                 PROVE  offered[i] = Shown(i, accepted)
      BY DEF LogInv, EverySinkGetsTheLog
    <2>1. logQueue = <<>> /\ task.at = "ended" /\ offered[i] \in Seq(Nat)
      BY DEF LogInv, LogTypes
    <2>2. StillToCome(i) = <<>>
      BY <2>1 DEF StillToCome
    <2>3. offered[i] \o <<>> = Shown(i, accepted)
      BY <2>2, ShownOfNothing DEF LogInv
    <2> QED  BY <2>1, <2>3
  <1> QED  BY <1>1, <1>2, <1>3, PTL DEF LogSpec

-----------------------------------------------------------------------------
(* The delivery worker, for any threads, messages, keys and number of        *)
(* attempts: a user is told twice only after a delivery that left it open    *)
(* whether he was.                                                           *)

Places == {"taking", "claiming", "sending", "telling", "catching", "requeueing",
           "failing", "ended", "dead"}

DeliveryTypeOK ==
  /\ mail \in Seq(Messages)
  /\ sentKeys \in SUBSET Keys
  /\ thread \in [Threads -> [at : Places, message : Messages \cup {NoMessage}]]
  /\ \A w \in Threads : thread[w].at \notin {"taking", "ended"} => thread[w].message \in Messages
  /\ sends \in [Keys -> Nat]
  /\ unsure \in [Keys -> Nat]

\* A thread between the Add and the end of its delivery has the key for itself.
Delivers(w) == thread[w].at \in {"sending", "telling", "catching"}

OwnKeys ==
  /\ \A w \in Threads : Delivers(w) => KeyAt(w) \in sentKeys
  /\ \A v, w \in Threads : Delivers(v) /\ Delivers(w) /\ KeyAt(v) = KeyAt(w) => v = w

\* Every send so far is accounted for by an unsure one, unless the key stands
\* for a delivery: one that is done, or one whose observers are being told.
Open(k) == k \notin sentKeys \/ \E w \in Threads : KeyAt(w) = k /\ thread[w].at \in {"sending", "catching"}

Accounted ==
  \A k \in Keys : /\ sends[k] <= 1 + unsure[k]
                  /\ Open(k) => sends[k] <= unsure[k]

DeliveryInv == DeliveryTypeOK /\ OwnKeys /\ Accounted

LEMMA DeliveryStart == DeliveryInit => DeliveryInv
BY DEF DeliveryInit, DeliveryInv, DeliveryTypeOK, OwnKeys, Accounted, Delivers, NextMessage, Places

LEMMA KeyOfAThread ==
  ASSUME DeliveryTypeOK, NEW w \in Threads, thread[w].at \notin {"taking", "ended"}
  PROVE  KeyAt(w) \in Keys
BY DeliveryAssumption DEF DeliveryTypeOK, KeyAt, Msg

-----------------------------------------------------------------------------
(* The steps of a thread.                                                    *)

\* A thread that holds no key and takes none disturbs nobody.
LEMMA OutsideKeeps ==
  ASSUME DeliveryInv, NEW w \in Threads, ~Delivers(w),
         UNCHANGED <<sentKeys, sends, unsure>>,
         thread' = [thread EXCEPT ![w] = thread'[w]],
         thread'[w].at \notin {"sending", "telling", "catching"}
  PROVE  OwnKeys' /\ Accounted'
PROOF
  <1>1. /\ \A v \in Threads : v # w => thread'[v] = thread[v]
        /\ \A v \in Threads : Delivers(v)' <=> Delivers(v)
        /\ \A v \in Threads : Delivers(v) => KeyAt(v)' = KeyAt(v)
    BY DEF DeliveryInv, DeliveryTypeOK, Delivers, KeyAt, Msg
  <1>2. OwnKeys'
    BY <1>1 DEF DeliveryInv, OwnKeys
  <1>3. \A k \in Keys : Open(k)' => Open(k)
    BY <1>1 DEF Open, Delivers
  <1> QED  BY <1>2, <1>3 DEF DeliveryInv, Accounted

LEMMA TakeStep ==
  ASSUME DeliveryInv, NEW w \in Threads, Take(w)
  PROVE  DeliveryInv'
PROOF
  <1>1. /\ ~Delivers(w) /\ thread[w].at = "taking"
        /\ UNCHANGED <<sentKeys, sends, unsure>>
    BY DEF Take, At, Delivers
  <1>2. CASE mail # <<>> /\ thread' = [thread EXCEPT ![w] = [at |-> "claiming", message |-> Head(mail)]]
             /\ mail' = Tail(mail)
    <2>1. Head(mail) \in Messages /\ Tail(mail) \in Seq(Messages)
      BY <1>2, HeadTailProperties DEF DeliveryInv, DeliveryTypeOK
    <2>2. DeliveryTypeOK' /\ thread'[w].at = "claiming" /\ thread' = [thread EXCEPT ![w] = thread'[w]]
      BY <1>1, <1>2, <2>1 DEF DeliveryInv, DeliveryTypeOK, Places
    <2> QED  BY <1>1, <2>2, OutsideKeeps DEF DeliveryInv
  <1>3. CASE Goes(w, "ended") /\ UNCHANGED mail
    <2>1. DeliveryTypeOK' /\ thread'[w].at = "ended" /\ thread' = [thread EXCEPT ![w] = thread'[w]]
      BY <1>1, <1>3 DEF DeliveryInv, DeliveryTypeOK, Places, Goes
    <2> QED  BY <1>1, <2>1, OutsideKeeps DEF DeliveryInv
  <1> QED  BY <1>2, <1>3 DEF Take

\* The key was not there, so nobody has it and no send of it is unaccounted.
LEMMA ClaimKeyStep ==
  ASSUME DeliveryInv, NEW w \in Threads, ClaimKey(w)
  PROVE  DeliveryInv'
PROOF
  <1>1. /\ ~Delivers(w) /\ thread[w].at = "claiming" /\ Msg(w) \in Messages /\ KeyAt(w) \in Keys
        /\ UNCHANGED <<mail, sends, unsure>>
    BY KeyOfAThread DEF ClaimKey, At, Delivers, DeliveryInv, DeliveryTypeOK, Msg
  <1>2. CASE KeyAt(w) \in sentKeys
    <2>1. UNCHANGED sentKeys /\ thread' = [thread EXCEPT ![w] = NextMessage]
      BY <1>2 DEF ClaimKey
    <2>2. DeliveryTypeOK' /\ thread'[w].at = "taking" /\ thread' = [thread EXCEPT ![w] = thread'[w]]
      BY <1>1, <2>1 DEF DeliveryInv, DeliveryTypeOK, Places, NextMessage
    <2> QED  BY <1>1, <2>1, <2>2, OutsideKeeps DEF DeliveryInv
  <1>3. CASE KeyAt(w) \notin sentKeys
    <2>1. /\ sentKeys' = sentKeys \cup {KeyAt(w)}
          /\ thread' = [thread EXCEPT ![w].at = "sending"]
      BY <1>3 DEF ClaimKey, Goes
    <2>2. /\ thread'[w].at = "sending" /\ thread'[w].message = thread[w].message
          /\ \A v \in Threads : v # w => thread'[v] = thread[v]
          /\ \A v \in Threads : KeyAt(v)' = KeyAt(v)
          /\ \A v \in Threads : Delivers(v)' <=> (v = w \/ Delivers(v))
      BY <2>1 DEF DeliveryInv, DeliveryTypeOK, KeyAt, Msg, Delivers
    <2>3. DeliveryTypeOK'
      BY <1>1, <2>1, <2>2 DEF DeliveryInv, DeliveryTypeOK, Places, Msg
    <2>4. OwnKeys'
      BY <1>3, <2>1, <2>2 DEF DeliveryInv, OwnKeys
    <2>5. \A k \in Keys : Open(k)' => Open(k)
      BY <1>3, <2>1, <2>2 DEF Open
    <2> QED  BY <1>1, <2>3, <2>4, <2>5 DEF DeliveryInv, Accounted
  <1> QED  BY <1>2, <1>3

\* What a thread that has its key does to the counters of that key.
LEMMA DeliveringKeeps ==
  ASSUME DeliveryInv, NEW w \in Threads, Delivers(w), NEW place \in {"telling", "catching"},
         UNCHANGED <<mail, sentKeys>>,
         thread' = [thread EXCEPT ![w].at = place],
         NEW s \in Nat, NEW n \in Nat,
         sends' = [sends EXCEPT ![KeyAt(w)] = s],
         unsure' = [unsure EXCEPT ![KeyAt(w)] = n],
         s <= 1 + n, place = "catching" => s <= n
  PROVE  DeliveryInv'
PROOF
  <1>1. /\ KeyAt(w) \in Keys /\ thread'[w].at = place /\ thread'[w].message = thread[w].message
        /\ \A v \in Threads : v # w => thread'[v] = thread[v]
        /\ \A v \in Threads : KeyAt(v)' = KeyAt(v)
        /\ \A v \in Threads : Delivers(v)' <=> Delivers(v)
    BY KeyOfAThread DEF DeliveryInv, DeliveryTypeOK, KeyAt, Msg, Delivers
  <1>2. DeliveryTypeOK'
    BY <1>1 DEF DeliveryInv, DeliveryTypeOK, Places, Delivers
  <1>3. OwnKeys'
    BY <1>1 DEF DeliveryInv, OwnKeys
  <1>4. \A k \in Keys : k # KeyAt(w) => (Open(k)' => Open(k)) /\ sends'[k] = sends[k] /\ unsure'[k] = unsure[k]
    BY <1>1 DEF Open, DeliveryInv, DeliveryTypeOK
  <1>5. \A k \in Keys : k = KeyAt(w) /\ Open(k)' => place = "catching"
    <2> SUFFICES ASSUME NEW k \in Keys, k = KeyAt(w), Open(k)', place # "catching" PROVE FALSE
      OBVIOUS
    <2>1. k \in sentKeys'
      BY DEF DeliveryInv, OwnKeys
    <2>2. PICK v \in Threads : KeyAt(v)' = k /\ thread'[v].at \in {"sending", "catching"}
      BY <2>1 DEF Open
    <2>3. v # w
      BY <1>1, <2>2
    <2>4. Delivers(v) /\ KeyAt(v) = KeyAt(w)
      BY <1>1, <2>2, <2>3 DEF Delivers
    <2> QED  BY <2>3, <2>4 DEF DeliveryInv, OwnKeys
  <1>6. sends'[KeyAt(w)] = s /\ unsure'[KeyAt(w)] = n
    BY <1>1 DEF DeliveryInv, DeliveryTypeOK
  <1>7. Accounted'
    <2> SUFFICES ASSUME NEW k \in Keys
                 PROVE  sends'[k] <= 1 + unsure'[k] /\ (Open(k)' => sends'[k] <= unsure'[k])
      BY DEF Accounted
    <2>1. CASE k = KeyAt(w)
      BY <1>5, <1>6, <2>1
    <2>2. CASE k # KeyAt(w)
      BY <1>4, <2>2 DEF DeliveryInv, Accounted
    <2> QED  BY <2>1, <2>2
  <1> QED  BY <1>2, <1>3, <1>7 DEF DeliveryInv

\* A thread that sends, or that catches, has no send of its key unaccounted.
LEMMA NothingOpenWhileSending ==
  ASSUME DeliveryInv, NEW w \in Threads, thread[w].at \in {"sending", "catching"}
  PROVE  /\ KeyAt(w) \in Keys /\ sends[KeyAt(w)] \in Nat /\ unsure[KeyAt(w)] \in Nat
         /\ sends[KeyAt(w)] <= unsure[KeyAt(w)]
BY KeyOfAThread DEF DeliveryInv, DeliveryTypeOK, Accounted, Open

LEMMA SendStep ==
  ASSUME DeliveryInv, NEW w \in Threads, Send(w)
  PROVE  DeliveryInv'
PROOF
  <1> DEFINE k == KeyAt(w)
  <1>1. /\ thread[w].at = "sending" /\ Delivers(w) /\ UNCHANGED <<mail, sentKeys>>
        /\ k \in Keys /\ sends[k] \in Nat /\ unsure[k] \in Nat /\ sends[k] <= unsure[k]
    BY NothingOpenWhileSending DEF Send, At, Delivers
  <1>2. PICK reached \in BOOLEAN, returns \in BOOLEAN :
          /\ returns => reached
          /\ sends' = IF reached THEN [sends EXCEPT ![k] = @ + 1] ELSE sends
          /\ unsure' = IF reached /\ ~returns THEN [unsure EXCEPT ![k] = @ + 1] ELSE unsure
          /\ thread' = [thread EXCEPT ![w].at = IF returns THEN "telling" ELSE "catching"]
    BY DEF Send, Goes
  <1> HIDE DEF k
  <1>3. CASE returns
    <2>1. /\ sends' = [sends EXCEPT ![k] = sends[k] + 1]
          /\ unsure' = [unsure EXCEPT ![k] = unsure[k]]
          /\ thread' = [thread EXCEPT ![w].at = "telling"]
      BY <1>1, <1>2, <1>3 DEF DeliveryInv, DeliveryTypeOK
    <2>2. sends[k] + 1 \in Nat /\ sends[k] + 1 <= 1 + unsure[k]
      BY <1>1
    <2> QED  BY <1>1, <2>1, <2>2, DeliveringKeeps DEF k
  <1>4. CASE ~returns /\ reached
    <2>1. /\ sends' = [sends EXCEPT ![k] = sends[k] + 1]
          /\ unsure' = [unsure EXCEPT ![k] = unsure[k] + 1]
          /\ thread' = [thread EXCEPT ![w].at = "catching"]
      BY <1>2, <1>4
    <2>2. /\ sends[k] + 1 \in Nat /\ unsure[k] + 1 \in Nat
          /\ sends[k] + 1 <= 1 + (unsure[k] + 1) /\ sends[k] + 1 <= unsure[k] + 1
      BY <1>1
    <2> QED  BY <1>1, <2>1, <2>2, DeliveringKeeps DEF k
  <1>5. CASE ~returns /\ ~reached
    <2>1. /\ sends' = [sends EXCEPT ![k] = sends[k]]
          /\ unsure' = [unsure EXCEPT ![k] = unsure[k]]
          /\ thread' = [thread EXCEPT ![w].at = "catching"]
      BY <1>1, <1>2, <1>5 DEF DeliveryInv, DeliveryTypeOK
    <2>2. sends[k] <= 1 + unsure[k]
      BY <1>1
    <2> QED  BY <1>1, <2>1, <2>2, DeliveringKeeps DEF k
  <1> QED  BY <1>3, <1>4, <1>5

\* The observers were told, and the key stays: it stands for this delivery.
LEMMA TellDeliveredStep ==
  ASSUME DeliveryInv, NEW w \in Threads, TellDelivered(w)
  PROVE  DeliveryInv'
PROOF
  <1>1. /\ thread[w].at = "telling" /\ Delivers(w) /\ KeyAt(w) \in Keys
        /\ UNCHANGED <<mail, sentKeys, sends>>
        /\ sends[KeyAt(w)] \in Nat /\ unsure[KeyAt(w)] \in Nat
        /\ sends[KeyAt(w)] <= 1 + unsure[KeyAt(w)]
    BY KeyOfAThread DEF TellDelivered, At, Delivers, DeliveryInv, DeliveryTypeOK, Accounted
  <1>2. CASE UNCHANGED unsure /\ thread' = [thread EXCEPT ![w] = NextMessage]
    <2>1. /\ thread'[w] = NextMessage
          /\ \A v \in Threads : v # w => thread'[v] = thread[v]
          /\ \A v \in Threads : Delivers(v)' <=> (v # w /\ Delivers(v))
          /\ \A v \in Threads : v # w => KeyAt(v)' = KeyAt(v)
      BY <1>2 DEF DeliveryInv, DeliveryTypeOK, Delivers, KeyAt, Msg, NextMessage
    <2>2. DeliveryTypeOK'
      BY <1>1, <1>2, <2>1 DEF DeliveryInv, DeliveryTypeOK, Places, NextMessage
    <2>3. OwnKeys'
      BY <1>1, <2>1 DEF DeliveryInv, OwnKeys
    <2>4. \A k \in Keys : Open(k)' => Open(k)
      BY <1>1, <2>1 DEF Open, NextMessage
    <2> QED  BY <1>1, <1>2, <2>2, <2>3, <2>4 DEF DeliveryInv, Accounted
  <1>3. CASE unsure' = [unsure EXCEPT ![KeyAt(w)] = @ + 1] /\ Goes(w, "catching")
    <2>1. /\ sends' = [sends EXCEPT ![KeyAt(w)] = sends[KeyAt(w)]]
          /\ unsure' = [unsure EXCEPT ![KeyAt(w)] = unsure[KeyAt(w)] + 1]
          /\ thread' = [thread EXCEPT ![w].at = "catching"]
      BY <1>1, <1>3 DEF Goes, DeliveryInv, DeliveryTypeOK
    <2>2. /\ unsure[KeyAt(w)] + 1 \in Nat
          /\ sends[KeyAt(w)] <= unsure[KeyAt(w)] + 1
          /\ sends[KeyAt(w)] <= 1 + (unsure[KeyAt(w)] + 1)
      BY <1>1
    <2> QED  BY <1>1, <2>1, <2>2, DeliveringKeeps
  <1> QED  BY <1>2, <1>3 DEF TellDelivered

\* The key is given back, and with it the right to send.
LEMMA CatchStep ==
  ASSUME DeliveryInv, NEW w \in Threads, Catch(w)
  PROVE  DeliveryInv'
PROOF
  <1>1. /\ thread[w].at = "catching" /\ Delivers(w) /\ KeyAt(w) \in Keys
        /\ UNCHANGED <<mail, sends, unsure>>
        /\ sentKeys' = sentKeys \ {KeyAt(w)}
        /\ sends[KeyAt(w)] <= unsure[KeyAt(w)]
    BY NothingOpenWhileSending DEF Catch, At, Delivers
  <1>2. PICK place \in {"requeueing", "failing"} : thread' = [thread EXCEPT ![w].at = place]
    BY DEF Catch, Goes
  <1>3. /\ thread'[w].at = place /\ thread'[w].message = thread[w].message
        /\ \A v \in Threads : v # w => thread'[v] = thread[v]
        /\ \A v \in Threads : KeyAt(v)' = KeyAt(v)
        /\ \A v \in Threads : Delivers(v)' <=> (v # w /\ Delivers(v))
    BY <1>2 DEF DeliveryInv, DeliveryTypeOK, KeyAt, Msg, Delivers
  <1>4. DeliveryTypeOK'
    BY <1>1, <1>2, <1>3 DEF DeliveryInv, DeliveryTypeOK, Places
  <1>5. OwnKeys'
    BY <1>1, <1>3 DEF DeliveryInv, OwnKeys
  <1>6. \A k \in Keys : k # KeyAt(w) => (Open(k)' => Open(k))
    BY <1>1, <1>3 DEF Open
  <1>7. Accounted'
    BY <1>1, <1>6 DEF DeliveryInv, Accounted
  <1> QED  BY <1>4, <1>5, <1>7 DEF DeliveryInv

LEMMA AfterwardsStep ==
  ASSUME DeliveryInv, NEW w \in Threads, PutBack(w) \/ TellFailed(w)
  PROVE  DeliveryInv'
PROOF
  <1>1. /\ ~Delivers(w) /\ thread[w].at \in {"requeueing", "failing"} /\ Msg(w) \in Messages
        /\ UNCHANGED <<sentKeys, sends, unsure>>
        /\ mail' = mail \/ mail' = Append(mail, Msg(w))
        /\ \/ thread' = [thread EXCEPT ![w] = NextMessage]
           \/ thread' = [thread EXCEPT ![w].at = "dead"]
    BY DEF PutBack, TellFailed, At, Goes, Delivers, DeliveryInv, DeliveryTypeOK, Msg
  <1>2. mail' \in Seq(Messages)
    <2>1. mail \in Seq(Messages)
      BY DEF DeliveryInv, DeliveryTypeOK
    <2>2. Append(mail, Msg(w)) \in Seq(Messages)
      BY <1>1, <2>1, AppendProperties
    <2> QED  BY <1>1, <2>1, <2>2
  <1>3. /\ thread' \in [Threads -> [at : Places, message : Messages \cup {NoMessage}]]
        /\ thread' = [thread EXCEPT ![w] = thread'[w]]
        /\ thread'[w].at \in {"taking", "dead"}
        /\ \A v \in Threads : thread'[v].at \notin {"taking", "ended"} => thread'[v].message \in Messages
    <2>1. CASE thread' = [thread EXCEPT ![w] = NextMessage]
      BY <2>1 DEF DeliveryInv, DeliveryTypeOK, Places, NextMessage
    <2>2. CASE thread' = [thread EXCEPT ![w].at = "dead"]
      BY <1>1, <2>2 DEF DeliveryInv, DeliveryTypeOK, Places, Msg
    <2> QED  BY <1>1, <2>1, <2>2
  <1>4. DeliveryTypeOK'
    BY <1>1, <1>2, <1>3 DEF DeliveryInv, DeliveryTypeOK
  <1> QED  BY <1>1, <1>3, <1>4, OutsideKeeps DEF DeliveryInv

-----------------------------------------------------------------------------
LEMMA DeliveryStep == DeliveryInv /\ [DeliveryNext]_deliveryVars => DeliveryInv'
PROOF
  <1> SUFFICES ASSUME DeliveryInv, [DeliveryNext]_deliveryVars PROVE DeliveryInv'
    OBVIOUS
  <1>1. ASSUME UNCHANGED <<sentKeys, thread, sends, unsure>>, mail' \in Seq(Messages)
        PROVE  DeliveryInv'
    BY <1>1 DEF DeliveryInv, DeliveryTypeOK, OwnKeys, Accounted, Open, Delivers, KeyAt, Msg
  <1>2. CASE UNCHANGED deliveryVars
    BY <1>1, <1>2 DEF deliveryVars, DeliveryInv, DeliveryTypeOK
  <1>3. ASSUME NEW m \in Messages, Publish(m) PROVE DeliveryInv'
    BY <1>1, <1>3, AppendProperties DEF Publish, DeliveryInv, DeliveryTypeOK
  <1>4. CASE CompleteAdding
    BY <1>1, <1>4 DEF CompleteAdding, DeliveryInv, DeliveryTypeOK
  <1>5. ASSUME NEW w \in Threads, Run(w) PROVE DeliveryInv'
    BY <1>5, TakeStep, ClaimKeyStep, SendStep, TellDeliveredStep, CatchStep, AfterwardsStep DEF Run
  <1> QED  BY <1>2, <1>3, <1>4, <1>5 DEF DeliveryNext

\* The inductive invariant holds in every reachable state.
THEOREM DeliveryInvariant == DeliverySpec => []DeliveryInv
BY DeliveryStart, DeliveryStep, PTL DEF DeliverySpec

\* One notification per key, and one more for each delivery that ended in an
\* exception after the user had it, for any number of threads that share the
\* queue and the set of keys.
THEOREM DeliverySentTwiceOnlyIfUnsure == DeliverySpec => []SentTwiceOnlyIfUnsure
PROOF
  <1>1. DeliveryInv => SentTwiceOnlyIfUnsure
    BY DEF DeliveryInv, Accounted, SentTwiceOnlyIfUnsure
  <1> QED  BY <1>1, DeliveryInvariant, PTL


-----------------------------------------------------------------------------
(* The LRU cache.                                                             *)

\* Links between the nodes, and a walk of n nodes along them, none met twice.
Links == [prev : [Nodes -> Nodes \cup {Null}], next : [Nodes -> Nodes \cup {Null}]]

Walk(p, n) ==
  /\ \A i \in 1 .. n : p[i] \in Nodes
  /\ \A i, j \in 1 .. n : p[i] = p[j] => i = j

Linked(l, p, n) ==
  \A i \in 1 .. n - 1 : l.next[p[i]] = p[i + 1] /\ l.prev[p[i + 1]] = p[i]

\* The walk without its m-th node, and with k behind its first.
Without(p, n, m) == [i \in 1 .. n - 1 |-> IF i < m THEN p[i] ELSE p[i + 1]]
WithSecond(p, n, k) == [i \in 1 .. n + 1 |-> IF i = 1 THEN p[1] ELSE IF i = 2 THEN k ELSE p[i - 1]]

\* Unlink takes a node that has neighbours out of the walk.
LEMMA UnlinkTakesOut ==
  ASSUME NEW l \in Links, NEW n \in Nat, NEW p, Walk(p, n), Linked(l, p, n),
         NEW m \in 2 .. n - 1
  PROVE  /\ Unlink(l, p[m]) \in Links
         /\ Walk(Without(p, n, m), n - 1)
         /\ Linked(Unlink(l, p[m]), Without(p, n, m), n - 1)
PROOF
  <1> DEFINE q == Without(p, n, m)
             u == Unlink(l, p[m])
  <1>1. /\ m \in Nat /\ m - 1 \in 1 .. n /\ m \in 1 .. n /\ m + 1 \in 1 .. n
        /\ m - 1 \in 1 .. n - 1 /\ m \in 1 .. n - 1
    OBVIOUS
  <1>2. p[m - 1] \in Nodes /\ p[m] \in Nodes /\ p[m + 1] \in Nodes
    BY <1>1 DEF Walk
  <1>3. l.prev[p[m]] = p[m - 1] /\ l.next[p[m]] = p[m + 1]
    <2>1. l.next[p[m - 1]] = p[(m - 1) + 1] /\ l.prev[p[(m - 1) + 1]] = p[m - 1]
      BY <1>1 DEF Linked
    <2>2. (m - 1) + 1 = m
      BY <1>1
    <2> QED  BY <1>1, <2>1, <2>2 DEF Linked
  <1>4. /\ l.next \in [Nodes -> Nodes \cup {Null}] /\ l.prev \in [Nodes -> Nodes \cup {Null}]
        /\ u.next = [l.next EXCEPT ![p[m - 1]] = p[m + 1]]
        /\ u.prev = [l.prev EXCEPT ![p[m + 1]] = p[m - 1]]
        /\ u = [next |-> u.next, prev |-> u.prev]
    BY <1>3 DEF Unlink, Links
  <1>5. u \in Links
    BY <1>2, <1>4 DEF Links
  <1>6. \A i \in 1 .. n - 1 :
          /\ q[i] = IF i < m THEN p[i] ELSE p[i + 1]
          /\ i < m => i \in 1 .. n
          /\ ~(i < m) => i + 1 \in 1 .. n
    BY DEF Without
  <1> HIDE DEF q, u
  <1>7. Walk(q, n - 1)
    BY <1>1, <1>6 DEF Walk
  <1>8. ASSUME NEW i \in 1 .. (n - 1) - 1
        PROVE  u.next[q[i]] = q[i + 1] /\ u.prev[q[i + 1]] = q[i]
    <2>0. i \in 1 .. n - 1 /\ i + 1 \in 1 .. n - 1 /\ i + 2 \in 1 .. n /\ i \in 1 .. n /\ i + 1 \in 1 .. n
          /\ (i + 1) + 1 = i + 2
      OBVIOUS
    <2>1. CASE i + 1 < m
      <3>1. q[i] = p[i] /\ q[i + 1] = p[i + 1] /\ p[i] # p[m - 1] /\ p[i + 1] # p[m + 1]
        BY <1>1, <1>6, <2>0, <2>1 DEF Walk
      <3>2. p[i] \in Nodes /\ p[i + 1] \in Nodes /\ l.next[p[i]] = p[i + 1] /\ l.prev[p[i + 1]] = p[i]
        BY <2>0 DEF Walk, Linked
      <3> QED  BY <1>4, <3>1, <3>2
    <2>2. CASE i + 1 = m
      <3>1. q[i] = p[m - 1] /\ q[i + 1] = p[m + 1]
        <4>1. i = m - 1 /\ i < m /\ ~(i + 1 < m) /\ (i + 1) + 1 = m + 1
          BY <1>1, <2>2
        <4> QED  BY <1>6, <2>0, <4>1
      <3> QED  BY <1>2, <1>4, <3>1
    <2>3. CASE i + 1 > m
      <3>1. q[i] = p[i + 1] /\ q[i + 1] = p[i + 2] /\ p[i + 1] # p[m - 1] /\ p[i + 2] # p[m + 1]
        <4>1. ~(i < m) /\ ~(i + 1 < m) /\ i + 1 # m - 1 /\ i + 2 # m + 1
          BY <1>1, <2>3
        <4> QED  BY <1>1, <1>6, <2>0, <4>1 DEF Walk
      <3>2. p[i + 1] \in Nodes /\ p[i + 2] \in Nodes /\ l.next[p[i + 1]] = p[i + 2] /\ l.prev[p[i + 2]] = p[i + 1]
        BY <2>0 DEF Walk, Linked
      <3> QED  BY <1>4, <3>1, <3>2
    <2> QED  BY <1>1, <2>1, <2>2, <2>3
  <1> QED  BY <1>5, <1>7, <1>8 DEF Linked, q, u

\* AddFirst puts a node that is not there behind the first of the walk.
LEMMA AddFirstPutsIn ==
  ASSUME NEW l \in Links, NEW n \in Nat, NEW p, Walk(p, n), Linked(l, p, n), n >= 2,
         p[1] = HeadNode, NEW k \in Nodes, \A i \in 1 .. n : p[i] # k
  PROVE  /\ AddFirst(l, k) \in Links
         /\ Walk(WithSecond(p, n, k), n + 1)
         /\ Linked(AddFirst(l, k), WithSecond(p, n, k), n + 1)
PROOF
  <1> DEFINE q == WithSecond(p, n, k)
             a == AddFirst(l, k)
  <1>1. 1 \in 1 .. n /\ 2 \in 1 .. n /\ 1 \in 1 .. n - 1 /\ 1 + 1 = 2
    OBVIOUS
  <1>2. p[2] \in Nodes /\ HeadNode \in Nodes /\ HeadNode # k /\ p[2] # k /\ p[2] # HeadNode
    BY <1>1 DEF Walk
  <1>3. l.next[HeadNode] = p[2] /\ l.prev[p[2]] = HeadNode
    BY <1>1 DEF Linked
  <1>4. /\ l.next \in [Nodes -> Nodes \cup {Null}] /\ l.prev \in [Nodes -> Nodes \cup {Null}]
        /\ a.next = [l.next EXCEPT ![k] = p[2], ![HeadNode] = k]
        /\ a.prev = [l.prev EXCEPT ![k] = HeadNode, ![p[2]] = k]
        /\ a = [next |-> a.next, prev |-> a.prev]
    BY <1>3 DEF AddFirst, Links
  <1>5. a \in Links
    BY <1>2, <1>4 DEF Links
  <1>6. /\ q[1] = HeadNode /\ q[2] = k
        /\ \A i \in 3 .. n + 1 : q[i] = p[i - 1] /\ i - 1 \in 2 .. n
        /\ q[3] = p[2]
    BY DEF WithSecond
  <1>7. Walk(q, n + 1)
    <2>1. \A i \in 1 .. n + 1 : i = 1 \/ i = 2 \/ i \in 3 .. n + 1
      OBVIOUS
    <2>2. \A i \in 3 .. n + 1 : q[i] \in Nodes /\ q[i] # k /\ q[i] # HeadNode
      BY <1>1, <1>6 DEF Walk
    <2>3. \A i, j \in 3 .. n + 1 : q[i] = q[j] => i = j
      BY <1>6 DEF Walk
    <2> HIDE DEF q
    <2> QED  BY <1>2, <1>6, <2>1, <2>2, <2>3 DEF Walk
  <1> HIDE DEF q, a
  <1>8. ASSUME NEW i \in 1 .. (n + 1) - 1
        PROVE  a.next[q[i]] = q[i + 1] /\ a.prev[q[i + 1]] = q[i]
    <2>1. CASE i = 1
      BY <1>2, <1>4, <1>6, <2>1
    <2>2. CASE i = 2
      BY <1>2, <1>4, <1>6, <2>2
    <2>3. CASE i >= 3
      <3>1. i \in 3 .. n + 1 /\ i + 1 \in 3 .. n + 1 /\ (i + 1) - 1 = i /\ i - 1 \in 1 .. n - 1
            /\ i - 1 \in 1 .. n /\ i \in 1 .. n /\ (i - 1) + 1 = i
        BY <2>3
      <3>2. q[i] = p[i - 1] /\ q[i + 1] = p[i]
        BY <1>6, <3>1
      <3>3. p[i - 1] # HeadNode /\ p[i - 1] # k /\ p[i] # k /\ p[i] # p[2]
        BY <1>1, <2>3, <3>1 DEF Walk
      <3>4. p[i - 1] \in Nodes /\ p[i] \in Nodes /\ l.next[p[i - 1]] = p[i] /\ l.prev[p[i]] = p[i - 1]
        BY <3>1 DEF Walk, Linked
      <3> QED  BY <1>4, <3>2, <3>3, <3>4
    <2> QED  BY <2>1, <2>2, <2>3
  <1> QED  BY <1>5, <1>7, <1>8 DEF Linked, q, a

\* How many keys the cache holds after the uses r, and its list then.
Held(r) == IF Len(r) < Capacity THEN Len(r) ELSE Capacity
ListOf(r, n) == [i \in 1 .. n + 2 |-> IF i = 1 THEN HeadNode ELSE IF i = n + 2 THEN TailNode ELSE r[i - 1]]

Recency(r) == r \in Seq(CacheKeys) /\ Distinct(r)

LruInv ==
  /\ Recency(recent)
  /\ links \in Links
  /\ cached = {recent[i] : i \in 1 .. Held(recent)}
  /\ Linked(links, ListOf(recent, Held(recent)), Held(recent) + 2)

LEMMA HeldIs ==
  ASSUME NEW r, Recency(r)
  PROVE  Held(r) \in Nat /\ Held(r) <= Len(r) /\ Held(r) <= Capacity /\ Len(r) \in Nat
         /\ (Held(r) < Capacity => Held(r) = Len(r)) /\ Capacity \in Nat \ {0}
BY CacheAssumption DEF Recency, Distinct, Held

\* The sentinels are no keys, so the list meets no node twice.
LEMMA ListIsWalk ==
  ASSUME NEW r, Recency(r), NEW n \in Nat, n <= Len(r)
  PROVE  Walk(ListOf(r, n), n + 2)
PROOF
  <1> DEFINE p == ListOf(r, n)
  <1>1. \A i \in 1 .. n : r[i] \in CacheKeys /\ i \in 1 .. Len(r)
    BY DEF Recency, Distinct
  <1>2. \A i \in 2 .. n + 1 : p[i] = r[i - 1] /\ i - 1 \in 1 .. n
    BY DEF ListOf
  <1>3. p[1] = HeadNode /\ p[n + 2] = TailNode
    BY DEF ListOf
  <1>4. \A i \in 1 .. n + 2 : i = 1 \/ i = n + 2 \/ i \in 2 .. n + 1
    OBVIOUS
  <1>5. \A i \in 2 .. n + 1 : p[i] \in CacheKeys
    BY <1>1, <1>2
  <1>6. \A i, j \in 2 .. n + 1 : p[i] = p[j] => i = j
    <2> SUFFICES ASSUME NEW i \in 2 .. n + 1, NEW j \in 2 .. n + 1, p[i] = p[j] PROVE i = j
      OBVIOUS
    <2>1. r[i - 1] = r[j - 1] /\ i - 1 \in 1 .. Len(r) /\ j - 1 \in 1 .. Len(r)
      BY <1>1, <1>2
    <2>2. i - 1 = j - 1
      BY <2>1 DEF Recency, Distinct
    <2> QED  BY <2>2
  <1> HIDE DEF p
  <1>7. HeadNode \notin CacheKeys /\ TailNode \notin CacheKeys /\ HeadNode # TailNode
    BY CacheAssumption
  <1> QED  BY <1>3, <1>4, <1>5, <1>6, <1>7 DEF Walk, Nodes, p

\* What Used does to the history.
LEMMA UsedIs ==
  ASSUME NEW s, Recency(s), NEW k \in CacheKeys
  PROVE  Recency(<<k>> \o RemoveFirst(s, k)) /\ ComesFrom(<<k>> \o RemoveFirst(s, k), s, k)
BY FrontedIs DEF Recency, Distinct

\* A use of a key that is cached: its node goes to the front.
LEMMA HitKeeps ==
  ASSUME LruInv, NEW k \in cached, links' = MoveToFront(links, k), Used(k), cached' = cached
  PROVE  LruInv'
PROOF
  <1> DEFINE s == recent
             t == <<k>> \o RemoveFirst(recent, k)
             n == Held(recent)
             p == ListOf(recent, n)
  <1>1. /\ Recency(s) /\ n \in Nat /\ n <= Len(s) /\ Len(s) \in Nat /\ s \in Seq(CacheKeys)
        /\ links \in Links /\ Linked(links, p, n + 2) /\ Walk(p, n + 2)
    BY HeldIs, ListIsWalk DEF LruInv, Recency
  <1>2. PICK h \in 1 .. n : s[h] = k
    BY DEF LruInv
  <1>3. k \in CacheKeys
    BY <1>1, <1>2
  <1>4. Recency(t) /\ ComesFrom(t, s, k)
    BY <1>1, <1>3, UsedIs
  <1>5. recent' = t
    BY DEF Used
  <1> HIDE DEF s, t, n, p
  <1>6. PICK j \in 1 .. Len(s) :
          /\ s[j] = k /\ Len(t) = Len(s)
          /\ \A i \in 1 .. Len(s) : t[i] = IF i = 1 THEN k ELSE IF i <= j THEN s[i - 1] ELSE s[i]
    BY <1>1, <1>2, <1>4 DEF ComesFrom
  <1>7. j = h /\ j \in 1 .. n
    <2>1. h \in 1 .. Len(s)
      BY <1>1, <1>2
    <2> QED  BY <1>1, <1>2, <1>6, <2>1 DEF Recency, Distinct
  <1>8. Held(t) = n
    BY <1>6 DEF Held, n, s
  <1>9. /\ p[1] = HeadNode /\ p[n + 2] = TailNode /\ p[j + 1] = k
        /\ \A i \in 2 .. n + 1 : p[i] = s[i - 1]
        /\ j + 1 \in 2 .. (n + 2) - 1
    BY <1>1, <1>6, <1>7 DEF p, ListOf, s
  <1> DEFINE q == Without(p, n + 2, j + 1)
             u == Unlink(links, k)
             v == WithSecond(q, n + 1, k)
  <1>10. u \in Links /\ Walk(q, n + 1) /\ Linked(u, q, n + 1)
    <2>1. n + 2 \in Nat /\ (n + 2) - 1 = n + 1
      BY <1>1
    <2> HIDE DEF q, u
    <2>2. /\ Unlink(links, p[j + 1]) \in Links
          /\ Walk(Without(p, n + 2, j + 1), (n + 2) - 1)
          /\ Linked(Unlink(links, p[j + 1]), Without(p, n + 2, j + 1), (n + 2) - 1)
      BY <1>1, <1>9, <2>1, UnlinkTakesOut
    <2> QED  BY <1>9, <2>1, <2>2 DEF q, u
  <1>11. /\ q[1] = HeadNode
         /\ \A i \in 1 .. n + 1 : q[i] = (IF i < j + 1 THEN p[i] ELSE p[i + 1]) /\ q[i] # k
    <2>1. \A i \in 1 .. n + 1 : q[i] = IF i < j + 1 THEN p[i] ELSE p[i + 1]
      BY <1>1 DEF Without
    <2>2. \A i \in 1 .. n + 2 : p[i] = k => i = j + 1
      <3>1. j + 1 \in 1 .. n + 2
        BY <1>1, <1>9
      <3> QED  BY <1>1, <1>9, <3>1 DEF Walk
    <2>3. 1 \in 1 .. n + 1 /\ 1 < j + 1
      BY <1>1, <1>7
    <2> HIDE DEF q
    <2>4. ASSUME NEW i \in 1 .. n + 1 PROVE q[i] # k
      <3>1. CASE i < j + 1
        <4>1. i \in 1 .. n + 2 /\ i # j + 1
          BY <1>1, <1>7, <3>1
        <4> QED  BY <2>1, <2>2, <3>1, <4>1
      <3>2. CASE ~(i < j + 1)
        <4>1. i + 1 \in 1 .. n + 2 /\ i + 1 # j + 1
          BY <1>1, <1>7, <3>2
        <4> QED  BY <2>1, <2>2, <3>2, <4>1
      <3> QED  BY <3>1, <3>2
    <2> QED  BY <1>9, <2>1, <2>3, <2>4
  <1> HIDE DEF q, u
  <1>12. /\ AddFirst(u, k) \in Links
         /\ Linked(AddFirst(u, k), v, n + 2)
    <2>1. n + 1 \in Nat /\ n + 1 >= 2 /\ (n + 1) + 1 = n + 2 /\ k \in Nodes
      BY <1>1, <1>3, <1>7 DEF Nodes
    <2> HIDE DEF v
    <2>2. /\ AddFirst(u, k) \in Links
          /\ Linked(AddFirst(u, k), WithSecond(q, n + 1, k), (n + 1) + 1)
      BY <1>10, <1>11, <2>1, AddFirstPutsIn
    <2> QED  BY <2>1, <2>2 DEF v
  <1>13. v = ListOf(t, n)
    <2>1. ASSUME NEW i \in 1 .. n + 2
          PROVE  v[i] = IF i = 1 THEN HeadNode ELSE IF i = n + 2 THEN TailNode ELSE t[i - 1]
      <3>0. v[i] = IF i = 1 THEN q[1] ELSE IF i = 2 THEN k ELSE q[i - 1]
        BY <1>1 DEF WithSecond
      <3> HIDE DEF v
      <3>1. CASE i = 1
        BY <1>11, <3>0, <3>1
      <3>2. CASE i = 2
        <4>1. i # n + 2 /\ i - 1 = 1 /\ 1 \in 1 .. Len(s)
          BY <1>1, <1>7, <3>2
        <4> QED  BY <1>6, <3>0, <3>2, <4>1
      <3>3. CASE i > 2 /\ i = n + 2
        <4>1. i - 1 \in 1 .. n + 1 /\ ~(i - 1 < j + 1) /\ (i - 1) + 1 = n + 2
          BY <1>1, <1>7, <3>3
        <4> QED  BY <1>9, <1>11, <3>0, <3>3, <4>1
      <3>4. CASE i > 2 /\ i # n + 2
        <4>1. i - 1 \in 1 .. n + 1 /\ i - 1 \in 1 .. Len(s) /\ i - 1 # 1
              /\ i - 1 \in 2 .. n + 1 /\ (i - 1) + 1 = i /\ i \in 2 .. n + 1 /\ (i - 1) - 1 = i - 2
              /\ (i - 1 < j + 1 <=> i - 1 <= j)
          BY <1>1, <1>7, <3>4
        <4>2. v[i] = q[i - 1]
          BY <3>0, <3>4
        <4>3. q[i - 1] = IF i - 1 <= j THEN s[i - 2] ELSE s[i - 1]
          BY <1>9, <1>11, <4>1
        <4>4. t[i - 1] = IF i - 1 <= j THEN s[i - 2] ELSE s[i - 1]
          BY <1>6, <4>1
        <4> QED  BY <3>4, <4>2, <4>3, <4>4
      <3> QED  BY <1>1, <3>1, <3>2, <3>3, <3>4
    <2>2. v = [i \in 1 .. n + 2 |-> v[i]]
      <3>1. (n + 1) + 1 = n + 2
        BY <1>1
      <3> QED  BY <3>1 DEF WithSecond
    <2> HIDE DEF v
    <2>3. [i \in 1 .. n + 2 |-> v[i]] =
            [i \in 1 .. n + 2 |-> IF i = 1 THEN HeadNode ELSE IF i = n + 2 THEN TailNode ELSE t[i - 1]]
      BY <2>1
    <2> QED  BY <2>2, <2>3 DEF ListOf
  <1>14. {t[i] : i \in 1 .. n} = {s[i] : i \in 1 .. n}
    <2>1. ASSUME NEW i \in 1 .. n PROVE \E x \in 1 .. n : t[i] = s[x]
      <3>1. i \in 1 .. Len(s)
        BY <1>1
      <3>2. CASE i = 1
        BY <1>6, <1>7, <3>1, <3>2
      <3>3. CASE i # 1 /\ i <= j
        <4>1. i - 1 \in 1 .. n
          BY <1>1, <3>3
        <4> QED  BY <1>6, <3>1, <3>3, <4>1
      <3>4. CASE i # 1 /\ ~(i <= j)
        BY <1>6, <3>1, <3>4
      <3> QED  BY <3>2, <3>3, <3>4
    <2>2. ASSUME NEW i \in 1 .. n PROVE \E x \in 1 .. n : s[i] = t[x]
      <3>1. i \in 1 .. Len(s)
        BY <1>1
      <3>2. CASE i = j
        <4>1. 1 \in 1 .. n /\ 1 \in 1 .. Len(s)
          BY <1>1, <1>7
        <4> QED  BY <1>6, <3>2, <4>1
      <3>3. CASE i < j
        <4>1. i + 1 \in 1 .. n /\ i + 1 \in 1 .. Len(s) /\ i + 1 # 1 /\ i + 1 <= j /\ (i + 1) - 1 = i
          BY <1>1, <1>7, <3>3
        <4> QED  BY <1>6, <4>1
      <3>4. CASE i > j
        <4>1. i # 1 /\ ~(i <= j)
          BY <1>7, <3>4
        <4> QED  BY <1>6, <3>1, <4>1
      <3> QED  BY <1>7, <3>2, <3>3, <3>4
    <2> HIDE DEF t, s, n
    <2>3. ASSUME NEW z \in {t[i] : i \in 1 .. n} PROVE z \in {s[i] : i \in 1 .. n}
      <3>1. PICK i \in 1 .. n : z = t[i]
        BY <2>3
      <3>2. PICK x \in 1 .. n : t[i] = s[x]
        BY <2>1
      <3> QED  BY <3>1, <3>2
    <2>4. ASSUME NEW z \in {s[i] : i \in 1 .. n} PROVE z \in {t[i] : i \in 1 .. n}
      <3>1. PICK i \in 1 .. n : z = s[i]
        BY <2>4
      <3>2. PICK x \in 1 .. n : s[i] = t[x]
        BY <2>2
      <3> QED  BY <3>1, <3>2
    <2> QED  BY <2>3, <2>4
  <1>15. links' = AddFirst(u, k)
    BY DEF MoveToFront, u
  <1>16. cached' = {t[i] : i \in 1 .. n}
    BY <1>14 DEF LruInv, s, n
  <1> HIDE DEF v
  <1> QED  BY <1>4, <1>5, <1>8, <1>12, <1>13, <1>15, <1>16 DEF LruInv

\* cached counts the held part of the history.
LEMMA CachedCount ==
  ASSUME LruInv
  PROVE  Cardinality(cached) = Held(recent)
PROOF
  <1> DEFINE n == Held(recent)
             f == [i \in 1 .. n |-> recent[i]]
  <1>1. /\ n \in Nat /\ \A i \in 1 .. n : i \in 1 .. Len(recent)
        /\ cached = {recent[i] : i \in 1 .. n}
    BY HeldIs DEF LruInv
  <1> HIDE DEF n
  <1>2. f \in Bijection(1 .. n, cached)
    <2>1. \A i, j \in 1 .. n : recent[i] = recent[j] => i = j
      BY <1>1 DEF LruInv, Recency, Distinct
    <2> QED  BY <1>1, <2>1 DEF Bijection, Injection, Surjection, IsInjective
  <1>3. IsFiniteSet(1 .. n) /\ Cardinality(1 .. n) = n
    <2>1. n \in Int /\ n >= 0
      BY <1>1
    <2>2. IsFiniteSet(1 .. n) /\ Cardinality(1 .. n) = IF 1 > n THEN 0 ELSE n - 1 + 1
      BY <2>1, FS_Interval
    <2>3. (IF 1 > n THEN 0 ELSE n - 1 + 1) = n
      BY <2>1
    <2> QED  BY <2>2, <2>3
  <1>4. Cardinality(cached) = n
    <2> HIDE DEF f
    <2>1. ExistsBijection(1 .. n, cached)
      BY <1>2 DEF ExistsBijection
    <2> QED  BY <1>3, <2>1, FS_Bijection
  <1> QED  BY <1>4 DEF n

\* A new key, with room left: its node is put in front of all.
LEMMA PutWithRoomKeeps ==
  ASSUME LruInv, NEW k \in CacheKeys, k \notin cached, Held(recent) < Capacity,
         links' = AddFirst(links, k), cached' = cached \cup {k}, Used(k)
  PROVE  LruInv'
PROOF
  <1> DEFINE s == recent
             t == <<k>> \o RemoveFirst(recent, k)
             n == Held(recent)
             p == ListOf(recent, n)
             v == WithSecond(p, n + 2, k)
  <1>1. /\ Recency(s) /\ n \in Nat /\ n = Len(s) /\ s \in Seq(CacheKeys) /\ Capacity \in Nat
        /\ n < Capacity /\ links \in Links /\ Linked(links, p, n + 2) /\ Walk(p, n + 2)
        /\ cached = {s[i] : i \in 1 .. n}
    BY HeldIs, ListIsWalk DEF LruInv, Recency
  <1>2. Recency(t) /\ ComesFrom(t, s, k)
    BY <1>1, UsedIs
  <1>3. recent' = t
    BY DEF Used
  <1> HIDE DEF s, t, n, p, v
  <1>4. /\ Len(t) = n + 1 /\ \A i \in 1 .. n + 1 : t[i] = IF i = 1 THEN k ELSE s[i - 1]
    <2>1. \A i \in 1 .. Len(s) : s[i] # k
      BY <1>1
    <2> QED  BY <1>1, <1>2, <2>1 DEF ComesFrom
  <1>5. Held(t) = n + 1
    BY <1>1, <1>4 DEF Held
  <1>6. /\ p[1] = HeadNode /\ p[n + 2] = TailNode
        /\ \A i \in 2 .. n + 1 : p[i] = s[i - 1]
    BY <1>1 DEF p, ListOf, s
  <1>7. \A i \in 1 .. n + 2 : p[i] # k
    <2>1. \A i \in 1 .. n + 2 : i = 1 \/ i = n + 2 \/ (i \in 2 .. n + 1 /\ i - 1 \in 1 .. n)
      BY <1>1
    <2>2. HeadNode # k /\ TailNode # k
      BY CacheAssumption
    <2> QED  BY <1>1, <1>6, <2>1, <2>2
  <1>8. /\ AddFirst(links, k) \in Links
        /\ Linked(AddFirst(links, k), v, n + 3)
    <2>1. n + 2 \in Nat /\ n + 2 >= 2 /\ (n + 2) + 1 = n + 3 /\ k \in Nodes
      BY <1>1 DEF Nodes
    <2>2. /\ AddFirst(links, k) \in Links
          /\ Linked(AddFirst(links, k), WithSecond(p, n + 2, k), (n + 2) + 1)
      BY <1>1, <1>6, <1>7, <2>1, AddFirstPutsIn
    <2> QED  BY <2>1, <2>2 DEF v
  <1>9. v = ListOf(t, n + 1)
    <2>1. /\ v = [i \in 1 .. n + 3 |-> v[i]]
          /\ \A i \in 1 .. n + 3 : v[i] = IF i = 1 THEN p[1] ELSE IF i = 2 THEN k ELSE p[i - 1]
      <3>1. (n + 2) + 1 = n + 3
        BY <1>1
      <3> QED  BY <3>1 DEF v, WithSecond
    <2>2. ASSUME NEW i \in 1 .. n + 3
          PROVE  v[i] = IF i = 1 THEN HeadNode ELSE IF i = n + 3 THEN TailNode ELSE t[i - 1]
      <3>1. CASE i = 1
        BY <1>6, <2>1, <3>1
      <3>2. CASE i = 2
        <4>1. i # n + 3 /\ i - 1 = 1 /\ 1 \in 1 .. n + 1
          BY <1>1, <3>2
        <4> QED  BY <1>4, <2>1, <3>2, <4>1
      <3>3. CASE i > 2 /\ i = n + 3
        <4>1. i - 1 = n + 2
          BY <1>1, <3>3
        <4> QED  BY <1>6, <2>1, <3>3, <4>1
      <3>4. CASE i > 2 /\ i # n + 3
        <4>1. i - 1 \in 2 .. n + 1 /\ i - 1 \in 1 .. n + 1 /\ i - 1 # 1
          BY <1>1, <3>4
        <4> QED  BY <1>4, <1>6, <2>1, <3>4, <4>1
      <3> QED  BY <1>1, <3>1, <3>2, <3>3, <3>4
    <2>3. [i \in 1 .. n + 3 |-> v[i]] =
            [i \in 1 .. n + 3 |-> IF i = 1 THEN HeadNode ELSE IF i = n + 3 THEN TailNode ELSE t[i - 1]]
      BY <2>2
    <2>4. (n + 1) + 2 = n + 3
      BY <1>1
    <2> QED  BY <2>1, <2>3, <2>4 DEF ListOf
  <1>10. cached' = {t[i] : i \in 1 .. n + 1}
    <2>1. ASSUME NEW i \in 1 .. n + 1 PROVE t[i] \in cached'
      <3>1. i # 1 => i - 1 \in 1 .. n
        BY <1>1
      <3> QED  BY <1>1, <1>4, <3>1
    <2>2. ASSUME NEW x \in cached' PROVE \E i \in 1 .. n + 1 : x = t[i]
      <3>1. CASE x = k
        <4>1. 1 \in 1 .. n + 1
          BY <1>1
        <4> QED  BY <1>4, <3>1, <4>1
      <3>2. CASE x # k
        <4>1. PICK i \in 1 .. n : x = s[i]
          BY <1>1, <3>2
        <4>2. i + 1 \in 1 .. n + 1 /\ i + 1 # 1 /\ (i + 1) - 1 = i
          BY <1>1
        <4> QED  BY <1>4, <4>1, <4>2
      <3> QED  BY <3>1, <3>2
    <2>3. {t[i] : i \in 1 .. n + 1} \subseteq cached'
      BY <2>1, Zenon
    <2>4. cached' \subseteq {t[i] : i \in 1 .. n + 1}
      BY <2>2, Zenon
    <2> QED  BY <2>3, <2>4
  <1>11. (n + 1) + 2 = n + 3
    BY <1>1
  <1> QED  BY <1>2, <1>3, <1>5, <1>8, <1>9, <1>10, <1>11 DEF LruInv

\* A new key, without room: the node at the back, which is the key that was
\* used longest ago, makes place for it.
LEMMA PutEvictingKeeps ==
  ASSUME LruInv, NEW k \in CacheKeys, k \notin cached, Held(recent) = Capacity,
         links' = AddFirst(Unlink(links, links.prev[TailNode]), k),
         cached' = (cached \ {links.prev[TailNode]}) \cup {k}, Used(k)
  PROVE  LruInv'
PROOF
  <1> DEFINE s == recent
             t == <<k>> \o RemoveFirst(recent, k)
             n == Capacity
             p == ListOf(recent, n)
             q == Without(p, n + 2, n + 1)
             v == WithSecond(q, n + 1, k)
             lru == links.prev[TailNode]
             u == Unlink(links, lru)
  <1>1. /\ Recency(s) /\ n \in Nat \ {0} /\ n <= Len(s) /\ Len(s) \in Nat /\ s \in Seq(CacheKeys)
        /\ links \in Links /\ Linked(links, p, n + 2) /\ Walk(p, n + 2)
        /\ cached = {s[i] : i \in 1 .. n}
    BY HeldIs, ListIsWalk DEF LruInv, Recency
  <1>2. Recency(t) /\ ComesFrom(t, s, k)
    BY <1>1, UsedIs
  <1>3. recent' = t
    BY DEF Used
  <1>4. links' = AddFirst(u, k) /\ cached' = (cached \ {lru}) \cup {k}
    OBVIOUS
  <1> HIDE DEF s, t, n, p, q, v, u, lru
  <1>5. /\ Len(t) \in Nat /\ Len(t) >= n
        /\ \A i \in 1 .. n : t[i] = IF i = 1 THEN k ELSE s[i - 1]
    <2>1. \A i \in 1 .. n : s[i] # k /\ i \in 1 .. Len(s)
      BY <1>1
    <2>2. ASSUME NEW j \in 1 .. Len(s), s[j] = k PROVE j > n
      BY <1>1, <2>1, <2>2
    <2> QED  BY <1>1, <1>2, <2>1, <2>2 DEF ComesFrom
  <1>6. Held(t) = n
    BY <1>1, <1>5 DEF Held, n
  <1>7. /\ p[1] = HeadNode /\ p[n + 2] = TailNode /\ p[n + 1] = s[n]
        /\ \A i \in 2 .. n + 1 : p[i] = s[i - 1]
    BY <1>1 DEF p, ListOf, s
  <1>8. lru = s[n]
    <2>1. n + 1 \in 1 .. (n + 2) - 1 /\ (n + 1) + 1 = n + 2
      BY <1>1
    <2> QED  BY <1>1, <1>7, <2>1 DEF Linked, lru
  <1>9. u \in Links /\ Walk(q, n + 1) /\ Linked(u, q, n + 1)
    <2>1. n + 2 \in Nat /\ (n + 2) - 1 = n + 1 /\ n + 1 \in 2 .. (n + 2) - 1
      BY <1>1
    <2>2. /\ Unlink(links, p[n + 1]) \in Links
          /\ Walk(Without(p, n + 2, n + 1), (n + 2) - 1)
          /\ Linked(Unlink(links, p[n + 1]), Without(p, n + 2, n + 1), (n + 2) - 1)
      BY <1>1, <2>1, UnlinkTakesOut
    <2> QED  BY <1>7, <1>8, <2>1, <2>2 DEF q, u
  <1>10. \A i \in 1 .. n + 1 : q[i] = IF i < n + 1 THEN p[i] ELSE TailNode
    <2>1. \A i \in 1 .. n + 1 : q[i] = IF i < n + 1 THEN p[i] ELSE p[i + 1]
      BY <1>1 DEF q, Without
    <2>2. \A i \in 1 .. n + 1 : ~(i < n + 1) => i + 1 = n + 2
      BY <1>1
    <2> QED  BY <1>7, <2>1, <2>2
  <1>11. q[1] = HeadNode /\ \A i \in 1 .. n + 1 : q[i] # k
    <2>1. HeadNode # k /\ TailNode # k
      BY CacheAssumption
    <2>2. 1 \in 1 .. n + 1 /\ 1 < n + 1
      BY <1>1
    <2>3. ASSUME NEW i \in 1 .. n + 1, i < n + 1, i # 1 PROVE p[i] # k
      <3>1. i \in 2 .. n + 1 /\ i - 1 \in 1 .. n
        BY <1>1, <2>3
      <3> QED  BY <1>1, <1>7, <3>1
    <2> QED  BY <1>7, <1>10, <2>1, <2>2, <2>3
  <1>12. /\ AddFirst(u, k) \in Links
         /\ Linked(AddFirst(u, k), v, n + 2)
    <2>1. n + 1 \in Nat /\ n + 1 >= 2 /\ (n + 1) + 1 = n + 2 /\ k \in Nodes
      BY <1>1 DEF Nodes
    <2>2. /\ AddFirst(u, k) \in Links
          /\ Linked(AddFirst(u, k), WithSecond(q, n + 1, k), (n + 1) + 1)
      BY <1>9, <1>11, <2>1, AddFirstPutsIn
    <2> QED  BY <2>1, <2>2 DEF v
  <1>13. v = ListOf(t, n)
    <2>1. /\ v = [i \in 1 .. n + 2 |-> v[i]]
          /\ \A i \in 1 .. n + 2 : v[i] = IF i = 1 THEN q[1] ELSE IF i = 2 THEN k ELSE q[i - 1]
      <3>1. (n + 1) + 1 = n + 2
        BY <1>1
      <3> QED  BY <3>1 DEF v, WithSecond
    <2>2. ASSUME NEW i \in 1 .. n + 2
          PROVE  v[i] = IF i = 1 THEN HeadNode ELSE IF i = n + 2 THEN TailNode ELSE t[i - 1]
      <3>1. CASE i = 1
        BY <1>11, <2>1, <3>1
      <3>2. CASE i = 2
        <4>1. i # n + 2 /\ i - 1 = 1 /\ 1 \in 1 .. n
          BY <1>1, <3>2
        <4> QED  BY <1>5, <2>1, <3>2, <4>1
      <3>3. CASE i > 2 /\ i = n + 2
        <4>1. i - 1 \in 1 .. n + 1 /\ ~(i - 1 < n + 1)
          BY <1>1, <3>3
        <4> QED  BY <1>10, <2>1, <3>3, <4>1
      <3>4. CASE i > 2 /\ i # n + 2
        <4>1. i - 1 \in 1 .. n /\ i - 1 \in 1 .. n + 1 /\ i - 1 < n + 1 /\ i - 1 # 1 /\ i - 1 \in 2 .. n + 1
          BY <1>1, <3>4
        <4>2. v[i] = q[i - 1]
          BY <2>1, <3>4
        <4>3. q[i - 1] = s[(i - 1) - 1] /\ t[i - 1] = s[(i - 1) - 1]
          BY <1>5, <1>7, <1>10, <4>1
        <4> QED  BY <3>4, <4>2, <4>3
      <3> QED  BY <1>1, <3>1, <3>2, <3>3, <3>4
    <2>3. [i \in 1 .. n + 2 |-> v[i]] =
            [i \in 1 .. n + 2 |-> IF i = 1 THEN HeadNode ELSE IF i = n + 2 THEN TailNode ELSE t[i - 1]]
      BY <2>2
    <2> QED  BY <2>1, <2>3 DEF ListOf
  <1>14. cached' = {t[i] : i \in 1 .. n}
    <2>1. ASSUME NEW i \in 1 .. n PROVE t[i] \in cached'
      <3>1. i = 1 => t[i] = k
        BY <1>5
      <3>2. ASSUME i # 1 PROVE t[i] \in cached \ {lru}
        <4>1. i - 1 \in 1 .. n /\ i - 1 # n /\ i - 1 \in 1 .. Len(s) /\ n \in 1 .. Len(s)
          BY <1>1, <3>2
        <4>2. s[i - 1] # s[n]
          BY <1>1, <4>1 DEF Recency, Distinct
        <4> QED  BY <1>1, <1>5, <1>8, <3>2, <4>1, <4>2
      <3> QED  BY <1>4, <3>1, <3>2
    <2>2. ASSUME NEW x \in cached' PROVE \E i \in 1 .. n : x = t[i]
      <3>1. CASE x = k
        <4>1. 1 \in 1 .. n
          BY <1>1
        <4> QED  BY <1>5, <3>1, <4>1
      <3>2. CASE x # k
        <4>1. PICK i \in 1 .. n : x = s[i]
          BY <1>1, <1>4, <3>2
        <4>2. i # n
          BY <1>4, <1>8, <3>2, <4>1
        <4>3. i + 1 \in 1 .. n /\ i + 1 # 1 /\ (i + 1) - 1 = i
          BY <1>1, <4>2
        <4> QED  BY <1>5, <4>1, <4>3
      <3> QED  BY <3>1, <3>2
    <2>3. {t[i] : i \in 1 .. n} \subseteq cached'
      BY <2>1, Zenon
    <2>4. cached' \subseteq {t[i] : i \in 1 .. n}
      BY <2>2, Zenon
    <2> QED  BY <2>3, <2>4
  <1> QED  BY <1>2, <1>3, <1>4, <1>6, <1>12, <1>13, <1>14 DEF LruInv

LEMMA CacheInitially ==
  ASSUME CacheInit
  PROVE  LruInv
PROOF
  <1> DEFINE p == ListOf(recent, 0)
  <1>1. recent = <<>> /\ Len(recent) = 0 /\ Capacity \in Nat \ {0} /\ cached = {}
    BY CacheAssumption DEF CacheInit
  <1>2. Recency(recent) /\ Held(recent) = 0
    BY <1>1 DEF Recency, Distinct, Held
  <1>3. p[1] = HeadNode /\ p[2] = TailNode
    BY DEF ListOf
  <1>4. links \in Links /\ links.next[HeadNode] = TailNode /\ links.prev[TailNode] = HeadNode
    BY CacheAssumption DEF CacheInit, Links, Nodes
  <1>5. cached = {recent[i] : i \in 1 .. 0}
    BY <1>1
  <1>6. Linked(links, p, 0 + 2)
    <2> HIDE DEF p
    <2>1. \A i \in 1 .. (0 + 2) - 1 : i = 1
      OBVIOUS
    <2> QED  BY <1>3, <1>4, <2>1 DEF Linked
  <1> QED  BY <1>2, <1>4, <1>5, <1>6 DEF LruInv

\* What the invariant says of the property: the walk of the list is its path.
LEMMA ListFollows ==
  ASSUME LruInv
  PROVE  ListIsRecency
PROOF
  <1> DEFINE n == Held(recent)
             kept == FirstOf(recent, Capacity)
             front == <<HeadNode>> \o kept
             path == front \o <<TailNode>>
             N == CacheKeys \cup {HeadNode, TailNode}
  <1>1. /\ n \in Nat /\ n <= Len(recent) /\ recent \in Seq(CacheKeys) /\ Len(recent) \in Nat
        /\ cached = {recent[i] : i \in 1 .. n} /\ Linked(links, ListOf(recent, n), n + 2)
    BY HeldIs DEF LruInv, Recency
  <1>2. kept = SubSeq(recent, 1, n)
    BY DEF FirstOf, Held
  <1> HIDE DEF n
  <1>3. kept \in Seq(N) /\ Len(kept) = n /\ DOMAIN kept = 1 .. n /\ \A i \in 1 .. n : kept[i] = recent[i]
    <2>1. /\ \A i \in 1 .. n : recent[i] \in N
          /\ n \in Int /\ 1 \in Int
      BY <1>1
    <2>2. /\ SubSeq(recent, 1, n) \in Seq(N)
          /\ Len(SubSeq(recent, 1, n)) = IF 1 <= n THEN n - 1 + 1 ELSE 0
          /\ \A i \in 1 .. n - 1 + 1 : SubSeq(recent, 1, n)[i] = recent[1 + i - 1]
      BY <2>1, SubSeqProperties
    <2>3. n - 1 + 1 = n /\ (IF 1 <= n THEN n - 1 + 1 ELSE 0) = n /\ \A i \in 1 .. n : 1 + i - 1 = i
      BY <1>1
    <2> HIDE DEF kept, N
    <2>4. kept \in Seq(N) /\ Len(kept) = n /\ \A i \in 1 .. n : kept[i] = recent[i]
      BY <1>2, <2>2, <2>3
    <2> QED  BY <2>4
  <1> HIDE DEF kept
  <1>4. front \in Seq(N) /\ Len(front) = n + 1 /\ front[1] = HeadNode
        /\ \A i \in 2 .. n + 1 : front[i] = kept[i - 1]
    BY <1>1, <1>3, PrependIs
  <1> HIDE DEF front, N
  <1>5. \A i \in 1 .. n + 2 : path[i] = ListOf(recent, n)[i]
    <2>1. <<TailNode>> \in Seq(N) /\ Len(<<TailNode>>) = 1 /\ <<TailNode>>[1] = TailNode
      BY DEF N
    <2>2. \A i \in 1 .. Len(front) + Len(<<TailNode>>) :
            path[i] = IF i <= Len(front) THEN front[i] ELSE <<TailNode>>[i - Len(front)]
      BY <1>4, <2>1, ConcatProperties
    <2> HIDE DEF path
    <2> TAKE i \in 1 .. n + 2
    <2>3. path[i] = IF i <= n + 1 THEN front[i] ELSE <<TailNode>>[i - (n + 1)]
      BY <1>1, <1>4, <2>1, <2>2
    <2>4. ListOf(recent, n)[i] = IF i = 1 THEN HeadNode ELSE IF i = n + 2 THEN TailNode ELSE recent[i - 1]
      BY DEF ListOf
    <2>5. CASE i = 1
      BY <1>1, <1>4, <2>3, <2>4, <2>5
    <2>6. CASE i # 1 /\ i = n + 2
      <3>1. ~(i <= n + 1) /\ i - (n + 1) = 1
        BY <1>1, <2>6
      <3> QED  BY <2>1, <2>3, <2>4, <2>6, <3>1
    <2>7. CASE i # 1 /\ i # n + 2
      <3>1. i <= n + 1 /\ i \in 2 .. n + 1 /\ i - 1 \in 1 .. n
        BY <1>1, <2>7
      <3> QED  BY <1>3, <1>4, <2>3, <2>4, <2>7, <3>1
    <2> QED  BY <2>5, <2>6, <2>7
  <1> HIDE DEF path
  <1>6. ASSUME NEW i \in 1 .. Len(kept) + 1
        PROVE  links.next[path[i]] = path[i + 1] /\ links.prev[path[i + 1]] = path[i]
    <2>1. i \in 1 .. (n + 2) - 1 /\ i \in 1 .. n + 2 /\ i + 1 \in 1 .. n + 2
      BY <1>1, <1>3
    <2> QED  BY <1>1, <1>5, <2>1 DEF Linked
  <1>7. cached = {kept[i] : i \in DOMAIN kept}
    BY <1>1, <1>3
  <1> QED  BY <1>6, <1>7 DEF ListIsRecency, kept, front, path

\* The list agrees with the history of use, for any keys and any capacity.
THEOREM ListAlwaysRecency == CacheSpec => []ListIsRecency
PROOF
  <1>1. CacheInit => LruInv
    BY CacheInitially
  <1>2. LruInv /\ [CacheNext]_cacheVars => LruInv'
    <2> SUFFICES ASSUME LruInv, [CacheNext]_cacheVars PROVE LruInv'
      OBVIOUS
    <2>1. ASSUME NEW k \in CacheKeys, TryGet(k) PROVE LruInv'
      BY <2>1, HitKeeps DEF TryGet
    <2>2. ASSUME NEW k \in CacheKeys, Put(k), k \in cached PROVE LruInv'
      BY <2>2, HitKeeps DEF Put
    <2>3. ASSUME NEW k \in CacheKeys, Put(k), k \notin cached PROVE LruInv'
      <3>1. /\ Cardinality(cached) = Held(recent) /\ Held(recent) \in Nat
            /\ Held(recent) <= Capacity /\ Capacity \in Nat
        BY CachedCount, HeldIs DEF LruInv
      <3>2. CASE Held(recent) = Capacity
        <4>1. Cardinality(cached) >= Capacity
          BY <3>1, <3>2
        <4> QED  BY <2>3, <3>2, <4>1, PutEvictingKeeps DEF Put
      <3>3. CASE Held(recent) < Capacity
        <4>1. ~(Cardinality(cached) >= Capacity)
          BY <3>1, <3>3
        <4> QED  BY <2>3, <3>3, <4>1, PutWithRoomKeeps DEF Put
      <3> QED  BY <3>1, <3>2, <3>3
    <2>4. CASE UNCHANGED cacheVars
      BY <2>4 DEF cacheVars, LruInv
    <2> QED  BY <2>1, <2>2, <2>3, <2>4 DEF CacheNext
  <1>3. LruInv => ListIsRecency
    BY ListFollows
  <1> QED  BY <1>1, <1>2, <1>3, PTL DEF CacheSpec

-----------------------------------------------------------------------------
(* The LFU cache.                                                             *)

Members(s) == {s[i] : i \in 1 .. Len(s)}

\* In a history of use, a was used after b.
Later(s, a, b) == \E i, j \in 1 .. Len(s) : s[i] = a /\ s[j] = b /\ i < j

\* A list whose keys are in the order of a history.
InOrderOf(s, l) == \A i, j \in 1 .. Len(s) : i < j => Later(l, s[i], s[j])

LEMMA LaterIsStrict ==
  ASSUME NEW K, NEW l \in Seq(K), Distinct(l), NEW a
  PROVE  ~ Later(l, a, a)
PROOF
  <1>1. \A i, j \in 1 .. Len(l) : l[i] = a /\ l[j] = a => i = j
    BY DEF Distinct
  <1>2. \A i \in 1 .. Len(l) : ~(i < i)
    OBVIOUS
  <1> QED  BY <1>1, <1>2 DEF Later

\* Using k changes the order of no two other keys, and puts k before them.
LEMMA UseKeepsOrder ==
  ASSUME NEW K, NEW s \in Seq(K), NEW t, NEW k, Distinct(s), ComesFrom(t, s, k)
  PROVE  /\ \A a, b : a # k /\ b # k /\ Later(s, a, b) => Later(t, a, b)
         /\ \A a \in Members(s) : a # k => Later(t, k, a)
         /\ Members(t) = Members(s) \cup {k}
PROOF
  <1>1. Len(s) \in Nat
    OBVIOUS
  <1>2. PICK place \in [1 .. Len(s) -> Nat] :
          /\ \A i \in 1 .. Len(s) : s[i] # k => place[i] \in 2 .. Len(t) /\ t[place[i]] = s[i]
          /\ \A i, h \in 1 .. Len(s) : s[i] # k /\ s[h] # k /\ i < h => place[i] < place[h]
          /\ 1 \in 1 .. Len(t) /\ t[1] = k
          /\ \A x \in 2 .. Len(t) : \E i \in 1 .. Len(s) : t[x] = s[i]
    <2>1. CASE \E j \in 1 .. Len(s) :
                 /\ s[j] = k /\ Len(t) = Len(s)
                 /\ \A i \in 1 .. Len(s) : t[i] = IF i = 1 THEN k ELSE IF i <= j THEN s[i - 1] ELSE s[i]
      <3>1. PICK j \in 1 .. Len(s) :
              /\ s[j] = k /\ Len(t) = Len(s)
              /\ \A i \in 1 .. Len(s) : t[i] = IF i = 1 THEN k ELSE IF i <= j THEN s[i - 1] ELSE s[i]
        BY <2>1
      <3> DEFINE p == [i \in 1 .. Len(s) |-> IF i < j THEN i + 1 ELSE i]
      <3>2. p \in [1 .. Len(s) -> Nat]
        OBVIOUS
      <3>3. ASSUME NEW i \in 1 .. Len(s), s[i] # k PROVE p[i] \in 2 .. Len(t) /\ t[p[i]] = s[i]
        <4>1. CASE i < j
          <5>1. p[i] = i + 1 /\ i + 1 \in 1 .. Len(s) /\ i + 1 \in 2 .. Len(s)
                /\ i + 1 # 1 /\ i + 1 <= j /\ (i + 1) - 1 = i
            BY <1>1, <3>1, <4>1
          <5> HIDE DEF p
          <5> QED  BY <3>1, <5>1
        <4>2. CASE i > j
          <5>1. p[i] = i /\ i # 1 /\ ~(i <= j) /\ i \in 2 .. Len(s)
            BY <1>1, <3>1, <4>2
          <5> HIDE DEF p
          <5> QED  BY <3>1, <5>1
        <4>3. i # j
          BY <3>1, <3>3
        <4> QED  BY <3>1, <4>1, <4>2, <4>3
      <3>4. \A i, h \in 1 .. Len(s) : i < h => p[i] < p[h] \/ h = j
        BY <1>1, <3>1
      <3>5. ASSUME NEW x \in 2 .. Len(t) PROVE \E i \in 1 .. Len(s) : t[x] = s[i]
        <4>1. x \in 1 .. Len(s) /\ x # 1 /\ x - 1 \in 1 .. Len(s)
          BY <1>1, <3>1
        <4> QED  BY <3>1, <4>1
      <3>6. 1 \in 1 .. Len(s)
        BY <1>1, <3>1
      <3>7. 1 \in 1 .. Len(t) /\ t[1] = k
        BY <3>1, <3>6
      <3> HIDE DEF p
      <3> QED  BY <3>1, <3>2, <3>3, <3>4, <3>5, <3>7
    <2>2. CASE /\ \A i \in 1 .. Len(s) : s[i] # k
               /\ Len(t) = Len(s) + 1
               /\ \A i \in 1 .. Len(s) + 1 : t[i] = IF i = 1 THEN k ELSE s[i - 1]
      <3> DEFINE p == [i \in 1 .. Len(s) |-> i + 1]
      <3>1. p \in [1 .. Len(s) -> Nat]
        OBVIOUS
      <3>2. ASSUME NEW i \in 1 .. Len(s) PROVE p[i] \in 2 .. Len(t) /\ t[p[i]] = s[i]
        <4>1. p[i] = i + 1 /\ i + 1 \in 1 .. Len(s) + 1 /\ i + 1 \in 2 .. Len(s) + 1 /\ i + 1 # 1 /\ (i + 1) - 1 = i
          BY <1>1
        <4> HIDE DEF p
        <4> QED  BY <2>2, <4>1
      <3>3. \A i, h \in 1 .. Len(s) : i < h => p[i] < p[h]
        OBVIOUS
      <3>4. ASSUME NEW x \in 2 .. Len(t) PROVE \E i \in 1 .. Len(s) : t[x] = s[i]
        <4>1. x \in 1 .. Len(s) + 1 /\ x # 1 /\ x - 1 \in 1 .. Len(s)
          BY <1>1, <2>2
        <4> QED  BY <2>2, <4>1
      <3>5. 1 \in 1 .. Len(s) + 1
        BY <1>1
      <3>6. 1 \in 1 .. Len(t) /\ t[1] = k
        BY <2>2, <3>5
      <3> HIDE DEF p
      <3> QED  BY <3>1, <3>2, <3>3, <3>4, <3>6
    <2> QED  BY <2>1, <2>2 DEF ComesFrom
  <1>3. \A i \in 1 .. Len(s) : s[i] # k => place[i] \in 1 .. Len(t) /\ 1 < place[i]
    BY <1>2
  <1>4. ASSUME NEW a, NEW b, a # k, b # k, Later(s, a, b) PROVE Later(t, a, b)
    <2>1. PICK i, h \in 1 .. Len(s) : s[i] = a /\ s[h] = b /\ i < h
      BY <1>4 DEF Later
    <2> QED  BY <1>2, <1>3, <1>4, <2>1 DEF Later
  <1>5. ASSUME NEW a \in Members(s), a # k PROVE Later(t, k, a)
    <2>1. PICK i \in 1 .. Len(s) : s[i] = a
      BY DEF Members
    <2> QED  BY <1>2, <1>3, <1>5, <2>1 DEF Later
  <1>6. Members(t) = Members(s) \cup {k}
    <2>1. ASSUME NEW x \in 1 .. Len(t) PROVE t[x] \in Members(s) \cup {k}
      <3>1. x = 1 \/ x \in 2 .. Len(t)
        BY <1>2
      <3> QED  BY <1>2, <3>1 DEF Members
    <2>2. ASSUME NEW i \in 1 .. Len(s) PROVE s[i] \in Members(t)
      <3>1. CASE s[i] = k
        BY <1>2, <3>1 DEF Members
      <3>2. CASE s[i] # k
        BY <1>2, <1>3, <3>2 DEF Members
      <3> QED  BY <3>1, <3>2
    <2>3. k \in Members(t)
      BY <1>2 DEF Members
    <2>4. Members(t) \subseteq Members(s) \cup {k}
      BY <2>1, Zenon DEF Members
    <2>5. Members(s) \subseteq Members(t)
      BY <2>2, Zenon DEF Members
    <2> QED  BY <2>3, <2>4, <2>5
  <1> QED  BY <1>4, <1>5, <1>6

LEMMA OrderSurvivesUse ==
  ASSUME NEW K, NEW l \in Seq(K), Distinct(l), NEW t, NEW k, ComesFrom(t, l, k),
         NEW s, InOrderOf(s, l), k \notin Members(s)
  PROVE  InOrderOf(s, t)
PROOF
  <1>1. \A i \in 1 .. Len(s) : s[i] # k
    BY DEF Members
  <1>2. \A a, b : a # k /\ b # k /\ Later(l, a, b) => Later(t, a, b)
    BY UseKeepsOrder
  <1> QED  BY <1>1, <1>2 DEF InOrderOf

\* Lists of keys: one is put in front, one is taken out.
LEMMA ListGains ==
  ASSUME NEW K, NEW s \in Seq(K), NEW k \in K, NEW l, InOrderOf(s, l),
         \A a \in Members(s) : Later(l, k, a)
  PROVE  /\ <<k>> \o s \in Seq(K)
         /\ Members(<<k>> \o s) = Members(s) \cup {k}
         /\ InOrderOf(<<k>> \o s, l)
PROOF
  <1> DEFINE t == <<k>> \o s
  <1>1. Len(s) \in Nat
    OBVIOUS
  <1>2. /\ t \in Seq(K) /\ Len(t) = Len(s) + 1 /\ t[1] = k
        /\ \A i \in 2 .. Len(s) + 1 : t[i] = s[i - 1]
    BY PrependIs
  <1> HIDE DEF t
  <1>3. \A i \in 1 .. Len(t) : i = 1 \/ (i \in 2 .. Len(s) + 1 /\ i - 1 \in 1 .. Len(s))
    BY <1>1, <1>2
  <1>4. \A i \in 1 .. Len(s) : i + 1 \in 1 .. Len(t) /\ i + 1 \in 2 .. Len(s) + 1 /\ (i + 1) - 1 = i
    BY <1>1, <1>2
  <1>5. Members(t) = Members(s) \cup {k}
    <2>1. \A i \in 1 .. Len(t) : t[i] \in Members(s) \cup {k}
      BY <1>2, <1>3 DEF Members
    <2>2. \A i \in 1 .. Len(s) : s[i] \in Members(t)
      <3> TAKE i \in 1 .. Len(s)
      <3>1. t[i + 1] = s[i]
        BY <1>2, <1>4
      <3> QED  BY <1>4, <3>1 DEF Members
    <2>3. 1 \in 1 .. Len(t)
      BY <1>1, <1>2
    <2>4. k \in Members(t)
      BY <1>2, <2>3 DEF Members
    <2>5. Members(t) \subseteq Members(s) \cup {k}
      BY <2>1, Zenon DEF Members
    <2>6. Members(s) \subseteq Members(t)
      BY <2>2, Zenon DEF Members
    <2> QED  BY <2>4, <2>5, <2>6
  <1>6. ASSUME NEW i \in 1 .. Len(t), NEW j \in 1 .. Len(t), i < j PROVE Later(l, t[i], t[j])
    <2>1. j \in 2 .. Len(s) + 1 /\ j - 1 \in 1 .. Len(s) /\ t[j] = s[j - 1]
      BY <1>2, <1>3, <1>6
    <2>2. CASE i = 1
      BY <1>2, <2>1, <2>2 DEF Members
    <2>3. CASE i # 1
      <3>1. i - 1 \in 1 .. Len(s) /\ t[i] = s[i - 1] /\ i - 1 < j - 1
        BY <1>2, <1>3, <1>6, <2>3
      <3> QED  BY <2>1, <3>1 DEF InOrderOf
    <2> QED  BY <2>2, <2>3
  <1>7. InOrderOf(t, l)
    BY <1>6 DEF InOrderOf
  <1> QED  BY <1>2, <1>5, <1>7 DEF t

LEMMA InOrderIsDistinct ==
  ASSUME NEW K, NEW L, NEW s \in Seq(K), NEW l \in Seq(L), Distinct(l), InOrderOf(s, l)
  PROVE  Distinct(s)
PROOF
  <1> SUFFICES ASSUME NEW i \in 1 .. Len(s), NEW j \in 1 .. Len(s), s[i] = s[j], i # j PROVE FALSE
    BY DEF Distinct
  <1>1. i < j \/ j < i
    OBVIOUS
  <1>2. Later(l, s[i], s[i])
    BY <1>1 DEF InOrderOf
  <1> QED  BY <1>2, LaterIsStrict

LEMMA ListLosesAt ==
  ASSUME NEW K, NEW s \in Seq(K), NEW j \in 1 .. Len(s), NEW l, InOrderOf(s, l), Distinct(s)
  PROVE  /\ RemoveAt(s, j) \in Seq(K)
         /\ Members(RemoveAt(s, j)) = Members(s) \ {s[j]}
         /\ InOrderOf(RemoveAt(s, j), l)
PROOF
  <1> DEFINE t == RemoveAt(s, j)
             From(i) == IF i < j THEN i ELSE i + 1
  <1>1. Len(s) \in Nat /\ j \in Nat
    OBVIOUS
  <1>2. /\ t \in Seq(K) /\ Len(t) = Len(s) - 1
        /\ \A i \in 1 .. Len(s) - 1 : t[i] = IF i < j THEN s[i] ELSE s[i + 1]
    BY RemoveAtIs
  <1> HIDE DEF t
  <1>3. \A i \in 1 .. Len(t) : From(i) \in 1 .. Len(s) /\ From(i) # j /\ t[i] = s[From(i)]
    BY <1>1, <1>2
  <1>4. \A i, h \in 1 .. Len(t) : i < h => From(i) < From(h)
    BY <1>1, <1>2
  <1>5. \A x \in 1 .. Len(s) : x # j => \E i \in 1 .. Len(t) : From(i) = x
    <2> TAKE x \in 1 .. Len(s)
    <2>1. CASE x < j
      <3>1. x \in 1 .. Len(t) /\ From(x) = x
        BY <1>1, <1>2, <2>1
      <3> QED  BY <3>1
    <2>2. CASE x > j
      <3>1. x - 1 \in 1 .. Len(t) /\ From(x - 1) = x
        BY <1>1, <1>2, <2>2
      <3> QED  BY <3>1
    <2> QED  BY <1>1, <2>1, <2>2
  <1> HIDE DEF From
  <1>6. Members(t) = Members(s) \ {s[j]}
    <2>1. \A i \in 1 .. Len(t) : t[i] \in Members(s) \ {s[j]}
      <3> TAKE i \in 1 .. Len(t)
      <3>1. s[From(i)] # s[j]
        BY <1>3 DEF Distinct
      <3> QED  BY <1>3, <3>1 DEF Members
    <2>2. \A x \in 1 .. Len(s) : s[x] # s[j] => s[x] \in Members(t)
      <3> TAKE x \in 1 .. Len(s)
      <3>1. ASSUME s[x] # s[j] PROVE s[x] \in Members(t)
        <4>1. PICK i \in 1 .. Len(t) : From(i) = x
          BY <1>5, <3>1
        <4> QED  BY <1>3, <4>1 DEF Members
      <3> QED  BY <3>1
    <2>3. Members(t) \subseteq Members(s) \ {s[j]}
      BY <2>1, Zenon DEF Members
    <2>4. Members(s) \ {s[j]} \subseteq Members(t)
      BY <2>2, Zenon DEF Members
    <2> QED  BY <2>3, <2>4
  <1>7. InOrderOf(t, l)
    BY <1>3, <1>4 DEF InOrderOf
  <1> QED  BY <1>2, <1>6, <1>7 DEF t

LEMMA ListLoses ==
  ASSUME NEW K, NEW s \in Seq(K), NEW x, NEW l, InOrderOf(s, l), Distinct(s)
  PROVE  /\ RemoveFirst(s, x) \in Seq(K)
         /\ Members(RemoveFirst(s, x)) = Members(s) \ {x}
         /\ InOrderOf(RemoveFirst(s, x), l)
PROOF
  <1>1. CASE \E i \in 1 .. Len(s) : s[i] = x
    <2>1. PICK j \in 1 .. Len(s) : s[j] = x /\ RemoveFirst(s, x) = RemoveAt(s, j)
      BY <1>1, RemoveFirstIs
    <2> QED  BY <2>1, ListLosesAt
  <1>2. CASE ~\E i \in 1 .. Len(s) : s[i] = x
    <2>1. RemoveFirst(s, x) = s
      BY <1>2, RemoveFirstIs
    <2>2. x \notin Members(s)
      BY <1>2 DEF Members
    <2> QED  BY <2>1, <2>2
  <1> QED  BY <1>1, <1>2

LEMMA ListLosesLast ==
  ASSUME NEW K, NEW s \in Seq(K), s # <<>>, NEW l, InOrderOf(s, l), Distinct(s)
  PROVE  /\ Front(s) \in Seq(K)
         /\ Last(s) = s[Len(s)] /\ Len(s) \in 1 .. Len(s)
         /\ Members(Front(s)) = Members(s) \ {Last(s)}
         /\ InOrderOf(Front(s), l)
PROOF
  <1> DEFINE n == Len(s)
  <1>1. n \in Nat /\ n # 0 /\ n \in 1 .. n
    OBVIOUS
  <1>2. /\ RemoveAt(s, n) \in Seq(K) /\ Len(RemoveAt(s, n)) = n - 1
        /\ \A i \in 1 .. n - 1 : RemoveAt(s, n)[i] = s[i]
    <2>1. /\ RemoveAt(s, n) \in Seq(K) /\ Len(RemoveAt(s, n)) = Len(s) - 1
          /\ \A i \in 1 .. Len(s) - 1 : RemoveAt(s, n)[i] = IF i < n THEN s[i] ELSE s[i + 1]
      BY <1>1, RemoveAtIs
    <2>2. \A i \in 1 .. n - 1 : i < n
      BY <1>1
    <2> QED  BY <2>1, <2>2
  <1>3. /\ Front(s) \in Seq(K) /\ Len(Front(s)) = n - 1
        /\ \A i \in 1 .. n - 1 : Front(s)[i] = s[i]
    <2>1. Front(s) = SubSeq(s, 1, n - 1)
      BY DEF Front
    <2>2. (\A i \in 1 .. n - 1 : s[i] \in K) /\ 1 \in Int /\ n - 1 \in Int
      BY <1>1
    <2> HIDE DEF n
    <2>3. /\ SubSeq(s, 1, n - 1) \in Seq(K)
          /\ Len(SubSeq(s, 1, n - 1)) = IF 1 <= n - 1 THEN (n - 1) - 1 + 1 ELSE 0
          /\ \A i \in 1 .. (n - 1) - 1 + 1 : SubSeq(s, 1, n - 1)[i] = s[1 + i - 1]
      BY <2>2, SubSeqProperties
    <2>4. /\ (n - 1) - 1 + 1 = n - 1 /\ (IF 1 <= n - 1 THEN (n - 1) - 1 + 1 ELSE 0) = n - 1
          /\ \A i \in 1 .. n - 1 : 1 + i - 1 = i
      BY <1>1
    <2> QED  BY <2>1, <2>3, <2>4
  <1>4. Front(s) = RemoveAt(s, n)
    <2> HIDE DEF n
    <2> QED  BY <1>2, <1>3, SeqEqual
  <1>5. Last(s) = s[n]
    BY DEF Last
  <1> QED  BY <1>1, <1>4, <1>5, ListLosesAt

Buckets == 1 .. MaxFrequency

LfuTypes ==
  /\ frequency \in [LfuKeys -> Nat] /\ uses \in [LfuKeys -> Nat]
  /\ bucket \in [Buckets -> Seq(LfuKeys)]
  /\ latest \in Seq(LfuKeys) /\ Distinct(latest)

\* A key that is cached was used as often as its frequency says.
UsesCounted ==
  \A k \in LfuKeys :
    /\ frequency[k] \in 0 .. MaxFrequency
    /\ frequency[k] > 0 => uses[k] = frequency[k] /\ k \in Members(latest)

\* The list of a frequency has the keys of that frequency, by their last use.
BucketsRight ==
  \A f \in Buckets :
    /\ Members(bucket[f]) = {k \in LfuKeys : frequency[k] = f}
    /\ InOrderOf(bucket[f], latest)

\* While anything is cached, minFrequency is the lowest frequency there is.
MinIsLowest ==
  Kept # {} =>
    /\ \E k \in Kept : frequency[k] = minFrequency
    /\ \A k \in Kept : minFrequency <= frequency[k]

LfuInv == LfuTypes /\ UsesCounted /\ BucketsRight /\ MinIsLowest

LEMMA LfuInitially ==
  ASSUME LfuInit
  PROVE  LfuInv
PROOF
  <1>1. LfuTypes
    BY DEF LfuInit, LfuTypes, Buckets, Distinct
  <1>2. UsesCounted
    BY LfuAssumption DEF LfuInit, UsesCounted
  <1>3. \A f \in Buckets : Members(bucket[f]) = {} /\ InOrderOf(bucket[f], latest) /\ f # 0
    BY LfuAssumption DEF LfuInit, Buckets, Members, InOrderOf
  <1>4. BucketsRight
    BY <1>3 DEF LfuInit, BucketsRight
  <1>5. Kept = {}
    BY DEF LfuInit, Kept
  <1> QED  BY <1>1, <1>2, <1>4, <1>5 DEF LfuInv, MinIsLowest

\* The history after a use of k.
LEMMA LatestIs ==
  ASSUME LfuTypes, NEW k \in LfuKeys, latest' = <<k>> \o RemoveFirst(latest, k)
  PROVE  /\ latest' \in Seq(LfuKeys) /\ Distinct(latest') /\ ComesFrom(latest', latest, k)
         /\ Members(latest') = Members(latest) \cup {k}
         /\ \A a \in Members(latest) : a # k => Later(latest', k, a)
         /\ \A s : InOrderOf(s, latest) /\ k \notin Members(s) => InOrderOf(s, latest')
PROOF
  <1>1. latest \in Seq(LfuKeys) /\ Distinct(latest)
    BY DEF LfuTypes
  <1>2. /\ <<k>> \o RemoveFirst(latest, k) \in Seq(LfuKeys)
        /\ Distinct(<<k>> \o RemoveFirst(latest, k))
        /\ ComesFrom(<<k>> \o RemoveFirst(latest, k), latest, k)
    BY <1>1, FrontedIs
  <1>3. latest' \in Seq(LfuKeys) /\ Distinct(latest') /\ ComesFrom(latest', latest, k)
    BY <1>2
  <1>4. ASSUME NEW s, InOrderOf(s, latest), k \notin Members(s) PROVE InOrderOf(s, latest')
    BY <1>1, <1>3, <1>4, OrderSurvivesUse
  <1> QED  BY <1>1, <1>3, <1>4, UseKeepsOrder

LEMMA BucketFacts ==
  ASSUME LfuInv, NEW f \in Buckets
  PROVE  bucket[f] \in Seq(LfuKeys) /\ Distinct(bucket[f]) /\ InOrderOf(bucket[f], latest)
         /\ Members(bucket[f]) = {k \in LfuKeys : frequency[k] = f}
BY InOrderIsDistinct DEF LfuInv, LfuTypes, BucketsRight

LEMMA UseKeeps ==
  ASSUME LfuInv, NEW k \in LfuKeys, UseCached(k)
  PROVE  LfuInv'
PROOF
  <1> DEFINE f == frequency[k]
  <1>0. /\ LfuTypes /\ UsesCounted /\ MinIsLowest /\ MaxFrequency \in Nat
        /\ f \in Nat /\ f \in Buckets /\ f + 1 \in Buckets /\ f # f + 1 /\ f > 0
        /\ \A x \in LfuKeys : frequency[x] \in Nat
    BY LfuAssumption, SMTT(20) DEF LfuInv, LfuTypes, UseCached, Buckets
  <1>1. /\ bucket' = [bucket EXCEPT ![f] = RemoveFirst(@, k), ![f + 1] = <<k>> \o @]
        /\ minFrequency' = IF bucket[f] = <<k>> /\ minFrequency = f THEN f + 1 ELSE minFrequency
        /\ frequency' = [frequency EXCEPT ![k] = f + 1]
        /\ uses' = [uses EXCEPT ![k] = uses[k] + 1]
        /\ latest' = <<k>> \o RemoveFirst(latest, k)
    BY DEF UseCached, Touch, Note
  <1>2. /\ latest' \in Seq(LfuKeys) /\ Distinct(latest')
        /\ Members(latest') = Members(latest) \cup {k}
        /\ \A a \in Members(latest) : a # k => Later(latest', k, a)
        /\ \A s : InOrderOf(s, latest) /\ k \notin Members(s) => InOrderOf(s, latest')
    BY <1>0, <1>1, LatestIs
  <1> HIDE DEF f
  <1>3. /\ frequency' \in [LfuKeys -> Nat] /\ frequency'[k] = f + 1
        /\ \A x \in LfuKeys : x # k => frequency'[x] = frequency[x]
    BY <1>0, <1>1 DEF LfuTypes
  <1>4. /\ uses' \in [LfuKeys -> Nat] /\ uses'[k] = uses[k] + 1
        /\ \A x \in LfuKeys : x # k => uses'[x] = uses[x]
    <2>1. uses \in [LfuKeys -> Nat] /\ uses[k] + 1 \in Nat
      BY <1>0 DEF LfuTypes
    <2> QED  BY <1>1, <2>1
  <1>5. /\ RemoveFirst(bucket[f], k) \in Seq(LfuKeys)
        /\ Members(RemoveFirst(bucket[f], k)) = {x \in LfuKeys : frequency'[x] = f}
        /\ InOrderOf(RemoveFirst(bucket[f], k), latest')
    <2> DEFINE s == RemoveFirst(bucket[f], k)
    <2>1. s \in Seq(LfuKeys) /\ Members(s) = Members(bucket[f]) \ {k} /\ InOrderOf(s, latest)
      BY <1>0, BucketFacts, ListLoses
    <2>2. Members(bucket[f]) = {x \in LfuKeys : frequency[x] = f}
      BY <1>0, BucketFacts
    <2> HIDE DEF s
    <2>3. InOrderOf(s, latest')
      BY <1>2, <2>1
    <2>4. Members(s) = {x \in LfuKeys : frequency'[x] = f}
      BY <1>0, <1>3, <2>1, <2>2
    <2> QED  BY <2>1, <2>3, <2>4 DEF s
  <1>6. /\ <<k>> \o bucket[f + 1] \in Seq(LfuKeys)
        /\ Members(<<k>> \o bucket[f + 1]) = {x \in LfuKeys : frequency'[x] = f + 1}
        /\ InOrderOf(<<k>> \o bucket[f + 1], latest')
    <2> DEFINE b == bucket[f + 1]
    <2>1. b \in Seq(LfuKeys) /\ InOrderOf(b, latest) /\ Members(b) = {x \in LfuKeys : frequency[x] = f + 1}
      BY <1>0, BucketFacts
    <2> HIDE DEF b
    <2>2. k \notin Members(b)
      BY <1>0, <2>1 DEF f
    <2>3. InOrderOf(b, latest')
      BY <1>2, <2>1, <2>2
    <2>4. \A a \in Members(b) : Later(latest', k, a)
      <3> TAKE a \in Members(b)
      <3>1. a \in LfuKeys /\ frequency[a] > 0 /\ a # k
        BY <1>0, <2>1, <2>2
      <3>2. a \in Members(latest)
        BY <1>0, <3>1 DEF UsesCounted
      <3> QED  BY <1>2, <3>1, <3>2
    <2>5. /\ <<k>> \o b \in Seq(LfuKeys) /\ Members(<<k>> \o b) = Members(b) \cup {k}
          /\ InOrderOf(<<k>> \o b, latest')
      BY <2>1, <2>3, <2>4, ListGains
    <2> DEFINE t == <<k>> \o b
    <2> HIDE DEF t
    <2>6. Members(t) = Members(b) \cup {k}
      BY <2>5 DEF t
    <2>7. Members(t) = {x \in LfuKeys : frequency'[x] = f + 1}
      BY <1>0, <1>3, <2>1, <2>6 DEF f
    <2> QED  BY <2>5, <2>7 DEF t, b
  <1>7. /\ bucket' \in [Buckets -> Seq(LfuKeys)]
        /\ bucket'[f] = RemoveFirst(bucket[f], k) /\ bucket'[f + 1] = <<k>> \o bucket[f + 1]
        /\ \A g \in Buckets : g # f /\ g # f + 1 => bucket'[g] = bucket[g]
    <2> DEFINE s == RemoveFirst(bucket[f], k)
               t == <<k>> \o bucket[f + 1]
    <2>1. bucket' = [bucket EXCEPT ![f] = s, ![f + 1] = t] /\ s \in Seq(LfuKeys) /\ t \in Seq(LfuKeys)
      BY <1>0, <1>1, <1>5, <1>6 DEF LfuTypes
    <2> HIDE DEF s, t
    <2>2. /\ bucket' \in [Buckets -> Seq(LfuKeys)] /\ bucket'[f] = s /\ bucket'[f + 1] = t
          /\ \A g \in Buckets : g # f /\ g # f + 1 => bucket'[g] = bucket[g]
      BY <1>0, <2>1 DEF LfuTypes
    <2> QED  BY <2>2 DEF s, t
  <1>8. LfuTypes'
    BY <1>2, <1>3, <1>4, <1>7 DEF LfuTypes
  <1>9. UsesCounted'
    <2> SUFFICES ASSUME NEW x \in LfuKeys
                 PROVE  /\ frequency'[x] \in 0 .. MaxFrequency
                        /\ frequency'[x] > 0 => uses'[x] = frequency'[x] /\ x \in Members(latest')
      BY DEF UsesCounted
    <2>1. CASE x = k
      <3>1. uses[k] = f /\ f + 1 \in 0 .. MaxFrequency
        BY <1>0 DEF UsesCounted, f, Buckets
      <3> QED  BY <1>0, <1>2, <1>3, <1>4, <2>1, <3>1
    <2>2. CASE x # k
      BY <1>0, <1>2, <1>3, <1>4, <2>2 DEF UsesCounted
    <2> QED  BY <2>1, <2>2
  <1>10. BucketsRight'
    <2> SUFFICES ASSUME NEW g \in Buckets
                 PROVE  /\ Members(bucket'[g]) = {x \in LfuKeys : frequency'[x] = g}
                        /\ InOrderOf(bucket'[g], latest')
      BY DEF BucketsRight, Buckets
    <2>1. CASE g = f
      BY <1>5, <1>7, <2>1
    <2>2. CASE g = f + 1
      BY <1>6, <1>7, <2>2
    <2>3. CASE g # f /\ g # f + 1
      <3>1. /\ bucket'[g] = bucket[g] /\ InOrderOf(bucket[g], latest)
            /\ Members(bucket[g]) = {x \in LfuKeys : frequency[x] = g}
        BY <1>7, <2>3, BucketFacts
      <3>2. k \notin Members(bucket[g])
        BY <2>3, <3>1 DEF f
      <3>3. InOrderOf(bucket[g], latest')
        BY <1>2, <3>1, <3>2
      <3>4. Members(bucket[g]) = {x \in LfuKeys : frequency'[x] = g}
        BY <1>3, <2>3, <3>1 DEF f
      <3> QED  BY <3>1, <3>3, <3>4
    <2> QED  BY <2>1, <2>2, <2>3
  <1>11. MinIsLowest'
    <2>0. k \in Kept /\ \A x \in LfuKeys : x \in Kept <=> frequency[x] > 0
      BY <1>0 DEF Kept, f
    <2>1. \A x : x \in Kept' <=> x \in LfuKeys /\ frequency'[x] > 0
      BY DEF Kept
    <2>2. Kept' = Kept
      BY <1>0, <1>3, <2>0, <2>1 DEF Kept, f
    <2>3. /\ \E x \in Kept : frequency[x] = minFrequency
          /\ \A x \in Kept : minFrequency <= frequency[x]
          /\ minFrequency \in Nat
      <3>1. Kept # {} /\ \A x \in Kept : frequency[x] \in Nat
        BY <1>0, <2>0 DEF Kept
      <3>2. /\ \E x \in Kept : frequency[x] = minFrequency
            /\ \A x \in Kept : minFrequency <= frequency[x]
        BY <1>0, <3>1 DEF MinIsLowest
      <3> QED  BY <3>1, <3>2
    <2>4. CASE bucket[f] = <<k>> /\ minFrequency = f
      <3>1. \A x \in Kept : x # k => frequency[x] # f
        <4>1. Members(bucket[f]) = {k}
          BY <2>4 DEF Members
        <4> QED  BY <1>0, <2>0, <4>1, BucketFacts DEF Kept
      <3>2. minFrequency' = f + 1
        BY <1>1, <2>4
      <3>3. \A x \in Kept : f + 1 <= frequency'[x]
        <4> TAKE x \in Kept
        <4>1. x \in LfuKeys
          BY DEF Kept
        <4> QED  BY <1>0, <1>3, <2>3, <2>4, <3>1, <4>1
      <3> QED  BY <1>3, <2>0, <2>2, <3>2, <3>3 DEF MinIsLowest
    <2>5. CASE ~(bucket[f] = <<k>> /\ minFrequency = f)
      <3>1. minFrequency' = minFrequency
        BY <1>1, <2>5
      <3>2. \E x \in Kept : x # k /\ frequency[x] = minFrequency
        <4>1. CASE minFrequency # f
          BY <2>3, <4>1 DEF f
        <4>2. CASE minFrequency = f
          <5> DEFINE b == bucket[f]
          <5>1. b \in Seq(LfuKeys) /\ Distinct(b) /\ Members(b) = {x \in LfuKeys : frequency[x] = f} /\ b # <<k>>
            BY <1>0, <2>5, <4>2, BucketFacts
          <5> HIDE DEF b
          <5>2. k \in Members(b)
            BY <5>1 DEF f
          <5>3. ASSUME \A x \in Members(b) : x = k PROVE FALSE
            <6>1. Len(b) \in Nat /\ \A i \in 1 .. Len(b) : b[i] = k
              BY <5>1, <5>3 DEF Members
            <6>2. \A i, j \in 1 .. Len(b) : i = j
              BY <5>1, <6>1 DEF Distinct
            <6>3. Len(b) # 0
              BY <5>1, <5>2 DEF Members
            <6>4. Len(b) = 1
              <7>1. 1 \in 1 .. Len(b) /\ Len(b) \in 1 .. Len(b)
                BY <6>1, <6>3
              <7> QED  BY <6>2, <7>1
            <6>5. b = <<k>>
              <7>1. 1 \in 1 .. Len(b)
                BY <6>4
              <7>2. b[1] = k
                BY <6>1, <7>1
              <7> QED  BY <5>1, <6>4, <7>2
            <6> QED  BY <5>1, <6>5
          <5>4. PICK x \in Members(b) : x # k
            BY <5>3
          <5>5. x \in Kept /\ frequency[x] = f
            BY <1>0, <5>1, <5>4 DEF Kept
          <5> QED  BY <4>2, <5>4, <5>5
        <4> QED  BY <4>1, <4>2
      <3>3. \A x \in Kept : minFrequency <= frequency'[x]
        <4> TAKE x \in Kept
        <4>1. x \in LfuKeys /\ minFrequency <= frequency[x]
          BY <2>3 DEF Kept
        <4> QED  BY <1>0, <1>3, <2>3, <4>1 DEF f
      <3>4. \E x \in Kept : frequency'[x] = minFrequency
        <4>1. PICK x \in Kept : x # k /\ frequency[x] = minFrequency
          BY <3>2
        <4>2. x \in LfuKeys
          BY DEF Kept
        <4> QED  BY <1>3, <4>1, <4>2
      <3> QED  BY <2>2, <3>1, <3>3, <3>4 DEF MinIsLowest
    <2> QED  BY <2>4, <2>5
  <1> QED  BY <1>8, <1>9, <1>10, <1>11 DEF LfuInv

\* The key that goes when there is no room, and what is left of its list.
LEMMA VictimIs ==
  ASSUME LfuInv, Kept # {}
  PROVE  LET b == bucket[minFrequency]
             v == Last(b)
         IN  /\ minFrequency \in Buckets /\ b \in Seq(LfuKeys) /\ b # <<>>
             /\ v \in Kept /\ frequency[v] = minFrequency
             /\ \A x \in Kept : frequency[x] = minFrequency /\ x # v => Later(latest, x, v)
             /\ Front(b) \in Seq(LfuKeys)
             /\ Members(Front(b)) = Members(b) \ {v}
             /\ InOrderOf(Front(b), latest)
PROOF
  <1> DEFINE m == minFrequency
             b == bucket[minFrequency]
             v == Last(b)
  <1>1. PICK x \in Kept : frequency[x] = m
    BY DEF LfuInv, MinIsLowest
  <1>2. x \in LfuKeys /\ frequency[x] > 0 /\ m \in Buckets
    BY <1>1, LfuAssumption DEF LfuInv, UsesCounted, Kept, Buckets
  <1>3. b \in Seq(LfuKeys) /\ Distinct(b) /\ InOrderOf(b, latest) /\ Members(b) = {y \in LfuKeys : frequency[y] = m}
    BY <1>2, BucketFacts
  <1>4. b # <<>>
    BY <1>1, <1>2, <1>3 DEF Members
  <1> HIDE DEF b
  <1>5. /\ Front(b) \in Seq(LfuKeys)
        /\ Last(b) = b[Len(b)] /\ Len(b) \in 1 .. Len(b)
        /\ Members(Front(b)) = Members(b) \ {Last(b)}
        /\ InOrderOf(Front(b), latest)
    BY <1>3, <1>4, ListLosesLast
  <1>6. v \in Members(b)
    BY <1>5 DEF Members
  <1>7. v \in Kept /\ frequency[v] = m
    BY <1>2, <1>1, <1>3, <1>6 DEF Kept
  <1>8. ASSUME NEW y \in Kept, frequency[y] = m, y # v PROVE Later(latest, y, v)
    <2>1. y \in Members(b)
      BY <1>3, <1>8 DEF Kept
    <2>2. PICK i \in 1 .. Len(b) : b[i] = y
      BY <2>1 DEF Members
    <2>3. i # Len(b)
      BY <1>5, <1>8, <2>2
    <2>4. i < Len(b)
      BY <1>3, <2>3
    <2> QED  BY <1>3, <1>5, <2>2, <2>4 DEF InOrderOf
  <1> QED  BY <1>2, <1>3, <1>4, <1>5, <1>7, <1>8 DEF b

\* The lists and the frequencies once there is room for a key: a victim may
\* have been taken from them.
HaveRoom(left, fr) ==
  /\ left \in [Buckets -> Seq(LfuKeys)] /\ fr \in [LfuKeys -> Nat]
  /\ \A x \in LfuKeys : fr[x] = frequency[x] \/ fr[x] = 0
  /\ \A f \in Buckets : /\ Members(left[f]) = {x \in LfuKeys : fr[x] = f}
                        /\ InOrderOf(left[f], latest)

\* What putting a new key does to them.
LEMMA PutKeeps ==
  ASSUME LfuInv, NEW k \in LfuKeys, frequency[k] = 0,
         NEW left, NEW fr, HaveRoom(left, fr),
         frequency' = [fr EXCEPT ![k] = 1], bucket' = [left EXCEPT ![1] = <<k>> \o left[1]],
         minFrequency' = 1, Note(k, 1)
  PROVE  LfuInv'
PROOF
  <1>0. /\ LfuTypes /\ UsesCounted /\ 1 \in Buckets /\ 0 \notin Buckets /\ MaxFrequency \in Nat
        /\ 1 \in 0 .. MaxFrequency
        /\ left \in [Buckets -> Seq(LfuKeys)] /\ fr \in [LfuKeys -> Nat] /\ fr[k] = 0
        /\ \A x \in LfuKeys : fr[x] = frequency[x] \/ fr[x] = 0
    BY LfuAssumption DEF LfuInv, Buckets, HaveRoom
  <1>1. uses' = [uses EXCEPT ![k] = 1] /\ latest' = <<k>> \o RemoveFirst(latest, k)
    BY DEF Note
  <1>2. /\ latest' \in Seq(LfuKeys) /\ Distinct(latest')
        /\ Members(latest') = Members(latest) \cup {k}
        /\ \A a \in Members(latest) : a # k => Later(latest', k, a)
        /\ \A s : InOrderOf(s, latest) /\ k \notin Members(s) => InOrderOf(s, latest')
    BY <1>0, <1>1, LatestIs
  <1>3. /\ frequency' \in [LfuKeys -> Nat] /\ frequency'[k] = 1
        /\ \A x \in LfuKeys : x # k => frequency'[x] = fr[x]
    BY <1>0
  <1>4. /\ uses' \in [LfuKeys -> Nat] /\ uses'[k] = 1
        /\ \A x \in LfuKeys : x # k => uses'[x] = uses[x]
    BY <1>0, <1>1 DEF LfuTypes
  <1>5. \A f \in Buckets : /\ left[f] \in Seq(LfuKeys)
                           /\ Members(left[f]) = {x \in LfuKeys : fr[x] = f}
                           /\ k \notin Members(left[f])
                           /\ InOrderOf(left[f], latest')
    BY <1>0, <1>2 DEF HaveRoom
  <1> DEFINE b == left[1]
             t == <<k>> \o b
  <1>6. /\ t \in Seq(LfuKeys) /\ Members(t) = Members(b) \cup {k} /\ InOrderOf(t, latest')
    <2>1. b \in Seq(LfuKeys) /\ Members(b) = {x \in LfuKeys : fr[x] = 1} /\ InOrderOf(b, latest') /\ k \notin Members(b)
      BY <1>0, <1>5
    <2> HIDE DEF b
    <2>2. \A a \in Members(b) : Later(latest', k, a)
      <3> TAKE a \in Members(b)
      <3>1. a \in LfuKeys /\ fr[a] = 1 /\ a # k
        BY <2>1
      <3>3. frequency[a] > 0
        BY <1>0, <3>1, SMTT(20)
      <3>2. a \in Members(latest)
        BY <1>0, <3>1, <3>3 DEF UsesCounted
      <3> QED  BY <1>2, <3>1, <3>2
    <2> QED  BY <2>1, <2>2, ListGains
  <1>7. bucket' = [left EXCEPT ![1] = t]
    OBVIOUS
  <1>8. Members(b) = {x \in LfuKeys : fr[x] = 1}
    BY <1>0, <1>5
  <1> HIDE DEF t, b
  <1>9. /\ bucket' \in [Buckets -> Seq(LfuKeys)] /\ bucket'[1] = t
        /\ \A f \in Buckets : f # 1 => bucket'[f] = left[f]
    BY <1>0, <1>6, <1>7
  <1>10. LfuTypes'
    BY <1>2, <1>3, <1>4, <1>9 DEF LfuTypes
  <1>11. UsesCounted'
    <2> SUFFICES ASSUME NEW x \in LfuKeys
                 PROVE  /\ frequency'[x] \in 0 .. MaxFrequency
                        /\ frequency'[x] > 0 => uses'[x] = frequency'[x] /\ x \in Members(latest')
      BY DEF UsesCounted
    <2>1. CASE x = k
      BY <1>0, <1>2, <1>3, <1>4, <2>1
    <2>2. CASE x # k
      <3>1. /\ frequency[x] \in 0 .. MaxFrequency
            /\ frequency[x] > 0 => uses[x] = frequency[x] /\ x \in Members(latest)
        BY <1>0 DEF UsesCounted
      <3>2. frequency'[x] = frequency[x] \/ frequency'[x] = 0
        BY <1>0, <1>3, <2>2
      <3> QED  BY <1>0, <1>2, <1>4, <2>2, <3>1, <3>2
    <2> QED  BY <2>1, <2>2
  <1>12. BucketsRight'
    <2> SUFFICES ASSUME NEW g \in Buckets
                 PROVE  /\ Members(bucket'[g]) = {x \in LfuKeys : frequency'[x] = g}
                        /\ InOrderOf(bucket'[g], latest')
      BY DEF BucketsRight, Buckets
    <2>1. CASE g = 1
      <3>1. {x \in LfuKeys : frequency'[x] = 1} = {x \in LfuKeys : fr[x] = 1} \cup {k}
        BY <1>0, <1>3
      <3> QED  BY <1>6, <1>8, <1>9, <2>1, <3>1
    <2>2. CASE g # 1
      <3>1. {x \in LfuKeys : fr[x] = g} = {x \in LfuKeys : frequency'[x] = g}
        BY <1>0, <1>3, <2>2
      <3> QED  BY <1>5, <1>9, <2>2, <3>1
    <2> QED  BY <2>1, <2>2
  <1>13. MinIsLowest'
    <2>1. k \in Kept' /\ \A x \in Kept' : x \in LfuKeys /\ frequency'[x] > 0
      BY <1>3 DEF Kept
    <2>2. \A x \in Kept' : 1 <= frequency'[x]
      BY <1>3, <2>1
    <2> QED  BY <1>3, <2>1, <2>2 DEF MinIsLowest
  <1> QED  BY <1>10, <1>11, <1>12, <1>13 DEF LfuInv

LEMMA PutNewKeeps ==
  ASSUME LfuInv, NEW k \in LfuKeys, PutNew(k)
  PROVE  LfuInv'
PROOF
  <1> DEFINE full == Cardinality(Kept) = LfuCapacity
             v == Last(bucket[minFrequency])
  <1>0. /\ LfuTypes /\ frequency[k] = 0 /\ LfuCapacity # 0 /\ minFrequency' = 1 /\ Note(k, 1)
        /\ frequency \in [LfuKeys -> Nat] /\ bucket \in [Buckets -> Seq(LfuKeys)]
    BY DEF PutNew, LfuInv, LfuTypes
  <1>1. CASE full
    <2>1. Kept # {}
      BY <1>0, <1>1, FS_EmptySet
    <2> DEFINE m == minFrequency
               b == bucket[m]
               fr == [frequency EXCEPT ![v] = 0]
               left == [bucket EXCEPT ![m] = Front(b)]
    <2>2. /\ m \in Buckets /\ v \in Kept /\ frequency[v] = m
          /\ Front(b) \in Seq(LfuKeys) /\ Members(Front(b)) = Members(b) \ {v}
          /\ InOrderOf(Front(b), latest)
      BY <2>1, VictimIs
    <2>3. v \in LfuKeys /\ frequency[v] > 0 /\ v # k
      BY <1>0, <2>2 DEF Kept
    <2>4. frequency' = [fr EXCEPT ![k] = 1]
      <3>1. frequency' = [l \in LfuKeys |-> IF l = k THEN 1 ELSE IF l \in {v} THEN 0 ELSE frequency[l]]
        BY <1>1 DEF PutNew
      <3> HIDE DEF v
      <3> QED  BY <1>0, <2>3, <3>1
    <2>5. bucket' = [left EXCEPT ![1] = <<k>> \o left[1]]
      BY <1>1 DEF PutNew
    <2>6. \A f \in Buckets : Members(bucket[f]) = {x \in LfuKeys : frequency[x] = f} /\ InOrderOf(bucket[f], latest)
      BY DEF LfuInv, BucketsRight
    <2>7. 0 \notin Buckets
      BY DEF Buckets
    <2> HIDE DEF v
    <2>8. fr \in [LfuKeys -> Nat] /\ fr[k] = 0 /\ fr[v] = 0 /\ \A x \in LfuKeys : x # v => fr[x] = frequency[x]
      BY <1>0, <2>3
    <2>9. left \in [Buckets -> Seq(LfuKeys)] /\ left[m] = Front(b) /\ \A f \in Buckets : f # m => left[f] = bucket[f]
      BY <1>0, <2>2
    <2> HIDE DEF fr, left
    <2>10. ASSUME NEW f \in Buckets
           PROVE  Members(left[f]) = {x \in LfuKeys : fr[x] = f} /\ InOrderOf(left[f], latest)
      <3>1. CASE f = m
        <4>1. {x \in LfuKeys : fr[x] = f} = {x \in LfuKeys : frequency[x] = f} \ {v}
          BY <2>7, <2>8
        <4> QED  BY <2>2, <2>6, <2>9, <3>1, <4>1
      <3>2. CASE f # m
        <4>1. {x \in LfuKeys : fr[x] = f} = {x \in LfuKeys : frequency[x] = f}
          BY <2>2, <2>7, <2>8, <3>2
        <4> QED  BY <2>6, <2>9, <3>2, <4>1
      <3> QED  BY <3>1, <3>2
    <2>11. \A x \in LfuKeys : fr[x] = frequency[x] \/ fr[x] = 0
      BY <2>8
    <2>12. HaveRoom(left, fr)
      BY <2>8, <2>9, <2>10, <2>11 DEF HaveRoom
    <2> QED  BY <1>0, <2>4, <2>5, <2>12, PutKeeps
  <1>2. CASE ~full
    <2>1. bucket' = [bucket EXCEPT ![1] = <<k>> \o bucket[1]]
      BY <1>2 DEF PutNew
    <2>2. frequency' = [frequency EXCEPT ![k] = 1]
      <3>1. frequency' = [l \in LfuKeys |-> IF l = k THEN 1 ELSE frequency[l]]
        BY <1>2 DEF PutNew
      <3> QED  BY <1>0, <3>1
    <2>3. \A f \in Buckets : Members(bucket[f]) = {x \in LfuKeys : frequency[x] = f} /\ InOrderOf(bucket[f], latest)
      BY DEF LfuInv, BucketsRight
    <2>4. HaveRoom(bucket, frequency)
      BY <1>0, <2>3 DEF HaveRoom
    <2> QED  BY <1>0, <2>1, <2>2, <2>4, PutKeeps
  <1> QED  BY <1>1, <1>2

\* Later is an order of last uses.
LEMMA LaterIsSooner ==
  ASSUME latest \in Seq(LfuKeys), Distinct(latest), NEW a, NEW b, Later(latest, a, b)
  PROVE  LastUse(b) >= LastUse(a)
PROOF
  <1>1. PICK i, j \in 1 .. Len(latest) : latest[i] = a /\ latest[j] = b /\ i < j
    BY DEF Later
  <1>2. \A x \in DOMAIN latest : (latest[x] = a => x = i) /\ (latest[x] = b => x = j)
    BY <1>1 DEF Distinct
  <1>3. LastUse(a) = i /\ LastUse(b) = j
    BY <1>1, <1>2 DEF LastUse
  <1> QED  BY <1>1, <1>3

\* What is evicted was used least often and, among those, longest ago, for any
\* keys, any capacity and any frequencies.
THEOREM AlwaysEvictsLeastFrequent == LfuSpec => EvictsLeastFrequent
PROOF
  <1>1. LfuInit => LfuInv
    BY LfuInitially
  <1>2. LfuInv /\ [LfuNext]_lfuVars => LfuInv'
    <2> SUFFICES ASSUME LfuInv, [LfuNext]_lfuVars PROVE LfuInv'
      OBVIOUS
    <2>1. CASE LfuNext
      BY <2>1, UseKeeps, PutNewKeeps DEF LfuNext
    <2>2. CASE UNCHANGED lfuVars
      BY <2>2 DEF lfuVars, LfuInv, LfuTypes, UsesCounted, BucketsRight, MinIsLowest, Kept
    <2> QED  BY <2>1, <2>2
  <1> DEFINE Fair == \A v \in Kept, k \in Kept : frequency'[v] = 0 =>
               uses[v] < uses[k] \/ (uses[v] = uses[k] /\ LastUse(v) >= LastUse(k))
  <1>3. LfuInv /\ [LfuNext]_lfuVars => [Fair]_lfuVars
    <2> SUFFICES ASSUME LfuInv, LfuNext, NEW v \in Kept, NEW k \in Kept, frequency'[v] = 0
                 PROVE  uses[v] < uses[k] \/ (uses[v] = uses[k] /\ LastUse(v) >= LastUse(k))
      OBVIOUS
    <2>1. /\ v \in LfuKeys /\ k \in LfuKeys /\ frequency[v] \in Nat /\ frequency[k] \in Nat
          /\ frequency[v] > 0 /\ frequency[k] > 0 /\ uses[v] = frequency[v] /\ uses[k] = frequency[k]
          /\ latest \in Seq(LfuKeys) /\ Distinct(latest) /\ v \in Members(latest)
          /\ frequency \in [LfuKeys -> Nat]
      BY DEF LfuInv, LfuTypes, UsesCounted, Kept
    <2>2. ASSUME NEW x \in LfuKeys, UseCached(x) PROVE FALSE
      BY <2>1, <2>2 DEF UseCached, Touch
    <2>3. PICK x \in LfuKeys : PutNew(x)
      BY <2>2 DEF LfuNext
    <2>4. Cardinality(Kept) = LfuCapacity /\ v = Last(bucket[minFrequency])
      <3>1. frequency' = [l \in LfuKeys |->
              IF l = x THEN 1
              ELSE IF l \in (IF Cardinality(Kept) = LfuCapacity THEN {Last(bucket[minFrequency])} ELSE {})
                   THEN 0 ELSE frequency[l]]
        BY <2>3 DEF PutNew
      <3> QED  BY <2>1, <3>1
    <2>5. /\ frequency[v] = minFrequency
          /\ \A y \in Kept : frequency[y] = minFrequency /\ y # v => Later(latest, y, v)
      BY <2>4, VictimIs
    <2>6. minFrequency <= frequency[k]
      BY DEF LfuInv, MinIsLowest
    <2>7. CASE frequency[k] # minFrequency
      BY <2>1, <2>5, <2>6, <2>7
    <2>8. CASE frequency[k] = minFrequency /\ k # v
      BY <2>1, <2>5, <2>8, LaterIsSooner
    <2>9. CASE k = v
      <3>1. PICK i \in 1 .. Len(latest) : latest[i] = v
        BY <2>1 DEF Members
      <3>2. LastUse(v) \in 1 .. Len(latest)
        BY <2>1, <3>1 DEF LastUse
      <3>3. LastUse(v) >= LastUse(v)
        BY <2>1, <3>2
      <3> QED  BY <2>9, <3>3
    <2> QED  BY <2>7, <2>8, <2>9
  <1> QED  BY <1>1, <1>2, <1>3, PTL DEF LfuSpec, EvictsLeastFrequent

=============================================================================
