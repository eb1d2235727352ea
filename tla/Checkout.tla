------------------------------ MODULE Checkout -------------------------------
(* CheckoutService.Checkout (02-shopping-cart): calls that run concurrently,  *)
(* for one cart or several, against the conditional stock update and a        *)
(* payment gateway that dedupes on the key.  Both are remote: a call may fail, *)
(* or its answer may be lost after it took effect.  Quantities are 1.         *)
EXTENDS Integers, Sequences, FiniteSetsExt, SequencesExt

CONSTANTS Calls, Carts, OrderKeys, Products,
          LinesOf,     \* what each cart holds at first: a sequence of products
          StockOf,     \* the initial stock
          MaxCalls,    \* bound: calls made in a behaviour
          MaxFailures  \* bound: calls of the inventory that throw

ASSUME CheckoutAssumption ==
  /\ IsFiniteSet(Calls) /\ IsFiniteSet(Carts)
  /\ LinesOf \in [Carts -> Seq(Products)]
  /\ StockOf \in [Products -> Nat]

VARIABLES
  stock,        \* the stock table
  lines,        \* Items of each cart
  cleared,      \* how often a cart was cleared: what its enumerators watch
  completed,    \* the keys of _completedByKey
  charged,      \* the gateway: the keys whose charge succeeded
  call,         \* the calls under way
  made,         \* how many calls were made
  failures,     \* (history) how many calls of the inventory threw
  orders        \* (history) the OrderResults returned: key and reserved products

checkoutVars == <<stock, lines, cleared, completed, charged, call, made, failures, orders>>

NoCall == [at |-> "idle"]
In(c, place) == call[c].at = place
Moves(c, place) == call' = [call EXCEPT ![c].at = place]

CheckoutInit ==
  /\ stock = StockOf
  /\ lines = LinesOf
  /\ cleared = [b \in Carts |-> 0]
  /\ completed = {}
  /\ charged = {}
  /\ call = [c \in Calls |-> NoCall]
  /\ made = 0
  /\ failures = 0
  /\ orders = <<>>

\* A key that is not completed: the call goes on.  A completed one is answered
\* with the recorded result, and nothing changes.
BeginCheckout(c, b, k) ==
  /\ In(c, "idle") /\ made < MaxCalls
  /\ k \notin completed
  /\ made' = made + 1
  /\ call' = [call EXCEPT ![c] = [at |-> "reserving", cart |-> b, key |-> k,
                                  since |-> cleared[b], reserved |-> <<>>]]
  /\ UNCHANGED <<stock, lines, cleared, completed, charged, failures, orders>>

\* A call of the inventory that throws, with or without effect.
Fails == failures < MaxFailures /\ failures' = failures + 1

\* TryReserve is the conditional UPDATE: it matches a row while there is stock.
\* The unit joins `reserved` when the answer arrives; when it is lost the unit is
\* gone and the call throws.
TryReserve(c, p) ==
  \/ /\ stock[p] > 0
     /\ stock' = [stock EXCEPT ![p] = @ - 1]
     /\ \/ call' = [call EXCEPT ![c].reserved = Append(@, p)] /\ UNCHANGED failures
        \/ Moves(c, "undoing") /\ Fails
  \/ stock[p] = 0 /\ Moves(c, "undoing") /\ UNCHANGED <<stock, failures>>
  \/ Moves(c, "undoing") /\ Fails /\ UNCHANGED stock

\* One turn of the foreach: it throws when the cart was cleared under it, and
\* when a line is out of stock.
ReserveLine(c) ==
  /\ In(c, "reserving")
  /\ LET me == call[c]
         next == Len(me.reserved) + 1
     IN IF cleared[me.cart] # me.since THEN Moves(c, "undoing") /\ UNCHANGED <<stock, failures>>
        ELSE IF next > Len(lines[me.cart]) THEN Moves(c, "charging") /\ UNCHANGED <<stock, failures>>
        ELSE TryReserve(c, lines[me.cart][next])
  /\ UNCHANGED <<lines, cleared, completed, charged, made, orders>>

\* Charge: the gateway knows the key, or decides now; it answers, or its answer
\* is lost and Charge throws.
ChargeKey(c) ==
  /\ In(c, "charging")
  /\ \E pays, answers \in BOOLEAN :
       /\ call[c].key \in charged => pays
       /\ charged' = IF pays THEN charged \cup {call[c].key} ELSE charged
       /\ Moves(c, IF pays /\ answers THEN "recording" ELSE "undoing")
  /\ UNCHANGED <<stock, lines, cleared, completed, made, failures, orders>>

RecordResult(c) ==
  /\ In(c, "recording")
  /\ completed' = completed \cup {call[c].key}
  /\ orders' = Append(orders, [key |-> call[c].key, products |-> call[c].reserved])
  /\ call' = [call EXCEPT ![c].at = "clearing", ![c].reserved = <<>>]
  /\ UNCHANGED <<stock, lines, cleared, charged, made, failures>>

ClearCart(c) ==
  /\ In(c, "clearing")
  /\ lines' = [lines EXCEPT ![call[c].cart] = <<>>]
  /\ cleared' = [cleared EXCEPT ![call[c].cart] = @ + 1]
  /\ call' = [call EXCEPT ![c] = NoCall]
  /\ UNCHANGED <<stock, completed, charged, made, failures, orders>>

\* Mutant: a Release that throws is called again, whether or not it took effect.
ReleaseAgain(c) ==
  /\ In(c, "undoing")
  /\ IF call[c].reserved = <<>> THEN call' = [call EXCEPT ![c] = NoCall] /\ UNCHANGED <<stock, failures>>
     ELSE LET p == Head(call[c].reserved) IN
       \/ /\ stock' = [stock EXCEPT ![p] = @ + 1]
          /\ \/ call' = [call EXCEPT ![c].reserved = Tail(@)] /\ UNCHANGED failures
             \/ UNCHANGED call /\ Fails
       \/ UNCHANGED <<stock, call>> /\ Fails
  /\ UNCHANGED <<lines, cleared, completed, charged, made, orders>>

\* The catch block gives back what was reserved, one product after the other.  A
\* Release that throws, with or without effect, ends it, and the rest is left.
ReleaseLine(c) ==
  /\ In(c, "undoing")
  /\ IF call[c].reserved = <<>> THEN call' = [call EXCEPT ![c] = NoCall] /\ UNCHANGED <<stock, failures>>
     ELSE LET p == Head(call[c].reserved) IN
       \/ /\ stock' = [stock EXCEPT ![p] = @ + 1]
          /\ \/ call' = [call EXCEPT ![c].reserved = Tail(@)] /\ UNCHANGED failures
             \/ call' = [call EXCEPT ![c] = NoCall] /\ Fails
       \/ call' = [call EXCEPT ![c] = NoCall] /\ Fails /\ UNCHANGED stock
  /\ UNCHANGED <<lines, cleared, completed, charged, made, orders>>

CheckoutNext ==
  \E c \in Calls :
    \/ \E b \in Carts, k \in OrderKeys : BeginCheckout(c, b, k)
    \/ ReserveLine(c) \/ ChargeKey(c) \/ RecordResult(c) \/ ClearCart(c) \/ ReleaseLine(c)

CheckoutSpec == CheckoutInit /\ [][CheckoutNext]_checkoutVars

-----------------------------------------------------------------------------
UnitsIn(s, p) == Cardinality({i \in DOMAIN s : s[i] = p})
ReservedNow(c, p) == IF In(c, "idle") THEN 0 ELSE UnitsIn(call[c].reserved, p)

Reserved(p) == SumFunction([c \in Calls |-> ReservedNow(c, p)])
Ordered(p) == SumFunction([i \in DOMAIN orders |-> UnitsIn(orders[i].products, p)])

\* The units that are neither in stock, nor reserved by a call that is under way,
\* nor in an order that was returned.
Missing(p) == StockOf[p] - stock[p] - Reserved(p) - Ordered(p)
MostOf(p) == Max({0} \cup {UnitsIn(LinesOf[b], p) : b \in Carts})

\* "A partial reservation must never survive a failed checkout attempt", and none
\* is given back twice.  While the inventory answers every unit is accounted for;
\* each call of it that throws leaves at most the units of one checkout behind.
StockAccounted ==
  \A p \in Products :
    /\ stock[p] >= 0
    /\ Missing(p) \in 0 .. failures * MostOf(p)

\* "The same key resubmitted returns the original order result rather than
\* creating a second order."
OneOrderPerKey ==
  \A i, j \in DOMAIN orders : orders[i].key = orders[j].key => i = j
=============================================================================
