------------------------------ MODULE MCDesigns -------------------------------
(* A small instance of every design, for TLC.                                *)
EXTENDS Designs

\* The queue: at once, within the millisecond, and after a delay that is not a
\* whole number of milliseconds (TicksPerMs = 2).
MCDelays == {0, 1, 3}

CONSTANTS s1, s2
TwoSeats == {s1, s2}
\* Requests that overlap, in both orders, and one that names a seat twice.
Overlapping == {<<s1, s2>>, <<s2, s1>>, <<s2, s2>>}

\* A bus fits into one of the two spots only.
MCFits == [type \in {"car", "bus"} |-> IF type = "bus" THEN {1} ELSE {1, 2}]

\* Two small compartments; a big parcel finds none.
MCSizeOf == [c \in 1..2 |-> "small"]

\* Two copies of one event.
MCKeyOf == [m \in {"m", "copy"} |-> "event"]

\* Two carts that want the same two products in opposite orders; the last q.
MCLines == [b \in {"b1", "b2"} |-> IF b = "b1" THEN <<"p", "q">> ELSE <<"q", "p">>]
MCStock == [p \in {"p", "q"} |-> IF p = "p" THEN 2 ELSE 1]
EnoughForTwo == [p \in {"p", "q"} |-> 2]

\* 60 needs the fallback while there is a 50; paid again, it leaves no notes for 70.
MCAmounts == [t \in 1..2 |-> IF t = 1 THEN 60 ELSE 70]
MCDenominations == <<50, 20>>
MCNotes == [n \in {50, 20} |-> IF n = 50 THEN 1 ELSE 4]

\* Every hall button of three floors.
Button(f, t) == [floor |-> f, type |-> t]
MCButtons == {Button(0, "PickupUp"), Button(1, "PickupUp"),
              Button(1, "PickupDown"), Button(2, "PickupDown")}

MCPrices == 1..3

\* A console that shows warnings, a file that shows everything that is logged.
MCSinkLevels == <<2, 1>>
=============================================================================
