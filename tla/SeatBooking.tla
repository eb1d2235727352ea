---------------------------- MODULE SeatBooking -----------------------------
(* BookingService of the movie ticket note: HoldSeats claims the seats of a  *)
(* request one by one with compare-and-swap and gives them back when one is  *)
(* taken; Confirm charges a hold and marks its seats booked.  Every access   *)
(* to _seatStatus is one atomic step, and the calls of all users interleave. *)
(*                                                                           *)
(* A user has one hold at a time, so the hold of user u is named u, and the  *)
(* calls for one hold come one after the other.  The status of a seat does   *)
(* not say whose it is: neither does the code.  The payment gateway is       *)
(* external: it decides once per idempotency key, and its answer may be lost *)
(* (Charge throws).  ReleaseHold is not shown by the note; it is taken to    *)
(* give seats back as the roll-back of HoldSeats does and to drop the hold.  *)
EXTENDS Naturals, SequencesExt

CONSTANTS Seats, Users,
          Requests,      \* lists of seats a user may ask for
          ConfirmLimit   \* Bookings of a hold after which a user stops confirming it

ASSUME BookingAssumption ==
  /\ Requests \subseteq Seq(Seats)
  /\ ConfirmLimit \in Nat

VARIABLES status,     \* _seatStatus
          pc,         \* where the user's calls are
          claimed,    \* the list of that name: of HoldSeats, then of the hold (SeatIds)
          left,       \* what the loop under way has not visited of its list
          expired,    \* users whose hold is past ExpiresAt
          charge,     \* the gateway's decision, by idempotency key
          bookings    \* how many Bookings Confirm has returned for a hold

vars == <<status, pc, claimed, left, expired, charge, bookings>>

SeatStatuses == {"Available", "Held", "Booked"}
Confirming   == {"charging", "answered", "marking", "releasing"}
Stations     == {"idle", "claiming", "undoing", "held"} \cup Confirming

Init ==
  /\ status = [s \in Seats |-> "Available"]
  /\ pc = [u \in Users |-> "idle"]
  /\ claimed = [u \in Users |-> <<>>]
  /\ left = [u \in Users |-> <<>>]
  /\ expired = {}
  /\ charge = [u \in Users |-> "none"]
  /\ bookings = [u \in Users |-> 0]

payVars == <<expired, charge, bookings>>

Goto(u, place) == pc' = [pc EXCEPT ![u] = place]

\* ConcurrentDictionary.TryUpdate: new replaces old, or nothing changes.
TryUpdate(s, new, old) ==
  status' = IF status[s] = old THEN [status EXCEPT ![s] = new] ELSE status

\* One round of a foreach over the seats of a hold or a roll-back.
NextSeat(u) == left[u] # <<>> /\ left' = [left EXCEPT ![u] = Tail(@)]

-----------------------------------------------------------------------------
(* HoldSeats                                                                 *)

CallHoldSeats(u, seatIds) ==
  /\ pc[u] = "idle"
  /\ Goto(u, "claiming")
  /\ left' = [left EXCEPT ![u] = seatIds]
  /\ UNCHANGED <<status, claimed, payVars>>

\* Mutant of ClaimSeat: the roll-back goes over the request, not over what was claimed of it.
ClaimSeatUndoingAll(u) ==
  /\ pc[u] = "claiming" /\ left[u] # <<>>
  /\ LET seatId == Head(left[u])
     IN /\ TryUpdate(seatId, "Held", "Available")
        /\ \/ /\ status[seatId] = "Available"
              /\ NextSeat(u)
              /\ claimed' = [claimed EXCEPT ![u] = Append(@, seatId)]
              /\ UNCHANGED pc
           \/ /\ status[seatId] # "Available"
              /\ Goto(u, "undoing")
              /\ left' = [left EXCEPT ![u] = claimed[u] \o @]
              /\ UNCHANGED claimed
  /\ UNCHANGED payVars

\* The next seat is claimed, or is not Available and the roll-back begins.
ClaimSeat(u) ==
  /\ pc[u] = "claiming" /\ left[u] # <<>>
  /\ LET seatId == Head(left[u])
     IN /\ TryUpdate(seatId, "Held", "Available")
        /\ \/ /\ status[seatId] = "Available"
              /\ NextSeat(u)
              /\ claimed' = [claimed EXCEPT ![u] = Append(@, seatId)]
              /\ UNCHANGED pc
           \/ /\ status[seatId] # "Available"
              /\ Goto(u, "undoing")
              /\ left' = [left EXCEPT ![u] = claimed[u]]
              /\ UNCHANGED claimed
  /\ UNCHANGED payVars

UndoClaim(u) ==
  /\ pc[u] = "undoing" /\ NextSeat(u)
  /\ TryUpdate(Head(left[u]), "Available", "Held")
  /\ UNCHANGED <<pc, claimed, payVars>>

\* "Seat unavailable" is thrown; the user may ask again.
RefuseRequest(u) ==
  /\ pc[u] = "undoing" /\ left[u] = <<>>
  /\ Goto(u, "idle")
  /\ claimed' = [claimed EXCEPT ![u] = <<>>]
  /\ UNCHANGED <<status, left, payVars>>

RegisterHold(u) ==
  /\ pc[u] = "claiming" /\ left[u] = <<>>
  /\ Goto(u, "held")
  /\ UNCHANGED <<status, claimed, left, payVars>>

\* The clock passes ExpiresAt, at whatever point of a call.  No code reacts.
Expire(u) ==
  /\ pc[u] \in {"held"} \cup Confirming /\ u \notin expired
  /\ expired' = expired \cup {u}
  /\ UNCHANGED <<status, pc, claimed, left, charge, bookings>>

-----------------------------------------------------------------------------
(* Confirm                                                                   *)

\* An expired hold is refused at once and nothing changes; a valid one is charged.
CallConfirm(u) ==
  /\ pc[u] = "held" /\ u \notin expired
  /\ bookings[u] < ConfirmLimit
  /\ Goto(u, "charging")
  /\ UNCHANGED <<status, claimed, left, payVars>>

\* The gateway decides, unless it has decided on this key before.
Charge(u) ==
  /\ pc[u] = "charging"
  /\ \E decision \in IF charge[u] = "none" THEN {"paid", "declined"} ELSE {charge[u]} :
       charge' = [charge EXCEPT ![u] = decision]
  /\ Goto(u, "answered")
  /\ UNCHANGED <<status, claimed, left, expired, bookings>>

\* Charge throws: its request, or the answer to it, was lost.
ChargeThrows(u) ==
  /\ pc[u] \in {"charging", "answered"}
  /\ Goto(u, "held")
  /\ UNCHANGED <<status, claimed, left, payVars>>

\* Mutant of ReadResult: the gateway's success flag is not looked at.
ReadResultAlwaysBooks(u) ==
  /\ pc[u] = "answered"
  /\ Goto(u, "marking")
  /\ left' = [left EXCEPT ![u] = claimed[u]]
  /\ UNCHANGED <<status, claimed, payVars>>

\* The result is looked at: the seats are booked, or given back.
ReadResult(u) ==
  /\ pc[u] = "answered"
  /\ Goto(u, IF charge[u] = "paid" THEN "marking" ELSE "releasing")
  /\ left' = [left EXCEPT ![u] = claimed[u]]
  /\ UNCHANGED <<status, claimed, payVars>>

MarkSeat(u) ==
  /\ pc[u] = "marking" /\ NextSeat(u)
  /\ status' = [status EXCEPT ![Head(left[u])] = "Booked"]
  /\ UNCHANGED <<pc, claimed, payVars>>

ReturnBooking(u) ==
  /\ pc[u] = "marking" /\ left[u] = <<>>
  /\ Goto(u, "held")
  /\ bookings' = [bookings EXCEPT ![u] = @ + 1]
  /\ UNCHANGED <<status, claimed, left, expired, charge>>

ReleaseSeat(u) ==
  /\ pc[u] = "releasing" /\ NextSeat(u)
  /\ TryUpdate(Head(left[u]), "Available", "Held")
  /\ UNCHANGED <<pc, claimed, payVars>>

\* ReleaseHold is done and "Payment failed" is thrown.  The user may ask for
\* seats again; that hold has an Id, an ExpiresAt and a decision of its own.
ReturnFailure(u) ==
  /\ pc[u] = "releasing" /\ left[u] = <<>>
  /\ Goto(u, "idle")
  /\ claimed' = [claimed EXCEPT ![u] = <<>>]
  /\ expired' = expired \ {u}
  /\ charge' = [charge EXCEPT ![u] = "none"]
  /\ UNCHANGED <<status, left, bookings>>

-----------------------------------------------------------------------------

Next == \E u \in Users :
  \/ \E seatIds \in Requests : CallHoldSeats(u, seatIds)
  \/ CallConfirm(u)
  \/ Expire(u)
  \/ ChargeThrows(u)
  \/ ClaimSeat(u) \/ UndoClaim(u) \/ RefuseRequest(u) \/ RegisterHold(u)
  \/ Charge(u) \/ ReadResult(u) \/ MarkSeat(u) \/ ReturnBooking(u)
  \/ ReleaseSeat(u) \/ ReturnFailure(u)

Spec == Init /\ [][Next]_vars

-----------------------------------------------------------------------------
(* Properties                                                                *)

\* Types; and a hold names no seat twice, whatever was asked for.
TypeOK ==
  /\ status \in [Seats -> SeatStatuses]
  /\ pc \in [Users -> Stations]
  /\ claimed \in [Users -> Seq(Seats)]
  /\ left \in [Users -> Seq(Seats)]
  /\ expired \subseteq Users
  /\ charge \in [Users -> {"none", "paid", "declined"}]
  /\ bookings \in [Users -> 0 .. ConfirmLimit]
  /\ \A u \in Users : IsInjective(claimed[u])

\* The seats user u has claimed and not given back.
ClaimOf(u) == ToSet(IF pc[u] \in {"undoing", "releasing"} THEN left[u] ELSE claimed[u])

Claimants(s) == {u \in Users : s \in ClaimOf(u)}

\* "Exactly one booking may succeed per seat", in the state before any booking:
\* whatever order the claims, roll-backs, payments and releases of all users
\* come in, a seat that is not Available belongs to exactly one of them, and an
\* Available one to nobody.  So no roll-back frees a seat of another user, and
\* none is left behind by a refused request or a failed payment.
OneClaimant ==
  \A s \in Seats : IF status[s] = "Available" THEN Claimants(s) = {}
                   ELSE \E u \in Users : Claimants(s) = {u}

\* Confirm books all seats of a hold or none: once a Booking has been returned
\* its seats are Booked and paid for, and no later call of anybody takes one
\* back, also when the hold expires or the payment had to be tried again.
BookingKept ==
  \A u \in Users : bookings[u] > 0 =>
    /\ charge[u] = "paid"
    /\ \A s \in ToSet(claimed[u]) : status[s] = "Booked"

\* "Exactly one booking may succeed per seat per show": the Bookings returned
\* that name a seat are at most one.  Confirm keeps the hold in _holds and does
\* not look whether it was confirmed before, so confirming again while the hold
\* is valid returns a second Booking for the same seats.
OneBookingPerSeat ==
  \A s \in Seats :
    MapThenSumSet(LAMBDA u : IF s \in ToSet(claimed[u]) THEN bookings[u] ELSE 0, Users) <= 1
=============================================================================
