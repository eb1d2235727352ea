--------------------------- MODULE MCSeatBooking ----------------------------
(* A small instance of SeatBooking for TLC.                                  *)
EXTENDS SeatBooking

CONSTANTS s1, s2

TwoSeats == {s1, s2}
OneSeat == {<<s1>>}
=============================================================================
