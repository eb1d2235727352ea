CONSTANTS
  s1 = s1  s2 = s2
  Seats <- TwoSeats
  Users = {u1, u2}
  Requests <- OneSeat
  ConfirmLimit = 2
SPECIFICATION Spec
CHECK_DEADLOCK FALSE
INVARIANTS OneBookingPerSeat
