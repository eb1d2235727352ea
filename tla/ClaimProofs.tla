---------------------------- MODULE ClaimProofs -----------------------------
(* Proofs about the components whose callers claim a thing step by step while *)
(* others do the same: seats, parking spots, compartments, and then the stock *)
(* and the notes that are held while money is asked for.  Each holds for any  *)
(* of its constants.                                                         *)
EXTENDS SeatBooking, ParkingLot, PackageLocker, Checkout, Withdrawal, DataLemmas

-----------------------------------------------------------------------------
(* Seats, for every set of seats and users, every list of requests (repeated *)
(* seats included) and any number of confirmations.                          *)

-----------------------------------------------------------------------------
(* Lists of distinct seats                                                   *)

DistinctSeats(S) == {l \in Seq(S) : IsInjective(l)}

\* A foreach over a list of distinct seats visits each of them once.
LEMMA TailOfDistinct ==
  ASSUME NEW S, NEW l \in DistinctSeats(S), l # <<>>
  PROVE  /\ Head(l) \in S /\ Head(l) \in ToSet(l)
         /\ Tail(l) \in DistinctSeats(S)
         /\ ToSet(Tail(l)) = ToSet(l) \ {Head(l)}
PROOF
  <1>1. /\ l \in Seq(S) /\ Len(l) \in Nat /\ Len(l) > 0
        /\ DOMAIN l = 1 .. Len(l)
        /\ \A i \in DOMAIN l : l[i] \in S
        /\ \A i, k \in DOMAIN l : l[i] = l[k] => i = k
    BY EmptySeq, LenProperties, ElementOfSeq DEF DistinctSeats, IsInjective
  <1>2. /\ Tail(l) \in Seq(S)
        /\ DOMAIN Tail(l) = 1 .. (Len(l) - 1)
        /\ \A i \in DOMAIN Tail(l) : Tail(l)[i] = l[i + 1]
    BY <1>1, HeadTailProperties, LenProperties
  <1>3. Head(l) = l[1] /\ 1 \in DOMAIN l
    BY <1>1
  <1>4. \A i \in DOMAIN Tail(l) : i + 1 \in DOMAIN l /\ i + 1 # 1
    BY <1>1, <1>2
  <1>5. \A i \in DOMAIN l : i # 1 => i - 1 \in DOMAIN Tail(l) /\ Tail(l)[i - 1] = l[i]
    BY <1>1, <1>2
  <1>6. IsInjective(Tail(l))
    BY <1>1, <1>2, <1>4 DEF IsInjective
  <1>7. ToSet(Tail(l)) = ToSet(l) \ {Head(l)}
    <2>1. \A x : x \in ToSet(Tail(l)) => x \in ToSet(l) /\ x # Head(l)
      BY <1>1, <1>2, <1>3, <1>4 DEF ToSet
    <2>2. \A x : x \in ToSet(l) /\ x # Head(l) => x \in ToSet(Tail(l))
      BY <1>3, <1>5, ZenonT(30) DEF ToSet
    <2> QED  BY <2>1, <2>2
  <1>8. Head(l) \in S /\ Head(l) \in ToSet(l)
    BY <1>1, <1>3 DEF ToSet
  <1>9. Tail(l) \in DistinctSeats(S)
    BY <1>2, <1>6 DEF DistinctSeats
  <1> QED  BY <1>7, <1>8, <1>9

\* A seat that is claimed is added to the list of claimed seats.
LEMMA AppendToDistinct ==
  ASSUME NEW S, NEW l \in DistinctSeats(S), NEW x \in S, x \notin ToSet(l)
  PROVE  /\ Append(l, x) \in DistinctSeats(S)
         /\ ToSet(Append(l, x)) = ToSet(l) \cup {x}
PROOF
  <1> DEFINE m == Append(l, x)
  <1>1. /\ l \in Seq(S) /\ Len(l) \in Nat
        /\ DOMAIN l = 1 .. Len(l)
        /\ \A i, k \in DOMAIN l : l[i] = l[k] => i = k
        /\ \A i \in DOMAIN l : l[i] # x
    BY LenProperties DEF DistinctSeats, IsInjective, ToSet
  <1>2. /\ m \in Seq(S)
        /\ DOMAIN m = 1 .. (Len(l) + 1)
        /\ \A i \in DOMAIN l : m[i] = l[i]
        /\ m[Len(l) + 1] = x
    BY <1>1, AppendProperties, LenProperties
  <1> HIDE DEF m
  <1>3. DOMAIN m = DOMAIN l \cup {Len(l) + 1} /\ Len(l) + 1 \notin DOMAIN l
    BY <1>1, <1>2
  <1>4. IsInjective(m)
    BY <1>1, <1>2, <1>3 DEF IsInjective
  <1>5. ToSet(m) = ToSet(l) \cup {x}
    BY <1>2, <1>3, ZenonT(30) DEF ToSet
  <1>6. m \in DistinctSeats(S)
    BY <1>2, <1>4 DEF DistinctSeats
  <1> QED  BY <1>5, <1>6 DEF m

LEMMA EmptyDistinct ==
  ASSUME NEW S
  PROVE  <<>> \in DistinctSeats(S) /\ ToSet(<<>>) = {}
BY DEF DistinctSeats, IsInjective, ToSet

-----------------------------------------------------------------------------
(* Seats and claims, with no reference to the state                          *)

\* Claims cl do not overlap, and account for every seat that is not Available.
Sound(st, cl) ==
  /\ \A u, v \in Users : \A s \in cl[u] : s \in cl[v] => u = v
  /\ \A s \in Seats : st[s] = "Available" <=> \A u \in Users : s \notin cl[u]

\* Claiming an Available seat keeps claims sound.
LEMMA GainSeat ==
  ASSUME NEW st \in [Seats -> SeatStatuses], NEW cl \in [Users -> SUBSET Seats], Sound(st, cl),
         NEW u \in Users, NEW s \in Seats, st[s] = "Available"
  PROVE  Sound([st EXCEPT ![s] = "Held"], [cl EXCEPT ![u] = @ \cup {s}])
BY DEF Sound

\* So does giving a claimed seat back ...
LEMMA LoseSeat ==
  ASSUME NEW st \in [Seats -> SeatStatuses], NEW cl \in [Users -> SUBSET Seats], Sound(st, cl),
         NEW u \in Users, NEW s \in cl[u]
  PROVE  Sound([st EXCEPT ![s] = "Available"], [cl EXCEPT ![u] = @ \ {s}])
BY DEF Sound

\* ... and booking it.
LEMMA BookSeat ==
  ASSUME NEW st \in [Seats -> SeatStatuses], NEW cl \in [Users -> SUBSET Seats], Sound(st, cl),
         NEW u \in Users, NEW s \in cl[u]
  PROVE  Sound([st EXCEPT ![s] = "Booked"], cl)
BY DEF Sound

-----------------------------------------------------------------------------
(* The inductive invariant                                                   *)

Claims == [u \in Users |-> ClaimOf(u)]

\* What holds of a user's call at each point of it.
Stage(u) ==
  /\ pc[u] = "idle" => claimed[u] = <<>>
  /\ pc[u] \in {"idle", "claiming", "undoing"} => charge[u] = "none" /\ bookings[u] = 0
  /\ pc[u] \in Confirming => bookings[u] < ConfirmLimit
  /\ pc[u] = "answered" => charge[u] # "none"
  /\ pc[u] = "marking" => charge[u] = "paid"
  /\ pc[u] = "releasing" => charge[u] = "declined"
  /\ pc[u] \in {"undoing", "marking", "releasing"} =>
       left[u] \in DistinctSeats(Seats) /\ ToSet(left[u]) \subseteq ToSet(claimed[u])

\* The seats of an unpaid claim are Held, so that giving them back succeeds;
\* the seats Confirm has visited are Booked, all of them once it has returned.
Kept(u) ==
  /\ charge[u] # "paid" => \A s \in ClaimOf(u) : status[s] = "Held"
  /\ pc[u] = "marking" => \A s \in ToSet(claimed[u]) \ ToSet(left[u]) : status[s] = "Booked"
  /\ bookings[u] > 0 => /\ charge[u] = "paid"
                        /\ \A s \in ToSet(claimed[u]) : status[s] = "Booked"

UserInv(u) == Stage(u) /\ Kept(u)

BookInv ==
  /\ TypeOK
  /\ Sound(status, Claims)
  /\ \A u \in Users : UserInv(u)

\* A step of another user leaves the variables of v alone.
Untouched(v) ==
  /\ pc'[v] = pc[v] /\ claimed'[v] = claimed[v] /\ left'[v] = left[v]
  /\ charge'[v] = charge[v] /\ bookings'[v] = bookings[v]

\* What a step of u may do to the seats.
Keeps(u)  == status' = status /\ ClaimOf(u)' = ClaimOf(u)
Gains(u)  == \E s \in Seats : /\ status[s] = "Available"
                              /\ status' = [status EXCEPT ![s] = "Held"]
                              /\ ClaimOf(u)' = ClaimOf(u) \cup {s}
Loses(u)  == \E s \in ClaimOf(u) : /\ status' = [status EXCEPT ![s] = "Available"]
                                   /\ ClaimOf(u)' = ClaimOf(u) \ {s}
Books(u)  == \E s \in ClaimOf(u) : /\ status' = [status EXCEPT ![s] = "Booked"]
                                   /\ ClaimOf(u)' = ClaimOf(u)

LEMMA TypeFacts ==
  ASSUME BookInv
  PROVE  /\ status \in [Seats -> SeatStatuses]
         /\ pc \in [Users -> Stations]
         /\ claimed \in [Users -> DistinctSeats(Seats)]
         /\ left \in [Users -> Seq(Seats)]
         /\ expired \subseteq Users
         /\ charge \in [Users -> {"none", "paid", "declined"}]
         /\ bookings \in [Users -> 0 .. ConfirmLimit]
         /\ Claims \in [Users -> SUBSET Seats]
         /\ \A u \in Users : Claims[u] = ClaimOf(u) /\ ClaimOf(u) \subseteq Seats
PROOF
  <1>1. /\ claimed \in [Users -> DistinctSeats(Seats)]
        /\ left \in [Users -> Seq(Seats)]
    BY DEF BookInv, TypeOK, DistinctSeats
  <1>2. \A l \in Seq(Seats) : ToSet(l) \subseteq Seats
    BY ElementOfSeq, LenProperties DEF ToSet
  <1>3. \A u \in Users : ClaimOf(u) \subseteq Seats
    BY <1>1, <1>2 DEF ClaimOf, DistinctSeats
  <1> QED  BY <1>1, <1>3 DEF BookInv, TypeOK, Claims

\* The claim of a user who has paid is the list of the hold.
LEMMA PaidClaim ==
  ASSUME NEW u \in Users, Stage(u), pc[u] = "marking" \/ charge[u] = "paid"
  PROVE  ClaimOf(u) = ToSet(claimed[u])
BY DEF Stage, ClaimOf

\* A user's part of the invariant does not depend on the others.
LEMMA OthersStep ==
  ASSUME NEW v \in Users, UserInv(v), Untouched(v),
         \A s \in ClaimOf(v) : status'[s] = status[s]
  PROVE  UserInv(v)' /\ ClaimOf(v)' = ClaimOf(v)
PROOF
  <1>1. ClaimOf(v)' = ClaimOf(v)
    BY DEF Untouched, ClaimOf
  <1>2. Stage(v)'
    BY DEF UserInv, Untouched, Stage
  <1>3. pc[v] = "marking" \/ bookings[v] > 0 => ClaimOf(v) = ToSet(claimed[v])
    BY PaidClaim DEF UserInv, Stage, Kept
  <1>4. Kept(v)'
    BY <1>1, <1>3 DEF UserInv, Untouched, Kept
  <1> QED  BY <1>1, <1>2, <1>4 DEF UserInv

\* A step of u keeps the invariant if it does what a step may do to the seats
\* and keeps u's own part.
LEMMA UserStep ==
  ASSUME BookInv, NEW u \in Users, TypeOK', UserInv(u)',
         \A v \in Users \ {u} : Untouched(v),
         Keeps(u) \/ Gains(u) \/ Loses(u) \/ Books(u)
  PROVE  BookInv'
PROOF
  <1>1. \A v \in Users : \A s \in ClaimOf(v) :
          /\ status[s] # "Available"
          /\ s \in ClaimOf(u) => u = v
    BY TypeFacts DEF BookInv, Sound
  <1>2. ASSUME NEW v \in Users \ {u}, NEW s \in ClaimOf(v)
        PROVE  status'[s] = status[s]
    BY <1>1, <1>2, TypeFacts DEF Keeps, Gains, Loses, Books
  <1>3. \A v \in Users \ {u} : UserInv(v)' /\ ClaimOf(v)' = ClaimOf(v)
    BY <1>2, OthersStep DEF BookInv
  <1>4. Claims' = [Claims EXCEPT ![u] = ClaimOf(u)']
    BY <1>3 DEF Claims
  <1>5. Sound(status', Claims')
    <2>1. CASE Keeps(u)
      BY <1>4, <2>1, TypeFacts DEF Keeps, BookInv
    <2>2. CASE Gains(u)
      <3>1. PICK s \in Seats : /\ status' = [status EXCEPT ![s] = "Held"]
                              /\ ClaimOf(u)' = ClaimOf(u) \cup {s} /\ status[s] = "Available"
        BY <2>2 DEF Gains
      <3>2. Claims' = [Claims EXCEPT ![u] = @ \cup {s}]
        BY <1>4, <3>1, TypeFacts DEF Claims
      <3>3. Sound([status EXCEPT ![s] = "Held"], [Claims EXCEPT ![u] = @ \cup {s}])
        BY <3>1, TypeFacts, GainSeat DEF BookInv
      <3> QED  BY <3>1, <3>2, <3>3
    <2>3. CASE Loses(u)
      <3>1. PICK s \in ClaimOf(u) : /\ status' = [status EXCEPT ![s] = "Available"]
                              /\ ClaimOf(u)' = ClaimOf(u) \ {s}
        BY <2>3 DEF Loses
      <3>2. Claims' = [Claims EXCEPT ![u] = @ \ {s}]
        BY <1>4, <3>1, TypeFacts DEF Claims
      <3>3. Sound([status EXCEPT ![s] = "Available"], [Claims EXCEPT ![u] = @ \ {s}])
        BY <3>1, TypeFacts, LoseSeat DEF BookInv
      <3> QED  BY <3>1, <3>2, <3>3
    <2>4. CASE Books(u)
      <3>1. PICK s \in ClaimOf(u) : /\ status' = [status EXCEPT ![s] = "Booked"]
                              /\ ClaimOf(u)' = ClaimOf(u)
        BY <2>4 DEF Books
      <3>2. Claims' = Claims
        BY <1>4, <3>1, TypeFacts DEF Claims
      <3>3. Sound([status EXCEPT ![s] = "Booked"], Claims)
        <4>1. s \in Claims[u] /\ Claims \in [Users -> SUBSET Seats]
          BY <3>1, TypeFacts
        <4> QED  BY <4>1, TypeFacts, BookSeat DEF BookInv
      <3> QED  BY <3>1, <3>2, <3>3
    <2> QED  BY <2>1, <2>2, <2>3, <2>4
  <1> QED  BY <1>3, <1>5 DEF BookInv, Sound

-----------------------------------------------------------------------------
(* The steps that leave the seats alone                                      *)

\* A request for seats.
LEMMA CallHoldSeatsStep ==
  ASSUME BookInv, NEW u \in Users, NEW seatIds \in Requests, CallHoldSeats(u, seatIds)
  PROVE  BookInv'
PROOF
  <1> USE DEF CallHoldSeats, Goto, payVars
  <1>1. /\ Stage(u) /\ Kept(u)
        /\ \A v \in Users \ {u} : Untouched(v)
    BY TypeFacts DEF BookInv, UserInv, Untouched
  <1>2. Keeps(u)
    BY <1>1, TypeFacts, BookingAssumption DEF Keeps, ClaimOf, Stage
  <1>3. TypeOK'
    BY <1>1, TypeFacts, BookingAssumption DEF BookInv, TypeOK, Stations, Confirming, Stage
  <1>4. Stage(u)'
    BY <1>1, TypeFacts, BookingAssumption DEF Stage, Confirming
  <1>5. Kept(u)'
    BY <1>1, <1>2, TypeFacts DEF Keeps, Kept, Stage, Confirming
  <1> QED  BY <1>1, <1>2, <1>3, <1>4, <1>5, UserStep DEF UserInv

\* A roll-back that is done leaves no claim.
LEMMA RefuseRequestStep ==
  ASSUME BookInv, NEW u \in Users, RefuseRequest(u)
  PROVE  BookInv'
PROOF
  <1> USE DEF RefuseRequest, Goto, payVars
  <1>1. /\ Stage(u) /\ Kept(u)
        /\ \A v \in Users \ {u} : Untouched(v)
    BY TypeFacts DEF BookInv, UserInv, Untouched
  <1>2. Keeps(u)
    BY <1>1, TypeFacts, EmptyDistinct DEF Keeps, ClaimOf, Stage, DistinctSeats
  <1>3. TypeOK'
    BY <1>1, TypeFacts, EmptyDistinct DEF BookInv, TypeOK, Stations, Confirming, Stage, DistinctSeats
  <1>4. Stage(u)'
    BY <1>1, TypeFacts, EmptyDistinct DEF Stage, Confirming
  <1>5. Kept(u)'
    BY <1>1, <1>2, TypeFacts DEF Keeps, Kept, Stage, Confirming
  <1> QED  BY <1>1, <1>2, <1>3, <1>4, <1>5, UserStep DEF UserInv

\* A hold is registered with what was claimed.
LEMMA RegisterHoldStep ==
  ASSUME BookInv, NEW u \in Users, RegisterHold(u)
  PROVE  BookInv'
PROOF
  <1> USE DEF RegisterHold, Goto, payVars
  <1>1. /\ Stage(u) /\ Kept(u)
        /\ \A v \in Users \ {u} : Untouched(v)
    BY TypeFacts DEF BookInv, UserInv, Untouched
  <1>2. Keeps(u)
    BY <1>1, TypeFacts DEF Keeps, ClaimOf, Stage
  <1>3. TypeOK'
    BY <1>1, TypeFacts DEF BookInv, TypeOK, Stations, Confirming, Stage
  <1>4. Stage(u)'
    BY <1>1, TypeFacts DEF Stage, Confirming
  <1>5. Kept(u)'
    BY <1>1, <1>2, TypeFacts DEF Keeps, Kept, Stage, Confirming
  <1> QED  BY <1>1, <1>2, <1>3, <1>4, <1>5, UserStep DEF UserInv

\* A hold expires.
LEMMA ExpireStep ==
  ASSUME BookInv, NEW u \in Users, Expire(u)
  PROVE  BookInv'
PROOF
  <1> USE DEF Expire, Goto, payVars
  <1>1. /\ Stage(u) /\ Kept(u)
        /\ \A v \in Users \ {u} : Untouched(v)
    BY TypeFacts DEF BookInv, UserInv, Untouched
  <1>2. Keeps(u)
    BY <1>1, TypeFacts DEF Keeps, ClaimOf, Stage
  <1>3. TypeOK'
    BY <1>1, TypeFacts DEF BookInv, TypeOK, Stations, Confirming, Stage
  <1>4. Stage(u)'
    BY <1>1, TypeFacts DEF Stage, Confirming
  <1>5. Kept(u)'
    BY <1>1, <1>2, TypeFacts DEF Keeps, Kept, Stage, Confirming
  <1> QED  BY <1>1, <1>2, <1>3, <1>4, <1>5, UserStep DEF UserInv

\* A hold is confirmed.
LEMMA CallConfirmStep ==
  ASSUME BookInv, NEW u \in Users, CallConfirm(u)
  PROVE  BookInv'
PROOF
  <1> USE DEF CallConfirm, Goto, payVars
  <1>1. /\ Stage(u) /\ Kept(u)
        /\ \A v \in Users \ {u} : Untouched(v)
    BY TypeFacts DEF BookInv, UserInv, Untouched
  <1>2. Keeps(u)
    BY <1>1, TypeFacts DEF Keeps, ClaimOf, Stage
  <1>3. TypeOK'
    BY <1>1, TypeFacts DEF BookInv, TypeOK, Stations, Confirming, Stage
  <1>4. Stage(u)'
    BY <1>1, TypeFacts DEF Stage, Confirming
  <1>5. Kept(u)'
    BY <1>1, <1>2, TypeFacts DEF Keeps, Kept, Stage, Confirming
  <1> QED  BY <1>1, <1>2, <1>3, <1>4, <1>5, UserStep DEF UserInv

\* The gateway decides.
LEMMA ChargeStep ==
  ASSUME BookInv, NEW u \in Users, Charge(u)
  PROVE  BookInv'
PROOF
  <1> USE DEF Charge, Goto, payVars
  <1>1. /\ Stage(u) /\ Kept(u)
        /\ \A v \in Users \ {u} : Untouched(v)
    BY TypeFacts DEF BookInv, UserInv, Untouched
  <1>2. Keeps(u)
    BY <1>1, TypeFacts DEF Keeps, ClaimOf, Stage
  <1>3. TypeOK'
    BY <1>1, TypeFacts DEF BookInv, TypeOK, Stations, Confirming, Stage
  <1>4. Stage(u)'
    BY <1>1, TypeFacts DEF Stage, Confirming
  <1>5. Kept(u)'
    BY <1>1, <1>2, TypeFacts DEF Keeps, Kept, Stage, Confirming
  <1> QED  BY <1>1, <1>2, <1>3, <1>4, <1>5, UserStep DEF UserInv

\* An answer is lost.
LEMMA ChargeThrowsStep ==
  ASSUME BookInv, NEW u \in Users, ChargeThrows(u)
  PROVE  BookInv'
PROOF
  <1> USE DEF ChargeThrows, Goto, payVars
  <1>1. /\ Stage(u) /\ Kept(u)
        /\ \A v \in Users \ {u} : Untouched(v)
    BY TypeFacts DEF BookInv, UserInv, Untouched
  <1>2. Keeps(u)
    BY <1>1, TypeFacts DEF Keeps, ClaimOf, Stage
  <1>3. TypeOK'
    BY <1>1, TypeFacts DEF BookInv, TypeOK, Stations, Confirming, Stage
  <1>4. Stage(u)'
    BY <1>1, TypeFacts DEF Stage, Confirming
  <1>5. Kept(u)'
    BY <1>1, <1>2, TypeFacts DEF Keeps, Kept, Stage, Confirming
  <1> QED  BY <1>1, <1>2, <1>3, <1>4, <1>5, UserStep DEF UserInv

\* The answer is read.
LEMMA ReadResultStep ==
  ASSUME BookInv, NEW u \in Users, ReadResult(u)
  PROVE  BookInv'
PROOF
  <1> USE DEF ReadResult, Goto, payVars
  <1>1. /\ Stage(u) /\ Kept(u)
        /\ \A v \in Users \ {u} : Untouched(v)
    BY TypeFacts DEF BookInv, UserInv, Untouched
  <1>2. Keeps(u)
    BY <1>1, TypeFacts DEF Keeps, ClaimOf, Stage, DistinctSeats
  <1>3. TypeOK'
    BY <1>1, TypeFacts DEF BookInv, TypeOK, Stations, Confirming, Stage, DistinctSeats
  <1>4. Stage(u)'
    BY <1>1, TypeFacts DEF Stage, Confirming
  <1>5. Kept(u)'
    BY <1>1, <1>2, TypeFacts DEF Keeps, Kept, Stage, Confirming
  <1> QED  BY <1>1, <1>2, <1>3, <1>4, <1>5, UserStep DEF UserInv

\* A Booking is returned when all seats have been visited.
LEMMA ReturnBookingStep ==
  ASSUME BookInv, NEW u \in Users, ReturnBooking(u)
  PROVE  BookInv'
PROOF
  <1> USE DEF ReturnBooking, Goto, payVars
  <1>1. /\ Stage(u) /\ Kept(u)
        /\ \A v \in Users \ {u} : Untouched(v)
    BY TypeFacts DEF BookInv, UserInv, Untouched
  <1>2. Keeps(u)
    BY <1>1, TypeFacts, EmptyDistinct DEF Keeps, ClaimOf, Stage
  <1>3. TypeOK'
    <2>1. bookings[u] + 1 \in 0 .. ConfirmLimit
      BY <1>1, TypeFacts, BookingAssumption DEF Stage, Confirming
    <2> QED  BY <1>1, <2>1, TypeFacts DEF BookInv, TypeOK, Stations, Confirming, Stage
  <1>4. Stage(u)'
    BY <1>1, TypeFacts, EmptyDistinct DEF Stage, Confirming
  <1>5. Kept(u)'
    BY <1>1, <1>2, TypeFacts, EmptyDistinct DEF Keeps, Kept, Stage, Confirming
  <1> QED  BY <1>1, <1>2, <1>3, <1>4, <1>5, UserStep DEF UserInv

\* A failed payment leaves no claim.
LEMMA ReturnFailureStep ==
  ASSUME BookInv, NEW u \in Users, ReturnFailure(u)
  PROVE  BookInv'
PROOF
  <1> USE DEF ReturnFailure, Goto, payVars
  <1>1. /\ Stage(u) /\ Kept(u)
        /\ \A v \in Users \ {u} : Untouched(v)
    BY TypeFacts DEF BookInv, UserInv, Untouched
  <1>2. Keeps(u)
    BY <1>1, TypeFacts, EmptyDistinct DEF Keeps, ClaimOf, Stage, DistinctSeats
  <1>3. TypeOK'
    BY <1>1, TypeFacts, EmptyDistinct DEF BookInv, TypeOK, Stations, Confirming, Stage, DistinctSeats
  <1>4. Stage(u)'
    BY <1>1, TypeFacts DEF Stage, Kept, Confirming
  <1>5. Kept(u)'
    BY <1>1, <1>2, TypeFacts DEF Keeps, Kept, Stage, Confirming
  <1> QED  BY <1>1, <1>2, <1>3, <1>4, <1>5, UserStep DEF UserInv

-----------------------------------------------------------------------------
(* The steps of the loops over seats                                         *)

\* A claim succeeds on an Available seat, which nobody has, or starts a
\* roll-back of exactly what was claimed.
LEMMA ClaimSeatStep ==
  ASSUME BookInv, NEW u \in Users, ClaimSeat(u)
  PROVE  BookInv'
PROOF
  <1> DEFINE seatId == Head(left[u])
  <1>1. /\ Stage(u) /\ Kept(u)
        /\ \A v \in Users \ {u} : Untouched(v)
    BY TypeFacts DEF BookInv, UserInv, Untouched, ClaimSeat, Goto, NextSeat, payVars
  <1>2. /\ pc[u] = "claiming" /\ charge[u] = "none" /\ bookings[u] = 0
        /\ left[u] \in Seq(Seats) /\ left[u] # <<>>
        /\ seatId \in Seats /\ Tail(left[u]) \in Seq(Seats)
        /\ claimed[u] \in DistinctSeats(Seats)
        /\ ClaimOf(u) = ToSet(claimed[u])
        /\ UNCHANGED payVars
    BY <1>1, TypeFacts, HeadTailProperties DEF ClaimSeat, Stage, ClaimOf
  <1>3. CASE status[seatId] = "Available"
    <2>1. /\ status' = [status EXCEPT ![seatId] = "Held"]
          /\ pc' = pc
          /\ left' = [left EXCEPT ![u] = Tail(@)]
          /\ claimed' = [claimed EXCEPT ![u] = Append(@, seatId)]
      BY <1>3 DEF ClaimSeat, TryUpdate, NextSeat
    <2>2. seatId \notin ClaimOf(u)
      BY <1>2, <1>3, TypeFacts DEF BookInv, Sound
    <2>3. /\ claimed'[u] \in DistinctSeats(Seats)
          /\ ToSet(claimed'[u]) = ToSet(claimed[u]) \cup {seatId}
      BY <1>2, <2>1, <2>2, TypeFacts, AppendToDistinct
    <2>4. ClaimOf(u)' = ClaimOf(u) \cup {seatId}
      BY <1>2, <2>1, <2>3, TypeFacts DEF ClaimOf
    <2>5. Gains(u)
      BY <1>2, <1>3, <2>1, <2>4 DEF Gains
    <2>6. TypeOK'
      <3>1. claimed' \in [Users -> DistinctSeats(Seats)]
        BY <2>1, <2>3, TypeFacts
      <3>2. left' \in [Users -> Seq(Seats)]
        BY <1>2, <2>1, TypeFacts
      <3> QED  BY <1>2, <2>1, <3>1, <3>2, TypeFacts DEF TypeOK, DistinctSeats, SeatStatuses, payVars
    <2>7. Stage(u)'
      BY <1>1, <1>2, <2>1 DEF Stage, payVars, Confirming
    <2>8. Kept(u)'
      BY <1>1, <1>2, <2>1, <2>4, TypeFacts DEF Kept, payVars
    <2> QED  BY <1>1, <2>5, <2>6, <2>7, <2>8, UserStep DEF UserInv
  <1>4. CASE status[seatId] # "Available"
    <2>1. /\ status' = status /\ claimed' = claimed
          /\ pc' = [pc EXCEPT ![u] = "undoing"]
          /\ left' = [left EXCEPT ![u] = claimed[u]]
      BY <1>4 DEF ClaimSeat, TryUpdate, Goto
    <2>2. Keeps(u)
      BY <1>2, <2>1, TypeFacts DEF Keeps, ClaimOf
    <2>3. TypeOK'
      BY <1>2, <2>1, TypeFacts DEF TypeOK, DistinctSeats, Stations, payVars
    <2>4. Stage(u)'
      BY <1>1, <1>2, <2>1, TypeFacts DEF Stage, payVars, Confirming
    <2>5. Kept(u)'
      BY <1>1, <1>2, <2>1, <2>2, TypeFacts DEF Kept, Keeps, payVars
    <2> QED  BY <1>1, <2>2, <2>3, <2>4, <2>5, UserStep DEF UserInv
  <1> QED  BY <1>3, <1>4

\* A seat that is given back was Held for this user, in a roll-back and in
\* ReleaseHold alike.
LEMMA GiveBackStep ==
  ASSUME BookInv, NEW u \in Users, UndoClaim(u) \/ ReleaseSeat(u)
  PROVE  BookInv'
PROOF
  <1> DEFINE seatId == Head(left[u])
  <1>1. /\ Stage(u) /\ Kept(u)
        /\ \A v \in Users \ {u} : Untouched(v)
    BY TypeFacts DEF BookInv, UserInv, Untouched, UndoClaim, ReleaseSeat, NextSeat, payVars
  <1>2. /\ pc[u] \in {"undoing", "releasing"} /\ charge[u] # "paid"
        /\ left[u] \in DistinctSeats(Seats) /\ left[u] # <<>>
        /\ ToSet(left[u]) \subseteq ToSet(claimed[u])
        /\ ClaimOf(u) = ToSet(left[u])
        /\ left' = [left EXCEPT ![u] = Tail(@)]
        /\ UNCHANGED <<pc, claimed, payVars>>
    BY <1>1, TypeFacts DEF UndoClaim, ReleaseSeat, NextSeat, Stage, ClaimOf
  <1>3. /\ seatId \in ClaimOf(u) /\ seatId \in Seats
        /\ Tail(left[u]) \in DistinctSeats(Seats)
        /\ ToSet(Tail(left[u])) = ToSet(left[u]) \ {seatId}
    BY <1>2, TailOfDistinct
  <1>4. status' = [status EXCEPT ![seatId] = "Available"]
    BY <1>1, <1>2, <1>3 DEF UndoClaim, ReleaseSeat, TryUpdate, Kept
  <1>5. left'[u] = Tail(left[u])
    BY <1>2, TypeFacts
  <1>6. ClaimOf(u)' = ClaimOf(u) \ {seatId}
    BY <1>2, <1>3, <1>5 DEF ClaimOf
  <1>7. Loses(u)
    BY <1>3, <1>4, <1>6 DEF Loses
  <1>8. TypeOK'
    <2>1. left' \in [Users -> Seq(Seats)]
      BY <1>2, <1>3, TypeFacts DEF DistinctSeats
    <2> QED  BY <1>2, <1>4, <2>1, TypeFacts DEF TypeOK, DistinctSeats, SeatStatuses, payVars
  <1>9. Stage(u)'
    BY <1>1, <1>2, <1>3, <1>5 DEF Stage, payVars, Confirming
  <1>10. Kept(u)'
    <2>1. bookings[u] = 0 \/ ~(bookings[u] > 0)
      BY <1>1, <1>2 DEF Kept
    <2> QED  BY <1>1, <1>2, <1>4, <1>6, <2>1, TypeFacts DEF Kept, payVars
  <1> QED  BY <1>1, <1>7, <1>8, <1>9, <1>10, UserStep DEF UserInv

\* A seat is booked for the user who has claimed it.
LEMMA MarkSeatStep ==
  ASSUME BookInv, NEW u \in Users, MarkSeat(u)
  PROVE  BookInv'
PROOF
  <1> DEFINE seatId == Head(left[u])
  <1>1. /\ Stage(u) /\ Kept(u)
        /\ \A v \in Users \ {u} : Untouched(v)
    BY TypeFacts DEF BookInv, UserInv, Untouched, MarkSeat, NextSeat, payVars
  <1>2. /\ pc[u] = "marking" /\ charge[u] = "paid"
        /\ left[u] \in DistinctSeats(Seats) /\ left[u] # <<>>
        /\ ToSet(left[u]) \subseteq ToSet(claimed[u])
        /\ ClaimOf(u) = ToSet(claimed[u])
        /\ left' = [left EXCEPT ![u] = Tail(@)]
        /\ status' = [status EXCEPT ![seatId] = "Booked"]
        /\ UNCHANGED <<pc, claimed, payVars>>
    BY <1>1, TypeFacts DEF MarkSeat, NextSeat, Stage, ClaimOf
  <1>3. /\ seatId \in ClaimOf(u) /\ seatId \in Seats
        /\ Tail(left[u]) \in DistinctSeats(Seats)
        /\ ToSet(Tail(left[u])) = ToSet(left[u]) \ {seatId}
    BY <1>2, TailOfDistinct
  <1>4. left'[u] = Tail(left[u])
    BY <1>2, TypeFacts
  <1>5. ClaimOf(u)' = ClaimOf(u)
    BY <1>2 DEF ClaimOf
  <1>6. Books(u)
    BY <1>2, <1>3, <1>5 DEF Books
  <1>7. TypeOK'
    <2>1. left' \in [Users -> Seq(Seats)]
      BY <1>2, <1>3, TypeFacts DEF DistinctSeats
    <2> QED  BY <1>2, <2>1, TypeFacts DEF TypeOK, DistinctSeats, SeatStatuses, payVars
  <1>8. Stage(u)'
    BY <1>1, <1>2, <1>3, <1>4 DEF Stage, payVars, Confirming
  <1>9. Kept(u)'
    BY <1>1, <1>2, <1>3, <1>4, TypeFacts DEF Kept, payVars
  <1> QED  BY <1>1, <1>6, <1>7, <1>8, <1>9, UserStep DEF UserInv

-----------------------------------------------------------------------------
(* Every behaviour                                                           *)

LEMMA BookInit == Init => BookInv
PROOF
  <1> SUFFICES ASSUME Init PROVE BookInv
    OBVIOUS
  <1>1. \A u \in Users : /\ pc[u] = "idle" /\ claimed[u] = <<>> /\ left[u] = <<>>
                         /\ charge[u] = "none" /\ bookings[u] = 0
    BY DEF Init
  <1>2. <<>> \in DistinctSeats(Seats) /\ ToSet(<<>>) = {}
    BY EmptyDistinct
  <1>3. \A u \in Users : ClaimOf(u) = {}
    BY <1>1, <1>2 DEF ClaimOf
  <1>4. TypeOK
    BY <1>2, BookingAssumption DEF Init, TypeOK, DistinctSeats, SeatStatuses, Stations
  <1>5. Sound(status, Claims)
    BY <1>3 DEF Init, Sound, Claims
  <1>6. \A u \in Users : UserInv(u)
    BY <1>1, <1>2, <1>3 DEF UserInv, Stage, Kept, Confirming
  <1> QED  BY <1>4, <1>5, <1>6 DEF BookInv

LEMMA BookNext == BookInv /\ [Next]_vars => BookInv'
PROOF
  <1> SUFFICES ASSUME BookInv, [Next]_vars PROVE BookInv'
    OBVIOUS
  <1>1. ASSUME NEW u \in Users, NEW seatIds \in Requests, CallHoldSeats(u, seatIds)
        PROVE  BookInv'
    BY <1>1, CallHoldSeatsStep
  <1>2. ASSUME NEW u \in Users, ClaimSeat(u) \/ UndoClaim(u) \/ RefuseRequest(u) \/ RegisterHold(u)
        PROVE  BookInv'
    BY <1>2, ClaimSeatStep, GiveBackStep, RefuseRequestStep, RegisterHoldStep
  <1>3. ASSUME NEW u \in Users, CallConfirm(u) \/ Expire(u) \/ Charge(u) \/ ChargeThrows(u)
        PROVE  BookInv'
    BY <1>3, CallConfirmStep, ExpireStep, ChargeStep, ChargeThrowsStep
  <1>4. ASSUME NEW u \in Users, ReadResult(u) \/ MarkSeat(u) \/ ReturnBooking(u)
                                \/ ReleaseSeat(u) \/ ReturnFailure(u)
        PROVE  BookInv'
    BY <1>4, ReadResultStep, MarkSeatStep, ReturnBookingStep, GiveBackStep, ReturnFailureStep
  <1>5. CASE UNCHANGED vars
    BY <1>5 DEF vars, BookInv, TypeOK, Sound, Claims, ClaimOf, UserInv, Stage, Kept
  <1> QED  BY <1>1, <1>2, <1>3, <1>4, <1>5 DEF Next

\* The inductive invariant holds in every reachable state.
THEOREM BookingInvariant == Spec => []BookInv
BY BookInit, BookNext, PTL DEF Spec

\* Type correctness; and no hold names a seat twice, also when the request did.
THEOREM BookingTypeCorrect == Spec => []TypeOK
BY BookingInvariant, PTL DEF BookInv

\* A seat that is not Available belongs to exactly one user, an Available one to
\* nobody, for any number of users and any interleaving of HoldSeats and Confirm.
THEOREM BookingOneClaimant == Spec => []OneClaimant
PROOF
  <1>1. BookInv => OneClaimant
    <2> SUFFICES ASSUME BookInv, NEW s \in Seats
                 PROVE  IF status[s] = "Available" THEN Claimants(s) = {}
                        ELSE \E u \in Users : Claimants(s) = {u}
      BY DEF OneClaimant
    <2>1. /\ \A u, v \in Users : s \in ClaimOf(u) /\ s \in ClaimOf(v) => u = v
          /\ status[s] = "Available" <=> \A u \in Users : s \notin ClaimOf(u)
      BY TypeFacts DEF BookInv, Sound
    <2> QED  BY <2>1 DEF Claimants
  <1> QED  BY <1>1, BookingInvariant, PTL

\* Once Confirm has returned a Booking its seats stay Booked and paid for,
\* whatever expires, fails or is retried afterwards.
THEOREM BookingStays == Spec => []BookingKept
PROOF
  <1>1. BookInv => BookingKept
    BY DEF BookInv, UserInv, Kept, BookingKept
  <1> QED  BY <1>1, BookingInvariant, PTL

-----------------------------------------------------------------------------
(* Parking spots, for any gates, spots and types of vehicle, any allocation  *)
(* strategy and any number of tickets.                                       *)

\* What the two maps and the gates between their writes say of one spot, which
\* is how each step is checked: OneOwnerPerSpot, spot by spot.
Owned(s) ==
  \/ \E t \in tickets : t.spot = s
  \/ \E g \in Gates : Between(g) /\ gate[g].spot = s

Owners ==
  /\ \A s \in Spots : s \in occupied <=> Owned(s)
  /\ \A t, u \in tickets : t.spot = u.spot => t = u
  /\ \A g, h \in Gates : Between(g) /\ Between(h) /\ gate[g].spot = gate[h].spot => g = h
  /\ \A t \in tickets, g \in Gates : Between(g) => t.spot # gate[g].spot

ParkingInv == ParkingTypeOK /\ Owners

\* The two ways to state it agree.
LEMMA OwnersAreOccupied ==
  ASSUME ParkingTypeOK
  PROVE  Owners <=> OneOwnerPerSpot
PROOF
  <1>1. /\ occupied \subseteq Spots
        /\ \A t \in tickets : t.spot \in Spots
        /\ \A g \in Gates : Between(g) => gate[g].spot \in Spots
    BY DEF ParkingTypeOK, Between
  <1>2. (\A s \in Spots : s \in occupied <=> Owned(s))
          <=> occupied = {t.spot : t \in tickets} \cup {gate[g].spot : g \in {h \in Gates : Between(h)}}
    BY <1>1 DEF Owned
  <1> QED  BY <1>2 DEF Owners, OneOwnerPerSpot

LEMMA ParkingStart == ParkingInit => ParkingInv
BY DEF ParkingInit, ParkingInv, ParkingTypeOK, Owners, Owned, Between, AtRest, GateStates

-----------------------------------------------------------------------------
(* One lemma per kind of step.                                               *)

\* Looking for a spot, and giving up, touches no map and leaves no gate between
\* two writes.
LEMMA ScanningKeeps ==
  ASSUME ParkingInv, NEW g \in Gates,
         \/ \E type \in VehicleTypes : Enter(g, type)
         \/ \E s \in Spots : LookAt(g, s)
         \/ Refuse(g)
  PROVE  ParkingInv'
PROOF
  <1>1. /\ UNCHANGED <<occupied, tickets, issued>>
        /\ gate[g].at \in {"idle", "scanning"}
        /\ gate' = [gate EXCEPT ![g] = gate'[g]]
        /\ gate'[g] \in GateStates /\ gate'[g].at \notin {"ticketing", "leaving"}
        /\ gate'[g].at = "claiming" => gate'[g].spot \in Spots
    BY ParkingAssumption DEF Enter, LookAt, Refuse, ParkingInv, ParkingTypeOK, GateStates,
                             AtRest, Scanning
  <1>2. \A h \in Gates : Between(h)' <=> Between(h)
    BY <1>1 DEF Between, ParkingInv, ParkingTypeOK
  <1>3. \A h \in Gates : Between(h) => gate'[h] = gate[h]
    BY <1>1 DEF Between, ParkingInv, ParkingTypeOK
  <1>4. ParkingTypeOK'
    BY <1>1 DEF ParkingInv, ParkingTypeOK
  <1>5. Owners'
    BY <1>1, <1>2, <1>3 DEF ParkingInv, Owners, Owned
  <1> QED  BY <1>4, <1>5 DEF ParkingInv

\* A claim takes a spot that nobody owns, or none.
LEMMA ClaimKeeps ==
  ASSUME ParkingInv, NEW g \in Gates, Claim(g)
  PROVE  ParkingInv'
PROOF
  <1> USE DEF ParkingInv, ParkingTypeOK
  <1>1. gate[g] \in GateStates /\ gate[g].at = "claiming" /\ gate[g].spot \in Spots
        /\ ~Between(g)
    BY DEF Claim, Between
  <1>2. CASE gate[g].spot \in occupied
    <2>1. /\ UNCHANGED <<occupied, tickets, issued>>
          /\ gate' = [gate EXCEPT ![g] = Scanning(gate[g].among)]
      BY <1>2 DEF Claim
    <2>2. Scanning(gate[g].among) \in GateStates
      BY <1>1 DEF GateStates, Scanning
    <2>3. \A h \in Gates : (Between(h)' <=> Between(h)) /\ (Between(h) => gate'[h] = gate[h])
      BY <1>1, <2>1 DEF Between, Scanning
    <2>4. ParkingTypeOK'
      BY <1>1, <2>1, <2>2 DEF Scanning
    <2>5. Owners'
      BY <2>1, <2>3 DEF Owners, Owned
    <2> QED  BY <2>4, <2>5
  <1>3. CASE gate[g].spot \notin occupied
    <2>1. /\ UNCHANGED <<tickets, issued>>
          /\ occupied' = occupied \cup {gate[g].spot}
          /\ gate' = [gate EXCEPT ![g].at = "ticketing"]
      BY <1>3 DEF Claim
    <2>2. /\ gate'[g].at = "ticketing" /\ gate'[g].spot = gate[g].spot
          /\ gate'[g] \in GateStates
          /\ \A h \in Gates : h # g => gate'[h] = gate[h]
      BY <1>1, <2>1 DEF GateStates
    <2>3. \A h \in Gates : Between(h)' <=> (h = g \/ Between(h))
      BY <2>2 DEF Between
    <2>4. ParkingTypeOK'
      BY <1>1, <2>1, <2>2
    <2>5. ~Owned(gate[g].spot)
      BY <1>1, <1>3 DEF Owners
    <2>6. Owners'
      BY <1>1, <2>1, <2>2, <2>3, <2>5 DEF Owners, Owned
    <2> QED  BY <2>4, <2>6
  <1> QED  BY <1>2, <1>3

\* The ticket takes the spot over from the gate.
LEMMA IssueKeeps ==
  ASSUME ParkingInv, NEW g \in Gates, Issue(g)
  PROVE  ParkingInv'
PROOF
  <1> USE DEF ParkingInv, ParkingTypeOK
  <1> DEFINE new == [id |-> issued, spot |-> gate[g].spot]
  <1>1. /\ gate[g] \in GateStates /\ Between(g) /\ gate[g].spot \in Spots
        /\ UNCHANGED occupied
        /\ tickets' = tickets \cup {new} /\ issued' = issued + 1
        /\ gate' = [gate EXCEPT ![g] = AtRest]
    BY DEF Issue, Between
  <1>2. /\ AtRest \in GateStates
        /\ \A h \in Gates : Between(h)' <=> (h # g /\ Between(h))
        /\ \A h \in Gates : h # g => gate'[h] = gate[h]
    BY <1>1 DEF Between, AtRest, GateStates
  <1>3. ParkingTypeOK'
    BY <1>1, <1>2 DEF AtRest
  <1>4. new.spot = gate[g].spot /\ \A t \in tickets : t.spot # new.spot
    BY <1>1 DEF Owners
  <1> HIDE DEF new
  <1>5. \A s \in Spots : Owned(s)' <=> Owned(s)
    BY <1>1, <1>2, <1>4 DEF Owned
  <1>6. Owners'
    BY <1>1, <1>2, <1>4, <1>5 DEF Owners
  <1> QED  BY <1>3, <1>6

\* The gate takes the spot over from the ticket.
LEMMA ExitKeeps ==
  ASSUME ParkingInv, NEW g \in Gates, NEW t \in tickets, Exit(g, t)
  PROVE  ParkingInv'
PROOF
  <1> USE DEF ParkingInv, ParkingTypeOK
  <1>1. /\ gate[g] \in GateStates /\ ~Between(g) /\ t.spot \in Spots
        /\ UNCHANGED <<occupied, issued>>
        /\ tickets' = tickets \ {t}
        /\ gate' = [gate EXCEPT ![g].at = "leaving", ![g].spot = t.spot]
    BY DEF Exit, Between
  <1>2. /\ gate'[g].at = "leaving" /\ gate'[g].spot = t.spot /\ gate'[g] \in GateStates
        /\ \A h \in Gates : h # g => gate'[h] = gate[h]
    BY <1>1 DEF GateStates
  <1>3. \A h \in Gates : Between(h)' <=> (h = g \/ Between(h))
    BY <1>2 DEF Between
  <1>4. ParkingTypeOK'
    BY <1>1, <1>2
  <1>5. \A s \in Spots : Owned(s)' <=> Owned(s)
    BY <1>1, <1>2, <1>3 DEF Owned, Owners
  <1>6. Owners'
    BY <1>1, <1>2, <1>3, <1>5 DEF Owners
  <1> QED  BY <1>4, <1>6

\* A spot that is freed had no other owner.
LEMMA FreeSpotKeeps ==
  ASSUME ParkingInv, NEW g \in Gates, FreeSpot(g)
  PROVE  ParkingInv'
PROOF
  <1> USE DEF ParkingInv, ParkingTypeOK
  <1>1. /\ gate[g] \in GateStates /\ Between(g) /\ gate[g].spot \in Spots
        /\ UNCHANGED <<tickets, issued>>
        /\ occupied' = occupied \ {gate[g].spot}
        /\ gate' = [gate EXCEPT ![g] = AtRest]
    BY DEF FreeSpot, Between
  <1>2. /\ AtRest \in GateStates
        /\ \A h \in Gates : Between(h)' <=> (h # g /\ Between(h))
        /\ \A h \in Gates : h # g => gate'[h] = gate[h]
    BY <1>1 DEF Between, AtRest, GateStates
  <1>3. ParkingTypeOK'
    BY <1>1, <1>2 DEF AtRest
  <1>4. \A s \in Spots : Owned(s)' <=> Owned(s) /\ s # gate[g].spot
    BY <1>1, <1>2 DEF Owned, Owners
  <1>5. Owners'
    BY <1>1, <1>2, <1>4 DEF Owners
  <1> QED  BY <1>3, <1>5

-----------------------------------------------------------------------------
LEMMA ParkingStep == ParkingInv /\ [ParkingNext]_parkingVars => ParkingInv'
PROOF
  <1> SUFFICES ASSUME ParkingInv, [ParkingNext]_parkingVars PROVE ParkingInv'
    OBVIOUS
  <1>1. CASE UNCHANGED parkingVars
    BY <1>1 DEF parkingVars, ParkingInv, ParkingTypeOK, Owners, Owned, Between
  <1>2. CASE ParkingNext
    BY <1>2, ScanningKeeps, ClaimKeeps, IssueKeeps, ExitKeeps, FreeSpotKeeps DEF ParkingNext
  <1> QED  BY <1>1, <1>2

\* The inductive invariant holds in every reachable state.
THEOREM ParkingInvariant == ParkingSpec => []ParkingInv
BY ParkingStart, ParkingStep, PTL DEF ParkingSpec

\* Every variable has its type, a gate past its scan has a spot, and a ticket id
\* is never drawn twice.
THEOREM ParkingTypeCorrect == ParkingSpec => []ParkingTypeOK
PROOF
  <1>1. ParkingInv => ParkingTypeOK
    BY DEF ParkingInv
  <1> QED  BY <1>1, ParkingInvariant, PTL

\* No spot has two owners and none is occupied without one, for any number of
\* gates that enter and exit at once.
THEOREM ParkingOneOwner == ParkingSpec => []OneOwnerPerSpot
PROOF
  <1>1. ParkingInv => OneOwnerPerSpot
    BY OwnersAreOccupied DEF ParkingInv
  <1> QED  BY <1>1, ParkingInvariant, PTL

-----------------------------------------------------------------------------
(* Compartments, for any compartments, codes and customers: a code opens the *)
(* compartment of its own parcel as long as no compartment is handed out to   *)
(* two carriers at once.  That it may be handed out so, TLC shows.           *)

LockerTypeOK ==
  /\ marked \in SUBSET Compartments
  /\ inside \in [Compartments -> SUBSET Nat]
  /\ tokens \in SUBSET TokenSet
  /\ stale \in SUBSET Nat
  /\ parcels \in Nat
  /\ carrier \in [Carriers -> [at : {"idle", "found", "marked"},
                               compartment : Compartments \cup {NoToken}, parcel : Nat]]
  /\ \A k \in Carriers : carrier[k].at # "idle" => carrier[k].compartment \in Compartments
  /\ customer \in [Customers -> TokenSet \cup {NoToken}]
  /\ sweep \in SUBSET TokenSet
  /\ astray \in SUBSET Nat

\* No two live tokens share a compartment, no two in the map a code, and a
\* Pickup has the token it removed for itself.
OneTokenEach ==
  /\ \A t, u \in tokens : t.compartment = u.compartment \/ t.code = u.code => t = u
  /\ \A t \in tokens, c \in Customers :
       customer[c] # NoToken => t.compartment # customer[c].compartment
  /\ \A c, d \in Customers :
       customer[c] # NoToken /\ customer[d] # NoToken
         /\ customer[c].compartment = customer[d].compartment => c = d

\* What a token says of its compartment.
Opens(t) ==
  /\ t.compartment \in marked
  /\ \/ inside[t.compartment] = {t.parcel}
     \/ inside[t.compartment] = {} /\ t.parcel \in stale \cup astray

TokensOpen ==
  /\ \A t \in tokens : Opens(t)
  /\ \A c \in Customers : customer[c] # NoToken => Opens(customer[c])

\* The compartment of a deposit under way is free until it is marked, then holds
\* the parcel or nothing once the staff had it, and no live token leads there.
DepositAlone(k) ==
  /\ carrier[k].at = "found" => carrier[k].compartment \notin marked
  /\ carrier[k].at = "marked" =>
       /\ carrier[k].compartment \in marked
       /\ \/ inside[carrier[k].compartment] = {carrier[k].parcel}
          \/ /\ inside[carrier[k].compartment] = {}
             /\ carrier[k].parcel \in stale \cup astray
       /\ \A t \in tokens : t.compartment # carrier[k].compartment
       /\ \A c \in Customers :
            customer[c] # NoToken => customer[c].compartment # carrier[k].compartment

FreeAreEmpty == \A c \in Compartments \ marked : inside[c] = {}

LockerSound == OneTokenEach /\ TokensOpen /\ FreeAreEmpty /\ \A k \in Carriers : DepositAlone(k)

LockerInv == LockerTypeOK /\ LockerSound

LEMMA LockerStart == LockerInit => LockerInv
BY DEF LockerInit, LockerInv, LockerTypeOK, LockerSound, OneTokenEach, TokensOpen, FreeAreEmpty,
       DepositAlone, NoErrand

-----------------------------------------------------------------------------
(* Types.                                                                    *)

LEMMA LockerTypesKept == LockerTypeOK /\ [LockerNext]_lockerVars => LockerTypeOK'
PROOF
  <1> SUFFICES ASSUME LockerTypeOK, [LockerNext]_lockerVars PROVE LockerTypeOK'
    OBVIOUS
  <1> USE LockerAssumption DEF LockerTypeOK
  <1>1. CASE UNCHANGED lockerVars
    BY <1>1 DEF lockerVars
  <1>2. ASSUME NEW k \in Carriers, NEW size \in Sizes, FindCompartment(k, size)
        PROVE  LockerTypeOK'
    BY <1>2 DEF FindCompartment
  <1>3. ASSUME NEW k \in Carriers, MarkOccupied(k) PROVE LockerTypeOK'
    BY <1>3 DEF MarkOccupied
  <1>4. ASSUME NEW k \in Carriers, NEW code \in Codes, Mint(k, code) PROVE LockerTypeOK'
    <2>1. TokenOf(k, code) \in TokenSet
      BY <1>4 DEF Mint, TokenOf, TokenSet
    <2> QED  BY <1>4, <2>1 DEF Mint, NoErrand
  <1>5. ASSUME NEW u \in Customers, NEW code \in Codes, TakeToken(u, code) PROVE LockerTypeOK'
    BY <1>5 DEF TakeToken
  <1>6. ASSUME NEW u \in Customers, OpenForCustomer(u) PROVE LockerTypeOK'
    BY <1>6 DEF OpenForCustomer
  <1>7. CASE BeginSweep
    BY <1>7 DEF BeginSweep
  <1>9. ASSUME NEW t \in sweep, VisitToken(t) PROVE LockerTypeOK'
    <2>1. t.compartment \in Compartments
      BY DEF TokenSet
    <2> QED  BY <1>9, <2>1 DEF VisitToken
  <1>8. ASSUME NEW p \in 1..MaxParcels, CodeExpires(p) PROVE LockerTypeOK'
    BY <1>8 DEF CodeExpires
  <1> QED  BY <1>1, <1>2, <1>3, <1>4, <1>5, <1>6, <1>7, <1>8, <1>9 DEF LockerNext

-----------------------------------------------------------------------------
(* The steps, while every carrier has a compartment of its own.              *)

LEMMA FindKeeps ==
  ASSUME LockerTypeOK, LockerSound, NEW k \in Carriers, NEW size \in Sizes,
         FindCompartment(k, size)
  PROVE  LockerSound'
PROOF
  <1>1. /\ UNCHANGED <<marked, inside, tokens, stale, customer, astray>>
        /\ carrier'[k].at = "found" /\ carrier'[k].compartment \notin marked
        /\ \A l \in Carriers : l # k => carrier'[l] = carrier[l]
    BY DEF FindCompartment, LockerTypeOK
  <1>2. OneTokenEach' /\ TokensOpen' /\ FreeAreEmpty'
    BY <1>1 DEF LockerSound, OneTokenEach, TokensOpen, Opens, FreeAreEmpty
  <1>3. \A l \in Carriers : DepositAlone(l)'
    BY <1>1 DEF LockerSound, DepositAlone
  <1> QED  BY <1>2, <1>3 DEF LockerSound

\* The compartment was free and empty, and no live token led to it.
LEMMA MarkKeeps ==
  ASSUME LockerTypeOK, HandedOutApart, LockerSound, NEW k \in Carriers, MarkOccupied(k)
  PROVE  LockerSound'
PROOF
  <1> DEFINE c == carrier[k].compartment
  <1>1. /\ UNCHANGED <<tokens, stale, customer, astray>>
        /\ marked' = marked \cup {c}
        /\ inside' = [inside EXCEPT ![c] = @ \cup {carrier[k].parcel}]
        /\ carrier'[k].at = "marked" /\ carrier'[k].compartment = c
        /\ carrier'[k].parcel = carrier[k].parcel
        /\ c \in Compartments /\ c \notin marked
        /\ \A l \in Carriers : l # k => carrier'[l] = carrier[l]
    BY DEF MarkOccupied, LockerTypeOK, LockerSound, DepositAlone
  <1>2. inside[c] = {} /\ inside'[c] = {carrier[k].parcel}
    BY <1>1 DEF LockerSound, FreeAreEmpty, LockerTypeOK
  <1>3. /\ \A t \in tokens : t.compartment # c
        /\ \A d \in Customers : customer[d] # NoToken => customer[d].compartment # c
    BY <1>1 DEF LockerSound, TokensOpen, Opens
  <1>4. \A d \in Compartments : d # c => inside'[d] = inside[d] /\ (d \in marked' <=> d \in marked)
    BY <1>1 DEF LockerTypeOK
  <1> HIDE DEF c
  <1>5. OneTokenEach'
    BY <1>1 DEF LockerSound, OneTokenEach
  <1>6. TokensOpen'
    <2>1. \A t \in TokenSet : t.compartment # c /\ Opens(t) => Opens(t)'
      BY <1>1, <1>4 DEF Opens, TokenSet
    <2> QED  BY <1>1, <1>3, <2>1 DEF LockerSound, TokensOpen, LockerTypeOK
  <1>7. FreeAreEmpty'
    BY <1>1, <1>4 DEF LockerSound, FreeAreEmpty
  <1>8. ASSUME NEW l \in Carriers PROVE DepositAlone(l)'
    <2>1. CASE l = k
      BY <1>1, <1>2, <1>3, <2>1 DEF DepositAlone
    <2>2. CASE l # k /\ carrier[l].at # "idle"
      <3>1. carrier[l].compartment # c /\ carrier[l].compartment \in Compartments
        BY <2>2 DEF HandedOutApart, MarkOccupied, LockerTypeOK, c
      <3> QED  BY <1>1, <1>4, <2>2, <3>1 DEF LockerSound, DepositAlone
    <2>3. CASE l # k /\ carrier[l].at = "idle"
      BY <1>1, <2>3 DEF DepositAlone
    <2> QED  BY <2>1, <2>2, <2>3
  <1> QED  BY <1>5, <1>6, <1>7, <1>8 DEF LockerSound

LEMMA MintKeeps ==
  ASSUME LockerTypeOK, HandedOutApart, LockerSound, NEW k \in Carriers, NEW code \in Codes, Mint(k, code)
  PROVE  LockerSound'
PROOF
  <1> DEFINE new == TokenOf(k, code)
  <1>1. /\ UNCHANGED <<marked, inside, stale, customer, astray>>
        /\ carrier'[k].at = "idle"
        /\ \A l \in Carriers : l # k => carrier'[l] = carrier[l]
    BY DEF Mint, NoErrand, LockerTypeOK
  <1>2. ASSUME NEW l \in Carriers PROVE DepositAlone(l)'
    <2>1. CASE l = k
      BY <1>1, <2>1 DEF DepositAlone
    <2>2. CASE l # k /\ carrier[l].at # "idle"
      <3>1. carrier[l].compartment # new.compartment
        BY <2>2 DEF HandedOutApart, Mint, TokenOf
      <3>2. \A t \in tokens' : t \in tokens \/ t = new
        BY DEF Mint
      <3> HIDE DEF new
      <3> QED  BY <1>1, <2>2, <3>1, <3>2 DEF LockerSound, DepositAlone
    <2>3. CASE l # k /\ carrier[l].at = "idle"
      BY <1>1, <2>3 DEF DepositAlone
    <2> QED  BY <2>1, <2>2, <2>3
  <1>3. FreeAreEmpty'
    BY <1>1 DEF LockerSound, FreeAreEmpty
  <1>4. CASE tokens' = tokens
    BY <1>1, <1>2, <1>3, <1>4, SMTT(20) DEF LockerSound, OneTokenEach, TokensOpen, Opens
  <1>5. CASE tokens' # tokens
    <2>1. /\ tokens' = tokens \cup {new}
          /\ \A t \in tokens : t.code # new.code
      BY <1>5 DEF Mint, TokenOf
    <2>2. /\ Opens(new)
          /\ \A t \in tokens : t.compartment # new.compartment
          /\ \A c \in Customers :
               customer[c] # NoToken => customer[c].compartment # new.compartment
      BY DEF Mint, TokenOf, Opens, LockerSound, DepositAlone
    <2> HIDE DEF new
    <2>3. OneTokenEach'
      BY <1>1, <2>1, <2>2 DEF LockerSound, OneTokenEach
    <2>4. TokensOpen'
      BY <1>1, <2>1, <2>2 DEF LockerSound, TokensOpen, Opens
    <2> QED  BY <1>2, <1>3, <2>3, <2>4 DEF LockerSound
  <1> QED  BY <1>4, <1>5

\* The token changes hands, from the map to the Pickup that removed it.
LEMMA TakeKeeps ==
  ASSUME LockerTypeOK, LockerSound, NEW u \in Customers, NEW code \in Codes, TakeToken(u, code)
  PROVE  LockerSound'
PROOF
  <1>1. PICK t \in tokens :
          /\ tokens' = tokens \ {t}
          /\ customer' = [customer EXCEPT ![u] = t]
    BY DEF TakeToken
  <1>2. /\ UNCHANGED <<marked, inside, stale, carrier, astray>>
        /\ customer'[u] = t /\ \A c \in Customers : c # u => customer'[c] = customer[c]
    BY <1>1 DEF TakeToken, LockerTypeOK
  <1>3. OneTokenEach'
    BY <1>1, <1>2 DEF LockerSound, OneTokenEach
  <1>4. TokensOpen'
    BY <1>1, <1>2 DEF LockerSound, TokensOpen, Opens
  <1>5. FreeAreEmpty' /\ \A k \in Carriers : DepositAlone(k)'
    BY <1>1, <1>2 DEF LockerSound, FreeAreEmpty, DepositAlone
  <1> QED  BY <1>3, <1>4, <1>5 DEF LockerSound

\* Only the customer's own compartment is emptied and freed, and his is the last
\* live token that led there.
LEMMA OpenKeeps ==
  ASSUME LockerTypeOK, LockerSound, NEW u \in Customers, OpenForCustomer(u)
  PROVE  LockerSound'
PROOF
  <1> DEFINE c == customer[u].compartment
  <1>1. /\ UNCHANGED <<tokens, stale, carrier, astray>>
        /\ customer[u] # NoToken /\ customer'[u] = NoToken
        /\ \A d \in Customers : d # u => customer'[d] = customer[d]
        /\ c \in Compartments
    BY DEF OpenForCustomer, LockerTypeOK, TokenSet
  <1>2. /\ \A d \in Compartments : d # c => inside'[d] = inside[d] /\ (d \in marked' <=> d \in marked)
        /\ \/ UNCHANGED <<marked, inside>>
           \/ inside'[c] = {} /\ c \notin marked'
    BY <1>1 DEF OpenForCustomer, LockerTypeOK
  <1>3. /\ \A t \in tokens : t.compartment # c
        /\ \A d \in Customers : d # u /\ customer[d] # NoToken => customer[d].compartment # c
        /\ \A k \in Carriers : carrier[k].at = "marked" => carrier[k].compartment # c
    BY <1>1 DEF LockerSound, OneTokenEach, DepositAlone
  <1> HIDE DEF c
  <1>4. \A t \in TokenSet : t.compartment # c /\ Opens(t) => Opens(t)'
    BY <1>1, <1>2 DEF Opens, TokenSet
  <1>5. TokensOpen'
    BY <1>1, <1>3, <1>4 DEF LockerSound, TokensOpen, LockerTypeOK
  <1>6. OneTokenEach'
    BY <1>1 DEF LockerSound, OneTokenEach
  <1>7. FreeAreEmpty'
    BY <1>1, <1>2 DEF LockerSound, FreeAreEmpty
  <1>8. \A k \in Carriers : DepositAlone(k)'
    <2> TAKE k \in Carriers
    <2>1. marked' \subseteq marked
      BY DEF OpenForCustomer
    <2>2. DepositAlone(k) /\ (carrier[k].at # "idle" => carrier[k].compartment \in Compartments)
      BY DEF LockerSound, LockerTypeOK
    <2> QED  BY <1>1, <1>2, <1>3, <2>1, <2>2 DEF DepositAlone
  <1> QED  BY <1>5, <1>6, <1>7, <1>8 DEF LockerSound

\* The snapshot touches nothing that a token or a deposit says.
LEMMA SnapshotKeeps ==
  ASSUME LockerTypeOK, LockerSound, BeginSweep
  PROVE  LockerSound'
PROOF
  <1>1. UNCHANGED <<marked, inside, tokens, stale, carrier, customer, astray>>
    BY DEF BeginSweep
  <1> QED  BY <1>1 DEF LockerSound, OneTokenEach, TokensOpen, Opens, FreeAreEmpty, DepositAlone

\* What the staff take out of a compartment, whoever's token led them there, is
\* the expired parcel of that token or gone astray.
LEMMA VisitKeeps ==
  ASSUME LockerTypeOK, LockerSound, NEW t \in sweep, VisitToken(t)
  PROVE  LockerSound'
PROOF
  <1>1. /\ UNCHANGED <<marked, tokens, stale, carrier, customer>>
        /\ astray \subseteq astray'
        /\ \A c \in Compartments :
             \/ inside'[c] = inside[c]
             \/ inside'[c] = {} /\ \A p \in inside[c] : p \in stale \cup astray'
    BY DEF VisitToken, LockerTypeOK
  <1>2. \A u \in TokenSet : Opens(u) => Opens(u)'
    BY <1>1 DEF Opens, TokenSet
  <1>3. TokensOpen'
    BY <1>1, <1>2 DEF LockerSound, TokensOpen, LockerTypeOK
  <1>4. \A k \in Carriers : DepositAlone(k)'
    <2> TAKE k \in Carriers
    <2>1. DepositAlone(k) /\ (carrier[k].at # "idle" => carrier[k].compartment \in Compartments)
      BY DEF LockerSound, LockerTypeOK
    <2> QED  BY <1>1, <2>1 DEF DepositAlone
  <1>5. OneTokenEach' /\ FreeAreEmpty'
    BY <1>1 DEF LockerSound, OneTokenEach, FreeAreEmpty
  <1> QED  BY <1>3, <1>4, <1>5 DEF LockerSound

LEMMA ExpiryKeeps ==
  ASSUME LockerTypeOK, LockerSound, NEW p \in 1..MaxParcels, CodeExpires(p)
  PROVE  LockerSound'
PROOF
  <1>1. UNCHANGED <<marked, inside, tokens, carrier, customer, astray>> /\ stale \subseteq stale'
    BY DEF CodeExpires
  <1>2. \A t : Opens(t) => Opens(t)'
    BY <1>1 DEF Opens
  <1>3. TokensOpen'
    BY <1>1, <1>2 DEF LockerSound, TokensOpen
  <1>4. OneTokenEach' /\ FreeAreEmpty' /\ \A k \in Carriers : DepositAlone(k)'
    BY <1>1 DEF LockerSound, OneTokenEach, FreeAreEmpty, DepositAlone
  <1> QED  BY <1>3, <1>4 DEF LockerSound

-----------------------------------------------------------------------------
LEMMA LockerStep == LockerInv /\ HandedOutApart /\ [LockerNext]_lockerVars => LockerInv'
PROOF
  <1> SUFFICES ASSUME LockerInv, HandedOutApart, [LockerNext]_lockerVars PROVE LockerSound'
    BY LockerTypesKept DEF LockerInv
  <1>1. LockerTypeOK /\ LockerSound
    BY DEF LockerInv
  <1>2. CASE UNCHANGED lockerVars
    BY <1>1, <1>2 DEF lockerVars, LockerSound, OneTokenEach, TokensOpen, Opens, FreeAreEmpty, DepositAlone
  <1>3. CASE LockerNext
    BY <1>1, <1>3, FindKeeps, MarkKeeps, MintKeeps, TakeKeeps, OpenKeeps, SnapshotKeeps, VisitKeeps,
          ExpiryKeeps
       DEF LockerNext
  <1> QED  BY <1>2, <1>3

\* Types, whether or not compartments are handed out twice.
THEOREM LockerTypes == LockerSpec => []LockerTypeOK
PROOF
  <1>1. LockerInit => LockerTypeOK
    BY LockerStart DEF LockerInv
  <1> QED  BY <1>1, LockerTypesKept, PTL DEF LockerSpec

\* As long as no compartment is handed out to two carriers at once, a live code
\* opens a compartment that is its own and holds its parcel, or nothing once the
\* staff took it out: at whatever step of a sweep, for any number of carriers,
\* customers, compartments and codes, minted again or expired.
THEOREM LockerCodeOpensItsParcel == LockerSpec => CodeOpensItsParcel
PROOF
  <1>1. LockerInv => CodesOpenTheirParcels
    <2> SUFFICES ASSUME LockerInv, NEW t \in LiveTokens
                 PROVE  /\ Opens(t)
                        /\ \A u \in LiveTokens : u.compartment = t.compartment => u = t
                        /\ \A u \in tokens : t \in tokens /\ u.code = t.code => u = t
      BY DEF CodesOpenTheirParcels, Opens
    <2> QED  BY DEF LockerInv, LockerSound, LiveTokens, OneTokenEach, TokensOpen
  <1> QED  BY <1>1, LockerStart, LockerStep, PTL DEF LockerSpec, CodeOpensItsParcel

-----------------------------------------------------------------------------
(* Counting the units of a product in a sequence of products.                 *)

LEMMA UnitsFinite ==
  ASSUME NEW P, NEW s \in Seq(P), NEW p
  PROVE  IsFiniteSet({i \in DOMAIN s : s[i] = p}) /\ UnitsIn(s, p) \in Nat
PROOF
  <1>1. IsFiniteSet(1 .. Len(s)) /\ DOMAIN s = 1 .. Len(s)
    BY FS_Interval
  <1>2. {i \in DOMAIN s : s[i] = p} \in SUBSET (1 .. Len(s))
    BY <1>1
  <1> QED  BY <1>1, <1>2, FS_Subset, FS_CardinalityType DEF UnitsIn

LEMMA UnitsInNothing ==
  ASSUME NEW p
  PROVE  UnitsIn(<<>>, p) = 0
PROOF
  <1>1. {i \in DOMAIN <<>> : <<>>[i] = p} = {}
    OBVIOUS
  <1> QED  BY <1>1, FS_EmptySet DEF UnitsIn

LEMMA UnitsAppend ==
  ASSUME NEW P, NEW s \in Seq(P), NEW x \in P, NEW p
  PROVE  UnitsIn(Append(s, x), p) = UnitsIn(s, p) + (IF x = p THEN 1 ELSE 0)
PROOF
  <1> DEFINE t == Append(s, x)
             old == {i \in DOMAIN s : s[i] = p}
             new == {i \in DOMAIN t : t[i] = p}
  <1>1. /\ DOMAIN s = 1 .. Len(s) /\ DOMAIN t = 1 .. (Len(s) + 1) /\ Len(s) \in Nat
        /\ \A i \in 1 .. Len(s) : t[i] = s[i]
        /\ t[Len(s) + 1] = x
    OBVIOUS
  <1>2. IsFiniteSet(old) /\ UnitsIn(s, p) = Cardinality(old) /\ UnitsIn(t, p) = Cardinality(new)
    BY UnitsFinite DEF UnitsIn
  <1>3. Cardinality(old) \in Nat
    BY <1>2, FS_CardinalityType
  <1> HIDE DEF t
  <1>4. CASE x = p
    <2>1. new = old \cup {Len(s) + 1} /\ Len(s) + 1 \notin old
      BY <1>1, <1>4
    <2> HIDE DEF new, old
    <2>2. Cardinality(new) = Cardinality(old) + 1
      BY <1>2, <2>1, FS_AddElement
    <2> QED  BY <1>2, <1>4, <2>2 DEF t
  <1>5. CASE x # p
    <2>1. new = old
      BY <1>1, <1>5
    <2> HIDE DEF new, old
    <2> QED  BY <1>2, <1>3, <1>5, <2>1 DEF t
  <1> QED  BY <1>4, <1>5

LEMMA UnitsTail ==
  ASSUME NEW P, NEW s \in Seq(P), s # <<>>, NEW p
  PROVE  UnitsIn(Tail(s), p) = UnitsIn(s, p) - (IF Head(s) = p THEN 1 ELSE 0)
PROOF
  <1> DEFINE t == Tail(s)
             all == {i \in DOMAIN s : s[i] = p}
             rest == {i \in DOMAIN t : t[i] = p}
             up == [i \in rest |-> i + 1]
  <1>1. /\ Len(s) \in Nat \ {0} /\ DOMAIN s = 1 .. Len(s) /\ DOMAIN t = 1 .. (Len(s) - 1)
        /\ \A i \in 1 .. (Len(s) - 1) : t[i] = s[i + 1]
        /\ s[1] = Head(s) /\ t \in Seq(P)
    OBVIOUS
  <1>2. /\ IsFiniteSet(all) /\ UnitsIn(s, p) = Cardinality(all)
        /\ IsFiniteSet(rest) /\ UnitsIn(t, p) = Cardinality(rest)
    BY <1>1, UnitsFinite DEF UnitsIn
  <1> HIDE DEF t
  <1>3. Cardinality(all) \in Nat
    BY <1>2, FS_CardinalityType
  <1>4. up \in Bijection(rest, all \ {1})
    <2>1. up \in [rest -> all \ {1}]
      BY <1>1
    <2>2. \A a, b \in rest : up[a] = up[b] => a = b
      BY <1>1
    <2>3. \A j \in all \ {1} : \E i \in rest : up[i] = j
      <3> TAKE j \in all \ {1}
      <3>1. j \in Int /\ 2 <= j /\ j <= Len(s) /\ s[j] = p
        BY <1>1
      <3>2. j - 1 \in 1 .. (Len(s) - 1) /\ t[j - 1] = p
        BY <1>1, <3>1
      <3>3. j - 1 \in rest /\ up[j - 1] = j
        BY <1>1, <3>1, <3>2
      <3> QED  BY <3>3
    <2> HIDE DEF up, rest, all
    <2> QED  BY <2>1, <2>2, <2>3 DEF Bijection, Injection, Surjection, IsInjective
  <1>5. Cardinality(rest) = Cardinality(all \ {1})
    <2> HIDE DEF up, rest, all
    <2>1. ExistsBijection(rest, all \ {1})
      BY <1>4 DEF ExistsBijection
    <2> QED  BY <1>2, <2>1, FS_Bijection
  <1>6. Cardinality(all \ {1}) = IF 1 \in all THEN Cardinality(all) - 1 ELSE Cardinality(all)
    <2> HIDE DEF all
    <2> QED  BY <1>2, FS_RemoveElement
  <1>7. 1 \in all <=> Head(s) = p
    BY <1>1
  <1> HIDE DEF all, rest
  <1> QED  BY <1>2, <1>3, <1>5, <1>6, <1>7 DEF t

-----------------------------------------------------------------------------
(* Checkout.                                                                   *)

\* A set of naturals that has a bound has a greatest element.
LEMMA MaxOfNats ==
  ASSUME NEW S, S \subseteq Nat, S # {}, NEW b \in Nat, \A x \in S : x <= b
  PROVE  Max(S) \in S /\ \A x \in S : x <= Max(S)
PROOF
  <1> DEFINE bounds == {m \in Nat : \A x \in S : x <= m}
  <1>1. PICK m \in bounds : \A k \in bounds : m <= k
    <2>1. bounds \subseteq Nat /\ b \in bounds
      OBVIOUS
    <2> HIDE DEF bounds
    <2> QED  BY <2>1, LeastNat
  <1>2. m \in Nat /\ \A x \in S : x <= m
    OBVIOUS
  <1>3. m \in S
    <2> SUFFICES ASSUME m \notin S PROVE FALSE
      OBVIOUS
    <2>1. \A x \in S : x \in Nat /\ x <= m /\ x # m
      BY <1>2
    <2>2. \A x \in S : x <= m - 1
      <3> TAKE x \in S
      <3>1. x \in Nat /\ x <= m /\ x # m
        BY <2>1
      <3> QED  BY <1>2, <3>1
    <2>3. m - 1 \in Nat
      <3>1. PICK x : x \in S
        OBVIOUS
      <3>2. x \in Nat /\ x <= m /\ x # m
        BY <2>1, <3>1
      <3> QED  BY <1>2, <3>2
    <2>4. m - 1 \in bounds
      BY <2>2, <2>3
    <2> HIDE DEF bounds
    <2> QED  BY <1>1, <1>2, <2>4
  <1>4. \E x \in S : \A y \in S : x >= y
    <2>1. \A y \in S : m >= y
      BY <1>2
    <2> QED  BY <1>3, <2>1
  <1>5. Max(S) \in S /\ \A y \in S : Max(S) >= y
    <2> DEFINE x == CHOOSE x \in S : \A y \in S : x >= y
    <2>1. x \in S /\ \A y \in S : x >= y
      BY <1>4, Zenon
    <2>2. Max(S) = x
      BY DEF Max
    <2> QED  BY <2>1, <2>2, Zenon
  <1> QED  BY <1>5


CheckoutStages == {"reserving", "charging", "recording", "clearing", "undoing"}
AnyCall == [at : CheckoutStages, cart : Carts, key : OrderKeys, since : Nat,
            reserved : Seq(Products)]
CheckoutCall == {r \in AnyCall : r.at = "clearing" => r.reserved = <<>>}
OrderResult == [key : OrderKeys, products : Seq(Products)]

CheckoutTypes ==
  /\ stock \in [Products -> Nat]
  /\ lines \in [Carts -> Seq(Products)]
  /\ cleared \in [Carts -> Nat]
  /\ call \in [Calls -> CheckoutCall \cup {NoCall}]
  /\ failures \in Nat
  /\ orders \in Seq(OrderResult)

\* A cart keeps its lines until it is cleared.
LinesKept == \A b \in Carts : lines[b] \in {LinesOf[b], <<>>}

\* What a call has reserved begins as its cart does; it never holds more units of
\* a product than some cart has.
BeginsAs(s, t) == Len(s) <= Len(t) /\ \A i \in 1 .. Len(s) : s[i] = t[i]
HoldsPartOfCart(c) ==
  /\ In(c, "reserving") => BeginsAs(call[c].reserved, LinesOf[call[c].cart])
  /\ \A p \in Products : ReservedNow(c, p) <= MostOf(p)

CheckoutInv ==
  /\ CheckoutTypes /\ LinesKept
  /\ \A c \in Calls : HoldsPartOfCart(c)
  /\ StockAccounted

\* A call that is not idle has a cart, a key and reserved products.
LEMMA CallUnderWay ==
  ASSUME CheckoutTypes, NEW c \in Calls, ~ In(c, "idle")
  PROVE  /\ call[c] \in CheckoutCall
         /\ call[c].cart \in Carts /\ call[c].reserved \in Seq(Products)
BY DEF CheckoutTypes, In, NoCall, CheckoutCall, AnyCall

\* What the steps make of the record of a call.
LEMMA CallAt ==
  ASSUME NEW r \in CheckoutCall, NEW a \in CheckoutStages, a # "clearing"
  PROVE  /\ [r EXCEPT !.at = a] \in CheckoutCall
         /\ [r EXCEPT !.at = a].at = a
         /\ [r EXCEPT !.at = a].reserved = r.reserved
BY DEF CheckoutCall, AnyCall

LEMMA CallHolding ==
  ASSUME NEW r \in CheckoutCall, NEW s \in Seq(Products), r.at # "clearing"
  PROVE  /\ [r EXCEPT !.reserved = s] \in CheckoutCall
         /\ [r EXCEPT !.reserved = s].at = r.at
         /\ [r EXCEPT !.reserved = s].cart = r.cart
         /\ [r EXCEPT !.reserved = s].reserved = s
BY DEF CheckoutCall, AnyCall

LEMMA CallClearing ==
  ASSUME NEW r \in CheckoutCall
  PROVE  /\ [r EXCEPT !.at = "clearing", !.reserved = <<>>] \in CheckoutCall
         /\ [r EXCEPT !.at = "clearing", !.reserved = <<>>].at = "clearing"
         /\ [r EXCEPT !.at = "clearing", !.reserved = <<>>].reserved = <<>>
PROOF
  <1>1. <<>> \in Seq(Products)
    OBVIOUS
  <1> QED  BY <1>1 DEF CheckoutCall, AnyCall, CheckoutStages

LEMMA HeldByRecord ==
  ASSUME NEW r \in CheckoutCall \cup {NoCall}
  PROVE  /\ r.at = "idle" <=> r = NoCall
         /\ \A p \in Products : r.at # "idle" => UnitsIn(r.reserved, p) \in Nat
PROOF
  <1>1. CASE r = NoCall
    BY <1>1 DEF NoCall
  <1>2. CASE r \in CheckoutCall
    <2>1. r.at # "idle" /\ r.reserved \in Seq(Products)
      BY <1>2 DEF CheckoutCall, AnyCall, CheckoutStages
    <2>2. r # NoCall
      BY <2>1 DEF NoCall
    <2> QED  BY <2>1, <2>2, UnitsFinite
  <1> QED  BY <1>1, <1>2

LEMMA ReservedNowIsNat ==
  ASSUME CheckoutTypes, NEW c \in Calls, NEW p \in Products
  PROVE  ReservedNow(c, p) \in Nat
BY HeldByRecord DEF CheckoutTypes, ReservedNow, In

\* The most units a cart has of a product.
LEMMA MostOfIs ==
  ASSUME NEW p \in Products
  PROVE  /\ MostOf(p) \in Nat
         /\ \A b \in Carts : UnitsIn(LinesOf[b], p) <= MostOf(p)
PROOF
  <1> DEFINE units == [b \in Carts |-> UnitsIn(LinesOf[b], p)]
             these == {0} \cup {UnitsIn(LinesOf[b], p) : b \in Carts}
             all == SumFunctionOnSet(units, Carts)
  <1>1. \A b \in Carts : units[b] \in Nat
    BY CheckoutAssumption, UnitsFinite
  <1>2. all \in Nat /\ \A b \in Carts : units[b] <= all
    <2> HIDE DEF units
    <2> QED  BY <1>1, CheckoutAssumption, SumIsNat
  <1>3. these \subseteq Nat /\ these # {} /\ \A x \in these : x <= all
    <2> HIDE DEF all
    <2> QED  BY <1>1, <1>2
  <1>4. MostOf(p) = Max(these)
    BY DEF MostOf
  <1>5. Max(these) \in these /\ \A x \in these : x <= Max(these)
    <2> HIDE DEF these, all
    <2> QED  BY <1>2, <1>3, MaxOfNats
  <1>6. \A b \in Carts : UnitsIn(LinesOf[b], p) \in these
    OBVIOUS
  <1> HIDE DEF these
  <1> QED  BY <1>3, <1>4, <1>5, <1>6

\* A sequence that begins a cart has no more units than the cart.
LEMMA UnitsOfBeginning ==
  ASSUME NEW b \in Carts, NEW s \in Seq(Products), BeginsAs(s, LinesOf[b]), NEW p \in Products
  PROVE  UnitsIn(s, p) <= MostOf(p)
PROOF
  <1> DEFINE part == {i \in DOMAIN s : s[i] = p}
             whole == {i \in DOMAIN LinesOf[b] : LinesOf[b][i] = p}
  <1>1. LinesOf[b] \in Seq(Products)
    BY CheckoutAssumption
  <1>2. IsFiniteSet(whole) /\ UnitsIn(LinesOf[b], p) = Cardinality(whole) /\ UnitsIn(s, p) = Cardinality(part)
    BY <1>1, UnitsFinite DEF UnitsIn
  <1>3. part \subseteq whole
    <2>1. /\ DOMAIN s = 1 .. Len(s) /\ DOMAIN LinesOf[b] = 1 .. Len(LinesOf[b])
          /\ Len(s) \in Nat /\ Len(LinesOf[b]) \in Nat
      BY <1>1
    <2> QED  BY <2>1 DEF BeginsAs
  <1>4. Cardinality(part) \in Nat /\ Cardinality(whole) \in Nat /\ Cardinality(part) <= Cardinality(whole)
    <2> HIDE DEF part, whole
    <2> QED  BY <1>2, <1>3, FS_Subset, FS_CardinalityType
  <1>5. UnitsIn(LinesOf[b], p) <= MostOf(p) /\ MostOf(p) \in Nat
    BY MostOfIs
  <1> HIDE DEF part, whole
  <1> QED  BY <1>2, <1>4, <1>5

\* When one call changes, the reserved units change by what it holds more.
LEMMA ReservedChanges ==
  ASSUME CheckoutTypes, CheckoutTypes', NEW c \in Calls, NEW p \in Products,
         \A d \in Calls \ {c} : call'[d] = call[d]
  PROVE  Reserved(p)' = Reserved(p) + (ReservedNow(c, p)' - ReservedNow(c, p))
PROOF
  <1> DEFINE f == [d \in Calls |-> ReservedNow(d, p)]
             g == [d \in Calls |-> ReservedNow(d, p)']
  <1>1. \A d \in Calls : f[d] \in Int /\ g[d] \in Int
    <2>1. \A d \in Calls : ReservedNow(d, p) \in Nat
      BY ReservedNowIsNat
    <2>2. \A d \in Calls : ReservedNow(d, p)' \in Nat
      BY HeldByRecord DEF CheckoutTypes, ReservedNow, In
    <2> QED  BY <2>1, <2>2
  <1>2. \A d \in Calls \ {c} : g[d] = f[d]
    BY DEF ReservedNow, In
  <1>3. SumFunctionOnSet(g, Calls) = SumFunctionOnSet(f, Calls) + (g[c] - f[c])
    <2>1. IsFiniteSet(Calls)
      BY CheckoutAssumption
    <2> HIDE DEF f, g
    <2> QED  BY <1>1, <1>2, <2>1, SumChangesAt
  <1> QED  BY <1>3 DEF Reserved, SumFunction

LEMMA ReservedIsNat ==
  ASSUME CheckoutTypes, NEW p \in Products
  PROVE  Reserved(p) \in Nat
PROOF
  <1> DEFINE f == [d \in Calls |-> ReservedNow(d, p)]
  <1>1. \A d \in Calls : f[d] \in Nat
    BY ReservedNowIsNat
  <1>2. SumFunctionOnSet(f, Calls) \in Nat
    BY <1>1, CheckoutAssumption, SumIsNat
  <1> QED  BY <1>2 DEF Reserved, SumFunction

\* One more order adds what it holds.
LEMMA OrderedAppend ==
  ASSUME CheckoutTypes, NEW p \in Products, NEW o \in OrderResult, orders' = Append(orders, o)
  PROVE  Ordered(p)' = Ordered(p) + UnitsIn(o.products, p)
PROOF
  <1> DEFINE n == Len(orders)
             f == [i \in 1 .. n |-> UnitsIn(orders[i].products, p)]
             g == [i \in 1 .. (n + 1) |-> UnitsIn(orders'[i].products, p)]
  <1>1. /\ n \in Nat /\ DOMAIN orders = 1 .. n /\ DOMAIN orders' = 1 .. (n + 1)
        /\ \A i \in 1 .. n : orders'[i] = orders[i]
        /\ orders'[n + 1] = o
        /\ \A i \in 1 .. n : orders[i] \in OrderResult
    BY DEF CheckoutTypes
  <1>2. UnitsIn(o.products, p) \in Nat /\ \A i \in 1 .. n : UnitsIn(orders[i].products, p) \in Nat
    BY <1>1, UnitsFinite DEF OrderResult
  <1>3. \A i \in 1 .. (n + 1) : g[i] \in Int
    BY <1>1, <1>2
  <1>4. IsFiniteSet(1 .. n) /\ IsFiniteSet(1 .. (n + 1))
    BY <1>1, FS_Interval
  <1>5. (1 .. (n + 1)) \ {n + 1} = 1 .. n /\ n + 1 \in 1 .. (n + 1)
    BY <1>1
  <1>6. \A i \in 1 .. n : f[i] = g[i] /\ f[i] \in Int
    BY <1>1, <1>2
  <1>7. g[n + 1] = UnitsIn(o.products, p)
    BY <1>1
  <1>8. Ordered(p) = SumFunctionOnSet(f, 1 .. n) /\ Ordered(p)' = SumFunctionOnSet(g, 1 .. (n + 1))
    BY <1>1 DEF Ordered, SumFunction
  <1> HIDE DEF f, g, n
  <1>9. SumFunctionOnSet(g, 1 .. (n + 1)) = g[n + 1] + SumFunctionOnSet(g, 1 .. n)
    <2> DEFINE all == 1 .. (n + 1)
    <2>1. IsFiniteSet(all) /\ (\A i \in all : g[i] \in Int) /\ n + 1 \in all /\ all \ {n + 1} = 1 .. n
      BY <1>3, <1>4, <1>5
    <2> HIDE DEF all
    <2>2. \A i \in all : SumFunctionOnSet(g, all) = g[i] + SumFunctionOnSet(g, all \ {i})
      BY <2>1, SumTakesOut
    <2>3. SumFunctionOnSet(g, all) = g[n + 1] + SumFunctionOnSet(g, all \ {n + 1})
      BY <2>1, <2>2
    <2> QED  BY <2>1, <2>3 DEF all
  <1>10. SumFunctionOnSet(g, 1 .. n) = SumFunctionOnSet(f, 1 .. n)
    BY <1>4, <1>6, SumOfEqual
  <1>11. SumFunctionOnSet(f, 1 .. n) \in Int
    BY <1>4, <1>6, SumIsInt
  <1> QED  BY <1>2, <1>7, <1>8, <1>9, <1>10, <1>11

LEMMA OrdersAddUp ==
  ASSUME NEW os \in Seq(OrderResult), NEW p \in Products
  PROVE  SumFunction([i \in DOMAIN os |-> UnitsIn(os[i].products, p)]) \in Nat
PROOF
  <1> DEFINE f == [i \in DOMAIN os |-> UnitsIn(os[i].products, p)]
  <1>1. IsFiniteSet(DOMAIN os)
    <2>1. DOMAIN os = 1 .. Len(os) /\ Len(os) \in Int
      OBVIOUS
    <2> QED  BY <2>1, FS_Interval
  <1>2. \A i \in DOMAIN os : f[i] \in Nat
    <2>1. \A i \in DOMAIN os : os[i].products \in Seq(Products)
      <3>1. \A i \in DOMAIN os : os[i] \in OrderResult
        OBVIOUS
      <3> QED  BY <3>1 DEF OrderResult
    <2> QED  BY <2>1, UnitsFinite
  <1>3. SumFunctionOnSet(f, DOMAIN os) \in Nat
    BY <1>1, <1>2, SumIsNat
  <1> QED  BY <1>3 DEF SumFunction

LEMMA OneFailureMore ==
  ASSUME NEW n \in Nat, NEW most \in Nat
  PROVE  n * most \in Nat /\ (n + 1) * most = n * most + most
OBVIOUS

\* The units of a product that a step of one call makes disappear from the books.
Gone(c, p) ==
  (stock[p] + ReservedNow(c, p) + Ordered(p))
    - (stock'[p] + ReservedNow(c, p)' + Ordered(p)')

\* What a step has to show of them: none when the inventory answers, and when it
\* throws no more than a cart has.
Settled(units, p) ==
  \/ units = 0 /\ failures' = failures
  \/ units \in 0 .. MostOf(p) /\ failures' = failures + 1

LEMMA StepKeepsBooks ==
  ASSUME CheckoutInv, CheckoutTypes', LinesKept', NEW c \in Calls,
         \A d \in Calls \ {c} : call'[d] = call[d],
         HoldsPartOfCart(c)',
         \A p \in Products : Settled(Gone(c, p), p)
  PROVE  CheckoutInv'
PROOF
  <1>1. CheckoutTypes
    BY DEF CheckoutInv
  <1>2. ASSUME NEW d \in Calls PROVE HoldsPartOfCart(d)'
    <2>1. CASE d = c
      BY <2>1
    <2>2. CASE d # c
      <3>1. HoldsPartOfCart(d) /\ call'[d] = call[d]
        BY <2>2 DEF CheckoutInv
      <3> QED  BY <3>1 DEF HoldsPartOfCart, ReservedNow, In
    <2> QED  BY <2>1, <2>2
  <1>3. ASSUME NEW p \in Products
        PROVE  (stock[p] >= 0 /\ Missing(p) \in 0 .. failures * MostOf(p))'
    <2>1. Reserved(p)' = Reserved(p) + (ReservedNow(c, p)' - ReservedNow(c, p))
      BY <1>1, ReservedChanges
    <2>2. /\ Reserved(p) \in Nat /\ ReservedNow(c, p) \in Nat /\ Ordered(p) \in Nat
          /\ stock[p] \in Nat /\ failures \in Nat
      BY <1>1, ReservedIsNat, ReservedNowIsNat, OrdersAddUp DEF CheckoutTypes, Ordered
    <2>3. Ordered(p)' \in Nat /\ ReservedNow(c, p)' \in Nat /\ stock'[p] \in Nat /\ failures' \in Nat
      <3>1. Ordered(p)' \in Nat
        BY OrdersAddUp DEF CheckoutTypes, Ordered
      <3>2. ReservedNow(c, p)' \in Nat
        BY HeldByRecord DEF CheckoutTypes, ReservedNow, In
      <3> QED  BY <3>1, <3>2 DEF CheckoutTypes
    <2>4. MostOf(p) \in Nat /\ StockOf[p] \in Nat
      BY MostOfIs, CheckoutAssumption
    <2>5. Missing(p)' = Missing(p) + Gone(c, p)
      BY <2>1, <2>2, <2>3, <2>4 DEF Missing, Gone
    <2>6. Missing(p) \in 0 .. failures * MostOf(p)
      BY DEF CheckoutInv, StockAccounted
    <2>7. Settled(Gone(c, p), p)
      OBVIOUS
    <2> DEFINE a == Missing(p)
               b == Missing(p)'
               g == Gone(c, p)
               most == MostOf(p)
               n == failures
               m == failures'
    <2>8. /\ b = a + g /\ a \in 0 .. n * most /\ n \in Nat /\ most \in Nat
          /\ (g = 0 /\ m = n) \/ (g \in 0 .. most /\ m = n + 1)
      BY <2>2, <2>4, <2>5, <2>6, <2>7 DEF Settled
    <2> HIDE DEF a, b, g, most, n, m
    <2>9. b \in 0 .. m * most
      <3>1. n * most \in Nat /\ (n + 1) * most = n * most + most
        BY <2>8, OneFailureMore
      <3> DEFINE x == n * most
      <3>2. a \in 0 .. x /\ x \in Nat
        BY <2>8, <3>1
      <3>3. CASE g = 0 /\ m = n
        <4>1. b = a
          BY <2>8, <3>2, <3>3
        <4> QED  BY <2>8, <3>3, <4>1
      <3>4. CASE g \in 0 .. most /\ m = n + 1
        <4>1. m * most = x + most
          BY <3>1, <3>4
        <4> HIDE DEF x
        <4>2. b \in 0 .. x + most
          BY <2>8, <3>2, <3>4
        <4> QED  BY <4>1, <4>2
      <3> QED  BY <2>8, <3>3, <3>4
    <2> QED  BY <2>3, <2>9 DEF b, m, most
  <1> QED  BY <1>2, <1>3 DEF CheckoutInv, StockAccounted

LEMMA CheckoutInitially ==
  ASSUME CheckoutInit
  PROVE  CheckoutInv
PROOF
  <1>1. CheckoutTypes /\ LinesKept
    BY CheckoutAssumption DEF CheckoutInit, CheckoutTypes, LinesKept
  <1>2. ASSUME NEW p \in Products PROVE Reserved(p) = 0 /\ Ordered(p) = 0
    <2> DEFINE f == [c \in Calls |-> ReservedNow(c, p)]
               g == [i \in DOMAIN orders |-> UnitsIn(orders[i].products, p)]
    <2>1. \A c \in Calls : f[c] = 0
      BY DEF CheckoutInit, ReservedNow, In, NoCall
    <2>2. SumFunctionOnSet(f, Calls) = 0
      BY <2>1, CheckoutAssumption, SumOfZeros
    <2>3. DOMAIN orders = {}
      BY DEF CheckoutInit
    <2>4. SumFunctionOnSet(g, DOMAIN orders) = 0
      <3> HIDE DEF g
      <3>1. IsFiniteSet({})
        BY FS_EmptySet
      <3> QED  BY <2>3, <3>1, SumUnfolds
    <2> QED  BY <2>2, <2>4 DEF Reserved, Ordered, SumFunction
  <1>3. ASSUME NEW p \in Products PROVE stock[p] >= 0 /\ Missing(p) \in 0 .. failures * MostOf(p)
    <2>1. MostOf(p) \in Nat /\ failures = 0 /\ stock[p] = StockOf[p] /\ StockOf[p] \in Nat
      BY MostOfIs, CheckoutAssumption DEF CheckoutInit
    <2>2. Missing(p) = 0 /\ failures * MostOf(p) = 0
      BY <1>2, <2>1 DEF Missing
    <2> QED  BY <2>1, <2>2
  <1>4. ASSUME NEW c \in Calls PROVE HoldsPartOfCart(c)
    BY MostOfIs DEF CheckoutInit, HoldsPartOfCart, ReservedNow, In, NoCall
  <1> QED  BY <1>1, <1>3, <1>4 DEF CheckoutInv, StockAccounted

LEMMA BeginKeeps ==
  ASSUME CheckoutInv, NEW c \in Calls, NEW b \in Carts, NEW k \in OrderKeys, BeginCheckout(c, b, k)
  PROVE  CheckoutInv'
PROOF
  <1> DEFINE r == [at |-> "reserving", cart |-> b, key |-> k, since |-> cleared[b], reserved |-> <<>>]
  <1>1. CheckoutTypes /\ LinesKept /\ In(c, "idle") /\ UNCHANGED <<stock, lines, cleared, failures, orders>>
    BY DEF CheckoutInv, BeginCheckout
  <1>2. r \in CheckoutCall
    <2>1. <<>> \in Seq(Products) /\ cleared[b] \in Nat
      BY <1>1 DEF CheckoutTypes
    <2> QED  BY <2>1 DEF CheckoutCall, AnyCall, CheckoutStages
  <1>3. call' = [call EXCEPT ![c] = r]
    BY DEF BeginCheckout
  <1>4. r.at = "reserving" /\ r.reserved = <<>>
    OBVIOUS
  <1> HIDE DEF r
  <1>5. CheckoutTypes' /\ LinesKept' /\ call'[c] = r /\ \A d \in Calls \ {c} : call'[d] = call[d]
    BY <1>1, <1>2, <1>3 DEF CheckoutTypes, LinesKept
  <1>6. ASSUME NEW p \in Products PROVE ReservedNow(c, p)' = 0 /\ ReservedNow(c, p) = 0
    BY <1>1, <1>4, <1>5, UnitsInNothing DEF ReservedNow, In
  <1>7. HoldsPartOfCart(c)'
    <2>1. \A t : Len(<<>>) = 0 /\ (Len(t) \in Nat => BeginsAs(<<>>, t))
      BY DEF BeginsAs
    <2>2. LinesOf[call'[c].cart] \in Seq(Products)
      BY <1>2, <1>5, CheckoutAssumption DEF CheckoutCall, AnyCall
    <2>3. BeginsAs(call'[c].reserved, LinesOf[call'[c].cart])
      BY <1>4, <1>5, <2>1, <2>2
    <2> QED  BY <1>6, <2>3, MostOfIs DEF HoldsPartOfCart
  <1>8. ASSUME NEW p \in Products PROVE Settled(Gone(c, p), p)
    <2>1. Ordered(p)' = Ordered(p) /\ Ordered(p) \in Nat /\ stock'[p] = stock[p] /\ stock[p] \in Nat
      BY <1>1, OrdersAddUp DEF CheckoutTypes, Ordered
    <2> QED  BY <1>1, <1>6, <2>1 DEF Settled, Gone
  <1> QED  BY <1>5, <1>7, <1>8, StepKeepsBooks

\* A step that moves the call on to another stage, and takes from the stock what
\* it can account for.
LEMMA MovesKeep ==
  ASSUME CheckoutInv, NEW c \in Calls, ~ In(c, "idle"),
         NEW s \in CheckoutStages \ {"clearing", "reserving"}, Moves(c, s),
         UNCHANGED <<lines, cleared, orders>>, stock' \in [Products -> Nat], failures' \in Nat,
         \A p \in Products : Settled(stock[p] - stock'[p], p)
  PROVE  CheckoutInv'
PROOF
  <1> DEFINE r == [call[c] EXCEPT !.at = s]
  <1>1. CheckoutTypes /\ LinesKept /\ call[c] \in CheckoutCall
    BY CallUnderWay DEF CheckoutInv
  <1>2. r \in CheckoutCall /\ r.at = s /\ r.reserved = call[c].reserved
    BY <1>1, CallAt
  <1>3. call' = [call EXCEPT ![c] = r]
    BY DEF Moves
  <1> HIDE DEF r
  <1>4. CheckoutTypes' /\ LinesKept' /\ call'[c] = r /\ \A d \in Calls \ {c} : call'[d] = call[d]
    BY <1>1, <1>2, <1>3 DEF CheckoutTypes, LinesKept
  <1>5. ASSUME NEW p \in Products PROVE ReservedNow(c, p)' = ReservedNow(c, p)
    BY <1>2, <1>4 DEF ReservedNow, In, CheckoutStages
  <1>6. HoldsPartOfCart(c)'
    <2>1. ~ In(c, "reserving")'
      BY <1>2, <1>4 DEF In
    <2>2. HoldsPartOfCart(c)
      BY DEF CheckoutInv
    <2> QED  BY <1>5, <2>1, <2>2 DEF HoldsPartOfCart
  <1>7. ASSUME NEW p \in Products PROVE Settled(Gone(c, p), p)
    <2>1. Ordered(p)' = Ordered(p) /\ Ordered(p) \in Nat /\ stock'[p] \in Nat /\ stock[p] \in Nat
          /\ ReservedNow(c, p) \in Nat
      BY <1>1, OrdersAddUp, ReservedNowIsNat DEF CheckoutTypes, Ordered
    <2>2. Gone(c, p) = stock[p] - stock'[p]
      BY <1>5, <2>1 DEF Gone
    <2> QED  BY <2>2
  <1> QED  BY <1>4, <1>6, <1>7, StepKeepsBooks

\* A unit of a cart's line that left the stock, with no answer.
LEMMA LostUnit ==
  ASSUME CheckoutInv, NEW p \in Products, stock[p] > 0, stock' = [stock EXCEPT ![p] = @ - 1],
         MostOf(p) >= 1, Fails
  PROVE  /\ stock' \in [Products -> Nat] /\ failures' \in Nat
         /\ \A q \in Products : Settled(stock[q] - stock'[q], q)
PROOF
  <1>1. stock \in [Products -> Nat] /\ failures \in Nat
    BY DEF CheckoutInv, CheckoutTypes
  <1>2. stock[p] - 1 \in Nat
    BY <1>1
  <1>3. stock' \in [Products -> Nat] /\ failures' = failures + 1
    BY <1>1, <1>2 DEF Fails
  <1>4. ASSUME NEW q \in Products PROVE Settled(stock[q] - stock'[q], q)
    <2>1. stock[q] - stock'[q] = IF q = p THEN 1 ELSE 0
      BY <1>1
    <2>2. MostOf(q) \in Nat
      BY MostOfIs
    <2> QED  BY <1>3, <2>1, <2>2 DEF Settled
  <1> QED  BY <1>1, <1>3, <1>4

\* The line of the cart that the foreach has come to.
LEMMA NextLine ==
  ASSUME CheckoutInv, NEW c \in Calls, In(c, "reserving"),
         Len(call[c].reserved) + 1 <= Len(lines[call[c].cart])
  PROVE  LET p == lines[call[c].cart][Len(call[c].reserved) + 1]
         IN /\ p \in Products /\ MostOf(p) >= 1
            /\ BeginsAs(Append(call[c].reserved, p), LinesOf[call[c].cart])
PROOF
  <1> DEFINE b == call[c].cart
             s == call[c].reserved
             n == Len(s) + 1
             t == LinesOf[b]
             p == lines[b][n]
             more == Append(s, p)
  <1>1. b \in Carts /\ s \in Seq(Products) /\ BeginsAs(s, t) /\ LinesKept
    <2>1. HoldsPartOfCart(c) /\ CheckoutTypes /\ LinesKept
      BY DEF CheckoutInv
    <2>2. ~ In(c, "idle")
      BY DEF In
    <2> QED  BY <2>1, <2>2, CallUnderWay DEF HoldsPartOfCart
  <1>2. t \in Seq(Products) /\ lines[b] \in {t, <<>>}
    BY <1>1, CheckoutAssumption DEF LinesKept
  <1>3. n <= Len(lines[b])
    OBVIOUS
  <1> HIDE DEF b, s, t
  <1>4. Len(s) \in Nat /\ Len(t) \in Nat /\ lines[b] = t /\ n \in 1 .. Len(t)
    BY <1>1, <1>2, <1>3
  <1>5. p = t[n] /\ p \in Products
    BY <1>2, <1>4
  <1> HIDE DEF p
  <1>6. more \in Seq(Products) /\ Len(more) = n /\ (\A i \in 1 .. Len(s) : more[i] = s[i]) /\ more[n] = p
    BY <1>1, <1>5
  <1>7. BeginsAs(more, t)
    <2> HIDE DEF more
    <2>1. \A i \in 1 .. n : more[i] = t[i]
      <3> TAKE i \in 1 .. n
      <3>1. CASE i = n
        BY <1>5, <1>6, <3>1
      <3>2. CASE i # n
        <4>1. i \in 1 .. Len(s)
          BY <1>4, <3>2
        <4> QED  BY <1>1, <1>6, <4>1 DEF BeginsAs
      <3> QED  BY <3>1, <3>2
    <2> QED  BY <1>4, <1>6, <2>1 DEF BeginsAs
  <1>8. MostOf(p) >= 1
    <2>1. UnitsIn(more, p) = UnitsIn(s, p) + 1 /\ UnitsIn(s, p) \in Nat
      BY <1>1, <1>5, UnitsAppend, UnitsFinite
    <2>2. UnitsIn(more, p) <= MostOf(p)
      <3> HIDE DEF more
      <3> QED  BY <1>1, <1>5, <1>6, <1>7, UnitsOfBeginning DEF t
    <2>3. MostOf(p) \in Nat
      BY <1>5, MostOfIs
    <2> QED  BY <2>1, <2>2, <2>3
  <1> QED  BY <1>5, <1>7, <1>8 DEF b, s, t, p

LEMMA ReserveKeeps ==
  ASSUME CheckoutInv, NEW c \in Calls, ReserveLine(c)
  PROVE  CheckoutInv'
PROOF
  <1> DEFINE next == Len(call[c].reserved) + 1
             p == lines[call[c].cart][next]
             here == next <= Len(lines[call[c].cart])
  <1>1. CheckoutTypes /\ LinesKept /\ ~ In(c, "idle") /\ In(c, "reserving") /\ UNCHANGED <<lines, cleared, orders>>
    BY DEF CheckoutInv, ReserveLine, In
  <1>2. call[c] \in CheckoutCall /\ call[c].cart \in Carts /\ call[c].reserved \in Seq(Products)
    BY <1>1, CallUnderWay
  <1>3. \/ (Moves(c, "undoing") \/ Moves(c, "charging")) /\ UNCHANGED <<stock, failures>>
        \/ here /\ TryReserve(c, p)
    <2>1. next \in Nat /\ Len(lines[call[c].cart]) \in Nat
      BY <1>1, <1>2 DEF CheckoutTypes
    <2> HIDE DEF p
    <2>2. \/ (Moves(c, "undoing") \/ Moves(c, "charging")) /\ UNCHANGED <<stock, failures>>
          \/ ~ (next > Len(lines[call[c].cart])) /\ TryReserve(c, p)
      BY DEF ReserveLine, p
    <2> QED  BY <2>1, <2>2
  <1>4. ASSUME Moves(c, "undoing") \/ Moves(c, "charging"),
               stock' = stock, failures' \in {failures, failures + 1}
        PROVE  CheckoutInv'
    <2>1. stock' \in [Products -> Nat] /\ failures' \in Nat /\ failures \in Nat
      BY <1>1, <1>4 DEF CheckoutTypes
    <2>2. ASSUME NEW q \in Products PROVE Settled(stock[q] - stock'[q], q)
      <3>1. stock[q] - stock'[q] = 0 /\ MostOf(q) \in Nat
        BY <1>1, <1>4, MostOfIs DEF CheckoutTypes
      <3> QED  BY <1>4, <3>1 DEF Settled
    <2> QED  BY <1>1, <1>4, <2>1, <2>2, MovesKeep DEF CheckoutStages
  <1>5. ASSUME here PROVE p \in Products /\ MostOf(p) >= 1 /\ BeginsAs(Append(call[c].reserved, p), LinesOf[call[c].cart])
    BY <1>1, <1>5, NextLine
  <1>6. CASE here /\ stock[p] > 0 /\ stock' = [stock EXCEPT ![p] = @ - 1] /\ Moves(c, "undoing") /\ Fails
    <2> HIDE DEF p
    <2>1. /\ stock' \in [Products -> Nat] /\ failures' \in Nat
          /\ \A q \in Products : Settled(stock[q] - stock'[q], q)
      BY <1>5, <1>6, LostUnit
    <2> QED  BY <1>1, <1>6, <2>1, MovesKeep DEF CheckoutStages
  <1>7. CASE /\ here /\ stock[p] > 0 /\ stock' = [stock EXCEPT ![p] = @ - 1]
             /\ call' = [call EXCEPT ![c].reserved = Append(@, p)] /\ UNCHANGED failures
    <2> DEFINE r == [call[c] EXCEPT !.reserved = Append(call[c].reserved, p)]
    <2>1. p \in Products /\ MostOf(p) >= 1 /\ BeginsAs(Append(call[c].reserved, p), LinesOf[call[c].cart])
      BY <1>5, <1>7
    <2>2. call' = [call EXCEPT ![c] = r]
      BY <1>7
    <2> HIDE DEF p
    <2>3. /\ r \in CheckoutCall /\ r.at = call[c].at /\ r.cart = call[c].cart
          /\ r.reserved = Append(call[c].reserved, p) /\ r.reserved \in Seq(Products)
      <3>1. Append(call[c].reserved, p) \in Seq(Products)
        BY <1>2, <2>1
      <3>2. call[c].at # "clearing"
        BY <1>1 DEF In
      <3> QED  BY <1>2, <3>1, <3>2, CallHolding
    <2> HIDE DEF r
    <2>4. call'[c] = r /\ \A d \in Calls \ {c} : call'[d] = call[d]
      BY <1>1, <2>2 DEF CheckoutTypes
    <2>5. CheckoutTypes' /\ LinesKept'
      <3>1. stock' \in [Products -> Nat]
        <4>1. stock \in [Products -> Nat] /\ stock[p] - 1 \in Nat
          BY <1>1, <1>7, <2>1 DEF CheckoutTypes
        <4> QED  BY <1>7, <4>1
      <3>2. call' \in [Calls -> CheckoutCall \cup {NoCall}]
        BY <1>1, <2>2, <2>3 DEF CheckoutTypes
      <3> QED  BY <1>1, <1>7, <3>1, <3>2 DEF CheckoutTypes, LinesKept
    <2>6. ASSUME NEW q \in Products PROVE ReservedNow(c, q)' = UnitsIn(r.reserved, q)
      BY <1>1, <2>3, <2>4 DEF ReservedNow, In
    <2>7. HoldsPartOfCart(c)'
      <3>1. BeginsAs(call'[c].reserved, LinesOf[call'[c].cart])
        BY <2>1, <2>3, <2>4
      <3>2. ASSUME NEW q \in Products PROVE UnitsIn(r.reserved, q) <= MostOf(q)
        BY <1>2, <2>1, <2>3, UnitsOfBeginning
      <3> QED  BY <2>6, <3>1, <3>2 DEF HoldsPartOfCart
    <2>8. ASSUME NEW q \in Products PROVE Settled(Gone(c, q), q)
      <3>1. UnitsIn(r.reserved, q) = UnitsIn(call[c].reserved, q) + (IF p = q THEN 1 ELSE 0)
        BY <1>2, <2>1, <2>3, UnitsAppend
      <3>2. ReservedNow(c, q) = UnitsIn(call[c].reserved, q) /\ ReservedNow(c, q) \in Nat
        BY <1>1, ReservedNowIsNat DEF ReservedNow, In
      <3>3. stock'[q] = stock[q] - (IF p = q THEN 1 ELSE 0) /\ stock[q] \in Nat
        BY <1>1, <1>7, <2>1 DEF CheckoutTypes
      <3>4. Ordered(q)' = Ordered(q) /\ Ordered(q) \in Nat
        BY <1>1, OrdersAddUp DEF Ordered, CheckoutTypes
      <3>5. Gone(c, q) = 0
        BY <2>6, <3>1, <3>2, <3>3, <3>4 DEF Gone
      <3> QED  BY <1>7, <3>5 DEF Settled
    <2> QED  BY <2>4, <2>5, <2>7, <2>8, StepKeepsBooks
  <1>8. CASE here /\ TryReserve(c, p)
    <2>1. \/ /\ stock[p] > 0 /\ stock' = [stock EXCEPT ![p] = @ - 1]
             /\ call' = [call EXCEPT ![c].reserved = Append(@, p)] /\ UNCHANGED failures
          \/ stock[p] > 0 /\ stock' = [stock EXCEPT ![p] = @ - 1] /\ Moves(c, "undoing") /\ Fails
          \/ Moves(c, "undoing") /\ stock' = stock /\ failures' \in {failures, failures + 1}
      <3> HIDE DEF p
      <3> QED  BY <1>8, SMTT(20) DEF TryReserve, Fails
    <2> HIDE DEF p, here
    <2> QED  BY <1>4, <1>6, <1>7, <1>8, <2>1
  <1> HIDE DEF p, here
  <1> QED  BY <1>3, <1>4, <1>8

LEMMA ChargeKeeps ==
  ASSUME CheckoutInv, NEW c \in Calls, ChargeKey(c)
  PROVE  CheckoutInv'
PROOF
  <1>1. ~ In(c, "idle") /\ (Moves(c, "recording") \/ Moves(c, "undoing"))
        /\ UNCHANGED <<stock, lines, cleared, failures, orders>>
    BY DEF ChargeKey, In
  <1>2. stock' \in [Products -> Nat] /\ failures' \in Nat
        /\ \A q \in Products : Settled(stock[q] - stock'[q], q)
    BY <1>1 DEF CheckoutInv, CheckoutTypes, Settled
  <1> QED  BY <1>1, <1>2, MovesKeep DEF CheckoutStages

\* What was reserved is in the order now.
LEMMA RecordKeeps ==
  ASSUME CheckoutInv, NEW c \in Calls, RecordResult(c)
  PROVE  CheckoutInv'
PROOF
  <1> DEFINE o == [key |-> call[c].key, products |-> call[c].reserved]
             r == [call[c] EXCEPT !.at = "clearing", !.reserved = <<>>]
  <1>1. CheckoutTypes /\ LinesKept /\ call[c] \in CheckoutCall /\ In(c, "recording")
    BY CallUnderWay DEF CheckoutInv, RecordResult, In
  <1>2. r \in CheckoutCall /\ r.at = "clearing" /\ r.reserved = <<>> /\ o \in OrderResult
    <2>1. o \in OrderResult
      BY <1>1 DEF CheckoutCall, AnyCall, OrderResult
    <2> HIDE DEF o
    <2> QED  BY <1>1, <2>1, CallClearing
  <1>3. call' = [call EXCEPT ![c] = r] /\ orders' = Append(orders, o) /\ UNCHANGED <<stock, lines, cleared, failures>>
    BY DEF RecordResult
  <1>4. o.products = call[c].reserved
    OBVIOUS
  <1> HIDE DEF r, o
  <1>5. call'[c] = r /\ (\A d \in Calls \ {c} : call'[d] = call[d])
        /\ call' \in [Calls -> CheckoutCall \cup {NoCall}]
    BY <1>1, <1>2, <1>3 DEF CheckoutTypes
  <1>6. CheckoutTypes' /\ LinesKept'
    BY <1>1, <1>2, <1>3, <1>5 DEF CheckoutTypes, LinesKept
  <1>7. ASSUME NEW p \in Products PROVE ReservedNow(c, p)' = 0
    BY <1>2, <1>5, UnitsInNothing DEF ReservedNow, In
  <1>8. HoldsPartOfCart(c)'
    <2>1. ~ In(c, "reserving")'
      BY <1>2, <1>5 DEF In
    <2> QED  BY <1>7, <2>1, MostOfIs DEF HoldsPartOfCart
  <1>9. ASSUME NEW p \in Products PROVE Settled(Gone(c, p), p)
    <2>1. Ordered(p)' = Ordered(p) + UnitsIn(call[c].reserved, p)
      BY <1>1, <1>2, <1>3, <1>4, OrderedAppend
    <2>2. ReservedNow(c, p) = UnitsIn(call[c].reserved, p)
      BY <1>1 DEF ReservedNow, In
    <2>3. ReservedNow(c, p) \in Nat /\ Ordered(p) \in Nat /\ stock[p] \in Nat
      BY <1>1, ReservedNowIsNat, OrdersAddUp DEF CheckoutTypes, Ordered
    <2>4. Gone(c, p) = 0
      BY <1>3, <1>7, <2>1, <2>2, <2>3 DEF Gone
    <2> QED  BY <1>3, <2>4 DEF Settled
  <1> QED  BY <1>5, <1>6, <1>8, <1>9, StepKeepsBooks

\* The call ends, and what it had reserved is settled.
LEMMA EndKeeps ==
  ASSUME CheckoutInv, NEW c \in Calls, call' = [call EXCEPT ![c] = NoCall],
         stock' \in [Products -> Nat], failures' \in Nat, UNCHANGED orders,
         lines' \in [Carts -> Seq(Products)], cleared' \in [Carts -> Nat], LinesKept',
         \A p \in Products : Settled(ReservedNow(c, p) + stock[p] - stock'[p], p)
  PROVE  CheckoutInv'
PROOF
  <1>1. CheckoutTypes
    BY DEF CheckoutInv
  <1>2. CheckoutTypes' /\ call'[c] = NoCall /\ \A d \in Calls \ {c} : call'[d] = call[d]
    BY <1>1 DEF CheckoutTypes
  <1>3. ASSUME NEW p \in Products PROVE ReservedNow(c, p)' = 0
    BY <1>2 DEF ReservedNow, In, NoCall
  <1>4. HoldsPartOfCart(c)'
    BY <1>2, <1>3, MostOfIs DEF HoldsPartOfCart, In, NoCall
  <1>5. ASSUME NEW p \in Products PROVE Settled(Gone(c, p), p)
    <2>1. Ordered(p)' = Ordered(p) /\ Ordered(p) \in Nat /\ stock'[p] \in Nat /\ stock[p] \in Nat
          /\ ReservedNow(c, p) \in Nat
      BY <1>1, OrdersAddUp, ReservedNowIsNat DEF CheckoutTypes, Ordered
    <2>2. Gone(c, p) = ReservedNow(c, p) + stock[p] - stock'[p]
      BY <1>3, <2>1 DEF Gone
    <2> QED  BY <2>2
  <1> QED  BY <1>2, <1>4, <1>5, StepKeepsBooks

LEMMA ClearKeeps ==
  ASSUME CheckoutInv, NEW c \in Calls, ClearCart(c)
  PROVE  CheckoutInv'
PROOF
  <1>1. CheckoutTypes /\ LinesKept /\ In(c, "clearing") /\ call[c] \in CheckoutCall /\ call[c].cart \in Carts
        /\ call' = [call EXCEPT ![c] = NoCall] /\ UNCHANGED <<stock, failures, orders>>
    BY CallUnderWay DEF CheckoutInv, ClearCart, In
  <1>2. call[c].reserved = <<>>
    BY <1>1 DEF In, CheckoutCall
  <1>3. lines' \in [Carts -> Seq(Products)] /\ LinesKept'
    <2>1. lines' = [lines EXCEPT ![call[c].cart] = <<>>] /\ <<>> \in Seq(Products)
      BY DEF ClearCart
    <2> QED  BY <1>1, <2>1 DEF LinesKept, CheckoutTypes
  <1>4. cleared' \in [Carts -> Nat]
    BY <1>1 DEF ClearCart, CheckoutTypes
  <1>5. stock' \in [Products -> Nat] /\ failures' \in Nat
        /\ \A p \in Products : Settled(ReservedNow(c, p) + stock[p] - stock'[p], p)
    <2>1. \A p \in Products : ReservedNow(c, p) = 0
      BY <1>1, <1>2, UnitsInNothing DEF ReservedNow, In
    <2> QED  BY <1>1, <2>1 DEF CheckoutTypes, Settled
  <1> QED  BY <1>1, <1>3, <1>4, <1>5, EndKeeps

LEMMA ReleaseKeeps ==
  ASSUME CheckoutInv, NEW c \in Calls, ReleaseLine(c)
  PROVE  CheckoutInv'
PROOF
  <1> DEFINE s == call[c].reserved
             p == Head(s)
  <1>1. CheckoutTypes /\ LinesKept /\ call[c] \in CheckoutCall /\ s \in Seq(Products) /\ In(c, "undoing")
        /\ UNCHANGED <<lines, cleared, orders>>
    BY CallUnderWay DEF CheckoutInv, ReleaseLine, In
  <1>2. ASSUME NEW q \in Products
        PROVE  ReservedNow(c, q) = UnitsIn(s, q) /\ UnitsIn(s, q) \in 0 .. MostOf(q) /\ MostOf(q) \in Nat
    <2>1. ReservedNow(c, q) = UnitsIn(s, q) /\ ReservedNow(c, q) \in Nat
      BY <1>1, ReservedNowIsNat DEF ReservedNow, In
    <2>2. HoldsPartOfCart(c) /\ MostOf(q) \in Nat
      BY MostOfIs DEF CheckoutInv
    <2> QED  BY <2>1, <2>2 DEF HoldsPartOfCart
  <1>3. /\ stock \in [Products -> Nat] /\ failures \in Nat /\ LinesKept'
        /\ lines' \in [Carts -> Seq(Products)] /\ cleared' \in [Carts -> Nat]
    BY <1>1 DEF CheckoutTypes, LinesKept
  <1>4. CASE s = <<>>
    <2>1. call' = [call EXCEPT ![c] = NoCall] /\ UNCHANGED <<stock, failures>>
      BY <1>4 DEF ReleaseLine
    <2>2. \A q \in Products : Settled(ReservedNow(c, q) + stock[q] - stock'[q], q)
      <3>1. \A q \in Products : UnitsIn(s, q) = 0
        BY <1>4, UnitsInNothing
      <3> HIDE DEF s
      <3> QED  BY <1>2, <1>3, <2>1, <3>1 DEF Settled
    <2> QED  BY <1>1, <1>3, <2>1, <2>2, EndKeeps
  <1>5. CASE s # <<>>
    <2>1. p \in Products /\ Tail(s) \in Seq(Products)
      BY <1>1, <1>5
    <2>2. ASSUME NEW q \in Products
          PROVE  UnitsIn(Tail(s), q) = UnitsIn(s, q) - (IF p = q THEN 1 ELSE 0) /\ UnitsIn(Tail(s), q) \in Nat
      <3> HIDE DEF s
      <3> QED  BY <1>1, <1>5, <2>1, UnitsTail, UnitsFinite
    <2>3. \/ stock' = [stock EXCEPT ![p] = @ + 1] /\ call' = [call EXCEPT ![c].reserved = Tail(@)] /\ UNCHANGED failures
          \/ stock' = [stock EXCEPT ![p] = @ + 1] /\ call' = [call EXCEPT ![c] = NoCall] /\ Fails
          \/ UNCHANGED stock /\ call' = [call EXCEPT ![c] = NoCall] /\ Fails
      BY <1>5 DEF ReleaseLine
    <2>4. CASE UNCHANGED stock /\ call' = [call EXCEPT ![c] = NoCall] /\ Fails
      <3>1. failures' = failures + 1
        BY <2>4 DEF Fails
      <3>2. \A q \in Products : Settled(ReservedNow(c, q) + stock[q] - stock'[q], q)
        <4> HIDE DEF s
        <4> QED  BY <1>2, <1>3, <2>4, <3>1 DEF Settled
      <3>3. stock' \in [Products -> Nat] /\ failures' \in Nat /\ UNCHANGED orders
        BY <1>1, <1>3, <2>4, <3>1
      <3> HIDE DEF s, p
      <3> QED  BY <1>3, <2>4, <3>2, <3>3, EndKeeps
    <2>5. CASE stock' = [stock EXCEPT ![p] = @ + 1] /\ call' = [call EXCEPT ![c] = NoCall] /\ Fails
      <3>1. failures' = failures + 1
        BY <2>5 DEF Fails
      <3> HIDE DEF s, p
      <3>2. stock' \in [Products -> Nat] /\ \A q \in Products : stock'[q] = stock[q] + (IF p = q THEN 1 ELSE 0)
        BY <1>3, <2>1, <2>5
      <3>3. ASSUME NEW q \in Products PROVE Settled(ReservedNow(c, q) + stock[q] - stock'[q], q)
        <4>1. ReservedNow(c, q) + stock[q] - stock'[q] = UnitsIn(Tail(s), q)
          BY <1>2, <1>3, <2>2, <3>2
        <4>2. UnitsIn(Tail(s), q) \in 0 .. MostOf(q)
          BY <1>2, <2>2
        <4> QED  BY <3>1, <4>1, <4>2 DEF Settled
      <3>4. failures' \in Nat /\ UNCHANGED orders
        BY <1>1, <1>3, <3>1
      <3> QED  BY <1>3, <2>5, <3>2, <3>3, <3>4, EndKeeps
    <2>6. CASE stock' = [stock EXCEPT ![p] = @ + 1] /\ call' = [call EXCEPT ![c].reserved = Tail(@)] /\ UNCHANGED failures
      <3> DEFINE r == [call[c] EXCEPT !.reserved = Tail(s)]
      <3>1. call' = [call EXCEPT ![c] = r]
        BY <2>6
      <3> HIDE DEF s, p
      <3>2. r \in CheckoutCall /\ r.at = call[c].at /\ r.reserved = Tail(s)
        <4>1. call[c].at # "clearing"
          BY <1>1 DEF In
        <4> QED  BY <1>1, <2>1, <4>1, CallHolding
      <3> HIDE DEF r
      <3>3. call'[c] = r /\ \A d \in Calls \ {c} : call'[d] = call[d]
        BY <1>1, <3>1 DEF CheckoutTypes
      <3>4. stock' \in [Products -> Nat] /\ \A q \in Products : stock'[q] = stock[q] + (IF p = q THEN 1 ELSE 0)
        BY <1>3, <2>1, <2>6
      <3>5. CheckoutTypes'
        BY <1>1, <2>6, <3>1, <3>2, <3>4 DEF CheckoutTypes
      <3>6. ASSUME NEW q \in Products PROVE ReservedNow(c, q)' = UnitsIn(Tail(s), q)
        BY <1>1, <3>2, <3>3 DEF ReservedNow, In
      <3>7. HoldsPartOfCart(c)'
        <4>1. ~ In(c, "reserving")'
          BY <1>1, <3>2, <3>3 DEF In
        <4>2. ASSUME NEW q \in Products PROVE UnitsIn(Tail(s), q) <= MostOf(q)
          BY <1>2, <2>2
        <4> QED  BY <3>6, <4>1, <4>2 DEF HoldsPartOfCart
      <3>8. ASSUME NEW q \in Products PROVE Settled(Gone(c, q), q)
        <4>1. Ordered(q)' = Ordered(q) /\ Ordered(q) \in Nat
          BY <1>1, OrdersAddUp DEF Ordered, CheckoutTypes
        <4>2. ReservedNow(c, q) = UnitsIn(s, q) /\ UnitsIn(s, q) \in Nat /\ stock[q] \in Nat
          BY <1>2, <1>3
        <4>3. ReservedNow(c, q)' = UnitsIn(s, q) - (IF p = q THEN 1 ELSE 0)
          BY <2>2, <3>6
        <4>4. stock'[q] = stock[q] + (IF p = q THEN 1 ELSE 0)
          BY <3>4
        <4>5. Gone(c, q) = 0
          BY <4>1, <4>2, <4>3, <4>4 DEF Gone
        <4> QED  BY <2>6, <4>5 DEF Settled
      <3> QED  BY <1>3, <3>3, <3>5, <3>7, <3>8, StepKeepsBooks
    <2> HIDE DEF s, p
    <2> QED  BY <2>3, <2>4, <2>5, <2>6
  <1> QED  BY <1>4, <1>5

\* The units of a product are in stock, reserved by a call that is under way or in
\* an order that was returned, but for those that calls of the inventory which
\* threw left behind, at most a cart's for each, for any calls, carts, keys,
\* products and failures.
THEOREM StockAlwaysAccounted == CheckoutSpec => []StockAccounted
PROOF
  <1>1. CheckoutInit => CheckoutInv
    BY CheckoutInitially
  <1>2. CheckoutInv /\ [CheckoutNext]_checkoutVars => CheckoutInv'
    <2> SUFFICES ASSUME CheckoutInv, [CheckoutNext]_checkoutVars PROVE CheckoutInv'
      OBVIOUS
    <2>1. CASE CheckoutNext
      <3>1. PICK c \in Calls :
              \/ \E b \in Carts, k \in OrderKeys : BeginCheckout(c, b, k)
              \/ ReserveLine(c) \/ ChargeKey(c) \/ RecordResult(c) \/ ClearCart(c) \/ ReleaseLine(c)
        BY <2>1 DEF CheckoutNext
      <3> QED  BY <3>1, BeginKeeps, ReserveKeeps, ChargeKeeps, RecordKeeps, ClearKeeps, ReleaseKeeps
    <2>2. CASE UNCHANGED checkoutVars
      BY <2>2 DEF CheckoutInv, CheckoutTypes, LinesKept, HoldsPartOfCart, StockAccounted, checkoutVars,
                  Missing, Reserved, Ordered, ReservedNow, In
    <2> QED  BY <2>1, <2>2
  <1>3. CheckoutInv => StockAccounted
    BY DEF CheckoutInv
  <1> QED  BY <1>1, <1>2, <1>3, PTL DEF CheckoutSpec

-----------------------------------------------------------------------------
(* Withdrawals.                                                                *)

Plan == [Notes -> Nat]

LEMMA NotesFinite == IsFiniteSet(Notes) /\ Notes \subseteq Nat \ {0}
PROOF
  <1> DEFINE n == Len(Denominations)
  <1>1. Denominations \in [1 .. n -> Nat \ {0}] /\ n \in Nat /\ DOMAIN Denominations = 1 .. n
    BY WithdrawalAssumption
  <1>2. Notes = {Denominations[i] : i \in 1 .. n}
    BY <1>1 DEF Notes, ToSet
  <1>3. IsFiniteSet(1 .. n)
    BY <1>1, FS_Interval
  <1>4. Denominations \in Surjection(1 .. n, Notes)
    BY <1>1, <1>2 DEF Surjection
  <1>5. IsFiniteSet(Notes)
    <2> HIDE DEF n
    <2> QED  BY <1>3, <1>4, FS_Surjection
  <1> QED  BY <1>1, <1>2, <1>5

LEMMA WorthIsNat ==
  ASSUME NEW plan \in Plan
  PROVE  Worth(plan) \in Nat
PROOF
  <1> DEFINE f == [n \in Notes |-> n * plan[n]]
  <1>1. \A n \in Notes : f[n] \in Nat
    BY NotesFinite DEF Plan
  <1>2. SumFunctionOnSet(f, Notes) \in Nat
    BY <1>1, NotesFinite, SumIsNat
  <1> QED  BY <1>2 DEF Worth, SumFunction

LEMMA WorthOfNoNotes == NoNotes \in Plan /\ Worth(NoNotes) = 0
PROOF
  <1> DEFINE f == [n \in Notes |-> n * NoNotes[n]]
  <1>1. \A n \in Notes : f[n] = 0
    BY NotesFinite DEF NoNotes
  <1>2. SumFunctionOnSet(f, Notes) = 0
    BY <1>1, NotesFinite, SumOfZeros
  <1> QED  BY <1>2 DEF Worth, SumFunction, NoNotes, Plan

LEMMA ProductOfSum ==
  ASSUME NEW n \in Nat, NEW a \in Nat, NEW b \in Nat
  PROVE  n * (a + b) = n * a + n * b /\ n * a \in Nat /\ n * b \in Nat
OBVIOUS

\* More notes of one kind are worth that many times the note.
LEMMA WorthOfMore ==
  ASSUME NEW plan \in Plan, NEW n \in Notes, plan[n] = 0, NEW k \in Nat
  PROVE  Worth([plan EXCEPT ![n] = k]) = Worth(plan) + n * k
PROOF
  <1> DEFINE more == [plan EXCEPT ![n] = k]
             f == [m \in Notes |-> m * plan[m]]
             g == [m \in Notes |-> m * more[m]]
  <1>1. \A m \in Notes : f[m] \in Int /\ g[m] \in Int
    BY NotesFinite DEF Plan
  <1>2. \A m \in Notes \ {n} : g[m] = f[m]
    BY DEF Plan
  <1>3. g[n] = n * k /\ f[n] = 0 /\ n * k \in Nat
    BY NotesFinite DEF Plan
  <1>4. Worth(plan) = SumFunctionOnSet(f, Notes) /\ Worth(more) = SumFunctionOnSet(g, Notes)
    BY DEF Worth, SumFunction
  <1>5. Worth(plan) \in Nat
    BY WorthIsNat
  <1> HIDE DEF f, g, more
  <1>6. SumFunctionOnSet(g, Notes) = SumFunctionOnSet(f, Notes) + (g[n] - f[n])
    <2>1. IsFiniteSet(Notes)
      BY NotesFinite
    <2>2. \A x \in Notes : (\A y \in Notes \ {x} : g[y] = f[y]) =>
            SumFunctionOnSet(g, Notes) = SumFunctionOnSet(f, Notes) + (g[x] - f[x])
      BY <1>1, <2>1, SumChangesAt
    <2> QED  BY <1>2, <2>2
  <1>7. Worth(more) = Worth(plan) + n * k
    BY <1>3, <1>4, <1>5, <1>6
  <1> QED  BY <1>7 DEF more

LEMMA MinOfTwo ==
  ASSUME NEW a \in Nat, NEW b \in Nat
  PROVE  Min({a, b}) \in Nat /\ Min({a, b}) <= a /\ Min({a, b}) <= b
PROOF
  <1>1. \E x \in {a, b} : \A y \in {a, b} : x <= y
    OBVIOUS
  <1>2. Min({a, b}) \in {a, b} /\ \A y \in {a, b} : Min({a, b}) <= y
    BY <1>1 DEF Min
  <1> QED  BY <1>2

\* What the loop keeps: the rest and the plan are worth the amount, the plan
\* takes no more than there is, and nothing of the denominations that come.
GreedyInv(amount, acc, i) ==
  /\ acc.rest \in Nat /\ acc.plan \in Plan
  /\ acc.rest + Worth(acc.plan) = amount
  /\ \A n \in Notes : acc.plan[n] <= notes[n]
  /\ \A j \in (i + 1) .. Len(Denominations) : acc.plan[Denominations[j]] = 0

LEMMA DivisionFits ==
  ASSUME NEW a \in Nat, NEW b \in Nat \ {0}
  PROVE  a \div b \in Nat /\ b * (a \div b) <= a
OBVIOUS

LEMMA TakeKeepsAccount ==
  ASSUME NEW amount \in Nat, notes \in Plan, NEW acc, NEW i \in 1 .. Len(Denominations),
         GreedyInv(amount, acc, i - 1)
  PROVE  GreedyInv(amount, TakeNotes(acc, Denominations[i]), i)
PROOF
  <1> DEFINE n == Denominations[i]
             fits == acc.rest \div n
             take == Min({fits, notes[n]})
             more == [acc.plan EXCEPT ![n] = take]
  <1>1. n \in Notes /\ n \in Nat \ {0} /\ Len(Denominations) \in Nat
    BY WithdrawalAssumption, NotesFinite DEF Notes, ToSet
  <1>2. acc.rest \in Nat /\ acc.plan \in Plan /\ notes[n] \in Nat /\ acc.plan[n] = 0
    BY <1>1 DEF GreedyInv, Plan
  <1>3. fits \in Nat /\ n * fits <= acc.rest
    <2> HIDE DEF n
    <2> QED  BY <1>1, <1>2, DivisionFits
  <1>4. take \in Nat /\ take <= fits /\ take <= notes[n]
    <2> HIDE DEF fits
    <2> QED  BY <1>2, <1>3, MinOfTwo
  <1>5. n * take \in Nat /\ n * take <= acc.rest /\ take * n = n * take
    <2> HIDE DEF take, fits, n
    <2>1. n * take <= n * fits /\ n * take \in Nat /\ n * fits \in Nat /\ take * n = n * take
      BY <1>1, <1>3, <1>4
    <2> QED  BY <1>2, <1>3, <2>1
  <1>6. Worth(more) = Worth(acc.plan) + n * take /\ more \in Plan /\ Worth(acc.plan) \in Nat
    <2> HIDE DEF take, n
    <2> QED  BY <1>1, <1>2, <1>4, WorthOfMore, WorthIsNat DEF Plan
  <1> DEFINE new == [rest |-> acc.rest - take * n, plan |-> more]
  <1>7. TakeNotes(acc, n) = new
    BY DEF TakeNotes
  <1>8. new.rest = acc.rest - take * n /\ new.plan = more
    OBVIOUS
  <1>9. new.rest \in Nat /\ new.rest + Worth(new.plan) = amount
    <2> HIDE DEF take, n, more, new
    <2> QED  BY <1>2, <1>4, <1>5, <1>6, <1>8 DEF GreedyInv
  <1>10. \A m \in Notes : new.plan[m] <= notes[m]
    <2> HIDE DEF take, n, new
    <2> QED  BY <1>1, <1>2, <1>4, <1>8 DEF GreedyInv, Plan
  <1>11. \A j \in (i + 1) .. Len(Denominations) : new.plan[Denominations[j]] = 0
    <2> TAKE j \in (i + 1) .. Len(Denominations)
    <2>1. Denominations[j] # n /\ Denominations[j] \in Notes
      BY <1>1, WithdrawalAssumption, SMTT(20) DEF IsInjective, Notes, ToSet
    <2>2. acc.plan[Denominations[j]] = 0
      BY <1>1 DEF GreedyInv
    <2> HIDE DEF take, n, new
    <2> QED  BY <1>1, <1>2, <1>8, <2>1, <2>2 DEF Plan
  <1> HIDE DEF new, n, more, take
  <1>12. GreedyInv(amount, new, i)
    BY <1>6, <1>8, <1>9, <1>10, <1>11 DEF GreedyInv
  <1> QED  BY <1>7, <1>12 DEF n

\* The loop's states up to a turn.
After(amount, m, after) ==
  after = [i \in 0 .. m |-> IF i = 0 THEN [rest |-> amount, plan |-> NoNotes]
                            ELSE TakeNotes(after[i - 1], Denominations[i])]

LEMMA AfterExists ==
  ASSUME NEW amount, NEW m \in Nat
  PROVE  \E after : After(amount, m, after)
PROOF
  <1> DEFINE bad == {k \in Nat : \A after : ~ After(amount, k, after)}
             start == [rest |-> amount, plan |-> NoNotes]
  <1>1. SUFFICES ASSUME bad # {} PROVE FALSE
    OBVIOUS
  <1>2. PICK k \in bad : \A l \in bad : k <= l
    <2>1. bad \subseteq Nat
      OBVIOUS
    <2> HIDE DEF bad
    <2> QED  BY <1>1, <2>1, LeastNat
  <1>3. k \in Nat /\ \A after : ~ After(amount, k, after)
    OBVIOUS
  <1>4. CASE k = 0
    <2> DEFINE g == [i \in 0 .. 0 |-> start]
    <2>1. g = [i \in 0 .. 0 |-> IF i = 0 THEN start ELSE TakeNotes(g[i - 1], Denominations[i])]
      BY Z3
    <2>2. After(amount, 0, g)
      <3> HIDE DEF g
      <3> QED  BY <2>1 DEF After
    <2> QED  BY <1>3, <1>4, <2>2
  <1>5. CASE k # 0
    <2>1. k - 1 \in Nat /\ k - 1 \notin bad
      BY <1>2, <1>3, <1>5
    <2>2. PICK f : After(amount, k - 1, f)
      BY <2>1
    <2> DEFINE g == [i \in 0 .. k |-> IF i = k THEN TakeNotes(f[k - 1], Denominations[k]) ELSE f[i]]
    <2>3. \A i \in 0 .. (k - 1) : f[i] = IF i = 0 THEN start ELSE TakeNotes(f[i - 1], Denominations[i])
      BY <2>2 DEF After
    <2>4. \A i \in 0 .. k : g[i] = IF i = 0 THEN start ELSE TakeNotes(g[i - 1], Denominations[i])
      <3> TAKE i \in 0 .. k
      <3>1. CASE i = k
        <4>1. k - 1 \in 0 .. k /\ k - 1 # k
          BY <1>3, <1>5
        <4>2. g[k - 1] = f[k - 1]
          BY <4>1
        <4> HIDE DEF start
        <4> QED  BY <1>5, <3>1, <4>2
      <3>2. CASE i # k /\ i # 0
        <4>1. i \in 0 .. (k - 1) /\ i - 1 \in 0 .. k /\ i - 1 # k
          BY <1>3, <3>2
        <4>2. g[i] = f[i] /\ g[i - 1] = f[i - 1]
          BY <3>2, <4>1
        <4> HIDE DEF g, start
        <4> QED  BY <2>3, <3>2, <4>1, <4>2
      <3>3. CASE i # k /\ i = 0
        <4>1. 0 \in 0 .. (k - 1)
          BY <1>3, <1>5
        <4> HIDE DEF start
        <4> QED  BY <2>3, <3>3, <4>1
      <3> QED  BY <3>1, <3>2, <3>3
    <2>5. g = [i \in 0 .. k |-> g[i]]
      OBVIOUS
    <2>6. After(amount, k, g)
      <3> HIDE DEF g
      <3> QED  BY <2>4, <2>5 DEF After
    <2> QED  BY <1>3, <2>6
  <1> QED  BY <1>4, <1>5

\* What the greedy loop returns: when it leaves no rest, notes for the amount
\* that the machine has.
LEMMA GreedyIsRight ==
  ASSUME NEW amount \in Nat, notes \in Plan
  PROVE  GreedyInv(amount, Greedy(amount), Len(Denominations))
PROOF
  <1> DEFINE n == Len(Denominations)
             start == [rest |-> amount, plan |-> NoNotes]
             after == CHOOSE after : After(amount, n, after)
  <1>1. n \in Nat
    BY WithdrawalAssumption
  <1>2. Greedy(amount) = after[n]
    BY DEF Greedy, After
  <1>3. After(amount, n, after)
    <2> HIDE DEF n
    <2> QED  BY <1>1, AfterExists
  <1> DEFINE bad == {i \in 0 .. n : ~ GreedyInv(amount, after[i], i)}
  <1>4. SUFFICES ASSUME bad # {} PROVE FALSE
    <2>1. n \in 0 .. n
      BY <1>1
    <2> QED  BY <1>2, <2>1
  <1>5. bad \subseteq Nat
    BY <1>1
  <1>6. PICK i \in bad : \A l \in bad : i <= l
    <2> HIDE DEF bad
    <2> QED  BY <1>4, <1>5, LeastNat
  <1> HIDE DEF after
  <1>7. i \in 0 .. n /\ ~ GreedyInv(amount, after[i], i)
    OBVIOUS
  <1>8. after[i] = IF i = 0 THEN start ELSE TakeNotes(after[i - 1], Denominations[i])
    <2> HIDE DEF n, bad
    <2> QED  BY <1>3, <1>7 DEF After
  <1>9. CASE i = 0
    <2>1. start.rest = amount /\ start.plan = NoNotes
      OBVIOUS
    <2>2. \A j \in 1 .. n : Denominations[j] \in Notes
      BY WithdrawalAssumption DEF Notes, ToSet
    <2>3. \A m \in Notes : NoNotes[m] = 0 /\ notes[m] \in Nat
      BY DEF NoNotes, Plan
    <2> HIDE DEF start
    <2> QED  BY <1>7, <1>8, <1>9, <2>1, <2>2, <2>3, WorthOfNoNotes DEF GreedyInv
  <1>10. CASE i # 0
    <2>1. i \in 1 .. n /\ i - 1 \in 0 .. n
      BY <1>1, <1>7, <1>10
    <2>2. i - 1 \notin bad
      BY <1>1, <1>6, <1>7
    <2>3. GreedyInv(amount, after[i - 1], i - 1)
      BY <2>1, <2>2
    <2>4. GreedyInv(amount, TakeNotes(after[i - 1], Denominations[i]), i)
      BY <2>1, <2>3, TakeKeepsAccount
    <2> QED  BY <1>7, <1>8, <1>10, <2>4
  <1> QED  BY <1>9, <1>10

Stages == {"new", "dispensing", "paid", "refused", "jammed", "reversed", "threw"}

WithdrawalTypes ==
  /\ notes \in Plan
  /\ debits \in [Withdrawals -> {0, 1}]
  /\ credits \in [Withdrawals -> {0, 1}]
  /\ stage \in [Withdrawals -> Stages]
  /\ executions \in [Withdrawals -> Int]
  /\ paid \in [Withdrawals -> Plan]
  /\ again \subseteq Withdrawals /\ short \subseteq Withdrawals

\* What the bank and the customer have at each stage of a withdrawal, and what one
\* that neither jammed with notes out nor was executed again after them has.
CleanlyAt(t) ==
  /\ IF stage[t] = "paid" THEN Worth(paid[t]) = AmountOf[t] ELSE paid[t] = NoNotes
  /\ stage[t] \notin {"threw", "reversed"} => credits[t] = 0
StageTells(t) ==
  /\ stage[t] \notin {"new", "threw"} => debits[t] = 1
  /\ stage[t] = "reversed" => credits[t] = 1
  /\ stage[t] = "paid" => AmountOf[t] <= Worth(paid[t])
  /\ t \in again \/ t \in short \/ CleanlyAt(t)

PaidOut(n) == SumFunction([t \in Withdrawals |-> paid[t][n]])
NotesConserved == \A n \in Notes : NotesAtFirst[n] = notes[n] + PaidOut(n)

WithdrawalInv ==
  /\ WithdrawalTypes
  /\ \A t \in Withdrawals : StageTells(t)
  /\ NotesConserved

LEMMA WithdrawalInitially ==
  ASSUME WithdrawalInit
  PROVE  WithdrawalInv
PROOF
  <1>1. WithdrawalTypes /\ \A t \in Withdrawals : StageTells(t)
    BY WithdrawalAssumption, WorthOfNoNotes
       DEF WithdrawalInit, WithdrawalTypes, StageTells, CleanlyAt, Plan, Stages
  <1>2. ASSUME NEW n \in Notes PROVE NotesAtFirst[n] = notes[n] + PaidOut(n)
    <2> DEFINE f == [t \in Withdrawals |-> paid[t][n]]
    <2>1. \A t \in Withdrawals : f[t] = 0
      BY DEF WithdrawalInit, NoNotes
    <2>2. SumFunctionOnSet(f, Withdrawals) = 0
      BY <2>1, WithdrawalAssumption, SumOfZeros
    <2>3. PaidOut(n) = 0
      BY <2>2 DEF PaidOut, SumFunction
    <2> QED  BY <2>3, WithdrawalAssumption DEF WithdrawalInit
  <1> QED  BY <1>1, <1>2 DEF WithdrawalInv, NotesConserved

\* A step of one withdrawal leaves the others as they are.
OthersStay(t) ==
  /\ \A u \in Withdrawals \ {t} :
       /\ UNCHANGED <<debits[u], credits[u], stage[u], paid[u]>>
       /\ (u \in again)' <=> u \in again
       /\ (u \in short)' <=> u \in short

LEMMA OneWithdrawal ==
  ASSUME WithdrawalInv, NEW t \in Withdrawals, WithdrawalTypes', StageTells(t)',
         OthersStay(t), NotesConserved'
  PROVE  WithdrawalInv'
PROOF
  <1>1. ASSUME NEW u \in Withdrawals PROVE StageTells(u)'
    <2>1. CASE u = t
      BY <2>1
    <2>2. CASE u # t
      <3>1. StageTells(u)
        BY DEF WithdrawalInv
      <3> QED  BY <2>2, <3>1 DEF OthersStay, StageTells, CleanlyAt
    <2> QED  BY <2>1, <2>2
  <1> QED  BY <1>1 DEF WithdrawalInv

LEMMA DebitKeeps ==
  ASSUME WithdrawalInv, NEW t \in Withdrawals, Debit(t)
  PROVE  WithdrawalInv'
PROOF
  <1>1. PICK s \in {"threw", "dispensing"} : Becomes(t, s) /\ (s = "dispensing" => debits'[t] = 1)
    BY DEF Debit, WithdrawalInv, WithdrawalTypes
  <1>2. /\ WithdrawalTypes /\ NotesConserved /\ StageTells(t)
        /\ stage[t] \in {"new", "threw", "paid", "refused", "reversed"}
        /\ UNCHANGED <<notes, credits, paid, short>>
        /\ executions' = [executions EXCEPT ![t] = @ + 1]
        /\ debits' = [debits EXCEPT ![t] = 1] \/ debits' = debits
        /\ again' = IF paid[t] # NoNotes \/ credits[t] > 0 THEN again \cup {t} ELSE again
    BY DEF WithdrawalInv, Debit, Executes
  <1>3. stage' = [stage EXCEPT ![t] = s] /\ stage'[t] = s
    BY <1>1, <1>2 DEF Becomes, WithdrawalTypes
  <1>4. WithdrawalTypes'
    BY <1>2, <1>3 DEF WithdrawalTypes, Stages
  <1>5. t \in again' \/ t \in short' \/ CleanlyAt(t)'
    <2>1. CASE t \in again \/ t \in short \/ paid[t] # NoNotes \/ credits[t] > 0
      BY <1>2, <2>1
    <2>2. CASE paid[t] = NoNotes /\ ~ (credits[t] > 0)
      <3>1. credits'[t] = 0 /\ paid'[t] = NoNotes
        BY <1>2, <2>2 DEF WithdrawalTypes
      <3> QED  BY <1>3, <3>1 DEF CleanlyAt
    <2> QED  BY <2>1, <2>2
  <1>6. StageTells(t)'
    BY <1>1, <1>3, <1>5 DEF StageTells
  <1>7. OthersStay(t)
    BY <1>2, <1>3 DEF OthersStay, WithdrawalTypes
  <1>8. NotesConserved'
    BY <1>2 DEF NotesConserved, PaidOut
  <1> QED  BY <1>4, <1>6, <1>7, <1>8, OneWithdrawal

LEMMA RefuseKeeps ==
  ASSUME WithdrawalInv, NEW t \in Withdrawals, RefuseAmount(t)
  PROVE  WithdrawalInv'
PROOF
  <1>1. /\ WithdrawalTypes /\ NotesConserved /\ StageTells(t)
        /\ stage[t] = "dispensing" /\ stage' = [stage EXCEPT ![t] = "refused"]
        /\ UNCHANGED <<notes, debits, credits, executions, paid, again, short>>
    BY DEF WithdrawalInv, RefuseAmount, Becomes
  <1>2. WithdrawalTypes' /\ stage'[t] = "refused"
    BY <1>1 DEF WithdrawalTypes, Stages
  <1>3. StageTells(t)'
    BY <1>1, <1>2 DEF StageTells, CleanlyAt
  <1>4. OthersStay(t)
    BY <1>1 DEF OthersStay, WithdrawalTypes
  <1>5. NotesConserved'
    BY <1>1 DEF NotesConserved, PaidOut
  <1> QED  BY <1>2, <1>3, <1>4, <1>5, OneWithdrawal

LEMMA CreditKeeps ==
  ASSUME WithdrawalInv, NEW t \in Withdrawals, CreditBack(t)
  PROVE  WithdrawalInv'
PROOF
  <1>1. PICK s \in {"threw", "reversed"} : Becomes(t, s) /\ (s = "reversed" => credits'[t] = 1)
    BY DEF CreditBack, WithdrawalInv, WithdrawalTypes
  <1>2. /\ WithdrawalTypes /\ NotesConserved /\ StageTells(t) /\ stage[t] = "jammed"
        /\ credits' = [credits EXCEPT ![t] = 1] \/ credits' = credits
        /\ UNCHANGED <<notes, debits, executions, paid, again, short>>
    BY DEF WithdrawalInv, CreditBack
  <1>3. stage' = [stage EXCEPT ![t] = s] /\ stage'[t] = s
    BY <1>1, <1>2 DEF Becomes, WithdrawalTypes
  <1>4. WithdrawalTypes'
    BY <1>2, <1>3 DEF WithdrawalTypes, Stages
  <1>5. StageTells(t)'
    BY <1>1, <1>2, <1>3 DEF StageTells, CleanlyAt
  <1>6. OthersStay(t)
    BY <1>2, <1>3 DEF OthersStay, WithdrawalTypes
  <1>7. NotesConserved'
    BY <1>2 DEF NotesConserved, PaidOut
  <1> QED  BY <1>4, <1>5, <1>6, <1>7, OneWithdrawal

\* Whatever found the plan: it is worth the amount and the machine has it.
LEMMA PlansAreRight ==
  ASSUME notes \in Plan, NEW amount \in Nat, NEW plan \in Plans(amount)
  PROVE  plan \in Plan /\ Worth(plan) = amount /\ \A n \in Notes : plan[n] <= notes[n]
PROOF
  <1>1. CASE Greedy(amount).rest = 0
    <2>1. plan = Greedy(amount).plan
      BY <1>1 DEF Plans
    <2>2. GreedyInv(amount, Greedy(amount), Len(Denominations))
      BY GreedyIsRight
    <2>3. Worth(plan) \in Nat
      BY <2>1, <2>2, WorthIsNat DEF GreedyInv
    <2> QED  BY <1>1, <2>1, <2>2, <2>3 DEF GreedyInv
  <1>2. CASE Greedy(amount).rest # 0
    BY <1>2 DEF Plans, Combinations, Plan
  <1> QED  BY <1>1, <1>2

LEMMA WorthOfBoth ==
  ASSUME NEW a \in Plan, NEW b \in Plan
  PROVE  LET both == [n \in Notes |-> a[n] + b[n]]
         IN both \in Plan /\ Worth(both) = Worth(a) + Worth(b)
PROOF
  <1> DEFINE both == [n \in Notes |-> a[n] + b[n]]
             f == [n \in Notes |-> n * a[n]]
             g == [n \in Notes |-> n * b[n]]
             h == [n \in Notes |-> n * both[n]]
  <1>1. both \in Plan
    BY DEF Plan
  <1>2. \A n \in Notes : f[n] \in Int /\ g[n] \in Int /\ h[n] = f[n] + g[n]
    <2> TAKE n \in Notes
    <2>1. n \in Nat /\ a[n] \in Nat /\ b[n] \in Nat
      BY NotesFinite DEF Plan
    <2>2. n * (a[n] + b[n]) = n * a[n] + n * b[n] /\ n * a[n] \in Nat /\ n * b[n] \in Nat
      BY <2>1, ProductOfSum
    <2> QED  BY <2>2
  <1>3. Worth(a) = SumFunctionOnSet(f, Notes) /\ Worth(b) = SumFunctionOnSet(g, Notes)
        /\ Worth(both) = SumFunctionOnSet(h, Notes)
    BY DEF Worth, SumFunction
  <1> HIDE DEF f, g, h
  <1>4. SumFunctionOnSet(h, Notes) = SumFunctionOnSet(f, Notes) + SumFunctionOnSet(g, Notes)
    BY <1>2, NotesFinite, SumOfSums
  <1> QED  BY <1>1, <1>3, <1>4

\* Notes that leave the machine are the customer's.
LEMMA NotesGoOut ==
  ASSUME WithdrawalTypes, NotesConserved, NEW t \in Withdrawals, NEW these \in Plan,
         \A n \in Notes : these[n] <= notes[n], Out(t, these)
  PROVE  /\ notes' \in Plan /\ paid' \in [Withdrawals -> Plan]
         /\ \A u \in Withdrawals \ {t} : paid'[u] = paid[u]
         /\ paid'[t] = [n \in Notes |-> paid[t][n] + these[n]]
         /\ Worth(paid'[t]) = Worth(paid[t]) + Worth(these)
         /\ NotesConserved'
PROOF
  <1> DEFINE both == [n \in Notes |-> paid[t][n] + these[n]]
  <1>1. notes \in Plan /\ paid \in [Withdrawals -> Plan] /\ paid[t] \in Plan
    BY DEF WithdrawalTypes
  <1>2. paid' = [paid EXCEPT ![t] = both] /\ notes' = [n \in Notes |-> notes[n] - these[n]]
    BY DEF Out
  <1>3. both \in Plan /\ Worth(both) = Worth(paid[t]) + Worth(these)
    BY <1>1, WorthOfBoth
  <1>4. \A n \in Notes : both[n] = paid[t][n] + these[n]
    OBVIOUS
  <1>5. notes' \in Plan
    <2>1. \A n \in Notes : notes[n] - these[n] \in Nat
      BY <1>1 DEF Plan
    <2> QED  BY <1>2, <2>1 DEF Plan
  <1>6. paid'[t] = both
    BY <1>1, <1>2
  <1> HIDE DEF both
  <1>7. paid' \in [Withdrawals -> Plan] /\ \A u \in Withdrawals \ {t} : paid'[u] = paid[u]
    BY <1>1, <1>2, <1>3
  <1>8. ASSUME NEW n \in Notes PROVE NotesAtFirst[n] = notes'[n] + PaidOut(n)'
    <2> DEFINE f == [u \in Withdrawals |-> paid[u][n]]
               g == [u \in Withdrawals |-> paid'[u][n]]
    <2>1. \A u \in Withdrawals : f[u] \in Int /\ g[u] \in Int
      BY <1>1, <1>7 DEF Plan
    <2>2. \A u \in Withdrawals \ {t} : g[u] = f[u]
      BY <1>7
    <2>3. g[t] = f[t] + these[n]
      BY <1>4, <1>6
    <2>4. PaidOut(n) = SumFunctionOnSet(f, Withdrawals) /\ PaidOut(n)' = SumFunctionOnSet(g, Withdrawals)
      BY DEF PaidOut, SumFunction
    <2>5. notes'[n] = notes[n] - these[n] /\ notes[n] \in Nat /\ these[n] \in Nat
      BY <1>1, <1>2 DEF Plan
    <2>6. NotesAtFirst[n] = notes[n] + PaidOut(n)
      BY DEF NotesConserved
    <2> HIDE DEF f, g
    <2>7. IsFiniteSet(Withdrawals)
      BY WithdrawalAssumption
    <2>8. SumFunctionOnSet(g, Withdrawals) = SumFunctionOnSet(f, Withdrawals) + (g[t] - f[t])
      BY <2>1, <2>2, <2>7, SumChangesAt
    <2>9. SumFunctionOnSet(f, Withdrawals) \in Int /\ f[t] \in Int
      BY <2>1, <2>7, SumIsInt
    <2> QED  BY <2>3, <2>4, <2>5, <2>6, <2>8, <2>9
  <1>9. NotesConserved'
    BY <1>8 DEF NotesConserved
  <1> QED  BY <1>3, <1>5, <1>6, <1>7, <1>9 DEF both

LEMMA DispenseKeeps ==
  ASSUME WithdrawalInv, NEW t \in Withdrawals, Dispense(t)
  PROVE  WithdrawalInv'
PROOF
  <1>1. PICK plan \in Plans(AmountOf[t]) : Out(t, plan)
    BY DEF Dispense
  <1>2. /\ WithdrawalTypes /\ NotesConserved /\ StageTells(t)
        /\ stage[t] = "dispensing" /\ stage' = [stage EXCEPT ![t] = "paid"]
        /\ UNCHANGED <<debits, credits, executions, again, short>>
        /\ notes \in Plan /\ AmountOf[t] \in Nat /\ paid[t] \in Plan
    BY WithdrawalAssumption DEF WithdrawalInv, WithdrawalTypes, Dispense, Becomes
  <1>3. plan \in Plan /\ Worth(plan) = AmountOf[t] /\ \A n \in Notes : plan[n] <= notes[n]
    BY <1>2, PlansAreRight
  <1>4. /\ notes' \in Plan /\ paid' \in [Withdrawals -> Plan]
        /\ \A u \in Withdrawals \ {t} : paid'[u] = paid[u]
        /\ Worth(paid'[t]) = Worth(paid[t]) + Worth(plan)
        /\ NotesConserved'
    BY <1>1, <1>2, <1>3, NotesGoOut
  <1>5. Worth(paid[t]) \in Nat /\ (paid[t] = NoNotes => Worth(paid[t]) = 0)
    BY <1>2, WorthIsNat, WorthOfNoNotes
  <1>6. WithdrawalTypes' /\ stage'[t] = "paid"
    BY <1>2, <1>4 DEF WithdrawalTypes, Stages
  <1>7. StageTells(t)'
    <2>1. Worth(paid'[t]) = Worth(paid[t]) + AmountOf[t] /\ AmountOf[t] <= Worth(paid'[t])
      BY <1>2, <1>3, <1>4, <1>5
    <2>2. CleanlyAt(t) => CleanlyAt(t)'
      BY <1>2, <1>5, <1>6, <2>1 DEF CleanlyAt
    <2> QED  BY <1>2, <1>6, <2>1, <2>2 DEF StageTells
  <1>8. OthersStay(t)
    BY <1>2, <1>4 DEF OthersStay, WithdrawalTypes
  <1> QED  BY <1>4, <1>6, <1>7, <1>8, OneWithdrawal

LEMMA JamKeeps ==
  ASSUME WithdrawalInv, NEW t \in Withdrawals, Jam(t)
  PROVE  WithdrawalInv'
PROOF
  <1>1. PICK plan \in Plans(AmountOf[t]) : \E part \in PartsOf(plan) :
          Out(t, part) /\ short' = IF part = NoNotes THEN short ELSE short \cup {t}
    BY DEF Jam
  <1>2. PICK part \in PartsOf(plan) :
          Out(t, part) /\ short' = IF part = NoNotes THEN short ELSE short \cup {t}
    BY <1>1
  <1>3. /\ WithdrawalTypes /\ NotesConserved /\ StageTells(t)
        /\ stage[t] = "dispensing" /\ stage' = [stage EXCEPT ![t] = "jammed"]
        /\ UNCHANGED <<debits, credits, executions, again>>
        /\ notes \in Plan /\ AmountOf[t] \in Nat /\ paid[t] \in Plan
    BY WithdrawalAssumption DEF WithdrawalInv, WithdrawalTypes, Jam, Becomes
  <1>4. plan \in Plan /\ \A n \in Notes : plan[n] <= notes[n]
    BY <1>3, PlansAreRight
  <1>5. part \in Plan /\ \A n \in Notes : part[n] <= notes[n]
    <2>1. part \in Plan /\ \A n \in Notes : part[n] <= plan[n]
      <3>1. \A x \in 0 .. SumFunction(NotesAtFirst) : x \in Nat
        OBVIOUS
      <3> QED  BY <3>1 DEF PartsOf, Plan
    <2> QED  BY <1>3, <1>4, <2>1 DEF Plan
  <1>6. /\ notes' \in Plan /\ paid' \in [Withdrawals -> Plan]
        /\ \A u \in Withdrawals \ {t} : paid'[u] = paid[u]
        /\ paid'[t] = [n \in Notes |-> paid[t][n] + part[n]]
        /\ NotesConserved'
    BY <1>2, <1>3, <1>5, NotesGoOut
  <1>7. WithdrawalTypes' /\ stage'[t] = "jammed"
    BY <1>2, <1>3, <1>6 DEF WithdrawalTypes, Stages
  <1>8. t \in again' \/ t \in short' \/ CleanlyAt(t)'
    <2>1. CASE t \in again \/ t \in short \/ part # NoNotes
      BY <1>2, <1>3, <2>1
    <2>2. CASE CleanlyAt(t) /\ part = NoNotes
      <3>1. paid[t] = NoNotes /\ credits'[t] = 0
        BY <1>3, <2>2 DEF CleanlyAt
      <3>2. paid'[t] = NoNotes
        BY <1>6, <2>2, <3>1 DEF NoNotes
      <3> QED  BY <1>7, <3>1, <3>2 DEF CleanlyAt
    <2> QED  BY <1>3, <2>1, <2>2 DEF StageTells
  <1>9. StageTells(t)'
    BY <1>3, <1>7, <1>8 DEF StageTells
  <1>10. OthersStay(t)
    BY <1>2, <1>3, <1>6 DEF OthersStay, WithdrawalTypes
  <1> QED  BY <1>6, <1>7, <1>9, <1>10, OneWithdrawal

\* A withdrawal whose Execute returned took no more from the account than it paid
\* in notes, and just that unless it jammed with notes out or was executed again
\* after them, whatever answers were lost and for any denominations and stock;
\* and every note is in the machine or was paid.
THEOREM AccountAlwaysMatchesNotes == WithdrawalSpec => []AccountMatchesNotes
PROOF
  <1>1. WithdrawalInit => WithdrawalInv
    BY WithdrawalInitially
  <1>2. WithdrawalInv /\ [WithdrawalNext]_withdrawalVars => WithdrawalInv'
    <2> SUFFICES ASSUME WithdrawalInv, [WithdrawalNext]_withdrawalVars PROVE WithdrawalInv'
      OBVIOUS
    <2>1. CASE WithdrawalNext
      BY <2>1, DebitKeeps, DispenseKeeps, RefuseKeeps, JamKeeps, CreditKeeps DEF WithdrawalNext
    <2>2. CASE UNCHANGED withdrawalVars
      BY <2>2 DEF withdrawalVars, WithdrawalInv, WithdrawalTypes, StageTells, CleanlyAt, NotesConserved, PaidOut
    <2> QED  BY <2>1, <2>2
  <1>3. WithdrawalInv => AccountMatchesNotes
    <2> SUFFICES ASSUME WithdrawalInv PROVE AccountMatchesNotes
      OBVIOUS
    <2>1. ASSUME NEW t \in Withdrawals, Returned(t)
          PROVE  /\ Taken(t) <= Worth(paid[t])
                 /\ t \notin again \cup short => Taken(t) = Worth(paid[t])
      <3>1. /\ StageTells(t) /\ credits[t] \in {0, 1} /\ AmountOf[t] \in Nat /\ Worth(paid[t]) \in Nat
            /\ debits[t] = 1
        <4>1. StageTells(t) /\ credits[t] \in {0, 1} /\ AmountOf[t] \in Nat /\ paid[t] \in Plan
          BY WithdrawalAssumption DEF WithdrawalInv, WithdrawalTypes
        <4>2. debits[t] = 1
          BY <2>1, <4>1 DEF StageTells, Returned
        <4> QED  BY <4>1, <4>2, WorthIsNat
      <3>2. Taken(t) = IF credits[t] = 0 THEN AmountOf[t] ELSE 0
        BY <3>1 DEF Taken
      <3>3. CASE stage[t] = "paid"
        BY <3>1, <3>2, <3>3 DEF StageTells, CleanlyAt
      <3>4. CASE stage[t] = "reversed"
        BY <3>1, <3>2, <3>4, WorthOfNoNotes DEF StageTells, CleanlyAt
      <3> QED  BY <2>1, <3>3, <3>4 DEF Returned
    <2>2. \A n \in Notes : NotesAtFirst[n] = notes[n] + SumFunction([t \in Withdrawals |-> paid[t][n]])
      BY DEF WithdrawalInv, NotesConserved, PaidOut
    <2> QED  BY <2>1, <2>2 DEF AccountMatchesNotes
  <1> QED  BY <1>1, <1>2, <1>3, PTL DEF WithdrawalSpec
=============================================================================
