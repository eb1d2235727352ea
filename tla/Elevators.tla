------------------------------ MODULE Elevators ------------------------------
(* The elevator system (02-elevator-system): hall calls that a controller     *)
(* gives to a car by NearestCarStrategy, and Step, which moves every car.     *)
(* RequestElevator and Step are serialised, as the notes ask (one queue or    *)
(* one lock); every car is in service.                                        *)
EXTENDS Integers, FiniteSets

CONSTANTS Cars, TopFloor,
          Buttons     \* the hall buttons: floors with a direction

ASSUME ElevatorAssumption ==
  /\ Cars # {} /\ TopFloor \in Nat
  /\ Buttons \subseteq [floor : 0..TopFloor, type : {"PickupUp", "PickupDown"}]

VARIABLES
  floor, heading,  \* CurrentFloor and Direction of each car
  stops,           \* _requests of each car
  turns            \* (history) reversals of its car while a request waits

elevatorVars == <<floor, heading, stops, turns>>

Distance(c, r) == LET d == floor[c] - r.floor IN IF d < 0 THEN -d ELSE d
Nearest(cars, r) == {c \in cars : \A d \in cars : Distance(c, r) <= Distance(d, r)}

ElevatorInit ==
  /\ floor = [c \in Cars |-> 0]
  /\ heading = [c \in Cars |-> "Idle"]
  /\ stops = [c \in Cars |-> {}]
  /\ turns = [c \in Cars |-> [r \in Buttons |-> 0]]

CallDirection(r) == IF r.type = "PickupUp" THEN "Up" ELSE "Down"

\* At f or further on, for a car that goes in direction d.
AtOrBeyond(a, f, d) == IF d = "Up" THEN a >= f ELSE a <= f
HasRequestAtOrBeyond(c, f, d) == \E s \in stops[c] : AtOrBeyond(s.floor, f, d)

\* Tier 1: cars that move in the direction of the call, have not passed it, and
\* are committed to a stop at or beyond it.
Committed(r) ==
  LET d == CallDirection(r) IN
  {c \in Cars : /\ heading[c] = d
                /\ AtOrBeyond(r.floor, floor[c], d)
                /\ HasRequestAtOrBeyond(c, r.floor, d)}

\* The nearest car of the first tier that has one; OrderBy is stable, so it is
\* the first of the list among equals: any of them here.
SelectElevator(r) ==
  LET idle == {c \in Cars : heading[c] = "Idle"} IN
  IF Committed(r) # {} THEN Nearest(Committed(r), r)
  ELSE IF idle # {} THEN Nearest(idle, r)
  ELSE Nearest(Cars, r)

\* AddRequest: a call for the floor where the car is counts as served.
AddRequest(c, r) ==
  stops' = IF r.floor = floor[c] THEN stops ELSE [stops EXCEPT ![c] = @ \cup {r}]

RequestElevator(r) ==
  /\ \E c \in SelectElevator(r) : AddRequest(c, r)
  /\ UNCHANGED <<floor, heading, turns>>

\* Direction after the second line of Step: an idle car heads for its lowest
\* request (Min of the sorted set).
Heading(c) ==
  IF heading[c] # "Idle" THEN heading[c]
  ELSE IF \E s \in stops[c] : s.floor <= floor[c] THEN "Down" ELSE "Up"

Here(c) == {s \in stops[c] : s.floor = floor[c]}

\* Mutant: the car looks out for calls in its own direction only.
MoreAheadSameWay(c) ==
  \E s \in stops[c] : IF Heading(c) = "Up" THEN s.floor > floor[c] /\ s.type = "PickupUp"
                                           ELSE s.floor < floor[c] /\ s.type = "PickupDown"

MoreAhead(c) ==
  \E s \in stops[c] : IF Heading(c) = "Up" THEN s.floor > floor[c] ELSE s.floor < floor[c]

\* What one Step does to one car: it becomes idle, opens its doors, turns round
\* or moves a floor.
Turns(c) == stops[c] # {} /\ Here(c) = {} /\ ~MoreAhead(c)

NewHeading(c) ==
  IF stops[c] = {} THEN "Idle"
  ELSE IF ~Turns(c) THEN Heading(c)
  ELSE IF Heading(c) = "Up" THEN "Down" ELSE "Up"

NewFloor(c) ==
  IF stops[c] = {} \/ Here(c) # {} \/ ~MoreAhead(c) THEN floor[c]
  ELSE IF Heading(c) = "Up" THEN floor[c] + 1 ELSE floor[c] - 1

Step ==
  /\ floor' = [c \in Cars |-> NewFloor(c)]
  /\ heading' = [c \in Cars |-> NewHeading(c)]
  /\ stops' = [c \in Cars |-> stops[c] \ Here(c)]
  /\ turns' = [c \in Cars |-> [r \in Buttons |->
                 IF r \notin stops'[c] THEN 0
                 ELSE IF Turns(c) THEN turns[c][r] + 1 ELSE turns[c][r]]]

ElevatorNext == Step \/ \E r \in Buttons : RequestElevator(r)

ElevatorSpec == ElevatorInit /\ [][ElevatorNext]_elevatorVars

-----------------------------------------------------------------------------
\* SCAN: a car turns round at most once before it serves a request it has,
\* whatever calls come in meanwhile, ahead of it or behind: a car with requests
\* opens, turns or moves at every Step, so no call starves.
AtMostOneReversal ==
  \A c \in Cars : \A r \in stops[c] : turns[c][r] <= 1
=============================================================================
