----------------------------- MODULE ParkingLot ------------------------------
(* The parking lot (01-parking-lot): gates that call Enter and Exit of one    *)
(* ParkingLot from their own threads.  Occupancy is a map of spots that Enter *)
(* claims with an atomic TryAdd and a retry; the tickets are a second map.    *)
EXTENDS Naturals, FiniteSets

CONSTANTS Gates, Spots, VehicleTypes,
          Fits,         \* the spots the allocation strategy may give a type
          MaxTickets,   \* bound: tickets issued in a behaviour
          NoSpot

ASSUME ParkingAssumption ==
  /\ Fits \in [VehicleTypes -> SUBSET Spots]
  /\ MaxTickets \in Nat
  /\ NoSpot \notin Spots

VARIABLES
  occupied,   \* the keys of _occupiedBySpotId
  tickets,    \* _activeTickets: records of a ticket id and its spot
  issued,     \* how many ticket ids were drawn, each a new Guid
  gate        \* what each gate is doing

parkingVars == <<occupied, tickets, issued, gate>>

AtRest == [at |-> "idle", spot |-> NoSpot, among |-> {}, taken |-> {}]

ParkingInit ==
  /\ occupied = {}
  /\ tickets = {}
  /\ issued = 0
  /\ gate = [g \in Gates |-> AtRest]

\* A gate scans for a type of vehicle: among holds the spots that fit, taken
\* those it has seen occupied.
Scanning(among) == [at |-> "scanning", spot |-> NoSpot, among |-> among, taken |-> {}]

Enter(g, type) ==
  /\ gate[g].at = "idle"
  /\ gate' = [gate EXCEPT ![g] = Scanning(Fits[type])]
  /\ UNCHANGED <<occupied, tickets, issued>>

\* The free spots are a lazy query: the strategy looks at one spot after the
\* other, in an order of its own, and takes one that is free when it looks.
LookAt(g, s) ==
  /\ gate[g].at = "scanning"
  /\ s \in gate[g].among \ gate[g].taken
  /\ IF s \in occupied
       THEN gate' = [gate EXCEPT ![g].taken = @ \cup {s}]
       ELSE gate' = [gate EXCEPT ![g].at = "claiming", ![g].spot = s]
  /\ UNCHANGED <<occupied, tickets, issued>>

\* "Lot full for this vehicle type".
Refuse(g) ==
  /\ gate[g].at = "scanning"
  /\ gate[g].taken = gate[g].among
  /\ gate' = [gate EXCEPT ![g] = AtRest]
  /\ UNCHANGED <<occupied, tickets, issued>>

\* Mutant: the indexer in place of TryAdd.
ClaimBlindly(g) ==
  /\ gate[g].at = "claiming"
  /\ occupied' = occupied \cup {gate[g].spot}
  /\ gate' = [gate EXCEPT ![g].at = "ticketing"]
  /\ UNCHANGED <<tickets, issued>>

\* TryAdd of the spot; a gate that lost the race enters again.
Claim(g) ==
  /\ gate[g].at = "claiming"
  /\ IF gate[g].spot \in occupied
       THEN gate' = [gate EXCEPT ![g] = Scanning(gate[g].among)] /\ UNCHANGED occupied
       ELSE /\ occupied' = occupied \cup {gate[g].spot}
            /\ gate' = [gate EXCEPT ![g].at = "ticketing"]
  /\ UNCHANGED <<tickets, issued>>

Issue(g) ==
  /\ gate[g].at = "ticketing"
  /\ issued < MaxTickets
  /\ tickets' = tickets \cup {[id |-> issued, spot |-> gate[g].spot]}
  /\ issued' = issued + 1
  /\ gate' = [gate EXCEPT ![g] = AtRest]
  /\ UNCHANGED occupied

\* Exit with a ticket that is active: one that was used is no longer there,
\* and Exit throws with nothing changed.
Exit(g, t) ==
  /\ gate[g].at = "idle"
  /\ t \in tickets
  /\ tickets' = tickets \ {t}
  /\ gate' = [gate EXCEPT ![g].at = "leaving", ![g].spot = t.spot]
  /\ UNCHANGED <<occupied, issued>>

FreeSpot(g) ==
  /\ gate[g].at = "leaving"
  /\ occupied' = occupied \ {gate[g].spot}
  /\ gate' = [gate EXCEPT ![g] = AtRest]
  /\ UNCHANGED <<tickets, issued>>

ParkingNext ==
  \E g \in Gates :
    \/ \E type \in VehicleTypes : Enter(g, type)
    \/ \E s \in Spots : LookAt(g, s)
    \/ Refuse(g) \/ Claim(g) \/ Issue(g) \/ FreeSpot(g)
    \/ \E t \in tickets : Exit(g, t)

ParkingSpec == ParkingInit /\ [][ParkingNext]_parkingVars

-----------------------------------------------------------------------------
GateStates == [at : {"idle", "scanning", "claiming", "ticketing", "leaving"},
               spot : Spots \cup {NoSpot},
               among : SUBSET Spots, taken : SUBSET Spots]

\* Types; a gate past the scan has a spot, and a ticket id is drawn once.
ParkingTypeOK ==
  /\ occupied \in SUBSET Spots
  /\ tickets \in SUBSET [id : Nat, spot : Spots]
  /\ issued \in Nat
  /\ gate \in [Gates -> GateStates]
  /\ \A g \in Gates : gate[g].at \in {"claiming", "ticketing", "leaving"} => gate[g].spot \in Spots
  /\ \A t \in tickets : t.id < issued

\* A gate between its two writes to the maps: the spot is marked, the ticket
\* is not there yet or no longer there.
Between(g) == gate[g].at \in {"ticketing", "leaving"}

\* No spot is double-booked, and none leaks: every occupied spot has one owner,
\* a live ticket or a gate between its two writes, and every owner's spot is
\* occupied (Enter's claim and retry against Enter and Exit at other gates).
OneOwnerPerSpot ==
  /\ occupied = {t.spot : t \in tickets} \cup {gate[g].spot : g \in {h \in Gates : Between(h)}}
  /\ \A t, u \in tickets : t.spot = u.spot => t = u
  /\ \A g, h \in Gates : Between(g) /\ Between(h) /\ gate[g].spot = gate[h].spot => g = h
  /\ \A t \in tickets, g \in Gates : Between(g) => t.spot # gate[g].spot
=============================================================================
