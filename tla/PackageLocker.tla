---------------------------- MODULE PackageLocker ----------------------------
(* The package locker (05-package-locker): carriers deposit, customers pick   *)
(* up, staff sweep, all calling one Locker from their own threads.            *)
EXTENDS Naturals, FiniteSets

CONSTANTS Carriers, Customers, Compartments, Codes,
          Sizes, SizeOf,   \* the size of each compartment
          MaxParcels,      \* bound: parcels deposited in a behaviour
          NoToken

TokenSet == [code : Codes, compartment : Compartments, parcel : Nat]

ASSUME LockerAssumption ==
  /\ SizeOf \in [Compartments -> Sizes]
  /\ MaxParcels \in Nat
  /\ NoToken \notin TokenSet

VARIABLES
  marked,     \* the compartments whose _occupied is set
  inside,     \* the parcels that lie in each compartment
  tokens,     \* _tokens: a token's code, compartment and (history) parcel
  stale,      \* the parcels whose seven days are over
  parcels,    \* how many parcels were carried here
  carrier,    \* what each carrier is doing, with which compartment and parcel
  customer,   \* the token each customer's Pickup has removed
  sweep,      \* the tokens the staff's OpenExpiredCompartments has yet to look at
  astray      \* (history) the parcels the staff took behind another parcel's token
lockerVars == <<marked, inside, tokens, stale, parcels, carrier, customer, sweep, astray>>

NoErrand == [at |-> "idle", compartment |-> NoToken, parcel |-> 0]

LockerInit ==
  /\ marked = {}
  /\ inside = [c \in Compartments |-> {}]
  /\ tokens = {}
  /\ stale = {}
  /\ parcels = 0
  /\ carrier = [k \in Carriers |-> NoErrand]
  /\ customer = [u \in Customers |-> NoToken]
  /\ sweep = {}
  /\ astray = {}

\* FirstOrDefault over the list: a compartment of the size that is free when
\* it is looked at; without one DepositPackage throws and changes nothing.
FindCompartment(k, size) ==
  /\ carrier[k].at = "idle"
  /\ parcels < MaxParcels
  /\ \E c \in Compartments \ marked :
       /\ SizeOf[c] = size
       /\ carrier' = [carrier EXCEPT ![k] =
            [at |-> "found", compartment |-> c, parcel |-> parcels + 1]]
  /\ parcels' = parcels + 1
  /\ UNCHANGED <<marked, inside, tokens, stale, customer, sweep, astray>>

\* MarkOccupied and Open: the carrier puts the parcel into the open door.
MarkOccupied(k) ==
  /\ carrier[k].at = "found"
  /\ marked' = marked \cup {carrier[k].compartment}
  /\ inside' = [inside EXCEPT ![carrier[k].compartment] = @ \cup {carrier[k].parcel}]
  /\ carrier' = [carrier EXCEPT ![k].at = "marked"]
  /\ UNCHANGED <<tokens, stale, parcels, customer, sweep, astray>>

TokenOf(k, code) ==
  [code |-> code, compartment |-> carrier[k].compartment, parcel |-> carrier[k].parcel]

\* The code may be one that is in use: TryAdd fails, DepositPackage throws, and
\* the compartment stays marked.
Mint(k, code) ==
  /\ carrier[k].at = "marked"
  /\ tokens' = IF \E t \in tokens : t.code = code THEN tokens
               ELSE tokens \cup {TokenOf(k, code)}
  /\ carrier' = [carrier EXCEPT ![k] = NoErrand]
  /\ UNCHANGED <<marked, inside, stale, parcels, customer, sweep, astray>>

\* Mutant: TryGetValue in place of TryRemove.
TakeTokenKeeping(u, code) ==
  /\ customer[u] = NoToken
  /\ \E t \in tokens : t.code = code /\ customer' = [customer EXCEPT ![u] = t]
  /\ UNCHANGED <<marked, inside, tokens, stale, parcels, carrier, sweep, astray>>

\* Pickup, first half: TryRemove claims the code; an unknown one is refused.
TakeToken(u, code) ==
  /\ customer[u] = NoToken
  /\ \E t \in tokens :
       /\ t.code = code
       /\ tokens' = tokens \ {t}
       /\ customer' = [customer EXCEPT ![u] = t]
  /\ UNCHANGED <<marked, inside, stale, parcels, carrier, sweep, astray>>

\* Second half: an expired code throws and the compartment stays marked; else
\* the door opens, the customer takes what is inside, and it is marked free.
OpenForCustomer(u) ==
  /\ customer[u] # NoToken
  /\ customer' = [customer EXCEPT ![u] = NoToken]
  /\ IF customer[u].parcel \in stale
       THEN UNCHANGED <<marked, inside>>
       ELSE /\ inside' = [inside EXCEPT ![customer[u].compartment] = {}]
            /\ marked' = marked \ {customer[u].compartment}
  /\ UNCHANGED <<tokens, stale, parcels, carrier, sweep, astray>>

\* The staff sweep: _tokens.Values is a snapshot of the tokens.
BeginSweep ==
  /\ sweep = {} /\ tokens # {}
  /\ sweep' = tokens
  /\ UNCHANGED <<marked, inside, tokens, stale, parcels, carrier, customer, astray>>

\* Whether a token has expired is asked when its turn comes.  If so its door opens
\* and the staff take what is inside: the token may have been used since the
\* snapshot, and its compartment handed out anew.  Neither the tokens nor the
\* mark are touched.
VisitToken(t) ==
  /\ t \in sweep
  /\ sweep' = sweep \ {t}
  /\ IF t.parcel \in stale
       THEN /\ inside' = [inside EXCEPT ![t.compartment] = {}]
            /\ astray' = astray \cup (inside[t.compartment] \ {t.parcel})
       ELSE UNCHANGED <<inside, astray>>
  /\ UNCHANGED <<marked, tokens, stale, parcels, carrier, customer>>

\* The tokens that still decide over a compartment: those in the map and those
\* a Pickup has just removed.
LiveTokens == tokens \cup {customer[u] : u \in {v \in Customers : customer[v] # NoToken}}

\* Seven days pass for the parcel of a token.
CodeExpires(p) ==
  /\ p \notin stale
  /\ \E t \in LiveTokens \cup sweep : t.parcel = p
  /\ stale' = stale \cup {p}
  /\ UNCHANGED <<marked, inside, tokens, parcels, carrier, customer, sweep, astray>>

LockerNext ==
  \/ \E k \in Carriers : \/ \E size \in Sizes : FindCompartment(k, size)
                         \/ MarkOccupied(k)
                         \/ \E code \in Codes : Mint(k, code)
  \/ \E u \in Customers : \/ \E code \in Codes : TakeToken(u, code)
                          \/ OpenForCustomer(u)
  \/ BeginSweep \/ (\E t \in sweep : VisitToken(t))
  \/ \E p \in 1..MaxParcels : CodeExpires(p)

LockerSpec == LockerInit /\ [][LockerNext]_lockerVars

-----------------------------------------------------------------------------
\* No compartment is handed out twice at once.  Nothing in the code sees to that:
\* it is free from FindCompartment until MarkOccupied.
HandedOutApart ==
  \A k, l \in Carriers :
    k # l /\ carrier[k].at # "idle" /\ carrier[l].at # "idle" =>
      carrier[k].compartment # carrier[l].compartment

\* A live code's compartment is marked, no other live code leads there, and what
\* lies inside is its parcel, or nothing once the staff took it: as an expired
\* one, or behind the token of a parcel that had lain there before.
CodesOpenTheirParcels ==
  \A t \in LiveTokens :
    /\ t.compartment \in marked
    /\ \A u \in LiveTokens : u.compartment = t.compartment => u = t
    /\ \A u \in tokens : t \in tokens /\ u.code = t.code => u = t
    /\ \/ inside[t.compartment] = {t.parcel}
       \/ inside[t.compartment] = {} /\ t.parcel \in stale \cup astray

\* As long as no compartment is handed out twice at once, however many carriers
\* deposit at the same time, a code opens the compartment of its own parcel and
\* of no other.  So that race is the only way to a customer's wrong door:
\* deposits, pickups, the steps of a sweep and expiries may otherwise overlap as
\* they like, though a sweep may take a parcel that has not expired.
CodeOpensItsParcel == []HandedOutApart => []CodesOpenTheirParcels

\* A compartment that is handed out is empty: "two carriers depositing at the
\* same instant must never be handed the same compartment".
HandedOutEmpty == \A c \in Compartments : Cardinality(inside[c]) <= 1
=============================================================================
