----------------------------- MODULE GraphSearches -----------------------------
(* The graph solutions of 02-standard-problems and 03-advanced-problems, each  *)
(* next to the definition of what it computes.  A graph is a sequence of edges *)
(* over Nodes; the notes build adjacency lists from it in the same order.      *)
EXTENDS Searches

Nodes == 0..3
Ids(edges) == Indices(edges)
Out(edges, u) == SelectSeq(Ids(edges), LAMBDA id : edges[id][1] = u)
Both(edges, u) == SelectSeq(Ids(edges), LAMBDA id : u \in {edges[id][1], edges[id][2]})
Far(edge, u) == IF edge[1] = u THEN edge[2] ELSE edge[1]
Neighbours(edges, u) == {Far(edges[id], u) : id \in ToSet(Both(edges, u))}

\* For the definitions: some cut that no edge of ids crosses parts u from v.
Crosses(edge, side) == (edge[1] \in side) # (edge[2] \in side)
Parted(edges, ids, u, v) ==
  \E side \in SUBSET Nodes : u \in side /\ v \notin side /\ \A id \in ids : ~Crosses(edges[id], side)
Connected(edges, ids) == \A v \in Nodes : ~Parted(edges, ids, 0, v)

\* The directed routes from a node, as sequences of distinct edges.
RECURSIVE Routes(_, _, _)
Routes(edges, left, u) ==
  {<<>>} \cup UNION {{<<id>> \o r : r \in Routes(edges, left \ {id}, edges[id][2])} :
                      id \in {d \in left : edges[d][1] = u}}
Arrives(edges, route, from, to) ==
  IF route = <<>> THEN from = to ELSE edges[Last(route)][2] = to
Cost(price, route) == Sum([i \in DOMAIN route |-> price[route[i]]])
\* -1 where there is none.
Cheapest(costs) == IF costs = {} THEN -1 ELSE Min(costs)

-----------------------------------------------------------------------------
(* Colours, trees and cycles.                                                *)

RECURSIVE Paint(_, _, _)
\* Breadth first; a neighbour of the node's own colour ends it.
Paint(edges, queue, color) ==
  LET node == Head(queue)
      near == Neighbours(edges, node)
      blank == {v \in near : color[v] = -1}
  IN IF queue = <<>> THEN [ok |-> TRUE, color |-> color]
     ELSE IF \E v \in near : color[v] = color[node] THEN [ok |-> FALSE, color |-> color]
     ELSE Paint(edges, Tail(queue) \o SetToSeq(blank),
                [v \in Nodes |-> IF v \in blank THEN 1 - color[node] ELSE color[v]])

IsBipartite(edges) ==
  FoldLeft(LAMBDA acc, start :
      IF ~acc.ok \/ acc.color[start] # -1 THEN acc
      ELSE Paint(edges, <<start>>, [acc.color EXCEPT ![start] = 0]),
    [ok |-> TRUE, color |-> [v \in Nodes |-> -1]], <<0, 1, 2, 3>>).ok

BipartiteRight(edges) ==
  IsBipartite(edges) <=> \E side \in SUBSET Nodes : \A id \in DOMAIN edges : Crosses(edges[id], side)

RECURSIVE Visit(_, _, _)
Visit(edges, stack, seen) ==
  IF stack = <<>> THEN seen
  ELSE LET node == Last(stack)
           now == seen \cup {node}
           pushed == SelectSeq([i \in DOMAIN Both(edges, node) |-> Far(edges[Both(edges, node)[i]], node)],
                               LAMBDA v : v \notin now)
       IN Visit(edges, Front(stack) \o (IF node \in seen THEN <<>> ELSE pushed), now)

ValidTree(edges) ==
  Len(edges) = Cardinality(Nodes) - 1 /\ Visit(edges, <<0>>, {}) = Nodes

ValidTreeRight(edges) ==
  ValidTree(edges) <=>
    Connected(edges, DOMAIN edges) /\ \A id \in DOMAIN edges : ~Connected(edges, DOMAIN edges \ {id})

RECURSIVE PathUp(_, _)
PathUp(parent, x) == IF parent[x] = x THEN <<x>> ELSE <<x>> \o PathUp(parent, parent[x])
\* The root, and the parents after the path to it is compressed.
Root(parent, x) == Last(PathUp(parent, x))
Compressed(parent, x) ==
  [y \in DOMAIN parent |-> IF y \in ToSet(PathUp(parent, x)) THEN Root(parent, x) ELSE parent[y]]

Union(dsu, a, b) ==
  LET parent == Compressed(Compressed(dsu.parent, a), b)
      ra == Root(parent, a)
      rb == Root(parent, b)
      over == IF dsu.rank[ra] < dsu.rank[rb] THEN rb ELSE ra
      under == IF over = ra THEN rb ELSE ra
  IN IF ra = rb THEN [dsu EXCEPT !.parent = parent, !.joined = FALSE]
     ELSE [parent |-> [parent EXCEPT ![under] = over], joined |-> TRUE,
           rank |-> [dsu.rank EXCEPT ![over] = IF @ = dsu.rank[under] THEN @ + 1 ELSE @]]

\* The place of the edge it returns, 0 when every edge joins two sets.
FindRedundantConnection(edges) ==
  FoldLeft(LAMBDA acc, id :
      LET dsu == Union(acc.dsu, edges[id][1], edges[id][2]) IN
      IF acc.found # 0 THEN acc ELSE [dsu |-> dsu, found |-> IF dsu.joined THEN 0 ELSE id],
    [dsu |-> [parent |-> [v \in Nodes |-> v], rank |-> [v \in Nodes |-> 0], joined |-> TRUE], found |-> 0],
    Ids(edges)).found

RedundantRight(edges) ==
  LET closing == {id \in DOMAIN edges : ~Parted(edges, 1..id - 1, edges[id][1], edges[id][2])}
  IN FindRedundantConnection(edges) = IF closing = {} THEN 0 ELSE Min(closing)

-----------------------------------------------------------------------------
(* Bridges.                                                                  *)

CriticalConnectionsBruteForce(edges) ==
  {id \in DOMAIN edges : Visit(RemoveAt(edges, id), <<0>>, {}) # Nodes}

\* Mutant: the test for a point of articulation.
CutsPoint(lowChild, discovered) == lowChild >= discovered
IsBridge(lowChild, discovered) == lowChild > discovered

RECURSIVE Tarjan(_, _, _, _)
Tarjan(edges, node, parentEdge, dfs) ==
  FoldLeft(LAMBDA acc, id :
      LET to == Far(edges[id], node)
          deep == Tarjan(edges, to, id, acc)
      IN IF id = parentEdge THEN acc
         ELSE IF acc.discovery[to] # -1
           THEN [acc EXCEPT !.low[node] = Smaller(@, acc.discovery[to])]
         ELSE [deep EXCEPT !.low[node] = Smaller(@, deep.low[to]),
                           !.bridges = IF IsBridge(deep.low[to], deep.discovery[node])
                                         THEN @ \cup {id} ELSE @],
    [dfs EXCEPT !.discovery[node] = dfs.timer, !.low[node] = dfs.timer, !.timer = @ + 1],
    Both(edges, node))

CriticalConnections(edges) ==
  FoldLeft(LAMBDA acc, node : IF acc.discovery[node] = -1 THEN Tarjan(edges, node, 0, acc) ELSE acc,
    [discovery |-> [v \in Nodes |-> -1], low |-> [v \in Nodes |-> 0], timer |-> 0, bridges |-> {}],
    <<0, 1, 2, 3>>).bridges

\* The problem's graphs are connected.
BridgesRight(edges) ==
  LET parts == {id \in DOMAIN edges : ~Connected(edges, DOMAIN edges \ {id})} IN
  Connected(edges, DOMAIN edges) =>
    /\ CriticalConnectionsBruteForce(edges) = parts
    /\ CriticalConnections(edges) = parts

-----------------------------------------------------------------------------
(* Least delays and prices.                                                  *)

Infinity == 1000

RECURSIVE Delays(_, _, _, _)
\* Of equal priorities the heap gives any; a stale entry is passed over.
Delays(edges, time, heap, distance) ==
  LET next == CHOOSE e \in heap : \A f \in heap : e[2] <= f[2]
      node == next[1]
      relaxed == [v \in Nodes |->
        Min({distance[v]} \cup {next[2] + time[id] : id \in {d \in ToSet(Out(edges, node)) : edges[d][2] = v}})]
  IN IF heap = {} THEN distance
     ELSE IF next[2] > distance[node] THEN Delays(edges, time, heap \ {next}, distance)
     ELSE Delays(edges, time,
                 (heap \ {next}) \cup {<<v, relaxed[v]>> : v \in {w \in Nodes : relaxed[w] < distance[w]}},
                 relaxed)

NetworkDelayTime(edges, time, k) ==
  LET distance == Delays(edges, time, {<<k, 0>>}, [v \in Nodes |-> IF v = k THEN 0 ELSE Infinity])
  IN IF \E v \in Nodes : distance[v] = Infinity THEN -1 ELSE Max({distance[v] : v \in Nodes})

DelayRight(edges, time, k) ==
  LET least == [v \in Nodes |->
        Cheapest({Cost(time, r) : r \in {q \in Routes(edges, DOMAIN edges, k) : Arrives(edges, q, k, v)}})]
  IN NetworkDelayTime(edges, time, k) =
       IF \E v \in Nodes : least[v] = -1 THEN -1 ELSE Max({least[v] : v \in Nodes})

\* Round by round, from a copy of the round before.
FindCheapestPriceBellmanFord(flights, price, src, dst, k) ==
  LET distance[round \in 0..k + 1] ==
        IF round = 0 THEN [v \in Nodes |-> IF v = src THEN 0 ELSE Infinity]
        ELSE FoldLeft(LAMBDA acc, id :
               IF distance[round - 1][flights[id][1]] = Infinity THEN acc
               ELSE [acc EXCEPT ![flights[id][2]] =
                       Smaller(@, distance[round - 1][flights[id][1]] + price[id])],
             distance[round - 1], Ids(flights))
  IN IF distance[k + 1][dst] = Infinity THEN -1 ELSE distance[k + 1][dst]

RECURSIVE Fares(_, _, _, _, _, _)
\* Dijkstra over cities and the number of edges used.
Fares(flights, price, dst, maxEdges, pq, best) ==
  LET state == CHOOSE e \in pq : \A f \in pq : e.cost <= f.cost
      used == state.used
      better == {id \in ToSet(Out(flights, state.city)) :
                   state.cost + price[id] < best[<<flights[id][2], used + 1>>]}
      at(v) == {id \in better : flights[id][2] = v}
      found == {v \in Nodes : at(v) # {}}
      fare == [v \in found |-> state.cost + Min({price[id] : id \in at(v)})]
  IN IF pq = {} THEN -1
     ELSE IF state.cost # best[<<state.city, used>>]
       THEN Fares(flights, price, dst, maxEdges, pq \ {state}, best)
     ELSE IF state.city = dst THEN state.cost
     ELSE IF used = maxEdges THEN Fares(flights, price, dst, maxEdges, pq \ {state}, best)
     ELSE Fares(flights, price, dst, maxEdges,
                (pq \ {state}) \cup {[city |-> v, used |-> used + 1, cost |-> fare[v]] : v \in found},
                [vu \in DOMAIN best |->
                   IF vu[1] \in found /\ vu[2] = used + 1 THEN fare[vu[1]] ELSE best[vu]])

FindCheapestPrice(flights, price, src, dst, k) ==
  Fares(flights, price, dst, k + 1, {[city |-> src, used |-> 0, cost |-> 0]},
        [vu \in Nodes \X (0..k + 1) |-> IF vu = <<src, 0>> THEN 0 ELSE Infinity])

CheapestRight(flights, price, src, dst, k) ==
  LET routes == {r \in Routes(flights, DOMAIN flights, src) :
                   Arrives(flights, r, src, dst) /\ Len(r) <= k + 1}
      least == Cheapest({Cost(price, r) : r \in routes})
  IN /\ FindCheapestPriceBellmanFord(flights, price, src, dst, k) = least
     /\ FindCheapestPrice(flights, price, src, dst, k) = least

-----------------------------------------------------------------------------
(* Itineraries: every ticket once, from airport 0 (JFK), the least in order. *)

RECURSIVE Backtrack(_, _, _), Hierholzer(_, _, _)
\* Tickets sorted.  The marks and the route are shared by all turns: a ticket
\* that led nowhere is taken off the route and marked unused again.
Backtrack(tickets, airport, trip) ==
  LET Turn(now, id) ==
        LET next == Backtrack(tickets, tickets[id][2],
                      [now EXCEPT !.used = @ \cup {id}, !.route = Append(@, tickets[id][2])])
        IN CASE now.done \/ id \in now.used \/ tickets[id][1] # airport -> now
             [] next.done -> next
             [] OTHER -> [next EXCEPT !.route = Front(@), !.used = @ \ {id}]
  IN IF trip.used = DOMAIN tickets THEN [trip EXCEPT !.done = TRUE]
     ELSE FoldLeft(Turn, trip, Ids(tickets))

FindItineraryBacktracking(tickets) ==
  Backtrack(SortSeq(tickets, LAMBDA a, b : a[1] < b[1] \/ (a[1] = b[1] /\ a[2] < b[2])),
            0, [used |-> {}, route |-> <<0>>, done |-> FALSE]).route

\* The least ticket of the airport first, the airport after its last ticket.
Hierholzer(tickets, airport, dfs) ==
  LET out == {id \in dfs.left : tickets[id][1] = airport}
      id == CHOOSE d \in out : \A e \in out : tickets[d][2] <= tickets[e][2]
  IN IF out = {} THEN [dfs EXCEPT !.route = Append(@, airport)]
     ELSE Hierholzer(tickets, airport, Hierholzer(tickets, tickets[id][2], [dfs EXCEPT !.left = @ \ {id}]))

FindItinerary(tickets) == Reverse(Hierholzer(tickets, 0, [left |-> DOMAIN tickets, route |-> <<>>]).route)

Before(a, b) == \E i \in DOMAIN a : a[i] < b[i] /\ \A j \in 1..i - 1 : a[j] = b[j]

\* The problem promises that the tickets form an itinerary.
ItineraryRight(tickets) ==
  LET complete == {r \in Routes(tickets, DOMAIN tickets, 0) : Len(r) = Len(tickets)}
      stops == {<<0>> \o [i \in DOMAIN r |-> tickets[r[i]][2]] : r \in complete}
      least == CHOOSE s \in stops : \A t \in stops : s = t \/ Before(s, t)
  IN complete # {} => FindItineraryBacktracking(tickets) = least /\ FindItinerary(tickets) = least

-----------------------------------------------------------------------------
(* Orders: the alien dictionary's letters, by indegree.                      *)

\* What two neighbouring words say: their first differing letters.
Says(first, second) ==
  LET apart == {j \in DOMAIN first \cap DOMAIN second : first[j] # second[j]}
  IN IF apart = {} THEN {} ELSE {<<first[Min(apart)], second[Min(apart)]>>}
Sayings(words) == UNION {Says(words[i], words[i + 1]) : i \in 1..Len(words) - 1}
Letters(words) == UNION {ToSet(words[i]) : i \in DOMAIN words}

RECURSIVE Kahn(_, _, _)
\* A letter leaves the queue for the order, and frees those that waited for it only.
Kahn(graph, queue, order) ==
  LET placed == ToSet(order) \cup {Head(queue)}
      freed == {b \in {e[2] : e \in {f \in graph : f[1] = Head(queue)}} :
                  \A e \in graph : e[2] = b => e[1] \in placed}
  IN IF queue = <<>> THEN order
     ELSE Kahn(graph, Tail(queue) \o SetToSeq(freed), Append(order, Head(queue)))

AlienOrder(words) ==
  LET graph == Sayings(words)
      free == {c \in Letters(words) : \A e \in graph : e[2] # c}
      order == Kahn(graph, SetToSeq(free), <<>>)
  IN IF \E i \in 1..Len(words) - 1 :
          Len(words[i]) > Len(words[i + 1]) /\ IsPrefix(words[i + 1], words[i])
       THEN <<>>
     ELSE IF Len(order) = Cardinality(Letters(words)) THEN order ELSE <<>>

\* An order in which the words are sorted, and none only when there is none.
SortedBy(words, order) ==
  LET place(c) == CHOOSE i \in DOMAIN order : order[i] = c
      sorted(a, b) ==
        \/ IsPrefix(a, b)
        \/ \E j \in DOMAIN a \cap DOMAIN b :
             place(a[j]) < place(b[j]) /\ \A i \in 1..j - 1 : a[i] = b[i]
  IN \A i \in 1..Len(words) - 1 : sorted(words[i], words[i + 1])

AlienOrderRight(words) ==
  LET orders == {o \in [1..Cardinality(Letters(words)) -> Letters(words)] : IsInjective(o) /\ SortedBy(words, o)}
  IN IF orders = {} THEN AlienOrder(words) = <<>> ELSE AlienOrder(words) \in orders

-----------------------------------------------------------------------------
\* Whatever the graph (parallel edges, cycles, several parts), each solution
\* gives what its problem asks for.
GraphsRight(edges) ==
  LET rising == Ids(edges)
      falling == Reverse(Ids(edges))
  IN /\ BipartiteRight(edges) /\ ValidTreeRight(edges) /\ RedundantRight(edges)
     /\ BridgesRight(edges) /\ ItineraryRight(edges)
     /\ AlienOrderRight([id \in DOMAIN edges |-> IF edges[id][2] = 0 THEN <<edges[id][1]>> ELSE edges[id]])
     /\ \A cost \in {rising, falling} :
          /\ \A k \in {0, 1} : DelayRight(edges, cost, k)
          /\ \A k \in 0..2 : CheapestRight(edges, cost, 0, 3, k)
=============================================================================
