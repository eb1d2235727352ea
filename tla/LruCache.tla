------------------------------ MODULE LruCache -------------------------------
(* The LRU cache (01-lru-and-lfu-cache): a map and a doubly linked list with  *)
(* sentinels.  Callers hold one lock around TryGet and Put, as the notes ask; *)
(* a node is named by its key, and an entry's value plays no part.            *)
EXTENDS Naturals, FiniteSets, SequencesExt

CONSTANTS CacheKeys, Capacity, HeadNode, TailNode, Null

\* With capacity 0 the first Put would unlink the front sentinel, whose Prev is
\* null: a NullReferenceException.
ASSUME CacheAssumption ==
  /\ Capacity \in Nat \ {0}
  /\ {HeadNode, TailNode, Null} \cap CacheKeys = {} /\ HeadNode # TailNode

VARIABLES
  cached,   \* the keys of _map
  links,    \* Prev and Next of the nodes
  recent    \* (history) the keys by their last use, the latest first

cacheVars == <<cached, links, recent>>
Nodes == CacheKeys \cup {HeadNode, TailNode}

CacheInit ==
  /\ cached = {}
  /\ links = [prev |-> [n \in Nodes |-> IF n = TailNode THEN HeadNode ELSE Null],
              next |-> [n \in Nodes |-> IF n = HeadNode THEN TailNode ELSE Null]]
  /\ recent = <<>>

Unlink(l, n) ==
  [next |-> [l.next EXCEPT ![l.prev[n]] = l.next[n]],
   prev |-> [l.prev EXCEPT ![l.next[n]] = l.prev[n]]]

\* Mutant: the old first node keeps its Prev.
AddFirstHalf(l, n) ==
  [next |-> [l.next EXCEPT ![n] = l.next[HeadNode], ![HeadNode] = n],
   prev |-> [l.prev EXCEPT ![n] = HeadNode]]

AddFirst(l, n) ==
  [next |-> [l.next EXCEPT ![n] = l.next[HeadNode], ![HeadNode] = n],
   prev |-> [l.prev EXCEPT ![n] = HeadNode, ![l.next[HeadNode]] = n]]

MoveToFront(l, n) == AddFirst(Unlink(l, n), n)

Used(k) == recent' = <<k>> \o RemoveFirst(recent, k)

\* A hit moves the node to the front; a miss changes nothing.
TryGet(k) ==
  /\ k \in cached
  /\ links' = MoveToFront(links, k)
  /\ Used(k)
  /\ UNCHANGED cached

Put(k) ==
  /\ IF k \in cached
       THEN links' = MoveToFront(links, k) /\ UNCHANGED cached
       ELSE LET full == Cardinality(cached) >= Capacity
                lru == links.prev[TailNode]
            IN /\ cached' = (IF full THEN cached \ {lru} ELSE cached) \cup {k}
               /\ links' = AddFirst(IF full THEN Unlink(links, lru) ELSE links, k)
  /\ Used(k)

CacheNext == \E k \in CacheKeys : TryGet(k) \/ Put(k)

CacheSpec == CacheInit /\ [][CacheNext]_cacheVars

-----------------------------------------------------------------------------
FirstOf(s, n) == SubSeq(s, 1, IF Len(s) < n THEN Len(s) ELSE n)

\* The cache keeps the Capacity keys that were used last, and its list, walked
\* from either sentinel, is their order of use: pointer surgery on nodes that
\* are at the front, at the back, alone or left over from an eviction agrees
\* with the plain definition of "least recently used".
ListIsRecency ==
  LET kept == FirstOf(recent, Capacity)
      path == <<HeadNode>> \o kept \o <<TailNode>>
  IN /\ cached = {kept[i] : i \in DOMAIN kept}
     /\ \A i \in 1..Len(kept) + 1 :
          links.next[path[i]] = path[i + 1] /\ links.prev[path[i + 1]] = path[i]
=============================================================================
