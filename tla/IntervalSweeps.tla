---------------------------- MODULE IntervalSweeps ----------------------------
(* Solutions that sort intervals, or the events at their ends, and sweep over *)
(* them (02-standard-problems, 03-advanced-problems), each next to the plain  *)
(* definition of what it computes.  An interval is a pair <<start, end>> with *)
(* start < end.                                                               *)
EXTENDS ArrayScans

\* Sorting by the k-th component and, where it is the same, by the l-th.  Equal
\* ones keep their order, one of those that Array.Sort may leave them in.
NotAfter(a, b, k, l) == a[k] < b[k] \/ (a[k] = b[k] /\ a[l] <= b[l])

Placed(s, x, k, l) ==
  LET at == Max({0} \cup {i \in DOMAIN s : NotAfter(s[i], x, k, l)}) + 1
  IN [i \in 1..Len(s) + 1 |-> IF i < at THEN s[i] ELSE IF i = at THEN x ELSE s[i - 1]]

Ordered(s, k, l) ==
  LET sorted[i \in 0..Len(s)] == IF i = 0 THEN <<>> ELSE Placed(sorted[i - 1], s[i], k, l)
  IN sorted[Len(s)]

ByStart(spans) == Ordered(spans, 1, 1)
ByEnd(spans) == Ordered(spans, 2, 2)
Overlap(a, b) == a[1] < b[2] /\ b[1] < a[2]
Times(spans) == 0..Max({0} \cup {spans[i][2] : i \in DOMAIN spans})
At(spans, t) == {i \in DOMAIN spans : spans[i][1] <= t /\ t < spans[i][2]}

-----------------------------------------------------------------------------
\* Only neighbours in the order of their starts are compared.
CanAttendMeetings(spans) ==
  LET sorted == ByStart(spans)
  IN \A i \in 2..Len(sorted) : sorted[i][1] >= sorted[i - 1][2]

CanAttendRight(spans) ==
  CanAttendMeetings(spans) <=>
    \A i, j \in DOMAIN spans : i # j => ~Overlap(spans[i], spans[j])

\* A heap by descending end; the current interval, the first of those merged so
\* far, grows to the left.
Joined(merged, next) ==
  IF next[2] >= merged[1][1]
    THEN [merged EXCEPT ![1] = <<Smaller(@[1], next[1]), @[2]>>]
    ELSE <<next>> \o merged

Merge(spans) ==
  LET n == Len(spans)
      heap == ByEnd(spans)
      merged[i \in 1..n] == IF i = n THEN <<heap[n]>> ELSE Joined(merged[i + 1], heap[i])
  IN IF spans = <<>> THEN <<>> ELSE merged[1]

\* The points of closed intervals, halves included.
Points(spans) == UNION {2 * spans[i][1]..2 * spans[i][2] : i \in DOMAIN spans}

MergeRight(spans) ==
  /\ Points(Merge(spans)) = Points(spans)
  /\ \A i \in 1..Len(Merge(spans)) - 1 : Merge(spans)[i][2] < Merge(spans)[i + 1][1]

\* Into intervals that are sorted and apart: those before it, those it touches,
\* which it takes in, and those behind.
Insert(spans, new) ==
  LET i == Min({n \in 1..Len(spans) + 1 : n > Len(spans) \/ spans[n][2] >= new[1]})
      grown[n \in i - 1..Len(spans)] ==
        IF n < i THEN new
        ELSE <<Smaller(grown[n - 1][1], spans[n][1]), Larger(grown[n - 1][2], spans[n][2])>>
      j == Min({n \in i - 1..Len(spans) : n = Len(spans) \/ spans[n + 1][1] > grown[n][2]})
  IN SubSeq(spans, 1, i - 1) \o <<grown[j]>> \o SubSeq(spans, j + 1, Len(spans))

InsertRight(spans) ==
  spans # <<>> => Insert(Merge(Tail(spans)), Head(spans)) = Merge(spans)

\* Mutant: the interval that starts first is kept.
KeptFirst(spans) == ByStart(spans)
\* Greedy: of the intervals that are left, the one that ends first is kept.
Order(spans) == ByEnd(spans)

Granted(acc, span) ==
  IF span[1] >= acc.currentEnd THEN [count |-> acc.count + 1, currentEnd |-> span[2]] ELSE acc

MaxNonOverlapping(spans) ==
  LET sorted == Order(spans)
      kept[i \in 0..Len(spans)] ==
        IF i = 0 THEN [count |-> 0, currentEnd |-> -1] ELSE Granted(kept[i - 1], sorted[i])
  IN kept[Len(spans)].count

Erased(acc, span) ==
  IF span[1] < acc.currentEnd THEN [acc EXCEPT !.removed = @ + 1]
  ELSE [acc EXCEPT !.currentEnd = span[2]]

EraseOverlapIntervals(spans) ==
  LET sorted == Order(spans)
      erased[i \in 1..Len(spans)] ==
        IF i = 1 THEN [removed |-> 0, currentEnd |-> sorted[1][2]] ELSE Erased(erased[i - 1], sorted[i])
  IN IF spans = <<>> THEN 0 ELSE erased[Len(spans)].removed

NonOverlappingRight(spans) ==
  LET apart == {kept \in SUBSET DOMAIN spans :
                  \A i, j \in kept : i # j => ~Overlap(spans[i], spans[j])}
      most == Max({Cardinality(kept) : kept \in apart})
  IN MaxNonOverlapping(spans) = most /\ EraseOverlapIntervals(spans) = Len(spans) - most

\* Events of a time and a change, at one time the ends first (they are negative).
Sweep(events) ==
  LET sorted == Ordered(events, 1, 2)
      now[i \in 0..Len(events)] == IF i = 0 THEN 0 ELSE now[i - 1] + sorted[i][2]
      best[i \in 0..Len(events)] == IF i = 0 THEN 0 ELSE Larger(best[i - 1], now[i])
  IN best[Len(events)]

Ends(spans, load) ==
  [i \in DOMAIN spans |-> <<spans[i][1], load[i]>>] \o [i \in DOMAIN spans |-> <<spans[i][2], -load[i]>>]

MinMeetingRooms(spans) == Sweep(Ends(spans, [i \in DOMAIN spans |-> 1]))

MeetingRoomsRight(spans) ==
  MinMeetingRooms(spans) = Max({Cardinality(At(spans, t)) : t \in Times(spans)})

Shot(acc, balloon) ==
  IF balloon[1] > acc.shotAt THEN [arrows |-> acc.arrows + 1, shotAt |-> balloon[2]] ELSE acc

FindMinArrowShots(points) ==
  LET sorted == ByEnd(points)
      shot[i \in 0..Len(points)] ==
        IF i = 0 THEN [arrows |-> 0, shotAt |-> -1] ELSE Shot(shot[i - 1], sorted[i])
  IN shot[Len(points)].arrows

ArrowsRight(points) ==
  LET enough == {shots \in SUBSET Times(points) :
                   \A i \in DOMAIN points : \E x \in shots : points[i][1] <= x /\ x <= points[i][2]}
  IN FindMinArrowShots(points) = Min({Cardinality(shots) : shots \in enough})

-----------------------------------------------------------------------------
(* Car pooling: trip i carries passengers[i].                                *)

Load(spans, passengers, t) == SumFunctionOnSet(passengers, At(spans, t))

\* Approach 1 counts trip by trip, so a stop may hold less than its final load.
CarPoolingBruteForce(spans, passengers, capacity) ==
  \A n \in DOMAIN spans : \A t \in spans[n][1]..spans[n][2] - 1 :
    Load(SubSeq(spans, 1, n), passengers, t) <= capacity

CarPoolingDifferenceArray(spans, passengers, capacity) ==
  LET changes == Ends(spans, passengers)
      diff == [t \in Times(spans) |->
                 SumFunctionOnSet([e \in DOMAIN changes |-> changes[e][2]],
                                  {e \in DOMAIN changes : changes[e][1] = t})]
      current[t \in Times(spans)] == diff[t] + (IF t = 0 THEN 0 ELSE current[t - 1])
  IN \A t \in Times(spans) : current[t] <= capacity

CarPooling(spans, passengers, capacity) == Sweep(Ends(spans, passengers)) <= capacity

CarPoolingRight(spans, passengers, capacity) ==
  LET fits == \A t \in Times(spans) : Load(spans, passengers, t) <= capacity IN
  /\ CarPoolingBruteForce(spans, passengers, capacity) = fits
  /\ CarPoolingDifferenceArray(spans, passengers, capacity) = fits
  /\ CarPooling(spans, passengers, capacity) = fits

-----------------------------------------------------------------------------
(* Meeting Rooms III: a heap of free rooms and one of busy rooms by end.     *)

Earlier(a, b) == a[1] < b[1] \/ (a[1] = b[1] /\ a[2] <= b[2])

Held(acc, meeting) ==
  LET freed == {b \in acc.busy : b[1] <= meeting[1]}
      busy == acc.busy \ freed
      available == acc.available \cup {b[2] : b \in freed}
      next == CHOOSE b \in busy : \A c \in busy : Earlier(b, c)
      room == IF available # {} THEN Min(available) ELSE next[2]
      finish == IF available # {} THEN meeting[2] ELSE next[1] + (meeting[2] - meeting[1])
  IN [available |-> available \ {room},
      busy |-> {b \in busy : b[2] # room} \cup {<<finish, room>>},
      count |-> [acc.count EXCEPT ![room] = @ + 1]]

Busiest(rooms, count) == Min({r \in rooms : \A s \in rooms : count[s] <= count[r]})

MostBooked(rooms, meetings) ==
  LET sorted == ByStart(meetings)
      held[i \in 0..Len(meetings)] ==
        IF i = 0 THEN [available |-> rooms, busy |-> {}, count |-> [r \in rooms |-> 0]]
        ELSE Held(held[i - 1], sorted[i])
  IN Busiest(rooms, held[Len(meetings)].count)

\* The rule of the problem, room by room: when each is free again, without heaps.
Seated(rooms, acc, meeting) ==
  LET wait == [r \in rooms |-> Larger(0, acc.free[r] - meeting[1])]
      least == Min({wait[r] : r \in rooms})
      room == Min({r \in rooms : wait[r] = least})
  IN [free |-> [acc.free EXCEPT ![room] = meeting[2] + least],
      count |-> [acc.count EXCEPT ![room] = @ + 1]]

MostBookedRight(rooms, meetings) ==
  LET sorted == ByStart(meetings)
      seated[i \in 0..Len(meetings)] ==
        IF i = 0 THEN [free |-> [r \in rooms |-> 0], count |-> [r \in rooms |-> 0]]
        ELSE Seated(rooms, seated[i - 1], sorted[i])
  IN MostBooked(rooms, meetings) = Busiest(rooms, seated[Len(meetings)].count)

-----------------------------------------------------------------------------
\* Every sweep and every greedy choice over intervals gives what its problem
\* asks for, whatever touches, nests, repeats or ends where another starts.
IntervalsRight(spans) ==
  /\ CanAttendRight(spans) /\ MergeRight(spans) /\ InsertRight(spans)
  /\ NonOverlappingRight(spans) /\ MeetingRoomsRight(spans) /\ ArrowsRight(spans)
  /\ \A capacity \in 0..4 : CarPoolingRight(spans, [i \in DOMAIN spans |-> i], capacity)
  /\ \A n \in 1..3 : MostBookedRight(0..n - 1, spans)
=============================================================================
