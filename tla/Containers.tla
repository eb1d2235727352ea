------------------------------ MODULE Containers -------------------------------
(* The stacks, queues, caches, hash tables and codes of 02-standard-problems,  *)
(* each next to what it promises.  Characters are numbers: -1 is '#' or no     *)
(* letter, 0 to 9 are digits.                                                  *)
EXTENDS GraphSearches, Bitwise

-----------------------------------------------------------------------------
(* Containers made of others.  Of two stacks and a queue the last is the top, *)
(* or the first the front.                                                    *)

MoveIfNeeded(q) ==
  IF q.output # <<>> THEN q ELSE [input |-> <<>>, output |-> Reverse(q.input)]
QueuePop(q) == [MoveIfNeeded(q) EXCEPT !.output = Front(@)]
QueueEmpty(q) == q.input = <<>> /\ q.output = <<>>

StackPush(queue, x) ==
  FoldLeft(LAMBDA q, i : Append(Tail(q), Head(q)), Append(queue, x), Indices(queue))

MinPush(stack, val) ==
  [values |-> Append(stack.values, val),
   minimums |-> Append(stack.minimums,
     IF stack.minimums = <<>> THEN val ELSE Smaller(val, Last(stack.minimums)))]
MinPop(stack) == [values |-> Front(stack.values), minimums |-> Front(stack.minimums)]

\* A positive number is pushed; another pops, or finds nothing to pop.
Operate(num, c) ==
  IF num > 0
    THEN [fifo |-> Append(c.fifo, num), lifo |-> <<num>> \o c.lifo,
          queue |-> [c.queue EXCEPT !.input = Append(@, num)],
          stack |-> StackPush(c.stack, num), min |-> MinPush(c.min, num)]
  ELSE IF c.lifo = <<>> THEN c
  ELSE [fifo |-> Tail(c.fifo), lifo |-> Tail(c.lifo), queue |-> QueuePop(c.queue),
        stack |-> Tail(c.stack), min |-> MinPop(c.min)]

QueuesAndStacksRight(nums) ==
  LET c == FoldLeft(LAMBDA acc, num : Operate(num, acc),
             [fifo |-> <<>>, lifo |-> <<>>, queue |-> [input |-> <<>>, output |-> <<>>],
              stack |-> <<>>, min |-> [values |-> <<>>, minimums |-> <<>>]], nums)
  IN /\ Reverse(c.queue.output) \o c.queue.input = c.fifo
     /\ QueueEmpty(c.queue) = (c.fifo = <<>>)
     /\ c.stack = c.lifo /\ Reverse(c.min.values) = c.lifo
     /\ c.lifo # <<>> => /\ Last(MoveIfNeeded(c.queue).output) = Head(c.fifo)
                         /\ Last(c.min.minimums) = Min(ToSet(c.lifo))

-----------------------------------------------------------------------------
(* LRUCache: the map of values, and the list between two sentinels.          *)

CacheHead == -1
CacheTail == 9
NewCache(capacity) ==
  [capacity |-> capacity, map |-> <<>>,
   next |-> [n \in -1..9 |-> CacheTail], prev |-> [n \in -1..9 |-> CacheHead]]

RemoveNode(c, node) ==
  [c EXCEPT !.next[c.prev[node]] = c.next[node], !.prev[c.next[node]] = c.prev[node]]
AddAfterHead(c, node) ==
  [c EXCEPT !.next = [@ EXCEPT ![node] = c.next[CacheHead], ![CacheHead] = node],
            !.prev = [@ EXCEPT ![node] = CacheHead, ![c.next[CacheHead]] = node]]
ToFront(c, node) == AddAfterHead(RemoveNode(c, node), node)

Get(c, key) == IF key \in DOMAIN c.map THEN ToFront(c, key) ELSE c

\* The fresh node is in the map and in the list before the last one leaves.
PutValue(c, key, value) ==
  LET stored == [c EXCEPT !.map = [k \in DOMAIN c.map \cup {key} |->
                                     IF k = key THEN value ELSE c.map[k]]]
      added == AddAfterHead(stored, key)
      lru == added.prev[CacheTail]
  IN IF key \in DOMAIN c.map THEN ToFront(stored, key)
     ELSE IF Cardinality(DOMAIN added.map) <= c.capacity THEN added
     ELSE [RemoveNode(added, lru) EXCEPT !.map = [k \in DOMAIN added.map \ {lru} |-> added.map[k]]]

\* A negative number is Get(1), another Put of itself; the value is the place.
\* used holds the keys by their last use, the latest first.
LastTwo(used) == ToSet(SubSeq(used, 1, Smaller(2, Len(used))))

LruRight(nums) ==
  LET end == FoldLeft(LAMBDA acc, i :
          LET key == Abs(nums[i])
              hit == nums[i] < 0 => key \in LastTwo(acc.used)
          IN [cache |-> IF nums[i] < 0 THEN Get(acc.cache, key) ELSE PutValue(acc.cache, key, i),
              used |-> IF hit THEN <<key>> \o Remove(acc.used, key) ELSE acc.used],
        [cache |-> NewCache(2), used |-> <<>>], Indices(nums))
      kept == LastTwo(end.used)
  IN /\ DOMAIN end.cache.map = kept
     /\ \A k \in kept : end.cache.map[k] = Max({i \in DOMAIN nums : nums[i] = k})

-----------------------------------------------------------------------------
(* Hash tables and strings.                                                  *)

TwoSum(nums, target) ==
  FoldLeft(LAMBDA acc, i :
      LET earlier == {j \in 1..i - 1 : nums[j] = target - nums[i]}
      IN IF acc = <<>> /\ earlier # {} THEN <<Max(earlier), i>> ELSE acc,
    <<>>, Indices(nums))

ContainsDuplicate(nums) ==
  FoldLeft(LAMBDA acc, num :
      [again |-> acc.again \/ num \in acc.seen, seen |-> acc.seen \cup {num}],
    [again |-> FALSE, seen |-> {}], nums).again

\* A count that reaches 0 leaves the dictionary; a letter that is not there ends it.
IsAnagram(s, t) ==
  LET end == FoldLeft(LAMBDA acc, ch :
                IF ~acc.ok \/ acc.count[ch] = 0 THEN [acc EXCEPT !.ok = FALSE]
                ELSE [acc EXCEPT !.count[ch] = @ - 1],
              [ok |-> TRUE, count |-> [ch \in ToSet(s \o t) |-> Occurrences(s, ch)]], t)
  IN Len(s) = Len(t) /\ end.ok /\ \A ch \in DOMAIN end.count : end.count[ch] = 0

\* Each group under its sorted letters, in the order the keys came in.
GroupAnagrams(strs) ==
  LET keys == FoldLeft(LAMBDA acc, w :
                IF Ascending(w) \in ToSet(acc) THEN acc ELSE Append(acc, Ascending(w)), <<>>, strs)
  IN [g \in DOMAIN keys |-> SelectSeq(strs, LAMBDA w : Ascending(w) = keys[g])]

CommonPrefix(strs) ==
  LET first == Head(strs)
      ends == {i \in DOMAIN first : \E j \in DOMAIN strs :
                 i = Len(strs[j]) + 1 \/ (i <= Len(strs[j]) /\ strs[j][i] # first[i])}
  IN IF strs = <<>> THEN <<>> ELSE IF ends = {} THEN first ELSE SubSeq(first, 1, Min(ends) - 1)

LetterOrDigit(ch) == ch # -1
ToLower(ch) == IF ch = 2 THEN 1 ELSE ch

RECURSIVE IsPalindromeText(_, _, _)
\* Two pointers, each past what is neither letter nor digit.
IsPalindromeText(s, left, right) ==
  LET l == Min({right} \cup {i \in left..right : LetterOrDigit(s[i])})
      r == Max({l} \cup {i \in l..right : LetterOrDigit(s[i])})
  IN IF left >= right THEN TRUE
     ELSE ToLower(s[l]) = ToLower(s[r]) /\ IsPalindromeText(s, l + 1, r - 1)

\* The length in decimal, '#', and the word.
Encode(strs) ==
  FlattenSeq([i \in DOMAIN strs |->
    LET n == Len(strs[i])
    IN (IF n > 9 THEN <<n \div 10, n % 10>> ELSE <<n>>) \o <<-1>> \o strs[i]])

RECURSIVE Decode(_)
Decode(s) ==
  IF s = <<>> THEN <<>>
  ELSE LET hash == Min({i \in DOMAIN s : s[i] = -1})
           length == FoldLeft(LAMBDA acc, digit : 10 * acc + digit, 0, SubSeq(s, 1, hash - 1))
       IN <<SubSeq(s, hash + 1, hash + length)>> \o Decode(SubSeq(s, hash + length + 1, Len(s)))

StringsRight(nums) ==
  LET Half(n) == <<SubSeq(nums, 1, n), SubSeq(nums, n + 1, Len(nums))>>
      letters == SelectSeq(nums, LetterOrDigit)
  IN /\ IsPalindromeText(nums, 1, Len(nums)) <=>
          LET lower == [i \in DOMAIN letters |-> ToLower(letters[i])] IN lower = Reverse(lower)
     /\ \A n \in 0..Len(nums) :
          LET s == Half(n)[1]
              t == Half(n)[2]
              words == <<s, t, Reverse(s), nums \o nums \o nums, <<>>, s>>
              groups == GroupAnagrams(words)
              prefix == CommonPrefix(<<s, nums, t>>)
          IN /\ Decode(Encode(words)) = words
             /\ IsAnagram(s, t) <=> SameElements(s, t)
             /\ SameElements(FlattenSeq(groups), words)
             /\ \A g, h \in DOMAIN groups : \A v \in ToSet(groups[g]), w \in ToSet(groups[h]) :
                  g = h <=> SameElements(v, w)
             /\ \A m \in 0..Len(s) :
                  IsPrefix(SubSeq(s, 1, m), t) <=> IsPrefix(SubSeq(s, 1, m), prefix)

TwoSumHashRight(nums, target) ==
  LET pairs == {ij \in (DOMAIN nums) \X (DOMAIN nums) :
                  ij[1] < ij[2] /\ nums[ij[1]] + nums[ij[2]] = target}
  IN IF pairs = {} THEN TwoSum(nums, target) = <<>> ELSE TwoSum(nums, target) \in pairs

-----------------------------------------------------------------------------
(* Words, clones and bits.                                                   *)

Pattern(word, i) == [word EXCEPT ![i] = -1]
Patterns(word) == {Pattern(word, i) : i \in DOMAIN word}

RECURSIVE Ladder(_, _, _, _, _)
\* Breadth first; a pattern is followed once and then removed.
Ladder(words, endWord, queue, seen, removed) ==
  LET word == Head(queue)[1]
      steps == Head(queue)[2]
      near == {w \in words \ seen : (Patterns(w) \cap Patterns(word)) \ removed # {}}
      found == SetToSeq(near)
  IN IF queue = <<>> THEN 0
     ELSE IF word = endWord THEN steps
     ELSE Ladder(words, endWord, Tail(queue) \o [i \in DOMAIN found |-> <<found[i], steps + 1>>],
                 seen \cup near, removed \cup Patterns(word))

LadderLength(beginWord, endWord, wordList) ==
  IF endWord \notin wordList THEN 0
  ELSE Ladder(wordList \cup {beginWord}, endWord, <<<<beginWord, 1>>>>, {beginWord}, {})

\* The words within n changes of one letter.
RECURSIVE Within(_, _, _)
Within(words, from, n) ==
  IF n = 0 THEN from
  ELSE Within(words, from \cup {w \in words : \E v \in from : Patterns(v) \cap Patterns(w) # {}}, n - 1)

LadderRight(nums) ==
  LET word == [i \in 1..Len(nums) - 1 |-> <<nums[i], nums[i + 1]>>]
      words == ToSet(Tail(word))
      length == LadderLength(word[1], Last(word), words)
      Reach(n) == Last(word) \in Within(words, {word[1]}, n)
  IN Len(nums) > 2 =>
       IF length = 0 THEN ~Reach(Len(nums))
       ELSE Reach(length - 1) /\ (length > 1 => ~Reach(length - 2))

RECURSIVE CloneGraph(_, _, _)
\* acc: the copy of each node met so far, and the copies each copy lists.
CloneGraph(edges, node, acc) ==
  IF node \in DOMAIN acc.copies THEN acc
  ELSE LET clone == Cardinality(DOMAIN acc.copies) + 10
           met == [copies |-> [n \in DOMAIN acc.copies \cup {node} |->
                                 IF n = node THEN clone ELSE acc.copies[n]],
                   lists |-> [c \in DOMAIN acc.lists \cup {clone} |->
                                IF c = clone THEN <<>> ELSE acc.lists[c]]]
       IN FoldLeft(LAMBDA a, id :
             LET b == CloneGraph(edges, Far(edges[id], node), a)
             IN [b EXCEPT !.lists[clone] = Append(@, b.copies[Far(edges[id], node)])],
           met, Both(edges, node))

\* The clone is the part that is reached from 0: one copy for each node, and the
\* copies of its neighbours in their order.
CloneRight(edges) ==
  LET clone == CloneGraph(edges, 0, [copies |-> <<>>, lists |-> <<>>])
      copies == clone.copies
  IN /\ DOMAIN copies = {v \in Nodes : ~Parted(edges, DOMAIN edges, 0, v)}
     /\ \A u, v \in DOMAIN copies : copies[u] = copies[v] => u = v
     /\ \A u \in DOMAIN copies : clone.lists[copies[u]] =
          [i \in DOMAIN Both(edges, u) |-> copies[Far(edges[Both(edges, u)[i]], u)]]

XorOf(nums) == FoldLeft(LAMBDA acc, num : acc ^^ num, 0, nums)
SingleNumber(nums) == XorOf(nums)
MissingNumber(nums) == XorOf([value \in 1..Len(nums) + 1 |-> value]) ^^ XorOf(nums)

RECURSIVE HammingWeight(_), GetSum(_, _)
HammingWeight(n) == IF n = 0 THEN 0 ELSE 1 + HammingWeight(n & (n - 1))

\* int of Width bits, as the number its bits stand for; the shift drops the top bit.
Width == 4
GetSum(a, b) == IF b = 0 THEN a ELSE GetSum(a ^^ b, (2 * (a & b)) % 2 ^ Width)

BitsRight(nums) ==
  LET naturals == Shifted(nums, 1)
      n == Len(nums) + 1
      value == FoldLeft(LAMBDA acc, num : 4 * acc + num, 0, naturals)
  IN /\ \A x \in ToSet(naturals) : SingleNumber(naturals \o <<x>> \o Reverse(naturals)) = x
     /\ \A m \in 1..n : MissingNumber(Reverse(SelectSeq([i \in 1..n |-> i], LAMBDA v : v # m))) = m
     /\ HammingWeight(value) = Cardinality({e \in 0..2 * n : (value \div 2 ^ e) % 2 = 1})
     /\ Len(nums) = 2 => \A a, b \in 0..2 ^ Width - 1 : GetSum(a, b) = (a + b) % 2 ^ Width

-----------------------------------------------------------------------------
\* After any sequence of operations a container made of others answers as the
\* plain one does, and every table and code returns what its problem defines:
\* words that hold digits and '#' are decoded, a missed Get does not refresh.
ContainersRight(nums) ==
  /\ QueuesAndStacksRight(nums) /\ LruRight(nums) /\ StringsRight(nums)
  /\ \A target \in -2..4 : TwoSumHashRight(nums, target)
  /\ ContainsDuplicate(nums) <=> ~IsInjective(nums)
  /\ LadderRight(nums) /\ BitsRight(nums)
=============================================================================
