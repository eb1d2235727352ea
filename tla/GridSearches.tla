----------------------------- MODULE GridSearches -----------------------------
(* The matrix and grid solutions of 02-standard-problems, each next to the     *)
(* definition of what it computes.  A grid is a function of <<row, column>>,   *)
(* both from 1; the code's loops go by rows, then by columns.                  *)
EXTENDS ArrayScans

GridOf(rows, cols, cells) == [rc \in (1..rows) \X (1..cols) |-> cells[(rc[1] - 1) * cols + rc[2]]]
Rows(grid) == {rc[1] : rc \in DOMAIN grid}
Cols(grid) == {rc[2] : rc \in DOMAIN grid}
Around(grid, rc) ==
  {<<rc[1] + d[1], rc[2] + d[2]>> : d \in {<<1, 0>>, <<-1, 0>>, <<0, 1>>, <<0, -1>>}} \cap DOMAIN grid

\* For the definitions: the least set with `from` that the steps do not leave.
RECURSIVE Reached(_, _)
Reached(from, steps) ==
  LET more == UNION {steps[rc] : rc \in from} \ from
  IN IF more = {} THEN from ELSE Reached(from \cup more, steps)

-----------------------------------------------------------------------------
(* Flood fills.                                                              *)

RECURSIVE Sink(_, _)
\* One depth-first search turns the island to water.
Sink(grid, rc) ==
  IF grid[rc] # 1 THEN grid
  ELSE FoldSet(LAMBDA next, acc : Sink(acc, next), [grid EXCEPT ![rc] = 0], Around(grid, rc))

RowByRow(grid) ==
  SortSeq(SetToSeq(DOMAIN grid), LAMBDA a, b : a[1] < b[1] \/ (a[1] = b[1] /\ a[2] < b[2]))

NumIslands(grid) ==
  FoldLeft(LAMBDA acc, rc :
      IF acc.grid[rc] # 1 THEN acc ELSE [grid |-> Sink(acc.grid, rc), count |-> acc.count + 1],
    [grid |-> grid, count |-> 0], RowByRow(grid)).count

Land(grid) == {rc \in DOMAIN grid : grid[rc] = 1}
Island(grid, rc) == Reached({rc}, [at \in DOMAIN grid |-> Around(grid, at) \cap Land(grid)])

IslandsRight(grid) == NumIslands(grid) = Cardinality({Island(grid, rc) : rc \in Land(grid)})

RECURSIVE Rot(_, _, _, _)
\* A minute is one round of the queue; it stops when nothing fresh is left.
Rot(grid, queue, fresh, minutes) ==
  LET next == UNION {Around(grid, rc) : rc \in queue} \cap Land(grid)
  IN IF queue = {} \/ fresh = 0 THEN IF fresh = 0 THEN minutes ELSE -1
     ELSE Rot([rc \in DOMAIN grid |-> IF rc \in next THEN 2 ELSE grid[rc]],
              next, fresh - Cardinality(next), minutes + 1)

OrangesRotting(grid) ==
  Rot(grid, {rc \in DOMAIN grid : grid[rc] = 2}, Cardinality(Land(grid)), 0)

\* What is rotten after so many minutes.
RottenAfter(grid, minutes) ==
  FoldSet(LAMBDA m, rotten : rotten \cup {rc \in Land(grid) : Around(grid, rc) \cap rotten # {}},
          {rc \in DOMAIN grid : grid[rc] = 2}, 1..minutes)

RottingRight(grid) ==
  LET enough == {m \in 0..Cardinality(DOMAIN grid) : Land(grid) \subseteq RottenAfter(grid, m)}
  IN OrangesRotting(grid) = IF enough = {} THEN -1 ELSE Min(enough)

RECURSIVE Climb(_, _, _, _)
\* From a border inwards, never down.
Climb(heights, rc, previousHeight, seen) ==
  IF rc \in seen \/ heights[rc] < previousHeight THEN seen
  ELSE FoldSet(LAMBDA next, acc : Climb(heights, next, heights[rc], acc),
               seen \cup {rc}, Around(heights, rc))

ClimbAll(heights, border) == FoldSet(LAMBDA rc, acc : Climb(heights, rc, 0, acc), {}, border)
Pacific(grid) == {rc \in DOMAIN grid : rc[1] = 1 \/ rc[2] = 1}
Atlantic(grid) == {rc \in DOMAIN grid : rc[1] = Max(Rows(grid)) \/ rc[2] = Max(Cols(grid))}

PacificAtlantic(heights) == ClimbAll(heights, Pacific(heights)) \cap ClimbAll(heights, Atlantic(heights))

\* Water flows to a neighbour that is not higher.
FlowRight(heights) ==
  LET falls == [at \in DOMAIN heights |-> {b \in Around(heights, at) : heights[b] <= heights[at]}]
      flow(rc) == Reached({rc}, falls)
  IN PacificAtlantic(heights) =
       {rc \in DOMAIN heights : flow(rc) \cap Pacific(heights) # {} /\ flow(rc) \cap Atlantic(heights) # {}}

\* Mutant: only a search that failed puts the letter back.
RestoredOnFailure(search, rc, saved) ==
  IF search.found THEN search ELSE [search EXCEPT !.board[rc] = saved]
Restored(search, rc, saved) == [search EXCEPT !.board[rc] = saved]

RECURSIVE Spell(_, _, _, _)
\* One board for the whole search: a cell in use holds a mark (-1), and its
\* letter again when the search leaves it, with or without success.
Spell(board, rc, word, index) ==
  LET Turn(search, d) ==
        IF search.found THEN search
        ELSE Spell(search.board, <<rc[1] + d[1], rc[2] + d[2]>>, word, index + 1)
      marked == [found |-> FALSE, board |-> [board EXCEPT ![rc] = -1]]
  IN IF index > Len(word) THEN [found |-> TRUE, board |-> board]
     ELSE IF rc \notin DOMAIN board \/ board[rc] # word[index] THEN [found |-> FALSE, board |-> board]
     ELSE Restored(FoldLeft(Turn, marked, <<<<1, 0>>, <<-1, 0>>, <<0, 1>>, <<0, -1>>>>), rc, board[rc])

Exist(board, word) ==
  FoldLeft(LAMBDA search, rc : IF search.found THEN search ELSE Spell(search.board, rc, word, 1),
    [found |-> FALSE, board |-> board], RowByRow(board))

\* The board is as it was, whatever was found.
ExistRight(board, word) ==
  /\ Exist(board, word).board = board
  /\ Exist(board, word).found <=>
       \E path \in [DOMAIN word -> DOMAIN board] :
         /\ IsInjective(path)
         /\ \A i \in DOMAIN word : board[path[i]] = word[i]
         /\ \A i \in 1..Len(word) - 1 : path[i + 1] \in Around(board, path[i])

-----------------------------------------------------------------------------
(* Matrices changed in place.                                                *)

\* The first row and column hold the marks of the others, two flags their own.
SetZeroes(matrix) ==
  LET zeroFirstCol == \E r \in Rows(matrix) : matrix[<<r, 1>>] = 0
      zeroFirstRow == \E c \in Cols(matrix) : matrix[<<1, c>>] = 0
      inner == {rc \in DOMAIN matrix : rc[1] > 1 /\ rc[2] > 1}
      marked == [rc \in DOMAIN matrix |->
        IF \E z \in inner : matrix[z] = 0 /\ rc \in {<<z[1], 1>>, <<1, z[2]>>} THEN 0 ELSE matrix[rc]]
      filled == [rc \in DOMAIN matrix |->
        IF rc \in inner /\ 0 \in {marked[<<rc[1], 1>>], marked[<<1, rc[2]>>]} THEN 0 ELSE marked[rc]]
  IN [rc \in DOMAIN matrix |->
        IF (zeroFirstRow /\ rc[1] = 1) \/ (zeroFirstCol /\ rc[2] = 1) THEN 0 ELSE filled[rc]]

SetZeroesRight(matrix) ==
  SetZeroes(matrix) = [rc \in DOMAIN matrix |->
    IF \E z \in DOMAIN matrix : matrix[z] = 0 /\ (z[1] = rc[1] \/ z[2] = rc[2]) THEN 0 ELSE matrix[rc]]

\* Swaps across the diagonal, then each row reversed.
RotateImage(matrix) ==
  LET n == Max(Rows(matrix))
      upper == {rc \in DOMAIN matrix : rc[1] <= rc[2]}
      transposed == FoldSet(LAMBDA rc, acc :
          [acc EXCEPT ![rc] = acc[<<rc[2], rc[1]>>], ![<<rc[2], rc[1]>>] = acc[rc]], matrix, upper)
  IN [rc \in DOMAIN matrix |-> transposed[<<rc[1], n + 1 - rc[2]>>]]

RotateImageRight(matrix) ==
  \A rc \in DOMAIN matrix : RotateImage(matrix)[<<rc[2], Max(Rows(matrix)) + 1 - rc[1]>>] = matrix[rc]

Across(matrix, row, from, to) == [i \in 1..to - from + 1 |-> matrix[<<row, from + i - 1>>]]
Down(matrix, col, from, to) == [i \in 1..to - from + 1 |-> matrix[<<from + i - 1, col>>]]

\* Mutant: the way back along the bottom does not ask whether a row is left.
BackAlways(top, bottom) == TRUE
\* The top row and the right column are done: is there a row to come back by?
RowLeft(top, bottom) == top <= bottom

RECURSIVE Spiral(_, _, _, _, _)
Spiral(matrix, top, bottom, left, right) ==
  LET there == Across(matrix, top, left, right) \o Down(matrix, right, top + 1, bottom)
      back == RowLeft(top + 1, bottom)
      up == left <= right - 1
      bottom2 == IF back THEN bottom - 1 ELSE bottom
  IN IF top > bottom \/ left > right THEN <<>>
     ELSE there
          \o (IF back THEN Reverse(Across(matrix, bottom, left, right - 1)) ELSE <<>>)
          \o (IF up THEN Reverse(Down(matrix, left, top + 1, bottom2)) ELSE <<>>)
          \o Spiral(matrix, top + 1, bottom2, IF up THEN left + 1 ELSE left, right - 1)

SpiralOrder(matrix) == Spiral(matrix, 1, Max(Rows(matrix)), 1, Max(Cols(matrix)))

\* The first row, then the spiral of what is left, turned left by a quarter.
RECURSIVE Peeled(_, _, _)
Peeled(matrix, rows, cols) ==
  IF rows = 0 \/ cols = 0 THEN <<>>
  ELSE Across(matrix, 1, 1, cols) \o
       Peeled([rc \in (1..cols) \X (1..rows - 1) |-> matrix[<<rc[2] + 1, cols + 1 - rc[1]>>]], cols, rows - 1)

\* On every shape up to four by four, the cells numbered.
SpiralRight ==
  \A rows, cols \in 1..4 :
    LET matrix == GridOf(rows, cols, [i \in 1..rows * cols |-> i])
    IN SpiralOrder(matrix) = Peeled(matrix, rows, cols)

-----------------------------------------------------------------------------
\* Each grid solution gives what its problem asks for, on a full grid of two
\* rows or three and on a square one, and each reordering on all small shapes.
GridsRight(cells) ==
  LET two == GridOf(2, 3, cells)
      three == GridOf(3, 2, cells)
      square == GridOf(2, 2, cells)
  IN Len(cells) = 6 =>
       /\ \A grid \in {two, three} :
            /\ IslandsRight(grid) /\ RottingRight(grid) /\ FlowRight(grid) /\ SetZeroesRight(grid)
            /\ \A word \in {<<0, 1>>, <<1, 1, 2>>} : ExistRight(grid, word)
       /\ RotateImageRight(square)
       /\ SpiralRight
=============================================================================
