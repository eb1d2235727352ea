------------------------------ MODULE Solutions ------------------------------
(* All solutions of 02-standard-problems and 03-advanced-problems over the     *)
(* inputs of ProblemInputs: each property compares every algorithm for one     *)
(* kind of input with the definition of what it should compute.                *)
EXTENDS ProblemInputs, Enumerations, Containers, GridSearches, BinaryTrees

\* Windows, searches, heaps, merges, lists and containers: on every array each
\* solution returns what its problem defines, and every approach the notes give
\* for one problem returns the same.
SequencesRight ==
  /\ WindowsRight(numbers) /\ SearchesRight(numbers)
  /\ ListsRight(numbers) /\ ContainersRight(numbers)

\* Dynamic programmes, greedy choices and backtracking: the tables agree with
\* the best of all choices, the enumerations list each result once and no other.
ChoicesRight == ProgrammesRight(numbers) /\ EnumerationsRight(numbers)

\* Trees, graphs with parallel edges, cycles and several parts, and grids.
TraversalsRight ==
  TreesRight(numbers) /\ GraphsRight(edges) /\ CloneRight(edges) /\ GridsRight(cells)
=============================================================================
