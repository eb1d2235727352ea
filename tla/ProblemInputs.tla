---------------------------- MODULE ProblemInputs -----------------------------
(* All small inputs of the solutions: one input of one kind grows by an        *)
(* element at a time.  With the scans of arrays and the sweeps over intervals, *)
(* which use no recursive operator; Solutions adds those that do.              *)
EXTENDS IntervalSweeps

CONSTANTS Numbers,      \* the numbers that occur in arrays, lists and trees
          Spans,        \* the intervals, as pairs of a start and an end
          Edges,        \* the edges and flights, as pairs of nodes
          Cells,        \* what a cell of a grid holds
          MaxNumbers, MaxSpans, MaxEdges, MaxCells   \* bounds: the longest inputs

\* One more than a number is a height, so no number is below -1.
ASSUME NumbersAssumption == \A num \in Numbers : num \in Int /\ num >= -1
\* A span starts before it ends, and not before time 0.
ASSUME SpansAssumption == \A span \in Spans : span \in Nat \X Nat /\ span[1] < span[2]

VARIABLES numbers, spans, edges, cells

vars == <<numbers, spans, edges, cells>>

Init == numbers = <<>> /\ spans = <<>> /\ edges = <<>> /\ cells = <<>>

\* An input grows while those of the other kinds are empty.
Grows(input, longest) ==
  Len(input) < longest /\ \A i \in DOMAIN vars : vars[i] # <<>> => input # <<>>

GrowNumbers ==
  /\ Grows(numbers, MaxNumbers)
  /\ \E num \in Numbers : numbers' = Append(numbers, num)
  /\ UNCHANGED <<spans, edges, cells>>
GrowSpans ==
  /\ Grows(spans, MaxSpans)
  /\ \E span \in Spans : spans' = Append(spans, span)
  /\ UNCHANGED <<numbers, edges, cells>>
GrowEdges ==
  /\ Grows(edges, MaxEdges)
  /\ \E edge \in Edges : edges' = Append(edges, edge)
  /\ UNCHANGED <<numbers, spans, cells>>
GrowCells ==
  /\ Grows(cells, MaxCells)
  /\ \E cell \in Cells : cells' = Append(cells, cell)
  /\ UNCHANGED <<numbers, spans, edges>>

Next == GrowNumbers \/ GrowSpans \/ GrowEdges \/ GrowCells
Spec == Init /\ [][Next]_vars

-----------------------------------------------------------------------------
\* One pass over an array, or over intervals and the events at their ends in
\* their order: on every array each scan returns what its problem defines, and
\* every approach the notes give for one problem returns the same; so do the
\* sweeps on intervals that touch, nest and repeat.
SweepsRight == ArraysRight(numbers) /\ IntervalsRight(spans)
=============================================================================
