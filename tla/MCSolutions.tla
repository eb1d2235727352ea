----------------------------- MODULE MCSolutions -----------------------------
(* Small inputs for the solutions, for TLC.                                  *)
EXTENDS Solutions

\* A negative number, zero, and two that differ.
MCNumbers == -1..2

\* They touch, nest, overlap and are apart.
MCSpans == {span \in (0..3) \X (0..3) : span[1] < span[2]}

\* A triangle in both directions but one, a tail and a second way back.
MCEdges == {<<0, 1>>, <<1, 0>>, <<1, 2>>, <<2, 1>>, <<2, 0>>, <<1, 3>>, <<3, 2>>}

\* Water or nothing, land or a fresh orange, a rotten one; heights and letters.
MCCells == 0..2
=============================================================================
