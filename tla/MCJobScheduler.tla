--------------------------- MODULE MCJobScheduler ---------------------------
(* Small instances of JobScheduler for TLC.                                  *)
EXTENDS JobScheduler

CONSTANTS j1, j2, w1, w2, c1, c2, a, b

MCJobs == {j1, j2}
MCWorkers == {w1, w2}
MCCallers == {c1, c2}
OneCaller == {c1}

\* j1 recurs every 2 ticks, j2 runs once.
MCOneTime == {j2}
MCInterval == [j \in MCJobs |-> 2]

\* Every instance has an id of its own, or both are scheduled under one id.
MCIds == {a, b}
OwnIds == [j \in MCJobs |-> IF j = j1 THEN a ELSE b]
SharedId == [j \in MCJobs |-> a]

MCDelays == {0, 1}
=============================================================================
