-------------------------- MODULE MCProgressStore ---------------------------
(* Small instances of ProgressStore for TLC.                                 *)
EXTENDS ProgressStore

CONSTANTS t1, t2, x1, x2, a

OneTab == {t1}
TwoTabs == {t1, t2}
TwoTopics == {x1, x2}
OneText == {a}
DoneOnly == {"done"}

NoFiles == {}

\* An exported file, and one that holds the completed topics only.
MCFiles ==
  LET content == [lists |-> [l \in Lists |-> {x1, x2}],
                  notes |-> [x \in Topics |-> a]]
  IN {[keys |-> Lists \cup {"notes"}, lists |-> content.lists, notes |-> content.notes],
      [keys |-> {"done"}, lists |-> content.lists, notes |-> content.notes]}
=============================================================================
