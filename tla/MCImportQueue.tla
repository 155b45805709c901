---------------------------- MODULE MCImportQueue -----------------------------
(* Small instances of ImportQueue for TLC.                                  *)
EXTENDS ImportQueue, TLC

\* How many items are picked in every session.
OnePick == [s \in Sessions |-> 1]
ThreePicks == [s \in Sessions |-> 3]

Permuted == Permutations(Jobs) \cup Permutations(Workers) \cup Permutations(Pollers)
===============================================================================
