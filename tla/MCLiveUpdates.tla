----------------------------- MODULE MCLiveUpdates -----------------------------
(* LiveUpdates on small instances.                                           *)
EXTENDS LiveUpdates, TLC

\* Tabs are alike, and so are the connections they open.
Symmetry == Permutations(Tabs) \cup Permutations(Conns)
===============================================================================
