---------------------------- MODULE MCPlayerChanges ----------------------------
(* PlayerChanges on small instances.                                         *)
EXTENDS PlayerChanges, TLC

CONSTANTS s1, s2, s3, early, late, north, south

\* Two slots in one tee time, one on the other course.
TwoTees == s1 :> early @@ s2 :> early @@ s3 :> late
TwoCourses == s1 :> north @@ s2 :> north @@ s3 :> south

Symmetry ==
    Permutations(Golfers) \cup Permutations(Regs) \cup Permutations(Fees)
        \cup Permutations(Clerks)
===============================================================================
