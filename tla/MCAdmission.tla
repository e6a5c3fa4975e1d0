------------------------------ MODULE MCAdmission ------------------------------
(* Admission on small instances.                                             *)
EXTENDS Admission

\* A computer whose clock is right, one that is behind, one that is ahead.
RightAndWrong == {0, -1, 2}
===============================================================================
