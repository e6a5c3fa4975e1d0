------------------------------- MODULE MCRefunds -------------------------------
(* Refunds on small instances.                                               *)
EXTENDS Refunds, TLC

CONSTANTS f1, f2, p1, x1

\* A payment for two players.
OnePayment == f1 :> p1 @@ f2 :> p1
===============================================================================
