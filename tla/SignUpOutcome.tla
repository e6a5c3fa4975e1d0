----------------------------- MODULE SignUpOutcome -----------------------------
(***************************************************************************)
(* What a sign-up comes to, seen from the tee sheet alone: RegistrationFlow *)
(* implements the sign-up of PlayerChanges, in which a group claims slots,  *)
(* seats players, pays or gives up, and nothing is said of tabs, Stripe and *)
(* cron jobs.  What PlayerChanges proves about later changes thus starts    *)
(* from states that the sign-up really produces.                            *)
(***************************************************************************)
EXTENDS BookingInvariant

\* What PlayerChanges asks of its constants, and RegistrationFlow does not.
ASSUME OutcomeAssumption ==
    /\ None \notin Slots \cup {"course"}
    /\ Users \cap Slots = {}

\* A slot awaiting payment is still held, no more.
Shown(st) == IF st = "X" THEN "P" ELSE st

Sheet ==
    [s \in Slots |->
        [status |-> Shown(status[s]), reg |-> slotReg[s], golfer |-> occupant[s]]]

\* The event is played on one course.
Booked == [r \in Regs |-> IF r \in made THEN "course" ELSE None]

\* A fee counts once its payment is confirmed; it is for the player of its slot.
PaidFees ==
    [f \in Payments \X Slots |->
        IF f[1] \in confirmed /\ f[2] \in fees[f[1]]
        THEN [on |-> f[2], of |-> occupant[f[2]]]
        ELSE [on |-> None, of |-> None]]

Outcome ==
    INSTANCE PlayerChanges
        WITH Golfers <- Users,
             TeeTime <- [s \in Slots |-> "tee time"],
             Course <- [s \in Slots |-> "course"],
             Asked <- {"course"},
             Fees <- Payments \X Slots,
             Clerks <- {},
             slot <- Sheet,
             made <- made,
             course <- Booked,
             fee <- PaidFees,
             request <- [c \in {} |-> None],
             stale <- {}

\* Every behaviour of the sign-up is one of PlayerChanges without requests: a
\* registration takes all its slots at once, its players are charged for and
\* seated together and at once, one fee each, the slots they left empty go back
\* in the same step, and nobody else's slots change with it.
IsSignUp == Outcome!Spec
===============================================================================
