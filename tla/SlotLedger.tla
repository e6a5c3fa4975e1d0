------------------------------ MODULE SlotLedger ------------------------------
(***************************************************************************)
(* What the tee sheet of a choosable event promises, with nothing said of  *)
(* payments, expiry, tabs or webhooks: every slot is free, held by one     *)
(* registration, or sold to it.  A slot changes hands only by becoming     *)
(* free in between, and a sold slot stays sold.  RegistrationFlow is shown *)
(* to implement this specification.                                        *)
(***************************************************************************)
CONSTANTS
    Slots,          \* rows of registration_slot
    Regs,           \* rows of registration
    Nobody          \* the holder of a free slot (registration_id IS NULL)

VARIABLES
    holder,         \* holder[s]: the registration slot s belongs to
    sold            \* the slots that have been paid for

ledgerVars == <<holder, sold>>

LedgerInit ==
    /\ holder = [s \in Slots |-> Nobody]
    /\ sold = {}

Assign(S, h) == [s \in Slots |-> IF s \in S THEN h ELSE holder[s]]

\* A registration takes slots nobody holds.
Claim(r, S) ==
    /\ \A s \in S : holder[s] = Nobody
    /\ holder' = Assign(S, r)
    /\ UNCHANGED sold

\* Slots that have not been sold go back to the tee sheet.
Release(S) ==
    /\ S \cap sold = {}
    /\ holder' = Assign(S, Nobody)
    /\ UNCHANGED sold

\* A payment settles: S is sold to r, the slots F that r held and did not use
\* go back to the tee sheet.
Settle(r, S, F) ==
    /\ \A s \in S \cup F : holder[s] = r
    /\ (sold \cup S) \cap F = {}
    /\ sold' = sold \cup S
    /\ holder' = Assign(F, Nobody)

LedgerNext ==
    \/ \E r \in Regs, S \in SUBSET Slots : Claim(r, S)
    \/ \E S \in SUBSET Slots : Release(S)
    \/ \E r \in Regs, S \in SUBSET Slots, F \in SUBSET Slots : Settle(r, S, F)

LedgerSpec == LedgerInit /\ [][LedgerNext]_ledgerVars
===============================================================================
