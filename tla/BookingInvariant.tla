--------------------------- MODULE BookingInvariant ---------------------------
(***************************************************************************)
(* Why a sign-up is safe when nothing but Stripe's answer can be overtaken  *)
(* (RegistrationFlow with Hazards \subseteq {"window"}).  BookingInv is      *)
(* inductive and implies the properties of the booking and window runs;     *)
(* BookingProofs proves both, for any number of tabs, slots, registrations, *)
(* payments and intents.                                                    *)
(*                                                                          *)
(* The argument in one breath: a registration and its one payment belong to *)
(* one tab (TabInv), whose cart is what is occupied on the tee sheet        *)
(* (CartInv) and, once saved, what the payment has fees for (TabPayment);   *)
(* an attached PaymentIntent has stopped the registration's clock, so       *)
(* neither the cron job nor the guards let its payment go (FeeInv);         *)
(* submitting the card takes the tab away, so nothing changes until the     *)
(* webhook seats exactly the slots that were charged (SubmittedInv).  A     *)
(* payment deleted while Stripe was creating its intent leaves nothing on   *)
(* the tee sheet that the charge could still buy (TabPayment, LostInv), and *)
(* without the hazard there is no such payment (KeptInv).                   *)
(*                                                                          *)
(* AmountInv, inductive with BookingInv, says that an intent's amount is    *)
(* still what its payment has fees for: createPaymentIntent adds up the fee *)
(* rows, and until the card is submitted or refused the page that could     *)
(* change them is waiting.                                                  *)
(***************************************************************************)
EXTENDS RegistrationFlow

Busy(t) == stage[t] \in {"editing", "payment", "intent", "confirm"}
Saved(t) == stage[t] \in {"payment", "intent", "confirm"}
Submitted(i) == piState[i] \in {"submitted", "captured"}
UnderWay(i) == piState[i] = "created" \/ Submitted(i)
Occupied(r) == {s \in SlotsOf(r) : occupant[s] # None}

\* No two tabs share a registration or a payment.
TabInv ==
    \A t \in Tabs :
        /\ mode[t] = "new"
        /\ Busy(t) => held[t] \in made
        /\ ~Busy(t) => held[t] = None /\ pay[t] = None
        /\ Saved(t) => pay[t] # None
        /\ pay[t] # None => pay[t] \in issued
        /\ \A v \in Tabs : t # v =>
             /\ held[t] # None => held[v] # held[t]
             /\ pay[t] # None => pay[v] # pay[t]

\* The cart is what is occupied, unless the registration was taken away.
CartInv ==
    \A t \in Tabs : Busy(t) =>
        SlotsOf(held[t]) = {} \/ cart[t] = Occupied(held[t])

\* A tab's payment, while it exists, is for slots of the tab's registration;
\* when it is gone, so are they.
TabPayment ==
    \A t \in Tabs :
        /\ pay[t] \in live =>
             /\ fees[pay[t]] # {}
             /\ fees[pay[t]] \subseteq SlotsOf(held[t])
             /\ Saved(t) => fees[pay[t]] = cart[t]
        /\ pay[t] \notin live \cup {None} => SlotsOf(held[t]) = {}

\* A tab that waits for an intent or submits it does so for its own payment,
\* which has the intent's code and no slot on the clock, if it still exists.
TabIntent ==
    \A t \in Tabs :
        /\ stage[t] \in {"intent", "confirm"} =>
             /\ piPay[tabPI[t]] = pay[t]
             /\ piReg[tabPI[t]] = held[t]
        /\ stage[t] = "confirm" /\ pay[t] \in live =>
             /\ code[pay[t]] = tabPI[t]
             /\ \A s \in SlotsOf(held[t]) : status[s] # "P"

\* A registration on the clock has only pending slots, one given up has none.
ClockInv ==
    /\ \A s \in Slots : slotReg[s] # None =>
         /\ slotReg[s] \in made
         /\ regUser[slotReg[s]] # None
         /\ expires[slotReg[s]] # "null" => status[s] = "P"

\* A fee is on a slot somebody holds, no registration has fees of two payments,
\* and a payment in flight has stopped the clock.
FeeInv ==
    /\ \A p \in live, s \in Slots : s \in fees[p] =>
         /\ slotReg[s] # None
         /\ InFlight(p) => expires[slotReg[s]] = "null"
         /\ \A t \in Tabs : held[t] = slotReg[s] => pay[t] = p
    /\ \A p, q \in live : p # q =>
         \A s \in fees[p], w \in fees[q] : slotReg[s] # slotReg[w]
    /\ \A p \in Payments \ issued : ~InFlight(p)

\* A code names an intent Stripe has answered for, made for that payment.
CodeInv ==
    /\ \A p \in Payments : code[p] # "pending" =>
         /\ code[p] \in Intents
         /\ piState[code[p]] \notin {"unused", "created"}
         /\ piPay[code[p]] = p
    /\ \A p \in confirmed : p \in live /\ code[p] \in Intents
                            /\ piState[code[p]] = "captured"

\* While Stripe is creating an intent, only the tab that asked for it can touch
\* its payment and registration.
CreatedInv ==
    \A i \in Intents : piState[i] = "created" /\ piPay[i] \in live =>
        /\ fees[piPay[i]] # {}
        /\ fees[piPay[i]] \subseteq SlotsOf(piReg[i])
        /\ \A t \in Tabs : pay[t] = piPay[i] \/ held[t] = piReg[i] =>
             stage[t] = "intent" /\ tabPI[t] = i
        /\ \A j \in Intents \ {i} : UnderWay(j) =>
             piPay[j] # piPay[i] /\ piReg[j] # piReg[i]

\* Once submitted, the charge's payment and slots are out of every tab's reach.
SubmittedInv ==
    \A i \in Intents : Submitted(i) /\ piPay[i] \in live =>
        /\ code[piPay[i]] = i
        /\ fees[piPay[i]] # {}
        /\ fees[piPay[i]] = Occupied(piReg[i])
        /\ \A t \in Tabs : pay[t] # piPay[i] /\ held[t] # piReg[i]
        /\ \A s \in SlotsOf(piReg[i]) :
             IF piPay[i] \in confirmed
             THEN status[s] = "R" /\ occupant[s] # None
             ELSE status[s] = "X"

\* An intent whose payment was deleted has no slots left to pay for.
LostInv ==
    \A i \in Intents : UnderWay(i) =>
        /\ piPay[i] \in issued
        /\ piReg[i] \in made
        /\ piPay[i] \notin live => SlotsOf(piReg[i]) = {}

\* No payment is deleted under an intent, unless a hold may end while Stripe is
\* creating it.
KeptInv ==
    \/ "window" \in Hazards
    \/ /\ \A t \in Tabs : stage[t] \in {"intent", "confirm"} => pay[t] \in live
       /\ \A i \in Intents : UnderWay(i) => piPay[i] \in live

BookingInv ==
    /\ TabInv
    /\ CartInv
    /\ TabPayment
    /\ TabIntent
    /\ ClockInv
    /\ FeeInv
    /\ CodeInv
    /\ CreatedInv
    /\ SubmittedInv
    /\ LostInv
    /\ KeptInv

\* An intent under way, or about to be submitted, is for the fees of its payment.
AmountInv ==
    /\ \A i \in Intents : UnderWay(i) /\ piPay[i] \in live =>
         piFor[i] = fees[piPay[i]]
    /\ \A t \in Tabs : stage[t] = "confirm" /\ pay[t] \in live =>
         piFor[tabPI[t]] = fees[pay[t]]
===============================================================================
