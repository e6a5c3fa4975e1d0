----------------------------- MODULE BookingProofs -----------------------------
(* A sign-up is safe, undisturbed or with Stripe's answer overtaken: BookingInv *)
(* is inductive, and implies what the booking and window runs check, for every  *)
(* value of the constants.                                                      *)
EXTENDS SignUpOutcome, RegistrationFlowProofs

\* No hazard is switched on: what is left is two or more tabs, lost tabs, declined
\* cards, failed Stripe calls, both cron jobs and late or repeated webhooks.
Undisturbed == Hazards = {}

\* At most, a hold may be cancelled or expire while Stripe creates an intent for it.
Overtaken == Hazards \subseteq {"window"}

\* What RegistrationFlowProofs has established of every state.
Known ==
    /\ TypeOK
    /\ AvailableIsUnheld
    /\ TabsWait
    /\ ReservedWasCaptured
    /\ FeesOfLive

\* The five invariants hold together of whatever the handlers have written.
LEMMA KnownAlways == Spec => []Known
  BY TypeCorrect, FreeSlotsAreUnheld, NothingReservedUncharged, TabsAlwaysWait,
     DeletedHaveNoFees, PTL
     DEF Known

\* An intent under way is for a payment and a registration that exist.
LEMMA IntentIsFor ==
    ASSUME Known, BookingInv,
           NEW i \in Intents, UnderWay(i), piPay[i] \in live
    PROVE  /\ piReg[i] \in made
           /\ fees[piPay[i]] # {}
           /\ fees[piPay[i]] \subseteq SlotsOf(piReg[i])
<1>1. /\ fees[piPay[i]] # {}
      /\ fees[piPay[i]] \subseteq SlotsOf(piReg[i])
  BY DEF BookingInv, CreatedInv, SubmittedInv, UnderWay, Occupied
<1>2. piReg[i] \in made
  BY DEF BookingInv, LostInv
<1> QED
  BY <1>1, <1>2

\* The charge of a payment that a tab holds is under way only while the tab waits
\* for that very intent; another tab's charge is for another registration.
LEMMA UnderWayElsewhere ==
    ASSUME Known, BookingInv, NEW t \in Tabs, pay[t] \in live,
           NEW i \in Intents, UnderWay(i), stage[t] = "intent" => tabPI[t] # i
    PROVE  piPay[i] # pay[t] /\ piReg[i] # held[t]
<1>1. fees[pay[t]] # {} /\ fees[pay[t]] \subseteq SlotsOf(held[t])
  BY DEF BookingInv, TabPayment
<1>2. CASE piPay[i] \in live
  BY <1>2 DEF BookingInv, CreatedInv, SubmittedInv, UnderWay
<1>3. CASE piPay[i] \notin live
  BY <1>1, <1>3 DEF BookingInv, LostInv
<1> QED
  BY <1>2, <1>3

\* The tabs that move at all become idle or start a new reservation.
TabsOnlyLeave ==
    \A v \in Tabs :
        \/ /\ stage'[v] = stage[v] /\ mode'[v] = mode[v]
           /\ held'[v] = held[v] /\ pay'[v] = pay[v]
           /\ cart'[v] = cart[v] /\ tabPI'[v] = tabPI[v]
        \/ /\ stage'[v] \in {"idle", "reserving"} /\ mode'[v] = "new"
           /\ held'[v] = None /\ pay'[v] = None

\* Tabs that close or start over leave the others their registrations and payments.
LEMMA TabsLeaveTabInv ==
    ASSUME TypeOK, TypeOK', TabInv, TabsOnlyLeave, made' = made, issued' = issued
    PROVE  TabInv'
<1> USE DEF TypeOK, TabInv, TabsOnlyLeave, Busy, Saved
<1>1. ASSUME NEW t \in Tabs
      PROVE  /\ mode'[t] = "new"
             /\ Busy(t)' => held'[t] \in made
             /\ ~Busy(t)' => held'[t] = None /\ pay'[t] = None
             /\ Saved(t)' => pay'[t] # None
             /\ pay'[t] # None => pay'[t] \in issued
  <2>1. CASE /\ stage'[t] = stage[t] /\ mode'[t] = mode[t]
             /\ held'[t] = held[t] /\ pay'[t] = pay[t]
    BY <2>1
  <2>2. CASE /\ stage'[t] \in {"idle", "reserving"} /\ mode'[t] = "new"
             /\ held'[t] = None /\ pay'[t] = None
    BY <2>2
  <2> QED
    BY <2>1, <2>2
<1>2. \A t, v \in Tabs : t # v =>
        /\ held'[t] # None => held'[v] # held'[t]
        /\ pay'[t] # None => pay'[v] # pay'[t]
  OBVIOUS
<1> QED
  BY <1>1, <1>2

\* A tab that is closed, fails or starts over while the server is not told.
LEMMA TabsLeaveStep ==
    ASSUME Known, Known', BookingInv, TabsOnlyLeave,
           UNCHANGED <<slotVars, regVars, payVars, piVars>>
    PROVE  BookingInv'
<1> USE DEF Known, TypeOK, BookingInv, TabsOnlyLeave, Busy, Saved, Submitted, UnderWay,
            slotVars, regVars, payVars, piVars
<1>1. TabInv'
  BY TabsLeaveTabInv
<1>2. CartInv'
  BY DEF CartInv, Occupied, SlotsOf
<1>3. TabPayment'
  BY FlowAssumption DEF TabPayment, TabInv, SlotsOf
<1>4. TabIntent'
  BY DEF TabIntent, SlotsOf
<1>5. ClockInv' /\ CodeInv'
  BY DEF ClockInv, CodeInv
<1>6. FeeInv'
  <2>1. \A p \in live, s \in Slots : s \in fees[p] =>
          /\ slotReg[s] # None
          /\ InFlight(p) => expires[slotReg[s]] = "null"
    BY DEF FeeInv
  <2>2. \A p \in live, s \in Slots : s \in fees[p] =>
          \A t \in Tabs : held'[t] = slotReg[s] => pay'[t] = p
    BY <2>1 DEF FeeInv
  <2>3. \A p, q \in live : p # q =>
          \A s \in fees[p], w \in fees[q] : slotReg[s] # slotReg[w]
    BY DEF FeeInv
  <2>4. \A p \in Payments \ issued : ~InFlight(p)
    BY DEF FeeInv
  <2> QED
    BY <2>1, <2>2, <2>3, <2>4 DEF FeeInv, InFlight
<1>7. CreatedInv'
  BY IntentIsFor, FlowAssumption DEF CreatedInv, SlotsOf
<1>8. SubmittedInv'
  BY IntentIsFor, FlowAssumption DEF SubmittedInv, Occupied, SlotsOf
<1>9. LostInv' /\ KeptInv'
  BY DEF LostInv, KeptInv, SlotsOf
<1> QED
  BY <1>1, <1>2, <1>3, <1>4, <1>5, <1>6, <1>7, <1>8, <1>9

\* A registration is given up, with its payment: cancelled, cleaned up, expired.
GiveUp(r) ==
    /\ DeletePayments(PaymentsOn(r))
    /\ ReleaseSlots(SlotsOf(r))
    /\ Orphan({r})
    /\ UNCHANGED piVars

\* cancelRegistration, cleanupStaleRegistration and cleanUpExpired take from a
\* registration what nobody is paying for, and nothing of another's.
LEMMA GiveUpStep ==
    ASSUME Known, Known', BookingInv, TabsOnlyLeave, NEW r \in made, GiveUp(r),
           \A s \in SlotsOf(r) : status[s] # "R",
           \A p \in PaymentsOn(r) : ~InFlight(p),
           Interruptible(r)
    PROVE  BookingInv'
<1> USE FlowAssumption DEF Known, TypeOK, BookingInv, Busy, Saved, Submitted, UnderWay
<1>1. \A s \in Slots :
        IF slotReg[s] = r
        THEN status'[s] = "A" /\ slotReg'[s] = None /\ occupant'[s] = None
        ELSE status'[s] = status[s] /\ slotReg'[s] = slotReg[s]
             /\ occupant'[s] = occupant[s]
  BY DEF GiveUp, ReleaseSlots, SlotsOf
<1>2. \A q \in Regs : q # r =>
        /\ SlotsOf(q)' = SlotsOf(q)
        /\ Occupied(q)' = Occupied(q)
        /\ regUser'[q] = regUser[q]
        /\ expires'[q] = expires[q]
  BY <1>1 DEF GiveUp, Orphan, SlotsOf, Occupied
<1>3. SlotsOf(r)' = {}
  BY <1>1 DEF SlotsOf
<1>4. /\ live' = live \ PaymentsOn(r)
      /\ \A p \in live' : fees'[p] = fees[p]
      /\ UNCHANGED <<issued, code, confirmed, made, piState, piPay, piReg>>
  BY DEF GiveUp, DeletePayments, Orphan, piVars
<1>5. \A p \in live : p \in live' <=> \A s \in fees[p] : slotReg[s] # r
  BY <1>4 DEF PaymentsOn
<1>6. \A p \in live : InFlight(p) => p \in live'
  BY <1>4 DEF PaymentsOn
<1>7. \A i \in Intents : UnderWay(i) =>
        /\ piReg[i] \in made
        /\ piPay[i] \in live' => piReg[i] # r
        /\ piPay[i] \notin live' => SlotsOf(piReg[i])' = {}
  <2> SUFFICES ASSUME NEW i \in Intents, UnderWay(i)
               PROVE  /\ piReg[i] \in made
                      /\ piPay[i] \in live' => piReg[i] # r
                      /\ piPay[i] \notin live' => SlotsOf(piReg[i])' = {}
    OBVIOUS
  <2>1. piReg[i] \in made
    BY DEF LostInv
  <2>2. CASE piPay[i] \in live
    <3>1. fees[piPay[i]] # {} /\ fees[piPay[i]] \subseteq SlotsOf(piReg[i])
      BY <2>2, IntentIsFor
    <3>2. piPay[i] \in live' <=> piReg[i] # r
      BY <2>2, <3>1, <1>5 DEF SlotsOf
    <3> QED
      BY <2>1, <3>2, <1>3, <1>4 DEF SlotsOf
  <2>3. CASE piPay[i] \notin live
    <3>1. SlotsOf(piReg[i]) = {}
      BY <2>3 DEF LostInv
    <3>2. SlotsOf(piReg[i])' = {}
      BY <2>1, <3>1, <1>2, <1>3, <1>4 DEF SlotsOf
    <3> QED
      BY <2>1, <2>3, <3>2, <1>4
  <2> QED
    BY <2>2, <2>3
<1>8. \A i \in Intents : Submitted(i) /\ piPay[i] \in live => piPay[i] \in live'
  BY <1>6 DEF SubmittedInv, InFlight
<1>20. \A v \in Tabs : pay[v] \in live =>
         pay[v] \in live' <=> held[v] # r
  BY <1>5 DEF TabPayment, SlotsOf
<1>9. TabInv'
  BY <1>4, TabsLeaveTabInv
<1>10. CartInv'
  <2> SUFFICES ASSUME NEW v \in Tabs, Busy(v)'
               PROVE  SlotsOf(held[v])' = {} \/ cart'[v] = Occupied(held[v])'
    BY DEF CartInv
  <2>1. /\ held[v] = held'[v] /\ stage[v] = stage'[v] /\ cart[v] = cart'[v]
        /\ held[v] \in Regs
    BY DEF TabsOnlyLeave, TabInv
  <2>2. SlotsOf(held[v]) = {} \/ cart[v] = Occupied(held[v])
    BY <2>1 DEF CartInv
  <2>3. CASE held[v] = r
    BY <2>1, <2>3, <1>3 DEF SlotsOf
  <2>4. CASE held[v] # r
    BY <2>1, <2>2, <2>4, <1>2 DEF SlotsOf, Occupied
  <2> QED
    BY <2>3, <2>4
<1>11. TabPayment'
  <2> SUFFICES ASSUME NEW v \in Tabs, pay'[v] \in live'
               PROVE  /\ fees'[pay'[v]] # {}
                      /\ fees'[pay'[v]] \subseteq SlotsOf(held[v])'
                      /\ Saved(v)' => fees'[pay'[v]] = cart'[v]
    <3>1. \A v \in Tabs : pay'[v] \notin live' \cup {None} => SlotsOf(held[v])' = {}
      <4> SUFFICES ASSUME NEW v \in Tabs, pay'[v] \notin live' \cup {None}
                   PROVE  SlotsOf(held[v])' = {}
        OBVIOUS
      <4>1. held'[v] = held[v] /\ pay'[v] = pay[v] /\ held[v] \in Regs
        BY DEF TabsOnlyLeave, TabInv
      <4>2. held[v] # r => SlotsOf(held[v]) = {}
        BY <4>1, <1>20 DEF TabPayment
      <4> QED
        BY <4>1, <4>2, <1>2, <1>3 DEF SlotsOf
    <3> QED
      BY <3>1 DEF TabPayment
  <2>1. /\ pay[v] = pay'[v] /\ held[v] = held'[v] /\ stage[v] = stage'[v]
        /\ cart[v] = cart'[v] /\ pay[v] \in live
    BY <1>4 DEF TabsOnlyLeave
  <2>2. held[v] # r /\ held[v] \in Regs
    BY <2>1, <1>5 DEF TabPayment, TabInv, SlotsOf
  <2> QED
    BY <2>1, <2>2, <1>2, <1>4 DEF TabPayment
<1>12. TabIntent'
  <2> SUFFICES ASSUME NEW v \in Tabs, stage'[v] \in {"intent", "confirm"}
               PROVE  /\ piPay'[tabPI'[v]] = pay'[v]
                      /\ piReg'[tabPI'[v]] = held'[v]
                      /\ stage'[v] = "confirm" /\ pay'[v] \in live' =>
                           /\ code'[pay'[v]] = tabPI'[v]
                           /\ \A s \in SlotsOf(held[v])' : status'[s] # "P"
    BY DEF TabIntent
  <2>1. /\ pay[v] = pay'[v] /\ held[v] = held'[v] /\ stage[v] = stage'[v]
        /\ tabPI[v] = tabPI'[v]
    BY DEF TabsOnlyLeave
  <2>2. pay[v] \in live' => pay[v] \in live /\ held[v] # r
    BY <1>4, <1>20
  <2>3. pay[v] \in live' =>
          \A s \in SlotsOf(held[v])' : s \in SlotsOf(held[v]) /\ status'[s] = status[s]
    BY <2>1, <2>2, <1>1, FlowAssumption DEF SlotsOf, TabInv
  <2> QED
    BY <2>1, <2>2, <2>3, <1>4 DEF TabIntent
<1>13. ClockInv'
  BY <1>1, <1>2, <1>4 DEF ClockInv
<1>14. FeeInv'
  <2>1. \A p \in live', s \in Slots : s \in fees[p] =>
          /\ slotReg'[s] = slotReg[s] /\ slotReg[s] \in Regs
          /\ expires'[slotReg[s]] = expires[slotReg[s]]
    BY <1>1, <1>2, <1>4, <1>5 DEF FeeInv
  <2>2. \A p \in live', s \in Slots : s \in fees[p] =>
          \A v \in Tabs : held'[v] = slotReg[s] => pay'[v] = p
    BY <2>1, <1>4 DEF FeeInv, TabsOnlyLeave
  <2>3. \A p, q \in live' : p # q =>
          \A s \in fees[p], w \in fees[q] : slotReg'[s] # slotReg'[w]
    BY <2>1, <1>4 DEF FeeInv
  <2> QED
    BY <2>1, <2>2, <2>3, <1>4 DEF FeeInv, InFlight
<1>15. CodeInv'
  BY <1>4, <1>6 DEF CodeInv, InFlight
<1>16. CreatedInv'
  <2> SUFFICES ASSUME NEW i \in Intents, piState[i] = "created", piPay[i] \in live'
               PROVE  /\ fees[piPay[i]] # {}
                      /\ fees[piPay[i]] \subseteq SlotsOf(piReg[i])'
                      /\ \A v \in Tabs : pay'[v] = piPay[i] \/ held'[v] = piReg[i] =>
                           stage'[v] = "intent" /\ tabPI'[v] = i
                      /\ \A j \in Intents \ {i} : UnderWay(j) =>
                           piPay[j] # piPay[i] /\ piReg[j] # piReg[i]
    BY <1>4 DEF CreatedInv, SlotsOf
  <2>1. piPay[i] \in live /\ piReg[i] # r /\ piReg[i] \in made
    BY <1>4, <1>7
  <2>2. SlotsOf(piReg[i])' = SlotsOf(piReg[i])
    BY <2>1, <1>2, <1>4 DEF SlotsOf
  <2> QED
    BY <2>1, <2>2, FlowAssumption DEF CreatedInv, TabsOnlyLeave
<1>17. SubmittedInv'
  BY <1>1, <1>2, <1>4, <1>7 DEF SubmittedInv, TabsOnlyLeave, SlotsOf
<1>18. LostInv'
  BY <1>4, <1>7 DEF LostInv, SlotsOf
<1>19. KeptInv'
  <2> SUFFICES ASSUME "window" \notin Hazards
               PROVE  /\ \A v \in Tabs : stage'[v] \in {"intent", "confirm"} =>
                           pay'[v] \in live'
                      /\ \A i \in Intents : UnderWay(i) => piPay[i] \in live'
    BY <1>4 DEF KeptInv
  <2>1. \A i \in Intents : piState[i] = "created" => piReg[i] # r
    BY DEF Interruptible, AwaitingStripe
  <2>2. \A i \in Intents : UnderWay(i) => piPay[i] \in live'
    <3> SUFFICES ASSUME NEW i \in Intents, UnderWay(i) PROVE piPay[i] \in live'
      OBVIOUS
    <3>1. piPay[i] \in live
      BY DEF KeptInv
    <3>2. CASE Submitted(i)
      BY <3>1, <3>2, <1>8
    <3>3. CASE piState[i] = "created"
      BY <3>1, <3>3, <2>1, <1>5, IntentIsFor DEF SlotsOf
    <3> QED
      BY <3>2, <3>3
  <2>3. ASSUME NEW v \in Tabs, stage'[v] \in {"intent", "confirm"}
        PROVE  pay'[v] \in live'
    <3>1. pay'[v] = pay[v] /\ held'[v] = held[v] /\ stage'[v] = stage[v]
          /\ tabPI'[v] = tabPI[v]
      BY <2>3 DEF TabsOnlyLeave
    <3>2. pay[v] \in live
      BY <2>3, <3>1 DEF KeptInv
    <3>3. CASE stage[v] = "intent"
      BY <3>1, <3>2, <3>3, <2>1, <1>20 DEF TabIntent, TabsWait
    <3>4. CASE stage[v] = "confirm"
      BY <3>1, <3>2, <3>4, <1>6 DEF TabIntent, TabsWait, InFlight
    <3> QED
      BY <2>3, <3>1, <3>3, <3>4
  <2> QED
    BY <2>2, <2>3
<1> QED
  BY <1>9, <1>10, <1>11, <1>12, <1>13, <1>14, <1>15, <1>16, <1>17, <1>18, <1>19

\* Leaving the payment page or the card form for the page before it.
LEMMA StepBackStep ==
    ASSUME Overtaken, Known, Known', BookingInv, NEW t \in Tabs,
           Back(t) \/ CardDeclined(t)
    PROVE  BookingInv'
<1> USE DEF Known, TypeOK, BookingInv, Busy, Saved, Submitted, UnderWay
<1>1. /\ stage[t] \in {"payment", "confirm"}
      /\ stage' = [stage EXCEPT ![t] = IF @ = "payment" THEN "editing" ELSE "payment"]
      /\ UNCHANGED <<mode, held, pay, cart, tabPI>>
      /\ UNCHANGED <<slotVars, regVars, payVars, piVars>>
  BY DEF Back, CardDeclined, MoveTab, Overtaken, piVars
<1> USE <1>1 DEF slotVars, regVars, payVars, piVars
<1>2. TabInv'
  BY DEF TabInv
<1>3. CartInv'
  BY DEF CartInv, Occupied, SlotsOf
<1>4. TabPayment'
  BY DEF TabPayment, SlotsOf
<1>5. TabIntent'
  BY DEF TabIntent, SlotsOf
<1>6. ClockInv' /\ FeeInv' /\ CodeInv'
  BY DEF ClockInv, FeeInv, CodeInv, InFlight
<1>7. CreatedInv'
  BY DEF CreatedInv, SlotsOf
<1>8. SubmittedInv'
  BY DEF SubmittedInv, Occupied, SlotsOf
<1>9. LostInv' /\ KeptInv'
  BY DEF LostInv, KeptInv, SlotsOf
<1> QED
  BY <1>2, <1>3, <1>4, <1>5, <1>6, <1>7, <1>8, <1>9

\* createAndReserve claims free slots for a registration id never used before.
LEMMA ReserveClaimStep ==
    ASSUME Known, Known', BookingInv, NEW t \in Tabs, ReserveClaim(t)
    PROVE  BookingInv'
<1> USE FlowAssumption DEF Known, TypeOK, BookingInv, Busy, Saved, Submitted, UnderWay
<1>1. PICK r \in Regs \ made, own \in cart[t] :
        /\ made' = made \cup {r}
        /\ regUser' = [regUser EXCEPT ![r] = TabUser[t]]
        /\ expires' = [expires EXCEPT ![r] = "future"]
        /\ status' = [s \in Slots |-> IF s \in cart[t] THEN "P" ELSE status[s]]
        /\ slotReg' = [s \in Slots |-> IF s \in cart[t] THEN r ELSE slotReg[s]]
        /\ occupant' = [s \in Slots |->
                          IF s = own THEN TabUser[t]
                          ELSE IF s \in cart[t] THEN None ELSE occupant[s]]
        /\ LoadTab(t, "editing", "new", r, None, {own})
  BY DEF ReserveClaim
<1>2. stage[t] = "reserving" /\ held[t] = None /\ pay[t] = None
  BY DEF ReserveClaim, TabInv
<1>3. UNCHANGED <<payVars, piVars>>
  BY DEF ReserveClaim
<1>4. \A s \in cart[t] : s \in Slots /\ status[s] = "A" /\ slotReg[s] = None
  BY DEF ReserveClaim, AllFree, AvailableIsUnheld
<1>5. /\ \A s \in Slots : slotReg[s] # r
      /\ \A v \in Tabs : held[v] # r
  BY DEF ClockInv, TabInv
<1>6. \A q \in Regs : q # r =>
        /\ SlotsOf(q)' = SlotsOf(q)
        /\ Occupied(q)' = Occupied(q)
        /\ regUser'[q] = regUser[q]
        /\ expires'[q] = expires[q]
        /\ \A s \in SlotsOf(q) : status'[s] = status[s] /\ occupant'[s] = occupant[s]
  BY <1>1, <1>4 DEF SlotsOf, Occupied
<1>7. /\ SlotsOf(r)' = cart[t]
      /\ Occupied(r)' = {own}
      /\ own \in Slots
  BY <1>1, <1>4, <1>5 DEF SlotsOf, Occupied
<1>8. \A s \in Slots : slotReg[s] # None =>
        slotReg'[s] = slotReg[s] /\ status'[s] = status[s] /\ s \notin cart[t]
  BY <1>1, <1>4
<1>9. /\ stage'[t] = "editing" /\ mode'[t] = "new" /\ held'[t] = r
      /\ pay'[t] = None /\ cart'[t] = {own}
      /\ \A v \in Tabs \ {t} :
           /\ stage'[v] = stage[v] /\ mode'[v] = mode[v] /\ held'[v] = held[v]
           /\ pay'[v] = pay[v] /\ cart'[v] = cart[v] /\ tabPI'[v] = tabPI[v]
  BY <1>1 DEF LoadTab
<1>10. TabInv'
  BY <1>1, <1>2, <1>3, <1>5, <1>9 DEF TabInv, payVars
<1>11. CartInv'
  <2>1. ASSUME NEW v \in Tabs, v # t, Busy(v)'
        PROVE  SlotsOf(held[v])' = {} \/ cart'[v] = Occupied(held[v])'
    <3>1. /\ held'[v] = held[v] /\ cart'[v] = cart[v] /\ Busy(v)
          /\ held[v] \in Regs /\ held[v] # r
      BY <2>1, <1>5, <1>9 DEF TabInv
    <3>2. SlotsOf(held[v]) = {} \/ cart[v] = Occupied(held[v])
      BY <3>1 DEF CartInv
    <3> QED
      BY <3>1, <3>2, <1>6 DEF SlotsOf, Occupied
  <2>2. cart'[t] = Occupied(held[t])'
    BY <1>7, <1>9 DEF Occupied, SlotsOf
  <2> QED
    BY <2>1, <2>2 DEF CartInv
<1>12. TabPayment'
  <2>1. \A v \in Tabs : pay'[v] # None =>
          /\ v # t /\ pay'[v] = pay[v] /\ held'[v] = held[v] /\ cart'[v] = cart[v]
          /\ stage'[v] = stage[v] /\ held[v] \in Regs /\ held[v] # r
    BY <1>5, <1>9 DEF TabInv
  <2>2. \A v \in Tabs : pay'[v] # None => SlotsOf(held[v])' = SlotsOf(held[v])
    BY <2>1, <1>6 DEF SlotsOf
  <2> QED
    BY <2>1, <2>2, <1>3 DEF TabPayment, payVars
<1>13. TabIntent'
  BY <1>3, <1>5, <1>6, <1>9 DEF TabIntent, TabInv, payVars, piVars
<1>14. ClockInv'
  BY <1>1, <1>6, <1>8 DEF ClockInv
<1>15. FeeInv'
  <2>1. UNCHANGED <<live, fees, code, issued>>
    BY <1>3 DEF payVars
  <2>2. ASSUME NEW p \in live, NEW s \in Slots, s \in fees[p]
        PROVE  /\ slotReg[s] # None /\ slotReg'[s] = slotReg[s]
               /\ InFlight(p) => expires'[slotReg[s]] = "null"
               /\ \A v \in Tabs : held'[v] = slotReg[s] => pay'[v] = p
    <3>1. /\ slotReg[s] # None
          /\ InFlight(p) => expires[slotReg[s]] = "null"
          /\ \A v \in Tabs : held[v] = slotReg[s] => pay[v] = p
      BY <2>2 DEF FeeInv
    <3>2. slotReg[s] \in Regs /\ slotReg[s] # r /\ slotReg'[s] = slotReg[s]
      BY <3>1, <1>5, <1>8
    <3>3. expires'[slotReg[s]] = expires[slotReg[s]]
      BY <3>2, <1>6
    <3>4. \A v \in Tabs : held'[v] = slotReg[s] => v # t
      BY <3>2, <1>9
    <3> QED
      BY <3>1, <3>2, <3>3, <3>4, <1>9
  <2>3. \A p, q \in live : p # q =>
          \A s \in fees[p], w \in fees[q] : slotReg'[s] # slotReg'[w]
    BY <2>2 DEF FeeInv
  <2>4. \A p \in Payments : InFlight(p)' = InFlight(p)
    BY <1>3 DEF InFlight, payVars
  <2>5. \A p \in Payments \ issued : ~InFlight(p)
    BY DEF FeeInv
  <2> QED
    BY <2>1, <2>2, <2>3, <2>4, <2>5 DEF FeeInv
<1>16. CodeInv'
  BY <1>3 DEF CodeInv, payVars, piVars
<1>17. CreatedInv'
  <2> SUFFICES ASSUME NEW i \in Intents, piState[i] = "created", piPay[i] \in live
               PROVE  /\ fees[piPay[i]] # {}
                      /\ fees[piPay[i]] \subseteq SlotsOf(piReg[i])'
                      /\ \A v \in Tabs : pay'[v] = piPay[i] \/ held'[v] = piReg[i] =>
                           stage'[v] = "intent" /\ tabPI'[v] = i
                      /\ \A j \in Intents \ {i} : UnderWay(j) =>
                           piPay[j] # piPay[i] /\ piReg[j] # piReg[i]
    BY <1>3 DEF CreatedInv, SlotsOf, payVars, piVars
  <2>1. /\ piReg[i] \in made /\ fees[piPay[i]] # {}
        /\ fees[piPay[i]] \subseteq SlotsOf(piReg[i])
    BY IntentIsFor
  <2>2. piReg[i] # r /\ SlotsOf(piReg[i])' = SlotsOf(piReg[i])
    BY <2>1, <1>3, <1>6 DEF SlotsOf, piVars
  <2>3. pay'[t] # piPay[i] /\ held'[t] # piReg[i]
    BY <2>1, <2>2, <1>9
  <2> QED
    BY <2>1, <2>2, <2>3, <1>9 DEF CreatedInv
<1>18. SubmittedInv'
  <2> SUFFICES ASSUME NEW i \in Intents, Submitted(i), piPay[i] \in live
               PROVE  /\ code[piPay[i]] = i
                      /\ fees[piPay[i]] # {}
                      /\ fees[piPay[i]] = Occupied(piReg[i])'
                      /\ \A v \in Tabs : pay'[v] # piPay[i] /\ held'[v] # piReg[i]
                      /\ \A s \in SlotsOf(piReg[i])' :
                           IF piPay[i] \in confirmed
                           THEN status'[s] = "R" /\ occupant'[s] # None
                           ELSE status'[s] = "X"
    BY <1>3 DEF SubmittedInv, Occupied, SlotsOf, payVars, piVars
  <2>1. piReg[i] \in made /\ piReg[i] # r /\ piPay[i] # None
    BY IntentIsFor
  <2>2. /\ SlotsOf(piReg[i])' = SlotsOf(piReg[i])
        /\ Occupied(piReg[i])' = Occupied(piReg[i])
    BY <2>1, <1>3, <1>6 DEF SlotsOf, Occupied, piVars
  <2>3. \A s \in SlotsOf(piReg[i]) : status'[s] = status[s] /\ occupant'[s] = occupant[s]
    BY <2>1, <1>6
  <2>4. \A v \in Tabs : pay'[v] # piPay[i] /\ held'[v] # piReg[i]
    BY <2>1, <1>9 DEF SubmittedInv
  <2> QED
    BY <2>2, <2>3, <2>4 DEF SubmittedInv
<1>19. LostInv'
  <2> SUFFICES ASSUME NEW i \in Intents, UnderWay(i)
               PROVE  /\ piPay[i] \in issued
                      /\ piReg[i] \in made'
                      /\ piPay[i] \notin live => SlotsOf(piReg[i])' = {}
    BY <1>3 DEF LostInv, SlotsOf, payVars, piVars
  <2>1. piReg[i] \in made /\ piReg[i] # r
    BY DEF LostInv
  <2>2. SlotsOf(piReg[i])' = SlotsOf(piReg[i])
    BY <2>1, <1>3, <1>6 DEF SlotsOf, piVars
  <2> QED
    BY <2>1, <2>2, <1>1 DEF LostInv
<1>20. KeptInv'
  BY <1>3, <1>9 DEF KeptInv, payVars, piVars
<1> QED
  BY <1>10, <1>11, <1>12, <1>13, <1>14, <1>15, <1>16, <1>17, <1>18, <1>19, <1>20

\* updateSlotPlayer and the tab's cart change together.
LEMMA UpdateSlotStep ==
    ASSUME Overtaken, Known, Known', BookingInv, NEW t \in Tabs,
           NEW s \in Slots, NEW u \in Users \cup {None}, UpdateSlot(t, s, u)
    PROVE  BookingInv'
<1> USE FlowAssumption DEF Known, TypeOK, BookingInv, Busy, Saved, Submitted, UnderWay
<1>1. /\ stage[t] = "editing"
      /\ slotReg[s] = held[t] /\ slotReg[s] # None
      /\ occupant' = [occupant EXCEPT ![s] = u]
      /\ cart' = [cart EXCEPT ![t] = IF u = None THEN @ \ {s} ELSE @ \cup {s}]
      /\ UNCHANGED <<status, slotReg, regVars, payVars, piVars>>
      /\ UNCHANGED <<stage, mode, held, pay, tabPI>>
  BY DEF UpdateSlot, CartWith, Overtaken
<1> USE <1>1 DEF regVars, payVars, piVars
<1>2. TabInv'
  BY DEF TabInv
<1>3. CartInv'
  <2>1. ASSUME NEW v \in Tabs, v # t, Busy(v)
        PROVE  SlotsOf(held[v])' = {} \/ cart'[v] = Occupied(held[v])'
    <3>1. cart'[v] = cart[v] /\ (SlotsOf(held[v]) = {} \/ cart[v] = Occupied(held[v]))
      BY <2>1 DEF CartInv
    <3>2. slotReg[s] # held[v]
      BY <2>1 DEF TabInv
    <3> QED
      BY <3>1, <3>2 DEF Occupied, SlotsOf
  <2>2. cart[t] = Occupied(held[t])
    BY DEF CartInv, SlotsOf
  <2>3. cart'[t] = Occupied(held[t])'
    BY <2>2 DEF Occupied, SlotsOf
  <2> QED
    BY <2>1, <2>3 DEF CartInv
<1>4. TabPayment'
  BY DEF TabPayment, SlotsOf
<1>5. TabIntent'
  BY DEF TabIntent, SlotsOf
<1>6. ClockInv' /\ FeeInv' /\ CodeInv'
  BY DEF ClockInv, FeeInv, CodeInv, InFlight
<1>7. CreatedInv'
  BY DEF CreatedInv, SlotsOf
<1>8. SubmittedInv'
  BY DEF SubmittedInv, Occupied, SlotsOf
<1>9. LostInv' /\ KeptInv'
  BY DEF LostInv, KeptInv, SlotsOf
<1> QED
  BY <1>2, <1>3, <1>4, <1>5, <1>6, <1>7, <1>8, <1>9

\* createPayment is the first payment of the tab's registration.
LEMMA CreatePaymentStep ==
    ASSUME Overtaken, Known, Known', BookingInv, NEW t \in Tabs, CreatePayment(t)
    PROVE  BookingInv'
<1> USE FlowAssumption DEF Known, TypeOK, BookingInv, Busy, Saved, Submitted, UnderWay
<1>1. PICK p \in Payments \ issued :
        /\ issued' = issued \cup {p}
        /\ live' = live \cup {p}
        /\ fees' = [fees EXCEPT ![p] = cart[t]]
        /\ pay' = [pay EXCEPT ![t] = p]
  BY DEF CreatePayment
<1>2. /\ stage[t] = "editing" /\ cart[t] # {} /\ pay[t] = None
      /\ cart[t] \subseteq SlotsOf(held[t])
      /\ stage' = [stage EXCEPT ![t] = "payment"]
      /\ UNCHANGED <<slotVars, regVars, code, confirmed, piVars, mode, held, cart, tabPI>>
  BY DEF CreatePayment, Overtaken, SlotsOf
<1>3. /\ p \notin live /\ ~InFlight(p)
      /\ \A v \in Tabs : pay[v] # p
      /\ held[t] \in made
  BY <1>2 DEF FeeInv, TabInv
<1>4. \A q \in live : fees'[q] = fees[q] /\ fees[q] \cap SlotsOf(held[t]) = {}
  BY <1>1, <1>2, <1>3 DEF FeeInv, SlotsOf
<1>5. fees'[p] = cart[t]
  BY <1>1
<1> USE <1>2 DEF slotVars, regVars, piVars
<1>6. TabInv'
  BY <1>1, <1>3 DEF TabInv
<1>7. CartInv'
  BY DEF CartInv, Occupied, SlotsOf
<1>8. TabPayment'
  BY <1>1, <1>3, <1>4, <1>5 DEF TabPayment, SlotsOf
<1>9. TabIntent'
  BY <1>1, <1>3 DEF TabIntent, SlotsOf
<1>10. ClockInv' /\ CodeInv'
  BY <1>1 DEF ClockInv, CodeInv
<1>11. FeeInv'
  <2>1. \A q \in live', s \in Slots : s \in fees'[q] =>
          /\ slotReg[s] # None
          /\ InFlight(q) => expires[slotReg[s]] = "null"
          /\ \A v \in Tabs : held[v] = slotReg[s] => pay'[v] = q
    <3> TAKE q \in live', s \in Slots
    <3>1. CASE q = p
      BY <3>1, <1>1, <1>3, <1>5 DEF TabInv, SlotsOf
    <3>2. CASE q # p
      <4>1. q \in live
        BY <3>2, <1>1
      <4> HAVE s \in fees'[q]
      <4>2. s \in fees[q]
        BY <4>1, <1>4
      <4>3. held[t] # slotReg[s]
        BY <4>1, <4>2 DEF FeeInv
      <4> QED
        BY <4>1, <4>2, <4>3, <1>1 DEF FeeInv
    <3> QED
      BY <3>1, <3>2
  <2>2. \A q, w \in live' : q # w =>
          \A a \in fees'[q], b \in fees'[w] : slotReg[a] # slotReg[b]
    BY <1>1, <1>2, <1>4, <1>5 DEF FeeInv, SlotsOf
  <2>3. \A q \in Payments \ issued' : ~InFlight(q)
    BY <1>1 DEF FeeInv
  <2> QED
    BY <2>1, <2>2, <2>3 DEF FeeInv, InFlight
<1>15. \A i \in Intents : UnderWay(i) => piPay[i] # p
  BY <1>1 DEF LostInv
<1>12. CreatedInv'
  BY <1>1, <1>3, <1>4, <1>15 DEF CreatedInv, SlotsOf
<1>13. SubmittedInv'
  BY <1>1, <1>3, <1>4, <1>15 DEF SubmittedInv, Occupied, SlotsOf
<1>14. LostInv' /\ KeptInv'
  BY <1>1 DEF LostInv, KeptInv, SlotsOf
<1> QED
  BY <1>6, <1>7, <1>8, <1>9, <1>10, <1>11, <1>12, <1>13, <1>14

\* updatePayment replaces the fees of a payment nobody else uses.
LEMMA UpdatePaymentStep ==
    ASSUME Overtaken, Known, Known', BookingInv, NEW t \in Tabs, UpdatePayment(t)
    PROVE  BookingInv'
<1> USE FlowAssumption DEF Known, TypeOK, BookingInv, Busy, Saved, Submitted, UnderWay
<1> DEFINE p == pay[t]
<1>1. /\ stage[t] = "editing" /\ cart[t] # {} /\ p \in live
      /\ cart[t] \subseteq SlotsOf(held[t])
      /\ fees' = [fees EXCEPT ![p] = cart[t]]
      /\ stage' = [stage EXCEPT ![t] = "payment"]
      /\ UNCHANGED <<slotVars, regVars, issued, live, code, confirmed, piVars>>
      /\ UNCHANGED <<mode, held, pay, cart, tabPI>>
  BY DEF UpdatePayment, MoveTab, Overtaken, SlotsOf
<1>2. /\ fees[p] # {} /\ fees[p] \subseteq SlotsOf(held[t])
      /\ InFlight(p) => expires[held[t]] = "null"
  BY <1>1 DEF TabPayment, FeeInv, SlotsOf
<1>3. /\ fees'[p] = cart[t]
      /\ \A q \in live \ {p} : fees'[q] = fees[q] /\ fees[q] \cap SlotsOf(held[t]) = {}
  BY <1>1 DEF FeeInv, SlotsOf
<1>4. held[t] \in made /\ p # None /\ \A v \in Tabs \ {t} : pay[v] # p /\ held[v] # held[t]
  BY <1>1 DEF TabInv
<1>5. \A i \in Intents : UnderWay(i) => piPay[i] # p /\ piReg[i] # held[t]
  BY <1>1, UnderWayElsewhere
<1> USE <1>1 DEF slotVars, regVars, piVars
<1>6. TabInv'
  BY DEF TabInv
<1>7. CartInv'
  BY DEF CartInv, Occupied, SlotsOf
<1>8. TabPayment'
  BY <1>3, <1>4 DEF TabPayment, SlotsOf
<1>9. TabIntent'
  BY DEF TabIntent, SlotsOf
<1>10. ClockInv' /\ CodeInv'
  BY DEF ClockInv, CodeInv
<1>11. FeeInv'
  <2>1. \A q \in live, s \in Slots : s \in fees'[q] =>
          /\ slotReg[s] # None
          /\ InFlight(q) => expires[slotReg[s]] = "null"
          /\ \A v \in Tabs : held[v] = slotReg[s] => pay[v] = q
    <3> TAKE q \in live, s \in Slots
    <3>1. CASE q = p
      BY <3>1, <1>2, <1>3, <1>4 DEF SlotsOf
    <3>2. CASE q # p
      BY <3>2, <1>3 DEF FeeInv
    <3> QED
      BY <3>1, <3>2
  <2>2. \A q, w \in live : q # w =>
          \A a \in fees'[q], b \in fees'[w] : slotReg[a] # slotReg[b]
    BY <1>3 DEF FeeInv, SlotsOf
  <2> QED
    BY <2>1, <2>2 DEF FeeInv, InFlight
<1>12. CreatedInv'
  BY <1>3, <1>5 DEF CreatedInv, SlotsOf
<1>13. SubmittedInv'
  BY <1>3, <1>5 DEF SubmittedInv, Occupied, SlotsOf
<1>14. LostInv' /\ KeptInv'
  BY DEF LostInv, KeptInv, SlotsOf
<1> QED
  BY <1>6, <1>7, <1>8, <1>9, <1>10, <1>11, <1>12, <1>13, <1>14

\* createPaymentIntent asks Stripe while no charge of the payment is under way.
LEMMA CreateIntentStep ==
    ASSUME Known, Known', BookingInv, NEW t \in Tabs, CreateIntent(t)
    PROVE  BookingInv'
<1> USE FlowAssumption DEF Known, TypeOK, BookingInv, Busy, Saved, Submitted, UnderWay
<1>1. PICK i \in Intents :
        /\ piState[i] = "unused"
        /\ piState' = [piState EXCEPT ![i] = "created"]
        /\ piPay' = [piPay EXCEPT ![i] = pay[t]]
        /\ piReg' = [piReg EXCEPT ![i] = held[t]]
        /\ tabPI' = [tabPI EXCEPT ![t] = i]
  BY DEF CreateIntent
<1>2. /\ stage[t] = "payment" /\ pay[t] \in live
      /\ stage' = [stage EXCEPT ![t] = "intent"]
      /\ UNCHANGED <<slotVars, regVars, payVars, mode, held, pay, cart>>
  BY DEF CreateIntent
<1>3. /\ fees[pay[t]] # {} /\ fees[pay[t]] \subseteq SlotsOf(held[t])
      /\ held[t] \in made /\ pay[t] # None
      /\ \A v \in Tabs \ {t} : pay[v] # pay[t] /\ held[v] # held[t]
  BY <1>2 DEF TabPayment, TabInv
<1>4. \A j \in Intents : UnderWay(j) => j # i /\ piPay[j] # pay[t] /\ piReg[j] # held[t]
  BY <1>1, <1>2, UnderWayElsewhere
<1>5. \A j \in Intents : j # i =>
        piState'[j] = piState[j] /\ piPay'[j] = piPay[j] /\ piReg'[j] = piReg[j]
  BY <1>1
<1>6. piState'[i] = "created" /\ piPay'[i] = pay[t] /\ piReg'[i] = held[t]
  BY <1>1
<1> USE <1>2 DEF slotVars, regVars, payVars
<1>7. TabInv'
  BY DEF TabInv
<1>8. CartInv'
  BY DEF CartInv, Occupied, SlotsOf
<1>9. TabPayment'
  BY DEF TabPayment, SlotsOf
<1>10. TabIntent'
  BY <1>1, <1>5, <1>6 DEF TabIntent, TabsWait, SlotsOf
<1>11. ClockInv' /\ FeeInv'
  BY DEF ClockInv, FeeInv, InFlight
<1>12. CodeInv'
  BY <1>1, <1>5 DEF CodeInv
<1>13. CreatedInv'
  <2> SUFFICES ASSUME NEW j \in Intents, piState'[j] = "created", piPay'[j] \in live
               PROVE  /\ fees[piPay'[j]] # {}
                      /\ fees[piPay'[j]] \subseteq SlotsOf(piReg'[j])
                      /\ \A v \in Tabs : pay[v] = piPay'[j] \/ held[v] = piReg'[j] =>
                           stage'[v] = "intent" /\ tabPI'[v] = j
                      /\ \A k \in Intents \ {j} : UnderWay(k)' =>
                           piPay'[k] # piPay'[j] /\ piReg'[k] # piReg'[j]
    BY DEF CreatedInv, SlotsOf
  <2>1. CASE j = i
    BY <2>1, <1>1, <1>2, <1>3, <1>4, <1>5, <1>6
  <2>2. CASE j # i
    BY <2>2, <1>1, <1>2, <1>4, <1>5, <1>6 DEF CreatedInv
  <2> QED
    BY <2>1, <2>2
<1>14. SubmittedInv'
  BY <1>1, <1>5, <1>6 DEF SubmittedInv, Occupied, SlotsOf
<1>15. LostInv'
  BY <1>2, <1>3, <1>5, <1>6 DEF LostInv, SlotsOf
<1>16. KeptInv'
  BY <1>1, <1>2, <1>5, <1>6 DEF KeptInv
<1> QED
  BY <1>7, <1>8, <1>9, <1>10, <1>11, <1>12, <1>13, <1>14, <1>15, <1>16

\* updatePaymentIntent and paymentProcessing stop the clock when they attach the code.
LEMMA StoreIntentStep ==
    ASSUME Known, Known', BookingInv, NEW i \in Intents, StoreIntent(i)
    PROVE  BookingInv'
<1> USE FlowAssumption DEF Known, TypeOK, BookingInv, Busy, Saved, Submitted, UnderWay
<1> DEFINE r == piReg[i]
           p == piPay[i]
           P == {s \in Slots : slotReg[s] = r /\ status[s] = "P"}
<1>1. /\ piState[i] = "created"
      /\ piState' = [piState EXCEPT ![i] = "open"]
      /\ code' = [q \in Payments |-> IF q \in Recipients(i) THEN i ELSE code[q]]
      /\ status' = [s \in Slots |-> IF s \in P THEN "X" ELSE status[s]]
      /\ expires' = IF P = {} THEN expires ELSE [expires EXCEPT ![r] = "null"]
      /\ stage' = [t \in Tabs |-> IF t \in Waiting(i) THEN "confirm" ELSE stage[t]]
      /\ UNCHANGED <<slotReg, occupant, made, regUser, issued, live, confirmed>>
      /\ UNCHANGED <<fees, piPay, piReg, mode, held, pay, cart, tabPI>>
  BY DEF StoreIntent, PaymentProcessing
<1>0. /\ UNCHANGED <<slotReg, occupant, live, confirmed, fees, piPay, piReg>>
      /\ UNCHANGED <<held, pay, tabPI>>
  BY <1>1
<1>2. /\ r \in made /\ p \in issued
      /\ p \in live => fees[p] # {} /\ fees[p] \subseteq SlotsOf(r)
      /\ p \notin live => SlotsOf(r) = {}
  BY <1>1, IntentIsFor DEF LostInv
<1>3. \A q \in Payments :
        code'[q] = IF q = p /\ p \in live THEN i ELSE code[q]
  BY <1>1 DEF Recipients
<1>4. \A t \in Tabs : t \in Waiting(i) =>
        /\ stage[t] = "intent" /\ stage'[t] = "confirm"
        /\ tabPI[t] = i /\ pay[t] = p /\ held[t] = r
  BY <1>1 DEF Waiting, TabIntent
<1>5. \A t \in Tabs : t \notin Waiting(i) =>
        stage'[t] = stage[t] /\ (p \in live => pay[t] # p /\ held[t] # r)
  BY <1>1 DEF Waiting, CreatedInv
<1>6. p \notin confirmed
  BY <1>1 DEF CodeInv, CreatedInv
<1>7. p \in live =>
        \A j \in Intents : j # i /\ UnderWay(j) => piPay[j] # p /\ piReg[j] # r
  BY <1>1 DEF CreatedInv
<1>8. /\ p \in live => expires'[r] = "null"
      /\ \A q \in Regs : q # r \/ p \notin live => expires'[q] = expires[q]
  <2>1. CASE P = {}
    BY <1>1, <1>2, <2>1 DEF ClockInv, SlotsOf
  <2>2. CASE P # {}
    BY <1>1, <1>2, <2>2 DEF SlotsOf
  <2> QED
    BY <2>1, <2>2
<1>9. /\ \A s \in SlotsOf(r) : status'[s] # "P"
      /\ \A s \in Slots : slotReg[s] # r \/ p \notin live => status'[s] = status[s]
  BY <1>1, <1>2 DEF SlotsOf
<1>10. TabInv'
  BY <1>1, <1>4, <1>5 DEF TabInv
<1>11. CartInv'
  BY <1>1, <1>4, <1>5 DEF CartInv, Occupied, SlotsOf
<1>12. TabPayment'
  BY <1>1, <1>4, <1>5 DEF TabPayment, SlotsOf
<1>13. TabIntent'
  <2> SUFFICES ASSUME NEW t \in Tabs, stage'[t] \in {"intent", "confirm"}
               PROVE  /\ piPay[tabPI[t]] = pay[t]
                      /\ piReg[tabPI[t]] = held[t]
                      /\ stage'[t] = "confirm" /\ pay[t] \in live =>
                           /\ code'[pay[t]] = tabPI[t]
                           /\ \A s \in SlotsOf(held[t]) : status'[s] # "P"
    BY <1>0 DEF TabIntent, SlotsOf
  <2>1. CASE t \in Waiting(i)
    BY <2>1, <1>2, <1>3, <1>4, <1>9
  <2>2. CASE t \notin Waiting(i)
    BY <2>2, <1>3, <1>5, <1>9 DEF TabIntent, SlotsOf
  <2> QED
    BY <2>1, <2>2
<1>14. ClockInv'
  BY <1>1, <1>2, <1>8, <1>9 DEF ClockInv, SlotsOf
<1>15. FeeInv'
  <2>1. \A q \in live, s \in Slots : s \in fees[q] =>
          /\ slotReg[s] # None
          /\ InFlight(q)' => expires'[slotReg[s]] = "null"
          /\ \A t \in Tabs : held[t] = slotReg[s] => pay[t] = q
    <3> TAKE q \in live, s \in Slots
    <3>1. CASE q = p
      BY <3>1, <1>2, <1>8 DEF FeeInv, SlotsOf
    <3>2. CASE q # p
      BY <3>2, <1>1, <1>3, <1>8 DEF FeeInv, InFlight
    <3> QED
      BY <3>1, <3>2
  <2>2. \A q \in Payments \ issued : ~InFlight(q)'
    BY <1>1, <1>2, <1>3 DEF FeeInv, InFlight
  <2> QED
    BY <1>1, <2>1, <2>2 DEF FeeInv, InFlight
<1>16. CodeInv'
  BY <1>1, <1>3, <1>6 DEF CodeInv
<1>17. CreatedInv'
  <2> SUFFICES ASSUME NEW j \in Intents, piState'[j] = "created", piPay[j] \in live
               PROVE  /\ fees[piPay[j]] # {}
                      /\ fees[piPay[j]] \subseteq SlotsOf(piReg[j])
                      /\ \A t \in Tabs : pay[t] = piPay[j] \/ held[t] = piReg[j] =>
                           stage'[t] = "intent" /\ tabPI[t] = j
                      /\ \A k \in Intents \ {j} : UnderWay(k)' =>
                           piPay[k] # piPay[j] /\ piReg[k] # piReg[j]
    BY <1>1 DEF CreatedInv, SlotsOf
  <2>1. j # i /\ piState[j] = "created"
    BY <1>1
  <2>2. \A k \in Intents \ {j} : UnderWay(k)' => UnderWay(k)
    BY <1>1
  <2> QED
    BY <2>1, <2>2, <1>4, <1>5, <1>7 DEF CreatedInv
<1>18. SubmittedInv'
  <2> SUFFICES ASSUME NEW j \in Intents, Submitted(j)', piPay[j] \in live
               PROVE  /\ code'[piPay[j]] = j
                      /\ fees[piPay[j]] # {}
                      /\ fees[piPay[j]] = Occupied(piReg[j])
                      /\ \A t \in Tabs : pay[t] # piPay[j] /\ held[t] # piReg[j]
                      /\ \A s \in SlotsOf(piReg[j]) :
                           IF piPay[j] \in confirmed
                           THEN status'[s] = "R" /\ occupant[s] # None
                           ELSE status'[s] = "X"
    BY <1>0 DEF SubmittedInv, Occupied, SlotsOf
  <2>1. j # i /\ Submitted(j)
    BY <1>1
  <2> QED
    BY <2>1, <1>3, <1>7, <1>9 DEF SubmittedInv, SlotsOf
<1>19. LostInv'
  BY <1>1 DEF LostInv, SlotsOf
<1>20. KeptInv'
  BY <1>1, <1>4, <1>5 DEF KeptInv
<1> QED
  BY <1>10, <1>11, <1>12, <1>13, <1>14, <1>15, <1>16, <1>17, <1>18, <1>19, <1>20

\* A failed Stripe call leaves the payment as it was.
LEMMA AbortIntentStep ==
    ASSUME Known, Known', BookingInv, NEW i \in Intents, AbortIntent(i)
    PROVE  BookingInv'
<1> USE FlowAssumption DEF Known, TypeOK, BookingInv, Busy, Saved, Submitted, UnderWay
<1>1. /\ piState[i] = "created"
      /\ piState' = [piState EXCEPT ![i] = "failed"]
      /\ stage' = [t \in Tabs |-> IF t \in Waiting(i) THEN "payment" ELSE stage[t]]
      /\ UNCHANGED <<slotVars, regVars, payVars, piPay, piReg>>
      /\ UNCHANGED <<mode, held, pay, cart, tabPI>>
  BY DEF AbortIntent
<1>2. \A t \in Tabs :
        IF t \in Waiting(i)
        THEN stage[t] = "intent" /\ stage'[t] = "payment" /\ tabPI[t] = i
        ELSE stage'[t] = stage[t]
  BY <1>1 DEF Waiting
<1> USE <1>1 DEF slotVars, regVars, payVars
<1>3. TabInv'
  BY <1>2 DEF TabInv
<1>4. CartInv'
  BY <1>2 DEF CartInv, Occupied, SlotsOf
<1>5. TabPayment'
  BY <1>2 DEF TabPayment, SlotsOf
<1>6. TabIntent'
  BY <1>2 DEF TabIntent, SlotsOf
<1>7. ClockInv' /\ FeeInv'
  BY DEF ClockInv, FeeInv, InFlight
<1>8. CodeInv'
  BY DEF CodeInv
<1>9. CreatedInv'
  BY <1>2 DEF CreatedInv, SlotsOf
<1>10. SubmittedInv'
  BY DEF SubmittedInv, Occupied, SlotsOf
<1>11. LostInv' /\ KeptInv'
  BY <1>2 DEF LostInv, KeptInv, SlotsOf
<1> QED
  BY <1>3, <1>4, <1>5, <1>6, <1>7, <1>8, <1>9, <1>10, <1>11

\* confirmPayment redirects: what is charged is what is occupied, and no tab is left
\* that could change it.
LEMMA CardSubmittedStep ==
    ASSUME Known, Known', BookingInv, NEW t \in Tabs, CardSubmitted(t)
    PROVE  BookingInv'
<1> USE FlowAssumption DEF Known, TypeOK, BookingInv, Busy, Saved, Submitted, UnderWay
<1> DEFINE i == tabPI[t]
<1>1. /\ stage[t] = "confirm"
      /\ piState' = [piState EXCEPT ![i] = "submitted"]
      /\ UNCHANGED <<slotVars, regVars, payVars, piPay, piReg>>
  BY DEF CardSubmitted
<1>2. /\ stage'[t] = "idle" /\ mode'[t] = "new" /\ held'[t] = None /\ pay'[t] = None
      /\ \A v \in Tabs \ {t} :
           /\ stage'[v] = stage[v] /\ mode'[v] = mode[v] /\ held'[v] = held[v]
           /\ pay'[v] = pay[v] /\ cart'[v] = cart[v] /\ tabPI'[v] = tabPI[v]
  BY DEF CardSubmitted, ResetTab
<1>3. /\ i \in Intents /\ piState[i] = "open"
      /\ piPay[i] = pay[t] /\ piReg[i] = held[t] /\ held[t] \in made
      /\ pay[t] # None /\ pay[t] \in issued
      /\ \A v \in Tabs \ {t} : pay[v] # pay[t] /\ held[v] # held[t]
      /\ \A v \in Tabs \ {t} : stage[v] \in {"intent", "confirm"} => tabPI[v] # i
  BY <1>1 DEF TabsWait, TabIntent, TabInv
<1>4. pay[t] \in live =>
        code[pay[t]] = i /\ fees[pay[t]] # {} /\ fees[pay[t]] = Occupied(held[t])
  BY <1>1, <1>3 DEF TabIntent, TabPayment, CartInv
<1>5. pay[t] \in live => pay[t] \notin confirmed
  BY <1>3, <1>4 DEF CodeInv
<1>6. \A j \in Intents : UnderWay(j) =>
        j # i /\ (pay[t] \in live => piPay[j] # pay[t] /\ piReg[j] # held[t])
  BY <1>1, <1>3, UnderWayElsewhere
<1>7. pay[t] \in live => \A s \in SlotsOf(held[t]) : status[s] = "X"
  <2> SUFFICES ASSUME pay[t] \in live, NEW s \in Slots, slotReg[s] = held[t]
               PROVE  status[s] = "X"
    BY DEF SlotsOf
  <2>1. status[s] # "P"
    BY <1>1 DEF TabIntent, SlotsOf
  <2>2. status[s] # "A"
    BY <1>3 DEF AvailableIsUnheld
  <2>3. status[s] # "R"
    BY <1>6 DEF ReservedWasCaptured
  <2> QED
    BY <2>1, <2>2, <2>3
<1>8. \A j \in Intents : j # i => piState'[j] = piState[j]
  BY <1>1
<1> HIDE DEF i
<1> USE <1>1 DEF slotVars, regVars, payVars
<1>9. TabInv'
  BY <1>2 DEF TabInv
<1>10. CartInv'
  <2> SUFFICES ASSUME NEW v \in Tabs, Busy(v)'
               PROVE  SlotsOf(held[v])' = {} \/ cart'[v] = Occupied(held[v])'
    BY DEF CartInv
  <2>1. v # t /\ Busy(v) /\ held'[v] = held[v] /\ cart'[v] = cart[v]
    BY <1>2
  <2>2. SlotsOf(held[v]) = {} \/ cart[v] = Occupied(held[v])
    BY <2>1 DEF CartInv
  <2> QED
    BY <2>1, <2>2 DEF Occupied, SlotsOf
<1>11. TabPayment'
  BY <1>2 DEF TabPayment, SlotsOf
<1>12. TabIntent'
  BY <1>2 DEF TabIntent, SlotsOf
<1>13. ClockInv'
  BY DEF ClockInv
<1>14. FeeInv'
  BY <1>2 DEF FeeInv, InFlight
<1>15. CodeInv'
  BY <1>3, <1>8 DEF CodeInv
<1>16. CreatedInv'
  <2> SUFFICES ASSUME NEW j \in Intents, piState'[j] = "created", piPay[j] \in live
               PROVE  /\ fees[piPay[j]] # {}
                      /\ fees[piPay[j]] \subseteq SlotsOf(piReg[j])
                      /\ \A v \in Tabs : pay'[v] = piPay[j] \/ held'[v] = piReg[j] =>
                           stage'[v] = "intent" /\ tabPI'[v] = j
                      /\ \A k \in Intents \ {j} : UnderWay(k)' =>
                           piPay[k] # piPay[j] /\ piReg[k] # piReg[j]
    BY DEF CreatedInv, SlotsOf
  <2>1. j # i /\ piState[j] = "created"
    BY <1>3, <1>8
  <2>2. piReg[j] \in made
    BY <2>1, IntentIsFor
  <2>3. piPay[i] # piPay[j] /\ piReg[i] # piReg[j]
    BY <2>1, <2>2, <1>1, <1>3, <1>6 DEF CreatedInv
  <2>4. \A k \in Intents \ {j} : UnderWay(k)' =>
          piPay[k] # piPay[j] /\ piReg[k] # piReg[j]
    BY <2>1, <2>3, <1>8 DEF CreatedInv
  <2> QED
    BY <2>1, <2>2, <2>4, <1>2 DEF CreatedInv
<1>17. SubmittedInv'
  <2> SUFFICES ASSUME NEW j \in Intents, Submitted(j)', piPay[j] \in live
               PROVE  /\ code[piPay[j]] = j
                      /\ fees[piPay[j]] # {}
                      /\ fees[piPay[j]] = Occupied(piReg[j])
                      /\ \A v \in Tabs : pay'[v] # piPay[j] /\ held'[v] # piReg[j]
                      /\ \A s \in SlotsOf(piReg[j]) :
                           IF piPay[j] \in confirmed
                           THEN status[s] = "R" /\ occupant[s] # None
                           ELSE status[s] = "X"
    BY DEF SubmittedInv, Occupied, SlotsOf
  <2>1. CASE j = i
    BY <2>1, <1>2, <1>3, <1>4, <1>5, <1>7
  <2>2. CASE j # i
    <3>1. Submitted(j)
      BY <2>2, <1>8
    <3>2. piReg[j] \in made
      BY <3>1, IntentIsFor
    <3> QED
      BY <3>1, <3>2, <1>2 DEF SubmittedInv
  <2> QED
    BY <2>1, <2>2
<1>18. LostInv'
  BY <1>1, <1>3, <1>8 DEF LostInv, TabPayment, SlotsOf
<1>19. KeptInv'
  BY <1>1, <1>2, <1>3, <1>8 DEF KeptInv
<1> QED
  BY <1>9, <1>10, <1>11, <1>12, <1>13, <1>14, <1>15, <1>16, <1>17, <1>18, <1>19

\* Stripe's outcome changes nothing on our side.
LEMMA CaptureStep ==
    ASSUME Known, Known', BookingInv, NEW i \in Intents, Capture(i)
    PROVE  BookingInv'
<1> USE FlowAssumption DEF Known, TypeOK, BookingInv, Busy, Saved, Submitted, UnderWay
<1>1. /\ piState[i] = "submitted"
      /\ piState'[i] \in {"captured", "failed"}
      /\ \A j \in Intents : j # i => piState'[j] = piState[j]
      /\ UNCHANGED <<slotVars, regVars, payVars, piPay, piReg, tabVars>>
  BY DEF Capture
<1> USE <1>1 DEF slotVars, regVars, payVars, tabVars
<1>2. TabInv' /\ CartInv' /\ TabPayment'
  BY DEF TabInv, CartInv, TabPayment, Occupied, SlotsOf
<1>3. TabIntent'
  BY DEF TabIntent, SlotsOf
<1>4. ClockInv' /\ FeeInv'
  BY DEF ClockInv, FeeInv, InFlight
<1>5. CodeInv'
  BY DEF CodeInv
<1>6. CreatedInv'
  BY DEF CreatedInv, SlotsOf
<1>7. SubmittedInv'
  BY DEF SubmittedInv, Occupied, SlotsOf
<1>8. LostInv' /\ KeptInv'
  BY DEF LostInv, KeptInv, SlotsOf
<1> QED
  BY <1>2, <1>3, <1>4, <1>5, <1>6, <1>7, <1>8

\* A clock that runs out belongs to a registration without a payment in flight.
LEMMA ExpireStep ==
    ASSUME Known, Known', BookingInv, NEW r \in Regs, Expire(r)
    PROVE  BookingInv'
<1> USE FlowAssumption DEF Known, TypeOK, BookingInv, Busy, Saved, Submitted, UnderWay
<1>1. /\ expires[r] = "future"
      /\ expires' = [expires EXCEPT ![r] = "past"]
      /\ UNCHANGED <<slotVars, made, regUser, payVars, piVars, tabVars>>
  BY DEF Expire
<1> USE <1>1 DEF slotVars, payVars, piVars, tabVars
<1>2. TabInv'
  BY DEF TabInv
<1>8. CartInv'
  BY DEF CartInv, Occupied, SlotsOf
<1>6. TabPayment' /\ TabIntent'
  BY DEF TabPayment, TabIntent, SlotsOf
<1>3. ClockInv' /\ CodeInv'
  BY DEF ClockInv, CodeInv
<1>4. FeeInv'
  BY DEF FeeInv, ClockInv, InFlight
<1>5. CreatedInv' /\ SubmittedInv'
  BY DEF CreatedInv, SubmittedInv, Occupied, SlotsOf
<1>7. LostInv' /\ KeptInv'
  BY DEF LostInv, KeptInv, SlotsOf
<1> QED
  BY <1>2, <1>3, <1>4, <1>5, <1>6, <1>7, <1>8

\* paymentConfirmed seats what was charged and frees only slots without fees.
LEMMA PaymentSucceededStep ==
    ASSUME Known, Known', BookingInv, NEW i \in Intents, PaymentSucceeded(i)
    PROVE  BookingInv'
<1> USE FlowAssumption DEF Known, TypeOK, BookingInv, Busy, Saved, Submitted, UnderWay
<1> DEFINE r == piReg[i]
           p == piPay[i]
           empty == {s \in SlotsOf(r) : occupant[s] = None /\ status[s] # "R"}
<1>1. /\ piState[i] = "captured"
      /\ status' = [s \in Slots |-> IF s \in Seated(r) THEN "R"
                                    ELSE IF s \in empty THEN "A" ELSE status[s]]
      /\ slotReg' = [s \in Slots |-> IF s \in empty THEN None ELSE slotReg[s]]
      /\ UNCHANGED <<occupant, regVars, issued, live, code, fees, piVars, tabVars>>
  BY DEF PaymentSucceeded, Delivered
<1>2. PICK q \in live \ confirmed : code[q] = i /\ confirmed' = confirmed \cup {q}
  BY DEF PaymentSucceeded, Payable
<1>3. /\ q = p /\ p \in live /\ p \notin confirmed /\ confirmed' = confirmed \cup {p}
      /\ code[p] = i
  BY <1>2 DEF CodeInv
<1>4. /\ r \in made /\ fees[p] # {} /\ fees[p] = Occupied(r)
      /\ \A t \in Tabs : pay[t] # p /\ held[t] # r
      /\ \A s \in SlotsOf(r) : status[s] = "X"
  BY <1>1, <1>3, IntentIsFor DEF SubmittedInv
<1>5. \A s \in Slots :
        IF slotReg[s] # r THEN slotReg'[s] = slotReg[s] /\ status'[s] = status[s]
        ELSE IF occupant[s] = None THEN slotReg'[s] = None /\ status'[s] = "A"
        ELSE slotReg'[s] = r /\ status'[s] = "R"
  BY <1>1, <1>4 DEF Seated, SlotsOf
<1>6. /\ UNCHANGED <<occupant, made, regUser, expires, issued, live, code, fees>>
      /\ UNCHANGED <<piState, piPay, piReg, stage, mode, held, pay, cart, tabPI>>
  BY <1>1 DEF regVars, piVars, tabVars
<1>7. \A g \in Regs : g # r =>
        SlotsOf(g)' = SlotsOf(g) /\ Occupied(g)' = Occupied(g)
  BY <1>4, <1>5, <1>6 DEF SlotsOf, Occupied
<1>20. SlotsOf(r)' = Occupied(r) /\ Occupied(r)' = Occupied(r)
  <2>1. SlotsOf(r)' = {s \in Slots : slotReg'[s] = r}
    BY <1>6 DEF SlotsOf
  <2>2. \A s \in Slots : slotReg'[s] = r <=> slotReg[s] = r /\ occupant[s] # None
    BY <1>4, <1>5
  <2>3. {s \in Slots : slotReg'[s] = r} = Occupied(r)
    BY <2>2 DEF Occupied, SlotsOf
  <2>4. Occupied(r)' = {s \in SlotsOf(r)' : occupant[s] # None}
    BY <1>6 DEF Occupied
  <2> QED
    BY <2>1, <2>3, <2>4 DEF Occupied
<1>8. \A g \in live : \A s \in fees[g] : s \in Slots /\ slotReg'[s] = slotReg[s]
  <2> SUFFICES ASSUME NEW g \in live, NEW s \in fees[g]
               PROVE  s \in Slots /\ slotReg'[s] = slotReg[s]
    OBVIOUS
  <2>1. s \in Slots
    OBVIOUS
  <2>2. CASE g = p
    BY <2>1, <2>2, <1>4, <1>5 DEF Occupied, SlotsOf
  <2>3. CASE g # p
    BY <2>1, <2>3, <1>3, <1>4, <1>5 DEF FeeInv, Occupied, SlotsOf
  <2> QED
    BY <2>1, <2>2, <2>3
<1>9. \A j \in Intents : j # i /\ UnderWay(j) =>
        /\ piPay[j] # p /\ piReg[j] # r /\ piReg[j] \in made
        /\ SlotsOf(piReg[j])' = SlotsOf(piReg[j])
        /\ Occupied(piReg[j])' = Occupied(piReg[j])
  <2> SUFFICES ASSUME NEW j \in Intents, j # i, UnderWay(j)
               PROVE  /\ piPay[j] # p /\ piReg[j] # r /\ piReg[j] \in made
                      /\ SlotsOf(piReg[j])' = SlotsOf(piReg[j])
                      /\ Occupied(piReg[j])' = Occupied(piReg[j])
    OBVIOUS
  <2>1. piReg[j] \in made
    BY DEF LostInv
  <2>2. piPay[j] # p
    BY <1>1, <1>3 DEF CreatedInv, SubmittedInv
  <2>3. piReg[j] # r
    <3>1. CASE piPay[j] \in live
      BY <2>2, <3>1, <1>3, <1>4, IntentIsFor DEF FeeInv, SlotsOf, Occupied
    <3>2. CASE piPay[j] \notin live
      BY <3>2, <1>4 DEF LostInv, Occupied
    <3> QED
      BY <3>1, <3>2
  <2> QED
    BY <2>1, <2>2, <2>3, <1>6, <1>7 DEF SlotsOf, Occupied
<1>10. \A t \in Tabs : held[t] \in Regs =>
         /\ SlotsOf(held[t])' = SlotsOf(held[t])
         /\ Occupied(held[t])' = Occupied(held[t])
         /\ \A s \in SlotsOf(held[t]) : status'[s] = status[s]
  BY <1>4, <1>5, <1>6, <1>7 DEF SlotsOf, Occupied
<1> HIDE DEF r, p, empty
<1>11. TabInv'
  BY <1>6 DEF TabInv
<1>12. CartInv'
  BY <1>6, <1>10 DEF CartInv, TabInv
<1>13. TabPayment'
  BY <1>6, <1>8, <1>10 DEF TabPayment, TabInv, SlotsOf
<1>14. TabIntent'
  <2> SUFFICES ASSUME NEW t \in Tabs, stage[t] \in {"intent", "confirm"}
               PROVE  /\ piPay[tabPI[t]] = pay[t]
                      /\ piReg[tabPI[t]] = held[t]
                      /\ stage[t] = "confirm" /\ pay[t] \in live =>
                           /\ code[pay[t]] = tabPI[t]
                           /\ \A s \in SlotsOf(held[t])' : status'[s] # "P"
    BY <1>6 DEF TabIntent
  <2>1. held[t] \in Regs
    BY DEF TabInv
  <2> QED
    BY <2>1, <1>10 DEF TabIntent
<1>15. ClockInv'
  BY <1>4, <1>5, <1>6 DEF ClockInv, SlotsOf
<1>16. FeeInv'
  <2>1. \A g \in live, s \in Slots : s \in fees[g] =>
          /\ slotReg'[s] # None
          /\ InFlight(g)' => expires[slotReg'[s]] = "null"
          /\ \A t \in Tabs : held[t] = slotReg'[s] => pay[t] = g
    BY <1>3, <1>6, <1>8 DEF FeeInv, InFlight
  <2>2. \A g, w \in live : g # w =>
          \A a \in fees[g], b \in fees[w] : slotReg'[a] # slotReg'[b]
    BY <1>8 DEF FeeInv
  <2>3. \A g \in Payments \ issued : ~InFlight(g)'
    BY <1>3, <1>6 DEF FeeInv, InFlight
  <2> QED
    BY <2>1, <2>2, <2>3, <1>6 DEF FeeInv
<1>17. CodeInv'
  BY <1>1, <1>3, <1>6 DEF CodeInv
<1>18. CreatedInv'
  BY <1>1, <1>6, <1>9 DEF CreatedInv
<1>19. SubmittedInv'
  <2> SUFFICES ASSUME NEW j \in Intents, Submitted(j), piPay[j] \in live
               PROVE  /\ code[piPay[j]] = j
                      /\ fees[piPay[j]] # {}
                      /\ fees[piPay[j]] = Occupied(piReg[j])'
                      /\ \A t \in Tabs : pay[t] # piPay[j] /\ held[t] # piReg[j]
                      /\ \A s \in SlotsOf(piReg[j])' :
                           IF piPay[j] \in confirmed'
                           THEN status'[s] = "R" /\ occupant[s] # None
                           ELSE status'[s] = "X"
    BY <1>6 DEF SubmittedInv
  <2>1. CASE j = i
    BY <2>1, <1>3, <1>4, <1>5, <1>6, <1>20 DEF r, p, Occupied, SlotsOf
  <2>2. CASE j # i
    BY <2>2, <1>3, <1>5, <1>9 DEF SubmittedInv, SlotsOf
  <2> QED
    BY <2>1, <2>2
<1>21. LostInv' /\ KeptInv'
  BY <1>1, <1>3, <1>6, <1>9 DEF LostInv, KeptInv, r, p
<1> QED
  BY <1>11, <1>12, <1>13, <1>14, <1>15, <1>16, <1>17, <1>18, <1>19, <1>21

\* cleanupStaleRegistration, under its two refusals.
LEMMA ReserveCleanUpStep ==
    ASSUME Overtaken, Known, Known', BookingInv, NEW t \in Tabs,
           NEW S \in (SUBSET Slots) \ {{}}, ReserveCleanUp(t, S)
    PROVE  BookingInv'
<1>1. TabsOnlyLeave /\ UNCHANGED piVars
  BY DEF ReserveCleanUp, LoadTab, TabsOnlyLeave, Known, TypeOK
<1>2. CASE Existing(TabUser[t]) = {}
  <2>1. UNCHANGED <<slotVars, regVars, payVars>>
    BY <1>2 DEF ReserveCleanUp
  <2> QED
    BY <1>1, <2>1, TabsLeaveStep
<1>3. CASE Existing(TabUser[t]) # {}
  <2>1. PICK r \in Existing(TabUser[t]) :
          /\ \A p \in PaymentsOn(r) : ~InFlight(p)
          /\ Interruptible(r)
          /\ DeletePayments(PaymentsOn(r))
          /\ ReleaseSlots(SlotsOf(r))
          /\ Orphan({r})
    BY <1>3 DEF ReserveCleanUp, GiveUpUnpaid
  <2>2. r \in made /\ \A s \in SlotsOf(r) : status[s] # "R"
    BY DEF ReserveCleanUp, Existing, SlotsOf
  <2>3. GiveUp(r)
    BY <1>1, <2>1 DEF GiveUp
  <2> QED
    BY <1>1, <2>1, <2>2, <2>3, GiveUpStep
<1> QED
  BY <1>2, <1>3

\* cancelRegistration, under its refusal; it never meets a reserved slot.
LEMMA CancelStep ==
    ASSUME Overtaken, Known, Known', BookingInv, NEW t \in Tabs, Cancel(t)
    PROVE  BookingInv'
<1> DEFINE r == held[t]
<1>1. TabsOnlyLeave /\ UNCHANGED piVars
  BY DEF Cancel, ResetTab, TabsOnlyLeave, Known, TypeOK
<1>2. r \in made
  BY DEF Cancel, BookingInv, TabInv, Busy
<1>3. \A s \in SlotsOf(r) : status[s] # "R"
  BY DEF Known, ReservedWasCaptured, BookingInv, SubmittedInv, LostInv, Submitted,
         UnderWay, SlotsOf
<1>4. GiveUp(r) /\ Interruptible(r) /\ \A p \in PaymentsOn(r) : ~InFlight(p)
  BY <1>1 DEF Cancel, GiveUpUnpaid, GiveUp
<1> HIDE DEF r
<1> QED
  BY <1>1, <1>2, <1>3, <1>4, GiveUpStep

\* cleanUpExpired does not check, and need not: an expired registration has only
\* PENDING slots and no payment in flight.
LEMMA CleanUpExpiredStep ==
    ASSUME Overtaken, Known, Known', BookingInv, NEW r \in Regs, CleanUpExpired(r)
    PROVE  /\ BookingInv'
           /\ \A p \in PaymentsOn(r) : ~InFlight(p)
<1>1. expires[r] = "past" /\ DueSlots(r) = Pending(r) /\ Pending(r) # {}
  BY DEF CleanUpExpired, DueSlots, Expired, Overtaken
<1>2. r \in made /\ Pending(r) = SlotsOf(r)
  BY <1>1, FlowAssumption DEF BookingInv, ClockInv, Pending, SlotsOf
<1>3. \A s \in SlotsOf(r) : status[s] # "R"
  BY <1>2 DEF Pending
<1>4. \A p \in PaymentsOn(r) : ~InFlight(p)
  BY <1>1 DEF BookingInv, FeeInv, PaymentsOn, Known, TypeOK
<1>5. GiveUp(r) /\ Interruptible(r) /\ TabsOnlyLeave
  BY <1>1, <1>2 DEF CleanUpExpired, GiveUp, tabVars, TabsOnlyLeave
<1> QED
  BY <1>2, <1>3, <1>4, <1>5, GiveUpStep

\* BookingInv is inductive, whether Stripe's answer may be overtaken or not.
LEMMA BookingInvStep ==
    ASSUME Overtaken, Known, Known', BookingInv, [Next]_vars
    PROVE  BookingInv'
<1>1. ASSUME NEW t \in Tabs, TabStep(t)
      PROVE  BookingInv'
  <2>1. ASSUME NEW S \in (SUBSET Slots) \ {{}}, ReserveCleanUp(t, S)
        PROVE  BookingInv'
    BY <2>1, ReserveCleanUpStep
  <2>2. CASE ReserveClaim(t)
    BY <2>2, ReserveClaimStep
  <2>3. CASE ReserveConflict(t) \/ LoseTab(t)
    <3>1. TabsOnlyLeave
      BY <2>3 DEF ReserveConflict, LoseTab, ResetTab, TabsOnlyLeave, Known, TypeOK
    <3>2. UNCHANGED <<slotVars, regVars, payVars, piVars>>
      BY <2>3 DEF ReserveConflict, LoseTab
    <3> QED
      BY <3>1, <3>2, TabsLeaveStep
  <2>4. ASSUME NEW s \in Slots, NEW u \in Users \cup {None}, UpdateSlot(t, s, u)
        PROVE  BookingInv'
    BY <2>4, UpdateSlotStep
  <2>5. CASE CreatePayment(t)
    BY <2>5, CreatePaymentStep
  <2>6. CASE UpdatePayment(t)
    BY <2>6, UpdatePaymentStep
  <2>7. CASE Back(t) \/ CardDeclined(t)
    BY <2>7, StepBackStep
  <2>8. CASE CreateIntent(t)
    BY <2>8, CreateIntentStep
  <2>9. CASE CardSubmitted(t)
    BY <2>9, CardSubmittedStep
  <2>10. CASE Cancel(t)
    BY <2>10, CancelStep
  <2>11. ASSUME NEW r \in Regs,
                StartEdit(t, r) \/ \E seat \in Seatings : AddPlayers(t, r, seat)
         PROVE  BookingInv'
    BY <2>11 DEF StartEdit, AddPlayers, Overtaken
  <2>12. ASSUME NEW r \in Regs, NEW p \in Payments, OpenPaymentLink(t, r, p)
         PROVE  BookingInv'
    BY <2>12, FlowAssumption DEF OpenPaymentLink, BookingInv, CodeInv
  <2> QED
    BY <1>1, <2>1, <2>2, <2>3, <2>4, <2>5, <2>6, <2>7, <2>8, <2>9, <2>10, <2>11, <2>12
       DEF TabStep
<1>2. ASSUME NEW i \in Intents, IntentStep(i)
      PROVE  BookingInv'
  BY <1>2, StoreIntentStep, AbortIntentStep, CaptureStep, PaymentSucceededStep
     DEF IntentStep
<1>3. ASSUME NEW r \in Regs, RegStep(r)
      PROVE  BookingInv'
  <2>1. CASE Expire(r)
    BY <2>1, ExpireStep
  <2>2. CASE CleanUpExpired(r)
    BY <2>2, CleanUpExpiredStep
  <2>3. CASE FindExpired(r) \/ FindStale(r)
    BY <2>3 DEF FindExpired, FindStale, Overtaken
  <2>4. CASE ResetStale(r)
    BY <2>4, FlowAssumption
       DEF ResetStale, AwaitsTooLong, Overtaken, BookingInv, ClockInv, SlotsOf
  <2> QED
    BY <1>3, <2>1, <2>2, <2>3, <2>4 DEF RegStep
<1>4. CASE AdminStep
  BY <1>4 DEF AdminStep, AdminCreate, Overtaken
<1>5. CASE UNCHANGED vars
  <2>1. TabsOnlyLeave /\ UNCHANGED <<slotVars, regVars, payVars, piVars>>
    BY <1>5 DEF vars, tabVars, TabsOnlyLeave
  <2> QED
    BY <2>1, TabsLeaveStep
<1> QED
  BY <1>1, <1>2, <1>3, <1>4, <1>5 DEF Next

\* The invariant of the sign-up: each registration and payment belongs to
\* one tab, carts match the tee sheet, an attached intent has stopped the clock.
THEOREM BookingSafe == Overtaken => (Spec => []BookingInv)
<1> SUFFICES ASSUME Overtaken PROVE Spec => []BookingInv
  OBVIOUS
<1>1. Init => BookingInv
  BY FlowAssumption
     DEF Init, BookingInv, TabInv, CartInv, TabPayment, TabIntent, ClockInv, FeeInv,
         CodeInv, CreatedInv, SubmittedInv, LostInv, KeptInv, Busy, Saved, Submitted,
         UnderWay, InFlight
<1>2. Known /\ Known' /\ BookingInv /\ [Next]_vars => BookingInv'
  BY BookingInvStep
<1> QED
  BY <1>1, <1>2, KnownAlways, PTL DEF Spec

\* Fee rows of a payment that exists are replaced by updatePayment alone.
LEMMA AmountsKept ==
    ASSUME Known, BookingInv, AmountInv, UNCHANGED piVars,
           \A p \in issued : p \in live' => p \in live /\ fees'[p] = fees[p],
           \A t \in Tabs : stage'[t] = "confirm" =>
               stage[t] = "confirm" /\ pay'[t] = pay[t] /\ tabPI'[t] = tabPI[t]
    PROVE  AmountInv'
<1>1. ASSUME NEW i \in Intents, UnderWay(i), piPay[i] \in live'
      PROVE  piFor[i] = fees'[piPay[i]]
  BY <1>1 DEF AmountInv, BookingInv, LostInv
<1>2. ASSUME NEW t \in Tabs, stage'[t] = "confirm", pay[t] \in live'
      PROVE  piFor[tabPI[t]] = fees'[pay[t]]
  BY <1>2, FlowAssumption DEF Known, TypeOK, AmountInv, BookingInv, TabInv, Saved
<1> QED
  BY <1>1, <1>2 DEF AmountInv, UnderWay, Submitted, piVars

\* A tab that can change the fees of a payment has no intent under way for it.
LEMMA AmountStep ==
    ASSUME Overtaken, Known, Known', BookingInv, AmountInv, [Next]_vars
    PROVE  AmountInv'
<1> USE FlowAssumption DEF Known, TypeOK
<1>1. ASSUME NEW t \in Tabs, UpdatePayment(t)
      PROVE  AmountInv'
  <2>1. /\ stage[t] = "editing" /\ pay[t] \in live
        /\ fees' = [fees EXCEPT ![pay[t]] = cart[t]]
        /\ stage' = [stage EXCEPT ![t] = "payment"]
        /\ UNCHANGED <<live, piState, piPay, piFor, pay, tabPI>>
    BY <1>1 DEF UpdatePayment, MoveTab, piVars
  <2>2. \A i \in Intents : UnderWay(i) => piPay[i] # pay[t]
    BY <2>1, UnderWayElsewhere
  <2>3. \A v \in Tabs \ {t} : pay[v] # pay[t]
    BY <2>1 DEF BookingInv, TabInv
  <2> QED
    BY <2>1, <2>2, <2>3 DEF AmountInv, UnderWay, Submitted
<1>2. ASSUME NEW t \in Tabs, CreateIntent(t)
      PROVE  AmountInv'
  <2>1. PICK i \in Intents :
          /\ piState[i] = "unused"
          /\ piState' = [piState EXCEPT ![i] = "created"]
          /\ piPay' = [piPay EXCEPT ![i] = pay[t]]
          /\ piFor' = [piFor EXCEPT ![i] = fees[pay[t]]]
          /\ tabPI' = [tabPI EXCEPT ![t] = i]
    BY <1>2 DEF CreateIntent
  <2>2. /\ stage' = [stage EXCEPT ![t] = "intent"]
        /\ UNCHANGED <<live, fees, pay>>
    BY <1>2 DEF CreateIntent, payVars
  <2>3. \A v \in Tabs \ {t} : stage[v] = "confirm" => tabPI[v] # i
    BY <2>1 DEF TabsWait
  <2>4. \A j \in Intents : UnderWay(j)' /\ piPay'[j] \in live =>
          piFor'[j] = fees[piPay'[j]]
    BY <2>1 DEF AmountInv, UnderWay, Submitted
  <2> QED
    BY <2>1, <2>2, <2>3, <2>4 DEF AmountInv, UnderWay, Submitted
<1>3. ASSUME NEW i \in Intents, StoreIntent(i)
      PROVE  AmountInv'
  <2>1. /\ piState[i] = "created"
        /\ piState' = [piState EXCEPT ![i] = "open"]
        /\ stage' = [t \in Tabs |-> IF t \in Waiting(i) THEN "confirm" ELSE stage[t]]
        /\ UNCHANGED <<live, fees, piPay, piFor, pay, tabPI>>
    BY <1>3 DEF StoreIntent
  <2>2. ASSUME NEW t \in Waiting(i), pay[t] \in live
        PROVE  piFor[tabPI[t]] = fees[pay[t]]
    BY <2>1, <2>2 DEF Waiting, BookingInv, TabIntent, AmountInv, UnderWay
  <2> QED
    BY <2>1, <2>2 DEF AmountInv, UnderWay, Submitted
<1>4. ASSUME NEW i \in Intents, AbortIntent(i)
      PROVE  AmountInv'
  BY <1>4 DEF AbortIntent, AmountInv, UnderWay, Submitted, payVars
<1>5. ASSUME NEW i \in Intents, Capture(i)
      PROVE  AmountInv'
  BY <1>5 DEF Capture, AmountInv, UnderWay, Submitted, payVars, tabVars
<1>6. ASSUME NEW t \in Tabs, CardSubmitted(t)
      PROVE  AmountInv'
  <2>1. /\ stage[t] = "confirm"
        /\ piState' = [piState EXCEPT ![tabPI[t]] = "submitted"]
        /\ stage' = [stage EXCEPT ![t] = "idle"]
        /\ \A v \in Tabs \ {t} : pay'[v] = pay[v] /\ tabPI'[v] = tabPI[v]
        /\ UNCHANGED <<live, fees, piPay, piFor>>
    BY <1>6 DEF CardSubmitted, ResetTab, payVars
  <2>2. piPay[tabPI[t]] = pay[t]
    BY <2>1 DEF BookingInv, TabIntent
  <2>3. \A i \in Intents : UnderWay(i)' /\ piPay[i] \in live => piFor[i] = fees[piPay[i]]
    BY <2>1, <2>2 DEF AmountInv, UnderWay, Submitted
  <2>4. \A v \in Tabs : stage'[v] = "confirm" => v # t /\ stage[v] = "confirm"
    BY <2>1
  <2> QED
    BY <2>1, <2>3, <2>4 DEF AmountInv, UnderWay, Submitted
<1>7. ASSUME NEW t \in Tabs,
             \/ \E S \in (SUBSET Slots) \ {{}} : ReserveCleanUp(t, S)
             \/ ReserveClaim(t) \/ ReserveConflict(t)
             \/ \E s \in Slots, u \in Users \cup {None} : UpdateSlot(t, s, u)
             \/ CreatePayment(t) \/ Back(t) \/ CardDeclined(t) \/ Cancel(t) \/ LoseTab(t)
      PROVE  AmountInv'
  <2>1. UNCHANGED piVars
    BY <1>7 DEF ReserveCleanUp, ReserveClaim, ReserveConflict, UpdateSlot, CreatePayment,
                Back, CardDeclined, Cancel, LoseTab, Overtaken, piVars
  <2>2. \A p \in issued : p \in live' => p \in live /\ fees'[p] = fees[p]
    <3>1. CASE \E S \in (SUBSET Slots) \ {{}} : ReserveCleanUp(t, S)
      <4>1. UNCHANGED payVars \/ \E r \in Regs : DeletePayments(PaymentsOn(r))
        BY <3>1 DEF ReserveCleanUp, GiveUpUnpaid, Existing
      <4> QED
        BY <4>1 DEF DeletePayments, payVars
    <3>2. CASE CreatePayment(t)
      BY <3>2 DEF CreatePayment
    <3>3. CASE Cancel(t)
      BY <3>3 DEF Cancel, GiveUpUnpaid, DeletePayments
    <3>4. CASE UNCHANGED payVars
      BY <3>4 DEF payVars
    <3> QED
      BY <1>7, <3>1, <3>2, <3>3, <3>4
         DEF ReserveClaim, ReserveConflict, UpdateSlot, Back, CardDeclined, LoseTab
  <2>3. \A v \in Tabs : stage'[v] = "confirm" =>
          stage[v] = "confirm" /\ pay'[v] = pay[v] /\ tabPI'[v] = tabPI[v]
    BY <1>7 DEF ReserveCleanUp, ReserveClaim, ReserveConflict, UpdateSlot, CreatePayment,
                Back, CardDeclined, Cancel, LoseTab, LoadTab, MoveTab, ResetTab
  <2> QED
    BY <2>1, <2>2, <2>3, AmountsKept
<1>8. ASSUME NEW i \in Intents, PaymentSucceeded(i)
      PROVE  AmountInv'
  BY <1>8, AmountsKept DEF PaymentSucceeded, tabVars
<1>9. ASSUME NEW r \in Regs, RegStep(r)
      PROVE  AmountInv'
  <2>1. /\ UNCHANGED <<piVars, tabVars>>
        /\ \A p \in issued : p \in live' => p \in live /\ fees'[p] = fees[p]
    BY <1>9 DEF RegStep, Expire, FindExpired, CleanUpExpired, FindStale, ResetStale,
                DeletePayments, payVars
  <2> QED
    BY <2>1, AmountsKept DEF tabVars
<1>10. CASE UNCHANGED vars
  BY <1>10, AmountsKept DEF vars, payVars, tabVars
<1>11. ASSUME NEW t \in Tabs,
              \/ \E r \in Regs : StartEdit(t, r)
              \/ \E r \in Regs, seat \in Seatings : AddPlayers(t, r, seat)
              \/ \E r \in Regs, p \in Payments : OpenPaymentLink(t, r, p)
       PROVE  FALSE
  <2>1. CASE \E r \in Regs, p \in Payments : OpenPaymentLink(t, r, p)
    BY <2>1 DEF OpenPaymentLink, BookingInv, CodeInv
  <2>2. CASE ~\E r \in Regs, p \in Payments : OpenPaymentLink(t, r, p)
    BY <1>11, <2>2 DEF StartEdit, AddPlayers, Overtaken
  <2> QED
    BY <2>1, <2>2
<1>12. ~AdminStep
  BY DEF AdminStep, AdminCreate, Overtaken
<1> HIDE DEF Known, TypeOK
<1>13. ASSUME NEW t \in Tabs, TabStep(t)
       PROVE  AmountInv'
  BY <1>1, <1>2, <1>6, <1>7, <1>11, <1>13 DEF TabStep
<1>14. ASSUME NEW i \in Intents, IntentStep(i)
       PROVE  AmountInv'
  BY <1>3, <1>4, <1>5, <1>8, <1>14 DEF IntentStep
<1> QED
  BY <1>9, <1>10, <1>12, <1>13, <1>14 DEF Next

\* What Stripe is asked for stays what the payment has fees for, while the intent can
\* still be charged and the payment exists.
THEOREM AmountsAgree == Overtaken => (Spec => []AmountInv)
<1> SUFFICES ASSUME Overtaken PROVE Spec => []AmountInv
  OBVIOUS
<1>1. Init => AmountInv
  BY DEF Init, AmountInv, UnderWay, Submitted
<1>2. Known /\ Known' /\ BookingInv /\ AmountInv /\ [Next]_vars => AmountInv'
  BY AmountStep
<1> QED
  BY <1>1, <1>2, BookingSafe, KnownAlways, PTL DEF Spec

-----------------------------------------------------------------------------
(* What the invariant is for. *)

\* Both kinds of invariant together.
LEMMA BookingKnown == Overtaken => (Spec => [](Known /\ BookingInv))
  BY BookingSafe, KnownAlways, PTL

\* What holds when Stripe's answer may be overtaken holds when it is not.
LEMMA UndisturbedSafe == Undisturbed => (Spec => [](Known /\ BookingInv))
  BY BookingKnown DEF Undisturbed, Overtaken

\* The webhook finds the payment of every charge: no cancellation, clean-up or second
\* attempt deletes it or overwrites its payment_code once the card is submitted.
THEOREM ChargesAreRecorded == Undisturbed => (Spec => []ChargeIsRecorded)
<1> SUFFICES ASSUME Undisturbed PROVE Spec => []ChargeIsRecorded
  OBVIOUS
<1>1. BookingInv => ChargeIsRecorded
  BY DEF Undisturbed, BookingInv, KeptInv, SubmittedInv, Submitted, UnderWay,
         ChargeIsRecorded
<1> QED
  BY <1>1, UndisturbedSafe, PTL

\* Until the webhook comes, the slots being paid for stay AWAITING_PAYMENT, occupied
\* and under a registration that still has its user: the tripwire of
\* paymentConfirmed is never reached.
THEOREM ChargesHavePlace == Undisturbed => (Spec => []ChargeHasPlace)
<1> SUFFICES ASSUME Undisturbed PROVE Spec => []ChargeHasPlace
  OBVIOUS
<1>1. Known /\ BookingInv => ChargeHasPlace
  <2> SUFFICES ASSUME Known, BookingInv, NEW i \in Intents, Submitted(i),
                      piPay[i] \notin confirmed
               PROVE  /\ regUser[piReg[i]] # None
                      /\ fees[piPay[i]] # {}
                      /\ \A s \in fees[piPay[i]] :
                           slotReg[s] = piReg[i] /\ status[s] = "X" /\ occupant[s] # None
    BY DEF ChargeHasPlace, Submitted
  <2>0. piPay[i] \in live
    BY DEF Undisturbed, BookingInv, KeptInv, UnderWay
  <2>1. /\ fees[piPay[i]] # {} /\ fees[piPay[i]] = Occupied(piReg[i])
        /\ \A s \in SlotsOf(piReg[i]) : status[s] = "X"
    BY <2>0 DEF BookingInv, SubmittedInv
  <2>2. piReg[i] # None /\ piReg[i] \in Regs
    BY FlowAssumption DEF Known, TypeOK, BookingInv, LostInv, UnderWay
  <2> QED
    BY <2>1, <2>2 DEF Occupied, SlotsOf, BookingInv, ClockInv
<1> QED
  BY <1>1, UndisturbedSafe, PTL

\* What a confirmed payment has fees for is reserved, and nobody's to change.
LEMMA PaidAndReserved ==
    ASSUME Known, BookingInv, NEW p \in confirmed
    PROVE  /\ p \in live /\ p \in Payments /\ InFlight(p)
           /\ fees[p] # {} /\ fees[p] \subseteq Slots
           /\ \A s \in fees[p] : status[s] = "R"
<1> DEFINE i == code[p]
<1>1. i \in Intents /\ Submitted(i) /\ piPay[i] = p /\ p \in live
  BY FlowAssumption DEF Known, TypeOK, BookingInv, CodeInv, Submitted
<1> HIDE DEF i
<1> QED
  BY <1>1 DEF Known, TypeOK, InFlight, BookingInv, SubmittedInv, Occupied

\* paymentConfirmed turns all of a registration's awaiting slots into a sale: each of
\* them has a fee of the payment it confirms, which is never deleted, and each slot that
\* payment has a fee on is among them; not even when the hold is cancelled or expires
\* before Stripe has answered do the two part.
THEOREM ReservedAndPaidAgree == Overtaken => (Spec => []ReservedExactlyPaid)
<1>1. Known /\ BookingInv => ReservedIsPaid
  <2> SUFFICES ASSUME Known, BookingInv, NEW s \in Slots, status[s] = "R"
               PROVE  \E p \in confirmed \cap live : s \in fees[p]
    BY DEF ReservedIsPaid
  <2>1. PICK i \in Intents : piState[i] = "captured" /\ piReg[i] = slotReg[s]
    BY DEF Known, ReservedWasCaptured
  <2>2. piPay[i] \in live
    BY <2>1 DEF BookingInv, LostInv, UnderWay, Submitted, SlotsOf
  <2>3. piPay[i] \in confirmed /\ s \in fees[piPay[i]]
    BY <2>1, <2>2 DEF BookingInv, SubmittedInv, Submitted, SlotsOf, Occupied
  <2> QED
    BY <2>2, <2>3
<1>2. Known /\ BookingInv => PaidIsReserved
  BY PaidAndReserved DEF PaidIsReserved
<1> QED
  BY <1>1, <1>2, BookingKnown, PTL DEF ReservedExactlyPaid

\* Two submitted PaymentIntents never have a slot's fees in both amounts: the incident
\* of plans/duplicate-payment-analysis.md does not recur, for any number of tabs of one
\* golfer, while no hold ends under createPaymentIntent and a refusal is a refusal.
THEOREM NoSlotChargedTwice == Undisturbed => (Spec => []NoDuplicateCharge)
<1> SUFFICES ASSUME Undisturbed PROVE Spec => []NoDuplicateCharge
  OBVIOUS
<1>1. Known /\ BookingInv /\ AmountInv => NoDuplicateCharge
  <2> SUFFICES ASSUME Known, BookingInv, AmountInv,
                      NEW i \in Intents, NEW j \in Intents, i # j,
                      Submitted(i), Submitted(j)
               PROVE  piFor[i] \cap piFor[j] = {}
    BY DEF NoDuplicateCharge, Submitted
  <2>1. piPay[i] \in live /\ piPay[j] \in live
    BY DEF Undisturbed, BookingInv, KeptInv, UnderWay
  <2>2. piPay[i] # piPay[j]
    BY <2>1 DEF BookingInv, SubmittedInv
  <2>3. piFor[i] = fees[piPay[i]] /\ piFor[j] = fees[piPay[j]]
    BY <2>1 DEF AmountInv, UnderWay
  <2> QED
    BY <2>1, <2>2, <2>3 DEF BookingInv, FeeInv
<1>2. Spec => []AmountInv
  BY AmountsAgree DEF Undisturbed, Overtaken
<1> QED
  BY <1>1, <1>2, UndisturbedSafe, PTL

\* No cancellation, stale clean-up or expiry job deletes a payment that is confirmed
\* or has a PaymentIntent attached, although cleanUpExpired does not look.
THEOREM InFlightPaymentsStay == Overtaken => (Spec => NoInFlightPaymentDropped)
<1> SUFFICES ASSUME Overtaken PROVE Spec => NoInFlightPaymentDropped
  OBVIOUS
<1>1. ASSUME Known, Known', BookingInv, [Next]_vars
      PROVE  \A p \in live : InFlight(p) => p \in live'
  <2>1. ASSUME NEW t \in Tabs, TabStep(t)
        PROVE  \A p \in live : InFlight(p) => p \in live'
    BY <2>1 DEF TabStep, ReserveCleanUp, ReserveClaim, ReserveConflict, UpdateSlot,
                CreatePayment, UpdatePayment, Back, CreateIntent, CardDeclined,
                CardSubmitted, Cancel, GiveUpUnpaid, LoseTab, StartEdit, AddPlayers,
                OpenPaymentLink, DeletePayments, payVars
  <2>2. ASSUME NEW i \in Intents, IntentStep(i)
        PROVE  \A p \in live : InFlight(p) => p \in live'
    BY <2>2 DEF IntentStep, StoreIntent, AbortIntent, Capture, PaymentSucceeded, payVars
  <2>3. ASSUME NEW r \in Regs, RegStep(r)
        PROVE  \A p \in live : InFlight(p) => p \in live'
    <3>1. CASE CleanUpExpired(r)
      BY <3>1, <1>1, CleanUpExpiredStep DEF CleanUpExpired, DeletePayments
    <3>2. CASE ~CleanUpExpired(r)
      BY <2>3, <3>2 DEF RegStep, Expire, FindExpired, FindStale, ResetStale, payVars
    <3> QED
      BY <3>1, <3>2
  <2>4. CASE AdminStep
    BY <2>4 DEF AdminStep, AdminCreate
  <2>5. CASE UNCHANGED vars
    BY <2>5 DEF vars, payVars
  <2> QED
    BY <1>1, <2>1, <2>2, <2>3, <2>4, <2>5 DEF Next
<1>2. Known /\ Known' /\ BookingInv /\ [Next]_vars =>
        [\A p \in live : InFlight(p) => p \in live']_vars
  BY <1>1
<1> QED
  BY <1>2, BookingKnown, PTL DEF Spec, NoInFlightPaymentDropped

-----------------------------------------------------------------------------
(* The sign-up as PlayerChanges sees it.                                     *)

\* What a tab still holds has not been reserved.
LEMMA HeldIsUnpaid ==
    ASSUME Known, BookingInv, NEW t \in Tabs, held[t] \in made
    PROVE  \A s \in SlotsOf(held[t]) : status[s] # "R"
  BY DEF Known, ReservedWasCaptured, BookingInv, SubmittedInv, LostInv, Submitted,
         UnderWay, SlotsOf

\* The three parts of the tee sheet, when a step writes some slots: those of a
\* confirmed payment are not among them.
LEMMA PaidFeesKept ==
    ASSUME Known, BookingInv, confirmed' = confirmed,
           \A p \in confirmed : fees'[p] = fees[p],
           \A s \in Slots : status[s] = "R" => occupant'[s] = occupant[s]
    PROVE  PaidFees' = PaidFees
<1> SUFFICES ASSUME NEW f \in Payments \X Slots
             PROVE  PaidFees'[f] = PaidFees[f]
  BY DEF PaidFees
<1>1. f[1] \in confirmed /\ f[2] \in fees[f[1]] => occupant'[f[2]] = occupant[f[2]]
  BY PaidAndReserved
<1> QED
  BY <1>1 DEF PaidFees

\* Awaiting payment, waiting for Stripe, lost tabs and the clock are not seen.
LEMMA UnseenStep ==
    ASSUME Known, BookingInv, UNCHANGED <<slotReg, occupant, made, confirmed>>,
           \A p \in confirmed : fees'[p] = fees[p],
           \A s \in Slots : Shown(status'[s]) = Shown(status[s])
    PROVE  UNCHANGED (Outcome!vars)
<1>1. Sheet' = Sheet /\ Booked' = Booked
  BY DEF Sheet, Booked
<1>2. PaidFees' = PaidFees
  BY PaidFeesKept
<1> QED
  BY <1>1, <1>2 DEF Outcome!vars

\* How the sheet reads: a row is held while its slot is pending or awaiting payment.
LEMMA SheetReads ==
    ASSUME Known, NEW s \in Slots
    PROVE  /\ Sheet[s].status = Shown(status[s])
           /\ Sheet[s].reg = slotReg[s]
           /\ Sheet[s].golfer = occupant[s]
           /\ Sheet[s].status = "A" <=> status[s] = "A"
           /\ Sheet[s].status = "P" <=> status[s] \in {"P", "X"}
           /\ Sheet[s].status = "R" <=> status[s] = "R"
           /\ status[s] = "A" <=> slotReg[s] = None
  BY DEF Sheet, Shown, Known, TypeOK, AvailableIsUnheld

\* cancelRegistration, cleanupStaleRegistration and cleanUpExpired come to GiveUp.
LEMMA GiveUpSeen ==
    ASSUME Known, Known', BookingInv, NEW r \in made, GiveUp(r),
           \A s \in SlotsOf(r) : status[s] # "R",
           \A p \in PaymentsOn(r) : ~InFlight(p)
    PROVE  Outcome!GiveUp(r) \/ UNCHANGED (Outcome!vars)
<1>1. \A s \in Slots :
        IF slotReg[s] = r
        THEN status'[s] = "A" /\ slotReg'[s] = None /\ occupant'[s] = None
        ELSE status'[s] = status[s] /\ slotReg'[s] = slotReg[s]
             /\ occupant'[s] = occupant[s]
  BY DEF GiveUp, ReleaseSlots, SlotsOf, Known, TypeOK
<1>2. made' = made /\ confirmed' = confirmed
  BY DEF GiveUp, DeletePayments, Orphan
<1>3. \A p \in confirmed : p \notin PaymentsOn(r) /\ fees'[p] = fees[p]
  BY PaidAndReserved DEF GiveUp, DeletePayments, Known, TypeOK
<1>4. UNCHANGED <<PaidFees, Booked>>
  <2>1. \A s \in Slots : status[s] = "R" => occupant'[s] = occupant[s]
    BY <1>1 DEF SlotsOf
  <2> QED
    BY <1>2, <1>3, <2>1, PaidFeesKept DEF Booked
<1> DEFINE mine == Outcome!SlotsOf(r) \cap Outcome!In("P")
<1>5. mine = SlotsOf(r)
  <2>1. r # None
    BY FlowAssumption DEF Known, TypeOK
  <2>2. \A s \in SlotsOf(r) : status[s] \in {"P", "X"}
    BY <2>1, SheetReads DEF SlotsOf, Known, TypeOK
  <2> QED
    BY <2>2, SheetReads DEF Outcome!SlotsOf, Outcome!In, SlotsOf
<1>6. Sheet' = [s \in Slots |-> IF s \in mine THEN Outcome!Free ELSE Sheet[s]]
  <2> SUFFICES ASSUME NEW s \in Slots
               PROVE  Sheet'[s] = IF s \in mine THEN Outcome!Free ELSE Sheet[s]
    BY DEF Sheet
  <2> QED
    BY <1>1, <1>5 DEF Sheet, Shown, SlotsOf, Outcome!Free
<1>7. CASE mine # {}
  BY <1>2, <1>4, <1>6, <1>7 DEF Outcome!GiveUp
<1>8. CASE mine = {}
  BY <1>2, <1>4, <1>6, <1>8 DEF Outcome!vars, Sheet
<1> QED
  BY <1>7, <1>8

\* createAndReserve's transaction comes to Claim.
LEMMA ClaimSeen ==
    ASSUME Known, Known', BookingInv, NEW t \in Tabs, ReserveClaim(t)
    PROVE  \E own \in cart[t] : Outcome!Claim(cart[t], own, TabUser[t], "course")
<1> PICK r \in Regs \ made, own \in cart[t] :
       /\ made' = made \cup {r}
       /\ status' = [s \in Slots |-> IF s \in cart[t] THEN "P" ELSE status[s]]
       /\ slotReg' = [s \in Slots |-> IF s \in cart[t] THEN r ELSE slotReg[s]]
       /\ occupant' = [s \in Slots |->
                         IF s = own THEN TabUser[t]
                         ELSE IF s \in cart[t] THEN None ELSE occupant[s]]
  BY DEF ReserveClaim
<1>1. /\ cart[t] \subseteq Slots
      /\ \A s \in cart[t] : status[s] = "A"
      /\ \A s \in Slots : occupant[s] # TabUser[t]
      /\ UNCHANGED <<fees, confirmed>>
  BY DEF ReserveClaim, AllFree, SignedUp, Known, TypeOK, payVars
<1>2. UNCHANGED PaidFees
  <2>1. \A s \in Slots : status[s] = "R" => occupant'[s] = occupant[s]
    BY <1>1
  <2> QED
    BY <1>1, <2>1, PaidFeesKept
<1>3. Booked' = [Booked EXCEPT ![r] = "course"]
  BY DEF Booked
<1>4. cart[t] \subseteq Outcome!In("A")
  BY <1>1, SheetReads DEF Outcome!In
<1>5. Outcome!MaySit(TabUser[t])
  BY <1>1, SheetReads DEF Outcome!MaySit, Outcome!SignedUp
<1>6. Sheet' = [s \in Slots |->
           IF s \in cart[t]
           THEN [status |-> "P", reg |-> r,
                 golfer |-> IF s = own THEN TabUser[t] ELSE None]
           ELSE Sheet[s]]
  BY <1>1 DEF Sheet, Shown
<1>7. TabUser[t] # None /\ "course" # None
  BY FlowAssumption, OutcomeAssumption
<1> QED
  BY <1>1, <1>2, <1>3, <1>4, <1>5, <1>6, <1>7 DEF Outcome!Claim

\* PATCH slots/:id comes to Seat: the slot is one the tab still holds.
LEMMA SeatSeen ==
    ASSUME Overtaken, Known, Known', BookingInv, NEW t \in Tabs, NEW s \in Slots,
           NEW u \in Users \cup {None}, UpdateSlot(t, s, u)
    PROVE  Outcome!Seat(s, u)
<1>1. /\ slotReg[s] = held[t] /\ held[t] \in made
      /\ u # None => \A w \in Slots : occupant[w] # u
      /\ InGroup(TabUser[t], held[t])
      /\ occupant' = [occupant EXCEPT ![s] = u]
      /\ UNCHANGED <<status, slotReg, made, fees, confirmed>>
  BY DEF UpdateSlot, SignedUp, Overtaken, BookingInv, TabInv, Busy, regVars, payVars
<1>2. status[s] \in {"P", "X"}
  <2>1. slotReg[s] # None
    BY <1>1, FlowAssumption DEF Known, TypeOK
  <2> QED
    BY <1>1, <2>1, HeldIsUnpaid DEF SlotsOf, Known, TypeOK, AvailableIsUnheld
<1>3. UNCHANGED <<PaidFees, Booked>>
  <2>1. \A w \in Slots : status[w] = "R" => occupant'[w] = occupant[w]
    BY <1>1, <1>2 DEF Known, TypeOK
  <2> QED
    BY <1>1, <2>1, PaidFeesKept DEF Booked
<1>4. Sheet[s].status = "P" /\ Sheet[s].reg # None
      /\ \E w \in Outcome!SlotsOf(Sheet[s].reg) : Sheet[w].golfer # None
  <2>1. PICK w \in Slots : slotReg[w] = held[t] /\ occupant[w] = TabUser[t]
    BY <1>1 DEF InGroup, SlotsOf
  <2>2. TabUser[t] # None /\ held[t] # None
    BY <1>1, FlowAssumption DEF Known, TypeOK
  <2> QED
    BY <1>1, <1>2, <2>1, <2>2, SheetReads DEF Outcome!SlotsOf
<1>5. Outcome!MaySit(u)
  BY <1>1, SheetReads DEF Outcome!MaySit, Outcome!SignedUp
<1>6. Sheet' = [Sheet EXCEPT ![s].golfer = u]
  BY <1>1 DEF Sheet, Known, TypeOK
<1>7. {s} \cap Outcome!In("R") = {}
  BY <1>4 DEF Outcome!In
<1>8. /\ PaidFees' = [f \in Payments \X Slots |->
                        IF f \in Outcome!FeesOn({s} \cap Outcome!In("R"))
                        THEN [PaidFees[f] EXCEPT !.of = u] ELSE PaidFees[f]]
      /\ ~Outcome!Traced(s)
  BY <1>3, <1>7 DEF PaidFees, Outcome!FeesOn, Outcome!Traced
<1> QED
  <2>1. UNCHANGED <<made, Booked>>
    BY <1>1, <1>3
  <2> QED
    BY <1>4, <1>5, <1>6, <1>8, <2>1 DEF Outcome!Seat

\* The webhook comes to Pay: the charge is for exactly the players who are seated
\* with it, and no fee of theirs counted before.
LEMMA PaySeen ==
    ASSUME Known, Known', BookingInv, NEW i \in Intents, PaymentSucceeded(i)
    PROVE  piReg[i] \in Regs /\ Outcome!Pay(piReg[i])
<1> DEFINE r == piReg[i]
           p == piPay[i]
           mine == Outcome!SlotsOf(r) \cap Outcome!In("P")
           taken == {s \in mine : Sheet[s].golfer # None}
           new == [s \in taken |-> <<p, s>>]
<1>1. /\ piState[i] = "captured"
      /\ status' = [s \in Slots |->
           IF s \in Seated(r) THEN "R"
           ELSE IF s \in SlotsOf(r) /\ occupant[s] = None /\ status[s] # "R"
                THEN "A" ELSE status[s]]
      /\ slotReg' = [s \in Slots |->
           IF s \in SlotsOf(r) /\ occupant[s] = None /\ status[s] # "R"
           THEN None ELSE slotReg[s]]
      /\ UNCHANGED <<occupant, made, fees>>
  BY DEF PaymentSucceeded, Delivered, regVars
<1>2. /\ p \in live /\ p \in Payments /\ p \notin confirmed
      /\ confirmed' = confirmed \cup {p}
  BY FlowAssumption
     DEF PaymentSucceeded, Payable, Known, TypeOK, BookingInv, CodeInv
<1>3. /\ r \in made /\ fees[p] # {} /\ fees[p] = Occupied(r)
      /\ \A s \in SlotsOf(r) : status[s] = "X"
  BY <1>1, <1>2, IntentIsFor DEF BookingInv, SubmittedInv, Submitted, UnderWay
<1>4. r \in Regs /\ r # None
  BY <1>3, FlowAssumption DEF Known, TypeOK
<1>5. mine = SlotsOf(r) /\ taken = fees[p]
  BY <1>3, SheetReads DEF Outcome!SlotsOf, Outcome!In, SlotsOf, Occupied
<1>6. taken # {} /\ taken \subseteq Slots
  BY <1>2, <1>3, <1>5 DEF Known, TypeOK
<1>7. \A s \in taken : PaidFees[<<p, s>>] = Outcome!NoFee
  BY <1>2, <1>6 DEF PaidFees, Outcome!NoFee
<1>8. new \in Outcome!Injection(taken, {f \in Payments \X Slots : PaidFees[f] = Outcome!NoFee})
  BY <1>2, <1>6, <1>7 DEF Outcome!Injection, Outcome!IsInjective
<1>9. PaidFees' = [f \in Payments \X Slots |->
           IF f \in Outcome!Range(new)
           THEN LET s == CHOOSE w \in taken : new[w] = f
                IN  [on |-> s, of |-> Sheet[s].golfer]
           ELSE PaidFees[f]]
  <2> SUFFICES ASSUME NEW f \in Payments \X Slots
               PROVE  PaidFees'[f] =
                        IF f \in Outcome!Range(new)
                        THEN LET s == CHOOSE w \in taken : new[w] = f
                             IN  [on |-> s, of |-> Sheet[s].golfer]
                        ELSE PaidFees[f]
    BY DEF PaidFees
  <2>0. f = <<f[1], f[2]>>
    OBVIOUS
  <2>1. f \in Outcome!Range(new) <=> f[1] = p /\ f[2] \in taken
    <3>1. f \in Outcome!Range(new) <=> \E s \in taken : f = <<p, s>>
      BY DEF Outcome!Range
    <3> QED
      BY <2>0, <3>1
  <2>2. CASE f \in Outcome!Range(new)
    <3>1. f = <<p, f[2]>> /\ f[2] \in taken
      BY <2>1, <2>2
    <3>2. (CHOOSE w \in taken : new[w] = f) = f[2]
      BY <3>1
    <3>3. PaidFees'[f] = [on |-> f[2], of |-> occupant[f[2]]]
      BY <1>1, <1>2, <1>5, <3>1 DEF PaidFees
    <3>4. Sheet[f[2]].golfer = occupant[f[2]]
      BY <1>6, <3>1, SheetReads
    <3> QED
      BY <2>2, <3>2, <3>3, <3>4
  <2>3. CASE f \notin Outcome!Range(new)
    <3>1. f[1] \in confirmed' /\ f[2] \in fees'[f[1]]
          <=> f[1] \in confirmed /\ f[2] \in fees[f[1]]
      BY <1>1, <1>2, <1>5, <2>1, <2>3
    <3> QED
      BY <1>1, <2>3, <3>1 DEF PaidFees
  <2> QED
    BY <2>2, <2>3
<1>10. Sheet' = [s \in Slots |->
           IF s \in taken THEN [Sheet[s] EXCEPT !.status = "R"]
           ELSE IF s \in mine THEN Outcome!Free ELSE Sheet[s]]
  <2> SUFFICES ASSUME NEW s \in Slots
               PROVE  Sheet'[s] = IF s \in taken THEN [Sheet[s] EXCEPT !.status = "R"]
                                  ELSE IF s \in mine THEN Outcome!Free ELSE Sheet[s]
    BY DEF Sheet
  <2> QED
    BY <1>1, <1>3, <1>5 DEF Sheet, Shown, Seated, SlotsOf, Occupied, Outcome!Free
<1>11. UNCHANGED Booked
  BY <1>1 DEF Booked
<1>12. \E n \in Outcome!Injection(taken, {f \in Payments \X Slots : PaidFees[f] = Outcome!NoFee}) :
         PaidFees' = [f \in Payments \X Slots |->
           IF f \in Outcome!Range(n)
           THEN LET s == CHOOSE w \in taken : n[w] = f
                IN  [on |-> s, of |-> Sheet[s].golfer]
           ELSE PaidFees[f]]
  <2> HIDE DEF new, taken, p
  <2> QED
    BY <1>8, <1>9
<1>13. Outcome!Pay(r)
  BY <1>1, <1>6, <1>10, <1>11, <1>12, Zenon DEF Outcome!Pay
<1> QED
  BY <1>4, <1>13

\* What an expiry gives up is a hold nobody is paying for.
LEMMA ExpirySeen ==
    ASSUME Overtaken, Known, Known', BookingInv, NEW r \in Regs, CleanUpExpired(r)
    PROVE  Outcome!GiveUp(r) \/ UNCHANGED (Outcome!vars)
<1>1. expires[r] = "past" /\ DueSlots(r) = Pending(r) /\ Pending(r) # {}
  BY DEF CleanUpExpired, DueSlots, Expired, Overtaken
<1>2. r \in made /\ Pending(r) = SlotsOf(r)
  BY <1>1, FlowAssumption DEF BookingInv, ClockInv, Pending, SlotsOf
<1>3. \A s \in SlotsOf(r) : status[s] # "R"
  BY <1>2 DEF Pending
<1>4. \A p \in PaymentsOn(r) : ~InFlight(p)
  BY CleanUpExpiredStep
<1>5. GiveUp(r)
  BY <1>1, <1>2 DEF CleanUpExpired, GiveUp
<1> QED
  BY <1>2, <1>3, <1>4, <1>5, GiveUpSeen

\* A stale registration is given up whole, or there is none.
LEMMA CleanUpSeen ==
    ASSUME Known, Known', BookingInv, NEW t \in Tabs,
           NEW S \in (SUBSET Slots) \ {{}}, ReserveCleanUp(t, S)
    PROVE  (\E r \in Regs : Outcome!GiveUp(r)) \/ UNCHANGED (Outcome!vars)
<1>1. CASE Existing(TabUser[t]) = {}
  BY <1>1, UnseenStep DEF ReserveCleanUp, slotVars, regVars, payVars
<1>2. CASE Existing(TabUser[t]) # {}
  <2>1. PICK r \in Existing(TabUser[t]) : GiveUpUnpaid(r)
    BY <1>2 DEF ReserveCleanUp
  <2>2. r \in made /\ r \in Regs
    BY DEF Existing, Known, TypeOK
  <2>3. \A s \in Slots : slotReg[s] \in Existing(TabUser[t]) => status[s] = "P"
    BY DEF ReserveCleanUp
  <2>4. \A s \in SlotsOf(r) : status[s] # "R"
    BY <2>3 DEF SlotsOf
  <2>5. GiveUp(r) /\ \A p \in PaymentsOn(r) : ~InFlight(p)
    BY <2>1 DEF GiveUpUnpaid, GiveUp, ReserveCleanUp
  <2> QED
    BY <2>2, <2>4, <2>5, GiveUpSeen
<1> QED
  BY <1>1, <1>2

\* A cancellation gives up what the tab holds, whole.
LEMMA CancelSeen ==
    ASSUME Known, Known', BookingInv, NEW t \in Tabs, Cancel(t)
    PROVE  (\E r \in Regs : Outcome!GiveUp(r)) \/ UNCHANGED (Outcome!vars)
<1>1. held[t] \in made /\ held[t] \in Regs
  BY DEF Cancel, BookingInv, TabInv, Busy, Known, TypeOK
<1>2. GiveUp(held[t]) /\ \A p \in PaymentsOn(held[t]) : ~InFlight(p)
  BY DEF Cancel, GiveUpUnpaid, GiveUp
<1> QED
  BY <1>1, <1>2, HeldIsUnpaid, GiveUpSeen

\* Saving the payment again changes the fees of a payment that is not confirmed.
LEMMA SaveUnseen ==
    ASSUME Known, BookingInv, NEW t \in Tabs, CreatePayment(t) \/ UpdatePayment(t)
    PROVE  UNCHANGED (Outcome!vars)
<1>1. \A p \in confirmed : p \in issued /\ p # pay[t]
  BY PaidAndReserved, FlowAssumption
     DEF Known, TypeOK, BookingInv, CodeInv, SubmittedInv, Submitted
<1>2. \A p \in confirmed : fees'[p] = fees[p]
  BY <1>1 DEF CreatePayment, UpdatePayment, Known, TypeOK
<1>3. UNCHANGED <<status, slotReg, occupant, made, confirmed>>
  BY DEF CreatePayment, UpdatePayment, slotVars, regVars
<1> QED
  BY <1>2, <1>3, UnseenStep

\* Every handler's step is one of a sign-up, or not seen on the tee sheet.
LEMMA OutcomeStep ==
    ASSUME Overtaken, Known, Known', BookingInv, [Next]_vars
    PROVE  [Outcome!Next]_(Outcome!vars)
<1> USE DEF slotVars, regVars, payVars, piVars, tabVars, jobVars
<1> SUFFICES Outcome!SignUp \/ UNCHANGED (Outcome!vars)
  BY DEF Outcome!Next
<1>1. ASSUME NEW t \in Tabs, TabStep(t)
      PROVE  Outcome!SignUp \/ UNCHANGED (Outcome!vars)
  <2>1. CASE \E S \in (SUBSET Slots) \ {{}} : ReserveCleanUp(t, S)
    BY <2>1, CleanUpSeen DEF Outcome!SignUp
  <2>2. CASE ReserveClaim(t)
    <3>1. cart[t] \in SUBSET Slots /\ TabUser[t] \in Users
      BY FlowAssumption DEF Known, TypeOK
    <3> QED
      BY <2>2, <3>1, ClaimSeen DEF Outcome!SignUp
  <2>3. CASE \E s \in Slots, u \in Users \cup {None} : UpdateSlot(t, s, u)
    BY <2>3, SeatSeen DEF Outcome!SignUp
  <2>4. CASE CreatePayment(t) \/ UpdatePayment(t)
    BY <2>4, SaveUnseen
  <2>5. CASE Cancel(t)
    BY <2>5, CancelSeen DEF Outcome!SignUp
  <2>6. CASE ReserveConflict(t) \/ Back(t) \/ CreateIntent(t) \/ CardDeclined(t)
             \/ CardSubmitted(t) \/ LoseTab(t)
    BY <2>6, UnseenStep
       DEF ReserveConflict, Back, CreateIntent, CardDeclined, CardSubmitted, LoseTab
  <2>7. CASE \/ \E r \in Regs : StartEdit(t, r)
             \/ \E r \in Regs, seat \in Seatings : AddPlayers(t, r, seat)
    BY <2>7 DEF StartEdit, AddPlayers, Overtaken
  <2>8. CASE \E r \in Regs, p \in Payments : OpenPaymentLink(t, r, p)
    BY <2>8, UnseenStep DEF OpenPaymentLink
  <2> QED
    BY <1>1, <2>1, <2>2, <2>3, <2>4, <2>5, <2>6, <2>7, <2>8 DEF TabStep
<1>2. ASSUME NEW i \in Intents, IntentStep(i)
      PROVE  Outcome!SignUp \/ UNCHANGED (Outcome!vars)
  <2>1. CASE StoreIntent(i)
    <3>1. \A s \in Slots : Shown(status'[s]) = Shown(status[s])
      BY <2>1 DEF StoreIntent, PaymentProcessing, Shown
    <3> QED
      BY <2>1, <3>1, UnseenStep DEF StoreIntent
  <2>2. CASE AbortIntent(i) \/ Capture(i)
    BY <2>2, UnseenStep DEF AbortIntent, Capture
  <2>3. CASE PaymentSucceeded(i)
    BY <2>3, PaySeen DEF Outcome!SignUp
  <2> QED
    BY <1>2, <2>1, <2>2, <2>3 DEF IntentStep
<1>3. ASSUME NEW r \in Regs, RegStep(r)
      PROVE  Outcome!SignUp \/ UNCHANGED (Outcome!vars)
  <2>1. CASE Expire(r) \/ FindExpired(r) \/ FindStale(r)
    BY <2>1, UnseenStep DEF Expire, FindExpired, FindStale
  <2>2. CASE CleanUpExpired(r)
    BY <2>2, ExpirySeen DEF Outcome!SignUp
  <2>3. CASE ResetStale(r)
    BY <2>3, FlowAssumption
       DEF ResetStale, AwaitsTooLong, Overtaken, BookingInv, ClockInv, SlotsOf
  <2> QED
    BY <1>3, <2>1, <2>2, <2>3 DEF RegStep
<1>4. CASE AdminStep
  BY <1>4 DEF AdminStep, AdminCreate, Overtaken
<1>5. CASE UNCHANGED vars
  BY <1>5, UnseenStep DEF vars
<1> QED
  BY <1>1, <1>2, <1>3, <1>4, <1>5 DEF Next

\* The sign-up implements that of PlayerChanges: to the tee sheet, tabs, Stripe and
\* cron jobs come to claims, seatings, payments and holds given up, each whole, even
\* when a hold ends while Stripe is creating an intent.
THEOREM ImplementsSignUp == Overtaken => (Spec => IsSignUp)
<1> SUFFICES ASSUME Overtaken PROVE Spec => IsSignUp
  OBVIOUS
<1>1. Init => Outcome!Init
  BY DEF Init, Sheet, Shown, Booked, PaidFees,
         Outcome!Init, Outcome!Free, Outcome!NoFee
<1>2. Known /\ Known' /\ BookingInv /\ [Next]_vars => [Outcome!Next]_(Outcome!vars)
  BY OutcomeStep
<1> QED
  BY <1>1, <1>2, BookingKnown, PTL DEF Spec, IsSignUp, Outcome!Spec
===============================================================================
