------------------------ MODULE RegistrationFlowProofs ------------------------
(* What RegistrationFlow's runs check on small instances, for every instance. *)
EXTENDS RegistrationFlow, TLAPS

\* A seating assigns an account to some of the slots (addPlayersToRegistration,
\* createChooseableRegistration: one slot per player).
LEMMA SeatingType ==
    ASSUME NEW seat \in Seatings
    PROVE  DOMAIN seat \subseteq Slots /\ seat \in [DOMAIN seat -> Users]
BY DEF Seatings

\* Every handler, webhook and job leaves each column and each field of a tab's
\* state in its domain: statuses, nullable ids, and the expiry.
THEOREM TypeCorrect == Spec => []TypeOK
<1>1. Init => TypeOK
  BY DEF Init, TypeOK
<1>2. TypeOK /\ [Next]_vars => TypeOK'
  <2> SUFFICES ASSUME TypeOK, [Next]_vars PROVE TypeOK'
    OBVIOUS
  <2> USE FlowAssumption
      DEF TypeOK, slotVars, regVars, payVars, piVars, tabVars, jobVars
  <2>1. ASSUME NEW t \in Tabs, NEW S \in SUBSET Slots, ReserveCleanUp(t, S)
        PROVE  TypeOK'
    BY <2>1 DEF ReserveCleanUp, GiveUpUnpaid, ReleaseSlots, Orphan, DeletePayments,
                LoadTab, SlotsOf, Existing
  <2>2. ASSUME NEW t \in Tabs, ReserveClaim(t)
        PROVE  TypeOK'
    BY <2>2 DEF ReserveClaim, LoadTab
  <2>3. ASSUME NEW t \in Tabs, ReserveConflict(t)
        PROVE  TypeOK'
    BY <2>3 DEF ReserveConflict, ResetTab
  <2>4. ASSUME NEW t \in Tabs, NEW s \in Slots, NEW u \in Users \cup {None},
               UpdateSlot(t, s, u)
        PROVE  TypeOK'
    BY <2>4 DEF UpdateSlot, CartWith
  <2>5. ASSUME NEW t \in Tabs, CreatePayment(t)
        PROVE  TypeOK'
    BY <2>5 DEF CreatePayment
  <2>6. ASSUME NEW t \in Tabs, UpdatePayment(t)
        PROVE  TypeOK'
    BY <2>6 DEF UpdatePayment, MoveTab
  <2>7. ASSUME NEW t \in Tabs, Back(t)
        PROVE  TypeOK'
    BY <2>7 DEF Back, MoveTab
  <2>8. ASSUME NEW t \in Tabs, CreateIntent(t)
        PROVE  TypeOK'
    BY <2>8 DEF CreateIntent
  <2>9. ASSUME NEW t \in Tabs, CardDeclined(t)
        PROVE  TypeOK'
    BY <2>9 DEF CardDeclined, MoveTab
  <2>10. ASSUME NEW t \in Tabs, CardSubmitted(t)
        PROVE  TypeOK'
    BY <2>10 DEF CardSubmitted, ResetTab
  <2>11. ASSUME NEW t \in Tabs, Cancel(t)
        PROVE  TypeOK'
    BY <2>11 DEF Cancel, GiveUpUnpaid, ReleaseSlots, Orphan, DeletePayments, ResetTab,
                 SlotsOf
  <2>12. ASSUME NEW t \in Tabs, LoseTab(t)
        PROVE  TypeOK'
    BY <2>12 DEF LoseTab, ResetTab
  <2>13. ASSUME NEW t \in Tabs, NEW r \in Regs, StartEdit(t, r)
        PROVE  TypeOK'
    BY <2>13 DEF StartEdit, LoadTab, SlotsOf
  <2>14. ASSUME NEW t \in Tabs, NEW r \in Regs, NEW seat \in Seatings,
                AddPlayers(t, r, seat)
        PROVE  TypeOK'
    BY SeatingType, <2>14 DEF AddPlayers, LoadTab
  <2>15. ASSUME NEW t \in Tabs, NEW r \in Regs, NEW p \in Payments, OpenPaymentLink(t, r, p)
        PROVE  TypeOK'
    BY <2>15 DEF OpenPaymentLink, LoadTab
  <2>16. ASSUME NEW i \in Intents, StoreIntent(i)
        PROVE  TypeOK'
    BY <2>16 DEF StoreIntent, PaymentProcessing, Recipients
  <2>17. ASSUME NEW i \in Intents, AbortIntent(i)
        PROVE  TypeOK'
    BY <2>17 DEF AbortIntent
  <2>18. ASSUME NEW i \in Intents, Capture(i)
        PROVE  TypeOK'
    BY <2>18 DEF Capture
  <2>19. ASSUME NEW i \in Intents, PaymentSucceeded(i)
        PROVE  TypeOK'
    BY <2>19 DEF PaymentSucceeded, Payable
  <2>20. ASSUME NEW r \in Regs, Expire(r)
        PROVE  TypeOK'
    BY <2>20 DEF Expire
  <2>21. ASSUME NEW r \in Regs, FindExpired(r)
        PROVE  TypeOK'
    BY <2>21 DEF FindExpired, Expired, Pending, SlotsOf
  <2>22. ASSUME NEW r \in Regs, CleanUpExpired(r)
        PROVE  TypeOK'
    BY <2>22 DEF CleanUpExpired, ReleaseSlots, Orphan, DeletePayments
  <2>23. ASSUME NEW r \in Regs, FindStale(r)
        PROVE  TypeOK'
    BY <2>23 DEF FindStale
  <2>24. ASSUME NEW r \in Regs, ResetStale(r)
        PROVE  TypeOK'
    BY <2>24 DEF ResetStale
  <2>25. ASSUME NEW u \in Users, NEW seat \in Seatings, AdminCreate(u, seat)
        PROVE  TypeOK'
    BY SeatingType, <2>25 DEF AdminCreate
  <2>26. CASE UNCHANGED vars
    BY <2>26 DEF TypeOK, vars, slotVars, regVars, payVars, piVars, tabVars, jobVars
  <2> QED
    BY <2>1, <2>2, <2>3, <2>4, <2>5, <2>6, <2>7, <2>8, <2>9, <2>10, <2>11, <2>12,
       <2>13, <2>14, <2>15, <2>16, <2>17, <2>18, <2>19, <2>20, <2>21, <2>22, <2>23,
       <2>24, <2>25, <2>26
       DEF Next, TabStep, IntentStep, RegStep, AdminStep
<1>3. QED
  BY <1>1, <1>2, PTL DEF Spec

-----------------------------------------------------------------------------
(* What a step can do to the tee sheet.  The proofs about slots go through    *)
(* these few cases instead of all the actions.                               *)

Claimed(r, S) ==
    /\ AllFree(S)
    /\ slotReg' = [s \in Slots |-> IF s \in S THEN r ELSE slotReg[s]]
    /\ \E st \in {"P", "X"} :
         status' = [s \in Slots |-> IF s \in S THEN st ELSE status[s]]

SheetStep ==
    \/ UNCHANGED <<status, slotReg>>
    \/ \E S \in SUBSET Slots : ReleaseSlots(S)
    \/ \E r \in Regs, S \in SUBSET Slots : Claimed(r, S)
    \/ \E i \in Intents : StoreIntent(i)
    \/ \E i \in Intents : PaymentSucceeded(i)
    \/ \E r \in Regs : ResetStale(r)

\* What the handlers can do to the tee sheet: nothing, a guarded release, a claim
\* of free slots, the two status changes of createPaymentIntent and of the webhook,
\* or the stale-payment job's reset.
LEMMA SheetSteps ==
    ASSUME TypeOK, [Next]_vars
    PROVE  SheetStep
<1>1. ASSUME NEW t \in Tabs, NEW S \in SUBSET Slots, ReserveCleanUp(t, S)
      PROVE  SheetStep
  <2>1. CASE Existing(TabUser[t]) = {}
    BY <1>1, <2>1 DEF ReserveCleanUp, SheetStep, slotVars
  <2>2. CASE Existing(TabUser[t]) # {}
    <3>1. PICK r \in Existing(TabUser[t]) : ReleaseSlots(SlotsOf(r))
      BY <1>1, <2>2 DEF ReserveCleanUp, GiveUpUnpaid
    <3> QED
      BY <3>1 DEF SheetStep, SlotsOf
  <2> QED
    BY <2>1, <2>2
<1>2. ASSUME NEW t \in Tabs, ReserveClaim(t)
      PROVE  SheetStep
  <2>1. PICK r \in Regs : Claimed(r, cart[t])
    BY <1>2 DEF ReserveClaim, Claimed
  <2> QED
    BY <2>1 DEF SheetStep, TypeOK
<1>3. ASSUME NEW t \in Tabs, Cancel(t)
      PROVE  SheetStep
  BY <1>3 DEF Cancel, GiveUpUnpaid, SheetStep, SlotsOf
<1>4. ASSUME NEW t \in Tabs, NEW r \in Regs, NEW seat \in Seatings,
             AddPlayers(t, r, seat)
      PROVE  SheetStep
  <2>1. Claimed(r, DOMAIN seat)
    BY <1>4 DEF AddPlayers, Claimed
  <2> QED
    BY <2>1, SeatingType DEF SheetStep
<1>5. ASSUME NEW u \in Users, NEW seat \in Seatings, AdminCreate(u, seat)
      PROVE  SheetStep
  <2>1. PICK r \in Regs : Claimed(r, DOMAIN seat)
    BY <1>5 DEF AdminCreate, Claimed
  <2> QED
    BY <2>1, SeatingType DEF SheetStep
<1>6. ASSUME NEW r \in Regs, CleanUpExpired(r)
      PROVE  SheetStep
  <2>1. DueSlots(r) \subseteq Slots
    BY DEF TypeOK, DueSlots, Expired, Pending, SlotsOf
  <2> QED
    BY <1>6, <2>1 DEF CleanUpExpired, SheetStep
<1> QED
  BY <1>1, <1>2, <1>3, <1>4, <1>5, <1>6
  DEF SheetStep, slotVars, vars, Next, TabStep, IntentStep, RegStep, AdminStep,
      ReserveConflict, UpdateSlot, CreatePayment, UpdatePayment, Back,
      CreateIntent, CardDeclined, CardSubmitted, LoseTab, StartEdit,
      OpenPaymentLink, AbortIntent, Capture, Expire, FindExpired, FindStale

\* None of these leaves a free slot with a registration or a taken one without.
LEMMA AvailableIsUnheldStep ==
    ASSUME TypeOK, AvailableIsUnheld, SheetStep
    PROVE  AvailableIsUnheld'
<1> USE FlowAssumption DEF AvailableIsUnheld, TypeOK
<1>1. CASE UNCHANGED <<status, slotReg>>
  BY <1>1
<1>2. ASSUME NEW S \in SUBSET Slots, ReleaseSlots(S)
      PROVE  AvailableIsUnheld'
  BY <1>2 DEF ReleaseSlots
<1>3. ASSUME NEW r \in Regs, NEW S \in SUBSET Slots, Claimed(r, S)
      PROVE  AvailableIsUnheld'
  BY <1>3 DEF Claimed
<1>4. ASSUME NEW i \in Intents, StoreIntent(i)
      PROVE  AvailableIsUnheld'
  BY <1>4 DEF StoreIntent, PaymentProcessing
<1>5. ASSUME NEW i \in Intents, PaymentSucceeded(i)
      PROVE  AvailableIsUnheld'
  BY <1>5 DEF PaymentSucceeded, Seated, SlotsOf
<1>6. ASSUME NEW r \in Regs, ResetStale(r)
      PROVE  AvailableIsUnheld'
  BY <1>6 DEF ResetStale
<1> QED
  BY <1>1, <1>2, <1>3, <1>4, <1>5, <1>6 DEF SheetStep

\* A slot has a registration_id exactly while it is not AVAILABLE, whatever the
\* interleaving of tabs, jobs, webhooks and administrators.
THEOREM FreeSlotsAreUnheld == Spec => []AvailableIsUnheld
<1>1. Init => AvailableIsUnheld
  BY DEF Init, AvailableIsUnheld
<1>2. TypeOK /\ AvailableIsUnheld /\ [Next]_vars => AvailableIsUnheld'
  BY SheetSteps, AvailableIsUnheldStep
<1>3. QED
  BY <1>1, <1>2, TypeCorrect, PTL DEF Spec

-----------------------------------------------------------------------------
(* A submission changes the intent its tab was given and no other.           *)

\* A tab waits for, or is about to submit, an intent of its own.
TabsWait ==
    /\ \A t \in Tabs : stage[t] = "intent" =>
         tabPI[t] \in Intents /\ piState[tabPI[t]] = "created"
    /\ \A t \in Tabs : stage[t] = "confirm" =>
         tabPI[t] \in Intents /\ piState[tabPI[t]] = "open"
    /\ \A t, v \in Tabs :
         /\ t # v
         /\ stage[t] \in {"intent", "confirm"}
         /\ stage[v] \in {"intent", "confirm"}
         => tabPI[t] # tabPI[v]

\* Only the answer of its own createPaymentIntent, or its own submission, changes
\* the intent of a tab.
LEMMA TabsWaitStep ==
    ASSUME TypeOK, TabsWait, [Next]_vars
    PROVE  TabsWait'
<1> USE DEF TypeOK, TabsWait
<1>1. ASSUME NEW t \in Tabs, NEW S \in SUBSET Slots, ReserveCleanUp(t, S)
      PROVE  TabsWait'
  BY <1>1 DEF ReserveCleanUp, LoadTab, piVars
<1>2. ASSUME NEW t \in Tabs,
             \/ ReserveClaim(t) \/ ReserveConflict(t) \/ CreatePayment(t)
             \/ UpdatePayment(t) \/ Back(t) \/ Cancel(t) \/ LoseTab(t)
      PROVE  TabsWait'
  BY SMTT(20), <1>2 DEF ReserveClaim, ReserveConflict, CreatePayment, UpdatePayment, Back,
              Cancel, LoseTab, LoadTab, MoveTab, ResetTab, piVars
<1>3. ASSUME NEW t \in Tabs, CreateIntent(t)
      PROVE  TabsWait'
  BY <1>3 DEF CreateIntent
<1>4. ASSUME NEW t \in Tabs, CardSubmitted(t)
      PROVE  TabsWait'
  BY <1>4 DEF CardSubmitted, ResetTab
<1>12. ASSUME NEW t \in Tabs, CardDeclined(t)
       PROVE  TabsWait'
  <2>1. stage[t] = "confirm"
        /\ stage' = [stage EXCEPT ![t] = "payment"] /\ tabPI' = tabPI
    BY <1>12 DEF CardDeclined, MoveTab
  <2>2. \A v \in Tabs \ {t} : stage[v] \in {"intent", "confirm"} =>
          piState'[tabPI[v]] = piState[tabPI[v]]
    BY <1>12, <2>1 DEF CardDeclined
  <2> QED
    BY <2>1, <2>2
<1>5. ASSUME NEW t \in Tabs, NEW r \in Regs, StartEdit(t, r)
      PROVE  TabsWait'
  BY <1>5 DEF StartEdit, LoadTab, piVars
<1>6. ASSUME NEW t \in Tabs, NEW r \in Regs, NEW seat \in Seatings,
             AddPlayers(t, r, seat)
      PROVE  TabsWait'
  BY <1>6 DEF AddPlayers, LoadTab, piVars
<1>7. ASSUME NEW t \in Tabs, NEW r \in Regs, NEW p \in Payments,
             OpenPaymentLink(t, r, p)
      PROVE  TabsWait'
  BY <1>7 DEF OpenPaymentLink, LoadTab, piVars
<1>8. ASSUME NEW i \in Intents, StoreIntent(i)
      PROVE  TabsWait'
  BY <1>8 DEF StoreIntent, Waiting
<1>9. ASSUME NEW i \in Intents, AbortIntent(i)
      PROVE  TabsWait'
  BY <1>9 DEF AbortIntent, Waiting
<1>10. ASSUME NEW i \in Intents, Capture(i)
       PROVE  TabsWait'
  BY <1>10 DEF Capture, tabVars
<1>11. CASE UNCHANGED <<stage, tabPI, piState>>
  BY <1>11
<1> QED
  BY <1>1, <1>2, <1>3, <1>4, <1>5, <1>6, <1>7, <1>8, <1>9, <1>10, <1>11, <1>12
  DEF Next, TabStep, IntentStep, RegStep, AdminStep, vars, piVars, tabVars,
      UpdateSlot, PaymentSucceeded, Expire, FindExpired, CleanUpExpired,
      FindStale, ResetStale, AdminCreate

\* What Stripe has captured stays captured, for the same registration.
LEMMA CapturedStays ==
    ASSUME TypeOK, TabsWait, [Next]_vars,
           NEW i \in Intents, piState[i] = "captured"
    PROVE  piState'[i] = "captured" /\ piReg'[i] = piReg[i]
<1> USE DEF TypeOK, TabsWait
<1>1. ASSUME NEW t \in Tabs, CreateIntent(t)
      PROVE  piState'[i] = "captured" /\ piReg'[i] = piReg[i]
  BY <1>1 DEF CreateIntent
<1>2. ASSUME NEW t \in Tabs, CardDeclined(t) \/ CardSubmitted(t)
      PROVE  piState'[i] = "captured" /\ piReg'[i] = piReg[i]
  BY <1>2 DEF CardDeclined, CardSubmitted
<1>3. ASSUME NEW j \in Intents, StoreIntent(j) \/ AbortIntent(j) \/ Capture(j)
      PROVE  piState'[i] = "captured" /\ piReg'[i] = piReg[i]
  BY <1>3 DEF StoreIntent, AbortIntent, Capture
<1>4. CASE UNCHANGED piVars
  BY <1>4 DEF piVars
<1> QED
  BY ZenonT(40), <1>1, <1>2, <1>3, <1>4
  DEF Next, TabStep, IntentStep, RegStep, AdminStep, vars, ReserveCleanUp,
      ReserveClaim, ReserveConflict, UpdateSlot, CreatePayment, UpdatePayment,
      Back, Cancel, LoseTab, StartEdit, AddPlayers,
      OpenPaymentLink, PaymentSucceeded, Expire, FindExpired, CleanUpExpired,
      FindStale, ResetStale, AdminCreate

\* Only paymentConfirmed makes a slot RESERVED, and it is called for an intent that
\* was captured for the slot's registration.
LEMMA ReservedWasCapturedStep ==
    ASSUME TypeOK, TabsWait, ReservedWasCaptured, [Next]_vars
    PROVE  ReservedWasCaptured'
<1> SUFFICES ASSUME NEW s \in Slots, status'[s] = "R"
             PROVE  \E i \in Intents : piState'[i] = "captured"
                                      /\ piReg'[i] = slotReg'[s]
  BY DEF ReservedWasCaptured
<1>1. CASE status[s] = "R" /\ slotReg'[s] = slotReg[s]
  BY <1>1, CapturedStays DEF ReservedWasCaptured
<1>2. ASSUME NEW i \in Intents, PaymentSucceeded(i), status[s] # "R"
      PROVE  piState'[i] = "captured" /\ piReg'[i] = slotReg'[s]
  BY <1>2 DEF TypeOK, PaymentSucceeded, Delivered, Seated, SlotsOf, piVars
<1>3. ASSUME NEW i \in Intents, PaymentSucceeded(i), status[s] = "R"
      PROVE  slotReg'[s] = slotReg[s]
  BY <1>3 DEF TypeOK, PaymentSucceeded
<1>4. CASE \E i \in Intents : PaymentSucceeded(i)
  BY <1>1, <1>2, <1>3, <1>4
<1>5. CASE ~\E i \in Intents : PaymentSucceeded(i)
  <2>1. status[s] = "R" /\ slotReg'[s] = slotReg[s]
    BY <1>5, SheetSteps DEF TypeOK, SheetStep, ReleaseSlots, Claimed, AllFree,
                            StoreIntent, PaymentProcessing, ResetStale
  <2> QED
    BY <2>1, <1>1
<1> QED
  BY <1>4, <1>5

\* Two tabs never wait for, or submit, the same PaymentIntent.
THEOREM TabsAlwaysWait == Spec => []TabsWait
<1>1. Init => TabsWait
  BY DEF Init, TabsWait
<1>2. TypeOK /\ TabsWait /\ [Next]_vars => TabsWait'
  BY TabsWaitStep
<1>3. QED
  BY <1>1, <1>2, TypeCorrect, PTL DEF Spec

\* No interleaving, administrator or late job makes a slot RESERVED for which
\* Stripe has captured nothing under the slot's registration.
THEOREM NothingReservedUncharged == Spec => []ReservedWasCaptured
<1>1. Init => ReservedWasCaptured
  BY DEF Init, ReservedWasCaptured
<1>2. TypeOK /\ TabsWait /\ ReservedWasCaptured /\ [Next]_vars => ReservedWasCaptured'
  BY ReservedWasCapturedStep
<1>3. QED
  BY <1>1, <1>2, TypeCorrect, TabsAlwaysWait, PTL DEF Spec

-----------------------------------------------------------------------------
(* The tee sheet implements the ledger.  The one step that would not is       *)
(* resetStaleRegistrations taking a RESERVED slot back to PENDING, so the     *)
(* invariant follows the clock: a registration the job can find has no        *)
(* reserved slot, provided the job acts at once or there is nothing to find.  *)

\* A slot's registration_id is that of a row that was inserted.
HeldByMade == \A s \in Slots : slotReg[s] # None => slotReg[s] \in made

\* A registration with slots sold and slots waiting has no expiry.
NoSaleOnClock ==
    \A s, q \in Slots :
        slotReg[s] = slotReg[q] /\ status[s] = "X" /\ status[q] = "R"
        => expires[slotReg[s]] = "null"

\* Without administrators, nothing that waits for payment has an expiry.
NoWaitOnClock ==
    "admin" \notin Hazards =>
        \A s \in Slots : status[s] = "X" => expires[slotReg[s]] = "null"

\* The stale-payment job finds nothing, or acts on what it finds at once.
JobsAtOnce == "admin" \notin Hazards \/ "jobs" \notin Hazards

LedgerInv ==
    /\ AvailableIsUnheld
    /\ HeldByMade
    /\ NoSaleOnClock
    /\ NoWaitOnClock
    /\ JobsAtOnce => staleRegs = {}

\* Giving slots back and dropping the expiry creates none of these situations.
LEMMA ReleaseKeepsClocks ==
    ASSUME TypeOK, AvailableIsUnheld, HeldByMade, NoSaleOnClock, NoWaitOnClock,
           NEW S \in SUBSET Slots, ReleaseSlots(S), NEW R, Orphan(R)
    PROVE  HeldByMade' /\ NoSaleOnClock' /\ NoWaitOnClock'
<1> USE FlowAssumption DEF TypeOK
<1>1. \A s \in Slots : slotReg'[s] # None =>
          slotReg'[s] = slotReg[s] /\ status'[s] = status[s]
  BY DEF ReleaseSlots
<1>2. \A s \in Slots : status'[s] \in {"X", "R"} =>
          slotReg'[s] = slotReg[s] /\ status'[s] = status[s] /\ slotReg[s] \in Regs
  BY DEF ReleaseSlots, AvailableIsUnheld
<1>3. \A r \in Regs : expires[r] = "null" => expires'[r] = "null"
  BY DEF Orphan
<1>4. HeldByMade'
  BY <1>1 DEF HeldByMade, Orphan
<1>5. NoSaleOnClock'
  BY <1>2, <1>3 DEF NoSaleOnClock
<1>6. NoWaitOnClock'
  BY <1>2, <1>3 DEF NoWaitOnClock
<1> QED
  BY <1>4, <1>5, <1>6

\* LedgerInv is inductive: no handler puts a paid registration, or without
\* administrators one awaiting payment, back on the clock.
LEMMA LedgerInvStep ==
    ASSUME TypeOK, LedgerInv, [Next]_vars
    PROVE  LedgerInv'
<1> USE FlowAssumption DEF LedgerInv
<1> DEFINE Goal == /\ HeldByMade'
                   /\ NoSaleOnClock'
                   /\ NoWaitOnClock'
                   /\ JobsAtOnce => staleRegs' = {}
<1>0. AvailableIsUnheld'
  BY SheetSteps, AvailableIsUnheldStep
<1>1. ASSUME NEW t \in Tabs, NEW S \in SUBSET Slots, ReserveCleanUp(t, S)
      PROVE  Goal
  <2>1. CASE Existing(TabUser[t]) = {}
    BY <1>1, <2>1 DEF HeldByMade, NoSaleOnClock, NoWaitOnClock, ReserveCleanUp,
                      slotVars, regVars, jobVars
  <2>2. CASE Existing(TabUser[t]) # {}
    <3>1. PICK r \in Existing(TabUser[t]) : ReleaseSlots(SlotsOf(r)) /\ Orphan({r})
      BY <1>1, <2>2 DEF ReserveCleanUp, GiveUpUnpaid
    <3>2. HeldByMade' /\ NoSaleOnClock' /\ NoWaitOnClock'
      BY <3>1, ReleaseKeepsClocks DEF SlotsOf
    <3> QED
      BY <1>1, <3>2 DEF ReserveCleanUp, jobVars
  <2> QED
    BY <2>1, <2>2
<1>2. ASSUME NEW t \in Tabs, ReserveClaim(t)
      PROVE  Goal
  BY <1>2 DEF TypeOK, HeldByMade, NoSaleOnClock, NoWaitOnClock, JobsAtOnce,
              ReserveClaim, AllFree, AvailableIsUnheld, jobVars
<1>3. ASSUME NEW t \in Tabs, Cancel(t)
      PROVE  Goal
  <2>1. HeldByMade' /\ NoSaleOnClock' /\ NoWaitOnClock'
    BY <1>3, ReleaseKeepsClocks DEF Cancel, GiveUpUnpaid, SlotsOf
  <2> QED
    BY <1>3, <2>1 DEF Cancel, jobVars
<1>4. ASSUME NEW t \in Tabs, NEW r \in Regs, NEW seat \in Seatings,
             AddPlayers(t, r, seat)
      PROVE  Goal
  <2>1. r \in made
    BY <1>4, FlowAssumption DEF TypeOK, HeldByMade, AddPlayers, InGroup, SlotsOf
  <2> QED
    BY <1>4, <2>1 DEF TypeOK, HeldByMade, NoSaleOnClock, NoWaitOnClock, JobsAtOnce,
                      AddPlayers, AllFree, AvailableIsUnheld, regVars, jobVars
<1>5. ASSUME NEW u \in Users, NEW seat \in Seatings, AdminCreate(u, seat)
      PROVE  Goal
  BY <1>5 DEF TypeOK, HeldByMade, NoSaleOnClock, NoWaitOnClock, JobsAtOnce, AdminCreate,
              AllFree, AvailableIsUnheld, jobVars
<1>6. ASSUME NEW i \in Intents, StoreIntent(i)
      PROVE  Goal
  BY <1>6 DEF TypeOK, HeldByMade, NoSaleOnClock, NoWaitOnClock, JobsAtOnce, StoreIntent,
              PaymentProcessing, AvailableIsUnheld, jobVars
<1>7. ASSUME NEW i \in Intents, PaymentSucceeded(i)
      PROVE  Goal
  BY <1>7 DEF TypeOK, HeldByMade, NoSaleOnClock, NoWaitOnClock, JobsAtOnce,
              PaymentSucceeded, Seated, SlotsOf, AvailableIsUnheld, regVars, jobVars
<1>8. ASSUME NEW r \in Regs, Expire(r)
      PROVE  Goal
  BY <1>8 DEF TypeOK, HeldByMade, NoSaleOnClock, NoWaitOnClock, JobsAtOnce, Expire,
              AvailableIsUnheld, slotVars, jobVars
<1>9. ASSUME NEW r \in Regs, CleanUpExpired(r)
      PROVE  Goal
  <2>1. DueSlots(r) \in SUBSET Slots
    BY DEF TypeOK, DueSlots, Expired, Pending, SlotsOf
  <2>2. HeldByMade' /\ NoSaleOnClock' /\ NoWaitOnClock'
    BY <1>9, <2>1, ReleaseKeepsClocks DEF CleanUpExpired
  <2> QED
    BY <1>9, <2>2 DEF CleanUpExpired
<1>10. ASSUME NEW r \in Regs, FindStale(r)
       PROVE  Goal
  BY <1>10 DEF TypeOK, HeldByMade, NoSaleOnClock, NoWaitOnClock, JobsAtOnce, FindStale,
               AwaitsTooLong, SlotsOf, slotVars, regVars
<1>11. ASSUME NEW r \in Regs, ResetStale(r)
       PROVE  Goal
  BY <1>11 DEF TypeOK, HeldByMade, NoSaleOnClock, NoWaitOnClock, JobsAtOnce, ResetStale,
               regVars
<1>12. ASSUME UNCHANGED <<status, slotReg, made, expires, staleRegs>>
       PROVE  Goal
  <2>1. HeldByMade' /\ NoSaleOnClock' /\ NoWaitOnClock'
    BY <1>12 DEF HeldByMade, NoSaleOnClock, NoWaitOnClock
  <2>2. staleRegs' = staleRegs
    BY <1>12
  <2> QED
    BY <2>1, <2>2
<1>13. Goal
  BY <1>1, <1>2, <1>3, <1>4, <1>5, <1>6, <1>7, <1>8, <1>9, <1>10, <1>11, <1>12
  DEF slotVars, regVars, jobVars, vars, Next, TabStep, IntentStep, RegStep,
      AdminStep, ReserveConflict, UpdateSlot, CreatePayment, UpdatePayment, Back,
      CreateIntent, CardDeclined, CardSubmitted, LoseTab, StartEdit,
      OpenPaymentLink, AbortIntent, Capture, FindExpired
<1> QED
  BY <1>0, <1>13

\* Every step of the sign-up is a claim, a release or a settlement of the ledger,
\* or leaves it alone.
LEMMA LedgerStep ==
    ASSUME JobsAtOnce, TypeOK, LedgerInv, [Next]_vars
    PROVE  [Ledger!LedgerNext]_(Ledger!ledgerVars)
<1> DEFINE Sold == {s \in Slots : status[s] = "R"}
<1> USE FlowAssumption DEF TypeOK, Ledger!LedgerNext, Ledger!ledgerVars, Ledger!Assign
<1>1. CASE UNCHANGED <<status, slotReg>>
  BY <1>1
<1>2. ASSUME NEW S \in SUBSET Slots, ReleaseSlots(S)
      PROVE  Ledger!LedgerNext
  <2> DEFINE safe == {s \in S : status[s] # "R"}
  <2>1. Ledger!Release(safe)
    BY <1>2 DEF ReleaseSlots, Ledger!Release
  <2> QED
    BY <2>1
<1>3. ASSUME NEW r \in Regs, NEW S \in SUBSET Slots, Claimed(r, S)
      PROVE  Ledger!LedgerNext
  <2>1. Ledger!Claim(r, S)
    BY <1>3 DEF Claimed, AllFree, Ledger!Claim, LedgerInv, AvailableIsUnheld
  <2> QED
    BY <2>1
<1>4. ASSUME NEW i \in Intents, StoreIntent(i)
      PROVE  UNCHANGED <<slotReg, Sold>>
  BY <1>4 DEF StoreIntent, PaymentProcessing
<1>5. ASSUME NEW i \in Intents, PaymentSucceeded(i), piReg[i] \in Regs
      PROVE  Ledger!LedgerNext
  <2> DEFINE new == Seated(piReg[i])
             empty == {s \in SlotsOf(piReg[i]) : occupant[s] = None /\ status[s] # "R"}
  <2>1. PICK r \in Regs, S \in SUBSET Slots, F \in SUBSET Slots :
          r = piReg[i] /\ S = new /\ F = empty
    BY <1>5 DEF Seated, SlotsOf
  <2>2. Ledger!Settle(r, S, F)
    BY <1>5, <2>1 DEF PaymentSucceeded, Seated, SlotsOf, Ledger!Settle
  <2> QED
    BY <2>2
<1>6. ASSUME NEW i \in Intents, PaymentSucceeded(i), piReg[i] = None
      PROVE  UNCHANGED <<slotReg, Sold>>
  BY <1>6 DEF PaymentSucceeded, Seated, SlotsOf, LedgerInv, AvailableIsUnheld
<1>7. ASSUME NEW r \in Regs, ResetStale(r)
      PROVE  UNCHANGED <<slotReg, Sold>>
  <2>1. AwaitsTooLong(r)
    BY <1>7 DEF ResetStale, LedgerInv, JobsAtOnce
  <2>2. \A s \in SlotsOf(r) : status[s] # "R"
    BY <2>1 DEF AwaitsTooLong, SlotsOf, LedgerInv, NoSaleOnClock
  <2> QED
    BY <1>7, <2>2 DEF ResetStale, SlotsOf
<1> QED
  BY SheetSteps, <1>1, <1>2, <1>3, <1>4, <1>5, <1>6, <1>7 DEF SheetStep

\* Sign-up implements SlotLedger, with every disturbance except a stale-payment job
\* that mails while the webhook runs: a slot never passes from one registration to
\* another without being free in between, and what the webhook has sold stays sold.
THEOREM ImplementsLedger == JobsAtOnce => (Spec => IsLedger)
<1>1. Init => LedgerInv
  BY DEF Init, LedgerInv, AvailableIsUnheld, HeldByMade, NoSaleOnClock, NoWaitOnClock
<1>2. TypeOK /\ LedgerInv /\ [Next]_vars => LedgerInv'
  BY LedgerInvStep
<1>3. Init => Ledger!LedgerInit
  BY DEF Init, Ledger!LedgerInit
<1>4. JobsAtOnce /\ TypeOK /\ LedgerInv /\ [Next]_vars
      => [Ledger!LedgerNext]_(Ledger!ledgerVars)
  BY LedgerStep
<1>5. SUFFICES ASSUME JobsAtOnce PROVE Spec => IsLedger
  OBVIOUS
<1>6. TypeOK /\ LedgerInv /\ [Next]_vars
      => [Ledger!LedgerNext]_(Ledger!ledgerVars)
  BY <1>4, <1>5
<1>7. QED
  BY <1>1, <1>2, <1>3, <1>6, TypeCorrect, PTL DEF Spec, IsLedger, Ledger!LedgerSpec

-----------------------------------------------------------------------------
(* Fee rows go with their payment.                                           *)

\* Only payments that exist have fee rows.
FeesOfLive == \A p \in Payments : p \notin live => fees[p] = {}

\* deletePaymentAndFees leaves no fee row behind, createPayment and the
\* administrator insert them together with the payment, updatePayment looks first.
LEMMA FeesOfLiveStep ==
    ASSUME TypeOK, FeesOfLive, [Next]_vars
    PROVE  FeesOfLive'
<1> USE DEF TypeOK, FeesOfLive
<1>1. ASSUME NEW t \in Tabs, CreatePayment(t) \/ UpdatePayment(t)
      PROVE  FeesOfLive'
  BY <1>1 DEF CreatePayment, UpdatePayment
<1>2. ASSUME NEW P \in SUBSET Payments, DeletePayments(P)
      PROVE  FeesOfLive'
  BY <1>2 DEF DeletePayments
<1>3. ASSUME NEW u \in Users, NEW seat \in Seatings, AdminCreate(u, seat)
      PROVE  FeesOfLive'
  BY <1>3 DEF AdminCreate
<1>4. CASE UNCHANGED <<live, fees>>
  BY <1>4
<1>5. \A r : PaymentsOn(r) \in SUBSET Payments
  BY DEF PaymentsOn
<1> QED
  BY ZenonT(40), <1>1, <1>2, <1>3, <1>4, <1>5
  DEF Next, TabStep, IntentStep, RegStep, AdminStep, vars, payVars, ReserveCleanUp,
      GiveUpUnpaid, ReserveClaim, ReserveConflict, UpdateSlot, Back, CreateIntent,
      CardDeclined, CardSubmitted, Cancel, LoseTab, StartEdit, AddPlayers,
      OpenPaymentLink, StoreIntent, AbortIntent, Capture, PaymentSucceeded, Expire,
      FindExpired, CleanUpExpired, FindStale, ResetStale

\* A payment that was deleted has no fee rows, whatever interleaves with what.
LEMMA DeletedHaveNoFees == Spec => []FeesOfLive
<1>1. Init => FeesOfLive
  BY DEF Init, FeesOfLive
<1>2. TypeOK /\ FeesOfLive /\ [Next]_vars => FeesOfLive'
  BY FeesOfLiveStep
<1> QED
  BY <1>1, <1>2, TypeCorrect, PTL DEF Spec
===============================================================================
