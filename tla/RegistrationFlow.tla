--------------------------- MODULE RegistrationFlow ---------------------------
(***************************************************************************)
(* Online sign-up for one choosable event: a browser tab reserves slots,   *)
(* saves a payment, obtains a Stripe PaymentIntent and submits the card;   *)
(* Stripe's webhook turns the slots into a sale; cron jobs return what was *)
(* abandoned.  One action per handler of apps/api/src/registration and     *)
(* apps/api/src/stripe, and one per step of the tab that drives them       *)
(* (apps/public-next).                                                     *)
(*                                                                         *)
(* Each API handler is one atomic step, except where it commits and then   *)
(* goes on: createAndReserve (stale clean-up, then the transaction that    *)
(* claims the slots) and createPaymentIntent (the Stripe call, then the    *)
(* update that stores the code).  Tabs, cron jobs, Stripe and its webhook  *)
(* interleave freely between steps.                                        *)
(***************************************************************************)

CONSTANTS
    Users,          \* accounts; an account and its player are one value
    Tabs,           \* browser tabs running the public site
    TabUser,        \* the account signed in to each tab
    Slots,          \* registration_slot rows of the event
    Regs,           \* registration ids
    Payments,       \* payment ids
    Intents,        \* Stripe PaymentIntent ids
    None,           \* SQL NULL, an id the client does not have
    Hazards         \* the disturbances admitted, see below

\* "window"  a hold may be cancelled or expire while createPaymentIntent is
\*           waiting for Stripe on its behalf
\* "stale"   a tab may save a payment, or edit a slot, for a registration the
\*           server has already taken away from it
\* "manage"  a group returns to a registration that is awaiting payment or paid
\*           to add players or buy optional fees
\* "admin"   an administrator creates registrations and the stale-payment job
\*           finds them
\* "jobs"    a cron job acts on rows that changed after it read them
\* "unsure"  stripe.confirmPayment reports an error although Stripe has taken
\*           the submission (its answer was lost)
HazardKinds == {"window", "stale", "manage", "admin", "jobs", "unsure"}

ASSUME FlowAssumption ==
    /\ Hazards \subseteq HazardKinds
    /\ TabUser \in [Tabs -> Users]
    /\ None \notin Users \cup Regs \cup Payments \cup Intents
    /\ {"pending", "admin"} \cap Intents = {}

VARIABLES
    \* registration_slot
    status,         \* "A"vailable, "P"ending, "X" awaiting payment, "R"eserved
    slotReg,        \* registration_id
    occupant,       \* player_id
    \* registration
    made,           \* the rows inserted so far; none is ever deleted
    regUser,        \* user_id, nulled when the registration is given up
    expires,        \* "null", or a time still to come or already "past"
    \* payment, registration_fee
    issued,         \* payment ids handed out by the auto-increment column
    live,           \* the payment rows that exist
    code,           \* payment_code: "pending", "admin", or a PaymentIntent
    confirmed,      \* the payments with confirmed = 1
    fees,           \* fees[p]: the slots payment p has fee rows for
    \* Stripe
    piState,        \* where each PaymentIntent stands
    piPay, piReg,   \* its metadata: paymentId, registrationId
    piFor,          \* the slots whose fees make up its amount
    \* browser tabs
    stage,          \* what the tab is doing
    mode,           \* "new", "edit", "fees" (edit, players read-only), or "link"
    held,           \* state.registration
    pay,            \* state.payment.id
    cart,           \* the slots in the request, then in state.payment.details
    tabPI,          \* the PaymentIntent the tab waits for or submits
    \* cron jobs
    dueSlots,       \* the expired slots of each registration, as last read
    staleRegs       \* the registrations read as awaiting payment too long

slotVars == <<status, slotReg, occupant>>
regVars == <<made, regUser, expires>>
payVars == <<issued, live, code, confirmed, fees>>
piVars == <<piState, piPay, piReg, piFor>>
tabVars == <<stage, mode, held, pay, cart, tabPI>>
jobVars == <<dueSlots, staleRegs>>
vars == <<slotVars, regVars, payVars, piVars, tabVars, jobVars>>

TypeOK ==
    /\ status \in [Slots -> {"A", "P", "X", "R"}]
    /\ slotReg \in [Slots -> Regs \cup {None}]
    /\ occupant \in [Slots -> Users \cup {None}]
    /\ made \subseteq Regs
    /\ regUser \in [Regs -> Users \cup {None}]
    /\ expires \in [Regs -> {"null", "future", "past"}]
    /\ issued \subseteq Payments
    /\ live \subseteq issued
    /\ code \in [Payments -> Intents \cup {"pending", "admin"}]
    /\ confirmed \subseteq Payments
    /\ fees \in [Payments -> SUBSET Slots]
    /\ piState \in [Intents -> {"unused", "created", "open", "submitted",
                                "captured", "failed"}]
    /\ piPay \in [Intents -> Payments \cup {None}]
    /\ piReg \in [Intents -> Regs \cup {None}]
    /\ piFor \in [Intents -> SUBSET Slots]
    /\ stage \in [Tabs -> {"idle", "reserving", "editing", "payment",
                           "intent", "confirm"}]
    /\ mode \in [Tabs -> {"new", "edit", "fees", "link"}]
    /\ held \in [Tabs -> Regs \cup {None}]
    /\ pay \in [Tabs -> Payments \cup {None}]
    /\ cart \in [Tabs -> SUBSET Slots]
    /\ tabPI \in [Tabs -> Intents \cup {None}]
    /\ dueSlots \in [Regs -> SUBSET Slots]
    /\ staleRegs \subseteq Regs

Init ==
    /\ status = [s \in Slots |-> "A"]
    /\ slotReg = [s \in Slots |-> None]
    /\ occupant = [s \in Slots |-> None]
    /\ made = {}
    /\ regUser = [r \in Regs |-> None]
    /\ expires = [r \in Regs |-> "null"]
    /\ issued = {}
    /\ live = {}
    /\ code = [p \in Payments |-> "pending"]
    /\ confirmed = {}
    /\ fees = [p \in Payments |-> {}]
    /\ piState = [i \in Intents |-> "unused"]
    /\ piPay = [i \in Intents |-> None]
    /\ piReg = [i \in Intents |-> None]
    /\ piFor = [i \in Intents |-> {}]
    /\ stage = [t \in Tabs |-> "idle"]
    /\ mode = [t \in Tabs |-> "new"]
    /\ held = [t \in Tabs |-> None]
    /\ pay = [t \in Tabs |-> None]
    /\ cart = [t \in Tabs |-> {}]
    /\ tabPI = [t \in Tabs |-> None]
    /\ dueSlots = [r \in Regs |-> {}]
    /\ staleRegs = {}

-----------------------------------------------------------------------------
(* Queries *)

SlotsOf(r) == {s \in Slots : slotReg[s] = r}

Pending(r) == {s \in SlotsOf(r) : status[s] = "P"}

\* (faulty) one free slot is enough
SomeFree(S) == \E s \in S : status[s] = "A"

\* The check inside every transaction that claims slots, made under row locks.
AllFree(S) == \A s \in S : status[s] = "A"

InGroup(u, r) == \E s \in SlotsOf(r) : occupant[s] = u

SignedUp(u) == \E s \in Slots : occupant[s] = u

\* (faulty) the join condition lost: everybody's payments
AnyPayments(r) == {p \in live : fees[p] # {}}

\* payment JOIN registration_fee JOIN registration_slot ON registration_id = r
PaymentsOn(r) == {p \in live : \E s \in fees[p] : slotReg[s] = r}

\* The guard cancelRegistration and cleanupStaleRegistration share.
InFlight(p) == p \in confirmed \/ code[p] # "pending"

\* A createPaymentIntent for r is between the Stripe call and its next write.
AwaitingStripe(r) == \E i \in Intents : piState[i] = "created" /\ piReg[i] = r

\* What "window" switches on.
Interruptible(r) == "window" \in Hazards \/ ~AwaitingStripe(r)

(* Updates *)

\* (faulty) the slots keep their registration_id
ReleaseSlotsInPlace(S) ==
    LET safe == {s \in S : status[s] # "R"} IN
    /\ status' = [s \in Slots |-> IF s \in safe THEN "A" ELSE status[s]]
    /\ occupant' = [s \in Slots |-> IF s \in safe THEN None ELSE occupant[s]]
    /\ UNCHANGED slotReg

\* releaseSlots: an update by id that leaves RESERVED slots alone.
ReleaseSlots(S) ==
    LET safe == {s \in S : status[s] # "R"} IN
    /\ status' = [s \in Slots |-> IF s \in safe THEN "A" ELSE status[s]]
    /\ slotReg' = [s \in Slots |-> IF s \in safe THEN None ELSE slotReg[s]]
    /\ occupant' = [s \in Slots |-> IF s \in safe THEN None ELSE occupant[s]]

\* userId and expires are nulled; the row stays for the change log.
Orphan(R) ==
    /\ regUser' = [r \in Regs |-> IF r \in R THEN None ELSE regUser[r]]
    /\ expires' = [r \in Regs |-> IF r \in R THEN "null" ELSE expires[r]]
    /\ UNCHANGED made

\* deletePaymentAndFees
DeletePayments(P) ==
    /\ live' = live \ P
    /\ fees' = [p \in Payments |-> IF p \in P THEN {} ELSE fees[p]]
    /\ UNCHANGED <<issued, code, confirmed>>

\* The provider's default state.
ResetTab(t) ==
    /\ stage' = [stage EXCEPT ![t] = "idle"]
    /\ mode' = [mode EXCEPT ![t] = "new"]
    /\ held' = [held EXCEPT ![t] = None]
    /\ pay' = [pay EXCEPT ![t] = None]
    /\ cart' = [cart EXCEPT ![t] = {}]
    /\ tabPI' = [tabPI EXCEPT ![t] = None]

MoveTab(t, where) ==
    /\ stage' = [stage EXCEPT ![t] = where]
    /\ UNCHANGED <<mode, held, pay, cart, tabPI>>

LoadTab(t, where, m, r, p, S) ==
    /\ stage' = [stage EXCEPT ![t] = where]
    /\ mode' = [mode EXCEPT ![t] = m]
    /\ held' = [held EXCEPT ![t] = r]
    /\ pay' = [pay EXCEPT ![t] = p]
    /\ cart' = [cart EXCEPT ![t] = S]
    /\ tabPI' = [tabPI EXCEPT ![t] = None]

-----------------------------------------------------------------------------
(* Reserving slots *)

\* cleanupStaleRegistration, and the body of cancelRegistration: refused (409)
\* while a payment is in flight, else the payments are deleted, the slots
\* released and the row orphaned.
GiveUpUnpaid(r) ==
    /\ \A p \in PaymentsOn(r) : ~InFlight(p)
    /\ Interruptible(r)
    /\ DeletePayments(PaymentsOn(r))
    /\ ReleaseSlots(SlotsOf(r))
    /\ Orphan({r})

\* The registrations findRegistrationByUserAndEvent joins for a user.
Existing(u) == {r \in made : regUser[r] = u}

\* (faulty) as before the incident fix, and for any status: what the user held is
\* released unguarded and its payments are left behind
ReserveCleanUpBlind(t, S) ==
    /\ stage[t] \in {"idle", "editing"}
    /\ IF Existing(TabUser[t]) = {} THEN UNCHANGED <<slotVars, regVars, payVars>>
       ELSE \E r \in Existing(TabUser[t]) :
              /\ ReleaseSlots(SlotsOf(r))
              /\ Orphan({r})
              /\ UNCHANGED payVars
    /\ LoadTab(t, "reserving", "new", None, None, S)
    /\ UNCHANGED <<piVars, jobVars>>

\* createAndReserve up to its transaction: a user with slots awaiting payment
\* or reserved is refused, one with a payment in flight too; what else the
\* user still held is cleaned up, and that is committed whatever comes next.
\* A refusal writes nothing and clears the tab (LoseTab).
ReserveCleanUp(t, S) ==
    LET u == TabUser[t] IN
    /\ stage[t] \in {"idle", "editing"}
    /\ \A s \in Slots : slotReg[s] \in Existing(u) => status[s] = "P"
    /\ IF Existing(u) = {} THEN UNCHANGED <<slotVars, regVars, payVars>>
       ELSE \E r \in Existing(u) : GiveUpUnpaid(r)
    /\ LoadTab(t, "reserving", "new", None, None, S)
    /\ UNCHANGED <<piVars, jobVars>>

\* The transaction: all requested slots locked and AVAILABLE, a new
\* registration, the user seated in one of the slots (the lowest: slots are
\* interchangeable here) unless the unique (event, player) key objects.
ReserveClaim(t) ==
    /\ stage[t] = "reserving"
    /\ AllFree(cart[t])
    /\ ~SignedUp(TabUser[t])
    /\ \E r \in Regs \ made, own \in cart[t] :
         /\ made' = made \cup {r}
         /\ regUser' = [regUser EXCEPT ![r] = TabUser[t]]
         /\ expires' = [expires EXCEPT ![r] = "future"]
         /\ status' = [s \in Slots |-> IF s \in cart[t] THEN "P" ELSE status[s]]
         /\ slotReg' = [s \in Slots |-> IF s \in cart[t] THEN r ELSE slotReg[s]]
         /\ occupant' = [s \in Slots |->
                           IF s = own THEN TabUser[t]
                           ELSE IF s \in cart[t] THEN None ELSE occupant[s]]
         /\ LoadTab(t, "editing", "new", r, None, {own})
    /\ UNCHANGED <<payVars, piVars, jobVars>>

\* SlotConflictError, or a duplicate key: rolled back, the tab starts over.
ReserveConflict(t) ==
    /\ stage[t] = "reserving"
    /\ ~AllFree(cart[t]) \/ SignedUp(TabUser[t])
    /\ ResetTab(t)
    /\ UNCHANGED <<slotVars, regVars, payVars, piVars, jobVars>>

\* (faulty) a player removed from a slot leaves the slot's fees in the cart
UpdateSlotKeepFees(t, s, u) ==
    /\ stage[t] = "editing"
    /\ mode[t] # "fees"
    /\ slotReg[s] = held[t]
    /\ InGroup(TabUser[t], slotReg[s])
    /\ occupant[s] # u
    /\ u # None => ~SignedUp(u)
    /\ occupant' = [occupant EXCEPT ![s] = u]
    /\ cart' = [cart EXCEPT ![t] = @ \cup {s}]
    /\ UNCHANGED <<status, slotReg, regVars, payVars, piVars>>
    /\ UNCHANGED <<stage, mode, held, pay, tabPI, jobVars>>

\* The tab adds or drops the slot's required fees.
CartWith(S, s, u) == IF u = None THEN S \ {s} ELSE S \cup {s}

\* PATCH slots/:id.  The server asks that the slot have a registration and the
\* caller be in its group; it does not look at status.
UpdateSlot(t, s, u) ==
    /\ stage[t] = "editing"
    /\ mode[t] # "fees"
    /\ slotReg[s] = held[t] \/ "stale" \in Hazards
    /\ slotReg[s] # None
    /\ InGroup(TabUser[t], slotReg[s])
    /\ occupant[s] # u
    /\ u # None => ~SignedUp(u)
    /\ occupant' = [occupant EXCEPT ![s] = u]
    /\ cart' = [cart EXCEPT ![t] = CartWith(@, s, u)]
    /\ UNCHANGED <<status, slotReg, regVars, payVars, piVars>>
    /\ UNCHANGED <<stage, mode, held, pay, tabPI, jobVars>>

-----------------------------------------------------------------------------
(* Paying *)

\* POST payments: a row with code "pending" and a fee row per slot of the cart.
\* Nothing on the server relates the slots to the caller.
CreatePayment(t) ==
    /\ stage[t] = "editing"
    /\ cart[t] # {}
    /\ pay[t] = None
    /\ "stale" \in Hazards \/ \A s \in cart[t] : slotReg[s] = held[t]
    /\ \E p \in Payments \ issued :
         /\ issued' = issued \cup {p}
         /\ live' = live \cup {p}
         /\ fees' = [fees EXCEPT ![p] = cart[t]]
         /\ pay' = [pay EXCEPT ![t] = p]
    /\ stage' = [stage EXCEPT ![t] = "payment"]
    /\ UNCHANGED <<slotVars, regVars, code, confirmed, piVars>>
    /\ UNCHANGED <<mode, held, cart, tabPI, jobVars>>

\* (faulty) the amounts are updated, the fee rows are not
UpdatePaymentKeepFees(t) ==
    /\ stage[t] = "editing"
    /\ cart[t] # {}
    /\ pay[t] \in live
    /\ MoveTab(t, "payment")
    /\ UNCHANGED <<slotVars, regVars, payVars, piVars, jobVars>>

\* PUT payments/:id: 404 when the row is gone, else the fee rows are replaced.
UpdatePayment(t) ==
    /\ stage[t] = "editing"
    /\ cart[t] # {}
    /\ pay[t] \in live
    /\ "stale" \in Hazards \/ \A s \in cart[t] : slotReg[s] = held[t]
    /\ fees' = [fees EXCEPT ![pay[t]] = cart[t]]
    /\ MoveTab(t, "payment")
    /\ UNCHANGED <<slotVars, regVars, issued, live, code, confirmed, piVars, jobVars>>

\* From the payment page back to the review and register pages.
Back(t) ==
    /\ stage[t] = "payment"
    /\ mode[t] # "link"
    /\ MoveTab(t, "editing")
    /\ UNCHANGED <<slotVars, regVars, payVars, piVars, jobVars>>

\* createPaymentIntent: the payment exists, Stripe creates an intent over the sum
\* of its fees as they are now.
CreateIntent(t) ==
    /\ stage[t] = "payment"
    /\ pay[t] \in live
    /\ \E i \in Intents :
         /\ piState[i] = "unused"
         /\ piState' = [piState EXCEPT ![i] = "created"]
         /\ piPay' = [piPay EXCEPT ![i] = pay[t]]
         /\ piReg' = [piReg EXCEPT ![i] = held[t]]
         /\ piFor' = [piFor EXCEPT ![i] = fees[pay[t]]]
         /\ tabPI' = [tabPI EXCEPT ![t] = i]
    /\ stage' = [stage EXCEPT ![t] = "intent"]
    /\ UNCHANGED <<slotVars, regVars, payVars, mode, held, pay, cart, jobVars>>

\* The tabs whose createPaymentIntent request made i.
Waiting(i) == {t \in Tabs : stage[t] = "intent" /\ tabPI[t] = i}

\* (faulty) a code once stored is not replaced
FirstRecipients(i) == {p \in {piPay[i]} \cap live : code[p] = "pending"}

\* The payment rows an intent's id is stored in: one, or none if it was deleted.
Recipients(i) == {piPay[i]} \cap live

\* paymentProcessing: the pending slots go to AWAITING_PAYMENT and, if there are
\* any, the clock stops.
PaymentProcessing(r) ==
    LET P == {s \in Slots : slotReg[s] = r /\ status[s] = "P"} IN
    /\ status' = [s \in Slots |-> IF s \in P THEN "X" ELSE status[s]]
    /\ expires' = IF P = {} THEN expires ELSE [expires EXCEPT ![r] = "null"]

\* Stripe answered: the code is stored, then the slots are moved on.  The tab
\* hands the client secret to Stripe's form.
StoreIntent(i) ==
    /\ piState[i] = "created"
    /\ piState' = [piState EXCEPT ![i] = "open"]
    /\ code' = [p \in Payments |-> IF p \in Recipients(i) THEN i ELSE code[p]]
    /\ PaymentProcessing(piReg[i])
    /\ stage' = [t \in Tabs |-> IF t \in Waiting(i) THEN "confirm" ELSE stage[t]]
    /\ UNCHANGED <<slotReg, occupant, made, regUser, issued, live, confirmed>>
    /\ UNCHANGED <<fees, piPay, piReg, piFor, mode, held, pay, cart, tabPI, jobVars>>

\* (faulty) a failed attempt blanks the code, so that the next one starts afresh
AbortIntentBlank(i) ==
    /\ piState[i] = "created"
    /\ piState' = [piState EXCEPT ![i] = "failed"]
    /\ code' = [p \in Payments |-> IF p \in Recipients(i) THEN "" ELSE code[p]]
    /\ stage' = [t \in Tabs |-> IF t \in Waiting(i) THEN "payment" ELSE stage[t]]
    /\ UNCHANGED <<slotVars, regVars, issued, live, confirmed, fees>>
    /\ UNCHANGED <<piPay, piReg, piFor, mode, held, pay, cart, tabPI, jobVars>>

\* The Stripe call fails or the process dies before the code is stored.
AbortIntent(i) ==
    /\ piState[i] = "created"
    /\ piState' = [piState EXCEPT ![i] = "failed"]
    /\ stage' = [t \in Tabs |-> IF t \in Waiting(i) THEN "payment" ELSE stage[t]]
    /\ UNCHANGED <<slotVars, regVars, payVars, piPay, piReg, piFor>>
    /\ UNCHANGED <<mode, held, pay, cart, tabPI, jobVars>>

\* stripe.confirmPayment returns an error: the user may try again, and every
\* attempt creates a new intent.  The page takes any error for a refusal, that of
\* a connection lost after Stripe took the submission too.
CardDeclined(t) ==
    /\ stage[t] = "confirm"
    /\ \/ UNCHANGED piState
       \/ /\ "unsure" \in Hazards
          /\ piState' = [piState EXCEPT ![tabPI[t]] = "submitted"]
    /\ MoveTab(t, "payment")
    /\ UNCHANGED <<slotVars, regVars, payVars, piPay, piReg, piFor, jobVars>>

\* (faulty) the page stays and can submit again
CardSubmittedTwice(t) ==
    /\ stage[t] = "confirm"
    /\ piState' = [piState EXCEPT ![tabPI[t]] = "submitted"]
    /\ MoveTab(t, "payment")
    /\ UNCHANGED <<slotVars, regVars, payVars, piPay, piReg, piFor, jobVars>>

\* stripe.confirmPayment redirects: the page, and with it the provider's state,
\* is gone; the outcome is Stripe's.
CardSubmitted(t) ==
    /\ stage[t] = "confirm"
    /\ piState' = [piState EXCEPT ![tabPI[t]] = "submitted"]
    /\ ResetTab(t)
    /\ UNCHANGED <<slotVars, regVars, payVars, piPay, piReg, piFor, jobVars>>

\* Stripe collects the money, or does not.
Capture(i) ==
    /\ piState[i] = "submitted"
    /\ \E outcome \in {"captured", "failed"} :
         piState' = [piState EXCEPT ![i] = outcome]
    /\ UNCHANGED <<slotVars, regVars, payVars, piPay, piReg, piFor, tabVars, jobVars>>

-----------------------------------------------------------------------------
(* The webhook *)

\* (faulty) only the slot of the one who signed up
SeatedSelf(r) ==
    {s \in SlotsOf(r) : status[s] = "X" /\ occupant[s] = regUser[r]}

\* The slots of r a payment turns into a sale.
Seated(r) == {s \in SlotsOf(r) : status[s] = "X" /\ occupant[s] # None}

\* (faulty) the client's word that it submitted the card is enough
DeliveredEarly(i) == piState[i] \in {"submitted", "captured"}

\* The webhook acts on payment_intent.succeeded, which follows the capture.
Delivered(i) == piState[i] = "captured"

\* (faulty) an over-selected slot trips the wire
NotFull(r) == Seated(r) # SlotsOf(r)

\* The tripwire: nobody to seat and the registration given up.
Orphaned(r) == Seated(r) = {} /\ regUser[r] = None

\* The payment the webhook acts on: the one with that code, not yet confirmed.
Payable(i) == {p \in live \ confirmed : code[p] = i}

\* payment_intent.succeeded, delivered any number of times and at any time
\* after the capture.  With nothing payable there is no effect.  On the tripwire
\* the handler throws, alerts the administrator and waits for the next delivery.
PaymentSucceeded(i) ==
    LET r == piReg[i]
        new == Seated(r) IN
    /\ Delivered(i)
    /\ ~Orphaned(r)
    /\ \E p \in Payable(i) : confirmed' = confirmed \cup {p}
    /\ LET empty == {s \in SlotsOf(r) : occupant[s] = None /\ status[s] # "R"} IN
         /\ status' = [s \in Slots |-> IF s \in new THEN "R"
                                       ELSE IF s \in empty THEN "A" ELSE status[s]]
         /\ slotReg' = [s \in Slots |-> IF s \in empty THEN None ELSE slotReg[s]]
    /\ UNCHANGED <<occupant, regVars, issued, live, code, fees, piVars, tabVars, jobVars>>

-----------------------------------------------------------------------------
(* Giving up *)

\* PUT :id/cancel from the button, the countdown or the navigation guard, for a
\* new registration whose group the caller is in.
Cancel(t) ==
    /\ stage[t] \in {"editing", "payment"}
    /\ mode[t] = "new"
    /\ InGroup(TabUser[t], held[t])
    /\ GiveUpUnpaid(held[t])
    /\ ResetTab(t)
    /\ UNCHANGED <<piVars, jobVars>>

\* The tab is closed, crashes, or shows an error that clears its state.  The
\* server is not told.
LoseTab(t) ==
    /\ stage[t] # "idle"
    /\ ResetTab(t)
    /\ UNCHANGED <<slotVars, regVars, payVars, piVars, jobVars>>

\* Time passes.
Expire(r) ==
    /\ expires[r] = "future"
    /\ expires' = [expires EXCEPT ![r] = "past"]
    /\ UNCHANGED <<slotVars, made, regUser, payVars, piVars, tabVars, jobVars>>

\* (faulty) a registration that has payments is passed over
ExpiredUnpaid(r) ==
    IF expires[r] = "past" /\ PaymentsOn(r) = {} THEN Pending(r) ELSE {}

\* findExpiredPendingRegistrations
Expired(r) == IF expires[r] = "past" THEN Pending(r) ELSE {}

\* What the job works on: the rows of its query, which "jobs" lets grow old.
DueSlots(r) == IF "jobs" \in Hazards THEN dueSlots[r] ELSE Expired(r)

FindExpired(r) ==
    /\ "jobs" \in Hazards
    /\ Expired(r) # {}
    /\ dueSlots' = [dueSlots EXCEPT ![r] = Expired(r)]
    /\ UNCHANGED <<slotVars, regVars, payVars, piVars, tabVars, staleRegs>>

\* cleanUpExpired, every five minutes, for one registration: all payments with
\* a fee on any of its slots are deleted, whatever their state, and the slots
\* that were PENDING are released.
CleanUpExpired(r) ==
    /\ DueSlots(r) # {}
    /\ Interruptible(r)
    /\ DeletePayments(PaymentsOn(r))
    /\ ReleaseSlots(DueSlots(r))
    /\ Orphan({r})
    /\ dueSlots' = [dueSlots EXCEPT ![r] = {}]
    /\ UNCHANGED <<piVars, tabVars, staleRegs>>

-----------------------------------------------------------------------------
(* Coming back to a registration: "manage" *)

\* "Get in Skins": a member of the group buys fees for players already in.
StartEdit(t, r) ==
    /\ "manage" \in Hazards
    /\ stage[t] = "idle"
    /\ InGroup(TabUser[t], r)
    /\ \E s \in SlotsOf(r) : status[s] \in {"X", "R"}
    /\ \E S \in SUBSET {s \in SlotsOf(r) : occupant[s] # None} :
         S # {} /\ LoadTab(t, "editing", "fees", r, None, S)
    /\ UNCHANGED <<slotVars, regVars, payVars, piVars, jobVars>>

\* addPlayersToRegistration: one AVAILABLE slot per player, claimed as PENDING.
\* The registration's expiry is not touched.
AddPlayers(t, r, seat) ==
    LET S == DOMAIN seat IN
    /\ "manage" \in Hazards
    /\ stage[t] = "idle"
    /\ InGroup(TabUser[t], r)
    /\ \E s \in SlotsOf(r) : status[s] \in {"X", "R"}
    /\ AllFree(S) /\ \A s \in S : ~SignedUp(seat[s])
    /\ status' = [s \in Slots |-> IF s \in S THEN "P" ELSE status[s]]
    /\ slotReg' = [s \in Slots |-> IF s \in S THEN r ELSE slotReg[s]]
    /\ occupant' = [s \in Slots |-> IF s \in S THEN seat[s] ELSE occupant[s]]
    /\ LoadTab(t, "editing", "edit", r, None, S)
    /\ UNCHANGED <<regVars, payVars, piVars, jobVars>>

-----------------------------------------------------------------------------
(* Administrators: "admin" *)

\* createChooseableRegistration: slots go straight to AWAITING_PAYMENT with an
\* expiry that nothing clears later; a waived payment is born confirmed.
AdminCreate(u, seat) ==
    LET S == DOMAIN seat IN
    /\ "admin" \in Hazards
    /\ AllFree(S) /\ \A s \in S : ~SignedUp(seat[s])
    /\ \E r \in Regs \ made, p \in Payments \ issued, waived \in BOOLEAN :
         /\ made' = made \cup {r}
         /\ regUser' = [regUser EXCEPT ![r] = u]
         /\ expires' = [expires EXCEPT ![r] = "future"]
         /\ issued' = issued \cup {p}
         /\ live' = live \cup {p}
         /\ code' = [code EXCEPT ![p] = "admin"]
         /\ confirmed' = IF waived THEN confirmed \cup {p} ELSE confirmed
         /\ fees' = [fees EXCEPT ![p] = S]
         /\ slotReg' = [s \in Slots |-> IF s \in S THEN r ELSE slotReg[s]]
    /\ status' = [s \in Slots |-> IF s \in S THEN "X" ELSE status[s]]
    /\ occupant' = [s \in Slots |-> IF s \in S THEN seat[s] ELSE occupant[s]]
    /\ UNCHANGED <<piVars, tabVars, jobVars>>

\* The mailed link: the payment is still the administrator's request and the
\* registration has not expired.
OpenPaymentLink(t, r, p) ==
    /\ stage[t] = "idle"
    /\ r \in made /\ regUser[r] = TabUser[t]
    /\ p \in PaymentsOn(r) \ confirmed
    /\ code[p] = "admin"
    /\ expires[r] # "past"
    /\ LoadTab(t, "payment", "link", r, p, fees[p])
    /\ UNCHANGED <<slotVars, regVars, payVars, piVars, jobVars>>

\* findStalePaymentProcessingRegistrations: a slot awaiting payment, an expiry
\* long past and a user to write to.
AwaitsTooLong(r) ==
    /\ expires[r] = "past"
    /\ regUser[r] # None
    /\ \E s \in SlotsOf(r) : status[s] = "X"

FindStale(r) ==
    /\ "jobs" \in Hazards
    /\ AwaitsTooLong(r)
    /\ staleRegs' = staleRegs \cup {r}
    /\ UNCHANGED <<slotVars, regVars, payVars, piVars, tabVars, dueSlots>>

\* notifyStalePayments, every hour: after the mails are sent, all slots of the
\* registrations found are put back to PENDING, whatever their status.
ResetStale(r) ==
    /\ IF "jobs" \in Hazards THEN r \in staleRegs ELSE AwaitsTooLong(r)
    /\ status' = [s \in Slots |-> IF slotReg[s] = r THEN "P" ELSE status[s]]
    /\ staleRegs' = staleRegs \ {r}
    /\ UNCHANGED <<slotReg, occupant, regVars, payVars, piVars, tabVars, dueSlots>>

-----------------------------------------------------------------------------
\* Assignments of players to slots, no player twice.
Seatings ==
    UNION {{f \in [S -> Users] : \A a, b \in S : f[a] = f[b] => a = b}
             : S \in (SUBSET Slots) \ {{}}}

TabStep(t) ==
    \/ \E S \in (SUBSET Slots) \ {{}} : ReserveCleanUp(t, S)
    \/ ReserveClaim(t)
    \/ ReserveConflict(t)
    \/ \E s \in Slots, u \in Users \cup {None} : UpdateSlot(t, s, u)
    \/ CreatePayment(t)
    \/ UpdatePayment(t)
    \/ Back(t)
    \/ CreateIntent(t)
    \/ CardDeclined(t)
    \/ CardSubmitted(t)
    \/ Cancel(t)
    \/ LoseTab(t)
    \/ \E r \in Regs : StartEdit(t, r)
    \/ \E r \in Regs, seat \in Seatings : AddPlayers(t, r, seat)
    \/ \E r \in Regs, p \in Payments : OpenPaymentLink(t, r, p)

IntentStep(i) ==
    \/ StoreIntent(i)
    \/ AbortIntent(i)
    \/ Capture(i)
    \/ PaymentSucceeded(i)

RegStep(r) ==
    \/ Expire(r)
    \/ FindExpired(r)
    \/ CleanUpExpired(r)
    \/ FindStale(r)
    \/ ResetStale(r)

AdminStep == \E u \in Users, seat \in Seatings : AdminCreate(u, seat)

Next ==
    \/ \E t \in Tabs : TabStep(t)
    \/ \E i \in Intents : IntentStep(i)
    \/ \E r \in Regs : RegStep(r)
    \/ AdminStep

Spec == Init /\ [][Next]_vars

-----------------------------------------------------------------------------
(* Safety *)

\* No step deletes a payment that is confirmed or has a PaymentIntent attached:
\* the money may already be taken and the row is all that ties it to a golfer.
\* cancelRegistration and cleanupStaleRegistration check for it; cleanUpExpired
\* does not, and relies on every such registration having lost its expiry.
NoInFlightPaymentDropped ==
    [][\A p \in live : InFlight(p) => p \in live']_vars

\* Every charge submitted to Stripe is found again by the webhook: its payment
\* row exists and carries the code of this intent and no other.
ChargeIsRecorded ==
    \A i \in Intents : piState[i] \in {"submitted", "captured"} =>
        piPay[i] \in live /\ code[piPay[i]] = i

\* Until the webhook comes, everything the golfer is paying for is still kept
\* for them, with a player in it, under a registration nobody has given up.
ChargeHasPlace ==
    \A i \in Intents :
        piState[i] \in {"submitted", "captured"} /\ piPay[i] \notin confirmed =>
            /\ regUser[piReg[i]] # None
            /\ fees[piPay[i]] # {}
            /\ \A s \in fees[piPay[i]] :
                 slotReg[s] = piReg[i] /\ status[s] = "X" /\ occupant[s] # None

\* A reserved slot has been paid for: a confirmed payment has a fee on it.
\* (releaseSlots: "RESERVED slots represent a confirmed payment".)
ReservedIsPaid ==
    \A s \in Slots : status[s] = "R" => \E p \in confirmed \cap live : s \in fees[p]

\* A confirmed payment has bought something: all the slots it has fees for are
\* reserved.
PaidIsReserved ==
    \A p \in confirmed : fees[p] # {} /\ \A s \in fees[p] : status[s] = "R"

\* What is reserved is what has been paid for, no more and no less.
ReservedExactlyPaid == ReservedIsPaid /\ PaidIsReserved

\* No slot is charged for twice: the amounts of two submitted intents, whatever
\* has become of their payments since, are for different slots.  The incident of
\* plans/duplicate-payment-analysis.md.
NoDuplicateCharge ==
    \A i, j \in Intents :
        /\ i # j
        /\ piState[i] \in {"submitted", "captured"}
        /\ piState[j] \in {"submitted", "captured"}
        => piFor[i] \cap piFor[j] = {}

\* A slot carries a registration exactly while it is not AVAILABLE.
AvailableIsUnheld ==
    \A s \in Slots : status[s] = "A" <=> slotReg[s] = None

\* A reserved slot's registration has a captured charge, whatever else happens.
ReservedWasCaptured ==
    \A s \in Slots : status[s] = "R" =>
        \E i \in Intents : piState[i] = "captured" /\ piReg[i] = slotReg[s]

(* Refinement: the tee sheet is a ledger in which slots change hands only by *)
(* becoming free and what is sold stays sold.                                *)
Ledger == INSTANCE SlotLedger
              WITH Nobody <- None,
                   holder <- slotReg,
                   sold <- {s \in Slots : status[s] = "R"}

IsLedger == Ledger!LedgerSpec

-----------------------------------------------------------------------------
(* Liveness *)

\* The cron jobs run, Stripe answers and retries its webhook until it succeeds.
\* Nobody is obliged to finish a booking, keep a tab open or hold a good card.
Fairness ==
    /\ \A r \in Regs : WF_vars(Expire(r)) /\ WF_vars(CleanUpExpired(r))
    /\ \A i \in Intents : /\ WF_vars(StoreIntent(i) \/ AbortIntent(i))
                          /\ WF_vars(PaymentSucceeded(i))

FairSpec == Spec /\ Fairness

\* Money taken is, in the end, a confirmed payment.
CaptureIsConfirmed ==
    \A i \in Intents : piState[i] = "captured" ~> piPay[i] \in confirmed

\* A hold with an expiry does not last: it is paid for, or taken up by a
\* PaymentIntent, or its slots return to the tee sheet.
HoldEnds ==
    \A s \in Slots, r \in Regs :
        (slotReg[s] = r /\ status[s] = "P") ~> ~(slotReg[s] = r /\ status[s] = "P")
===============================================================================
