-------------------------------- MODULE Refunds --------------------------------
(***************************************************************************)
(* Giving money back: processRefunds (refund.service.ts) records a refund, *)
(* asks Stripe for it and stores its id, while Stripe's webhook reports    *)
(* the same refund, and refunds made in Stripe's dashboard, on its own     *)
(* schedule (stripe-webhook.service.ts).                                   *)
(*                                                                         *)
(* A request runs in the steps the code commits in: read the payment,      *)
(* transaction, Stripe call, update of the code.  Requests overlap, an     *)
(* answer of Stripe may be lost, the server may stop between any two       *)
(* steps, and Stripe delivers an event any number of times in any order.   *)
(* Amounts count fees of one size, which is what makes Stripe's own limit  *)
(* (never more than was charged) weakest as a protection.                  *)
(***************************************************************************)
EXTENDS FiniteSets, Naturals, FiniteSetsExt

CONSTANTS
    Payments,       \* captured payments
    Strays,         \* charges at Stripe that no payment row has the code of
    Fees,           \* registration_fee rows
    PaymentOf,      \* payment_id of each fee
    Issuers,        \* refund requests being processed
    Rows,           \* ids of refund rows inserted by processRefunds
    Refs,           \* refunds at Stripe; also the ids of rows the webhook inserts
    None            \* no value

ASSUME RefundsAssumption ==
    /\ PaymentOf \in [Fees -> Payments]
    /\ Rows \cap Refs = {}
    /\ {"none", "pending"} \cap Refs = {}
    /\ None \notin Payments \cup Strays \cup Rows \cup Refs
    /\ Strays \cap Payments = {}

VARIABLES
    \* registration_fee, refund
    paid,           \* the fees with is_paid = 1
    code,           \* refund_code of each row: "none" (no row), "pending", or a ref
    rowFees,        \* the fees whose is_paid was cleared along with the row
    confirmed,      \* the rows with confirmed = 1
    \* requests
    stage,          \* what each request is doing
    counted,        \* the fees that make up its amount
    row, ref,       \* its refund row, the id in Stripe's answer
    \* Stripe
    outcome,        \* what became of each refund at Stripe
    charge,         \* the payment, or the stray charge, it refunds
    covers,         \* the fees whose money it returns; {} from the dashboard
    acked,          \* events answered with 200: <<"created", r>>, <<"updated", r>>
    \* history
    contested,      \* fees counted by two requests before either recorded it
    early           \* refunds whose "updated" came before any row had the code

dbVars == <<paid, code, rowFees, confirmed>>
reqVars == <<stage, counted, row, ref>>
stripeVars == <<outcome, charge, covers, acked>>
ghostVars == <<contested, early>>
vars == <<dbVars, reqVars, stripeVars, ghostVars>>

TypeOK ==
    /\ paid \subseteq Fees
    /\ code \in [Rows \cup Refs -> {"none", "pending"} \cup Refs]
    /\ rowFees \in [Rows \cup Refs -> SUBSET Fees]
    /\ confirmed \subseteq Rows \cup Refs
    /\ stage \in [Issuers -> {"idle", "read", "recorded", "answered"}]
    /\ counted \in [Issuers -> SUBSET Fees]
    /\ row \in [Issuers -> Rows \cup {None}]
    /\ ref \in [Issuers -> Refs \cup {None}]
    /\ outcome \in [Refs -> {"unused", "open", "succeeded", "failed"}]
    /\ charge \in [Refs -> Payments \cup Strays \cup {None}]
    /\ covers \in [Refs -> SUBSET Fees]
    /\ acked \subseteq {"created", "updated"} \X Refs
    /\ contested \subseteq Fees
    /\ early \subseteq Refs

Init ==
    /\ paid = Fees
    /\ code = [w \in Rows \cup Refs |-> "none"]
    /\ rowFees = [w \in Rows \cup Refs |-> {}]
    /\ confirmed = {}
    /\ stage = [i \in Issuers |-> "idle"]
    /\ counted = [i \in Issuers |-> {}]
    /\ row = [i \in Issuers |-> None]
    /\ ref = [i \in Issuers |-> None]
    /\ outcome = [r \in Refs |-> "unused"]
    /\ charge = [r \in Refs |-> None]
    /\ covers = [r \in Refs |-> {}]
    /\ acked = {}
    /\ contested = {}
    /\ early = {}

-----------------------------------------------------------------------------

FeesOf(p) == {f \in Fees : PaymentOf[f] = p}

\* Ids are handed out one after the other.
NewRows == {w \in Rows : code[w] = "none"}
NextRow == CHOOSE w \in NewRows : TRUE
NewRefs == {r \in Refs : outcome[r] = "unused"}
NextRef == CHOOSE r \in NewRefs : TRUE

Recorded(r) == \E w \in DOMAIN code : code[w] = r

\* What Stripe has returned of a charge; a failed refund returns nothing.
Returned(p) ==
    MapThenSumSet(LAMBDA r : IF covers[r] = {} THEN 1 ELSE Cardinality(covers[r]),
                  {r \in Refs : charge[r] = p /\ outcome[r] \in {"open", "succeeded"}})

-----------------------------------------------------------------------------
(* processRefunds, for one payment.  A request for several payments takes    *)
(* them one after the other and ends with the first error.                   *)

Done(i) ==
    /\ stage' = [stage EXCEPT ![i] = "idle"]
    /\ counted' = [counted EXCEPT ![i] = {}]
    /\ row' = [row EXCEPT ![i] = None]
    /\ ref' = [ref EXCEPT ![i] = None]

\* Starts a request whose amount is made up of the fees S.
Start(i, S) ==
    /\ stage[i] = "idle"
    /\ S # {}
    /\ stage' = [stage EXCEPT ![i] = "read"]
    /\ counted' = [counted EXCEPT ![i] = S]
    /\ contested' = contested \cup
         {f \in S : \E j \in Issuers : stage[j] = "read" /\ f \in counted[j]}
    /\ UNCHANGED <<row, ref, early, dbVars, stripeVars>>

\* (faulty) the fees of the request count whether or not they are still paid
ReadAll(i, S) == Start(i, S)

\* The payment is read.  The fees were chosen on a page, or collected before a
\* drop, that may be out of date: only those still paid make up the amount,
\* and if none is, the request is refused.
Read(i, S) == Start(i, S \cap paid)

\* (faulty) the fees are cleared only once Stripe has answered
RecordRowOnly(i) ==
    /\ stage[i] = "read"
    /\ NewRows # {}
    /\ code' = [code EXCEPT ![NextRow] = "pending"]
    /\ rowFees' = [rowFees EXCEPT ![NextRow] = counted[i]]
    /\ row' = [row EXCEPT ![i] = NextRow]
    /\ stage' = [stage EXCEPT ![i] = "recorded"]
    /\ UNCHANGED <<paid, counted, ref, confirmed, stripeVars, ghostVars>>

\* (faulty) all fees of the payment are cleared
RecordWholePayment(i) ==
    /\ stage[i] = "read"
    /\ NewRows # {}
    /\ code' = [code EXCEPT ![NextRow] = "pending"]
    /\ rowFees' = [rowFees EXCEPT ![NextRow] = counted[i]]
    /\ row' = [row EXCEPT ![i] = NextRow]
    /\ paid' = {f \in paid : \A g \in counted[i] : PaymentOf[f] # PaymentOf[g]}
    /\ stage' = [stage EXCEPT ![i] = "recorded"]
    /\ UNCHANGED <<counted, ref, confirmed, stripeVars, ghostVars>>

\* The transaction: a pending refund row, and is_paid cleared.
Record(i) ==
    /\ stage[i] = "read"
    /\ NewRows # {}
    /\ code' = [code EXCEPT ![NextRow] = "pending"]
    /\ rowFees' = [rowFees EXCEPT ![NextRow] = counted[i]]
    /\ row' = [row EXCEPT ![i] = NextRow]
    /\ paid' = paid \ counted[i]
    /\ stage' = [stage EXCEPT ![i] = "recorded"]
    /\ UNCHANGED <<counted, ref, confirmed, stripeVars, ghostVars>>

\* Stripe makes the refund, if the charge has that much left.
AskStripe(i) ==
    LET p == PaymentOf[CHOOSE f \in counted[i] : TRUE]
    IN  /\ stage[i] = "recorded"
        /\ Returned(p) + Cardinality(counted[i]) <= Cardinality(FeesOf(p))
        /\ NewRefs # {}
        /\ outcome' = [outcome EXCEPT ![NextRef] = "open"]
        /\ charge' = [charge EXCEPT ![NextRef] = p]
        /\ covers' = [covers EXCEPT ![NextRef] = counted[i]]
        /\ ref' = [ref EXCEPT ![i] = NextRef]
        /\ stage' = [stage EXCEPT ![i] = "answered"]
        /\ UNCHANGED <<counted, row, acked, dbVars, ghostVars>>

\* (faulty) the id is stored whether or not Stripe has answered
StoreCodeUnanswered(i) ==
    /\ stage[i] \in {"recorded", "answered"}
    /\ ~Recorded(ref[i])
    /\ code' = [code EXCEPT ![row[i]] = ref[i]]
    /\ Done(i)
    /\ UNCHANGED <<paid, rowFees, confirmed, stripeVars, ghostVars>>

\* updateRefundCode, unless a row of the webhook has the code already.
StoreCode(i) ==
    /\ stage[i] = "answered"
    /\ ~Recorded(ref[i])
    /\ code' = [code EXCEPT ![row[i]] = ref[i]]
    /\ Done(i)
    /\ UNCHANGED <<paid, rowFees, confirmed, stripeVars, ghostVars>>

\* Anything that ends a request half-way: Stripe refuses or does not answer,
\* its answer is lost, the unique key refuses the code, the server stops.
Fail(i) ==
    /\ stage[i] # "idle"
    /\ Done(i)
    /\ UNCHANGED <<dbVars, stripeVars, ghostVars>>

-----------------------------------------------------------------------------
(* Stripe *)

\* Of a stray charge Stripe returns what it likes: no fee is behind it.
Dashboard(p) ==
    /\ p \in Strays \/ Returned(p) < Cardinality(FeesOf(p))
    /\ NewRefs # {}
    /\ outcome' = [outcome EXCEPT ![NextRef] = "open"]
    /\ charge' = [charge EXCEPT ![NextRef] = p]
    /\ UNCHANGED <<covers, acked, dbVars, reqVars, ghostVars>>

Settle(r) ==
    /\ outcome[r] = "open"
    /\ \E o \in {"succeeded", "failed"} : outcome' = [outcome EXCEPT ![r] = o]
    /\ UNCHANGED <<charge, covers, acked, dbVars, reqVars, ghostVars>>

\* (faulty) acknowledged without a look at the refunds on record
RefundCreatedSkip(r) ==
    /\ outcome[r] # "unused"
    /\ acked' = acked \cup {<<"created", r>>}
    /\ UNCHANGED <<code, paid, rowFees, confirmed, outcome, charge, covers, reqVars,
                   ghostVars>>

\* handleRefundCreated: a refund no row has the code of gets a row, if there is
\* a payment it is of; a refund of no or of an unknown payment intent is logged,
\* answered with 200 and forgotten.
RefundCreated(r) ==
    /\ outcome[r] # "unused"
    /\ code' = IF charge[r] \notin Payments \/ Recorded(r) THEN code
               ELSE [code EXCEPT ![r] = r]
    /\ acked' = acked \cup {<<"created", r>>}
    /\ UNCHANGED <<paid, rowFees, confirmed, outcome, charge, covers, reqVars,
                   ghostVars>>

\* (faulty) the status of the refund is not looked at
RefundUpdatedAnyStatus(r) ==
    /\ outcome[r] \in {"succeeded", "failed"}
    /\ confirmed' = confirmed \cup {w \in DOMAIN code : code[w] = r}
    /\ acked' = acked \cup {<<"updated", r>>}
    /\ early' = IF Recorded(r) THEN early ELSE early \cup {r}
    /\ UNCHANGED <<paid, code, rowFees, outcome, charge, covers, reqVars, contested>>

\* (faulty) only rows that processRefunds inserted are confirmed
RefundUpdatedOwn(r) ==
    /\ outcome[r] \in {"succeeded", "failed"}
    /\ confirmed' = IF outcome[r] = "succeeded"
                    THEN confirmed \cup {w \in Rows : code[w] = r}
                    ELSE confirmed
    /\ acked' = acked \cup {<<"updated", r>>}
    /\ early' = IF Recorded(r) THEN early ELSE early \cup {r}
    /\ UNCHANGED <<paid, code, rowFees, outcome, charge, covers, reqVars, contested>>

\* handleRefundUpdated: the row with the code is confirmed; none is no error.
RefundUpdated(r) ==
    /\ outcome[r] \in {"succeeded", "failed"}
    /\ confirmed' = IF outcome[r] = "succeeded"
                    THEN confirmed \cup {w \in DOMAIN code : code[w] = r}
                    ELSE confirmed
    /\ acked' = acked \cup {<<"updated", r>>}
    /\ early' = IF Recorded(r) THEN early ELSE early \cup {r}
    /\ UNCHANGED <<paid, code, rowFees, outcome, charge, covers, reqVars, contested>>

-----------------------------------------------------------------------------

Process(i) ==
    \/ \E p \in Payments : \E S \in SUBSET FeesOf(p) : Read(i, S)
    \/ Record(i)
    \/ AskStripe(i)
    \/ StoreCode(i)
    \/ Fail(i)

Next ==
    \/ \E i \in Issuers : Process(i)
    \/ \E p \in Payments \cup Strays : Dashboard(p)
    \/ \E r \in Refs : Settle(r) \/ RefundCreated(r) \/ RefundUpdated(r)

\* Stripe delivers every event until it is acknowledged, and settles refunds.
Fairness ==
    \A r \in Refs :
        /\ WF_vars(Settle(r))
        /\ WF_vars(<<"created", r>> \notin acked /\ RefundCreated(r))
        /\ WF_vars(<<"updated", r>> \notin acked /\ RefundUpdated(r))

Spec == Init /\ [][Next]_vars /\ Fairness

-----------------------------------------------------------------------------
(* Properties *)

\* The money of a fee is sent back once: a second request, a stale page, a lost
\* answer, a restart or a refund that failed never sends it again.  Only two
\* requests that both read the fee before either recorded it can.
RefundedOnce ==
    \A f \in Fees \ contested : \A q, r \in Refs :
        f \in covers[q] /\ f \in covers[r] => q = r

\* "Remains in pending state for manual review": a fee marked as not paid is
\* explained by a refund row, either of the refund at Stripe that returned its
\* money or still pending, wherever its request stopped.
UnpaidIsExplained ==
    \A f \in Fees \ paid : \E w \in Rows :
        /\ f \in rowFees[w]
        /\ code[w] = "pending" \/ \E r \in Refs : code[w] = r /\ f \in covers[r]

\* No money leaves without a trace: Stripe never holds a refund asked for by
\* the API for fees that are still marked as paid.
ReturnedIsUnpaid ==
    \A r \in Refs : covers[r] \cap paid = {}

\* Only money that has arrived is reported as refunded: a confirmed row has the
\* code of a refund that succeeded, and no two rows claim the same refund.
ConfirmedHasArrived ==
    /\ \A w \in confirmed : code[w] \in Refs /\ outcome[code[w]] = "succeeded"
    /\ \A v, w \in DOMAIN code : code[v] \in Refs /\ code[v] = code[w] => v = w

\* Every refund of a payment the club knows gets on record: the API's own, its
\* answer lost or not, and those made in the dashboard.  A refund of a stray
\* charge never does.
RefundGetsRecorded ==
    \A r \in Refs : charge[r] \in Payments ~> Recorded(r)

\* A refund of such a payment that succeeded is confirmed on record, unless
\* Stripe reported its success before the row had its code: that event is
\* acknowledged and lost.
RefundGetsConfirmed ==
    \A r \in Refs : outcome[r] = "succeeded" /\ charge[r] \in Payments ~>
        (r \in early \/ \E w \in confirmed : code[w] = r)
=============================================================================
