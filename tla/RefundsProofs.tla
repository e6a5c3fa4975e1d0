----------------------------- MODULE RefundsProofs -----------------------------
(* What Refunds keeps true for any number of payments, fees, requests, refund  *)
(* rows and refunds at Stripe.                                                 *)
EXTENDS Refunds, TLAPS

Busy == {"recorded", "answered"}

(* The inductive invariant, in parts. *)

\* A request has fees in hand from its start to its end.
IdleInv == \A i \in Issuers : stage[i] = "idle" <=> counted[i] = {}

\* What a request has recorded is no longer paid, and its row waits for a code
\* that no other request will store.
RowInv ==
    \A i \in Issuers : stage[i] \in Busy =>
        /\ counted[i] \cap paid = {}
        /\ row[i] \in Rows
        /\ code[row[i]] = "pending"
        /\ rowFees[row[i]] = counted[i]
        /\ \A j \in Issuers : stage[j] \in Busy /\ row[j] = row[i] => i = j

\* What Stripe has answered is a refund of the fees asked for.
AnswerInv ==
    \A i \in Issuers : stage[i] = "answered" =>
        /\ ref[i] \in Refs
        /\ outcome[ref[i]] # "unused"
        /\ covers[ref[i]] = counted[i]

\* Ids of refunds at Stripe, and the rows the webhook inserts under them.
RefInv ==
    \A r \in Refs :
        /\ outcome[r] = "unused" => covers[r] = {}
        /\ code[r] \in {"none", r}

\* A fee is in the hands of one request, and not returned yet while it waits.
ClaimInv ==
    \A f \in Fees \ contested : \A i \in Issuers : f \in counted[i] =>
        /\ \A j \in Issuers : f \in counted[j] => i = j
        /\ stage[i] \in {"read", "recorded"} => \A r \in Refs : f \notin covers[r]

RefundInv ==
    /\ TypeOK
    /\ IdleInv
    /\ RowInv
    /\ AnswerInv
    /\ RefInv
    /\ ClaimInv
    /\ RefundedOnce
    /\ UnpaidIsExplained
    /\ ReturnedIsUnpaid
    /\ ConfirmedHasArrived

-----------------------------------------------------------------------------

\* The next id is one that is not in use.
LEMMA NextRowIsNew ==
    ASSUME NewRows # {}
    PROVE  NextRow \in Rows /\ code[NextRow] = "none"
  BY DEF NextRow, NewRows

LEMMA NextRefIsNew ==
    ASSUME NewRefs # {}
    PROVE  NextRef \in Refs /\ outcome[NextRef] = "unused"
  BY DEF NextRef, NewRefs

LEMMA InitRefundInv == Init => RefundInv
  BY RefundsAssumption
  DEF Init, RefundInv, TypeOK, IdleInv, RowInv, AnswerInv, RefInv, ClaimInv, Busy,
      RefundedOnce, UnpaidIsExplained, ReturnedIsUnpaid, ConfirmedHasArrived

LEMMA ReadStep ==
    ASSUME RefundInv, NEW i \in Issuers, NEW p \in Payments,
           NEW S \in SUBSET FeesOf(p), Read(i, S)
    PROVE  RefundInv'
  <1> USE RefundsAssumption DEF Read, Start, RefundInv, dbVars, stripeVars
  <1>1. TypeOK'
    BY DEF TypeOK, FeesOf
  <1>2. IdleInv'
    BY DEF TypeOK, IdleInv
  <1>3. RowInv' /\ AnswerInv' /\ RefInv'
    BY DEF TypeOK, RowInv, AnswerInv, RefInv, Busy
  <1>4. ClaimInv'
    <2> SUFFICES ASSUME NEW f \in Fees \ contested', NEW j \in Issuers, f \in counted'[j]
                 PROVE  /\ \A k \in Issuers : f \in counted'[k] => j = k
                        /\ stage'[j] \in {"read", "recorded"}
                             => \A r \in Refs : f \notin covers[r]
      BY DEF ClaimInv
    <2>0. f \notin contested
      BY DEF TypeOK
    <2>1. f \in counted'[i] => f \in paid
      BY DEF TypeOK
    <2>2. \A k \in Issuers : f \in counted'[i] /\ f \in counted[k] => k = i
      <3> SUFFICES ASSUME NEW k \in Issuers, f \in counted'[i], f \in counted[k], k # i
                   PROVE  FALSE
        OBVIOUS
      <3>1. stage[k] # "read"
        BY DEF TypeOK
      <3>2. stage[k] \notin Busy
        BY <2>1 DEF RowInv
      <3> QED  BY <3>1, <3>2 DEF TypeOK, IdleInv, Busy
    <2>3. CASE j = i
      BY <2>1, <2>2, <2>3 DEF TypeOK, ReturnedIsUnpaid
    <2>4. CASE j # i
      BY <2>0, <2>2, <2>4 DEF TypeOK, ClaimInv
    <2> QED  BY <2>3, <2>4
  <1>5. RefundedOnce' /\ UnpaidIsExplained' /\ ReturnedIsUnpaid' /\ ConfirmedHasArrived'
    BY DEF TypeOK, RefundedOnce, UnpaidIsExplained, ReturnedIsUnpaid, ConfirmedHasArrived
  <1> QED  BY <1>1, <1>2, <1>3, <1>4, <1>5

LEMMA RecordStep ==
    ASSUME RefundInv, NEW i \in Issuers, Record(i)
    PROVE  RefundInv'
  <1> USE RefundsAssumption DEF Record, RefundInv, stripeVars, ghostVars
  <1>0. NextRow \in Rows /\ code[NextRow] = "none"
    BY NextRowIsNew
  <1>1. TypeOK'
    BY <1>0 DEF TypeOK
  <1>2. IdleInv' /\ AnswerInv'
    BY DEF TypeOK, IdleInv, AnswerInv
  <1>3. RowInv'
    <2> SUFFICES ASSUME NEW j \in Issuers, stage'[j] \in Busy
                 PROVE  /\ counted'[j] \cap paid' = {}
                        /\ row'[j] \in Rows
                        /\ code'[row'[j]] = "pending"
                        /\ rowFees'[row'[j]] = counted'[j]
                        /\ \A k \in Issuers : stage'[k] \in Busy /\ row'[k] = row'[j] => j = k
      BY DEF RowInv
    <2>1. \A k \in Issuers \ {i} : stage'[k] \in Busy => row[k] # NextRow
      BY <1>0 DEF TypeOK, RowInv
    <2>2. CASE j = i
      BY <1>0, <2>1, <2>2 DEF TypeOK
    <2>3. CASE j # i
      BY <1>0, <2>1, <2>3 DEF TypeOK, RowInv
    <2> QED  BY <2>2, <2>3
  <1>4. RefInv'
    BY <1>0 DEF TypeOK, RefInv
  <1>5. ClaimInv'
    BY DEF TypeOK, ClaimInv
  <1>6. RefundedOnce' /\ ReturnedIsUnpaid'
    BY DEF TypeOK, RefundedOnce, ReturnedIsUnpaid
  <1>7. UnpaidIsExplained'
    <2> SUFFICES ASSUME NEW f \in Fees \ paid'
                 PROVE  \E w \in Rows : /\ f \in rowFees'[w]
                                        /\ \/ code'[w] = "pending"
                                           \/ \E r \in Refs : code'[w] = r /\ f \in covers[r]
      BY DEF UnpaidIsExplained
    <2>1. CASE f \in counted[i]
      BY <1>0, <2>1 DEF TypeOK
    <2>2. CASE f \notin paid
      <3>1. PICK w \in Rows : /\ f \in rowFees[w]
                              /\ code[w] = "pending" \/ \E r \in Refs : code[w] = r /\ f \in covers[r]
        BY <2>2 DEF UnpaidIsExplained
      <3>2. w # NextRow
        BY <1>0, <3>1
      <3> QED  BY <1>0, <3>1, <3>2 DEF TypeOK
    <2> QED  BY <2>1, <2>2 DEF TypeOK
  <1>8. ConfirmedHasArrived'
    BY <1>0 DEF TypeOK, ConfirmedHasArrived
  <1> QED  BY <1>1, <1>2, <1>3, <1>4, <1>5, <1>6, <1>7, <1>8

LEMMA AskStripeStep ==
    ASSUME RefundInv, NEW i \in Issuers, AskStripe(i)
    PROVE  RefundInv'
  <1> USE RefundsAssumption DEF AskStripe, RefundInv, dbVars, ghostVars
  <1>0. NextRef \in Refs /\ outcome[NextRef] = "unused" /\ stage[i] = "recorded"
    BY NextRefIsNew
  <1>a. covers' = [covers EXCEPT ![NextRef] = counted[i]]
        /\ UNCHANGED <<counted, row, contested, paid, code, rowFees, confirmed>>
    OBVIOUS
  <1>1. TypeOK'
    <2>1. counted[i] # {}
      BY <1>0 DEF TypeOK, IdleInv
    <2> QED  BY <1>0, <2>1 DEF TypeOK
  <1>2. IdleInv' /\ RowInv'
    BY <1>0 DEF TypeOK, IdleInv, RowInv, Busy
  <1>3. AnswerInv'
    BY <1>0 DEF TypeOK, AnswerInv
  <1>4. RefInv'
    BY <1>0 DEF TypeOK, RefInv
  <1>5. ClaimInv'
    <2> SUFFICES ASSUME NEW f \in Fees \ contested, NEW j \in Issuers, f \in counted[j]
                 PROVE  /\ \A k \in Issuers : f \in counted[k] => j = k
                        /\ stage'[j] \in {"read", "recorded"}
                             => \A r \in Refs : f \notin covers'[r]
      BY <1>a DEF ClaimInv
    <2>1. CASE j = i
      BY <2>1 DEF TypeOK, ClaimInv
    <2>2. CASE j # i
      BY <1>0, <2>2 DEF TypeOK, ClaimInv
    <2> QED  BY <2>1, <2>2
  <1>6. RefundedOnce'
    BY <1>0, <1>a DEF TypeOK, RefundedOnce, ClaimInv
  <1>7. ReturnedIsUnpaid'
    BY <1>0, <1>a DEF TypeOK, ReturnedIsUnpaid, RowInv, Busy
  <1>8. UnpaidIsExplained'
    <2>1. \A r \in Refs, f \in Fees : f \in covers[r] => f \in covers'[r]
      BY <1>0, <1>a DEF TypeOK, RefInv
    <2> QED  BY <1>a, <2>1 DEF UnpaidIsExplained
  <1>9. ConfirmedHasArrived'
    BY <1>0 DEF TypeOK, ConfirmedHasArrived
  <1> QED  BY <1>1, <1>2, <1>3, <1>4, <1>5, <1>6, <1>7, <1>8, <1>9

LEMMA StoreCodeStep ==
    ASSUME RefundInv, NEW i \in Issuers, StoreCode(i)
    PROVE  RefundInv'
  <1> USE RefundsAssumption DEF StoreCode, Done, RefundInv, stripeVars, ghostVars
  <1>0. /\ stage[i] = "answered"
        /\ row[i] \in Rows /\ code[row[i]] = "pending" /\ rowFees[row[i]] = counted[i]
        /\ ref[i] \in Refs /\ covers[ref[i]] = counted[i] /\ ~Recorded(ref[i])
    BY DEF RowInv, AnswerInv, Busy
  <1>1. TypeOK'
    BY <1>0 DEF TypeOK
  <1>2. IdleInv' /\ AnswerInv'
    BY DEF TypeOK, IdleInv, AnswerInv
  <1>3. RowInv'
    BY <1>0 DEF TypeOK, RowInv, Busy
  <1>4. RefInv'
    BY <1>0 DEF TypeOK, RefInv
  <1>5. ClaimInv'
    BY DEF TypeOK, ClaimInv
  <1>6. RefundedOnce' /\ ReturnedIsUnpaid'
    BY DEF RefundedOnce, ReturnedIsUnpaid
  <1>7. UnpaidIsExplained'
    BY <1>0 DEF TypeOK, UnpaidIsExplained
  <1>8. ConfirmedHasArrived'
    BY <1>0 DEF TypeOK, ConfirmedHasArrived, Recorded
  <1> QED  BY <1>1, <1>2, <1>3, <1>4, <1>5, <1>6, <1>7, <1>8

LEMMA FailStep ==
    ASSUME RefundInv, NEW i \in Issuers, Fail(i)
    PROVE  RefundInv'
  <1> USE RefundsAssumption DEF Fail, Done, RefundInv, dbVars, stripeVars, ghostVars
  <1>1. TypeOK' /\ IdleInv' /\ RowInv' /\ AnswerInv'
    BY DEF TypeOK, IdleInv, RowInv, AnswerInv, Busy
  <1>2. RefInv' /\ ClaimInv'
    BY DEF TypeOK, RefInv, ClaimInv
  <1>3. RefundedOnce' /\ UnpaidIsExplained' /\ ReturnedIsUnpaid' /\ ConfirmedHasArrived'
    BY DEF RefundedOnce, UnpaidIsExplained, ReturnedIsUnpaid, ConfirmedHasArrived
  <1> QED  BY <1>1, <1>2, <1>3

\* What Stripe does by itself.
LEMMA StripeStep ==
    ASSUME RefundInv,
           \/ \E p \in Payments \cup Strays : Dashboard(p)
           \/ \E r \in Refs : Settle(r)
    PROVE  RefundInv'
  <1> USE RefundsAssumption DEF RefundInv
  <1>1. /\ covers' = covers /\ acked' = acked /\ contested' = contested /\ early' = early
        /\ paid' = paid /\ code' = code /\ rowFees' = rowFees /\ confirmed' = confirmed
        /\ stage' = stage /\ counted' = counted /\ row' = row /\ ref' = ref
    BY DEF Dashboard, Settle, dbVars, reqVars, ghostVars
  <1>2. /\ outcome' \in [Refs -> {"unused", "open", "succeeded", "failed"}]
        /\ charge' \in [Refs -> Payments \cup Strays \cup {None}]
    BY NextRefIsNew DEF TypeOK, Dashboard, Settle
  <1>3. \A r \in Refs : /\ outcome'[r] = "unused" => outcome[r] = "unused"
                        /\ outcome[r] = "succeeded" => outcome'[r] = "succeeded"
    BY NextRefIsNew DEF TypeOK, Dashboard, Settle
  <1>4. TypeOK' /\ IdleInv' /\ RowInv'
    BY <1>1, <1>2 DEF TypeOK, IdleInv, RowInv, Busy
  <1>5. AnswerInv'
    BY <1>1, <1>3 DEF AnswerInv
  <1>6. RefInv'
    BY <1>1, <1>3 DEF RefInv
  <1>7. ClaimInv'
    BY <1>1 DEF ClaimInv
  <1>8. RefundedOnce' /\ UnpaidIsExplained' /\ ReturnedIsUnpaid'
    BY <1>1 DEF RefundedOnce, UnpaidIsExplained, ReturnedIsUnpaid
  <1>9. ConfirmedHasArrived'
    BY <1>1, <1>3 DEF ConfirmedHasArrived
  <1> QED  BY <1>4, <1>5, <1>6, <1>7, <1>8, <1>9

LEMMA RefundCreatedStep ==
    ASSUME RefundInv, NEW r \in Refs, RefundCreated(r)
    PROVE  RefundInv'
  <1> USE RefundsAssumption DEF RefundCreated, RefundInv, reqVars, ghostVars
  <1>1. \A w \in Rows : code'[w] = code[w]
    BY DEF TypeOK
  <1>2. TypeOK' /\ IdleInv' /\ AnswerInv'
    BY DEF TypeOK, IdleInv, AnswerInv
  <1>3. RowInv' /\ RefInv' /\ ClaimInv'
    BY <1>1 DEF TypeOK, RowInv, RefInv, ClaimInv, Busy
  <1>4. RefundedOnce' /\ ReturnedIsUnpaid'
    BY DEF RefundedOnce, ReturnedIsUnpaid
  <1>5. UnpaidIsExplained'
    BY <1>1 DEF UnpaidIsExplained
  <1>6. ConfirmedHasArrived'
    BY DEF TypeOK, ConfirmedHasArrived, Recorded, RefInv
  <1> QED  BY <1>2, <1>3, <1>4, <1>5, <1>6

LEMMA RefundUpdatedStep ==
    ASSUME RefundInv, NEW r \in Refs, RefundUpdated(r)
    PROVE  RefundInv'
  <1> USE RefundsAssumption DEF RefundUpdated, RefundInv, reqVars
  <1>1. TypeOK' /\ IdleInv' /\ RowInv' /\ AnswerInv' /\ RefInv'
    BY DEF TypeOK, IdleInv, RowInv, AnswerInv, RefInv, Busy
  <1>2. ClaimInv' /\ RefundedOnce' /\ UnpaidIsExplained' /\ ReturnedIsUnpaid'
    BY DEF ClaimInv, RefundedOnce, UnpaidIsExplained, ReturnedIsUnpaid
  <1>3. ConfirmedHasArrived'
    BY DEF TypeOK, ConfirmedHasArrived
  <1> QED  BY <1>1, <1>2, <1>3

LEMMA RefundNext == RefundInv /\ [Next]_vars => RefundInv'
  <1> SUFFICES ASSUME RefundInv, [Next]_vars PROVE RefundInv'
    OBVIOUS
  <1>1. CASE \E i \in Issuers : Process(i)
    BY <1>1, ReadStep, RecordStep, AskStripeStep, StoreCodeStep, FailStep DEF Process
  <1>2. CASE \E p \in Payments \cup Strays : Dashboard(p)
    BY <1>2, StripeStep
  <1>3. CASE \E r \in Refs : Settle(r) \/ RefundCreated(r) \/ RefundUpdated(r)
    BY <1>3, StripeStep, RefundCreatedStep, RefundUpdatedStep
  <1>4. CASE UNCHANGED vars
    BY <1>4
    DEF vars, dbVars, reqVars, stripeVars, ghostVars, RefundInv, TypeOK, IdleInv, RowInv,
        AnswerInv, RefInv, ClaimInv, RefundedOnce, UnpaidIsExplained, ReturnedIsUnpaid,
        ConfirmedHasArrived, Busy
  <1> QED  BY <1>1, <1>2, <1>3, <1>4 DEF Next

-----------------------------------------------------------------------------
(* Events that Stripe will not send again. *)

\* What was acknowledged has been done and stays done: a "created" answered with
\* 200, of a payment the club knows, has its refund on record; an "updated" has
\* confirmed the row, unless it came before any row had the code
\* (handleRefundCreated, handleRefundUpdated).
AcknowledgedIsDone ==
    \A r \in Refs :
        /\ <<"created", r>> \in acked =>
             outcome[r] # "unused" /\ (charge[r] \in Payments => Recorded(r))
        /\ <<"updated", r>> \in acked =>
             /\ outcome[r] \in {"succeeded", "failed"}
             /\ outcome[r] = "succeeded" => r \in early \/ \E w \in confirmed : code[w] = r

\* A code, once stored, stays: rows without one and pending rows only are written.
LEMMA CodesStay ==
    ASSUME RefundInv, [Next]_vars, NEW w \in Rows \cup Refs, code[w] \in Refs
    PROVE  code'[w] = code[w]
  <1> USE RefundsAssumption DEF RefundInv, TypeOK
  <1>1. CASE UNCHANGED code
    BY <1>1
  <1>2. ASSUME NEW i \in Issuers, Record(i) PROVE code'[w] = code[w]
    BY <1>2, NextRowIsNew DEF Record
  <1>3. ASSUME NEW i \in Issuers, StoreCode(i) PROVE code'[w] = code[w]
    BY <1>3 DEF StoreCode, RowInv, Busy
  <1>4. ASSUME NEW r \in Refs, RefundCreated(r) PROVE code'[w] = code[w]
    BY <1>4 DEF RefundCreated, RefInv
  <1> QED
    BY <1>1, <1>2, <1>3, <1>4
    DEF Next, Process, vars, Read, Start, AskStripe, Fail, Dashboard, Settle, RefundUpdated,
        dbVars

LEMMA AcknowledgedNext ==
    ASSUME RefundInv, AcknowledgedIsDone, [Next]_vars
    PROVE  AcknowledgedIsDone'
  <1> USE DEF AcknowledgedIsDone
  <1>1. \A r \in Refs : Recorded(r) => Recorded(r)'
    <2>1. DOMAIN code = Rows \cup Refs
      BY DEF RefundInv, TypeOK
    <2>2. DOMAIN code' = Rows \cup Refs
      BY RefundNext DEF RefundInv, TypeOK
    <2> QED  BY <2>1, <2>2, CodesStay DEF Recorded
  <1> DEFINE Grows ==
        /\ confirmed \subseteq confirmed' /\ early \subseteq early'
        /\ \A r \in Refs : outcome[r] \in {"succeeded", "failed"} => outcome'[r] = outcome[r]
        /\ \A r \in Refs : outcome[r] # "unused" =>
             outcome'[r] # "unused" /\ charge'[r] = charge[r]
  <1>2. Grows
    <2>1. ASSUME NEW i \in Issuers, AskStripe(i) PROVE Grows
      BY <2>1, NextRefIsNew DEF AskStripe, RefundInv, TypeOK, dbVars, ghostVars
    <2>2. ASSUME NEW p \in Payments \cup Strays, Dashboard(p) PROVE Grows
      BY <2>2, NextRefIsNew DEF Dashboard, RefundInv, TypeOK, dbVars, ghostVars
    <2>3. ASSUME NEW r \in Refs, Settle(r) PROVE Grows
      BY <2>3 DEF Settle, RefundInv, TypeOK, dbVars, ghostVars
    <2>4. ASSUME NEW r \in Refs, RefundUpdated(r) PROVE Grows
      BY <2>4 DEF RefundUpdated
    <2>5. CASE UNCHANGED <<confirmed, early, outcome, charge>>
      BY <2>5
    <2> QED
      BY <2>1, <2>2, <2>3, <2>4, <2>5
      DEF Next, Process, vars, dbVars, stripeVars, ghostVars, Read, Start, Record, StoreCode,
          Fail, RefundCreated
  <1>3. \A r \in Refs : (\E w \in confirmed : code[w] = r) => \E w \in confirmed' : code'[w] = r
    <2> SUFFICES ASSUME NEW r \in Refs, NEW w \in confirmed, code[w] = r
                 PROVE  w \in confirmed' /\ code'[w] = r
      OBVIOUS
    <2>1. w \in Rows \cup Refs
      BY DEF RefundInv, TypeOK
    <2> QED  BY <1>2, <2>1, CodesStay
  <1>4. CASE acked' = acked
    BY <1>1, <1>2, <1>3, <1>4
  <1>5. ASSUME NEW q \in Refs, RefundCreated(q) PROVE AcknowledgedIsDone'
    <2>1. acked' = acked \cup {<<"created", q>>}
      BY <1>5 DEF RefundCreated
    <2>2. outcome'[q] # "unused" /\ (charge'[q] \in Payments => Recorded(q)')
      BY <1>5, <1>1 DEF RefundCreated, Recorded, RefundInv, TypeOK
    <2>3. \A r \in Refs : /\ <<"created", r>> \in acked' => <<"created", r>> \in acked \/ r = q
                          /\ <<"updated", r>> \in acked' => <<"updated", r>> \in acked
      BY <2>1
    <2> QED  BY <1>1, <1>2, <1>3, <2>2, <2>3
  <1>6. ASSUME NEW q \in Refs, RefundUpdated(q) PROVE AcknowledgedIsDone'
    <2>1. /\ acked' = acked \cup {<<"updated", q>>}
          /\ outcome[q] \in {"succeeded", "failed"} /\ UNCHANGED <<outcome, charge, code>>
      BY <1>6 DEF RefundUpdated
    <2>2. outcome[q] = "succeeded" => q \in early' \/ \E w \in confirmed' : code'[w] = q
      BY <1>6 DEF RefundUpdated, Recorded
    <2>3. \A r \in Refs : /\ <<"created", r>> \in acked' => <<"created", r>> \in acked
                          /\ <<"updated", r>> \in acked' => <<"updated", r>> \in acked \/ r = q
      BY <2>1
    <2> QED  BY <1>1, <1>2, <1>3, <2>1, <2>2, <2>3
  <1> QED
    BY <1>4, <1>5, <1>6
    DEF Next, Process, vars, stripeVars, Read, Start, Record, AskStripe, StoreCode, Fail,
        Dashboard, Settle

-----------------------------------------------------------------------------

\* The inductive invariant holds of every behaviour.
THEOREM RefundsSafe == Spec => []RefundInv
  BY InitRefundInv, RefundNext, PTL DEF Spec

\* Every state of the refunds has the declared types.
THEOREM RefundsTypeCorrect == Spec => []TypeOK
  <1>1. RefundInv => TypeOK  BY DEF RefundInv
  <1> QED  BY <1>1, RefundsSafe, PTL

\* The money of a fee is sent back once, whatever requests, failures and webhooks
\* interleave, unless two requests both read the fee before either recorded it.
THEOREM MoneyGoesBackOnce == Spec => []RefundedOnce
  <1>1. RefundInv => RefundedOnce  BY DEF RefundInv
  <1> QED  BY <1>1, RefundsSafe, PTL

\* A fee that is marked as not paid is explained by a refund row.
THEOREM UnpaidFeesAreExplained == Spec => []UnpaidIsExplained
  <1>1. RefundInv => UnpaidIsExplained  BY DEF RefundInv
  <1> QED  BY <1>1, RefundsSafe, PTL

\* Stripe never holds a refund of the API's for fees that are marked as paid.
THEOREM ReturnedFeesAreUnpaid == Spec => []ReturnedIsUnpaid
  <1>1. RefundInv => ReturnedIsUnpaid  BY DEF RefundInv
  <1> QED  BY <1>1, RefundsSafe, PTL

\* A confirmed row is that of a refund that succeeded, and of no other row's.
THEOREM ConfirmedRefundsArrived == Spec => []ConfirmedHasArrived
  <1>1. RefundInv => ConfirmedHasArrived  BY DEF RefundInv
  <1> QED  BY <1>1, RefundsSafe, PTL

\* An event that Stripe will not deliver again has done its work.
THEOREM AcknowledgedWorkIsDone == Spec => []AcknowledgedIsDone
  <1>1. Init => AcknowledgedIsDone  BY DEF Init, AcknowledgedIsDone
  <1>2. RefundInv /\ AcknowledgedIsDone /\ [Next]_vars => AcknowledgedIsDone'
    BY AcknowledgedNext
  <1> QED  BY <1>1, <1>2, RefundsSafe, PTL DEF Spec
=============================================================================
