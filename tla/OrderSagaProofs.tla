--------------------------- MODULE OrderSagaProofs ---------------------------
(***************************************************************************)
(* Theorems of OrderSaga for any set of orders, products and workers.      *)
(***************************************************************************)
EXTENDS OrderSaga, FiniteSetTheorems, TLAPS

-----------------------------------------------------------------------------
\* The tables

\* Every legal move joins two states of an order.
LEMMA TransitionStates ==
  \A a, b : <<a, b>> \in ORDER_TRANSITIONS => a \in ORDER_STATES /\ b \in ORDER_STATES
BY DEF ORDER_TRANSITIONS, ORDER_STATES

\* Every legal move of a parcel ends in a shipping state.
LEMMA ShippingStates ==
  \A a, b : <<a, b>> \in SHIPPING_TRANSITIONS => b \in SHIPPING_STATES
BY DEF SHIPPING_TRANSITIONS, SHIPPING_STATES

-----------------------------------------------------------------------------
\* Type correctness

\* The initial rows are well typed.
LEMMA TypeOKInit == Init => TypeOK
BY SagaAssumption DEF Init, TypeOK, Tasks, PAYMENT_STATES, SHIPPING_STATES

\* What a started worker carries.
LEMMA TakeOK ==
  ASSUME TypeOK, NEW w \in Workers, NEW t \in Tasks \ {"idle"}, NEW o \in Orders,
         Take(w, t, o)
  PROVE  /\ work' \in [Workers -> [task : Tasks, order : Orders \cup {NoOrder}]]
         /\ \A v \in Workers : work'[v].task = "idle" <=> work'[v].order = NoOrder
BY FiniteOrders DEF TypeOK, Take

\* A worker that is done is idle and carries no order.
LEMMA DoneOK ==
  ASSUME TypeOK, NEW w \in Workers, Done(w)
  PROVE  /\ work' \in [Workers -> [task : Tasks, order : Orders \cup {NoOrder}]]
         /\ \A v \in Workers : work'[v].task = "idle" <=> work'[v].order = NoOrder
BY DEF TypeOK, Done, Take, Tasks

\* A worker that goes on keeps its order.
LEMMA ContinueOK ==
  ASSUME TypeOK, NEW w \in Workers, ~Idle(w), NEW t \in Tasks \ {"idle"}, Continue(w, t)
  PROVE  /\ work' \in [Workers -> [task : Tasks, order : Orders \cup {NoOrder}]]
         /\ \A v \in Workers : work'[v].task = "idle" <=> work'[v].order = NoOrder
BY DEF TypeOK, Continue, Idle

\* A busy worker works on an order.
LEMMA BusyOnOrder ==
  ASSUME TypeOK, NEW w \in Workers, ~Idle(w)
  PROVE  work[w].order \in Orders
BY DEF TypeOK, Idle

\* transition_order keeps the commerce states legal.
LEMMA TransitionOK ==
  ASSUME TypeOK, NEW o \in Orders, NEW from, NEW to, transition_order(o, from, to)
  PROVE  /\ order' \in [Orders -> ORDER_STATES \cup {"none"}]
         /\ archived' \in [Orders -> BOOLEAN]
BY TransitionStates DEF TypeOK, transition_order

\* Ordered quantities are natural numbers.
LEMMA QtyNat == \A o \in Orders, p \in Products : Qty[o][p] \in Nat
BY SagaAssumption

\* release_reservations keeps the stock rows well typed.
LEMMA ReleaseOK ==
  ASSUME TypeOK, NEW o \in Orders, NEW to \in RESERVATION_STATES, release_reservations(o, to)
  PROVE  /\ resv' \in [Orders -> RESERVATION_STATES \cup {"none"}]
         /\ lapsed' \in [Orders -> BOOLEAN]
         /\ onHand' \in [Products -> Int]
         /\ reserved' \in [Products -> Int]
         /\ deleted' \subseteq Products
<1>1. /\ lapsed' = lapsed /\ onHand' = onHand /\ deleted' = deleted
      /\ resv' = [resv EXCEPT ![o] = to] \/ resv' = resv
      /\ reserved' = reserved \/ reserved' = [p \in Products |-> reserved[p] - Qty[o][p]]
  BY DEF release_reservations
<1>2. reserved' \in [Products -> Int]
  BY <1>1, QtyNat DEF TypeOK
<1> QED
  BY <1>1, <1>2 DEF TypeOK

\* Actions that change nothing but what a worker is about to do.
LEMMA WorkOnlyOK ==
  ASSUME TypeOK,
         UNCHANGED <<orderVars, flagVars, resvVars, payVars, coreVars, stockVars>>,
         work' \in [Workers -> [task : Tasks, order : Orders \cup {NoOrder}]],
         \A v \in Workers : work'[v].task = "idle" <=> work'[v].order = NoOrder
  PROVE  TypeOK'
BY DEF TypeOK, orderVars, flagVars, resvVars, payVars, coreVars, stockVars

\* A rejection keeps the types.
LEMMA MarkRejectionOK ==
  ASSUME TypeOK, NEW o \in Orders, NEW from, mark_rejection(o, from),
         work' \in [Workers -> [task : Tasks, order : Orders \cup {NoOrder}]],
         \A v \in Workers : work'[v].task = "idle" <=> work'[v].order = NoOrder
  PROVE  TypeOK'
<1>1. CASE /\ transition_order(o, from, "rejected")
           /\ payment' = [payment EXCEPT ![o] = IF @ \in UNATTACHED THEN "failed" ELSE @]
           /\ release_reservations(o, "released")
           /\ UNCHANGED <<flagVars, aged, coreVars>>
  <2>1. payment' \in [Orders -> PAYMENT_STATES]
    BY <1>1 DEF TypeOK, PAYMENT_STATES
  <2> QED
    BY <1>1, <2>1, TransitionOK, ReleaseOK DEF TypeOK, flagVars, coreVars, RESERVATION_STATES
<1>2. CASE UNCHANGED <<orderVars, flagVars, resvVars, payVars, coreVars, stockVars>>
  BY <1>2, WorkOnlyOK
<1> QED
  BY <1>1, <1>2 DEF mark_rejection

\* The claim of begin_saga keeps the types, granted or refused.
LEMMA ClaimStockOK ==
  ASSUME TypeOK, NEW w \in Workers, NEW o \in Orders, ClaimStock(w, o)
  PROVE  TypeOK'
<1>1. CASE /\ order[o] = "received"
           /\ Take(w, "short", o)
           /\ UNCHANGED <<orderVars, reserved, resvVars, payment>>
           /\ UNCHANGED <<flagVars, aged, coreVars, onHand, deleted>>
  BY <1>1, TakeOK DEF TypeOK, Tasks, orderVars, resvVars, flagVars, coreVars
<1>2. CASE /\ transition_order(o, "received", "invoice_pending")
           /\ reserved' = [p \in Products |-> reserved[p] + Qty[o][p]]
           /\ resv' = [resv EXCEPT ![o] = "held"]
           /\ lapsed' = [lapsed EXCEPT ![o] = FALSE]
           /\ payment' = [payment EXCEPT ![o] = "creating"]
           /\ Take(w, "call", o)
           /\ UNCHANGED <<flagVars, aged, coreVars, onHand, deleted>>
  <2>1. reserved' \in [Products -> Int]
    BY <1>2, QtyNat DEF TypeOK
  <2>2. /\ resv' \in [Orders -> RESERVATION_STATES \cup {"none"}]
        /\ lapsed' \in [Orders -> BOOLEAN]
        /\ payment' \in [Orders -> PAYMENT_STATES]
    BY <1>2 DEF TypeOK, RESERVATION_STATES, PAYMENT_STATES
  <2> QED
    BY <1>2, <2>1, <2>2, TransitionOK, TakeOK DEF TypeOK, Tasks, flagVars, coreVars
<1> QED
  BY <1>1, <1>2 DEF ClaimStock

\* attach_payment keeps the types, correlated or not.
LEMMA AttachPaymentOK ==
  ASSUME TypeOK, NEW w \in Workers, AttachPayment(w)
  PROVE  TypeOK'
<1> DEFINE o == work[w].order
<1>1. ~Idle(w) /\ o \in Orders
  BY BusyOnOrder DEF AttachPayment, Idle
<1>2. /\ work' \in [Workers -> [task : Tasks, order : Orders \cup {NoOrder}]]
      /\ \A v \in Workers : work'[v].task = "idle" <=> work'[v].order = NoOrder
  <2>1. CASE Continue(w, "settle")
    BY <1>1, <2>1, ContinueOK DEF Tasks
  <2>2. CASE Done(w)
    BY <2>2, DoneOK
  <2> QED
    BY <2>1, <2>2 DEF AttachPayment
<1>3. CASE attach(o)
  <2>1. payment' \in [Orders -> PAYMENT_STATES]
    BY <1>1, <1>3 DEF TypeOK, PAYMENT_STATES, attach
  <2>2. order' \in [Orders -> ORDER_STATES \cup {"none"}] /\ archived' \in [Orders -> BOOLEAN]
    BY <1>1, <1>3, TransitionOK DEF attach, orderVars, TypeOK
  <2>3. lapsed' \in [Orders -> BOOLEAN]
    BY <1>1, <1>3 DEF TypeOK, attach
  <2> QED
    BY <1>2, <1>3, <2>1, <2>2, <2>3 DEF TypeOK, attach, flagVars, coreVars, stockVars
<1>4. CASE mark_unknown(o)
  BY <1>1, <1>2, <1>4
     DEF TypeOK, mark_unknown, orderVars, resvVars, coreVars, stockVars, PAYMENT_STATES
<1>5. CASE UNCHANGED <<orderVars, flagVars, resvVars, payVars, coreVars, stockVars>>
  BY <1>2, <1>5, WorkOnlyOK
<1> QED
  BY <1>3, <1>4, <1>5 DEF AttachPayment

\* confirm_settlement and _flag_exception keep the types.
LEMMA SettleOK ==
  ASSUME TypeOK, NEW w \in Workers, Settle(w)
  PROVE  TypeOK'
<1> DEFINE o == work[w].order
<1>1. o \in Orders
  BY BusyOnOrder DEF Settle, Has, Idle
<1>2. /\ work' \in [Workers -> [task : Tasks, order : Orders \cup {NoOrder}]]
      /\ \A v \in Workers : work'[v].task = "idle" <=> work'[v].order = NoOrder
  BY DoneOK DEF Settle
<1>3. CASE confirm_settlement(o)
  <2>1. payment' \in [Orders -> PAYMENT_STATES] /\ exception' \in [Orders -> BOOLEAN]
    BY <1>1, <1>3 DEF TypeOK, PAYMENT_STATES, confirm_settlement, flagVars, payVars
  <2>2. order' \in [Orders -> ORDER_STATES \cup {"none"}] /\ archived' \in [Orders -> BOOLEAN]
    BY <1>1, <1>3, TransitionOK DEF confirm_settlement, orderVars, TypeOK
  <2>3. /\ resv' = resv \/ resv' = [resv EXCEPT ![o] = "consumed"]
        /\ reserved' = reserved \/ reserved' = [p \in Products |-> reserved[p] - Qty[o][p]]
        /\ \/ onHand' = onHand
           \/ onHand' = [p \in Products |->
                           IF p \in Tracked THEN onHand[p] - Qty[o][p] ELSE onHand[p]]
    BY <1>3 DEF confirm_settlement, resvVars, stockVars
  <2>4. reserved' \in [Products -> Int] /\ onHand' \in [Products -> Int]
    <3>1. \A p \in Products : /\ reserved[p] - Qty[o][p] \in Int /\ onHand[p] - Qty[o][p] \in Int
                              /\ onHand[p] \in Int
      BY <1>1, QtyNat DEF TypeOK
    <3> QED
      BY <2>3, <3>1 DEF TypeOK
  <2>5. resv' \in [Orders -> RESERVATION_STATES \cup {"none"}]
    BY <1>1, <2>3 DEF TypeOK, RESERVATION_STATES
  <2>6. UNCHANGED <<resolution, oversold, shipping, aged, lapsed, deleted, core, invoices>>
    BY <1>3 DEF confirm_settlement, flagVars, resvVars, payVars, coreVars, stockVars
  <2> QED
    BY <1>2, <2>1, <2>2, <2>4, <2>5, <2>6 DEF TypeOK
<1>4. CASE flag_exception(o)
  BY <1>1, <1>2, <1>4
     DEF TypeOK, flag_exception, orderVars, resvVars, payVars, coreVars, stockVars
<1> QED
  BY <1>3, <1>4 DEF Settle

\* What _resolve_accept takes is a number of free units.
LEMMA ShipmentNat ==
  ASSUME TypeOK, NEW o \in Orders, NEW p \in Products
  PROVE  /\ Shipment(o, p) \in Nat
         /\ p \in Tracked /\ Available(p) >= 0 => Shipment(o, p) <= Available(p)
<1>1. Qty[o][p] \in Nat /\ Available(p) \in Int
  BY QtyNat DEF TypeOK, Available
<1>2. CASE p \notin Tracked
  BY <1>1, <1>2 DEF Shipment
<1>3. CASE p \in Tracked /\ Available(p) >= Qty[o][p]
  BY <1>1, <1>3 DEF Shipment
<1>4. CASE p \in Tracked /\ Available(p) < 0
  BY <1>1, <1>4 DEF Shipment
<1>5. CASE p \in Tracked /\ 0 <= Available(p) /\ Available(p) < Qty[o][p]
  BY <1>1, <1>5 DEF Shipment
<1> QED
  BY <1>1, <1>2, <1>3, <1>4, <1>5

\* _resolve_accept keeps the types.
LEMMA AcceptOK ==
  ASSUME TypeOK, NEW o \in Orders, Accept(o)
  PROVE  TypeOK'
<1>1. onHand' \in [Products -> Int]
  BY ShipmentNat DEF TypeOK, Accept
<1>2. /\ exception' \in [Orders -> BOOLEAN]
      /\ resolution' \in
           [Orders -> {"none", "accepted", "refund_requested", "refund_confirmed"}]
      /\ oversold' \in [Orders -> BOOLEAN]
  BY DEF TypeOK, Accept
<1>3. shipping' \in [Orders -> SHIPPING_STATES]
  BY DEF TypeOK, Accept, SHIPPING_STATES
<1>4. order' \in [Orders -> ORDER_STATES \cup {"none"}] /\ archived' \in [Orders -> BOOLEAN]
  BY TransitionOK DEF Accept
<1> QED
  BY <1>1, <1>2, <1>3, <1>4 DEF TypeOK, Accept, resvVars, payVars, coreVars

\* The merchant's endpoints keep the types.
LEMMA MerchantOK ==
  ASSUME TypeOK, NEW o \in Orders, Merchant(o)
  PROVE  TypeOK'
<1>1. CASE Cancel(o)
  BY <1>1, TransitionOK, ReleaseOK
     DEF Cancel, TypeOK, RESERVATION_STATES, flagVars, payVars, coreVars
<1>2. CASE Accept(o)
  BY <1>2, AcceptOK
<1>3. CASE RequestRefund(o) \/ ConfirmRefund(o)
  BY <1>3 DEF RequestRefund, ConfirmRefund, TypeOK, orderVars, resvVars, payVars, coreVars,
              stockVars
<1>4. CASE Archive(o) \/ Restore(o)
  BY <1>4 DEF Archive, Restore, TypeOK, flagVars, resvVars, payVars, coreVars, stockVars
<1>5. ASSUME NEW to \in ORDER_STATES, SetStatus(o, to)
      PROVE  TypeOK'
  BY <1>5, TransitionOK DEF SetStatus, TypeOK, flagVars, resvVars, payVars, coreVars, stockVars
<1>6. ASSUME NEW to \in SHIPPING_STATES, SetShipping(o, to)
      PROVE  TypeOK'
  BY <1>6 DEF SetShipping, TypeOK, orderVars, resvVars, payVars, coreVars, stockVars
<1> QED
  BY <1>1, <1>2, <1>3, <1>4, <1>5, <1>6 DEF Merchant

\* The core and the clock keep the types.
LEMMA EnvironmentOK ==
  ASSUME TypeOK, NEW o \in Orders, Environment(o)
  PROVE  TypeOK'
<1>1. CASE InvoicePaid(o) \/ InvoiceExpires(o)
  BY <1>1 DEF InvoicePaid, InvoiceExpires, TypeOK, orderVars, flagVars, resvVars, payVars, stockVars
<1>2. CASE ReservationLapses(o)
  BY <1>2 DEF ReservationLapses, TypeOK, orderVars, flagVars, payVars, coreVars, stockVars
<1>3. CASE WindowPasses(o)
  BY <1>3 DEF WindowPasses, TypeOK, orderVars, flagVars, resvVars, coreVars, stockVars
<1> QED
  BY <1>1, <1>2, <1>3 DEF Environment

\* Every transaction of a worker keeps the types.
LEMMA WorkerStepOK ==
  ASSUME TypeOK, NEW w \in Workers, WorkerStep(w)
  PROVE  TypeOK'
<1> DEFINE o == work[w].order
<1>1. ~Idle(w) /\ o \in Orders
  <2>1. ~Idle(w)
    BY DEF WorkerStep, RejectIntake, CreateInvoice, RejectInvoice, UnknownInvoice, AttachPayment,
           Settle, RejectUncertain, ExpireOrder, CloseProjection, SweepRead, SweepRelease, Has,
           Idle
  <2> QED
    BY <2>1, BusyOnOrder
<1>2. CASE RejectIntake(w) \/ RejectInvoice(w) \/ RejectUncertain(w)
  BY <1>1, <1>2, MarkRejectionOK, DoneOK DEF RejectIntake, RejectInvoice, RejectUncertain
<1>3. CASE CreateInvoice(w)
  <2>1. \E t \in {"attach", "unknown", "refused"} : Continue(w, t)
    BY <1>3 DEF CreateInvoice
  <2>2. /\ work' \in [Workers -> [task : Tasks, order : Orders \cup {NoOrder}]]
        /\ \A v \in Workers : work'[v].task = "idle" <=> work'[v].order = NoOrder
    BY <1>1, <2>1, ContinueOK DEF Tasks
  <2>3. core' \in [Orders -> {"none", "open", "expired", "paid"}] /\ invoices' \in [Orders -> Nat]
    BY <1>1, <1>3 DEF CreateInvoice, TypeOK, coreVars
  <2> QED
    BY <1>3, <2>2, <2>3 DEF CreateInvoice, TypeOK, orderVars, flagVars, resvVars, payVars, stockVars
<1>4. CASE UnknownInvoice(w)
  BY <1>1, <1>4, DoneOK
     DEF UnknownInvoice, mark_unknown, TypeOK, PAYMENT_STATES, orderVars, resvVars, coreVars,
         stockVars
<1>5. CASE AttachPayment(w) \/ Settle(w)
  BY <1>5, AttachPaymentOK, SettleOK
<1>6. CASE ExpireOrder(w)
  <2>1. payment' \in [Orders -> PAYMENT_STATES]
    BY <1>1, <1>6 DEF ExpireOrder, ExpirePending, TypeOK, PAYMENT_STATES
  <2>2. /\ order' \in [Orders -> ORDER_STATES \cup {"none"}]
        /\ archived' \in [Orders -> BOOLEAN]
        /\ resv' \in [Orders -> RESERVATION_STATES \cup {"none"}]
        /\ lapsed' \in [Orders -> BOOLEAN]
        /\ onHand' \in [Products -> Int]
        /\ reserved' \in [Products -> Int]
        /\ deleted' \subseteq Products
    BY <1>1, <1>6, TransitionOK, ReleaseOK
       DEF ExpireOrder, TypeOK, RESERVATION_STATES, orderVars, resvVars, stockVars
  <2> QED
    BY <1>6, <2>1, <2>2, DoneOK DEF ExpireOrder, TypeOK, flagVars, coreVars
<1>7. CASE CloseProjection(w)
  BY <1>1, <1>7, DoneOK
     DEF CloseProjection, ExpirePending, TypeOK, PAYMENT_STATES, orderVars, flagVars, resvVars,
         coreVars, stockVars
<1>8. CASE SweepRead(w)
  BY <1>1, <1>8, ContinueOK, WorkOnlyOK DEF SweepRead, Tasks
<1>9. CASE SweepRelease(w)
  BY <1>1, <1>9, DoneOK, ReleaseOK
     DEF SweepRelease, TypeOK, RESERVATION_STATES, orderVars, flagVars, payVars, coreVars
<1> QED
  BY <1>2, <1>3, <1>4, <1>5, <1>6, <1>7, <1>8, <1>9 DEF WorkerStep

\* Every decision of an idle worker keeps the types.
LEMMA WorkerStartOK ==
  ASSUME TypeOK, NEW w \in Workers, NEW o \in Orders, WorkerStart(w, o)
  PROVE  TypeOK'
<1>1. CASE ClaimStock(w, o)
  BY <1>1, ClaimStockOK
<1>2. CASE InvoiceListener(w, o) \/ ReconcileUnattached(w, o) \/ ReconcilePending(w, o)
           \/ SweepList(w, o)
  <2>1. PICK t \in Tasks \ {"idle"} : Take(w, t, o)
    BY <1>2 DEF InvoiceListener, ReconcileUnattached, ReconcilePending, SweepList, Tasks
  <2>2. UNCHANGED <<orderVars, flagVars, resvVars, payVars, coreVars, stockVars>>
    BY <1>2 DEF InvoiceListener, ReconcileUnattached, ReconcilePending, SweepList
  <2> QED
    BY <2>1, <2>2, TakeOK, WorkOnlyOK
<1> QED
  BY <1>1, <1>2 DEF WorkerStart

\* Type correctness is inductive.
LEMMA TypeOKStep == TypeOK /\ [Next]_vars => TypeOK'
<1> SUFFICES ASSUME TypeOK, [Next]_vars
             PROVE  TypeOK'
  OBVIOUS
<1>1. ASSUME NEW o \in Orders, Intake(o)
      PROVE  TypeOK'
  BY <1>1 DEF Intake, TypeOK, ORDER_STATES, flagVars, resvVars, payVars, coreVars, stockVars
<1>2. ASSUME NEW w \in Workers, Crash(w)
      PROVE  TypeOK'
  BY <1>2, DoneOK, WorkOnlyOK DEF Crash
<1>3. ASSUME NEW p \in Products, DeleteProduct(p)
      PROVE  TypeOK'
  BY <1>3 DEF DeleteProduct, TypeOK, orderVars, flagVars, resvVars, payVars, coreVars
<1>4. ASSUME NEW p \in Products, NEW n \in StockEdits, EditStock(p, n)
      PROVE  TypeOK'
  BY <1>4, SagaAssumption DEF EditStock, TypeOK, orderVars, flagVars, resvVars, payVars, coreVars
<1>5. CASE UNCHANGED vars
  BY <1>5 DEF vars, TypeOK
<1> QED
  BY <1>1, <1>2, <1>3, <1>4, <1>5, MerchantOK, EnvironmentOK, WorkerStepOK, WorkerStartOK
     DEF Next

\* The rows and the workers keep their types.
THEOREM TypeCorrect == Spec => []TypeOK
BY TypeOKInit, TypeOKStep, PTL DEF Spec

-----------------------------------------------------------------------------
\* One invoice: why a received order is untouched and its caller alone

\* Before the claim of begin_saga nothing is held, projected or invoiced.
Untouched ==
  \A o \in Orders : order[o] \in {"none", "received"} =>
    /\ resv[o] = "none" /\ payment[o] = "none" /\ invoices[o] = 0
    /\ \A w \in Workers : work[w].order = o => ~Has(w, "call")

\* Whoever is about to call create_invoice is the only one and the first.
OneCaller ==
  \A w \in Workers : Has(w, "call") =>
    /\ invoices[work[w].order] = 0
    /\ \A v \in Workers : Has(v, "call") /\ work[v].order = work[w].order => v = w

CoreKnown == \A o \in Orders : invoices[o] = IF core[o] = "none" THEN 0 ELSE 1

\* Only a payment the core reported successful is booked.
PaidHeard ==
  \A w \in Workers : work[w].task \in {"hear", "settle"} => core[work[w].order] = "paid"

SagaInv == TypeOK /\ Untouched /\ OneCaller /\ CoreKnown /\ PaidHeard

\* The saga invariant holds of an empty shop.
LEMMA SagaInvInit == Init => SagaInv
<1> SUFFICES ASSUME Init
             PROVE  SagaInv
  OBVIOUS
<1> QED
  BY TypeOKInit DEF Init, SagaInv, Untouched, OneCaller, CoreKnown, PaidHeard, Has

\* No legal move leads to 'received' and none starts before it.
LEMMA TransitionTo ==
  \A a, b : <<a, b>> \in ORDER_TRANSITIONS => b \notin {"none", "received"} /\ a # "none"
BY DEF ORDER_TRANSITIONS

\* Most steps leave received orders alone, call nobody and book nothing.
CalmStep ==
  /\ \A o \in Orders : order'[o] \in {"none", "received"} =>
       /\ order[o] \in {"none", "received"}
       /\ resv'[o] = resv[o] /\ payment'[o] = payment[o]
  /\ UNCHANGED coreVars
  /\ \A w \in Workers :
       work'[w] = work[w] \/ work'[w].task \notin {"call", "hear", "settle"}

\* Calm steps keep the saga invariant.
LEMMA CalmKeepsSaga ==
  ASSUME SagaInv, TypeOK', CalmStep
  PROVE  SagaInv'
<1>1. Untouched'
  BY DEF SagaInv, Untouched, CalmStep, coreVars, Has
<1>2. OneCaller'
  BY DEF SagaInv, OneCaller, CalmStep, coreVars, Has
<1>3. CoreKnown' /\ PaidHeard'
  BY DEF SagaInv, CoreKnown, PaidHeard, CalmStep, coreVars
<1> QED
  BY <1>1, <1>2, <1>3 DEF SagaInv

\* A legal move takes the order out of the states that CalmStep protects.
LEMMA TransitionCalm ==
  ASSUME TypeOK, NEW o \in Orders, NEW from, NEW to, transition_order(o, from, to)
  PROVE  /\ order'[o] \notin {"none", "received"}
         /\ \A x \in Orders : x # o => order'[x] = order[x]
BY TransitionTo DEF TypeOK, transition_order

\* A release changes held rows of its own order only.
LEMMA ReleaseCalm ==
  ASSUME TypeOK, NEW o \in Orders, NEW to, release_reservations(o, to)
  PROVE  \A x \in Orders : x # o \/ resv[x] # "held" => resv'[x] = resv[x]
BY DEF TypeOK, release_reservations

\* Only the worker that is done changes, and it becomes idle.
LEMMA DoneCalm ==
  ASSUME TypeOK, NEW w \in Workers, Done(w)
  PROVE  \A v \in Workers : work'[v] = work[v] \/ work'[v].task = "idle"
BY DEF TypeOK, Done, Take

\* A rejection is calm: a received order leaves that state or is not touched.
LEMMA RejectionCalm ==
  ASSUME SagaInv, NEW w \in Workers, NEW o \in Orders, NEW from, mark_rejection(o, from),
         Done(w)
  PROVE  CalmStep
<1>1. CASE /\ transition_order(o, from, "rejected")
           /\ payment' = [payment EXCEPT ![o] = IF @ \in UNATTACHED THEN "failed" ELSE @]
           /\ release_reservations(o, "released")
           /\ UNCHANGED <<flagVars, aged, coreVars>>
  BY <1>1, TransitionCalm, ReleaseCalm, DoneCalm DEF CalmStep, SagaInv, TypeOK
<1>2. CASE UNCHANGED <<orderVars, flagVars, resvVars, payVars, coreVars, stockVars>>
  BY <1>2, DoneCalm DEF CalmStep, SagaInv, TypeOK, orderVars, resvVars, payVars
<1> QED
  BY <1>1, <1>2 DEF mark_rejection

\* Raising the uncertain outcome is calm: a received order has no projection.
LEMMA UnknownCalm ==
  ASSUME SagaInv, NEW w \in Workers, NEW o \in Orders, mark_unknown(o), Done(w)
  PROVE  CalmStep
<1>1. \A x \in Orders : order[x] \in {"none", "received"} => payment'[x] = payment[x]
  BY DEF SagaInv, TypeOK, Untouched, mark_unknown, UNATTACHED
<1> QED
  BY <1>1, DoneCalm DEF CalmStep, SagaInv, mark_unknown, orderVars, resvVars

\* The merchant's endpoints are calm.
LEMMA MerchantCalm ==
  ASSUME SagaInv, NEW o \in Orders, Merchant(o)
  PROVE  CalmStep
<1>1. CASE Cancel(o)
  BY <1>1, TransitionCalm, ReleaseCalm DEF CalmStep, SagaInv, Cancel, payVars, TypeOK
<1>2. CASE Accept(o)
  BY <1>2, TransitionCalm DEF CalmStep, SagaInv, Accept, resvVars, payVars
<1>3. CASE RequestRefund(o) \/ ConfirmRefund(o) \/ Archive(o) \/ Restore(o)
  BY <1>3 DEF CalmStep, SagaInv, RequestRefund, ConfirmRefund, Archive, Restore, orderVars,
              resvVars, payVars
<1>4. ASSUME NEW to \in ORDER_STATES, SetStatus(o, to)
      PROVE  CalmStep
  BY <1>4, TransitionCalm DEF CalmStep, SagaInv, SetStatus, resvVars, payVars
<1>5. ASSUME NEW to \in SHIPPING_STATES, SetShipping(o, to)
      PROVE  CalmStep
  BY <1>5 DEF CalmStep, SetShipping, orderVars, resvVars, payVars
<1> QED
  BY <1>1, <1>2, <1>3, <1>4, <1>5 DEF Merchant

\* The winner of the claim is the only caller, for it found the order received.
LEMMA ClaimKeepsSaga ==
  ASSUME SagaInv, TypeOK', NEW w \in Workers, NEW o \in Orders, ClaimStock(w, o)
  PROVE  SagaInv'
<1>1. CASE /\ Take(w, "short", o)
           /\ UNCHANGED <<orderVars, reserved, resvVars, payment>>
           /\ UNCHANGED coreVars
  BY <1>1, CalmKeepsSaga DEF CalmStep, SagaInv, TypeOK, Take, orderVars, resvVars
<1>2. CASE /\ transition_order(o, "received", "invoice_pending")
           /\ resv' = [resv EXCEPT ![o] = "held"]
           /\ payment' = [payment EXCEPT ![o] = "creating"]
           /\ Take(w, "call", o)
           /\ UNCHANGED coreVars
  <2>1. /\ order[o] = "received" /\ order'[o] = "invoice_pending"
        /\ \A x \in Orders \ {o} : order'[x] = order[x] /\ resv'[x] = resv[x]
                                  /\ payment'[x] = payment[x]
        /\ work'[w] = [task |-> "call", order |-> o]
        /\ \A v \in Workers \ {w} : work'[v] = work[v]
    BY <1>2 DEF SagaInv, TypeOK, transition_order, Take
  <2>2. Untouched'
    BY <1>2, <2>1 DEF SagaInv, Untouched, Has, coreVars
  <2>3. OneCaller'
    BY <1>2, <2>1, BusyOnOrder DEF SagaInv, Untouched, OneCaller, Has, Idle, coreVars
  <2>4. CoreKnown' /\ PaidHeard'
    BY <1>2, <2>1 DEF SagaInv, CoreKnown, PaidHeard, coreVars
  <2> QED
    BY <2>2, <2>3, <2>4 DEF SagaInv
<1> QED
  BY <1>1, <1>2 DEF ClaimStock

\* The only caller makes the first invoice and stops being a caller.
LEMMA CreateInvoiceKeepsSaga ==
  ASSUME SagaInv, TypeOK', NEW w \in Workers, CreateInvoice(w)
  PROVE  SagaInv'
<1> DEFINE o == work[w].order
<1>1. o \in Orders /\ Has(w, "call") /\ invoices[o] = 0 /\ core[o] = "none"
  BY BusyOnOrder DEF SagaInv, OneCaller, CoreKnown, CreateInvoice, Has, Idle
<1>2. order[o] \notin {"none", "received"}
  BY <1>1 DEF SagaInv, Untouched
<1>3. /\ work'[w].task \in {"attach", "unknown", "refused"} /\ work'[w].order = o
      /\ \A v \in Workers \ {w} : work'[v] = work[v]
      /\ UNCHANGED <<order, resv, payment>>
  BY DEF CreateInvoice, Continue, SagaInv, TypeOK, orderVars, resvVars, payVars
<1>4. \/ UNCHANGED coreVars
      \/ /\ core' = [core EXCEPT ![o] = "open"]
         /\ invoices' = [invoices EXCEPT ![o] = @ + 1]
  BY DEF CreateInvoice
<1>5. /\ core' \in [Orders -> {"none", "open", "expired", "paid"}]
      /\ \A x \in Orders \ {o} : invoices'[x] = invoices[x] /\ core'[x] = core[x]
      /\ invoices'[o] = IF core'[o] = "none" THEN 0 ELSE 1
  BY <1>1, <1>4 DEF SagaInv, TypeOK, coreVars
<1>6. Untouched'
  BY <1>2, <1>3, <1>5 DEF SagaInv, Untouched, Has
<1>7. OneCaller'
  <2> SUFFICES ASSUME NEW v \in Workers, Has(v, "call")'
               PROVE  /\ invoices'[work'[v].order] = 0
                      /\ \A u \in Workers :
                           Has(u, "call")' /\ work'[u].order = work'[v].order => u = v
    BY DEF OneCaller
  <2>1. v # w /\ Has(v, "call") /\ work'[v] = work[v]
    BY <1>3 DEF Has
  <2>2. work[v].order # o /\ work[v].order \in Orders
    BY <1>1, <2>1, BusyOnOrder DEF SagaInv, OneCaller, Has, Idle
  <2> QED
    BY <1>3, <1>5, <2>1, <2>2 DEF SagaInv, OneCaller, Has
<1>8. CoreKnown'
  BY <1>5 DEF SagaInv, CoreKnown
<1>9. PaidHeard'
  <2> SUFFICES ASSUME NEW v \in Workers, work'[v].task \in {"hear", "settle"}
               PROVE  core'[work'[v].order] = "paid"
    BY DEF PaidHeard
  <2>1. work'[v] = work[v] /\ core[work[v].order] = "paid" /\ work[v].order \in Orders
    BY <1>3, BusyOnOrder DEF SagaInv, PaidHeard, Idle
  <2> QED
    BY <1>1, <1>5, <2>1
<1> QED
  BY <1>6, <1>7, <1>8, <1>9 DEF SagaInv

\* A worker that hears of a payment knows the core reported it.
LEMMA HearKeepsSaga ==
  ASSUME SagaInv, TypeOK', NEW w \in Workers,
         \A x \in Orders : order'[x] \in {"none", "received"} =>
           order[x] \in {"none", "received"} /\ resv'[x] = resv[x] /\ payment'[x] = payment[x],
         UNCHANGED coreVars,
         \A v \in Workers \ {w} : work'[v] = work[v],
         work'[w].task # "call",
         work'[w].task \in {"hear", "settle"} => core[work'[w].order] = "paid"
  PROVE  SagaInv'
<1>1. Untouched'
  BY DEF SagaInv, Untouched, Has, coreVars
<1>2. OneCaller'
  BY DEF SagaInv, OneCaller, Has, coreVars
<1>3. CoreKnown' /\ PaidHeard'
  BY DEF SagaInv, CoreKnown, PaidHeard, coreVars
<1> QED
  BY <1>1, <1>2, <1>3 DEF SagaInv

\* An attachment books nothing but what a callback had heard.
LEMMA AttachKeepsSaga ==
  ASSUME SagaInv, TypeOK', NEW w \in Workers, AttachPayment(w)
  PROVE  SagaInv'
<1> DEFINE o == work[w].order
<1>1. o \in Orders
  BY BusyOnOrder DEF SagaInv, AttachPayment, Idle
<1>2. \A x \in Orders : order'[x] \in {"none", "received"} =>
        order[x] \in {"none", "received"} /\ resv'[x] = resv[x] /\ payment'[x] = payment[x]
  <2>1. payment[o] \in UNATTACHED => order[o] \notin {"none", "received"}
    BY <1>1 DEF SagaInv, Untouched, UNATTACHED
  <2>2. CASE attach(o)
    BY <1>1, <2>1, <2>2, TransitionCalm DEF attach, SagaInv, TypeOK, orderVars
  <2>3. CASE mark_unknown(o)
    BY <1>1, <2>1, <2>3 DEF mark_unknown, SagaInv, TypeOK, orderVars, resvVars
  <2>4. CASE UNCHANGED <<orderVars, flagVars, resvVars, payVars, coreVars, stockVars>>
    BY <2>4 DEF orderVars, resvVars, payVars
  <2> QED
    BY <2>2, <2>3, <2>4 DEF AttachPayment
<1>3. UNCHANGED coreVars
  BY DEF AttachPayment, attach, mark_unknown
<1>4. /\ \A v \in Workers \ {w} : work'[v] = work[v]
      /\ work'[w].task # "call"
      /\ work'[w].task \in {"hear", "settle"} => core[work'[w].order] = "paid"
  <2>1. CASE Has(w, "hear") /\ Continue(w, "settle")
    BY <1>1, <2>1 DEF SagaInv, TypeOK, PaidHeard, Has, Continue
  <2>2. CASE Done(w)
    BY <2>2 DEF SagaInv, TypeOK, Done, Take
  <2> QED
    BY <2>1, <2>2 DEF AttachPayment
<1> QED
  BY <1>2, <1>3, <1>4, HearKeepsSaga

\* Booking a payment is calm: a received order has no projection to settle.
LEMMA SettleCalm ==
  ASSUME SagaInv, NEW w \in Workers, Settle(w)
  PROVE  CalmStep
<1> DEFINE o == work[w].order
<1>1. o \in Orders
  BY BusyOnOrder DEF SagaInv, Settle, Has, Idle
<1>2. CASE confirm_settlement(o)
  <2>1. CASE /\ payment[o] \in {"pending", "creating", "creation_unknown", "expired"}
             /\ payment' = [payment EXCEPT ![o] = "settled"]
             /\ transition_order(o, "awaiting_payment", "confirmed")
             /\ resv' = [resv EXCEPT ![o] = "consumed"] \/ resv' = resv
             /\ UNCHANGED coreVars
    BY <1>1, <2>1, TransitionCalm, DoneCalm DEF CalmStep, SagaInv, TypeOK, Settle
  <2>2. CASE /\ payment[o] \in {"pending", "creating", "creation_unknown", "expired"}
             /\ payment' = [payment EXCEPT ![o] = "settled"]
             /\ UNCHANGED <<orderVars, resv, coreVars>>
    BY <1>1, <2>2, DoneCalm DEF CalmStep, SagaInv, TypeOK, Untouched, orderVars, Settle
  <2>3. CASE UNCHANGED <<orderVars, flagVars, resvVars, payVars, coreVars, stockVars>>
    BY <2>3, DoneCalm DEF CalmStep, SagaInv, orderVars, resvVars, payVars, Settle
  <2> QED
    BY <1>2, <2>1, <2>2, <2>3 DEF confirm_settlement
<1>3. CASE flag_exception(o)
  BY <1>3, DoneCalm DEF CalmStep, SagaInv, flag_exception, orderVars, resvVars, payVars, Settle
<1> QED
  BY <1>2, <1>3 DEF Settle

\* Every transaction of a worker keeps the saga invariant.
LEMMA WorkerStepKeepsSaga ==
  ASSUME SagaInv, TypeOK', NEW w \in Workers, WorkerStep(w)
  PROVE  SagaInv'
<1> DEFINE o == work[w].order
<1>1. CASE RejectIntake(w) \/ RejectInvoice(w) \/ RejectUncertain(w)
  BY <1>1, BusyOnOrder, RejectionCalm, CalmKeepsSaga
     DEF SagaInv, RejectIntake, RejectInvoice, RejectUncertain, Has, Idle
<1>2. CASE UnknownInvoice(w)
  BY <1>2, BusyOnOrder, UnknownCalm, CalmKeepsSaga DEF SagaInv, UnknownInvoice, Has, Idle
<1>3. CASE ExpireOrder(w)
  <2>1. o \in Orders
    BY <1>3, BusyOnOrder DEF SagaInv, ExpireOrder, Has, Idle
  <2>2. CASE /\ transition_order(o, "awaiting_payment", "expired")
             /\ release_reservations(o, "expired")
             /\ ExpirePending(o)
    BY <1>3, <2>1, <2>2, TransitionCalm, ReleaseCalm, DoneCalm, CalmKeepsSaga
       DEF CalmStep, SagaInv, TypeOK, ExpireOrder, ExpirePending
  <2>3. CASE UNCHANGED <<orderVars, resvVars, payment, stockVars>>
    BY <1>3, <2>3, DoneCalm, CalmKeepsSaga DEF CalmStep, SagaInv, ExpireOrder, orderVars, resvVars
  <2> QED
    BY <1>3, <2>2, <2>3 DEF ExpireOrder
<1>4. CASE CloseProjection(w)
  <2>1. o \in Orders
    BY <1>4, BusyOnOrder DEF SagaInv, CloseProjection, Has, Idle
  <2>2. \A x \in Orders : order[x] \in {"none", "received"} => payment'[x] = payment[x]
    BY <1>4, <2>1 DEF SagaInv, TypeOK, Untouched, CloseProjection, ExpirePending
  <2> QED
    BY <1>4, <2>2, DoneCalm, CalmKeepsSaga
       DEF CalmStep, SagaInv, CloseProjection, orderVars, resvVars
<1>5. CASE SweepRead(w)
  BY <1>5, CalmKeepsSaga
     DEF CalmStep, SagaInv, TypeOK, SweepRead, Continue, orderVars, resvVars, payVars
<1>6. CASE SweepRelease(w)
  BY <1>6, BusyOnOrder, ReleaseCalm, DoneCalm, CalmKeepsSaga
     DEF CalmStep, SagaInv, Untouched, SweepRelease, Has, Idle, orderVars, payVars
<1> QED
  BY <1>1, <1>2, <1>3, <1>4, <1>5, <1>6, CreateInvoiceKeepsSaga, AttachKeepsSaga, SettleCalm,
     CalmKeepsSaga DEF WorkerStep

\* Every decision of an idle worker keeps the saga invariant.
LEMMA WorkerStartKeepsSaga ==
  ASSUME SagaInv, TypeOK', NEW w \in Workers, NEW o \in Orders, WorkerStart(w, o)
  PROVE  SagaInv'
<1>1. CASE InvoiceListener(w, o) \/ ReconcileUnattached(w, o) \/ ReconcilePending(w, o)
           \/ SweepList(w, o)
  <2>1. UNCHANGED <<orderVars, flagVars, resvVars, payVars, coreVars, stockVars>>
    BY <1>1 DEF InvoiceListener, ReconcileUnattached, ReconcilePending, SweepList
  <2>2. PICK t \in Tasks \ {"call"} :
          Take(w, t, o) /\ (t \in {"hear", "settle"} => core[o] = "paid")
    BY <1>1 DEF InvoiceListener, ReconcileUnattached, ReconcilePending, SweepList, Tasks
  <2>3. work'[w] = [task |-> t, order |-> o] /\ \A v \in Workers \ {w} : work'[v] = work[v]
    BY <2>2 DEF SagaInv, TypeOK, Take
  <2> QED
    BY <2>1, <2>2, <2>3, HearKeepsSaga DEF orderVars, resvVars, payVars
<1> QED
  BY <1>1, ClaimKeepsSaga DEF WorkerStart

\* The core never takes a payment back.
LEMMA EnvironmentKeepsSaga ==
  ASSUME SagaInv, TypeOK', NEW o \in Orders, Environment(o)
  PROVE  SagaInv'
<1>1. CASE ReservationLapses(o) \/ WindowPasses(o)
  BY <1>1, CalmKeepsSaga
     DEF CalmStep, SagaInv, ReservationLapses, WindowPasses, orderVars, resvVars, payVars
<1>2. CASE InvoicePaid(o) \/ InvoiceExpires(o)
  <2>1. /\ UNCHANGED <<order, resv, payment, invoices, work>>
        /\ \A x \in Orders : (core'[x] = "none") <=> (core[x] = "none")
        /\ \A x \in Orders : core[x] = "paid" => core'[x] = "paid"
    BY <1>2 DEF SagaInv, TypeOK, InvoicePaid, InvoiceExpires, orderVars, resvVars, payVars
  <2>2. PaidHeard'
    BY <2>1, BusyOnOrder DEF SagaInv, PaidHeard, Idle
  <2>3. Untouched' /\ OneCaller' /\ CoreKnown'
    BY <2>1 DEF SagaInv, Untouched, OneCaller, CoreKnown, Has
  <2> QED
    BY <2>2, <2>3 DEF SagaInv
<1> QED
  BY <1>1, <1>2 DEF Environment

\* The saga invariant is inductive.
LEMMA SagaInvStep == SagaInv /\ [Next]_vars => SagaInv'
<1> SUFFICES ASSUME SagaInv, [Next]_vars
             PROVE  SagaInv'
  OBVIOUS
<1>1. TypeOK'
  BY TypeOKStep DEF SagaInv
<1>2. ASSUME NEW o \in Orders, Intake(o)
      PROVE  SagaInv'
  BY <1>1, <1>2, CalmKeepsSaga DEF CalmStep, SagaInv, TypeOK, Intake, resvVars, payVars
<1>3. ASSUME NEW w \in Workers, Crash(w)
      PROVE  SagaInv'
  BY <1>1, <1>3, DoneCalm, CalmKeepsSaga DEF CalmStep, SagaInv, Crash, orderVars, resvVars, payVars
<1>4. ASSUME NEW p \in Products, DeleteProduct(p) \/ \E n \in StockEdits : EditStock(p, n)
      PROVE  SagaInv'
  BY <1>1, <1>4, CalmKeepsSaga
     DEF CalmStep, SagaInv, DeleteProduct, EditStock, orderVars, resvVars, payVars
<1>5. CASE UNCHANGED vars
  BY <1>1, <1>5, CalmKeepsSaga DEF CalmStep, SagaInv, vars, coreVars
<1> QED
  BY <1>1, <1>2, <1>3, <1>4, <1>5, MerchantCalm, CalmKeepsSaga, WorkerStepKeepsSaga,
     WorkerStartKeepsSaga, EnvironmentKeepsSaga DEF Next

\* Untouched received orders, lone callers and reported payments, always.
THEOREM SagaInvariant == Spec => []SagaInv
BY SagaInvInit, SagaInvStep, PTL DEF Spec

\* However many sagas, retries and crashes an order sees, the core makes at most
\* one invoice for it.
THEOREM NoDuplicateInvoice == Spec => []OneInvoice
<1>1. SagaInv => OneInvoice
  BY DEF SagaInv, CoreKnown, OneInvoice
<1> QED
  BY <1>1, SagaInvariant, PTL

-----------------------------------------------------------------------------
\* Reservations flip once

Flipped == {"consumed", "released", "expired"}

\* A rejection flips held rows only.
LEMMA RejectionFlips ==
  ASSUME SagaInv, NEW o \in Orders, NEW from, mark_rejection(o, from)
  PROVE  \A x \in Orders : resv[x] \in Flipped => resv'[x] = resv[x]
BY ReleaseCalm DEF mark_rejection, SagaInv, Flipped, resvVars

\* A settlement consumes held rows only.
LEMMA SettleFlips ==
  ASSUME SagaInv, NEW w \in Workers, Settle(w)
  PROVE  \A x \in Orders : resv[x] \in Flipped => resv'[x] = resv[x]
<1>1. \/ resv' = resv
      \/ /\ resv[work[w].order] = "held"
         /\ resv' = [resv EXCEPT ![work[w].order] = "consumed"]
  BY DEF Settle, confirm_settlement, flag_exception, resvVars
<1> QED
  BY <1>1 DEF SagaInv, TypeOK, Flipped

\* No transaction of a worker flips a reservation twice.
LEMMA WorkerStepFlips ==
  ASSUME SagaInv, NEW w \in Workers, WorkerStep(w)
  PROVE  \A x \in Orders : resv[x] \in Flipped => resv'[x] = resv[x]
<1>1. CASE RejectIntake(w) \/ RejectInvoice(w) \/ RejectUncertain(w)
  BY <1>1, BusyOnOrder, RejectionFlips
     DEF SagaInv, RejectIntake, RejectInvoice, RejectUncertain, Has, Idle
<1>2. CASE ExpireOrder(w) \/ SweepRelease(w)
  BY <1>2, BusyOnOrder, ReleaseCalm
     DEF SagaInv, ExpireOrder, SweepRelease, Has, Idle, Flipped, resvVars
<1>3. CASE CreateInvoice(w) \/ UnknownInvoice(w) \/ AttachPayment(w) \/ CloseProjection(w)
           \/ SweepRead(w)
  BY <1>3 DEF CreateInvoice, UnknownInvoice, AttachPayment, CloseProjection, SweepRead,
              mark_unknown, attach, resvVars
<1> QED
  BY <1>1, <1>2, <1>3, SettleFlips DEF WorkerStep

\* No step at all flips a reservation twice.
LEMMA FlipStep ==
  ASSUME SagaInv, [Next]_vars
  PROVE  \A x \in Orders : resv[x] \in Flipped => resv'[x] = resv[x]
<1>1. ASSUME NEW o \in Orders, Intake(o) \/ Environment(o)
      PROVE  resv' = resv
  BY <1>1 DEF Intake, Environment, InvoicePaid, InvoiceExpires, ReservationLapses, WindowPasses,
              resvVars
<1>2. ASSUME NEW o \in Orders, Merchant(o)
      PROVE  \A x \in Orders : resv[x] \in Flipped => resv'[x] = resv[x]
  BY <1>2, ReleaseCalm
     DEF Merchant, Cancel, Accept, RequestRefund, ConfirmRefund, Archive, Restore, SetStatus,
         SetShipping, SagaInv, Flipped, resvVars
<1>3. ASSUME NEW w \in Workers, NEW o \in Orders, WorkerStart(w, o)
      PROVE  \A x \in Orders : resv[x] \in Flipped => resv'[x] = resv[x]
  <2>1. CASE ClaimStock(w, o)
    BY <2>1 DEF ClaimStock, transition_order, SagaInv, TypeOK, Untouched, Flipped, resvVars
  <2>2. CASE InvoiceListener(w, o) \/ ReconcileUnattached(w, o) \/ ReconcilePending(w, o)
             \/ SweepList(w, o)
    BY <2>2 DEF InvoiceListener, ReconcileUnattached, ReconcilePending, SweepList, resvVars
  <2> QED
    BY <1>3, <2>1, <2>2 DEF WorkerStart
<1>4. ASSUME NEW w \in Workers, Crash(w)
      PROVE  resv' = resv
  BY <1>4 DEF Crash, resvVars
<1>5. ASSUME NEW p \in Products, DeleteProduct(p) \/ \E n \in StockEdits : EditStock(p, n)
      PROVE  resv' = resv
  BY <1>5 DEF DeleteProduct, EditStock, resvVars
<1>6. CASE UNCHANGED vars
  BY <1>6 DEF vars
<1> QED
  BY <1>1, <1>2, <1>3, <1>4, <1>5, <1>6, WorkerStepFlips DEF Next

\* A reservation that was consumed, released or expired never changes again.
THEOREM NoSecondFlip == Spec => ReservationFlipsOnce
<1>1. SagaInv /\ [Next]_vars =>
        [\A o \in Orders : resv[o] \in {"consumed", "released", "expired"}
                             => resv'[o] = resv[o]]_vars
  BY FlipStep DEF Flipped
<1> QED
  BY <1>1, SagaInvariant, PTL DEF Spec, ReservationFlipsOnce

-----------------------------------------------------------------------------
\* Stock: what is reserved is what is held, and never more than there is

Held == {x \in Orders : resv[x] = "held"}

\* The units of p that the orders of H hold.
Units(H, p) == UNION {{o} \X (1..Qty[o][p]) : o \in H}

\* An order holds as many units as it wants.
LEMMA UnitsOfOrder ==
  ASSUME NEW o \in Orders, NEW p \in Products
  PROVE  /\ IsFiniteSet({o} \X (1..Qty[o][p]))
         /\ Cardinality({o} \X (1..Qty[o][p])) = Qty[o][p]
<1>1. IsFiniteSet(1..Qty[o][p]) /\ Cardinality(1..Qty[o][p]) = Qty[o][p]
  <2>1. 1 \in Int /\ Qty[o][p] \in Nat /\ Qty[o][p] \in Int
    BY QtyNat
  <2>2. /\ IsFiniteSet(1..Qty[o][p])
        /\ Cardinality(1..Qty[o][p]) = IF 1 > Qty[o][p] THEN 0 ELSE Qty[o][p] - 1 + 1
    BY <2>1, FS_Interval
  <2> QED
    BY <2>1, <2>2
<1>2. IsFiniteSet({o}) /\ Cardinality({o}) = 1
  BY FS_Singleton
<1>3. /\ IsFiniteSet({o} \X (1..Qty[o][p]))
      /\ Cardinality({o} \X (1..Qty[o][p])) = Cardinality({o}) * Cardinality(1..Qty[o][p])
  BY <1>1, <1>2, FS_Product
<1> QED
  BY <1>1, <1>2, <1>3, QtyNat

\* Finitely many orders hold finitely many units.
LEMMA UnitsFinite ==
  ASSUME NEW H \in SUBSET Orders, NEW p \in Products
  PROVE  IsFiniteSet(Units(H, p)) /\ Cardinality(Units(H, p)) \in Nat
<1> DEFINE units == [o \in H |-> {o} \X (1..Qty[o][p])]
           U == {{o} \X (1..Qty[o][p]) : o \in H}
<1>1. IsFiniteSet(H)
  BY FiniteOrders, FS_Subset
<1>2. units \in Surjection(H, U)
  BY DEF Surjection
<1>3. IsFiniteSet(U)
  BY <1>1, <1>2, FS_Surjection
<1>4. \A T \in U : IsFiniteSet(T)
  BY UnitsOfOrder
<1>5. IsFiniteSet(UNION U)
  BY <1>3, <1>4, FS_UNION
<1> QED
  BY <1>5, FS_CardinalityType DEF Units

\* A new holder adds the units it wants.
LEMMA UnitsAdd ==
  ASSUME NEW H \in SUBSET Orders, NEW o \in Orders \ H, NEW p \in Products
  PROVE  Cardinality(Units(H \cup {o}, p)) = Cardinality(Units(H, p)) + Qty[o][p]
<1> DEFINE mine == {o} \X (1..Qty[o][p])
<1>1. Units(H \cup {o}, p) = Units(H, p) \cup mine
  BY DEF Units
<1>2. Units(H, p) \cap mine = {}
  BY DEF Units
<1>3. IsFiniteSet(mine) /\ Cardinality(mine) = Qty[o][p]
  BY UnitsOfOrder
<1>4. IsFiniteSet(Units(H, p)) /\ Cardinality(Units(H, p)) \in Nat
  BY UnitsFinite
<1>5. Cardinality(Units(H, p) \cup mine) = Cardinality(Units(H, p)) + Cardinality(mine)
          - Cardinality(Units(H, p) \cap mine)
  BY <1>3, <1>4, FS_Union
<1>6. Cardinality(Units(H, p) \cap mine) = 0
  BY <1>2, FS_EmptySet
<1>7. Qty[o][p] \in Nat
  BY QtyNat
<1>8. Cardinality(Units(H \cup {o}, p)) =
        Cardinality(Units(H, p)) + Cardinality(mine) - Cardinality(Units(H, p) \cap mine)
  BY <1>1, <1>5
<1> HIDE DEF mine
<1> QED
  BY <1>3, <1>4, <1>6, <1>7, <1>8

\* A holder that leaves gives back the units it wanted.
LEMMA UnitsRemove ==
  ASSUME NEW H \in SUBSET Orders, NEW o \in H, NEW p \in Products
  PROVE  Cardinality(Units(H \ {o}, p)) = Cardinality(Units(H, p)) - Qty[o][p]
<1> DEFINE left == H \ {o}
<1>1. left \cup {o} = H /\ o \in Orders \ left /\ left \in SUBSET Orders
  OBVIOUS
<1> HIDE DEF left
<1>2. Cardinality(Units(left \cup {o}, p)) = Cardinality(Units(left, p)) + Qty[o][p]
  BY <1>1, UnitsAdd, Zenon
<1>3. Cardinality(Units(left, p)) \in Nat
  BY <1>1, UnitsFinite
<1>4. Qty[o][p] \in Nat
  BY <1>1, QtyNat
<1>5. Cardinality(Units(H, p)) = Cardinality(Units(left, p)) + Qty[o][p]
  BY <1>1, <1>2
<1>6. Cardinality(Units(left, p)) = Cardinality(Units(H, p)) - Qty[o][p]
  BY <1>3, <1>4, <1>5
<1> QED
  BY <1>6 DEF left

ReservedUnits == \A p \in Products : reserved[p] = Cardinality(Units(Held, p))

StockInv == SagaInv /\ ReservedUnits /\ NeverOversold

\* What a step may do to the stock: nothing, hold, give back, consume, or take
\* or edit what is free.
StockStep ==
  /\ \/ resv' = resv /\ reserved' = reserved
     \/ \E o \in Orders :
          /\ resv[o] # "held" /\ resv' = [resv EXCEPT ![o] = "held"]
          /\ reserved' = [p \in Products |-> reserved[p] + Qty[o][p]]
     \/ \E o \in Orders, s \in Flipped :
          /\ resv[o] = "held" /\ resv' = [resv EXCEPT ![o] = s]
          /\ reserved' = [p \in Products |-> reserved[p] - Qty[o][p]]
  /\ \A p \in Tracked : reserved[p] <= onHand[p] => reserved'[p] <= onHand'[p]

\* Stock steps keep the sum exact and covered.
LEMMA StockStepKeeps ==
  ASSUME StockInv, SagaInv', StockStep
  PROVE  StockInv'
<1>1. ReservedUnits'
  <2> SUFFICES ASSUME NEW p \in Products
               PROVE  reserved'[p] = Cardinality(Units(Held', p))
    BY DEF ReservedUnits, Units
  <2>1. reserved[p] = Cardinality(Units(Held, p)) /\ Held \in SUBSET Orders
    BY DEF StockInv, ReservedUnits, Held
  <2>2. CASE resv' = resv /\ reserved' = reserved
    BY <2>1, <2>2 DEF Held
  <2>3. ASSUME NEW o \in Orders, resv[o] # "held", resv' = [resv EXCEPT ![o] = "held"],
               reserved' = [q \in Products |-> reserved[q] + Qty[o][q]]
        PROVE  reserved'[p] = Cardinality(Units(Held', p))
    <3>1. Held' = Held \cup {o} /\ o \in Orders \ Held
      BY <2>3 DEF StockInv, SagaInv, TypeOK, Held
    <3> QED
      BY <2>1, <2>3, <3>1, UnitsAdd
  <2>4. ASSUME NEW o \in Orders, NEW s \in Flipped, resv[o] = "held",
               resv' = [resv EXCEPT ![o] = s],
               reserved' = [q \in Products |-> reserved[q] - Qty[o][q]]
        PROVE  reserved'[p] = Cardinality(Units(Held', p))
    <3>1. Held' = Held \ {o} /\ o \in Held
      BY <2>4 DEF StockInv, SagaInv, TypeOK, Held, Flipped
    <3> QED
      BY <2>1, <2>4, <3>1, UnitsRemove
  <2> QED
    BY <2>2, <2>3, <2>4 DEF StockStep
<1>2. \A p \in Products : 0 <= reserved'[p]
  <2> SUFFICES ASSUME NEW p \in Products
               PROVE  0 <= reserved'[p]
    OBVIOUS
  <2>1. Held' \in SUBSET Orders
    BY DEF Held
  <2>2. Cardinality(Units(Held', p)) \in Nat
    BY <2>1, UnitsFinite
  <2>3. reserved'[p] = Cardinality(Units(Held', p))
    BY <1>1 DEF ReservedUnits, Units
  <2> QED
    BY <2>2, <2>3
<1>3. NeverOversold'
  BY <1>2, SagaAssumption DEF StockInv, NeverOversold, StockStep
<1> QED
  BY <1>1, <1>3 DEF StockInv

\* A release is a stock step.
LEMMA ReleaseStock ==
  ASSUME SagaInv, NEW o \in Orders, NEW s \in Flipped, release_reservations(o, s)
  PROVE  StockStep
<1>1. CASE /\ resv[o] = "held" /\ resv' = [resv EXCEPT ![o] = s]
           /\ reserved' = [p \in Products |-> reserved[p] - Qty[o][p]]
           /\ onHand' = onHand
  <2>1. \A p \in Tracked : reserved[p] <= onHand[p] => reserved'[p] <= onHand'[p]
    BY <1>1, QtyNat, SagaAssumption DEF SagaInv, TypeOK
  <2> QED
    BY <1>1, <2>1 DEF StockStep
<1>2. CASE UNCHANGED <<resv, reserved, onHand>>
  BY <1>2 DEF StockStep
<1> QED
  BY <1>1, <1>2 DEF release_reservations

\* The conditional claim is a stock step: it looks at what is free and takes it at once.
LEMMA ClaimStockStock ==
  ASSUME StockInv, NEW w \in Workers, NEW o \in Orders, ClaimStock(w, o)
  PROVE  StockStep
<1>1. CASE UNCHANGED <<resv, reserved, onHand>>
  BY <1>1 DEF StockStep
<1>2. CASE /\ Claimable(o) /\ order[o] = "received"
           /\ reserved' = [p \in Products |-> reserved[p] + Qty[o][p]]
           /\ resv' = [resv EXCEPT ![o] = "held"]
           /\ onHand' = onHand
  <2>1. resv[o] # "held"
    BY <1>2 DEF StockInv, SagaInv, Untouched
  <2>2. ASSUME NEW p \in Tracked, reserved[p] <= onHand[p]
        PROVE  reserved'[p] <= onHand'[p]
    <3>1. p \in Products /\ reserved[p] \in Int /\ onHand[p] \in Int /\ Qty[o][p] \in Nat
      BY QtyNat, SagaAssumption DEF StockInv, SagaInv, TypeOK
    <3>2. Qty[o][p] > 0 => onHand[p] - reserved[p] >= Qty[o][p]
      BY <1>2, <3>1 DEF Claimable, Available
    <3> QED
      BY <1>2, <2>2, <3>1, <3>2
  <2> QED
    BY <1>2, <2>1, <2>2 DEF StockStep
<1> QED
  BY <1>1, <1>2 DEF ClaimStock, transition_order, resvVars

\* A rejection is a stock step.
LEMMA RejectionStock ==
  ASSUME SagaInv, NEW o \in Orders, NEW from, mark_rejection(o, from)
  PROVE  StockStep
BY ReleaseStock DEF mark_rejection, Flipped, StockStep, resvVars, stockVars

\* A settlement is a stock step: it consumes what it had reserved.
LEMMA SettleStock ==
  ASSUME SagaInv, NEW w \in Workers, Settle(w)
  PROVE  StockStep
<1> DEFINE o == work[w].order
<1>1. o \in Orders
  BY BusyOnOrder DEF SagaInv, Settle, Has, Idle
<1>2. CASE UNCHANGED <<resv, reserved, onHand>>
  BY <1>2 DEF StockStep
<1>3. CASE /\ resv[o] = "held" /\ resv' = [resv EXCEPT ![o] = "consumed"]
           /\ reserved' = [p \in Products |-> reserved[p] - Qty[o][p]]
           /\ onHand' = [p \in Products |->
                           IF p \in Tracked THEN onHand[p] - Qty[o][p] ELSE onHand[p]]
  <2>1. \A p \in Tracked : reserved[p] <= onHand[p] => reserved'[p] <= onHand'[p]
    BY <1>1, <1>3, QtyNat, SagaAssumption DEF SagaInv, TypeOK
  <2> QED
    BY <1>1, <1>3, <2>1 DEF StockStep, Flipped
<1> QED
  BY <1>2, <1>3 DEF Settle, confirm_settlement, flag_exception, resvVars, stockVars

\* Every transaction of a worker is a stock step.
LEMMA WorkerStepStock ==
  ASSUME SagaInv, NEW w \in Workers, WorkerStep(w)
  PROVE  StockStep
<1>1. CASE RejectIntake(w) \/ RejectInvoice(w) \/ RejectUncertain(w)
  BY <1>1, BusyOnOrder, RejectionStock
     DEF SagaInv, RejectIntake, RejectInvoice, RejectUncertain, Has, Idle
<1>2. CASE ExpireOrder(w) \/ SweepRelease(w)
  BY <1>2, BusyOnOrder, ReleaseStock
     DEF SagaInv, ExpireOrder, SweepRelease, Has, Idle, Flipped, StockStep, resvVars, stockVars
<1>3. CASE CreateInvoice(w) \/ UnknownInvoice(w) \/ AttachPayment(w) \/ CloseProjection(w)
           \/ SweepRead(w)
  BY <1>3 DEF CreateInvoice, UnknownInvoice, AttachPayment, CloseProjection, SweepRead,
              mark_unknown, attach, StockStep, resvVars, stockVars
<1> QED
  BY <1>1, <1>2, <1>3, SettleStock DEF WorkerStep

\* The merchant's endpoints are stock steps: an acceptance takes free units only.
LEMMA MerchantStock ==
  ASSUME SagaInv, NEW o \in Orders, Merchant(o)
  PROVE  StockStep
<1>1. CASE Cancel(o)
  BY <1>1, ReleaseStock DEF Cancel, Flipped
<1>2. CASE Accept(o)
  <2>1. ASSUME NEW p \in Tracked, reserved[p] <= onHand[p]
        PROVE  reserved'[p] <= onHand'[p]
    <3>1. p \in Products /\ reserved[p] \in Int /\ onHand[p] \in Int
      BY SagaAssumption DEF SagaInv, TypeOK
    <3>2. Shipment(o, p) \in Nat /\ Shipment(o, p) <= Available(p)
      BY <2>1, <3>1, ShipmentNat DEF SagaInv, Available
    <3>3. onHand'[p] = onHand[p] - Shipment(o, p) /\ reserved' = reserved
      BY <1>2, <3>1 DEF Accept
    <3> QED
      BY <3>1, <3>2, <3>3 DEF Available
  <2> QED
    BY <1>2, <2>1 DEF Accept, StockStep, resvVars
<1>3. ASSUME NEW to, SetStatus(o, to) \/ SetShipping(o, to)
      PROVE  StockStep
  BY <1>3 DEF SetStatus, SetShipping, StockStep, resvVars, stockVars
<1>4. CASE RequestRefund(o) \/ ConfirmRefund(o) \/ Archive(o) \/ Restore(o)
  BY <1>4 DEF RequestRefund, ConfirmRefund, Archive, Restore, StockStep, resvVars, stockVars
<1> QED
  BY <1>1, <1>2, <1>3, <1>4 DEF Merchant

\* The stock invariant is inductive.
LEMMA StockInvStep == StockInv /\ [Next]_vars => StockInv'
<1> SUFFICES ASSUME StockInv, [Next]_vars
             PROVE  StockInv'
  OBVIOUS
<1>1. SagaInv /\ SagaInv'
  BY SagaInvStep DEF StockInv
<1>2. ASSUME NEW o \in Orders, Intake(o) \/ Environment(o)
      PROVE  StockStep
  BY <1>2 DEF Intake, Environment, InvoicePaid, InvoiceExpires, ReservationLapses, WindowPasses,
              StockStep, resvVars, stockVars
<1>3. ASSUME NEW w \in Workers, NEW o \in Orders, WorkerStart(w, o)
      PROVE  StockStep
  BY <1>3, ClaimStockStock
     DEF WorkerStart, InvoiceListener, ReconcileUnattached, ReconcilePending, SweepList,
         StockStep, resvVars, stockVars
<1>4. ASSUME NEW w \in Workers, Crash(w)
      PROVE  StockStep
  BY <1>4 DEF Crash, StockStep, resvVars, stockVars
<1>5. ASSUME NEW p \in Products, DeleteProduct(p) \/ \E n \in StockEdits : EditStock(p, n)
      PROVE  StockStep
  <2>1. CASE DeleteProduct(p)
    BY <2>1 DEF DeleteProduct, StockStep, resvVars
  <2>2. ASSUME NEW n \in StockEdits, EditStock(p, n)
        PROVE  StockStep
    BY <1>1, <2>2, SagaAssumption DEF EditStock, StockStep, SagaInv, TypeOK, resvVars
  <2> QED
    BY <1>5, <2>1, <2>2
<1>6. ASSUME UNCHANGED vars
      PROVE  StockStep
  <2>1. resv' = resv /\ reserved' = reserved /\ onHand' = onHand
    BY <1>6 DEF vars
  <2> QED
    BY <2>1 DEF StockStep
<1>7. ASSUME NEW w \in Workers, WorkerStep(w)
      PROVE  StockStep
  BY <1>1, <1>7, WorkerStepStock
<1>8. ASSUME NEW o \in Orders, Merchant(o)
      PROVE  StockStep
  BY <1>1, <1>8, MerchantStock
<1>9. StockStep
  BY <1>2, <1>3, <1>4, <1>5, <1>6, <1>7, <1>8 DEF Next
<1> QED
  BY <1>1, <1>9, StockStepKeeps

\* The stock invariant holds of an empty shop.
LEMMA StockInvInit == Init => StockInv
<1> SUFFICES ASSUME Init
             PROVE  StockInv
  OBVIOUS
<1>1. \A o \in Orders : resv[o] = "none"
  BY DEF Init
<1>2. \A p \in Products : Units(Held, p) = {}
  BY <1>1 DEF Units, Held
<1>3. \A p \in Products : reserved[p] = 0 /\ onHand[p] \in Nat
  BY SagaAssumption DEF Init
<1>4. ReservedUnits
  <2>1. \A p \in Products : Cardinality(Units(Held, p)) = 0
    BY <1>2, FS_EmptySet
  <2> QED
    BY <1>3, <2>1 DEF ReservedUnits
<1>5. NeverOversold
  BY <1>3, SagaAssumption DEF NeverOversold
<1> QED
  BY <1>4, <1>5, SagaInvInit DEF StockInv

\* The sum of the held rows is exact and covered, always.
THEOREM StockInvariant == Spec => []StockInv
BY StockInvInit, StockInvStep, PTL DEF Spec

\* The claims on a finite product never exceed the stock, whatever sagas, sweeps,
\* late payments, acceptances and stock edits meet.
THEOREM ClaimsAreCovered == Spec => []NeverOversold
<1>1. StockInv => NeverOversold
  BY DEF StockInv
<1> QED
  BY <1>1, StockInvariant, PTL

\* stock_reserved is the sum of the held rows.
THEOREM ReservedIsExact == Spec => []ReservedIsHeld
<1>1. StockInv => ReservedIsHeld
  BY DEF StockInv, ReservedUnits, ReservedIsHeld, HeldUnits, Units, Held
<1> QED
  BY <1>1, StockInvariant, PTL

-----------------------------------------------------------------------------
\* The saga implements the contract, as long as nobody asks the status endpoint
\* to confirm an order that awaits its payment.

UnpaidMoveUnused == <<"awaiting_payment", "confirmed">> \notin StatusMoves

phase == [o \in Orders |-> PhaseOf(order[o])]
booked == [o \in Orders |-> payment[o] = "settled"]

ContractStep == [Contract!Next]_Contract!contractVars

\* An empty shop is an initial state of the contract.
LEMMA ContractInit == Init => Contract!Init
<1> SUFFICES ASSUME Init
             PROVE  Contract!Init
  OBVIOUS
<1>1. \A o \in Orders : order[o] = "none" /\ payment[o] = "none"
  BY DEF Init
<1>2. PhaseOf("none") = "new"
  BY DEF PhaseOf, OPEN_STATES, DELIVERY_STATES
<1>3. [o \in Orders |-> PhaseOf(order[o])] = [o \in Orders |-> "new"]
  BY <1>1, <1>2
<1>4. [o \in Orders |-> payment[o] = "settled"] = [o \in Orders |-> FALSE]
  BY <1>1
<1> QED
  BY <1>3, <1>4 DEF Init, Contract!Init

\* An action of the contract about one order is a step of it.
LEMMA ContractActions ==
  ASSUME NEW x \in Orders,
         \/ Contract!Place(x) \/ Contract!MakeInvoice(x) \/ Contract!Book(x)
         \/ Contract!Close(x) \/ Contract!Reopen(x)
  PROVE  ContractStep
<1>1. Contract!Next
  BY Zenon DEF Contract!Next
<1> QED
  BY <1>1 DEF ContractStep

\* A step that changes neither phases, bookings nor invoices stutters.
LEMMA SameContract ==
  ASSUME phase' = phase, booked' = booked, invoices' = invoices
  PROVE  ContractStep
BY DEF ContractStep, Contract!contractVars, phase, booked

\* A move that sells nothing keeps the phase or closes the order.
LEMMA PlainMove ==
  ASSUME NEW from, NEW to, <<from, to>> \in ORDER_TRANSITIONS, to # "confirmed"
  PROVE  \/ PhaseOf(to) = PhaseOf(from)
         \/ PhaseOf(from) \in {"open", "sold"} /\ PhaseOf(to) = "closed"
BY DEF ORDER_TRANSITIONS, PhaseOf, OPEN_STATES, DELIVERY_STATES

\* transition_order changes the phase of its order only.
LEMMA TransitionPhase ==
  ASSUME TypeOK, NEW o \in Orders, NEW from, NEW to, transition_order(o, from, to)
  PROVE  /\ phase' = [phase EXCEPT ![o] = PhaseOf(to)]
         /\ order[o] = from /\ phase[o] = PhaseOf(from)
         /\ <<from, to>> \in ORDER_TRANSITIONS
<1>1. order' = [order EXCEPT ![o] = to] /\ order[o] = from /\ <<from, to>> \in ORDER_TRANSITIONS
  BY DEF transition_order
<1>2. order'[o] = to /\ \A x \in Orders \ {o} : order'[x] = order[x]
  BY <1>1 DEF TypeOK
<1>3. phase'[o] = PhaseOf(to) /\ \A x \in Orders \ {o} : phase'[x] = phase[x]
  BY <1>2 DEF phase
<1>4. phase' = [phase EXCEPT ![o] = PhaseOf(to)]
  BY <1>3, Zenon DEF phase
<1> QED
  BY <1>1, <1>4 DEF phase

\* A move that confirms nothing is a step of the contract.
LEMMA MoveContract ==
  ASSUME TypeOK, NEW o \in Orders, NEW from, NEW to, transition_order(o, from, to),
         to # "confirmed", booked' = booked, invoices' = invoices
  PROVE  ContractStep
<1>1. /\ phase' = [phase EXCEPT ![o] = PhaseOf(to)]
      /\ phase[o] = PhaseOf(from) /\ <<from, to>> \in ORDER_TRANSITIONS
  BY TransitionPhase
<1>2. CASE PhaseOf(to) = PhaseOf(from)
  <2>1. phase' = phase
    BY <1>1, <1>2 DEF phase
  <2> QED
    BY <2>1, SameContract
<1>3. CASE PhaseOf(from) \in {"open", "sold"} /\ PhaseOf(to) = "closed"
  <2>1. Contract!Close(o)
    BY <1>1, <1>3 DEF Contract!Close, phase, booked
  <2> QED
    BY <2>1 DEF ContractStep, Contract!Next
<1> QED
  BY <1>1, <1>2, <1>3, PlainMove

\* Statuses that no settlement has reached may change among themselves.
LEMMA UnbookedStatus ==
  ASSUME TypeOK, NEW o \in Orders, NEW s, payment[o] # "settled", s # "settled",
         payment' = [payment EXCEPT ![o] = s]
  PROVE  booked' = booked
<1>1. \A x \in Orders : (payment'[x] = "settled") <=> (payment[x] = "settled")
  BY DEF TypeOK
<1> QED
  BY <1>1 DEF booked

\* A rejection closes an open order or changes nothing the contract sees.
LEMMA RejectionContract ==
  ASSUME SagaInv, NEW o \in Orders, NEW from, mark_rejection(o, from)
  PROVE  ContractStep
<1>1. CASE /\ transition_order(o, from, "rejected")
           /\ payment' = [payment EXCEPT ![o] = IF @ \in UNATTACHED THEN "failed" ELSE @]
           /\ UNCHANGED coreVars
  <2>1. \A x \in Orders : (payment'[x] = "settled") <=> (payment[x] = "settled")
    BY <1>1 DEF SagaInv, TypeOK, UNATTACHED
  <2>2. booked' = booked
    BY <2>1 DEF booked
  <2> QED
    BY <1>1, <2>2, MoveContract DEF SagaInv, coreVars
<1>2. CASE UNCHANGED <<orderVars, flagVars, resvVars, payVars, coreVars, stockVars>>
  BY <1>2, SameContract DEF orderVars, payVars, coreVars, phase, booked
<1> QED
  BY <1>1, <1>2 DEF mark_rejection

\* An uncertain outcome is not seen by the contract.
LEMMA UnknownContract ==
  ASSUME SagaInv, NEW o \in Orders, mark_unknown(o)
  PROVE  ContractStep
<1>1. booked' = booked
  BY UnbookedStatus DEF mark_unknown, SagaInv, UNATTACHED, booked
<1> QED
  BY <1>1, SameContract DEF mark_unknown, orderVars, coreVars, phase

\* An attachment keeps the order open, or closed.
LEMMA AttachContract ==
  ASSUME SagaInv, NEW o \in Orders, attach(o)
  PROVE  ContractStep
<1>1. booked' = booked
  BY UnbookedStatus DEF attach, SagaInv, UNATTACHED
<1>2. CASE transition_order(o, "invoice_pending", "awaiting_payment")
  BY <1>1, <1>2, MoveContract DEF SagaInv, attach, coreVars
<1>3. CASE UNCHANGED orderVars
  BY <1>1, <1>3, SameContract DEF attach, orderVars, coreVars, phase
<1> QED
  BY <1>2, <1>3 DEF attach

\* A settlement books a payment once, against the one invoice.
LEMMA SettleContract ==
  ASSUME SagaInv, NEW w \in Workers, Settle(w)
  PROVE  ContractStep
<1>1. PICK o \in Orders : o = work[w].order /\ invoices[o] = 1
  <2>1. work[w].order \in Orders
    BY BusyOnOrder DEF SagaInv, Settle, Has, Idle
  <2>2. core[work[w].order] = "paid"
    BY DEF SagaInv, PaidHeard, Settle, Has
  <2> QED
    BY <2>1, <2>2 DEF SagaInv, CoreKnown
<1>2. CASE /\ payment[o] # "settled" /\ payment' = [payment EXCEPT ![o] = "settled"]
           /\ UNCHANGED coreVars
           /\ \/ transition_order(o, "awaiting_payment", "confirmed")
              \/ UNCHANGED orderVars
  <2>1. ~booked[o] /\ booked' = [booked EXCEPT ![o] = TRUE]
    <3>1. payment'[o] = "settled" /\ \A x \in Orders \ {o} : payment'[x] = payment[x]
      BY <1>1, <1>2 DEF SagaInv, TypeOK
    <3>2. booked'[o] = TRUE /\ \A x \in Orders \ {o} : booked'[x] = booked[x]
      BY <1>1, <3>1 DEF booked
    <3>3. booked' = [booked EXCEPT ![o] = TRUE]
      BY <3>2, Zenon DEF booked
    <3> QED
      BY <1>1, <1>2, <3>3 DEF booked
  <2>2. \/ phase[o] = "open" /\ phase' = [phase EXCEPT ![o] = "sold"]
        \/ phase' = phase
    <3>1. CASE transition_order(o, "awaiting_payment", "confirmed")
      BY <1>1, <3>1, TransitionPhase DEF SagaInv, PhaseOf, OPEN_STATES, DELIVERY_STATES
    <3>2. CASE UNCHANGED orderVars
      BY <3>2 DEF orderVars, phase
    <3> QED
      BY <1>2, <3>1, <3>2
  <2>3. Contract!Book(o)
    BY <1>1, <1>2, <2>1, <2>2 DEF Contract!Book, phase, booked, coreVars
  <2> QED
    BY <1>1, <2>3, ContractActions
<1>3. CASE UNCHANGED <<orderVars, payment, coreVars>>
  BY <1>3, SameContract DEF orderVars, coreVars, phase, booked
<1> QED
  BY <1>1, <1>2, <1>3 DEF Settle, confirm_settlement, flag_exception, payVars

\* Every transaction of a worker is a step of the contract.
LEMMA WorkerStepContract ==
  ASSUME SagaInv, NEW w \in Workers, WorkerStep(w)
  PROVE  ContractStep
<1> DEFINE o == work[w].order
<1>1. o \in Orders
  BY BusyOnOrder
     DEF SagaInv, WorkerStep, RejectIntake, CreateInvoice, RejectInvoice, UnknownInvoice,
         AttachPayment, Settle, RejectUncertain, ExpireOrder, CloseProjection, SweepRead,
         SweepRelease, Has, Idle
<1>2. CASE RejectIntake(w) \/ RejectInvoice(w) \/ RejectUncertain(w)
  BY <1>1, <1>2, RejectionContract DEF RejectIntake, RejectInvoice, RejectUncertain
<1>3. CASE CreateInvoice(w)
  <2>1. order' = order /\ payment' = payment
    BY <1>3 DEF CreateInvoice, orderVars, payVars
  <2>2. phase' = phase /\ booked' = booked
    BY <2>1 DEF phase, booked
  <2>3. CASE UNCHANGED coreVars
    BY <2>2, <2>3, SameContract DEF coreVars
  <2>4. CASE invoices' = [invoices EXCEPT ![o] = @ + 1]
    <3>1. invoices[o] = 0 /\ order[o] \notin {"none", "received"}
      BY <1>1, <1>3 DEF CreateInvoice, SagaInv, OneCaller, Untouched
    <3>2. phase[o] # "new"
      BY <1>1, <3>1 DEF SagaInv, TypeOK, phase, PhaseOf, ORDER_STATES, OPEN_STATES,
                        DELIVERY_STATES
    <3>3. invoices' = [invoices EXCEPT ![o] = 1]
      BY <2>4, <3>1
    <3>4. Contract!MakeInvoice(o)
      BY <2>2, <3>1, <3>2, <3>3 DEF Contract!MakeInvoice, phase, booked
    <3> QED
      BY <1>1, <3>4, ContractActions
  <2> QED
    BY <1>3, <2>3, <2>4 DEF CreateInvoice
<1>4. CASE UnknownInvoice(w)
  BY <1>1, <1>4, UnknownContract DEF UnknownInvoice
<1>5. CASE AttachPayment(w)
  <2>1. CASE UNCHANGED <<orderVars, flagVars, resvVars, payVars, coreVars, stockVars>>
    BY <2>1, SameContract DEF orderVars, payVars, coreVars, phase, booked
  <2> QED
    BY <1>1, <1>5, <2>1, AttachContract, UnknownContract DEF AttachPayment
<1>6. CASE ExpireOrder(w) \/ CloseProjection(w)
  <2>1. booked' = booked
    <3>1. CASE ExpirePending(o)
      <4>1. \A x \in Orders : (payment'[x] = "settled") <=> (payment[x] = "settled")
        BY <1>1, <3>1 DEF ExpirePending, SagaInv, TypeOK
      <4> QED
        BY <4>1 DEF booked
    <3>2. CASE UNCHANGED payment
      BY <3>2 DEF booked
    <3> QED
      BY <1>6, <3>1, <3>2 DEF ExpireOrder, CloseProjection
  <2>2. invoices' = invoices
    BY <1>6 DEF ExpireOrder, CloseProjection, coreVars
  <2>3. CASE transition_order(o, "awaiting_payment", "expired")
    BY <1>1, <2>1, <2>2, <2>3, MoveContract DEF SagaInv
  <2>4. CASE UNCHANGED orderVars
    BY <2>1, <2>2, <2>4, SameContract DEF orderVars, phase
  <2> QED
    BY <1>6, <2>3, <2>4 DEF ExpireOrder, CloseProjection
<1>7. CASE SweepRead(w) \/ SweepRelease(w)
  BY <1>7, SameContract DEF SweepRead, SweepRelease, orderVars, payVars, coreVars, phase, booked
<1> QED
  BY <1>2, <1>3, <1>4, <1>5, <1>6, <1>7, SettleContract DEF WorkerStep

\* The merchant's endpoints are steps of the contract: an acceptance reopens a booked order.
LEMMA MerchantContract ==
  ASSUME SagaInv, UnpaidMoveUnused, NEW o \in Orders, Merchant(o)
  PROVE  ContractStep
<1>1. CASE Cancel(o)
  BY <1>1, MoveContract DEF Cancel, SagaInv, payVars, coreVars, booked
<1>2. CASE Accept(o)
  <2>1. /\ phase' = [phase EXCEPT ![o] = "sold"] /\ phase[o] = "closed"
        /\ booked[o] /\ booked' = booked /\ invoices' = invoices
    <3>1. transition_order(o, order[o], "confirmed") /\ order[o] \in {"expired", "cancelled"}
      BY <1>2 DEF Accept
    <3>2. PhaseOf("confirmed") = "sold" /\ PhaseOf(order[o]) = "closed"
      BY <3>1 DEF PhaseOf, OPEN_STATES, DELIVERY_STATES
    <3>3. phase' = [phase EXCEPT ![o] = "sold"] /\ phase[o] = "closed"
      BY <3>1, <3>2, TransitionPhase DEF SagaInv
    <3> QED
      BY <1>2, <3>3 DEF Accept, booked, payVars, coreVars
  <2>2. Contract!Reopen(o)
    BY <2>1 DEF Contract!Reopen, phase, booked
  <2> QED
    BY <2>2 DEF ContractStep, Contract!Next
<1>3. ASSUME NEW to \in ORDER_STATES, SetStatus(o, to)
      PROVE  ContractStep
  <2>1. transition_order(o, order[o], to) /\ booked' = booked /\ invoices' = invoices
    BY <1>3 DEF SetStatus, booked, payVars, coreVars
  <2>2. /\ <<order[o], to>> \in ORDER_TRANSITIONS \ REASON_REQUIRED_TRANSITIONS
        /\ <<order[o], to>> # <<"awaiting_payment", "confirmed">>
    BY <1>3, <2>1 DEF SetStatus, transition_order, UnpaidMoveUnused
  <2>3. to # "confirmed"
    BY <2>2 DEF ORDER_TRANSITIONS, REASON_REQUIRED_TRANSITIONS
  <2> QED
    BY <2>1, <2>3, MoveContract DEF SagaInv
<1>4. CASE RequestRefund(o) \/ ConfirmRefund(o) \/ Archive(o) \/ Restore(o)
  BY <1>4, SameContract DEF RequestRefund, ConfirmRefund, Archive, Restore, orderVars, payVars,
                            coreVars, phase, booked
<1>5. ASSUME NEW to, SetShipping(o, to)
      PROVE  ContractStep
  BY <1>5, SameContract DEF SetShipping, orderVars, payVars, coreVars, phase, booked
<1> QED
  BY <1>1, <1>2, <1>3, <1>4, <1>5 DEF Merchant

\* An intake places an order.
LEMMA IntakeContract ==
  ASSUME SagaInv, NEW o \in Orders, Intake(o)
  PROVE  ContractStep
<1>1. order'[o] = "received" /\ \A x \in Orders \ {o} : order'[x] = order[x]
  BY DEF SagaInv, TypeOK, Intake
<1>2. PhaseOf("none") = "new" /\ PhaseOf("received") = "open"
  BY DEF PhaseOf, OPEN_STATES, DELIVERY_STATES
<1>3. phase'[o] = "open" /\ \A x \in Orders \ {o} : phase'[x] = phase[x]
  BY <1>1, <1>2 DEF phase
<1>4. phase' = [phase EXCEPT ![o] = "open"]
  BY <1>3, Zenon DEF phase
<1>5. phase[o] = "new" /\ booked' = booked /\ invoices' = invoices
  BY <1>2 DEF Intake, phase, booked, payVars, coreVars
<1>6. Contract!Place(o)
  BY <1>4, <1>5 DEF Contract!Place, phase, booked
<1> QED
  BY <1>6 DEF ContractStep, Contract!Next

\* Every step of the saga is a step of the contract.
LEMMA ContractSimulation ==
  ASSUME SagaInv, UnpaidMoveUnused, [Next]_vars
  PROVE  ContractStep
<1>1. ASSUME NEW o \in Orders, Environment(o)
      PROVE  ContractStep
  BY <1>1, SameContract
     DEF Environment, InvoicePaid, InvoiceExpires, ReservationLapses, WindowPasses, orderVars,
         payVars, coreVars, phase, booked
<1>2. ASSUME NEW w \in Workers, NEW o \in Orders, WorkerStart(w, o)
      PROVE  ContractStep
  <2>1. CASE ClaimStock(w, o) /\ UNCHANGED <<orderVars, payment>>
    BY <2>1, SameContract DEF ClaimStock, orderVars, coreVars, phase, booked
  <2>2. CASE /\ ClaimStock(w, o) /\ transition_order(o, "received", "invoice_pending")
             /\ payment' = [payment EXCEPT ![o] = "creating"]
    <3>1. payment[o] = "none"
      BY <2>2 DEF SagaInv, Untouched, transition_order
    <3>2. booked' = booked
      BY <2>2, <3>1, UnbookedStatus DEF SagaInv
    <3> QED
      BY <2>2, <3>2, MoveContract DEF SagaInv, ClaimStock, coreVars
  <2>3. CASE UNCHANGED <<orderVars, flagVars, resvVars, payVars, coreVars, stockVars>>
    BY <2>3, SameContract DEF orderVars, payVars, coreVars, phase, booked
  <2> QED
    BY <1>2, <2>1, <2>2, <2>3
       DEF WorkerStart, ClaimStock, InvoiceListener, ReconcileUnattached, ReconcilePending,
           SweepList
<1>3. ASSUME NEW w \in Workers, Crash(w)
      PROVE  ContractStep
  BY <1>3, SameContract DEF Crash, orderVars, payVars, coreVars, phase, booked
<1>4. ASSUME NEW p \in Products, DeleteProduct(p) \/ \E n \in StockEdits : EditStock(p, n)
      PROVE  ContractStep
  BY <1>4, SameContract DEF DeleteProduct, EditStock, orderVars, payVars, coreVars, phase, booked
<1>5. CASE UNCHANGED vars
  BY <1>5, SameContract DEF vars, phase, booked
<1> QED
  BY <1>1, <1>2, <1>3, <1>4, <1>5, IntakeContract, MerchantContract, WorkerStepContract DEF Next

\* When the status endpoint is not asked to confirm unpaid orders, the saga
\* implements the contract of every order.
THEOREM SagaKeepsContract ==
  ASSUME UnpaidMoveUnused
  PROVE  Spec => KeepsContract
<1>1. SagaInv /\ [Next]_vars => [Contract!Next]_Contract!contractVars
  BY ContractSimulation DEF ContractStep
<1> QED
  BY <1>1, ContractInit, SagaInvariant, PTL DEF Spec, KeepsContract, Contract!Spec

-----------------------------------------------------------------------------
\* The four machines of an order agree

\* The merchant asks for no move that only the saga can make: none out of
\* invoice_pending or awaiting_payment, where the saga releases the rows and
\* closes the projection, and none into invoice_pending.
SagaMovesUnused ==
  \A move \in StatusMoves :
    move[1] \notin {"invoice_pending", "awaiting_payment"} /\ move[2] # "invoice_pending"

\* HeldOnlyWhileOpen and StatesAgree of one order.
HeldWhileOpen(o) == resv[o] = "held" => order[o] \in {"invoice_pending", "awaiting_payment"}

Agrees(o) ==
  /\ order[o] \in {"none", "received"} => payment[o] = "none" /\ resv[o] = "none"
  /\ order[o] = "invoice_pending" => payment[o] \in UNATTACHED \cup {"settled"}
  /\ order[o] = "awaiting_payment" => payment[o] = "pending" /\ core[o] # "none"
  /\ order[o] = "rejected" => payment[o] \in {"none", "failed", "settled"}
  /\ order[o] = "expired" => payment[o] \in {"expired", "settled"}
  /\ order[o] \in DELIVERY_STATES => payment[o] = "settled"

Sound(o) == HeldWhileOpen(o) /\ Agrees(o)

\* Orders no step leads back into the saga.
Over(o) == order[o] \notin OPEN_STATES \cup {"none"}

\* What a worker attaches is an invoice the core has, and it closes the
\* projection of an order that has ended.
AimsWell(w) ==
  /\ work[w].task \in {"attach", "hear"} => core[work[w].order] # "none"
  /\ work[w].task = "close" => Over(work[w].order)

AgreeInv ==
  /\ TypeOK
  /\ \A w \in Workers : AimsWell(w)
  /\ \A o \in Orders : Sound(o)

\* The invariant is what the runs check, order by order.
LEMMA AgreeParts ==
  ASSUME AgreeInv
  PROVE  HeldOnlyWhileOpen /\ StatesAgree
<1>1. HeldOnlyWhileOpen
  BY DEF AgreeInv, Sound, HeldWhileOpen, HeldOnlyWhileOpen
<1>2. ASSUME NEW o \in Orders
      PROVE  CASE order[o] \in {"none", "received"} -> payment[o] = "none" /\ resv[o] = "none"
               [] order[o] = "invoice_pending" -> payment[o] \in UNATTACHED \cup {"settled"}
               [] order[o] = "awaiting_payment" -> payment[o] = "pending" /\ core[o] # "none"
               [] order[o] = "rejected" -> payment[o] \in {"none", "failed", "settled"}
               [] order[o] = "expired" -> payment[o] \in {"expired", "settled"}
               [] order[o] \in DELIVERY_STATES -> payment[o] = "settled"
               [] OTHER -> TRUE
  BY DEF AgreeInv, Sound, Agrees, DELIVERY_STATES
<1> QED
  BY <1>1, <1>2 DEF StatesAgree

\* The invariant holds of an empty shop.
LEMMA AgreeInit == Init => AgreeInv
BY TypeOKInit DEF Init, AgreeInv, AimsWell, Sound, HeldWhileOpen, Agrees,
   UNATTACHED, DELIVERY_STATES

\* The rows of an order a step does not concern.
SameRow(o) ==
  /\ order'[o] = order[o] /\ payment'[o] = payment[o] /\ resv'[o] = resv[o]
  /\ exception'[o] = exception[o] /\ resolution'[o] = resolution[o]
  /\ core[o] # "none" => core'[o] # "none"

\* A row that does not change stays sound.
LEMMA SameSound ==
  ASSUME NEW o, SameRow(o), Sound(o)
  PROVE  Sound(o)'
BY DEF SameRow, Sound, HeldWhileOpen, Agrees

\* A step that concerns one order.
Concerns(o) == \A x \in Orders \ {o} : SameRow(x)

\* The shared helpers change the rows of their order alone.
LEMMA TransitionRow ==
  ASSUME TypeOK, NEW o \in Orders, NEW from, NEW to, transition_order(o, from, to)
  PROVE  /\ order[o] = from /\ order'[o] = to
         /\ <<from, to>> \in ORDER_TRANSITIONS
         /\ \A x \in Orders \ {o} : order'[x] = order[x]
BY DEF TypeOK, transition_order

\* Whatever it is called for, no row is held after release_reservations.
LEMMA ReleaseRow ==
  ASSUME TypeOK, NEW o \in Orders, NEW to \in Flipped, release_reservations(o, to)
  PROVE  /\ resv'[o] # "held"
         /\ resv[o] # "held" => resv'[o] = resv[o]
         /\ \A x \in Orders \ {o} : resv'[x] = resv[x]
BY DEF TypeOK, release_reservations, Flipped

\* _mark_rejection leaves a rejected order with a failed projection, or none, or
\* with what was booked and flagged before.
LEMMA RejectionSound ==
  ASSUME TypeOK, NEW o \in Orders, NEW from \in {"received", "invoice_pending"},
         mark_rejection(o, from), Sound(o)
  PROVE  Concerns(o) /\ Sound(o)' /\ UNCHANGED core
<1>1. CASE /\ transition_order(o, from, "rejected")
           /\ payment' = [payment EXCEPT ![o] = IF @ \in UNATTACHED THEN "failed" ELSE @]
           /\ release_reservations(o, "released")
           /\ UNCHANGED <<flagVars, aged, coreVars>>
  <2>1. /\ order[o] = from /\ order'[o] = "rejected"
        /\ \A x \in Orders \ {o} : order'[x] = order[x]
    BY <1>1, TransitionRow
  <2>2. /\ resv'[o] # "held"
        /\ \A x \in Orders \ {o} : resv'[x] = resv[x]
    BY <1>1, ReleaseRow DEF Flipped
  <2>3. /\ payment'[o] = IF payment[o] \in UNATTACHED THEN "failed" ELSE payment[o]
        /\ \A x \in Orders \ {o} : payment'[x] = payment[x]
    BY <1>1 DEF TypeOK
  <2>4. UNCHANGED <<exception, resolution, core>>
    BY <1>1 DEF flagVars, coreVars
  <2>5. Sound(o)'
    BY <2>1, <2>2, <2>3, <2>4
       DEF Sound, HeldWhileOpen, Agrees, UNATTACHED, DELIVERY_STATES
  <2> QED
    BY <2>1, <2>2, <2>3, <2>4, <2>5 DEF Concerns, SameRow
<1>2. CASE UNCHANGED <<orderVars, flagVars, resvVars, payVars, coreVars, stockVars>>
  <2>1. \A x \in Orders : SameRow(x)
    BY <1>2 DEF SameRow, orderVars, flagVars, resvVars, payVars, coreVars
  <2> QED
    BY <1>2, <2>1, SameSound DEF Concerns, coreVars
<1> QED
  BY <1>1, <1>2 DEF mark_rejection

\* An uncertain outcome changes no order and settles nothing.
LEMMA UnknownSound ==
  ASSUME TypeOK, NEW o \in Orders, mark_unknown(o), Sound(o)
  PROVE  Concerns(o) /\ Sound(o)' /\ UNCHANGED core
<1>1. /\ order' = order /\ resv' = resv /\ resolution' = resolution /\ core' = core
      /\ \A x \in Orders \ {o} : payment'[x] = payment[x] /\ exception'[x] = exception[x]
      /\ \/ payment'[o] = payment[o] /\ exception'[o] = exception[o]
         \/ payment[o] \in UNATTACHED /\ payment'[o] = "creation_unknown"
  BY DEF TypeOK, mark_unknown, orderVars, resvVars, coreVars
<1>2. Sound(o)'
  BY <1>1 DEF Sound, HeldWhileOpen, Agrees, UNATTACHED, DELIVERY_STATES
<1> QED
  BY <1>1, <1>2 DEF Concerns, SameRow

\* attach_payment: only an invoice_pending order goes on to await its payment,
\* and no other state has a projection without an invoice but a cancelled order's.
LEMMA AttachSound ==
  ASSUME TypeOK, NEW o \in Orders, attach(o), Sound(o), core[o] # "none"
  PROVE  Concerns(o) /\ Sound(o)' /\ UNCHANGED core
<1>1. /\ resv' = resv /\ resolution' = resolution /\ core' = core /\ exception' = exception
      /\ payment[o] \in UNATTACHED /\ payment'[o] = "pending"
      /\ \A x \in Orders \ {o} : payment'[x] = payment[x]
  BY DEF TypeOK, attach, flagVars, coreVars
<1>2. /\ \A x \in Orders \ {o} : order'[x] = order[x]
      /\ \/ order[o] = "invoice_pending" /\ order'[o] = "awaiting_payment"
         \/ order[o] # "invoice_pending" /\ order'[o] = order[o]
  BY TransitionRow DEF attach, orderVars
<1>3. Sound(o)'
  BY <1>1, <1>2 DEF Sound, HeldWhileOpen, Agrees, UNATTACHED, DELIVERY_STATES
<1> QED
  BY <1>1, <1>2, <1>3 DEF Concerns, SameRow

\* confirm_settlement: an awaiting order is sold with no row left held, any other
\* is flagged.
LEMMA SettleSound ==
  ASSUME TypeOK, NEW o \in Orders, confirm_settlement(o), Sound(o)
  PROVE  Concerns(o) /\ Sound(o)' /\ UNCHANGED core
<1>1. CASE UNCHANGED <<orderVars, flagVars, resvVars, payVars, coreVars, stockVars>>
  <2>1. \A x \in Orders : SameRow(x)
    BY <1>1 DEF SameRow, orderVars, flagVars, resvVars, payVars, coreVars
  <2> QED
    BY <1>1, <2>1, SameSound DEF Concerns, coreVars
<1>2. CASE /\ payment[o] \in {"pending", "creating", "creation_unknown", "expired"}
           /\ payment' = [payment EXCEPT ![o] = "settled"]
           /\ transition_order(o, "awaiting_payment", "confirmed")
           /\ \/ resv[o] = "held" /\ resv' = [resv EXCEPT ![o] = "consumed"]
              \/ resv[o] # "held" /\ resv' = resv
           /\ UNCHANGED <<exception, resolution, core>>
  <2>1. /\ order'[o] = "confirmed" /\ payment'[o] = "settled" /\ resv'[o] # "held"
        /\ \A x \in Orders \ {o} :
             order'[x] = order[x] /\ payment'[x] = payment[x] /\ resv'[x] = resv[x]
    <3>1. order'[o] = "confirmed" /\ \A x \in Orders \ {o} : order'[x] = order[x]
      BY <1>2, TransitionRow
    <3>2. payment'[o] = "settled" /\ \A x \in Orders \ {o} : payment'[x] = payment[x]
      BY <1>2 DEF TypeOK
    <3>3. resv'[o] # "held" /\ \A x \in Orders \ {o} : resv'[x] = resv[x]
      BY <1>2 DEF TypeOK
    <3> QED
      BY <3>1, <3>2, <3>3
  <2>2. Sound(o)'
    BY <1>2, <2>1 DEF Sound, HeldWhileOpen, Agrees, DELIVERY_STATES
  <2> QED
    BY <1>2, <2>1, <2>2 DEF Concerns, SameRow
<1>3. CASE /\ payment[o] \in {"pending", "creating", "creation_unknown", "expired"}
           /\ payment' = [payment EXCEPT ![o] = "settled"]
           /\ order[o] # "awaiting_payment"
           /\ exception' = [exception EXCEPT ![o] = TRUE]
           /\ UNCHANGED <<order, resv, resolution, core>>
  <2>1. /\ payment'[o] = "settled" /\ exception'[o]
        /\ \A x \in Orders \ {o} : payment'[x] = payment[x] /\ exception'[x] = exception[x]
    BY <1>3 DEF TypeOK
  <2>2. Sound(o)'
    BY <1>3, <2>1 DEF Sound, HeldWhileOpen, Agrees, UNATTACHED, DELIVERY_STATES
  <2> QED
    BY <1>3, <2>1, <2>2 DEF Concerns, SameRow
<1> QED
  BY <1>1, <1>2, <1>3 DEF confirm_settlement, orderVars, coreVars

\* expire_order ends an awaiting order, its projection and its rows together.
LEMMA ExpireSound ==
  ASSUME TypeOK, NEW w \in Workers, NEW o \in Orders, o = work[w].order,
         ExpireOrder(w), Sound(o)
  PROVE  Concerns(o) /\ Sound(o)' /\ UNCHANGED core
<1>1. UNCHANGED <<exception, resolution, core>>
  BY DEF ExpireOrder, flagVars, coreVars
<1>2. CASE /\ transition_order(o, "awaiting_payment", "expired")
           /\ release_reservations(o, "expired")
           /\ ExpirePending(o)
  <2>1. /\ order[o] = "awaiting_payment" /\ order'[o] = "expired"
        /\ \A x \in Orders \ {o} : order'[x] = order[x]
    BY <1>2 DEF transition_order, TypeOK
  <2>2. /\ resv'[o] # "held"
        /\ \A x \in Orders \ {o} : resv'[x] = resv[x]
    BY <1>2, ReleaseRow DEF Flipped
  <2>3. /\ payment[o] = "pending" => payment'[o] = "expired"
        /\ \A x \in Orders \ {o} : payment'[x] = payment[x]
    BY <1>2 DEF TypeOK, ExpirePending
  <2>4. Sound(o)'
    BY <1>1, <2>1, <2>2, <2>3 DEF Sound, HeldWhileOpen, Agrees, DELIVERY_STATES
  <2> QED
    BY <1>1, <2>1, <2>2, <2>3, <2>4 DEF Concerns, SameRow
<1>3. CASE UNCHANGED <<orderVars, resvVars, payment, stockVars>>
  <2>1. \A x \in Orders : SameRow(x)
    BY <1>1, <1>3 DEF SameRow, orderVars, resvVars
  <2> QED
    BY <1>1, <2>1, SameSound DEF Concerns
<1> QED
  BY <1>2, <1>3 DEF ExpireOrder

\* Closing the projection of a closed order and releasing the rows of an order
\* that awaits no payment.
LEMMA SweepSound ==
  ASSUME TypeOK, NEW w \in Workers, NEW o \in Orders, o = work[w].order,
         CloseProjection(w) \/ SweepRelease(w), Sound(o), CloseProjection(w) => Over(o)
  PROVE  Concerns(o) /\ Sound(o)' /\ UNCHANGED core
<1>1. CASE CloseProjection(w)
  <2>1. UNCHANGED <<order, exception, resolution, core, resv>>
    BY <1>1 DEF CloseProjection, orderVars, flagVars, resvVars, coreVars
  <2>2. /\ \/ payment'[o] = payment[o]
           \/ payment[o] = "pending" /\ payment'[o] = "expired"
        /\ \A x \in Orders \ {o} : payment'[x] = payment[x]
    BY <1>1 DEF TypeOK, CloseProjection, ExpirePending
  <2>3. Sound(o)'
    BY <1>1, <2>1, <2>2
       DEF Sound, HeldWhileOpen, Agrees, UNATTACHED, DELIVERY_STATES, Over, OPEN_STATES
  <2> QED
    BY <2>1, <2>2, <2>3 DEF Concerns, SameRow
<1>2. CASE SweepRelease(w)
  <2>1. UNCHANGED <<order, exception, resolution, core, payment>>
    BY <1>2 DEF SweepRelease, orderVars, flagVars, payVars, coreVars
  <2>2. /\ resv'[o] # "held" /\ (resv[o] # "held" => resv'[o] = resv[o])
        /\ \A x \in Orders \ {o} : resv'[x] = resv[x]
    BY <1>2, ReleaseRow DEF SweepRelease, Flipped
  <2>3. Sound(o)'
    BY <2>1, <2>2 DEF Sound, HeldWhileOpen, Agrees
  <2> QED
    BY <2>1, <2>2, <2>3 DEF Concerns, SameRow
<1> QED
  BY <1>1, <1>2

\* No legal move leads from an order that has ended back into the saga.
LEMMA EndedMoves ==
  \A a, b : <<a, b>> \in ORDER_TRANSITIONS /\ b \in OPEN_STATES \cup {"none"}
             => a \in OPEN_STATES \cup {"none"}
BY DEF ORDER_TRANSITIONS, OPEN_STATES

\* A step that keeps every order sound, forgets no invoice, reopens no order and
\* gives a worker a new task that aims well.
Plain ==
  /\ \A o \in Orders : Sound(o)'
  /\ \A o \in Orders : core[o] # "none" => core'[o] # "none"
  /\ \A o \in Orders : Over(o) => Over(o)'
  /\ \A w \in Workers : work'[w] = work[w] \/ AimsWell(w)'

\* A plain step keeps the invariant.
LEMMA PlainKeeps ==
  ASSUME AgreeInv, TypeOK', Plain
  PROVE  AgreeInv'
<1>1. ASSUME NEW w \in Workers, work'[w] = work[w]
      PROVE  AimsWell(w)'
  <2>1. CASE work[w].task \in {"attach", "hear"}
    <3>1. work[w].order \in Orders /\ core[work[w].order] # "none"
      BY <2>1 DEF AgreeInv, AimsWell, TypeOK
    <3> QED
      BY <1>1, <2>1, <3>1 DEF Plain, AimsWell
  <2>2. CASE work[w].task = "close"
    <3>1. work[w].order \in Orders /\ Over(work[w].order)
      BY <2>2 DEF AgreeInv, AimsWell, TypeOK
    <3> QED
      BY <1>1, <2>2, <3>1 DEF Plain, AimsWell, Over
  <2> QED
    BY <1>1, <2>1, <2>2 DEF AimsWell
<1> QED
  BY <1>1 DEF AgreeInv, Plain

\* Most steps concern one order, move it by the table or not at all, and put the
\* worker to rest.
LEMMA PlainStep ==
  ASSUME AgreeInv, NEW o \in Orders, Concerns(o), Sound(o)',
         core[o] # "none" => core'[o] # "none",
         order'[o] = order[o] \/ <<order[o], order'[o]>> \in ORDER_TRANSITIONS
            \/ order[o] = "none",
         \A w \in Workers : work'[w] = work[w] \/ AimsWell(w)'
  PROVE  Plain
<1>1. ASSUME NEW x \in Orders
      PROVE  Sound(x)' /\ (core[x] # "none" => core'[x] # "none") /\ (Over(x) => Over(x)')
  <2>1. CASE x = o
    BY <2>1, EndedMoves DEF Over
  <2>2. CASE x # o
    <3>1. SameRow(x)
      BY <2>2 DEF Concerns
    <3> QED
      BY <3>1, SameSound DEF AgreeInv, Over, SameRow
  <2> QED
    BY <2>1, <2>2
<1> QED
  BY <1>1 DEF Plain

\* The merchant, without the moves of the saga, keeps an order sound: a
\* cancellation releases the rows, an acceptance needs the booking, and a flag is
\* lowered by an acceptance or a confirmed refund alone.
LEMMA MerchantPlain ==
  ASSUME AgreeInv, SagaMovesUnused, NEW o \in Orders, Merchant(o)
  PROVE  Plain
<1> USE DEF AgreeInv
<1>0. Sound(o) /\ UNCHANGED <<work, core>>
  BY DEF Merchant, Cancel, Accept, RequestRefund, ConfirmRefund, Archive, Restore, SetStatus,
         SetShipping, coreVars
<1>1. ASSUME Concerns(o), Sound(o)',
             order'[o] = order[o] \/ <<order[o], order'[o]>> \in ORDER_TRANSITIONS
      PROVE  Plain
  BY <1>0, <1>1, PlainStep
<1>2. CASE Cancel(o)
  <2>1. /\ <<order[o], "cancelled">> \in ORDER_TRANSITIONS /\ order'[o] = "cancelled"
        /\ \A x \in Orders \ {o} : order'[x] = order[x]
    BY <1>2, TransitionRow DEF Cancel
  <2>2. /\ resv'[o] # "held"
        /\ \A x \in Orders \ {o} : resv'[x] = resv[x]
    BY <1>2, ReleaseRow DEF Cancel, Flipped
  <2>3. UNCHANGED <<payment, exception, resolution>>
    BY <1>2 DEF Cancel, flagVars, payVars
  <2>4. Sound(o)'
    BY <1>0, <2>1, <2>2, <2>3 DEF Sound, HeldWhileOpen, Agrees, DELIVERY_STATES
  <2> QED
    BY <1>0, <1>1, <2>1, <2>2, <2>3, <2>4 DEF Concerns, SameRow
<1>3. CASE Accept(o)
  <2>1. /\ <<order[o], "confirmed">> \in ORDER_TRANSITIONS /\ order'[o] = "confirmed"
        /\ order[o] \in {"expired", "cancelled"} /\ payment[o] = "settled"
        /\ \A x \in Orders \ {o} : order'[x] = order[x]
    BY <1>3, TransitionRow DEF Accept
  <2>2. /\ UNCHANGED <<payment, resv>>
        /\ \A x \in Orders \ {o} : exception'[x] = exception[x] /\ resolution'[x] = resolution[x]
    BY <1>3 DEF TypeOK, Accept, payVars, resvVars
  <2>3. Sound(o)'
    BY <1>0, <2>1, <2>2 DEF Sound, HeldWhileOpen, Agrees, DELIVERY_STATES
  <2> QED
    BY <1>0, <1>1, <2>1, <2>2, <2>3 DEF Concerns, SameRow
<1>4. CASE RequestRefund(o) \/ ConfirmRefund(o)
  <2>1. /\ UNCHANGED <<order, payment, resv>>
        /\ \A x \in Orders \ {o} : exception'[x] = exception[x] /\ resolution'[x] = resolution[x]
        /\ \/ exception[o] /\ exception'[o] = exception[o]
           \/ resolution'[o] = "refund_confirmed"
    BY <1>4 DEF TypeOK, RequestRefund, ConfirmRefund, orderVars, payVars, resvVars
  <2>2. Sound(o)'
    BY <1>0, <2>1 DEF Sound, HeldWhileOpen, Agrees
  <2> QED
    BY <1>0, <1>1, <2>1, <2>2 DEF Concerns, SameRow
<1>5. CASE \E to \in ORDER_STATES : SetStatus(o, to)
  <2>1. PICK to \in ORDER_STATES : SetStatus(o, to)
    BY <1>5
  <2>2. /\ <<order[o], to>> \in StatusMoves
        /\ <<order[o], to>> \in ORDER_TRANSITIONS \ REASON_REQUIRED_TRANSITIONS
        /\ order'[o] = to
        /\ \A x \in Orders \ {o} : order'[x] = order[x]
    BY <2>1, TransitionRow DEF SetStatus
  <2>3. UNCHANGED <<payment, exception, resolution, resv>>
    BY <2>1 DEF SetStatus, flagVars, payVars, resvVars
  <2>4. order[o] \notin {"invoice_pending", "awaiting_payment"} /\ to # "invoice_pending"
    BY <2>2 DEF SagaMovesUnused
  <2>5. <<order[o], to>> \in
          {<<"received", "rejected">>, <<"received", "cancelled">>,
           <<"confirmed", "processing">>, <<"processing", "completed">>,
           <<"processing", "cancelled">>}
    BY <2>2, <2>4 DEF ORDER_TRANSITIONS, REASON_REQUIRED_TRANSITIONS
  <2>6. Sound(o)'
    BY <1>0, <2>2, <2>3, <2>5 DEF Sound, HeldWhileOpen, Agrees, DELIVERY_STATES
  <2> QED
    BY <1>0, <1>1, <2>2, <2>3, <2>6 DEF Concerns, SameRow
<1>6. CASE Archive(o) \/ Restore(o) \/ \E to \in SHIPPING_STATES : SetShipping(o, to)
  <2>1. UNCHANGED <<order, payment, exception, resolution, resv>>
    BY <1>6 DEF Archive, Restore, SetShipping, orderVars, flagVars, payVars, resvVars
  <2>2. \A x \in Orders : SameRow(x)
    BY <1>0, <2>1 DEF SameRow
  <2> QED
    BY <1>0, <1>1, <2>1, <2>2, SameSound DEF Concerns
<1> QED
  BY <1>2, <1>3, <1>4, <1>5, <1>6 DEF Merchant

\* Claiming stock makes a received order invoice_pending with a new projection.
LEMMA ClaimPlain ==
  ASSUME AgreeInv, NEW w \in Workers, NEW o \in Orders, ClaimStock(w, o)
  PROVE  Plain
<1> USE DEF AgreeInv
<1>1. Sound(o) /\ UNCHANGED <<core, exception, resolution>>
  BY DEF ClaimStock, flagVars, coreVars
<1>2. \A v \in Workers : work'[v] = work[v] \/ AimsWell(v)'
  BY DEF TypeOK, ClaimStock, Take, AimsWell
<1>3. CASE /\ transition_order(o, "received", "invoice_pending")
           /\ resv' = [resv EXCEPT ![o] = "held"]
           /\ payment' = [payment EXCEPT ![o] = "creating"]
  <2>1. /\ order[o] = "received" /\ order'[o] = "invoice_pending"
        /\ <<order[o], order'[o]>> \in ORDER_TRANSITIONS
        /\ \A x \in Orders \ {o} : order'[x] = order[x]
    BY <1>3, TransitionRow
  <2>2. resv'[o] = "held" /\ \A x \in Orders \ {o} : resv'[x] = resv[x]
    BY <1>3 DEF TypeOK
  <2>3. payment'[o] = "creating" /\ \A x \in Orders \ {o} : payment'[x] = payment[x]
    BY <1>3 DEF TypeOK
  <2>4. Sound(o)'
    BY <1>1, <2>1, <2>2, <2>3
       DEF Sound, HeldWhileOpen, Agrees, UNATTACHED, DELIVERY_STATES
  <2>5. Concerns(o)
    BY <1>1, <2>1, <2>2, <2>3 DEF Concerns, SameRow
  <2> QED
    BY <1>1, <1>2, <2>1, <2>4, <2>5, PlainStep
<1>4. CASE UNCHANGED <<orderVars, resvVars, payment>>
  <2>1. \A x \in Orders : SameRow(x)
    BY <1>1, <1>4 DEF SameRow, orderVars, resvVars
  <2>2. Concerns(o) /\ Sound(o)'
    BY <1>1, <2>1, SameSound DEF Concerns
  <2> QED
    BY <1>1, <1>2, <1>4, <2>2, PlainStep DEF orderVars
<1> QED
  BY <1>3, <1>4 DEF ClaimStock

\* What a worker does next to its order, whose rows it may change: no order is
\* reopened by it.
LEMMA WorkerMoves ==
  ASSUME TypeOK, NEW w \in Workers, WorkerStep(w)
  PROVE  \A x \in Orders :
           order'[x] = order[x] \/ <<order[x], order'[x]>> \in ORDER_TRANSITIONS
<1> DEFINE o == work[w].order
<1>1. ~Idle(w) /\ o \in Orders
  <2>1. ~Idle(w)
    BY DEF WorkerStep, RejectIntake, CreateInvoice, RejectInvoice, UnknownInvoice, AttachPayment,
           Settle, RejectUncertain, ExpireOrder, CloseProjection, SweepRead, SweepRelease, Has,
           Idle
  <2> QED
    BY <2>1, BusyOnOrder
<1>2. order' = order \/ \E from, to : transition_order(o, from, to)
  BY DEF WorkerStep, RejectIntake, CreateInvoice, RejectInvoice, UnknownInvoice, AttachPayment,
         Settle, RejectUncertain, ExpireOrder, CloseProjection, SweepRead, SweepRelease,
         mark_rejection, mark_unknown, attach, confirm_settlement, flag_exception, orderVars
<1>3. ASSUME NEW from, NEW to, transition_order(o, from, to)
      PROVE  \A x \in Orders :
               order'[x] = order[x] \/ <<order[x], order'[x]>> \in ORDER_TRANSITIONS
  BY <1>1, <1>3, TransitionRow
<1> QED
  BY <1>2, <1>3

\* Every transaction of a worker keeps every order sound.
LEMMA WorkerSound ==
  ASSUME AgreeInv, NEW w \in Workers, WorkerStep(w)
  PROVE  Plain
<1> USE DEF AgreeInv
<1>1. PICK o \in Orders : o = work[w].order
  <2>1. ~Idle(w)
    BY DEF WorkerStep, RejectIntake, CreateInvoice, RejectInvoice, UnknownInvoice, AttachPayment,
           Settle, RejectUncertain, ExpireOrder, CloseProjection, SweepRead, SweepRelease, Has,
           Idle
  <2> QED
    BY <2>1, BusyOnOrder
<1>2. Sound(o) /\ AimsWell(w)
  OBVIOUS
<1>3. order'[o] = order[o] \/ <<order[o], order'[o]>> \in ORDER_TRANSITIONS
  BY WorkerMoves
<1>4. ASSUME Concerns(o), Sound(o)', core[o] # "none" => core'[o] # "none",
             AimsWell(w)', \A v \in Workers \ {w} : work'[v] = work[v]
      PROVE  Plain
  BY <1>3, <1>4, PlainStep
<1>5. /\ Done(w) => AimsWell(w)' /\ \A v \in Workers \ {w} : work'[v] = work[v]
      /\ \A t \in Tasks \ {"attach", "hear", "close"} :
           Continue(w, t) => AimsWell(w)' /\ \A v \in Workers \ {w} : work'[v] = work[v]
  BY DEF TypeOK, Done, Take, Continue, AimsWell
<1>6. ASSUME UNCHANGED <<orderVars, flagVars, resvVars, payVars, coreVars, stockVars>>
      PROVE  Concerns(o) /\ Sound(o)' /\ UNCHANGED core
  <2>1. \A x \in Orders : SameRow(x)
    BY <1>6 DEF SameRow, orderVars, flagVars, resvVars, payVars, coreVars
  <2> QED
    BY <1>2, <1>6, <2>1, SameSound DEF Concerns, coreVars
<1>7. CASE RejectIntake(w) \/ RejectInvoice(w) \/ RejectUncertain(w)
  <2>1. Done(w) /\ \E from \in {"received", "invoice_pending"} : mark_rejection(o, from)
    BY <1>1, <1>7 DEF RejectIntake, RejectInvoice, RejectUncertain
  <2> QED
    BY <1>2, <1>4, <1>5, <2>1, RejectionSound
<1>8. CASE CreateInvoice(w)
  <2>1. /\ UNCHANGED <<order, payment, resv, exception, resolution>>
        /\ core' = core \/ core' = [core EXCEPT ![o] = "open"]
    BY <1>1, <1>8 DEF CreateInvoice, orderVars, flagVars, resvVars, payVars, coreVars
  <2>2. \A x \in Orders : SameRow(x)
    BY <2>1 DEF TypeOK, SameRow
  <2>3. Concerns(o) /\ Sound(o)' /\ (core[o] # "none" => core'[o] # "none")
    BY <1>2, <2>2, SameSound DEF Concerns, SameRow
  <2>4. CASE core' = [core EXCEPT ![o] = "open"] /\ Continue(w, "attach")
    <3>1. AimsWell(w)' /\ \A v \in Workers \ {w} : work'[v] = work[v]
      BY <1>1, <2>4 DEF TypeOK, Continue, AimsWell
    <3> QED
      BY <1>4, <2>3, <3>1
  <2>5. CASE Continue(w, "unknown") \/ Continue(w, "refused")
    BY <1>4, <1>5, <2>3, <2>5 DEF Tasks
  <2> QED
    BY <1>1, <1>8, <2>4, <2>5 DEF CreateInvoice
<1>9. CASE UnknownInvoice(w)
  BY <1>1, <1>2, <1>4, <1>5, <1>9, UnknownSound DEF UnknownInvoice
<1>10. CASE AttachPayment(w)
  <2>1. core[o] # "none"
    BY <1>1, <1>2, <1>10 DEF AimsWell, AttachPayment
  <2>2. Concerns(o) /\ Sound(o)' /\ UNCHANGED core
    BY <1>1, <1>2, <1>6, <1>10, <2>1, AttachSound, UnknownSound DEF AttachPayment
  <2>3. Done(w) \/ Continue(w, "settle")
    BY <1>10 DEF AttachPayment
  <2> QED
    BY <1>4, <1>5, <2>2, <2>3 DEF Tasks
<1>11. CASE Settle(w)
  <2>1. CASE confirm_settlement(o)
    BY <1>2, <1>4, <1>5, <1>11, <2>1, SettleSound DEF Settle
  <2>2. CASE flag_exception(o)
    <3>1. /\ UNCHANGED <<order, payment, resv, resolution, core>>
          /\ exception'[o] /\ \A x \in Orders \ {o} : exception'[x] = exception[x]
      BY <2>2 DEF TypeOK, flag_exception, orderVars, resvVars, payVars, coreVars
    <3>2. Concerns(o) /\ Sound(o)'
      BY <1>2, <3>1 DEF Concerns, SameRow, Sound, HeldWhileOpen, Agrees
    <3> QED
      BY <1>4, <1>5, <1>11, <3>1, <3>2 DEF Settle
  <2> QED
    BY <1>1, <1>11, <2>1, <2>2 DEF Settle
<1>12. CASE ExpireOrder(w)
  BY <1>1, <1>2, <1>4, <1>5, <1>12, ExpireSound DEF ExpireOrder
<1>13. CASE CloseProjection(w) \/ SweepRelease(w)
  <2>1. CloseProjection(w) => Over(o)
    BY <1>1, <1>2 DEF CloseProjection, Has, AimsWell
  <2> QED
    BY <1>1, <1>2, <1>4, <1>5, <1>13, <2>1, SweepSound DEF CloseProjection, SweepRelease
<1>14. CASE SweepRead(w)
  <2>1. Continue(w, "expire") \/ Continue(w, "release")
    BY <1>14 DEF SweepRead
  <2> QED
    BY <1>4, <1>5, <1>6, <1>14, <2>1 DEF SweepRead, Tasks
<1> QED
  BY <1>7, <1>8, <1>9, <1>10, <1>11, <1>12, <1>13, <1>14 DEF WorkerStep

\* Every decision of an idle worker aims well and changes no row but the claim's.
LEMMA StartPlain ==
  ASSUME AgreeInv, NEW w \in Workers, NEW o \in Orders, WorkerStart(w, o)
  PROVE  Plain
<1> USE DEF AgreeInv
<1>1. CASE ClaimStock(w, o)
  BY <1>1, ClaimPlain
<1>2. CASE InvoiceListener(w, o) \/ ReconcileUnattached(w, o) \/ ReconcilePending(w, o)
           \/ SweepList(w, o)
  <2>1. UNCHANGED <<orderVars, flagVars, resvVars, payVars, coreVars, stockVars>>
    BY <1>2 DEF InvoiceListener, ReconcileUnattached, ReconcilePending, SweepList
  <2>2. PICK t \in Tasks :
          /\ Take(w, t, o)
          /\ t \in {"attach", "hear"} => core[o] # "none"
          /\ t = "close" => order[o] \in {"cancelled", "expired", "rejected"}
    BY <1>2 DEF InvoiceListener, ReconcileUnattached, ReconcilePending, SweepList, Tasks
  <2>3. work'[w] = [task |-> t, order |-> o] /\ \A v \in Workers \ {w} : work'[v] = work[v]
    BY <2>2 DEF Take, TypeOK
  <2>4. AimsWell(w)'
    BY <2>1, <2>2, <2>3 DEF AimsWell, Over, OPEN_STATES, orderVars, coreVars
  <2>5. \A x \in Orders : SameRow(x)
    BY <2>1 DEF SameRow, orderVars, flagVars, resvVars, payVars, coreVars
  <2>6. Concerns(o) /\ Sound(o)'
    BY <2>5, SameSound DEF Concerns
  <2> QED
    BY <2>1, <2>3, <2>4, <2>6, PlainStep DEF orderVars, coreVars
<1> QED
  BY <1>1, <1>2 DEF WorkerStart

\* The invariant is inductive.
LEMMA AgreeStep == SagaMovesUnused /\ AgreeInv /\ [Next]_vars => AgreeInv'
<1> SUFFICES ASSUME SagaMovesUnused, AgreeInv, [Next]_vars
             PROVE  AgreeInv'
  OBVIOUS
<1>1. TypeOK'
  BY TypeOKStep DEF AgreeInv
<1>2. ASSUME UNCHANGED <<order, payment, resv, exception, resolution, work>>,
             \A x \in Orders : core[x] # "none" => core'[x] # "none"
      PROVE  Plain
  <2>1. \A x \in Orders : SameRow(x)
    BY <1>2 DEF SameRow
  <2> QED
    BY <1>2, <2>1, SameSound DEF Plain, AgreeInv, Over
<1>3. ASSUME NEW o \in Orders, Intake(o)
      PROVE  Plain
  <2>1. /\ order[o] = "none" /\ order'[o] = "received"
        /\ \A x \in Orders \ {o} : order'[x] = order[x]
        /\ UNCHANGED <<payment, resv, exception, resolution, core, work>>
    BY <1>3 DEF Intake, AgreeInv, TypeOK, flagVars, resvVars, payVars, coreVars
  <2>2. Sound(o)
    BY DEF AgreeInv
  <2>3. Concerns(o) /\ Sound(o)'
    BY <2>1, <2>2 DEF Concerns, SameRow, Sound, HeldWhileOpen, Agrees, DELIVERY_STATES
  <2> QED
    BY <2>1, <2>3, PlainStep
<1>4. ASSUME NEW o \in Orders, Environment(o)
      PROVE  Plain
  <2>1. UNCHANGED <<order, payment, resv, exception, resolution, work>>
    BY <1>4 DEF Environment, InvoicePaid, InvoiceExpires, ReservationLapses, WindowPasses,
                orderVars, flagVars, resvVars, payVars
  <2>2. core' = core \/ \E c \in {"paid", "expired"} : core' = [core EXCEPT ![o] = c]
    BY <1>4 DEF Environment, InvoicePaid, InvoiceExpires, ReservationLapses, WindowPasses,
                coreVars
  <2> QED
    BY <1>2, <2>1, <2>2 DEF AgreeInv, TypeOK
<1>5. ASSUME NEW w \in Workers, Crash(w)
      PROVE  Plain
  <2>1. UNCHANGED <<order, payment, resv, exception, resolution, core>>
    BY <1>5 DEF Crash, orderVars, flagVars, resvVars, payVars, coreVars
  <2>2. \A v \in Workers : work'[v] = work[v] \/ AimsWell(v)'
    BY <1>5 DEF Crash, Done, Take, AimsWell, AgreeInv, TypeOK
  <2>3. \A x \in Orders : SameRow(x)
    BY <2>1 DEF SameRow
  <2> QED
    BY <2>1, <2>2, <2>3, SameSound DEF Plain, AgreeInv, Over
<1>6. ASSUME NEW p \in Products, DeleteProduct(p) \/ \E n \in StockEdits : EditStock(p, n)
      PROVE  Plain
  BY <1>2, <1>6 DEF DeleteProduct, EditStock, orderVars, flagVars, resvVars, payVars, coreVars
<1>7. ASSUME UNCHANGED vars
      PROVE  Plain
  <2>1. UNCHANGED <<order, payment, resv, exception, resolution, work, core>>
    BY <1>7 DEF vars
  <2> QED
    BY <1>2, <2>1
<1>8. ASSUME Next
      PROVE  Plain
  <2>1. ASSUME NEW w \in Workers, WorkerStep(w) \/ \E o \in Orders : WorkerStart(w, o)
        PROVE  Plain
    BY <2>1, WorkerSound, StartPlain
  <2>2. ASSUME NEW o \in Orders, Merchant(o)
        PROVE  Plain
    BY <2>2, MerchantPlain
  <2> QED
    BY <1>3, <1>4, <1>5, <1>6, <1>8, <2>1, <2>2 DEF Next
<1>9. Plain
  BY <1>7, <1>8 DEF vars
<1> QED
  BY <1>1, <1>9, PlainKeeps

\* While the merchant leaves the moves of the saga to the saga, the invariant
\* holds in every reachable state.
THEOREM AgreementInvariant ==
  ASSUME SagaMovesUnused
  PROVE  Spec => []AgreeInv
<1>1. AgreeInv /\ [Next]_vars => AgreeInv'
  BY AgreeStep
<1> QED
  BY <1>1, AgreeInit, PTL DEF Spec

\* No rejection, expiry, cancellation or settlement leaves held rows behind,
\* whatever workers crash between its steps or meet (release_reservations).
THEOREM HeldRowsAreLive ==
  ASSUME SagaMovesUnused
  PROVE  Spec => []HeldOnlyWhileOpen
<1>1. AgreeInv => HeldOnlyWhileOpen
  BY AgreeParts
<1> QED
  BY <1>1, AgreementInvariant, PTL

\* The commerce state, the projection, the rows and the core agree, whichever
\* transaction was interrupted or came late.
THEOREM MachinesAgree ==
  ASSUME SagaMovesUnused
  PROVE  Spec => []StatesAgree
<1>1. AgreeInv => StatesAgree
  BY AgreeParts
<1> QED
  BY <1>1, AgreementInvariant, PTL

-----------------------------------------------------------------------------
\* Money without goods and goods without money, whatever is asked of the status
\* endpoint

\* What SettledIsVisible and OnlyEndpointSellsUnpaid say of a step and an order.
Told(o) ==
  Silent(o)' => Silent(o) \/ (order[o] \in DELIVERY_STATES /\ order'[o] = "cancelled")

Paid(o) == UnpaidSale(o)' => UnpaidSale(o) \/ SetStatus(o, "confirmed")

\* A step that leaves what they speak of alone.
LEMMA SameMoney ==
  ASSUME NEW o \in Orders,
         order'[o] = order[o], payment'[o] = payment[o],
         exception'[o] = exception[o] \/ exception'[o], resolution'[o] = resolution[o]
  PROVE  Told(o) /\ Paid(o)
BY DEF Told, Paid, Silent, UnpaidSale

\* A projection that was not booked and is not now, of an order that is not sold.
LEMMA UnbookedMoney ==
  ASSUME NEW o \in Orders, payment'[o] # "settled",
         order'[o] \notin DELIVERY_STATES \/ (order'[o] = order[o] /\ payment[o] # "settled")
  PROVE  Told(o) /\ Paid(o)
BY DEF Told, Paid, Silent, UnpaidSale

\* A rejection closes the projection of an order that is not sold.
LEMMA RejectionMoney ==
  ASSUME TypeOK, NEW o \in Orders, NEW x \in Orders, NEW from, mark_rejection(o, from)
  PROVE  Told(x) /\ Paid(x)
<1>1. CASE order' = order /\ payment' = payment
  <2>1. UNCHANGED flagVars
    BY DEF mark_rejection
  <2> QED BY <1>1, <2>1, SameMoney DEF flagVars
<1>2. CASE ~ (order' = order /\ payment' = payment)
  <2>1. /\ order' = [order EXCEPT ![o] = "rejected"]
        /\ payment' = [payment EXCEPT ![o] = IF @ \in UNATTACHED THEN "failed" ELSE @]
        /\ UNCHANGED <<exception, resolution>>
        /\ order[o] \notin DELIVERY_STATES
    BY <1>2, TransitionStates
       DEF mark_rejection, transition_order, ORDER_TRANSITIONS, DELIVERY_STATES, flagVars,
           orderVars, payVars
  <2> QED
    BY <2>1 DEF TypeOK, Told, Paid, Silent, UnpaidSale, UNATTACHED, DELIVERY_STATES
<1> QED
  BY <1>1, <1>2

\* A settlement books for an order it confirms, or flags.
LEMMA SettlementMoney ==
  ASSUME TypeOK, NEW o \in Orders, NEW x \in Orders,
         confirm_settlement(o) \/ flag_exception(o)
  PROVE  Told(x) /\ Paid(x)
<1>1. CASE flag_exception(o)
  <2>1. /\ UNCHANGED <<order, payment, resolution>>
        /\ exception' = [exception EXCEPT ![o] = TRUE]
    BY <1>1 DEF flag_exception, orderVars, payVars
  <2> QED
    BY <2>1, SameMoney DEF TypeOK
<1>2. CASE confirm_settlement(o)
  <2>1. CASE UNCHANGED <<order, payment, exception, resolution>>
    BY <2>1, SameMoney
  <2>2. CASE ~ UNCHANGED <<order, payment, exception, resolution>>
    <3>1. /\ payment' = [payment EXCEPT ![o] = "settled"] /\ UNCHANGED resolution
          /\ \/ order' = [order EXCEPT ![o] = "confirmed"] /\ UNCHANGED exception
             \/ UNCHANGED order /\ exception' = [exception EXCEPT ![o] = TRUE]
      BY <1>2, <2>2
         DEF confirm_settlement, transition_order, orderVars, flagVars, payVars
    <3> QED
      BY <3>1 DEF TypeOK, Told, Paid, Silent, UnpaidSale, DELIVERY_STATES
  <2> QED
    BY <2>1, <2>2
<1> QED
  BY <1>1, <1>2

\* The transactions of the workers.
LEMMA WorkerStepMoney ==
  ASSUME TypeOK, NEW w \in Workers, WorkerStep(w), NEW x \in Orders
  PROVE  Told(x) /\ Paid(x)
<1> DEFINE o == work[w].order
<1>1. CASE RejectIntake(w) \/ RejectInvoice(w) \/ RejectUncertain(w)
  <2>1. o \in Orders
    BY <1>1, BusyOnOrder DEF RejectIntake, RejectInvoice, RejectUncertain, Has, Idle
  <2> QED
    BY <1>1, <2>1, RejectionMoney DEF RejectIntake, RejectInvoice, RejectUncertain
<1>2. CASE Settle(w)
  <2>1. o \in Orders
    BY <1>2, BusyOnOrder DEF Settle, Has, Idle
  <2> QED
    BY <1>2, <2>1, SettlementMoney DEF Settle
<1>3. CASE CreateInvoice(w) \/ SweepRead(w) \/ SweepRelease(w)
  <2>1. UNCHANGED <<order, payment, exception, resolution>>
    BY <1>3 DEF CreateInvoice, SweepRead, SweepRelease, orderVars, flagVars, payVars
  <2> QED
    BY <2>1, SameMoney
<1>4. CASE CloseProjection(w)
  <2>1. /\ payment' = [payment EXCEPT ![o] = IF @ = "pending" THEN "expired" ELSE @]
        /\ UNCHANGED <<order, exception, resolution>>
    BY <1>4 DEF CloseProjection, ExpirePending, orderVars, flagVars
  <2> QED
    BY <2>1 DEF TypeOK, Told, Paid, Silent, UnpaidSale
<1>5. CASE ExpireOrder(w)
  <2>1. CASE UNCHANGED <<order, payment>>
    BY <1>5, <2>1, SameMoney DEF ExpireOrder, flagVars
  <2>2. CASE ~ UNCHANGED <<order, payment>>
    <3>1. /\ order' = [order EXCEPT ![o] = "expired"] /\ order[o] = "awaiting_payment"
          /\ payment' = [payment EXCEPT ![o] = IF @ = "pending" THEN "expired" ELSE @]
          /\ UNCHANGED <<exception, resolution>>
      BY <1>5, <2>2 DEF ExpireOrder, ExpirePending, transition_order, orderVars, flagVars
    <3> QED
      BY <3>1 DEF TypeOK, Told, Paid, Silent, UnpaidSale, DELIVERY_STATES
  <2> QED
    BY <2>1, <2>2
<1>6. CASE UnknownInvoice(w) \/ AttachPayment(w)
  <2>1. CASE UNCHANGED <<order, payment, exception, resolution>>
    BY <2>1, SameMoney
  <2>2. CASE ~ UNCHANGED <<order, payment, exception, resolution>>
    <3>1. CASE mark_unknown(o)
      <4>1. /\ payment' = [payment EXCEPT ![o] = "creation_unknown"]
            /\ exception' = [exception EXCEPT ![o] = TRUE]
            /\ UNCHANGED <<order, resolution>> /\ payment[o] \in UNATTACHED
        BY <2>2, <3>1 DEF mark_unknown, orderVars
      <4> QED
        BY <4>1 DEF TypeOK, Told, Paid, Silent, UnpaidSale, UNATTACHED
    <3>2. CASE attach(o)
      <4>1. /\ payment' = [payment EXCEPT ![o] = "pending"] /\ payment[o] \in UNATTACHED
            /\ UNCHANGED <<exception, resolution>>
            /\ UNCHANGED order \/ order' = [order EXCEPT ![o] = "awaiting_payment"]
        BY <3>2 DEF attach, transition_order, orderVars, flagVars
      <4> QED
        BY <4>1 DEF TypeOK, Told, Paid, Silent, UnpaidSale, UNATTACHED, DELIVERY_STATES
    <3>3. CASE ~ mark_unknown(o) /\ ~ attach(o)
      BY <1>6, <2>2, <3>3 DEF UnknownInvoice, AttachPayment, orderVars, flagVars, payVars
    <3> QED
      BY <3>1, <3>2, <3>3
  <2> QED
    BY <2>1, <2>2
<1> QED
  BY <1>1, <1>2, <1>3, <1>4, <1>5, <1>6 DEF WorkerStep

\* The merchant's actions: only the status endpoint sells what is not paid, and
\* only a cancellation of what was sold, an acceptance or a refund ends a flag.
LEMMA MerchantMoney ==
  ASSUME TypeOK, NEW o \in Orders, Merchant(o), NEW x \in Orders
  PROVE  Told(x) /\ Paid(x)
<1>1. CASE Cancel(o)
  <2>1. /\ order' = [order EXCEPT ![o] = "cancelled"]
        /\ UNCHANGED <<payment, exception, resolution>>
    BY <1>1 DEF Cancel, transition_order, flagVars, payVars
  <2> QED
    BY <2>1 DEF TypeOK, Told, Paid, Silent, UnpaidSale, DELIVERY_STATES
<1>2. CASE Accept(o)
  <2>1. /\ order' = [order EXCEPT ![o] = "confirmed"] /\ payment[o] = "settled"
        /\ UNCHANGED payment
        /\ exception' = [exception EXCEPT ![o] = FALSE]
        /\ resolution' = [resolution EXCEPT ![o] = "accepted"]
    BY <1>2 DEF Accept, transition_order, payVars
  <2> QED
    BY <2>1 DEF TypeOK, Told, Paid, Silent, UnpaidSale, DELIVERY_STATES
<1>3. CASE RequestRefund(o) \/ ConfirmRefund(o)
  <2>1. /\ UNCHANGED <<order, payment>>
        /\ \/ /\ UNCHANGED exception /\ exception[o]
              /\ resolution' = [resolution EXCEPT ![o] = "refund_requested"]
           \/ /\ exception' = [exception EXCEPT ![o] = FALSE]
              /\ resolution' = [resolution EXCEPT ![o] = "refund_confirmed"]
    BY <1>3 DEF RequestRefund, ConfirmRefund, orderVars, payVars
  <2> QED
    BY <2>1 DEF TypeOK, Told, Paid, Silent, UnpaidSale
<1>4. CASE \/ Archive(o) \/ Restore(o)
           \/ \E to \in SHIPPING_STATES : SetShipping(o, to)
  <2>1. UNCHANGED <<order, payment, exception, resolution>>
    BY <1>4 DEF Archive, Restore, SetShipping, orderVars, flagVars, payVars
  <2> QED
    BY <2>1, SameMoney
<1>5. CASE \E to \in ORDER_STATES : SetStatus(o, to)
  <2>1. PICK to \in ORDER_STATES : SetStatus(o, to)
    BY <1>5
  <2>2. /\ order' = [order EXCEPT ![o] = to] /\ <<order[o], to>> \in ORDER_TRANSITIONS
        /\ UNCHANGED <<payment, exception, resolution>>
    BY <2>1 DEF SetStatus, transition_order, flagVars, payVars
  <2>3. order[o] \in DELIVERY_STATES => to \in DELIVERY_STATES \cup {"cancelled"}
    BY <2>2 DEF ORDER_TRANSITIONS, DELIVERY_STATES
  <2>4. to \in DELIVERY_STATES => order[o] \in DELIVERY_STATES \/ to = "confirmed"
    BY <2>2 DEF ORDER_TRANSITIONS, DELIVERY_STATES
  <2>5. CASE x = o
    BY <2>1, <2>2, <2>3, <2>4, <2>5 DEF TypeOK, Told, Paid, Silent, UnpaidSale
  <2>6. CASE x # o
    BY <2>2, <2>6, SameMoney DEF TypeOK
  <2> QED
    BY <2>5, <2>6
<1> QED
  BY <1>1, <1>2, <1>3, <1>4, <1>5 DEF Merchant

\* No step silences booked money or sells what is not paid in any other way.
LEMMA MoneyStep ==
  ASSUME SagaInv, [Next]_vars, NEW x \in Orders
  PROVE  Told(x) /\ Paid(x)
<1>0. TypeOK
  BY DEF SagaInv
<1>1. ASSUME NEW o \in Orders, Intake(o)
      PROVE  Told(x) /\ Paid(x)
  <2>1. /\ order' = [order EXCEPT ![o] = "received"] /\ order[o] = "none"
        /\ UNCHANGED <<payment, exception, resolution>> /\ payment[o] = "none"
    BY <1>1 DEF Intake, SagaInv, Untouched, flagVars, payVars
  <2> QED
    BY <1>0, <2>1 DEF TypeOK, Told, Paid, Silent, UnpaidSale, DELIVERY_STATES
<1>2. ASSUME NEW o \in Orders, Environment(o)
      PROVE  Told(x) /\ Paid(x)
  <2>1. UNCHANGED <<order, payment, exception, resolution>>
    BY <1>2 DEF Environment, InvoicePaid, InvoiceExpires, ReservationLapses, WindowPasses,
                orderVars, flagVars, payVars
  <2> QED
    BY <2>1, SameMoney
<1>3. ASSUME NEW w \in Workers, NEW o \in Orders, WorkerStart(w, o)
      PROVE  Told(x) /\ Paid(x)
  <2>1. CASE UNCHANGED <<order, payment, exception, resolution>>
    BY <2>1, SameMoney
  <2>2. CASE ~ UNCHANGED <<order, payment, exception, resolution>>
    <3>1. ClaimStock(w, o)
      BY <1>3, <2>2 DEF WorkerStart, InvoiceListener, ReconcileUnattached, ReconcilePending,
                        SweepList, orderVars, flagVars, payVars
    <3>2. /\ order' = [order EXCEPT ![o] = "invoice_pending"]
          /\ payment' = [payment EXCEPT ![o] = "creating"]
          /\ UNCHANGED <<exception, resolution>>
      BY <2>2, <3>1 DEF ClaimStock, transition_order, orderVars, flagVars
    <3> QED
      BY <1>0, <3>2 DEF TypeOK, Told, Paid, Silent, UnpaidSale, DELIVERY_STATES
  <2> QED
    BY <2>1, <2>2
<1>4. CASE \/ \E w \in Workers : Crash(w)
           \/ \E p \in Products : DeleteProduct(p) \/ \E n \in StockEdits : EditStock(p, n)
           \/ UNCHANGED vars
  <2>1. UNCHANGED <<order, payment, exception, resolution>>
    BY <1>4 DEF Crash, DeleteProduct, EditStock, orderVars, flagVars, payVars, vars
  <2> QED
    BY <2>1, SameMoney
<1> QED
  BY <1>0, <1>1, <1>2, <1>3, <1>4, WorkerStepMoney, MerchantMoney DEF Next

\* Money booked for an order that is not sold, however late and whatever closed
\* it, is flagged until the merchant accepts the order or confirms the refund; it
\* falls silent only when an order that was sold is cancelled (confirm_settlement,
\* _resolve_accept).
THEOREM BookedIsVisible == Spec => SettledIsVisible
<1>1. SagaInv /\ [Next]_vars =>
        [\A o \in Orders : Silent(o)' =>
           Silent(o) \/ (order[o] \in DELIVERY_STATES /\ order'[o] = "cancelled")]_vars
  BY MoneyStep DEF Told
<1> QED
  BY <1>1, SagaInvariant, PTL DEF Spec, SettledIsVisible

\* Whatever moves the status endpoint is asked for, it alone sells an order whose
\* payment is not booked, by confirming it (admin_set_status): no step of the saga
\* or of the exception pages does, and none takes a booking back.
THEOREM SagaSellsPaidOnly == Spec => OnlyEndpointSellsUnpaid
<1>1. SagaInv /\ [Next]_vars =>
        [\A o \in Orders :
           UnpaidSale(o)' => UnpaidSale(o) \/ SetStatus(o, "confirmed")]_vars
  BY MoneyStep DEF Paid
<1> QED
  BY <1>1, SagaInvariant, PTL DEF Spec, OnlyEndpointSellsUnpaid

=============================================================================
