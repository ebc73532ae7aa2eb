------------------------------ MODULE OrderSaga ------------------------------
(***************************************************************************)
(* Reservation, invoice, settlement and expiry of orders: the saga of      *)
(* services/checkout.py, the listener, sweeper and reconciler of           *)
(* services/settlement.py and the merchant's actions of services/orders.py *)
(* on one extension database and one LNbits core.                          *)
(*                                                                         *)
(* Every `async with DomainTransaction()` is one action: the database      *)
(* serialises writers.  What the code reads outside a transaction, or      *)
(* learns from the core, is carried to the transaction that uses it as the *)
(* task of a worker: any number of other steps may come between, and a     *)
(* crash may drop the task.                                                *)
(***************************************************************************)
EXTENDS OrderMachine, Integers, FiniteSets

CONSTANTS
  Orders,        \* order ids
  NoOrder,       \* what an idle worker works on
  Products,      \* product ids
  Qty,           \* Qty[o][p]: ordered quantity, 0 when p is not in the cart
  Tracked,       \* products with finite stock (stock_on_hand NOT NULL)
  InitialStock,  \* stock_on_hand of the tracked products at the start
  Requests,      \* HTTP requests and message handlers running a checkout
  Listeners,     \* invoice callbacks of LNbits core
  Reconcilers,   \* passes of the reconciliation task
  Sweepers,      \* passes of the reservation-expiry task
  MaxOpen,       \* MAX_OPEN_ORDERS_PER_SCOPE (all orders share one scope)
  MaxHeld,       \* MAX_HELD_PER_PRODUCT
  StatusMoves,   \* moves the merchant asks of the status endpoint
  StockEdits,    \* values the merchant writes into stock_on_hand
  Deletable,     \* products the merchant may delete
  Physical,      \* orders with a shipping option
  ShippingMoves, \* moves the merchant asks of the shipping endpoint
  Archives,      \* TRUE when the merchant archives and restores orders
  Mismatches     \* TRUE when a core payment may fail the verification

Workers == Requests \cup Listeners \cup Reconcilers \cup Sweepers

ASSUME SagaAssumption ==
  /\ Qty \in [Orders -> [Products -> Nat]]
  /\ Tracked \subseteq Products
  /\ InitialStock \in [Products -> Nat]
  /\ MaxOpen \in Nat /\ MaxHeld \in Nat
  /\ StatusMoves \subseteq ORDER_STATES \X ORDER_STATES
  /\ StockEdits \subseteq Nat
  /\ Deletable \subseteq Products
  /\ Physical \subseteq Orders
  /\ ShippingMoves \subseteq SHIPPING_STATES \X SHIPPING_STATES
  /\ Archives \in BOOLEAN /\ Mismatches \in BOOLEAN

ASSUME FiniteOrders == IsFiniteSet(Orders) /\ NoOrder \notin Orders

VARIABLES
  order,       \* orders.state
  exception,   \* orders.payment_exception
  resolution,  \* orders.payment_exception_resolution
  oversold,    \* orders.oversold
  shipping,    \* orders.shipping_state
  archived,    \* orders.archived_at IS NOT NULL
  payment,     \* payments.status of the order's projection
  aged,        \* the projection is UNCERTAINTY_WINDOW_S old
  resv,        \* state of the order's inventory_reservations rows: they are
               \* inserted, released and consumed together
  lapsed,      \* expires_at of those rows has passed
  onHand,      \* products.stock_on_hand
  reserved,    \* products.stock_reserved
  deleted,     \* products.deleted_at IS NOT NULL
  core,        \* the core payment carrying the order's external id
  invoices,    \* history: how often the core made one
  work         \* what each worker has decided and not done yet

stockVars == <<onHand, reserved, deleted>>
orderVars == <<order, archived>>
flagVars  == <<exception, resolution, oversold, shipping>>
resvVars  == <<resv, lapsed>>
payVars   == <<payment, aged>>
coreVars  == <<core, invoices>>
vars == <<order, exception, resolution, oversold, shipping, archived, payment,
          aged, resv, lapsed, onHand, reserved, deleted, core, invoices, work>>

Tasks ==
  {"idle",
   "short",     \* the claim was refused: the intake is to be rejected
   "call",      \* create_invoice is to be called
   "refused",   \* the core refused definitively
   "unknown",   \* the outcome of create_invoice is not known
   "attach",    \* the core payment is to be attached
   "hear",      \* as "attach", from a callback: settle afterwards
   "settle",    \* a successful core payment is to be booked
   "window",    \* no core payment after the window: reject
   "expire",    \* the order is to expire
   "close",     \* the projection of a closed order is to expire
   "sweep",     \* a lapsed reservation was listed
   "release"}   \* its reservation is to be released

Init ==
  /\ order = [o \in Orders |-> "none"]
  /\ exception = [o \in Orders |-> FALSE]
  /\ resolution = [o \in Orders |-> "none"]
  /\ oversold = [o \in Orders |-> FALSE]
  /\ shipping = [o \in Orders |-> IF o \in Physical THEN "pending" ELSE "not_required"]
  /\ archived = [o \in Orders |-> FALSE]
  /\ payment = [o \in Orders |-> "none"]
  /\ aged = [o \in Orders |-> FALSE]
  /\ resv = [o \in Orders |-> "none"]
  /\ lapsed = [o \in Orders |-> FALSE]
  /\ onHand = InitialStock
  /\ reserved = [p \in Products |-> 0]
  /\ deleted = {}
  /\ core = [o \in Orders |-> "none"]
  /\ invoices = [o \in Orders |-> 0]
  /\ work = [w \in Workers |-> [task |-> "idle", order |-> NoOrder]]

-----------------------------------------------------------------------------
\* Workers and the shared helpers of the handlers

Idle(w) == work[w].task = "idle"

Has(w, t) == work[w].task = t

\* The worker has decided to do t about o.
Take(w, t, o) == work' = [work EXCEPT ![w] = [task |-> t, order |-> o]]

Continue(w, t) == work' = [work EXCEPT ![w].task = t]

Done(w) == Take(w, "idle", NoOrder)

\* Mutant: the update without AND state = :f.
transition_order_NoCas(o, from, to) ==
  /\ <<from, to>> \in ORDER_TRANSITIONS
  /\ order' = [order EXCEPT ![o] = to]
  /\ archived' = [archived EXCEPT ![o] = FALSE]

\* transition_order: legality, compare-and-swap and archived_at = NULL.
transition_order(o, from, to) ==
  /\ order[o] = from
  /\ <<from, to>> \in ORDER_TRANSITIONS
  /\ order' = [order EXCEPT ![o] = to]
  /\ archived' = [archived EXCEPT ![o] = FALSE]

\* Mutant: rows of any state flip.
release_reservations_AnyState(o, to) ==
  /\ UNCHANGED <<lapsed, onHand, deleted>>
  /\ resv' = [resv EXCEPT ![o] = IF @ = "none" THEN @ ELSE to]
  /\ reserved' = IF resv[o] = "none" THEN reserved
                 ELSE [p \in Products |-> reserved[p] - Qty[o][p]]

\* release_reservations: held rows flip once and give back what they hold.
release_reservations(o, to) ==
  /\ UNCHANGED <<lapsed, onHand, deleted>>
  /\ \/ /\ resv[o] = "held"
        /\ resv' = [resv EXCEPT ![o] = to]
        /\ reserved' = [p \in Products |-> reserved[p] - Qty[o][p]]
     \/ /\ resv[o] # "held"
        /\ UNCHANGED <<resv, reserved>>

Available(p) == onHand[p] - reserved[p]

HeldOn(p) == {o \in Orders : resv[o] = "held" /\ Qty[o][p] > 0}

\* Mutant: the claim does not look at what is available.
Claimable_Unchecked(o) ==
  \A p \in Products : Qty[o][p] > 0 =>
    /\ p \notin deleted
    /\ Cardinality(HeldOn(p)) < MaxHeld

\* The conditional claim of begin_saga succeeds for every item of o.
Claimable(o) ==
  \A p \in Products : Qty[o][p] > 0 =>
    /\ p \notin deleted
    /\ p \in Tracked => Available(p) >= Qty[o][p]
    /\ Cardinality(HeldOn(p)) < MaxHeld

OpenOrders == {o \in Orders : order[o] \in OPEN_STATES}

-----------------------------------------------------------------------------
\* Checkout: intake, claim, invoice, attach (services/checkout.py)

\* _insert_order_intake and its Gamma twin: the cap is counted under the
\* merchant's row lock, then the order is 'received'.
Intake(o) ==
  /\ order[o] = "none"
  /\ Cardinality(OpenOrders) < MaxOpen
  /\ order' = [order EXCEPT ![o] = "received"]
  /\ UNCHANGED <<archived, flagVars, resvVars, payVars, coreVars, stockVars, work>>

\* Step 1 of begin_saga, from a request, a retry or the reconciler: the
\* compare-and-swap, the stock claim, the held rows and the projection commit
\* together or not at all.
ClaimStock(w, o) ==
  /\ w \in Requests \cup Reconcilers
  /\ Idle(w)
  /\ \/ /\ Claimable(o)
        /\ transition_order(o, "received", "invoice_pending")
        /\ reserved' = [p \in Products |-> reserved[p] + Qty[o][p]]
        /\ resv' = [resv EXCEPT ![o] = "held"]
        /\ lapsed' = [lapsed EXCEPT ![o] = FALSE]
        /\ payment' = [payment EXCEPT ![o] = "creating"]
        /\ Take(w, "call", o)
     \/ /\ order[o] = "received"
        /\ ~Claimable(o)
        /\ Take(w, "short", o)
        /\ UNCHANGED <<orderVars, reserved, resvVars, payment>>
  /\ UNCHANGED <<flagVars, aged, coreVars, onHand, deleted>>

\* _mark_rejection: only an order still in the expected state is rejected.
mark_rejection(o, expected) ==
  \/ /\ transition_order(o, expected, "rejected")
     /\ payment' = [payment EXCEPT ![o] = IF @ \in UNATTACHED THEN "failed" ELSE @]
     /\ release_reservations(o, "released")
     /\ UNCHANGED <<flagVars, aged, coreVars>>
  \/ /\ order[o] # expected
     /\ UNCHANGED <<orderVars, flagVars, resvVars, payVars, coreVars, stockVars>>

\* The claim was rolled back; the rejection is a second transaction.
RejectIntake(w) ==
  /\ Has(w, "short")
  /\ mark_rejection(work[w].order, "received")
  /\ Done(w)

\* Step 2: create_invoice, outside any transaction.  The core may have made
\* the invoice although the call fails.
CreateInvoice(w) ==
  LET o == work[w].order IN
  /\ Has(w, "call")
  /\ \/ /\ core' = [core EXCEPT ![o] = "open"]
        /\ invoices' = [invoices EXCEPT ![o] = @ + 1]
        /\ Continue(w, "attach") \/ Continue(w, "unknown")
     \/ /\ UNCHANGED coreVars
        /\ Continue(w, "refused") \/ Continue(w, "unknown")
  /\ UNCHANGED <<orderVars, flagVars, resvVars, payVars, stockVars>>

\* InvoiceError with status failed.
RejectInvoice(w) ==
  /\ Has(w, "refused")
  /\ mark_rejection(work[w].order, "invoice_pending")
  /\ Done(w)

\* _mark_unknown: the uncertain outcome raises payment_exception.
mark_unknown(o) ==
  /\ \/ /\ payment[o] \in UNATTACHED
        /\ payment' = [payment EXCEPT ![o] = "creation_unknown"]
        /\ exception' = [exception EXCEPT ![o] = TRUE]
     \/ /\ payment[o] \notin UNATTACHED
        /\ UNCHANGED <<payment, exception>>
  /\ UNCHANGED <<orderVars, resolution, oversold, shipping, aged, resvVars, coreVars, stockVars>>

UnknownInvoice(w) ==
  /\ Has(w, "unknown")
  /\ mark_unknown(work[w].order)
  /\ Done(w)

\* attach_payment with a correlated invoice: the projection becomes pending in
\* any commerce state; only an invoice_pending order awaits payment, and only
\* then do the held rows take the expiry of the invoice.
attach(o) ==
  /\ payment[o] \in UNATTACHED
  /\ payment' = [payment EXCEPT ![o] = "pending"]
  /\ \/ /\ transition_order(o, "invoice_pending", "awaiting_payment")
        /\ \E late \in BOOLEAN :
             /\ core[o] = "open" => ~late
             /\ core[o] = "expired" => late
             /\ lapsed' = [lapsed EXCEPT ![o] = IF resv[o] = "held" THEN late ELSE @]
     \/ /\ order[o] # "invoice_pending"
        /\ UNCHANGED <<orderVars, lapsed>>
  /\ UNCHANGED <<flagVars, aged, resv, coreVars, stockVars>>

\* Step 3, from the saga, the reconciler or a callback.
AttachPayment(w) ==
  LET o == work[w].order IN
  /\ work[w].task \in {"attach", "hear"}
  /\ \/ attach(o)
     \/ Mismatches /\ mark_unknown(o)
     \/ /\ payment[o] \notin UNATTACHED
        /\ UNCHANGED <<orderVars, flagVars, resvVars, payVars, coreVars, stockVars>>
  /\ IF Has(w, "hear") /\ payment[o] # "failed" THEN Continue(w, "settle") ELSE Done(w)

-----------------------------------------------------------------------------
\* Settlement, expiry and reconciliation (services/settlement.py)

\* invoice_listener: the core reports a successful payment, possibly again,
\* possibly never.
InvoiceListener(w, o) ==
  /\ w \in Listeners /\ Idle(w)
  /\ core[o] = "paid"
  /\ payment[o] # "none"
  /\ Take(w, IF payment[o] \in UNATTACHED THEN "hear" ELSE "settle", o)
  /\ UNCHANGED <<orderVars, flagVars, resvVars, payVars, coreVars, stockVars>>

\* Mutant: a settlement the order does not await raises no flag.
confirm_settlement_Unflagged(o) ==
  \/ /\ payment[o] \in {"pending", "creating", "creation_unknown", "expired"}
     /\ payment' = [payment EXCEPT ![o] = "settled"]
     /\ \/ /\ transition_order(o, "awaiting_payment", "confirmed")
           /\ \/ /\ resv[o] = "held"
                 /\ resv' = [resv EXCEPT ![o] = "consumed"]
                 /\ reserved' = [p \in Products |-> reserved[p] - Qty[o][p]]
                 /\ onHand' = [p \in Products |->
                                 IF p \in Tracked THEN onHand[p] - Qty[o][p] ELSE onHand[p]]
              \/ /\ resv[o] # "held"
                 /\ UNCHANGED <<resv, reserved, onHand>>
           /\ UNCHANGED exception
        \/ /\ order[o] # "awaiting_payment"
           /\ UNCHANGED <<exception, orderVars, resv, reserved, onHand>>
     /\ UNCHANGED <<resolution, oversold, shipping, aged, lapsed, deleted, coreVars>>
  \/ /\ payment[o] \in {"none", "settled", "failed"}
     /\ UNCHANGED <<orderVars, flagVars, resvVars, payVars, coreVars, stockVars>>

\* Mutant: a closed order whose payment arrives late is confirmed.
confirm_settlement_Reopens(o) ==
  /\ payment[o] \in {"pending", "creating", "creation_unknown", "expired"}
  /\ payment' = [payment EXCEPT ![o] = "settled"]
  /\ transition_order(o, order[o], "confirmed")
  /\ UNCHANGED <<flagVars, aged, resvVars, stockVars, coreVars>>

\* confirm_settlement: an awaiting order consumes its held rows and is
\* confirmed; any other is flagged.  A projection that is settled already is a
\* no-op, and one that failed makes the transaction raise.
confirm_settlement(o) ==
  \/ /\ payment[o] \in {"pending", "creating", "creation_unknown", "expired"}
     /\ payment' = [payment EXCEPT ![o] = "settled"]
     /\ \/ /\ transition_order(o, "awaiting_payment", "confirmed")
           /\ \/ /\ resv[o] = "held"
                 /\ resv' = [resv EXCEPT ![o] = "consumed"]
                 /\ reserved' = [p \in Products |-> reserved[p] - Qty[o][p]]
                 /\ onHand' = [p \in Products |->
                                 IF p \in Tracked THEN onHand[p] - Qty[o][p] ELSE onHand[p]]
              \/ /\ resv[o] # "held"
                 /\ UNCHANGED <<resv, reserved, onHand>>
           /\ UNCHANGED exception
        \/ /\ order[o] # "awaiting_payment"
           /\ exception' = [exception EXCEPT ![o] = TRUE]
           /\ UNCHANGED <<orderVars, resv, reserved, onHand>>
     /\ UNCHANGED <<resolution, oversold, shipping, aged, lapsed, deleted, coreVars>>
  \/ /\ payment[o] \in {"none", "settled", "failed"}
     /\ UNCHANGED <<orderVars, flagVars, resvVars, payVars, coreVars, stockVars>>

\* _flag_exception.
flag_exception(o) ==
  /\ exception' = [exception EXCEPT ![o] = TRUE]
  /\ UNCHANGED <<orderVars, resolution, oversold, shipping, resvVars, payVars, coreVars, stockVars>>

\* The end of _handle_core_payment for a successful payment.
Settle(w) ==
  /\ Has(w, "settle")
  /\ confirm_settlement(work[w].order) \/ (Mismatches /\ flag_exception(work[w].order))
  /\ Done(w)

\* Mutant: no match is never an answer.
ReconcileUnattached_OnlyMatches(w, o) ==
  /\ w \in Reconcilers /\ Idle(w)
  /\ payment[o] \in UNATTACHED
  /\ core[o] # "none" /\ Take(w, "attach", o)
  /\ UNCHANGED <<orderVars, flagVars, resvVars, payVars, coreVars, stockVars>>

\* reconcile, creating and creation_unknown projections: one core match is
\* attached, none after the window is rejected.
ReconcileUnattached(w, o) ==
  /\ w \in Reconcilers /\ Idle(w)
  /\ payment[o] \in UNATTACHED
  /\ \/ core[o] # "none" /\ Take(w, "attach", o)
     \/ core[o] = "none" /\ aged[o] /\ Take(w, "window", o)
  /\ UNCHANGED <<orderVars, flagVars, resvVars, payVars, coreVars, stockVars>>

RejectUncertain(w) ==
  /\ Has(w, "window")
  /\ mark_rejection(work[w].order, "invoice_pending")
  /\ Done(w)

\* Mutant: expired projections are not probed again.
ReconcilePending_PendingOnly(w, o) ==
  /\ w \in Reconcilers /\ Idle(w)
  /\ \/ /\ payment[o] = "pending" /\ core[o] = "paid"
        /\ Take(w, "settle", o)
     \/ /\ payment[o] = "pending" /\ core[o] = "expired"
        /\ order[o] = "awaiting_payment"
        /\ Take(w, "expire", o)
     \/ /\ payment[o] = "pending" /\ core[o] = "expired"
        /\ order[o] \in {"cancelled", "expired", "rejected"}
        /\ Take(w, "close", o)
  /\ UNCHANGED <<orderVars, flagVars, resvVars, payVars, coreVars, stockVars>>

\* reconcile, pending and expired projections: a paid core payment is booked,
\* an expired one ends the order or the projection.
ReconcilePending(w, o) ==
  /\ w \in Reconcilers /\ Idle(w)
  /\ \/ /\ payment[o] \in {"pending", "expired"} /\ core[o] = "paid"
        /\ Take(w, "settle", o)
     \/ /\ payment[o] = "pending" /\ core[o] = "expired"
        /\ order[o] = "awaiting_payment"
        /\ Take(w, "expire", o)
     \/ /\ payment[o] = "pending" /\ core[o] = "expired"
        /\ order[o] \in {"cancelled", "expired", "rejected"}
        /\ Take(w, "close", o)
  /\ UNCHANGED <<orderVars, flagVars, resvVars, payVars, coreVars, stockVars>>

\* Mutant: a status outside the table's vocabulary.
ExpirePending_Misnamed(o) ==
  payment' = [payment EXCEPT ![o] = IF @ = "pending" THEN "cancelled" ELSE @]

\* Mutant: the projection is left pending.
ExpirePending_Skipped(o) == UNCHANGED payment

\* UPDATE payments SET status = 'expired' WHERE status = 'pending'.
ExpirePending(o) ==
  payment' = [payment EXCEPT ![o] = IF @ = "pending" THEN "expired" ELSE @]

\* expire_order raises when the order no longer awaits payment.
ExpireOrder(w) ==
  LET o == work[w].order IN
  /\ Has(w, "expire")
  /\ \/ /\ transition_order(o, "awaiting_payment", "expired")
        /\ release_reservations(o, "expired")
        /\ ExpirePending(o)
     \/ /\ order[o] # "awaiting_payment"
        /\ UNCHANGED <<orderVars, resvVars, payment, stockVars>>
  /\ Done(w)
  /\ UNCHANGED <<flagVars, aged, coreVars>>

CloseProjection(w) ==
  /\ Has(w, "close")
  /\ ExpirePending(work[w].order)
  /\ Done(w)
  /\ UNCHANGED <<orderVars, flagVars, aged, resvVars, coreVars, stockVars>>

\* reservation_expiry_pass lists lapsed held rows, ...
SweepList(w, o) ==
  /\ w \in Sweepers /\ Idle(w)
  /\ resv[o] = "held" /\ lapsed[o]
  /\ Take(w, "sweep", o)
  /\ UNCHANGED <<orderVars, flagVars, resvVars, payVars, coreVars, stockVars>>

\* Mutant: only orders that await payment are swept.
SweepRead_AwaitingOnly(w) ==
  /\ Has(w, "sweep")
  /\ IF order[work[w].order] = "awaiting_payment" THEN Continue(w, "expire") ELSE Done(w)
  /\ UNCHANGED <<orderVars, flagVars, resvVars, payVars, coreVars, stockVars>>

\* ... then reads the state of each order ...
SweepRead(w) ==
  /\ Has(w, "sweep")
  /\ Continue(w, IF order[work[w].order] = "awaiting_payment" THEN "expire" ELSE "release")
  /\ UNCHANGED <<orderVars, flagVars, resvVars, payVars, coreVars, stockVars>>

\* ... and releases the rows of an order that awaits no payment.
SweepRelease(w) ==
  /\ Has(w, "release")
  /\ release_reservations(work[w].order, "expired")
  /\ Done(w)
  /\ UNCHANGED <<orderVars, flagVars, payVars, coreVars>>

\* The worker dies, its lease is lost or its exception is swallowed.
Crash(w) ==
  /\ ~Idle(w)
  /\ Done(w)
  /\ UNCHANGED <<orderVars, flagVars, resvVars, payVars, coreVars, stockVars>>

-----------------------------------------------------------------------------
\* The merchant (services/orders.py, services/catalog.py)

\* Mutant: the cancellation forgets the held stock.
Cancel_KeepsStock(o) ==
  /\ transition_order(o, order[o], "cancelled")
  /\ UNCHANGED <<flagVars, resvVars, stockVars, payVars, coreVars, work>>

\* cancel_order, with a reason where one is required.
Cancel(o) ==
  /\ transition_order(o, order[o], "cancelled")
  /\ release_reservations(o, "released")
  /\ UNCHANGED <<flagVars, payVars, coreVars, work>>

\* admin_set_status: any legal move that needs no reason, and nothing but the
\* move.
SetStatus(o, to) ==
  /\ <<order[o], to>> \in StatusMoves \ REASON_REQUIRED_TRANSITIONS
  /\ transition_order(o, order[o], to)
  /\ UNCHANGED <<flagVars, resvVars, payVars, coreVars, stockVars, work>>

\* What _resolve_accept can take for an order without touching what others hold.
Shipment(o, p) ==
  CASE p \notin Tracked -> 0
    [] Available(p) >= Qty[o][p] -> Qty[o][p]
    [] Available(p) < 0 -> 0
    [] OTHER -> Available(p)

\* Mutant: any closed order can be accepted, paid or not.
Accept_Unpaid(o) ==
  /\ order[o] \in {"expired", "cancelled"}
  /\ onHand' = [p \in Products |-> onHand[p] - Shipment(o, p)]
  /\ transition_order(o, order[o], "confirmed")
  /\ exception' = [exception EXCEPT ![o] = FALSE]
  /\ resolution' = [resolution EXCEPT ![o] = "accepted"]
  /\ oversold' = [oversold EXCEPT ![o] = \E p \in Tracked : Shipment(o, p) < Qty[o][p]]
  /\ shipping' = [shipping EXCEPT ![o] = IF @ = "not_required" THEN @ ELSE "processing"]
  /\ UNCHANGED <<resvVars, payVars, coreVars, reserved, deleted, work>>

\* _resolve_accept: a closed order with a booked payment is sold after all.
Accept(o) ==
  /\ order[o] \in {"expired", "cancelled"}
  /\ payment[o] = "settled"
  /\ onHand' = [p \in Products |-> onHand[p] - Shipment(o, p)]
  /\ transition_order(o, order[o], "confirmed")
  /\ exception' = [exception EXCEPT ![o] = FALSE]
  /\ resolution' = [resolution EXCEPT ![o] = "accepted"]
  /\ oversold' = [oversold EXCEPT ![o] = \E p \in Tracked : Shipment(o, p) < Qty[o][p]]
  /\ shipping' = [shipping EXCEPT ![o] = IF @ = "not_required" THEN @ ELSE "processing"]
  /\ UNCHANGED <<resvVars, payVars, coreVars, reserved, deleted, work>>

\* admin_set_shipping: the shipping machine alone decides.
SetShipping(o, to) ==
  /\ order[o] # "none"
  /\ <<shipping[o], to>> \in ShippingMoves \cap SHIPPING_TRANSITIONS
  /\ shipping' = [shipping EXCEPT ![o] = to]
  /\ UNCHANGED <<orderVars, exception, resolution, oversold, resvVars, payVars, coreVars,
                 stockVars, work>>

RequestRefund(o) ==
  /\ exception[o]
  /\ resolution' = [resolution EXCEPT ![o] = "refund_requested"]
  /\ UNCHANGED <<orderVars, exception, oversold, shipping, resvVars, payVars, coreVars, stockVars, work>>

ConfirmRefund(o) ==
  /\ resolution[o] = "refund_requested"
  /\ exception' = [exception EXCEPT ![o] = FALSE]
  /\ resolution' = [resolution EXCEPT ![o] = "refund_confirmed"]
  /\ UNCHANGED <<orderVars, oversold, shipping, resvVars, payVars, coreVars, stockVars, work>>

\* admin_bulk_archive: closed orders with nothing open may be put away.
Archive(o) ==
  /\ Archives
  /\ ~archived[o]
  /\ order[o] \in ORDER_ARCHIVABLE_STATES
  /\ ~exception[o] /\ ~oversold[o]
  /\ resv[o] # "held"
  /\ payment[o] \notin UNATTACHED \cup {"pending"}
  /\ archived' = [archived EXCEPT ![o] = TRUE]
  /\ UNCHANGED <<order, flagVars, resvVars, payVars, coreVars, stockVars, work>>

Restore(o) ==
  /\ Archives
  /\ archived[o]
  /\ archived' = [archived EXCEPT ![o] = FALSE]
  /\ UNCHANGED <<order, flagVars, resvVars, payVars, coreVars, stockVars, work>>

\* patch_product writes an absolute stock_on_hand; its own check uses a stale
\* row, the table's CHECK (stock_reserved <= stock_on_hand) does not.
EditStock(p, n) ==
  /\ p \in Tracked \ deleted
  /\ reserved[p] <= n
  /\ onHand' = [onHand EXCEPT ![p] = n]
  /\ UNCHANGED <<orderVars, flagVars, resvVars, payVars, coreVars, reserved, deleted, work>>

\* Soft deletion leaves the rows held on the product alone.
DeleteProduct(p) ==
  /\ p \in Deletable \ deleted
  /\ deleted' = deleted \cup {p}
  /\ UNCHANGED <<orderVars, flagVars, resvVars, payVars, coreVars, onHand, reserved, work>>

-----------------------------------------------------------------------------
\* Time and the core

\* A Lightning invoice may also be paid around or after its expiry.
InvoicePaid(o) ==
  /\ core[o] \in {"open", "expired"}
  /\ core' = [core EXCEPT ![o] = "paid"]
  /\ UNCHANGED <<orderVars, flagVars, resvVars, payVars, invoices, stockVars, work>>

InvoiceExpires(o) ==
  /\ core[o] = "open"
  /\ core' = [core EXCEPT ![o] = "expired"]
  /\ UNCHANGED <<orderVars, flagVars, resvVars, payVars, invoices, stockVars, work>>

ReservationLapses(o) ==
  /\ resv[o] = "held" /\ ~lapsed[o]
  /\ lapsed' = [lapsed EXCEPT ![o] = TRUE]
  /\ UNCHANGED <<orderVars, flagVars, resv, payVars, coreVars, stockVars, work>>

WindowPasses(o) ==
  /\ payment[o] \in UNATTACHED /\ ~aged[o]
  /\ aged' = [aged EXCEPT ![o] = TRUE]
  /\ UNCHANGED <<orderVars, flagVars, resvVars, payment, coreVars, stockVars, work>>

-----------------------------------------------------------------------------
WorkerStep(w) ==
  \/ RejectIntake(w) \/ CreateInvoice(w) \/ RejectInvoice(w) \/ UnknownInvoice(w)
  \/ AttachPayment(w) \/ Settle(w) \/ RejectUncertain(w) \/ ExpireOrder(w)
  \/ CloseProjection(w) \/ SweepRead(w) \/ SweepRelease(w)

WorkerStart(w, o) ==
  \/ ClaimStock(w, o) \/ InvoiceListener(w, o) \/ ReconcileUnattached(w, o)
  \/ ReconcilePending(w, o) \/ SweepList(w, o)

Merchant(o) ==
  \/ Cancel(o) \/ Accept(o) \/ RequestRefund(o) \/ ConfirmRefund(o)
  \/ Archive(o) \/ Restore(o)
  \/ \E to \in ORDER_STATES : SetStatus(o, to)
  \/ \E to \in SHIPPING_STATES : SetShipping(o, to)

Environment(o) ==
  InvoicePaid(o) \/ InvoiceExpires(o) \/ ReservationLapses(o) \/ WindowPasses(o)

Next ==
  \/ \E o \in Orders : Intake(o) \/ Merchant(o) \/ Environment(o)
  \/ \E w \in Workers : WorkerStep(w) \/ Crash(w)
  \/ \E w \in Workers, o \in Orders : WorkerStart(w, o)
  \/ \E p \in Products : DeleteProduct(p) \/ \E n \in StockEdits : EditStock(p, n)

Spec == Init /\ [][Next]_vars

\* The periodic tasks visit every row they list in every pass, a task that keeps
\* being killed at a step completes that step one day, and time passes.
\* Requests and callbacks owe nothing: they may stop for good.
ReconcilerStart(o) ==
  \E w \in Reconcilers :
    ClaimStock(w, o) \/ ReconcileUnattached(w, o) \/ ReconcilePending(w, o)

SweeperStart(o) == \E w \in Sweepers : SweepList(w, o)

Fairness ==
  /\ \A o \in Orders :
       /\ SF_vars(ReconcilerStart(o))
       /\ SF_vars(SweeperStart(o))
       /\ \A w \in Sweepers : SF_vars(work[w].order = o /\ SweepRead(w))
       /\ \A w \in Reconcilers \cup Sweepers :
            SF_vars(work[w].order = o /\ ~Has(w, "sweep") /\ WorkerStep(w))
       /\ WF_vars(ReservationLapses(o))
       /\ WF_vars(WindowPasses(o))
       /\ WF_vars(InvoiceExpires(o))

FairSpec == Spec /\ Fairness

-----------------------------------------------------------------------------
\* Properties

\* The rows hold the values the code knows of, and a worker
\* carries an order exactly while it has something left to do.
TypeOK ==
  /\ order \in [Orders -> ORDER_STATES \cup {"none"}]
  /\ exception \in [Orders -> BOOLEAN]
  /\ resolution \in
       [Orders -> {"none", "accepted", "refund_requested", "refund_confirmed"}]
  /\ oversold \in [Orders -> BOOLEAN]
  /\ shipping \in [Orders -> SHIPPING_STATES]
  /\ archived \in [Orders -> BOOLEAN]
  /\ payment \in [Orders -> PAYMENT_STATES]
  /\ aged \in [Orders -> BOOLEAN]
  /\ resv \in [Orders -> RESERVATION_STATES \cup {"none"}]
  /\ lapsed \in [Orders -> BOOLEAN]
  /\ onHand \in [Products -> Int]
  /\ reserved \in [Products -> Int]
  /\ deleted \subseteq Products
  /\ core \in [Orders -> {"none", "open", "expired", "paid"}]
  /\ invoices \in [Orders -> Nat]
  /\ work \in [Workers -> [task : Tasks, order : Orders \cup {NoOrder}]]
  /\ \A w \in Workers : work[w].task = "idle" <=> work[w].order = NoOrder

\* The units of p that held rows stand for, as pairs of an order and a number.
HeldUnits(p) == UNION {{o} \X (1..Qty[o][p]) : o \in {x \in Orders : resv[x] = "held"}}

\* products.stock_reserved is, at every moment, the sum of the quantities of the
\* held reservation rows: claim, release, consumption, cancellation, sweep and
\* rejection each move both or neither, in whatever order they meet.
ReservedIsHeld == \A p \in Products : reserved[p] = Cardinality(HeldUnits(p))

\* The claims never promise more of a finite product than the shop owns, although
\* consumption, acceptance of late orders, stock edits and deletions run between
\* the availability check of one checkout and that of the next.
NeverOversold == \A p \in Tracked : 0 <= reserved[p] /\ reserved[p] <= onHand[p]

\* No retry, crash or concurrent saga makes the core invoice an order twice: only
\* the worker that won the compare-and-swap of begin_saga calls create_invoice.
OneInvoice == \A o \in Orders : invoices[o] <= 1

\* Stock is held only for an order whose payment may still arrive: a rejection, an
\* expiry, a cancellation or a settlement never leaves held rows behind.  Moves
\* through the status endpoint do (SagaStatusMoves.cfg shows it).
HeldOnlyWhileOpen ==
  \A o \in Orders : resv[o] = "held" => order[o] \in {"invoice_pending", "awaiting_payment"}

\* Money is booked, no goods go out for it, and the merchant is not told.
Silent(o) ==
  /\ payment[o] = "settled" /\ order[o] \notin DELIVERY_STATES
  /\ ~ exception[o] /\ resolution[o] # "refund_confirmed"

\* Money booked for an order that is not sold is flagged at once, however late it
\* comes and whatever has closed the order, a cancellation included, and stays
\* flagged until the merchant accepts the order or confirms the refund
\* (confirm_settlement, settlement.py:323; _resolve_accept; confirm_refund).  One
\* way into silence is left: an order that was sold is cancelled afterwards, which
\* "does not refund a settled payment", as the page warns the merchant who does it.
SettledIsVisible ==
  [][\A o \in Orders : Silent(o)' =>
       Silent(o) \/ (order[o] \in DELIVERY_STATES /\ order'[o] = "cancelled")]_vars

\* The commerce state, the payment projection, the reservations and the core agree:
\* the combinations the transactions of checkout.py and settlement.py can leave,
\* whichever of them was interrupted or came late.
StatesAgree ==
  \A o \in Orders :
    CASE order[o] \in {"none", "received"} -> payment[o] = "none" /\ resv[o] = "none"
      [] order[o] = "invoice_pending" -> payment[o] \in UNATTACHED \cup {"settled"}
      [] order[o] = "awaiting_payment" -> payment[o] = "pending" /\ core[o] # "none"
      [] order[o] = "rejected" -> payment[o] \in {"none", "failed", "settled"}
      [] order[o] = "expired" -> payment[o] \in {"expired", "settled"}
      [] order[o] \in DELIVERY_STATES -> payment[o] = "settled"
      [] OTHER -> TRUE

delivery_unlocked(o) == order[o] \in DELIVERY_STATES /\ ~exception[o] /\ ~oversold[o]

\* "Digital delivery is revealed only once LNbits settlement has moved the order
\* into a paid state" (orders.py:135).  The status endpoint moves an order that
\* awaits payment to 'confirmed', and its goods are revealed unpaid.
DeliveredIsPaid == \A o \in Orders : delivery_unlocked(o) => payment[o] = "settled"

UnpaidSale(o) == order[o] \in DELIVERY_STATES /\ payment[o] # "settled"

\* What is left of it: no settlement, acceptance, rejection or expiry, late or
\* repeated, sells an order whose payment is not booked or takes the booking back;
\* the status endpoint alone does (admin_set_status).
OnlyEndpointSellsUnpaid ==
  [][\A o \in Orders :
       UnpaidSale(o)' => UnpaidSale(o) \/ SetStatus(o, "confirmed")]_vars

\* A reservation that was consumed, released or expired never changes again: a
\* second release, a late settlement or a second sweep finds nothing to flip.
ReservationFlipsOnce ==
  [][\A o \in Orders : resv[o] \in {"consumed", "released", "expired"} => resv'[o] = resv[o]]_vars

\* "An order is sold with its stock consumed, or was accepted by the merchant":
\* after the sweeper released the rows of an invoice_pending order, "a
\* still-arriving invoice follows the late-settlement path" (settlement.py:440),
\* but attach_payment moves the order to awaiting_payment and the settlement
\* confirms it without taking any stock.
SoldIsTaken ==
  \A o \in Orders :
    order[o] \in DELIVERY_STATES /\ resolution[o] # "accepted" => resv[o] = "consumed"

\* Stock is "decremented exactly once" (settlement.py:286): an order whose rows
\* were consumed takes no stock when it is confirmed again.  _resolve_accept of an
\* order cancelled after its confirmation takes it a second time.
TakenOnce ==
  [][\A o \in Orders :
       resv[o] = "consumed" /\ order[o] = "cancelled" /\ order'[o] = "confirmed"
         => onHand' = onHand]_vars

\* "delivered" is the end of the shipping machine (orders.py:92): no step leaves
\* it.  _resolve_accept sends a delivered parcel back to processing.
DeliveryIsFinal ==
  [][\A o \in Orders : shipping[o] = "delivered" => shipping'[o] = "delivered"]_vars

\* An order that awaits payment expires only when its invoice has: the rows' expiry
\* has passed or the core says so (settlement.py:438).  The sweeper expires from a
\* list it read earlier: an invoice attached meanwhile is live.
ExpireOnlyLapsed ==
  [][\A o \in Orders : order[o] = "awaiting_payment" /\ order'[o] = "expired"
        => lapsed[o] \/ core[o] = "expired"]_vars

\* Every open order is closed or sold one day, however often the workers crash
\* between the transactions of the saga.
OpenOrderEnds ==
  \A o \in Orders : order[o] \in OPEN_STATES ~> order[o] \notin OPEN_STATES

\* Held stock is consumed or given back one day, even when the status endpoint
\* moved the order past the steps that release it.
HeldIsResolved == \A o \in Orders : resv[o] = "held" ~> resv[o] # "held"

\* What the buyer paid is booked although every callback is lost, unless the
\* projection was given up before the payment existed.
PaidIsBooked ==
  \A o \in Orders : core[o] = "paid" ~> payment[o] \in {"settled", "failed"}

\* "Any other state: mark settled + payment_exception, no state change"
\* (settlement.py:285): every payment is booked.  One that arrives after the
\* projection failed, because create_invoice was still under way when the
\* uncertainty window closed, never is.
LatePaymentIsBooked == \A o \in Orders : core[o] = "paid" ~> payment[o] = "settled"

\* "Zero matches after a five-minute uncertainty window marks the projection
\* failed; cancelled remains cancelled": _mark_rejection returns early for a
\* cancelled order and its projection stays open for ever.
UncertainProjectionEnds ==
  \A o \in Orders : payment[o] \in UNATTACHED /\ core[o] = "none"
                      ~> payment[o] \notin UNATTACHED \/ core[o] # "none"

-----------------------------------------------------------------------------
\* The saga keeps the contract of each order.

PhaseOf(state) ==
  CASE state = "none" -> "new"
    [] state \in OPEN_STATES -> "open"
    [] state \in DELIVERY_STATES -> "sold"
    [] OTHER -> "closed"

Contract ==
  INSTANCE OrderContract WITH
    phase <- [o \in Orders |-> PhaseOf(order[o])],
    booked <- [o \in Orders |-> payment[o] = "settled"]

\* Every step of the saga is a step of the contract or none at all: a payment is
\* booked once and against the one invoice, goods are sold against a booked payment,
\* and only the merchant reopens a closed order.  Under the moves of the merchant's
\* page; the endpoint takes more, one of which sells unpaid (DeliveredIsPaid).
KeepsContract == Contract!Spec

=============================================================================
