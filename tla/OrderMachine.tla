---------------------------- MODULE OrderMachine ----------------------------
(***************************************************************************)
(* The literal state tables of an order (services/orders.py), shared by    *)
(* every module that moves an order.                                       *)
(***************************************************************************)

\* orders.state; "none" stands for "no row yet".
ORDER_STATES ==
  {"received", "invoice_pending", "awaiting_payment", "confirmed",
   "processing", "completed", "rejected", "expired", "cancelled"}

\* orders.payments.status of the local projection; "none": no row.
PAYMENT_STATES ==
  {"none", "creating", "creation_unknown", "pending", "settled", "failed",
   "expired"}

RESERVATION_STATES == {"held", "consumed", "released", "expired"}

\* The legal moves, as pairs <<from, to>>.
ORDER_TRANSITIONS ==
  {<<"received", "rejected">>, <<"received", "invoice_pending">>,
   <<"received", "cancelled">>,
   <<"invoice_pending", "awaiting_payment">>, <<"invoice_pending", "rejected">>,
   <<"invoice_pending", "cancelled">>,
   <<"awaiting_payment", "confirmed">>, <<"awaiting_payment", "expired">>,
   <<"awaiting_payment", "cancelled">>,
   <<"confirmed", "processing">>, <<"confirmed", "cancelled">>,
   <<"processing", "completed">>, <<"processing", "cancelled">>,
   <<"expired", "confirmed">>, <<"cancelled", "confirmed">>}

\* Moves transition_order refuses without a reason.
REASON_REQUIRED_TRANSITIONS ==
  {<<"confirmed", "cancelled">>, <<"expired", "confirmed">>,
   <<"cancelled", "confirmed">>}

SHIPPING_STATES ==
  {"not_required", "pending", "processing", "shipped", "delivered", "exception"}

SHIPPING_TRANSITIONS ==
  {<<"not_required", "pending">>, <<"pending", "processing">>,
   <<"processing", "shipped">>, <<"processing", "exception">>,
   <<"shipped", "delivered">>, <<"shipped", "exception">>,
   <<"exception", "processing">>, <<"exception", "shipped">>}

\* Orders that count against a buyer's or a client's cap of open orders.
OPEN_STATES == {"received", "invoice_pending", "awaiting_payment"}

ORDER_ARCHIVABLE_STATES == {"completed", "rejected", "expired", "cancelled"}

\* States in which digital goods may be revealed.
DELIVERY_STATES == {"confirmed", "processing", "completed"}

\* Projections whose invoice is not attached yet.
UNATTACHED == {"creating", "creation_unknown"}

=============================================================================
