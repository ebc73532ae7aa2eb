---------------------------- MODULE MCOrderSaga ----------------------------
(* Instances of OrderSaga for TLC. *)
EXTENDS OrderSaga

CONSTANTS o1, o2, o3, p1, p2

\* o1 and o3 want one of each product, o2 two of the first.
MCQty == [o \in Orders |-> [p \in Products |->
            IF o # o2 THEN 1 ELSE IF p = p1 THEN 2 ELSE 0]]

MCStock == [p \in Products |-> 2]

\* What the merchant's order page offers.
PageMoves == {<<"confirmed", "processing">>, <<"processing", "completed">>}

\* What the status endpoint lets through.
LegalMoves == ORDER_TRANSITIONS

\* The same without the moves that only a saga can follow up: an order put into
\* invoice_pending or awaiting_payment by hand has no projection to end it.
ClosingMoves == {move \in LegalMoves : move[2] \notin OPEN_STATES}

\* The forward path of a parcel.
ParcelMoves ==
  {<<"pending", "processing">>, <<"processing", "shipped">>, <<"shipped", "delivered">>}

=============================================================================
