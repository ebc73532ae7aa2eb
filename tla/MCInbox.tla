------------------------------- MODULE MCInbox -------------------------------
(* Instances of Inbox for TLC. *)
EXTENDS Inbox, TLC

CONSTANTS placed, changed, huge, cancels, foreign, receipt, dm, copy

\* A buyer's order, the same external id with another cart or an amount beyond 64
\* bits, its cancellation, someone else's, a receipt, a conversation message, the
\* merchant's own copy.
MCKind == [r \in Rumors |->
  CASE r \in {placed, changed, huge} -> "order" [] r \in {cancels, foreign} -> "cancel"
    [] r = receipt -> "receipt" [] r = dm -> "dm" [] r = copy -> "copy"]
MCAuthor == [r \in Rumors |->
  CASE r = foreign -> "mallory" [] r = copy -> "merchant" [] OTHER -> "alice"]
MCAbout == [r \in Rumors |-> CHOOSE o \in Orders : TRUE]
MCBody == [r \in Rumors |-> r]

\* The saga opens the order, it is paid, it expires.
SagaMoves ==
  {<<"received", "invoice_pending">>, <<"invoice_pending", "awaiting_payment">>,
   <<"awaiting_payment", "confirmed">>, <<"awaiting_payment", "expired">>}

\* Every process runs both tasks; two reconcilers take over from each other.
Both == Processes \X Drains
Twice == Processes \X {Reconciliation}

Interchangeable == Permutations(Wraps)

=============================================================================
