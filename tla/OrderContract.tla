---------------------------- MODULE OrderContract ----------------------------
(***************************************************************************)
(* What the shop promises about one order, whatever workers, crashes and   *)
(* callbacks do: at most one invoice is ever made for it, its payment is   *)
(* booked at most once and only against that invoice, goods are sold only  *)
(* against a booked payment, and a late payment never reopens a closed     *)
(* order: only the merchant does, and only once the payment is booked      *)
(* (technical specification, sections 7.1, 8.2, 8.3 and 8.4).              *)
(***************************************************************************)
EXTENDS Naturals

CONSTANT Orders

VARIABLES
  phase,     \* "new", "open", "sold" or "closed"
  invoices,  \* invoices made for the order
  booked     \* the payment of the order is booked as settled

contractVars == <<phase, invoices, booked>>

Init ==
  /\ phase = [o \in Orders |-> "new"]
  /\ invoices = [o \in Orders |-> 0]
  /\ booked = [o \in Orders |-> FALSE]

Place(o) ==
  /\ phase[o] = "new"
  /\ phase' = [phase EXCEPT ![o] = "open"]
  /\ UNCHANGED <<invoices, booked>>

\* The order may be closed by the time the core answers.
MakeInvoice(o) ==
  /\ phase[o] # "new"
  /\ invoices[o] = 0
  /\ invoices' = [invoices EXCEPT ![o] = 1]
  /\ UNCHANGED <<phase, booked>>

\* An open order may be sold by the booking, a closed one stays closed.
Book(o) ==
  /\ invoices[o] = 1
  /\ ~booked[o]
  /\ booked' = [booked EXCEPT ![o] = TRUE]
  /\ \/ phase[o] = "open" /\ phase' = [phase EXCEPT ![o] = "sold"]
     \/ UNCHANGED phase
  /\ UNCHANGED invoices

Close(o) ==
  /\ phase[o] \in {"open", "sold"}
  /\ phase' = [phase EXCEPT ![o] = "closed"]
  /\ UNCHANGED <<invoices, booked>>

Reopen(o) ==
  /\ phase[o] = "closed"
  /\ booked[o]
  /\ phase' = [phase EXCEPT ![o] = "sold"]
  /\ UNCHANGED <<invoices, booked>>

Next == \E o \in Orders : Place(o) \/ MakeInvoice(o) \/ Book(o) \/ Close(o) \/ Reopen(o)

Spec == Init /\ [][Next]_contractVars

=============================================================================
