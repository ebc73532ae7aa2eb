------------------------------ MODULE Checkout ------------------------------
(***************************************************************************)
(* The public checkout with its prices: Idempotency, where an attempt that *)
(* has to place its order first reads the products of the cart one by one, *)
(* then the shipping option, then the surcharges and the rates, while the  *)
(* merchant edits the catalog and the rates move.  No transaction holds    *)
(* these readings together; what protects the buyer is the total a request *)
(* confirms.  The request hash leaves it out: requests of one key and one  *)
(* body may confirm different totals, and only the one that places the     *)
(* order is compared.                                                      *)
(***************************************************************************)
EXTENDS Idempotency, Pricing

CONSTANTS
  Request,   \* Request[b]: the cart and the address of body b, and the totals
             \* the requests with that body may confirm, Absent for none
  Shelves,   \* what the catalog and the rates can become
  NoAddress, NoRow

ASSUME CheckoutAssumption ==
  /\ DOMAIN Request = Bodies
  /\ \A b \in Bodies : Request[b].items \in Seq([product : Products, qty : Int])
  /\ MaxSat \in Nat

VARIABLES
  shelf,    \* the catalog and the rates as they are
  cart,     \* what each attempt has read of them
  total,    \* orders.total_sat
  kept,     \* the total in the stored response of each record
  confirmed   \* history: the total confirmed by the request that placed each order

checkoutVars == <<vars, shelf, cart, total, kept, confirmed>>

Stages == {"items", "parents", "shipping", "price", "priced"}

NoCart ==
  [stage |-> "items", lines |-> Nothing, option |-> NoRow, expected |-> Absent, total |-> 0]

Of(a) == Request[attempt[a].body]

Reading(a, stage) == At(a, "intake") /\ cart[a].stage = stage

\* The attempt has read something more.
Read(a, c) ==
  /\ cart' = [cart EXCEPT ![a] = c]
  /\ UNCHANGED <<vars, shelf, total, kept, confirmed>>

\* The key is claimed or taken over by a request that confirms e.
ClaimCart(a, k, b, e) ==
  /\ ClaimNew(a, k, b) \/ Reclaim(a, k, b)
  /\ cart' = [cart EXCEPT ![a] = [NoCart EXCEPT !.expected = e]]
  /\ UNCHANGED <<shelf, total, kept, confirmed>>

\* _resolve_items, one row after the other.
ResolveItem(a) ==
  LET lines == cart[a].lines
      n == Cardinality(DOMAIN lines) + 1
      item == Of(a).items[n]
      row == shelf.rows[item.product] IN
  /\ Reading(a, "items")
  /\ WellFormed(Of(a).items)
  /\ n \in DOMAIN Of(a).items
  /\ Purchasable(row)
  /\ Read(a, [cart[a] EXCEPT !.lines = [p \in DOMAIN lines \cup {item.product} |->
       IF p = item.product THEN [row |-> row, qty |-> item.qty] ELSE lines[p]]])

ResolveParents(a) ==
  LET lines == cart[a].lines IN
  /\ Reading(a, "items")
  /\ Cardinality(DOMAIN lines) = Len(Of(a).items)
  /\ \A p \in DOMAIN lines : ParentSells(shelf, lines[p].row)
  /\ Read(a, [cart[a] EXCEPT !.stage = IF Physical(lines) = {} THEN "price" ELSE "shipping"])

\* _resolve_shipping and _check_shipping_constraints, for a physical cart.
ResolveShipping(a) ==
  LET option == shelf.options[Of(a).option] IN
  /\ Reading(a, "shipping")
  /\ Of(a).option \in Options
  /\ Of(a).address # NoAddress
  /\ Covers(option, Of(a).address)
  /\ Fits(option, cart[a].lines)
  /\ Read(a, [cart[a] EXCEPT !.stage = "price", !.option = option])

\* What shipping adds to the lines.
Shipping(a) ==
  IF cart[a].option = NoRow THEN Nothing
  ELSE ShippingCharges(shelf, cart[a].lines, Of(a).option, cart[a].option)

\* The sum of all charges.
CartTotal(a) == SumSats(shelf, LineCharges(cart[a].lines)) + SumSats(shelf, Shipping(a))

\* Mutant: the client's total is not compared.
Confirmed_Any(a) == TRUE

\* expected_total_sat, when the request has one.
Confirmed(a) == cart[a].expected \in {Absent, CartTotal(a)}

\* _price_cart and the comparison.
PriceCart(a) ==
  /\ Reading(a, "price")
  /\ cart[a].option # NoRow => Chargeable(shelf, cart[a].lines, Of(a).option, cart[a].option)
  /\ AllQuotable(shelf, LineCharges(cart[a].lines))
  /\ AllQuotable(shelf, Shipping(a))
  /\ ValidTotal(CartTotal(a))
  /\ Confirmed(a)
  /\ Read(a, [cart[a] EXCEPT !.stage = "priced", !.total = CartTotal(a)])

\* The order is written as it was priced, whatever the shelf says by then; the
\* response will tell this total.
PlaceOrder(a, o) ==
  /\ Reading(a, "priced")
  /\ Intake(a, o)
  /\ total' = [total EXCEPT ![o] = cart[a].total]
  /\ confirmed' = [confirmed EXCEPT ![o] = cart[a].expected]
  /\ cart' = [cart EXCEPT ![a] =
       [NoCart EXCEPT !.expected = cart[a].expected, !.total = cart[a].total]]
  /\ UNCHANGED <<shelf, kept>>

\* A resumed order is answered with the total of its row; nothing is compared.
ResumeCart(a) ==
  /\ Resume(a)
  /\ cart' = [cart EXCEPT ![a].total = total[attempt[a].order]]
  /\ UNCHANGED <<shelf, total, kept, confirmed>>

\* The response, with its total, is stored if the record is still ours.
CompleteCart(a) ==
  /\ Complete(a)
  /\ kept' = IF record' = record THEN kept ELSE [kept EXCEPT ![KeyOf(a)] = cart[a].total]
  /\ UNCHANGED <<shelf, cart, total, confirmed>>

\* The resolution refuses the cart, a quote goes stale, a cap is reached, the
\* link is not ours; the response or an exception reaches the client; the
\* process dies.
DropCart(a) ==
  /\ RefuseIntake(a) \/ Reply(a) \/ Fail(a) \/ Crash(a)
  /\ cart' = [cart EXCEPT ![a] = NoCart]
  /\ UNCHANGED <<shelf, total, kept, confirmed>>

\* The merchant edits the catalog, or a rate moves.
EditShelf(s) ==
  /\ s # shelf
  /\ shelf' = s
  /\ UNCHANGED <<vars, cart, total, kept, confirmed>>

\* quote_preview: the same resolution and the same sum, read at one moment.
Preview(s, b) ==
  LET lines == [p \in {Request[b].items[n].product : n \in DOMAIN Request[b].items} |->
                  [row |-> s.rows[p],
                   qty |-> (CHOOSE i \in Range(Request[b].items) : i.product = p).qty]]
      charges == IF Physical(lines) = {} THEN Nothing
                 ELSE ShippingCharges(s, lines, Request[b].option, s.options[Request[b].option])
  IN  SumSats(s, LineCharges(lines)) + SumSats(s, charges)

CheckoutInit ==
  /\ Init
  /\ shelf \in Shelves
  /\ cart = [a \in Attempts |-> NoCart]
  /\ total = [o \in Orders |-> 0]
  /\ kept = [k \in Keys |-> 0]
  /\ confirmed = [o \in Orders |-> Absent]

\* The steps of Idempotency that touch neither carts nor totals.  A completed
\* record answers with its stored total, whatever the request confirms.
Idempotent ==
  /\ \/ \E a \in Attempts, k \in Keys, b \in Bodies : Replay(a, k, b)
     \/ \E a \in Attempts : Begin(a) \/ Invoice(a)
     \/ \E k \in Keys : Lapse(k) \/ PruneRecord(k)
     \/ \E o \in Orders : Proceed(o) \/ PruneOrder(o)
  /\ UNCHANGED <<shelf, cart, total, kept, confirmed>>

CheckoutNext ==
  \/ Idempotent
  \/ \E a \in Attempts, k \in Keys, b \in Bodies : \E e \in Request[b].expected :
       ClaimCart(a, k, b, e)
  \/ \E a \in Attempts :
       ResolveItem(a) \/ ResolveParents(a) \/ ResolveShipping(a) \/ PriceCart(a)
         \/ ResumeCart(a) \/ CompleteCart(a) \/ DropCart(a)
  \/ \E a \in Attempts, o \in Orders : PlaceOrder(a, o)
  \/ \E s \in Shelves : EditShelf(s)

CheckoutSpec == CheckoutInit /\ [][CheckoutNext]_checkoutVars

-----------------------------------------------------------------------------
\* Properties

\* The variables of the composition have their types.
CheckoutTypeOK ==
  /\ TypeOK
  /\ shelf \in Shelves
  /\ \A a \in Attempts :
       /\ cart[a].stage \in Stages
       /\ DOMAIN cart[a].lines \subseteq Products
       /\ cart[a].total \in 0..MaxSat
  /\ total \in [Orders -> 0..MaxSat]
  /\ kept \in [Keys -> 0..MaxSat]

\* An order costs what the very request that placed it confirmed, if it
\* confirmed anything, however the shelf has changed between its readings; and
\* every 201, fresh, resumed after a crash or replayed from the record, tells the
\* total its order has (_run_checkout, _resume_order, replay_response).  Nothing
\* is said of what a retry confirms: see AnswersConfirm.
AgreedPrice ==
  /\ \A o \in Orders : order[o] # "none" => confirmed[o] \in {Absent, total[o]}
  /\ \A a \in Attempts : At(a, "reply") => cart[a].total = total[attempt[a].order]
  /\ \A k \in Keys : Replayable(k) => kept[k] = total[record[k].stored]

\* What the refusal "review the updated total before paying" (checkout.py:743)
\* announces: no request is answered with a total other than the one it
\* confirmed.  A retry that resumes the order of its key and cart is.
AnswersConfirm ==
  \A a \in Attempts : At(a, "reply") => cart[a].expected \in {Absent, cart[a].total}

=============================================================================
