---------------------------- MODULE CheckoutProofs ----------------------------
(***************************************************************************)
(* Theorems of Checkout for any set of requests, keys, bodies and orders,  *)
(* any carts and any shelves: the guarantees of Idempotency hold of the    *)
(* composition, an order costs what the request that placed it confirmed,  *)
(* and every answer tells the total of its order.                          *)
(***************************************************************************)
EXTENDS Checkout, IdempotencyProofs, SequenceTheorems

-----------------------------------------------------------------------------
\* Every step of the composition is a step of Idempotency or leaves it alone

\* The composition starts and steps as Idempotency does.
LEMMA CheckoutSteps ==
  /\ CheckoutInit => Init
  /\ [CheckoutNext]_checkoutVars => [Next]_vars
<1>1. CheckoutInit => Init
  BY DEF CheckoutInit
<1>2. ASSUME Idempotent PROVE Next
  BY <1>2, Zenon DEF Idempotent, Next
<1>3. ASSUME NEW a \in Attempts,
             ResolveItem(a) \/ ResolveParents(a) \/ ResolveShipping(a) \/ PriceCart(a)
      PROVE  UNCHANGED vars
  BY <1>3, Zenon DEF ResolveItem, ResolveParents, ResolveShipping, PriceCart, Read
<1>4. ASSUME NEW a \in Attempts, ResumeCart(a) \/ CompleteCart(a) \/ DropCart(a) PROVE Next
  BY <1>4 DEF ResumeCart, CompleteCart, DropCart, Next
<1>5. ASSUME NEW a \in Attempts, NEW o \in Orders, PlaceOrder(a, o) PROVE Next
  BY <1>5 DEF PlaceOrder, Next
<1>6. ASSUME NEW s \in Shelves, EditShelf(s) PROVE UNCHANGED vars
  BY <1>6 DEF EditShelf
<1>7. UNCHANGED checkoutVars => UNCHANGED vars
  BY DEF checkoutVars
<1>8. ASSUME NEW a \in Attempts, NEW k \in Keys, NEW b \in Bodies,
             NEW e \in Request[b].expected, ClaimCart(a, k, b, e)
      PROVE  Next
  BY <1>8 DEF ClaimCart, Next
<1> QED BY <1>1, <1>2, <1>3, <1>4, <1>5, <1>6, <1>7, <1>8, Zenon DEF CheckoutNext

\* So the composition implements Idempotency.
THEOREM CheckoutIsIdempotent == CheckoutSpec => Spec
BY CheckoutSteps, PTL DEF CheckoutSpec, Spec

\* The guarantees of Idempotency hold of the checkout with its prices: one
\* order per key (_insert_order_intake) ...
THEOREM CheckoutOneOrder == CheckoutSpec => []OneOrderPerKey
BY CheckoutIsIdempotent, KeyHasOneOrder, PTL

\* ... one holder per key (_claim_idempotency) ...
THEOREM CheckoutOneHolder == CheckoutSpec => []OneHolder
BY CheckoutIsIdempotent, KeyHasOneHolder, PTL

\* ... answers about the order of their key and body (checkout) ...
THEOREM CheckoutAnswers == CheckoutSpec => []AnswerIsItsOrder
BY CheckoutIsIdempotent, AnswersAgree, PTL

\* ... and completed records that no late attempt touches (_fail_idempotency).
THEOREM CheckoutCompleted == CheckoutSpec => CompletedIsKept
BY CheckoutIsIdempotent, CompletedStays, PTL

-----------------------------------------------------------------------------
\* The price

\* Each attempt has a cart, each order a total, each record a stored total.
CartShape ==
  /\ DOMAIN cart = Attempts
  /\ \A a \in Attempts : DOMAIN cart[a] = {"stage", "lines", "option", "expected", "total"}
  /\ DOMAIN total = Orders /\ DOMAIN confirmed = Orders /\ DOMAIN kept = Keys

\* A priced cart is about to be placed, and costs what its request confirms.
PricedCarts ==
  \A a \in Attempts : cart[a].stage = "priced" =>
    At(a, "intake") /\ cart[a].expected \in {Absent, cart[a].total}

\* An order costs what the request that placed it confirmed.
PricedOrders ==
  \A o \in Orders : order[o] # "none" => confirmed[o] \in {Absent, total[o]}

\* The steps of an attempt that knows the total of its order.
Telling == {"begin", "invoice", "complete", "reply"}

\* An attempt on its way to an answer has the total of its order.
ToldTotals ==
  \A a \in Attempts : attempt[a].step \in Telling => cart[a].total = total[attempt[a].order]

\* So has a stored response.
KeptTotals ==
  \A k \in Keys : record[k].stored # NoOrder => kept[k] = total[record[k].stored]

PriceInv == CartShape /\ PricedCarts /\ PricedOrders /\ ToldTotals /\ KeptTotals

\* No cart is priced and no order placed at first.
LEMMA PriceInit == CheckoutInit => PriceInv
BY DEF CheckoutInit, Init, PriceInv, CartShape, PricedCarts, PricedOrders, ToldTotals,
       KeptTotals, NoCart, NoRecord, NoAttempt, Telling, At

\* A reading changes one cart, and prices it only as its request confirms.
LEMMA ReadPrice ==
  ASSUME PriceInv, NEW a \in Attempts,
         ResolveItem(a) \/ ResolveParents(a) \/ ResolveShipping(a) \/ PriceCart(a)
  PROVE  PriceInv'
<1> USE DEF PriceInv
<1>1. UNCHANGED <<vars, shelf, total, kept, confirmed>> /\ At(a, "intake")
  BY Zenon DEF ResolveItem, ResolveParents, ResolveShipping, PriceCart, Read, Reading
<1>2. /\ \A c \in Attempts : c # a => cart'[c] = cart[c]
      /\ DOMAIN cart' = Attempts
      /\ DOMAIN cart'[a] = {"stage", "lines", "option", "expected", "total"}
  <2>1. CASE ResolveItem(a)
    <3>1. PICK l : cart' = [cart EXCEPT ![a] = [cart[a] EXCEPT !.lines = l]]
      BY <2>1, Zenon DEF ResolveItem, Read
    <3> QED BY <3>1 DEF CartShape
  <2>2. CASE ResolveParents(a)
    <3>1. PICK x : cart' = [cart EXCEPT ![a] = [cart[a] EXCEPT !.stage = x]]
      BY <2>2, Zenon DEF ResolveParents, Read
    <3> QED BY <3>1 DEF CartShape
  <2>3. CASE ResolveShipping(a)
    BY <2>3 DEF ResolveShipping, Read, CartShape
  <2>4. CASE PriceCart(a)
    BY <2>4 DEF PriceCart, Read, CartShape
  <2> QED BY <2>1, <2>2, <2>3, <2>4
<1>3. ASSUME cart'[a].stage = "priced" PROVE cart'[a].expected \in {Absent, cart'[a].total}
  <2>1. CASE PriceCart(a)
    BY <2>1 DEF PriceCart, Read, Confirmed, CartShape
  <2>2. CASE ResolveItem(a)
    BY <1>3, <2>2 DEF ResolveItem, Reading, Read, CartShape
  <2>3. CASE ResolveParents(a)
    BY <1>3, <2>3 DEF ResolveParents, Reading, Read, CartShape
  <2>4. CASE ResolveShipping(a)
    BY <1>3, <2>4 DEF ResolveShipping, Reading, Read, CartShape
  <2> QED BY <2>1, <2>2, <2>3, <2>4
<1>4. CartShape'
  BY <1>1, <1>2 DEF CartShape
<1>5. PricedCarts'
  BY <1>1, <1>2, <1>3 DEF PricedCarts, vars, At
<1>6. PricedOrders' /\ KeptTotals'
  BY <1>1 DEF PricedOrders, KeptTotals, vars
<1>7. ToldTotals'
  <2>1. attempt' = attempt /\ total' = total /\ attempt[a].step \notin Telling
    BY <1>1 DEF vars, At, Telling
  <2> QED BY <1>2, <2>1 DEF ToldTotals
<1> QED BY <1>4, <1>5, <1>6, <1>7

\* A step that places no order and gives no attempt a total: carts are kept or
\* emptied, whoever still tells a total told it before, and what is stored was.
LEMMA QuietPrice ==
  ASSUME PriceInv, UNCHANGED <<shelf, total, kept, confirmed>>, CartShape',
         \A c \in Attempts :
           \/ cart'[c] = cart[c] /\ (At(c, "intake") => attempt'[c] = attempt[c])
           \/ cart'[c].stage = "items",
         \A c \in Attempts : attempt'[c].step \in Telling =>
           /\ attempt[c].step \in Telling
           /\ cart'[c] = cart[c] /\ attempt'[c].order = attempt[c].order,
         \A o \in Orders : order'[o] # "none" => order[o] # "none",
         \A k \in Keys : record'[k].stored \in {NoOrder, record[k].stored}
  PROVE  PriceInv'
<1> USE DEF PriceInv
<1>1. PricedCarts'
  BY DEF PricedCarts, At
<1>2. PricedOrders' /\ ToldTotals' /\ KeptTotals'
  BY DEF PricedOrders, ToldTotals, KeptTotals
<1> QED BY <1>1, <1>2

\* The steps of Idempotency without carts leave alone what is being placed and
\* what was.
LEMMA IdempotentPrice ==
  ASSUME PriceInv, TypeOK, Idempotent
  PROVE  PriceInv'
<1> DEFINE Rest ==
      /\ \A c \in Attempts : At(c, "intake") => attempt'[c] = attempt[c]
      /\ \A c \in Attempts : attempt'[c].step \in Telling =>
           attempt[c].step \in Telling /\ attempt'[c].order = attempt[c].order
      /\ \A o \in Orders : order'[o] # "none" => order[o] # "none"
      /\ \A k \in Keys : record'[k].stored \in {NoOrder, record[k].stored}
<1>1. UNCHANGED <<shelf, cart, total, kept, confirmed>>
  BY DEF Idempotent
<1>2. Rest
  <2>1. ASSUME NEW a \in Attempts, NEW k \in Keys, NEW b \in Bodies, Replay(a, k, b)
        PROVE  Rest
    BY <2>1 DEF Replay
  <2>2. ASSUME NEW a \in Attempts, Begin(a) \/ Invoice(a) PROVE Rest
    <3>1. /\ \E s \in {"invoice", "complete", "fail"} : Goto(a, s)
          /\ attempt[a].step \in {"begin", "invoice"} /\ record' = record
      BY <2>2 DEF Begin, Invoice, At
    <3>2. \A o \in Orders : order'[o] # "none" => order[o] # "none"
      BY <2>2 DEF Begin, Invoice, TypeOK
    <3>3. /\ attempt[a].step # "intake" /\ attempt[a].step \in Telling
          /\ attempt'[a].order = attempt[a].order
          /\ \A c \in Attempts : c # a => attempt'[c] = attempt[c]
      BY <3>1 DEF Goto, Telling, TypeOK, AttemptType
    <3> QED BY <3>1, <3>2, <3>3 DEF At
  <2>3. ASSUME NEW k \in Keys, Lapse(k) \/ PruneRecord(k) PROVE Rest
    BY <2>3 DEF Lapse, PruneRecord, TypeOK, RecordType
  <2>4. ASSUME NEW o \in Orders, Proceed(o) \/ PruneOrder(o) PROVE Rest
    BY <2>4 DEF Proceed, PruneOrder, TypeOK, RecordType
  <2> QED BY <2>1, <2>2, <2>3, <2>4 DEF Idempotent
<1>3. CartShape'
  BY <1>1 DEF PriceInv, CartShape
<1> QED BY <1>1, <1>2, <1>3, QuietPrice

\* A cart that is begun is empty but for what its request confirms, a dropped
\* one is empty.
LEMMA EmptyPrice ==
  ASSUME PriceInv, NEW a \in Attempts, NEW e,
         UNCHANGED <<shelf, total, kept, confirmed, order>>,
         cart' = [cart EXCEPT ![a] = [NoCart EXCEPT !.expected = e]],
         attempt'[a].step \notin Telling,
         \A c \in Attempts : c # a => attempt'[c] = attempt[c],
         \A k \in Keys : record'[k].stored \in {NoOrder, record[k].stored}
  PROVE  PriceInv'
<1>1. CartShape'
  BY DEF PriceInv, CartShape, NoCart
<1>2. cart'[a].stage = "items" /\ \A c \in Attempts : c # a => cart'[c] = cart[c]
  BY DEF PriceInv, CartShape, NoCart
<1> QED BY <1>1, <1>2, QuietPrice

\* Claiming a key begins a cart.
LEMMA ClaimPrice ==
  ASSUME PriceInv, TypeOK, NEW a \in Attempts, NEW k \in Keys, NEW b \in Bodies,
         NEW e \in Request[b].expected, ClaimCart(a, k, b, e)
  PROVE  PriceInv'
<1>1. /\ UNCHANGED <<shelf, total, kept, confirmed, order>>
      /\ cart' = [cart EXCEPT ![a] = [NoCart EXCEPT !.expected = e]]
  BY DEF ClaimCart, ClaimNew, Reclaim
<1>2. /\ \A c \in Attempts : c # a => attempt'[c] = attempt[c]
      /\ attempt'[a].step \in {"intake", "resume"}
  BY DEF ClaimCart, ClaimNew, Reclaim, TypeOK
<1>3. attempt'[a].step \notin Telling
  BY <1>2 DEF Telling
<1>4. ASSUME NEW h \in Keys PROVE record'[h].stored \in {NoOrder, record[h].stored}
  <2>1. CASE ClaimNew(a, k, b)
    BY <2>1 DEF ClaimNew, NoRecord, TypeOK
  <2>2. CASE Reclaim(a, k, b)
    <3>1. record' = [record EXCEPT ![k] = Reclaimed(k)]
      BY <2>2 DEF Reclaim
    <3>2. Reclaimed(k).stored = record[k].stored
      BY DEF Reclaimed, TypeOK, RecordType
    <3> QED BY <3>1, <3>2 DEF TypeOK
  <2> QED BY <2>1, <2>2 DEF ClaimCart
<1> QED BY <1>1, <1>2, <1>3, <1>4, EmptyPrice

\* A cart that is dropped leaves everything else as it is.
LEMMA DropPrice ==
  ASSUME PriceInv, TypeOK, NEW a \in Attempts, DropCart(a)
  PROVE  PriceInv'
<1>1. UNCHANGED <<shelf, total, kept, confirmed, order>> /\ cart' = [cart EXCEPT ![a] = NoCart]
  BY DEF DropCart, RefuseIntake, Reply, Fail, Crash
<1>2. NoCart = [NoCart EXCEPT !.expected = NoCart.expected]
  BY DEF NoCart
<1>3. attempt' = [attempt EXCEPT ![a] = NoAttempt] \/ attempt' = [attempt EXCEPT ![a].step = "fail"]
  BY DEF DropCart, RefuseIntake, Reply, Fail, Crash, Goto
<1>4. /\ \A c \in Attempts : c # a => attempt'[c] = attempt[c]
      /\ attempt'[a].step \in {"idle", "fail"}
  BY <1>3 DEF NoAttempt, TypeOK, AttemptType
<1>5. attempt'[a].step \notin Telling
  BY <1>4 DEF Telling
<1>6. ASSUME NEW k \in Keys PROVE record'[k].stored \in {NoOrder, record[k].stored}
  <2>1. \/ record' = record
        \/ record' = [record EXCEPT ![KeyOf(a)].state = "failed", ![KeyOf(a)].live = FALSE]
    BY DEF DropCart, RefuseIntake, Reply, Fail, Crash
  <2> QED BY <2>1 DEF TypeOK, RecordType
<1> QED BY <1>1, <1>2, <1>4, <1>5, <1>6, EmptyPrice

\* A resumed order is told with the total of its row.
LEMMA ResumePrice ==
  ASSUME PriceInv, TypeOK, NEW a \in Attempts, ResumeCart(a)
  PROVE  PriceInv'
<1> USE DEF PriceInv
<1>1. /\ UNCHANGED <<shelf, total, kept, confirmed, order, record>>
      /\ cart' = [cart EXCEPT ![a].total = total[attempt[a].order]]
      /\ At(a, "resume") /\ attempt'[a].order = attempt[a].order
      /\ \A c \in Attempts : c # a => attempt'[c] = attempt[c]
  BY DEF ResumeCart, Resume, Goto, TypeOK, AttemptType
<1>2. CartShape'
  BY <1>1 DEF CartShape
<1>3. cart[a].stage # "priced"
  BY <1>1 DEF PricedCarts, At
<1>4. PricedCarts'
  BY <1>1, <1>3 DEF CartShape, PricedCarts, At
<1>5. PricedOrders' /\ KeptTotals'
  BY <1>1 DEF PricedOrders, KeptTotals
<1>6. ToldTotals'
  BY <1>1 DEF CartShape, ToldTotals
<1> QED BY <1>2, <1>4, <1>5, <1>6

\* A response is stored with the total it tells.
LEMMA CompletePrice ==
  ASSUME PriceInv, TypeOK, NEW a \in Attempts, CompleteCart(a)
  PROVE  PriceInv'
<1> USE DEF PriceInv
<1>1. /\ UNCHANGED <<shelf, cart, total, confirmed, order>>
      /\ At(a, "complete") /\ attempt'[a].step = "reply" /\ attempt'[a].order = attempt[a].order
      /\ \A c \in Attempts : c # a => attempt'[c] = attempt[c]
  BY DEF CompleteCart, Complete, Goto, TypeOK, AttemptType
<1>2. CartShape'
  BY <1>1 DEF CartShape, CompleteCart
<1>3. PricedCarts' /\ PricedOrders'
  BY <1>1 DEF PricedCarts, PricedOrders, At
<1>4. ToldTotals'
  BY <1>1 DEF ToldTotals, Telling, At
<1>5. KeptTotals'
  <2>1. CASE record' = record
    BY <1>1, <2>1 DEF KeptTotals, CompleteCart
  <2>2. CASE record' # record
    <3>1. /\ kept' = [kept EXCEPT ![KeyOf(a)] = cart[a].total]
          /\ \A k \in Keys : k # KeyOf(a) => record'[k] = record[k]
          /\ KeyOf(a) \in Keys => record'[KeyOf(a)].stored = attempt[a].order
      BY <2>2 DEF CompleteCart, Complete, TypeOK, RecordType
    <3>2. cart[a].total = total[attempt[a].order]
      BY <1>1 DEF ToldTotals, Telling, At
    <3> QED BY <1>1, <3>1, <3>2 DEF KeptTotals, CartShape
  <2> QED BY <2>1, <2>2
<1> QED BY <1>2, <1>3, <1>4, <1>5

\* The order is written with the total of its cart; no attempt, record or order
\* knew of it before.
LEMMA PlacePrice ==
  ASSUME PriceInv, IInv, NEW a \in Attempts, NEW o \in Orders, PlaceOrder(a, o)
  PROVE  PriceInv'
<1> USE DEF PriceInv, IInv
<1>1. /\ cart[a].stage = "priced"
      /\ cart' = [cart EXCEPT ![a] =
           [NoCart EXCEPT !.expected = cart[a].expected, !.total = cart[a].total]]
      /\ total' = [total EXCEPT ![o] = cart[a].total]
      /\ confirmed' = [confirmed EXCEPT ![o] = cart[a].expected]
      /\ kept' = kept
      /\ order[o] = "none" /\ order' = [order EXCEPT ![o] = "received"]
      /\ attempt'[a].order = o
      /\ \A c \in Attempts : c # a => attempt'[c] = attempt[c]
  BY DEF PlaceOrder, Reading, Intake, TypeOK, AttemptType
<1>2. CartShape'
  BY <1>1 DEF CartShape, NoCart
<1>3. PricedCarts'
  BY <1>1 DEF CartShape, PricedCarts, NoCart, At
<1>4. PricedOrders'
  BY <1>1 DEF CartShape, TypeOK, PricedCarts, PricedOrders
<1>5. ToldTotals'
  <2> SUFFICES ASSUME NEW c \in Attempts, attempt'[c].step \in Telling
               PROVE  cart'[c].total = total'[attempt'[c].order]
    BY DEF ToldTotals
  <2>1. CASE c = a
    BY <1>1, <2>1 DEF CartShape, NoCart
  <2>2. CASE c # a
    <3>1. attempt[c].step \in OnOrder /\ Busy(c)
      BY <1>1, <2>2 DEF Telling, OnOrder, Busy, At
    <3>2. /\ attempt[c].order \in Orders /\ record[KeyOf(c)].order = attempt[c].order
          /\ KeyOf(c) \in Keys
      BY <3>1 DEF AttemptsLinked, AttemptsClaimed
    <3>3. order[attempt[c].order] # "none"
      BY <3>2, IdempotencyAssumption DEF RecordsLinked
    <3> QED BY <1>1, <2>2, <3>2, <3>3 DEF CartShape, ToldTotals
  <2> QED BY <2>1, <2>2
<1>6. KeptTotals'
  <2> SUFFICES ASSUME NEW k \in Keys, record'[k].stored # NoOrder
               PROVE  kept'[k] = total'[record'[k].stored]
    BY DEF KeptTotals
  <2>1. record'[k].stored = record[k].stored
    BY DEF PlaceOrder, Intake, TypeOK, RecordType
  <2>2. record[k].stored \in Orders /\ order[record[k].stored] # "none"
    BY <2>1 DEF RecordsLinked, TypeOK, RecordType
  <2> QED BY <1>1, <2>1, <2>2 DEF CartShape, KeptTotals
<1> QED BY <1>2, <1>3, <1>4, <1>5, <1>6

\* Every step keeps the totals together.
LEMMA PriceNext == IInv /\ PriceInv /\ [CheckoutNext]_checkoutVars => PriceInv'
<1> SUFFICES ASSUME IInv, PriceInv, [CheckoutNext]_checkoutVars PROVE PriceInv'
  OBVIOUS
<1>1. TypeOK
  BY DEF IInv
<1>2. ASSUME NEW s \in Shelves, EditShelf(s) PROVE PriceInv'
  BY <1>2 DEF EditShelf, vars, PriceInv, CartShape, PricedCarts, PricedOrders, ToldTotals,
              KeptTotals, At
<1>3. CASE UNCHANGED checkoutVars
  BY <1>3 DEF checkoutVars, vars, PriceInv, CartShape, PricedCarts, PricedOrders, ToldTotals,
              KeptTotals, At
<1>4. ASSUME NEW a \in Attempts, NEW k \in Keys, NEW b \in Bodies,
             NEW e \in Request[b].expected, ClaimCart(a, k, b, e)
      PROVE  PriceInv'
  BY <1>1, <1>4, ClaimPrice
<1>5. ASSUME NEW a \in Attempts, ResumeCart(a) \/ CompleteCart(a) \/ DropCart(a)
      PROVE  PriceInv'
  BY <1>1, <1>5, ResumePrice, CompletePrice, DropPrice
<1> QED BY <1>1, <1>2, <1>3, <1>4, <1>5, IdempotentPrice, ReadPrice, PlacePrice, Zenon
        DEF CheckoutNext

\* The property is the part of the invariant an observer sees.
LEMMA PricedAnswers == PriceInv => AgreedPrice
BY DEF PriceInv, PricedOrders, ToldTotals, KeptTotals, AgreedPrice, Replayable, Telling, At

\* The price is what the buyer confirmed: whatever the shelf does between the
\* readings of a cart, an order costs what the request that placed it confirmed,
\* and whatever crashes and takes over, every answer tells the total of its order
\* (checkout, _run_checkout, _resume_order).
THEOREM PriceAgreed == CheckoutSpec => []AgreedPrice
<1>1. CheckoutSpec => []IInv
  BY CheckoutIsIdempotent, Invariant, PTL
<1>2. CheckoutSpec => []PriceInv
  BY <1>1, PriceInit, PriceNext, PTL DEF CheckoutSpec
<1> QED BY <1>2, PricedAnswers, PTL

-----------------------------------------------------------------------------
\* Type correctness

TypesInv == PriceInv /\ CheckoutTypeOK

\* The items of a request name products.
LEMMA ItemProduct ==
  ASSUME NEW items \in Seq([product : Products, qty : Int]), NEW i \in DOMAIN items
  PROVE  items[i].product \in Products
<1>1. i \in 1..Len(items)
  OBVIOUS
<1>2. items[i] \in [product : Products, qty : Int]
  BY <1>1, ElementOfSeq, Zenon
<1> QED BY <1>2

\* A reading keeps the types: the products come from the request, the total
\* has passed the bounds of the column.
LEMMA ReadTypes ==
  ASSUME TypesInv, IInv, TypeOK', NEW a \in Attempts,
         ResolveItem(a) \/ ResolveParents(a) \/ ResolveShipping(a) \/ PriceCart(a)
  PROVE  CheckoutTypeOK'
<1> USE DEF TypesInv, PriceInv, CartShape, CheckoutTypeOK
<1>1. UNCHANGED <<shelf, total, kept>> /\ \A c \in Attempts : c # a => cart'[c] = cart[c]
  BY DEF ResolveItem, ResolveParents, ResolveShipping, PriceCart, Read
<1>2. /\ cart'[a].stage \in Stages
      /\ DOMAIN cart'[a].lines \subseteq Products
      /\ cart'[a].total \in 0..MaxSat
  <2>1. CASE ResolveItem(a)
    <3> DEFINE n == Cardinality(DOMAIN cart[a].lines) + 1
               item == Of(a).items[n]
    <3>1. /\ At(a, "intake") /\ n \in DOMAIN Of(a).items
          /\ cart'[a].stage = cart[a].stage /\ cart'[a].total = cart[a].total
          /\ DOMAIN cart'[a].lines = DOMAIN cart[a].lines \cup {item.product}
      BY <2>1 DEF ResolveItem, Reading, Read
    <3>2. Of(a).items \in Seq([product : Products, qty : Int])
      <4>1. attempt[a].body \in Bodies
        BY <3>1 DEF At, Busy, IInv, AttemptsClaimed, BlankRecords
      <4> QED BY <4>1, CheckoutAssumption DEF Of
    <3>3. item.product \in Products
      BY <3>1, <3>2, ItemProduct
    <3> QED BY <3>1, <3>3
  <2>2. CASE ResolveParents(a)
    BY <2>2 DEF ResolveParents, Read, Stages
  <2>3. CASE ResolveShipping(a)
    BY <2>3 DEF ResolveShipping, Read, Stages
  <2>4. CASE PriceCart(a)
    BY <2>4, CheckoutAssumption DEF PriceCart, Read, Stages, ValidTotal
  <2> QED BY <2>1, <2>2, <2>3, <2>4
<1> QED BY <1>1, <1>2

\* Every step of the composition keeps its types.
LEMMA TypesNext == TypesInv /\ IInv /\ TypeOK' /\ [CheckoutNext]_checkoutVars => CheckoutTypeOK'
<1> SUFFICES ASSUME TypesInv, IInv, TypeOK', [CheckoutNext]_checkoutVars PROVE CheckoutTypeOK'
  OBVIOUS
<1> DEFINE Typed(c) == /\ c.stage \in Stages /\ DOMAIN c.lines \subseteq Products
                       /\ c.total \in 0..MaxSat
<1>1. \A e : Typed([NoCart EXCEPT !.expected = e]) /\ Typed(NoCart)
  BY CheckoutAssumption DEF NoCart, Nothing, Stages
<1>2. CASE Idempotent \/ UNCHANGED checkoutVars
  BY <1>2 DEF Idempotent, checkoutVars, TypesInv, CheckoutTypeOK
<1>3. ASSUME NEW a \in Attempts, NEW k \in Keys, NEW b \in Bodies,
             NEW e \in Request[b].expected, ClaimCart(a, k, b, e)
      PROVE  CheckoutTypeOK'
  BY <1>1, <1>3 DEF ClaimCart, TypesInv, PriceInv, CartShape, CheckoutTypeOK
<1>4. ASSUME NEW a \in Attempts, DropCart(a) PROVE CheckoutTypeOK'
  BY <1>1, <1>4 DEF DropCart, TypesInv, PriceInv, CartShape, CheckoutTypeOK
<1>5. ASSUME NEW a \in Attempts, ResumeCart(a) PROVE CheckoutTypeOK'
  <2>1. total[attempt[a].order] \in 0..MaxSat
    BY <1>5 DEF ResumeCart, Resume, At, IInv, AttemptsLinked, OnOrder, TypesInv, CheckoutTypeOK
  <2> QED BY <1>5, <2>1 DEF ResumeCart, TypesInv, PriceInv, CartShape, CheckoutTypeOK
<1>6. ASSUME NEW a \in Attempts, CompleteCart(a) PROVE CheckoutTypeOK'
  BY <1>6 DEF CompleteCart, TypesInv, CheckoutTypeOK
<1>7. ASSUME NEW a \in Attempts, NEW o \in Orders, PlaceOrder(a, o) PROVE CheckoutTypeOK'
  <2>1. Typed([NoCart EXCEPT !.expected = cart[a].expected, !.total = cart[a].total])
    BY <1>1 DEF NoCart, Nothing, Stages, TypesInv, CheckoutTypeOK
  <2> QED BY <1>7, <2>1 DEF PlaceOrder, TypesInv, PriceInv, CartShape, CheckoutTypeOK
<1>8. ASSUME NEW s \in Shelves, EditShelf(s) PROVE CheckoutTypeOK'
  BY <1>8 DEF EditShelf, TypesInv, CheckoutTypeOK
<1> QED BY <1>2, <1>3, <1>4, <1>5, <1>6, <1>7, <1>8, ReadTypes, Zenon DEF CheckoutNext

\* The variables of the composition keep their types: in particular no cart or
\* order ever has a total outside its column (checked_total_sat).
THEOREM CheckoutTypeCorrect == CheckoutSpec => []CheckoutTypeOK
<1>1. CheckoutInit => CheckoutTypeOK
  BY CheckoutSteps, TypeOKInit, CheckoutAssumption
  DEF CheckoutInit, CheckoutTypeOK, NoCart, Nothing, Stages
<1>2. CheckoutSpec => []IInv
  BY CheckoutIsIdempotent, Invariant, PTL
<1>3. IInv => TypeOK
  BY DEF IInv
<1>4. CheckoutSpec => []TypesInv
  <2>1. TypesInv /\ TypeOK /\ IInv /\ IInv' /\ [CheckoutNext]_checkoutVars => TypesInv'
    <3>1. IInv' => TypeOK'
      BY DEF IInv
    <3> QED BY <3>1, PriceNext, TypesNext DEF TypesInv
  <2>2. CheckoutInit => TypesInv
    BY <1>1, PriceInit DEF TypesInv
  <2> QED BY <1>2, <1>3, <2>1, <2>2, PTL DEF CheckoutSpec
<1>5. TypesInv => CheckoutTypeOK
  BY DEF TypesInv
<1> QED BY <1>4, <1>5, PTL

=============================================================================
