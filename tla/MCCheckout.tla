------------------------------ MODULE MCCheckout ------------------------------
(***************************************************************************)
(* Instances of Checkout for TLC: a mug and a print that is one of several,*)
(* one option, a price that is raised, a rate that moves and prints taken  *)
(* off the shelf, and a buyer who confirms what the preview said before or *)
(* after the price was raised.                                             *)
(***************************************************************************)
EXTENDS Checkout, TLC

CONSTANTS mug, print, prints, post, b1, b2

Free == [min |-> Absent, max |-> Absent]

Piece(price, weight, currency) ==
  [deleted |-> FALSE, draft |-> FALSE, recurring |-> FALSE, visibility |-> "on-sale",
   status |-> "active", type |-> "simple", parent |-> NoParent, format |-> "physical",
   currency |-> currency, decimals |-> IF currency = "SAT" THEN 0 ELSE 2,
   amount |-> price, weight |-> weight, size |-> [x \in Axes |-> 2]]

Post(base) ==
  [active |-> TRUE, deleted |-> FALSE, countries |-> {"DE"}, regions |-> {},
   currency |-> "EUR", decimals |-> 2, base |-> base, perWeight |-> 7, weightUnit |-> 10,
   perVolume |-> Absent, volumeUnit |-> 1,
   weight |-> [min |-> Absent, max |-> 9], size |-> [x \in Axes |-> [min |-> Absent, max |-> 4]]]

Shelf(price, rates, visibility) ==
  [rows |-> (mug :> Piece(price, 3, "EUR")) @@
            (print :> [Piece(5, 1, "SAT") EXCEPT
               !.type = "variation", !.parent = prints, !.format = "digital"]) @@
            (prints :> [Piece(0, 1, "SAT") EXCEPT
               !.type = "variable", !.visibility = visibility]),
   options |-> (post :> Post(4)),
   direct |-> [p \in {mug, print} |-> [s \in {post} |-> IF p = mug THEN {1} ELSE {}]],
   listed |-> [p \in {mug, print} |-> [s \in {post} |-> {2}]],
   rates |-> [c \in {"EUR"} |-> rates]]

Before == Shelf(11, <<700, -1, 800>>, "on-sale")
Dearer == Shelf(12, <<500>>, "on-sale")
Hidden == Shelf(11, <<700, -1, 800>>, "hidden")

MCShelves == {Before, Dearer, Hidden}

Both == <<[product |-> mug, qty |-> 2], [product |-> print, qty |-> 1]>>

\* The requests for both confirm the total of the first shelf or of the dearer
\* one, those for the print alone confirm nothing.
MCRequest ==
  (b1 :> [items |-> Both, address |-> [country |-> "DE", region |-> "DE-BE"],
          option |-> post, expected |-> {50, 74}]) @@
  (b2 :> [items |-> <<Both[2]>>, address |-> NoAddress, option |-> post, expected |-> {Absent}])

\* The confirmed totals are what the previews of the two shelves say.
ASSUME PreviewAssumption == {Preview(Before, b1), Preview(Dearer, b1)} = {50, 74}

\* fx.py against the least number of satoshis that is worth the charge, over
\* small charges, scales and rates: the rounding of the rate moves it by one at
\* most.
Worth(n, charge, quote) ==
  n * charge.per * 10^charge.decimals * quote.sum >= charge.amount * SatPerBtc * quote.count

ASSUME RoundingAssumption ==
  \A amount \in 0..12, per \in 1..3, decimals \in 0..1, sum \in {300, 600, 700}, count \in 1..2 :
    LET charge == Charge("EUR", decimals, amount, per)
        quote == [sum |-> sum, count |-> count]
        sats == Sats(charge, quote)
    IN  Worth(sats + 1, charge, quote) /\ (sats > 1 => ~ Worth(sats - 2, charge, quote))

\* It does: 3 units at 600 to the bitcoin are worth 500 satoshis and cost 501,
\* since a unit is rounded up to 166.67.
ASSUME RoundedRateAssumption ==
  LET charge == Charge("EUR", 0, 3, 1)
      quote == [sum |-> 600, count |-> 1]
  IN  Sats(charge, quote) = 501 /\ Worth(500, charge, quote)

\* Requests and orders are interchangeable.
Alike == Permutations(Attempts) \cup Permutations(Orders)

=============================================================================
