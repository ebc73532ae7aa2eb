------------------------------- MODULE Pricing -------------------------------
(***************************************************************************)
(* What a cart costs: which products and shipping options may be bought    *)
(* (the resolution of services/checkout.py), what the shipping adds, and   *)
(* how amounts of several currencies become satoshis (services/fx.py).     *)
(*                                                                         *)
(* A shelf is what the database and the rate providers say at one moment.  *)
(* Measures are in one unit per kind, the smallest.  Amounts are exact;    *)
(* rates and what is worth an amount are rounded as Decimal rounds them,   *)
(* to Digits places where the code has 28 significant digits.              *)
(***************************************************************************)
EXTENDS Integers, Sequences, FiniteSets, FiniteSetsExt, SequencesExt

CONSTANTS
  Products, Options,
  NoParent,     \* products.parent_product_id IS NULL
  NoCurrency,   \* a currency column IS NULL
  SatPerBtc, Digits, MaxItems, MaxQty,
  MaxSat        \* INT64_MAX

\* A numeric column IS NULL.
Absent == -1

Axes == {"l", "w", "h"}

-----------------------------------------------------------------------------
\* What may be bought

WellFormed(items) ==
  /\ Len(items) \in 1..MaxItems
  /\ \A n \in DOMAIN items : items[n].qty \in 1..MaxQty
  /\ \A m, n \in DOMAIN items : items[m].product = items[n].product => m = n

Purchasable(row) ==
  /\ ~ row.deleted /\ ~ row.draft /\ ~ row.recurring
  /\ row.visibility = "on-sale" /\ row.status = "active"
  /\ row.type \in {"simple", "variation"}

\* The parent of a variation is still variable and on sale.
ParentSells(shelf, row) ==
  row.type = "variation" =>
    /\ row.parent # NoParent
    /\ LET parent == shelf.rows[row.parent] IN
         parent.type = "variable" /\ parent.visibility = "on-sale" /\ ~ parent.deleted

\* Resolved lines: a product to the row that was read and the quantity.
Physical(lines) == {p \in DOMAIN lines : lines[p].row.format = "physical"}

\* The option delivers to the address.
Covers(option, address) ==
  /\ option.active /\ ~ option.deleted
  /\ address.country \in option.countries
  /\ option.regions = {} \/ address.region \in option.regions
  /\ option.currency # NoCurrency /\ option.base # Absent

Weighed(lines) == \A p \in Physical(lines) : lines[p].row.weight # Absent
Weight(lines) == MapThenSumSet(LAMBDA p : lines[p].row.weight * lines[p].qty, Physical(lines))

Within(value, bounds) ==
  /\ bounds.min = Absent \/ bounds.min <= value
  /\ bounds.max = Absent \/ value <= bounds.max

Bounded(bounds) == bounds.min # Absent \/ bounds.max # Absent

\* The weight of the cart and the sizes of each piece are within the option's.
Fits(option, lines) ==
  /\ Bounded(option.weight) => Weighed(lines) /\ Within(Weight(lines), option.weight)
  /\ \A p \in Physical(lines), x \in Axes : Bounded(option.size[x]) =>
       lines[p].row.size[x] # Absent /\ Within(lines[p].row.size[x], option.size[x])

-----------------------------------------------------------------------------
\* What it costs

\* One charge: amount / per in units of 10^-decimals of the currency.
Charge(currency, decimals, amount, per) ==
  [currency |-> currency, decimals |-> decimals, amount |-> amount, per |-> per]

LineCharge(line) ==
  Charge(IF line.row.currency = NoCurrency THEN "SAT" ELSE line.row.currency,
         line.row.decimals, line.row.amount * line.qty, 1)

Volume(lines) ==
  MapThenSumSet(LAMBDA p : lines[p].row.size["l"] * lines[p].row.size["w"]
                             * lines[p].row.size["h"] * lines[p].qty,
                Physical(lines))

\* The surcharges of a product for an option: its own, or else those of the
\* collections it ships with that offer the option.
Extras(shelf, p, s) ==
  IF shelf.direct[p][s] # {} THEN shelf.direct[p][s] ELSE shelf.listed[p][s]

\* Every charge can be told.
Chargeable(shelf, lines, s, option) ==
  /\ option.perWeight # Absent => Weighed(lines)
  /\ option.perVolume # Absent =>
       \A p \in Physical(lines), x \in Axes : lines[p].row.size[x] # Absent
  /\ \A p \in Physical(lines) : Cardinality(Extras(shelf, p, s)) = 1

ShippingCharges(shelf, lines, s, option) ==
  [k \in {"base"} \cup (IF option.perWeight = Absent THEN {} ELSE {"weight"})
           \cup (IF option.perVolume = Absent THEN {} ELSE {"volume"}) \cup Physical(lines) |->
     CASE k = "base" -> Charge(option.currency, option.decimals, option.base, 1)
       [] k = "weight" -> Charge(option.currency, option.decimals,
                                 Weight(lines) * option.perWeight, option.weightUnit)
       [] k = "volume" -> Charge(option.currency, option.decimals,
                                 Volume(lines) * option.perVolume, option.volumeUnit)
       [] OTHER -> Charge(lines[k].row.currency, lines[k].row.decimals,
                          (CHOOSE x \in Extras(shelf, k, s) : TRUE) * lines[k].qty, 1)]

\* Providers' answers that are finite and positive.
Usable(answers) == SelectSeq(answers, LAMBDA v : v > 0)

Quotable(shelf, currency) ==
  \/ currency = "SAT"
  \/ currency \in DOMAIN shelf.rates /\ Usable(shelf.rates[currency]) # <<>>

\* currency_per_btc is the mean sum / count of the usable answers.
Quote(shelf, currency) ==
  IF currency = "SAT" THEN [sum |-> SatPerBtc, count |-> 1]
  ELSE LET usable == Usable(shelf.rates[currency]) IN
         [sum |-> FoldLeft(+, 0, usable), count |-> Len(usable)]

CeilDiv(n, d) == (n + d - 1) \div d

\* The nearest integer to n / d, ROUND_HALF_EVEN.
RoundDiv(n, d) ==
  LET floor == n \div d
      twice == 2 * (n % d) IN
  IF twice < d \/ (twice = d /\ floor % 2 = 0) THEN floor ELSE floor + 1

\* sat_per_major_unit in units of 10^-Digits: the mean is rounded, and so is
\* what a major unit is worth at that mean.
SatPerMajor(quote) ==
  RoundDiv(SatPerBtc * 10^(2 * Digits), RoundDiv(quote.sum * 10^Digits, quote.count))

\* Each charge is rounded up by itself, from a product that is rounded already.
Sats(charge, quote) ==
  CeilDiv(RoundDiv(charge.amount * SatPerMajor(quote), charge.per * 10^charge.decimals),
          10^Digits)

\* The quotes of every currency are there, fresh or not at all.
AllQuotable(shelf, charges) == \A k \in DOMAIN charges : Quotable(shelf, charges[k].currency)

SumSats(shelf, charges) ==
  MapThenSumSet(LAMBDA k : Sats(charges[k], Quote(shelf, charges[k].currency)), DOMAIN charges)

LineCharges(lines) == [p \in DOMAIN lines |-> LineCharge(lines[p])]

\* No option: nothing is shipped.
Nothing == [k \in {} |-> k]

\* checked_total_sat
ValidTotal(total) == total \in 1..MaxSat

=============================================================================
