-------------------------------- MODULE Amounts --------------------------------
(***************************************************************************)
(* The amounts of an invoice: the lines built from the ERPNext invoice      *)
(* (edef/mapper.py), the totals the e-MCF computes (edef/calc.py) and the   *)
(* ones the MCF computes (fiscal/mcf_payload.py), the payments declared     *)
(* (edef/payments.py) and the VAT rounded up on the invoice itself          *)
(* (edef/rounding.py).  Amounts are in hundredths of CDF, rates in percent, *)
(* quantities whole.                                                       *)
(***************************************************************************)
EXTENDS Integers, Sequences, SequencesExt, FiniteSets, FiniteSetsExt

Abs(n) == IF n < 0 THEN -n ELSE n
Floor(n, d)   == n \div d
Ceil(n, d)    == (n + d - 1) \div d
HalfUp(n, d)  == (2 * n + d) \div (2 * d)
\* round() of a float: which way an exact half goes depends on its binary form.
Nearest(n, d, half) == IF 2 * (n % d) = d THEN n \div d + half ELSE HalfUp(n, d)

\* The sum of the w[x], x in S.
SumOf(w, S) == MapThenSumSet(LAMBDA x : w[x], S)

----
(* Lines and totals.                                                       *)

\* split_specific_tax: an amount per unit, or a percentage included in the net.
SpecificTax(l) ==
  CASE l.tax = "none"    -> 0
    [] l.tax = "unit"    -> l.number * l.qty
    [] l.tax = "percent" -> l.net - HalfUp(100 * l.net, 100 + l.number)

VatOnly(g) == g = "N"
Factor(l)  == IF VatOnly(l.group) THEN 100 ELSE 100 + l.rate     \* of the price with VAT

\* build_lines: the unit price, with VAT as entered when it agrees with the net amount
\* to a hundredth per unit, else from the net amount without the specific tax.
Price(l, mode) ==
  LET ts == SpecificTax(l)
      asEntered == /\ mode = "ttc" /\ ~l.discount /\ ts = 0 /\ Factor(l) # 100
                   /\ Abs(100 * l.entered * l.qty - l.net * Factor(l)) <= 100 * (l.qty + 2)
  IN  IF asEntered THEN l.entered
      ELSE HalfUp((l.net - ts) * (IF mode = "ttc" THEN Factor(l) ELSE 100), 100 * l.qty)

Item(l, mode) ==
  [price |-> Price(l, mode), qty |-> l.qty, group |-> l.group, rate |-> l.rate, ts |-> SpecificTax(l)]
Items(lines, mode) == [k \in DOMAIN lines |-> Item(lines[k], mode)]

GroupsOf(items) == {items[k].group : k \in DOMAIN items}
RateOf(items, g) == items[CHOOSE k \in DOMAIN items : items[k].group = g].rate
Of(items, g)     == {k \in DOMAIN items : items[k].group = g}
AmountIn(items, g) == SumOf([k \in Of(items, g) |-> items[k].price * items[k].qty], Of(items, g))
SpecificIn(items, g) == SumOf([k \in Of(items, g) |-> items[k].ts], Of(items, g))

TaxRoundedDown(base, r, mode, g) ==
  IF VatOnly(g) THEN [total |-> base, ht |-> 0, vat |-> base]
  ELSE LET vat == Floor(base * r, IF mode = "ttc" THEN 100 + r ELSE 100)
       IN  IF mode = "ttc" THEN [total |-> base, ht |-> base - vat, vat |-> vat]
           ELSE [total |-> base + vat, ht |-> base, vat |-> vat]

\* group_amounts: the tax is rounded up, so that taxable and tax add up to the total.
GroupAmounts(base, r, mode, g) ==
  IF VatOnly(g) THEN [total |-> base, ht |-> 0, vat |-> base]
  ELSE LET vat == Ceil(base * r, IF mode = "ttc" THEN 100 + r ELSE 100)
       IN  IF mode = "ttc" THEN [total |-> base, ht |-> base - vat, vat |-> vat]
           ELSE [total |-> base + vat, ht |-> base, vat |-> vat]

\* calc.compute_totals: the specific tax is part of the VAT base.
Group(items, mode, g) ==
  LET r == RateOf(items, g)  ts == SpecificIn(items, g)
  IN  GroupAmounts(AmountIn(items, g) + (IF mode = "ttc" THEN HalfUp(ts * (100 + r), 100) ELSE ts), r, mode, g)
FiscalTotal(items, mode) == SumOf([g \in GroupsOf(items) |-> Group(items, mode, g).total], GroupsOf(items))
FiscalVat(items, mode)   == SumOf([g \in GroupsOf(items) |-> Group(items, mode, g).vat], GroupsOf(items))

\* mcf_payload.compute_totals: VAT to the nearest, the specific tax added at the end.
McfVat(items, mode, g, half) ==
  LET r == RateOf(items, g)
  IN  Nearest(AmountIn(items, g) * r, IF mode = "ttc" THEN 100 + r ELSE 100, half)
McfMT(items, mode, half) == SumOf([g \in GroupsOf(items) |-> McfVat(items, mode, g, half)], GroupsOf(items))
McfGross(items, mode, g, half) ==
  AmountIn(items, g) + (IF mode = "ttc" THEN 0 ELSE McfVat(items, mode, g, half)) + SpecificIn(items, g)
McfMV(items, mode, half) == SumOf([g \in GroupsOf(items) |-> McfGross(items, mode, g, half)], GroupsOf(items))

----
(* Payments.                                                               *)

Amount(lines) == SumOf([k \in DOMAIN lines |-> lines[k].amount], DOMAIN lines)
NoneBefore(lines, k) == \A j \in 1..(k - 1) : lines[j].type # lines[k].type \/ lines[j].mode # lines[k].mode

\* The numbers of a finite set, in order; the lines at these places.  (SetToSortSeq and SelectSeq
\* would do; the prover has no definition of the operators behind them.)
InOrder(S) == [n \in 1..Cardinality(S) |-> CHOOSE k \in S : Cardinality({j \in S : j <= k}) = n]
LinesAt(lines, S) == LET order == InOrder(S) IN [n \in DOMAIN order |-> lines[order[n]]]

NonZero(lines)       == LinesAt(lines, {k \in DOMAIN lines : lines[k].amount # 0})
PositiveLines(lines) == LinesAt(lines, {k \in DOMAIN lines : lines[k].amount > 0})

\* _merge: one line per type and mode of payment, none without an amount.
Merge(lines) ==
  LET first == InOrder({k \in DOMAIN lines : NoneBefore(lines, k)})
      Same(k) == {j \in DOMAIN lines : lines[j].type = lines[k].type /\ lines[j].mode = lines[k].mode}
      all == [n \in DOMAIN first |->
                [lines[first[n]] EXCEPT !.amount = SumOf([j \in Same(first[n]) |-> lines[j].amount], Same(first[n]))]]
  IN  NonZero(all)

FirstOf(lines, type) == Min({k \in DOMAIN lines : lines[k].type = type})
HasType(lines, type) == \E k \in DOMAIN lines : lines[k].type = type

\* The line the change comes out of: cash first, else the last line.
ChangeFrom(lines) == IF HasType(lines, "ESPECES") THEN FirstOf(lines, "ESPECES") ELSE Len(lines)

KeepsChange(lines, total) ==
  LET diff == total - Amount(lines)
  IN  IF diff <= 0 THEN lines
      ELSE Append(lines, [type |-> "CREDIT", mode |-> "", amount |-> diff])

\* _adjust_to_total: the remainder is a credit, the change is deducted.
AdjustToTotal(lines, total) ==
  LET diff == total - Amount(lines)
  IN  IF diff = 0 THEN lines
      ELSE IF diff > 0 THEN Append(lines, [type |-> "CREDIT", mode |-> "", amount |-> diff])
      ELSE PositiveLines([lines EXCEPT ![ChangeFrom(lines)].amount = @ + diff])

\* resolve_payment_lines: POS rows, else the mode selected, else the payment schedule,
\* else the default type.
ResolvePaymentLines(doc) ==
  LET pos == NonZero(doc.payments)
  IN  IF pos # <<>> THEN Merge(AdjustToTotal(Merge(pos), doc.total))
      ELSE IF doc.selected # "" THEN <<[type |-> doc.selected, mode |-> "selected", amount |-> doc.total]>>
      ELSE IF doc.schedule # <<>> THEN Merge(AdjustToTotal(Merge(doc.schedule), doc.total))
      ELSE <<[type |-> "ESPECES", mode |-> "", amount |-> doc.total]>>

MaxGap == 100
Largest(rows) == Min({k \in DOMAIN rows : \A j \in DOMAIN rows : rows[j].amount <= rows[k].amount})

\* The line that takes up a rounding gap: the credit, else the largest.
GapTo(rows) == IF HasType(rows, "CREDIT") THEN FirstOf(rows, "CREDIT") ELSE Largest(rows)

\* align_to_fiscal_total
Align(rows, total) ==
  LET gap == total - Amount(rows)
  IN  IF rows = <<>> \/ gap = 0 \/ Abs(gap) > MaxGap THEN rows
      ELSE [rows EXCEPT ![GapTo(rows)].amount = @ + gap]

----
(* VAT rounded up on the invoice: apply_vat_ceiling, to the unit "step".    *)
(* It is the magnitude that is rounded up: the tax of a return is negative. *)

RowsTotal(rows) == SumOf([k \in DOMAIN rows |-> rows[k].amount], DOMAIN rows)
AwayFromZero(n, step) == IF n < 0 THEN -(step * Ceil(-n, step)) ELSE step * Ceil(n, step)
Ceiled(row, step) == IF row.vat THEN AwayFromZero(row.amount, step) ELSE row.amount
CeilVat(inv, step) ==
  LET up == [k \in DOMAIN inv.rows |-> Ceiled(inv.rows[k], step) - inv.rows[k].amount]
      delta == SumOf(up, DOMAIN up)
  IN  [rows |-> [k \in DOMAIN inv.rows |->
                   [inv.rows[k] EXCEPT !.amount = @ + up[k], !.running = @ + up[k]]],
       taxes |-> inv.taxes + delta, grand |-> inv.grand + delta]
----
Rates == [A |-> 0, B |-> 16, C |-> 8, N |-> 16]
Line(net, qty, more, group, tax, discount) ==
  [net |-> net, qty |-> qty, entered |-> HalfUp(net * (100 + Rates[group]), 100 * qty) + more,
   group |-> group, rate |-> Rates[group], tax |-> tax, number |-> 10, discount |-> discount]
SingleLines ==
  {Line(net, qty, more, g, t, d) : net \in {99, 1005, 12345}, qty \in {1, 3, 7}, more \in {0, 5},
                                   g \in {"A", "B", "C", "N"}, t \in {"none", "unit", "percent"}, d \in BOOLEAN}
PlainLine(net, qty, g, t) == Line(net, qty, 0, g, t, FALSE)
FewLines ==
  {PlainLine(net, qty, g, t) : net \in {99, 1005}, qty \in {1, 7}, g \in {"A", "B", "C"}, t \in {"none", "unit"}}
LineProbes ==
  [kind : {"lines"}, mode : {"ttc", "ht"}, lines : {<<l>> : l \in SingleLines} \cup (FewLines \X FewLines)]

CeilProbes ==
  {[kind |-> "ceil", step |-> step,
    inv |-> [rows |-> <<[vat |-> v, amount |-> a, running |-> 1000 + a], [vat |-> w, amount |-> b, running |-> 1000 + a + b]>>,
             taxes |-> a + b, grand |-> 1000 + a + b]] :
     step \in {1, 100}, v \in BOOLEAN, w \in BOOLEAN, a \in {-200, -160, 0, 160, 200},
     b \in {-300, -99, -1, 1, 99, 300}}

PaymentLines == [type : {"ESPECES", "CARTEBANCAIRE"}, mode : {"m1", "m2"}, amount : {0, 300, 700, 995, 1500}]
PaymentProbes ==
  [kind : {"payments"}, gap : {-101, -100, -1, 0, 1, 100, 101},
   doc : [total : {1000}, payments : BoundedSeq(PaymentLines, 2), selected : {""}, schedule : {<<>>}]
         \cup [total : {1000}, payments : {<<>>}, selected : {"", "VIREMENT"}, schedule : BoundedSeq(PaymentLines, 2)]]

NoGroupN(items) == ~\E k \in DOMAIN items : VatOnly(items[k].group)
NoSpecific(items) == \A k \in DOMAIN items : items[k].ts = 0

\* Taxable and tax add up to the total of each group; the payments, aligned on the
\* e-MCF total, always cover the total of the MCF; without specific tax the two
\* channels agree to a hundredth per group, and exactly when prices include VAT.
ChannelsAgree(lines, mode) ==
  LET items == Items(lines, mode)
      n == Cardinality(GroupsOf(items))
  IN  (\A k \in DOMAIN items : items[k].price > 0) =>
      /\ \A g \in GroupsOf(items) :
           LET a == Group(items, mode, g) IN a.ht + a.vat = a.total /\ a.ht >= 0 /\ a.vat >= 0
      /\ NoGroupN(items) => \A half \in {0, 1} :
           LET more == FiscalTotal(items, mode) - McfMV(items, mode, half)
               vat  == FiscalVat(items, mode) - McfMT(items, mode, half)
           IN  /\ more >= 0 /\ vat >= 0
               /\ NoSpecific(items) => vat <= n /\ more = (IF mode = "ttc" THEN 0 ELSE vat)

\* Rounding the VAT up moves the tax and the receivable by the same amount, and no tax
\* towards zero: neither the one charged by a sale nor the one given back by a return.
StaysBalanced(inv, step) ==
  LET up == CeilVat(inv, step)
  IN  /\ up.grand - up.taxes = inv.grand - inv.taxes
      /\ up.taxes = RowsTotal(up.rows)
      /\ \A k \in DOMAIN up.rows :
           /\ up.rows[k].vat => up.rows[k].amount % step = 0
           /\ IF inv.rows[k].amount < 0 THEN up.rows[k].amount <= inv.rows[k].amount
                                        ELSE up.rows[k].amount >= inv.rows[k].amount

AmountsAgree(p) ==
  /\ p.kind = "lines" => ChannelsAgree(p.lines, p.mode)
  /\ p.kind = "ceil" => StaysBalanced(p.inv, p.step)

\* Change larger than the line it comes out of: that line is dropped, not the rest.
ChangeExceedsLine(lines, total) ==
  lines # <<>> /\ Amount(lines) - total > lines[ChangeFrom(lines)].amount
TooMuchChange(doc) ==
  LET pos == Merge(NonZero(doc.payments))
  IN  IF pos # <<>> THEN ChangeExceedsLine(pos, doc.total)
      ELSE doc.selected = "" /\ ChangeExceedsLine(Merge(doc.schedule), doc.total)

\* A rounding gap larger than the line that takes it up.
GapExceedsLine(rows, total) ==
  rows # <<>> /\ Amount(rows) - total > rows[GapTo(rows)].amount

\* The payments sum to the fiscal total, whatever the source of the lines, unless the
\* gap is more than a rounding one or the change exceeds the line it is taken from; none
\* is negative, unless the gap exceeds the line that takes it up.
PaymentsSum(doc, gap) ==
  LET fiscal == doc.total + gap
      lines == ResolvePaymentLines(doc)
      rows == Align(lines, fiscal)
  IN  /\ Abs(gap) <= MaxGap /\ ~TooMuchChange(doc) => Amount(rows) = fiscal
      /\ ~GapExceedsLine(lines, fiscal) => \A k \in DOMAIN rows : rows[k].amount >= 0
================================================================================
