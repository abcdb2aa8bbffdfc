------------------------------ MODULE Pricing ------------------------------
(***************************************************************************)
(* How a quote or an invoice adds up: the calculator (tax/calculate.ts,    *)
(* money/money.ts), the lines of a draft and what they take from the       *)
(* catalogue (documents.ts, services.ts, tax-rates.ts), taking an earlier  *)
(* invoice off (deductions.ts, document-totals.ts) and the split of a quote*)
(* (quote-split.ts).                                                       *)
(*                                                                         *)
(* A change to a draft locks the document, writes the line and prices the  *)
(* whole document, all in one transaction: one action.  A change of a tax  *)
(* rate looks for documents that use it and then writes, without a lock.   *)
(*                                                                         *)
(* Data: one document at a time, and the one issued before it.  Decimals   *)
(* are whole numbers of their last place: a quantity of 1 is Scale, a      *)
(* percentage of 100 is Hundred.  One currency; nothing overflows.         *)
(***************************************************************************)
EXTENDS Integers, FiniteSets, Sequences, SequencesExt, Functions

CONSTANTS
    Taxes,          \* tax rates
    Rates,          \* percentages
    Units,          \* unit amounts
    Quantities,
    LineDiscounts,  \* percentages off a line
    AmountsOff,     \* amounts off a document
    Scale,          \* a quantity of one
    Hundred,        \* 100 %
    MaxLines,       \* bound on the lines of a document
    MaxChanges,     \* bound on documents issued and changes of the catalogue
    None

VARIABLES
    rate,           \* tax_rates.rate, by tax
    service,        \* a service of the catalogue
    doc,            \* the draft
    prior,          \* the invoice issued before it
    update,         \* the tax rate that is being changed
    changes

vars == <<rate, service, doc, prior, update, changes>>

Change == changes < MaxChanges /\ changes' = changes + 1

NoDiscount == [kind |-> "none", value |-> 0]

-----------------------------------------------------------------------------
\* money.ts
SumTo(n, f(_)) == LET sum[i \in 0..n] == IF i = 0 THEN 0 ELSE sum[i - 1] + f(i) IN sum[n]
Total(s) == SumTo(Len(s), LAMBDA i : s[i])
\* A sequence that is evaluated here, and not at every use.
Each(s, f(_)) == [i \in DOMAIN s |-> f(i)] \o <<>>
Sum(S, f(_)) == SumTo(MaxLines, LAMBDA i : IF i \in S THEN f(i) ELSE 0)
Abs(n) == IF n < 0 THEN -n ELSE n
Larger(a, b) == IF a > b THEN a ELSE b

\* Rounded half away from zero, for d > 0.
RoundDiv(n, d) == IF n < 0 THEN -((d - 2 * n) \div (2 * d)) ELSE (2 * n + d) \div (2 * d)

\* mutation: every part is rounded by itself
ApportionEach(total, num, d) == Each(num, LAMBDA i : RoundDiv(num[i], d))

\* By largest remainder, earlier parts first on a tie.
Apportion(total, num, d) ==
    LET rest(i) == num[i] % d
        spare == total - Sum(DOMAIN num, LAMBDA i : num[i] \div d)
        ahead(i) == {j \in DOMAIN num : rest(j) > rest(i) \/ (rest(j) = rest(i) /\ j < i)}
    IN Each(num, LAMBDA i : (num[i] \div d) + (IF Cardinality(ahead(i)) < spare THEN 1 ELSE 0))

\* For a total that is not negative; equal weights when they are all zero.
Allocate(total, weights) ==
    LET even == Total(weights) = 0
        w == Each(weights, LAMBDA i : total * (IF even THEN 1 ELSE weights[i]))
    IN Apportion(total, w, IF even THEN Len(weights) ELSE Total(weights))

-----------------------------------------------------------------------------
\* calculate.ts
Refused(code) == [error |-> code]
Priced(result) == "error" \notin DOMAIN result

Members(lines, t) == {i \in DOMAIN lines : lines[i].tax = t}
Used(lines)       == {t \in Taxes : Members(lines, t) # {}}
\* Exclusive: taxable x rate.  Inclusive: taxable x rate / (100 % + rate).
Divisor(mode, r)  == IF mode = "inclusive" THEN Hundred + r ELSE Hundred
RateOf(lines, t)  == lines[CHOOSE i \in Members(lines, t) : TRUE].rate

DiscountOf(discount, subtotal) ==
    IF discount.kind = "percent" THEN RoundDiv(subtotal * discount.value, Hundred) ELSE discount.value

Net(line) ==
    LET amount == RoundDiv(line.unit * line.quantity, Scale) IN amount - RoundDiv(amount * line.off, Hundred)

Shares(net, off) ==
    IF off = 0 THEN Each(net, LAMBDA i : 0) ELSE Allocate(off, Each(net, LAMBDA i : Larger(net[i], 0)))

\* What the lines M are taxed, num each over d.
TaxOn(M, taxable, num, d) ==
    LET tax == RoundDiv(Total(num), d) IN
    [amount |-> Sum(M, LAMBDA i : taxable[i]), tax |-> tax, parts |-> Apportion(tax, num, d)]

TaxesOn(mode, lines, taxable) ==
    [t \in Used(lines) |->
        LET r == RateOf(lines, t)  M == Members(lines, t) IN
        TaxOn(M, taxable, Each(lines, LAMBDA i : IF i \in M THEN taxable[i] * r ELSE 0), Divisor(mode, r))] @@ <<>>

Totals(mode, lines, subtotal, off, net, share) ==
    LET taxable    == Each(lines, LAMBDA i : net[i] - share[i])
        taxes      == TaxesOn(mode, lines, taxable)
        lineTax(i) == IF lines[i].tax = None THEN 0 ELSE taxes[lines[i].tax].parts[i]
        tax        == MapThenSumSet(LAMBDA t : taxes[t].tax, DOMAIN taxes)
        added(n)   == IF mode = "inclusive" THEN 0 ELSE n
    IN [subtotal |-> subtotal, discount |-> off, tax |-> tax, total |-> subtotal - off + added(tax),
        taxes |-> [t \in DOMAIN taxes |-> [amount |-> taxes[t].amount, tax |-> taxes[t].tax]],
        lines |-> [i \in DOMAIN lines |-> [net |-> net[i], share |-> share[i], taxable |-> taxable[i], tax |-> lineTax(i),
                                           total |-> taxable[i] + added(lineTax(i))]]]

Discounted(mode, lines, subtotal, off, net) ==
    CASE off # 0 /\ subtotal <= 0 -> Refused("discount_without_subtotal")
      [] off > subtotal /\ off # 0 -> Refused("discount_exceeds_subtotal")
      [] \E i, j \in DOMAIN lines : lines[i].tax = lines[j].tax /\ lines[i].rate # lines[j].rate ->
            Refused("tax_rate_conflict")
      [] OTHER -> Totals(mode, lines, subtotal, off, net, Shares(net, off))

\* Line by line, then the discount shared out, then the taxes.
CalculateNets(mode, discount, lines, net) ==
    LET subtotal == Total(net) IN Discounted(mode, lines, subtotal, DiscountOf(discount, subtotal), net)

Calculate(mode, discount, lines) == CalculateNets(mode, discount, lines, Each(lines, LAMBDA i : Net(lines[i])))

-----------------------------------------------------------------------------
\* documents.ts, deductions.ts, document-totals.ts, quote-split.ts
\* quote_lines and invoice_lines: with a tax, a line keeps what the tax was.
LineRows ==
    {l \in [deduction : BOOLEAN, unit : Int, quantity : Int, off : Int, tax : Taxes \cup {None},
            rate : Rates \cup {None}, recurs : BOOLEAN] : (l.tax = None) <=> (l.rate = None)}

Item(unit, quantity, off, t, recurs) ==
    [deduction |-> FALSE, unit |-> unit, quantity |-> quantity, off |-> off, tax |-> t,
     rate |-> IF t = None THEN None ELSE rate[t], recurs |-> recurs]

Deductions(d) == {i \in DOMAIN d.lines : d.lines[i].deduction}
Items(d)      == [d EXCEPT !.lines = SelectSeq(d.lines, LAMBDA l : ~l.deduction)]
PriceDocument(d) == Calculate(d.mode, d.discount, d.lines)

\* One tax after another, from what the lines say of themselves.
TaxesFromLines(lines, priced) ==
    [t \in Used(lines) |-> [amount |-> Sum(Members(lines, t), LAMBDA i : priced[i].taxable),
                            tax    |-> Sum(Members(lines, t), LAMBDA i : priced[i].tax)]]

\* mutation: what its lines came to before the discount of the document
ChargedUndiscounted(p, t) == Sum(Members(p.lines, t), LAMBDA i : p.priced.lines[i].net)

Charged(p, t) == Sum(Members(p.lines, t), LAMBDA i : p.priced.lines[i].taxable)

\* One line per tax of the invoice that is taken off, for what it charged under it.
DeductionLines(p) ==
    LET taken == {t \in Taxes \cup {None} : Members(p.lines, t) # {} /\ Charged(p, t) # 0}
        line(t) == [deduction |-> TRUE, unit |-> -Charged(p, t), quantity |-> Scale, off |-> 0, tax |-> t,
                    rate |-> IF t = None THEN None ELSE RateOf(p.lines, t), recurs |-> FALSE]
    IN IF \E t \in taken : Charged(p, t) < 0 THEN <<>>
       ELSE LET order == SetToSeq(taken) IN [k \in DOMAIN order |-> line(order[k])]

\* presentTotals
PresentTotals(lines, priced) ==
    LET D == {i \in DOMAIN lines : lines[i].deduction} IN
    [items    |-> Sum(DOMAIN lines \ D, LAMBDA i : priced[i].total),
     deducted |-> -Sum(D, LAMBDA i : priced[i].total)]

\* quoteSplit
QuoteSplit(lines, priced) ==
    LET R == {i \in DOMAIN lines : lines[i].recurs}
        kept(i) == priced[i].net - priced[i].share
    IN [oneTime |-> Sum(DOMAIN lines \ R, kept), perPeriod |-> Sum(R, kept)]

\* quote-acceptance.ts: what a period of the schedule comes to that acceptance sets up.
SchedulePeriod(d) == Calculate(d.mode, NoDiscount, SelectSeq(d.lines, LAMBDA l : l.recurs)).subtotal

\* What is printed under the lines, its rows coming to the bar: a statement, or
\* the subtotal with what is taken off and added, when there is any.
Printed(d, paid) ==
    LET p == d.priced
        totals == PresentTotals(d.lines, p.lines)
        added == IF d.mode = "exclusive" THEN p.tax ELSE 0
        subtotal == p.discount # 0 \/ (d.mode = "exclusive" /\ DOMAIN p.taxes # {})
    IN [rows |-> CASE Deductions(d) # {} -> <<totals.items, -totals.deducted, -paid>>
                   [] Deductions(d) = {} /\ subtotal -> <<p.subtotal, -p.discount, added, -paid>>
                   [] OTHER -> <<p.total, -paid>>,
        bar |-> p.total - paid]

\* The page of the client's link: every line, and the totals of the document.
PublicInvoicePage(d, paid) ==
    LET p == d.priced IN
    [rows |-> <<p.subtotal, -p.discount, IF d.mode = "exclusive" THEN p.tax ELSE 0, -paid>>, bar |-> p.total - paid]

-----------------------------------------------------------------------------
\* A draft with what its last change priced it at; and, until it is changed, what
\* was agreed in the quote it was raised from.
NewDoc(kind, mode) == [kind |-> kind, mode |-> mode, discount |-> NoDiscount, lines |-> <<>>,
                        priced |-> Calculate(mode, NoDiscount, <<>>), agreed |-> None]

NoService == [price |-> None, tax |-> None, recurs |-> FALSE, archived |-> FALSE]

Init ==
    /\ rate \in [Taxes -> {r \in Rates : \A s \in Rates : r <= s}]
    /\ service \in {NoService} \cup [price : {u \in Units : u > 0}, tax : {None}, recurs : {TRUE}, archived : {FALSE}]
    /\ \E kind \in {"quote", "invoice"}, mode \in {"exclusive", "inclusive"} : doc = NewDoc(kind, mode)
    /\ prior = None /\ update = None /\ changes = 0

\* The document is priced as it will be, or the change is refused.
Recalculate(d) ==
    /\ d.discount # NoDiscount => Deductions(d) = {}
    /\ LET priced == PriceDocument(d) IN
       /\ Priced(priced)
       /\ doc' = [d EXCEPT !.priced = priced, !.agreed = None]

LineAdd(line) ==
    /\ Len(doc.lines) < MaxLines
    /\ Recalculate([doc EXCEPT !.lines = Append(@, line)])
    /\ UNCHANGED <<rate, service, prior, update, changes>>

\* A line of its own, or from the service of the catalogue.
LineAddManual ==
    \E u \in Units, q \in Quantities, t \in Taxes \cup {None}, off \in LineDiscounts :
       /\ q # Scale => off = 0
       /\ LineAdd(Item(u, q, off, t, FALSE))

LineAddService ==
    /\ service.price # None /\ ~service.archived
    /\ LineAdd(Item(service.price, Scale, 0, service.tax, service.recurs /\ doc.kind = "quote"))

\* The tax's snapshot is renewed only when the tax is another.
LineChanged(line, q, t) ==
    [line EXCEPT !.quantity = q, !.tax = t,
                 !.rate = CASE t = line.tax -> @ [] t = None -> None [] OTHER -> rate[t]]

LineUpdate(i, q, t) ==
    LET line == doc.lines[i] IN
    /\ ~line.deduction /\ <<q, t>> # <<line.quantity, line.tax>>
    /\ Recalculate([doc EXCEPT !.lines[i] = LineChanged(line, q, t)])
    /\ UNCHANGED <<rate, service, prior, update, changes>>

QuoteLineRemove(i) ==
    /\ doc.kind = "quote"
    /\ Recalculate([doc EXCEPT !.lines = RemoveAt(@, i)])
    /\ UNCHANGED <<rate, service, prior, update, changes>>

\* The lines that take an invoice off go together.
InvoiceLineRemove(i) ==
    /\ doc.kind = "invoice"
    /\ Recalculate([doc EXCEPT !.lines = IF @[i].deduction THEN SelectSeq(@, LAMBDA l : ~l.deduction)
                                         ELSE RemoveAt(@, i)])
    /\ UNCHANGED <<rate, service, prior, update, changes>>

HeaderUpdate(mode, discount) ==
    /\ <<mode, discount>> # <<doc.mode, doc.discount>>
    /\ Deductions(doc) # {} => mode = doc.mode
    /\ Recalculate([doc EXCEPT !.mode = mode, !.discount = discount])
    /\ UNCHANGED <<rate, service, prior, update, changes>>

LineAddDeduction ==
    /\ prior # None /\ doc.kind = "invoice" /\ Deductions(doc) = {} /\ prior.mode = doc.mode
    /\ LET more == DeductionLines(prior) IN
       /\ more # <<>> /\ Len(doc.lines) + Len(more) <= MaxLines
       /\ Recalculate([doc EXCEPT !.lines = @ \o more])
    /\ UNCHANGED <<rate, service, prior, update, changes>>

\* The draft is issued or sent: it stays as it is, and another is begun.
Issue(kind) ==
    /\ doc.lines # <<>> /\ update = None /\ Change
    /\ prior' = IF doc.kind = "invoice" THEN doc ELSE prior
    /\ doc' = NewDoc(kind, doc.mode)
    /\ UNCHANGED <<rate, service, update>>

\* mutation: the lines that recur are invoiced as well
InvoiceWholeQuote ==
    /\ doc.kind = "quote" /\ update = None /\ Change
    /\ LET d == [doc EXCEPT !.kind = "invoice"] IN
       /\ d.lines # <<>> /\ Priced(PriceDocument(d))
       /\ doc' = [d EXCEPT !.priced = PriceDocument(d), !.agreed = QuoteSplit(doc.lines, doc.priced.lines).oneTime]
    /\ UNCHANGED <<rate, service, prior, update>>

\* An accepted quote is invoiced: its one-time lines and its discount, as they are.
InvoiceFromQuote ==
    /\ doc.kind = "quote" /\ update = None /\ Change
    /\ LET oneTime == SelectSeq(doc.lines, LAMBDA l : ~l.recurs)
           d == [doc EXCEPT !.kind = "invoice", !.lines = oneTime]
           priced == PriceDocument(d)
       IN
       /\ oneTime # <<>> /\ Priced(priced)
       /\ doc' = [d EXCEPT !.priced = priced, !.agreed = QuoteSplit(doc.lines, doc.priced.lines).oneTime]
    /\ UNCHANGED <<rate, service, prior, update>>

\* inUse: it looks at the lines of quotes, and not of invoices.
InUse(t) == doc.kind = "quote" /\ \E i \in DOMAIN doc.lines : doc.lines[i].tax = t

TaxRateCheck(t, r) ==
    /\ update = None /\ r # rate[t] /\ ~InUse(t) /\ Change
    /\ update' = [tax |-> t, to |-> r]
    /\ UNCHANGED <<rate, service, doc, prior>>

TaxRateUpdate ==
    /\ update # None
    /\ rate' = [rate EXCEPT ![update.tax] = update.to]
    /\ update' = None
    /\ UNCHANGED <<service, doc, prior, changes>>

\* The catalogue; documents keep what they were given.
ServiceSave(price, t, recurs) ==
    /\ service' = [service EXCEPT !.price = price, !.tax = t, !.recurs = recurs] /\ service' # service /\ Change
    /\ UNCHANGED <<rate, doc, prior, update>>

ServiceArchive ==
    /\ service.price # None
    /\ service' = [service EXCEPT !.archived = ~@]
    /\ UNCHANGED <<rate, doc, prior, update, changes>>

Discounts == {NoDiscount} \cup [kind : {"percent"}, value : Rates] \cup [kind : {"amount"}, value : AmountsOff]

Draft ==
    \/ LineAddManual \/ LineAddService \/ LineAddDeduction
    \/ \E i \in DOMAIN doc.lines : QuoteLineRemove(i) \/ InvoiceLineRemove(i)
    \/ \E i \in DOMAIN doc.lines, q \in Quantities, t \in Taxes \cup {None} : LineUpdate(i, q, t)
    \/ \E mode \in {"exclusive", "inclusive"}, discount \in Discounts : HeaderUpdate(mode, discount)
    \/ \E kind \in {"quote", "invoice"} : Issue(kind)
    \/ InvoiceFromQuote

Catalogue ==
    \/ \E t \in Taxes, r \in Rates : TaxRateCheck(t, r)
    \/ TaxRateUpdate
    \/ \E price \in {u \in Units : u > 0}, t \in Taxes \cup {None}, recurs \in BOOLEAN : ServiceSave(price, t, recurs)
    \/ ServiceArchive

Next == Draft \/ Catalogue

Spec == Init /\ [][Next]_vars

-----------------------------------------------------------------------------
TypeOK ==
    /\ rate \in [Taxes -> Rates]
    /\ service \in [price : Units \cup {None}, tax : Taxes \cup {None}, recurs : BOOLEAN, archived : BOOLEAN]
    /\ Priced(doc.priced) /\ Len(doc.lines) <= MaxLines
    /\ \A i \in DOMAIN doc.lines : doc.lines[i] \in LineRows
    /\ prior # None => prior.kind = "invoice" /\ prior.lines # <<>>
    /\ update # None => update.tax \in Taxes /\ update.to \in Rates
    /\ changes \in 0..MaxChanges

\* A draft that was stored can be priced, and whatever it says adds up: the
\* shares of the discount to the discount and none to more than its line, the
\* tax of the lines to the tax of each rate and each within a unit of exact, the
\* lines to the total; what is read from the lines (taxesFromLines, the
\* statement, the split of a quote, the rows on paper) says the same.
DocumentAddsUp ==
    LET p == doc.priced  I == DOMAIN doc.lines
        taxes == TaxesFromLines(doc.lines, p.lines)
        totals == PresentTotals(doc.lines, p.lines)
        split == QuoteSplit(doc.lines, p.lines)
        r(i) == doc.lines[i].rate
    IN
    /\ Sum(I, LAMBDA i : p.lines[i].share) = p.discount
    /\ \A i \in I : p.lines[i].share \in 0..Larger(p.lines[i].net, 0)
    /\ Sum(I, LAMBDA i : p.lines[i].total) = p.total
    /\ Sum(I, LAMBDA i : p.lines[i].tax) = p.tax
    /\ \A i \in I : doc.lines[i].tax # None =>
          Abs(p.lines[i].tax * Divisor(doc.mode, r(i)) - p.lines[i].taxable * r(i)) < Divisor(doc.mode, r(i))
    /\ taxes = p.taxes
    /\ totals.items - totals.deducted = p.total
    /\ split.oneTime + split.perPeriod = p.subtotal - p.discount
    /\ \A paid \in {0, 1} : \A paper \in {Printed(doc, paid), PublicInvoicePage(doc, paid)} : Total(paper.rows) = paper.bar

\* "The agency never bills the same money twice": taking an invoice off takes
\* off what it charged, and its tax to a unit of each rate.
DeductionNetsOut ==
    Deductions(doc) # {} =>
       LET p == doc.priced  own == PriceDocument(Items(doc))  before == prior.priced
           tax(q, t) == IF t \in DOMAIN q.taxes THEN q.taxes[t].tax ELSE 0
       IN /\ p.subtotal = own.subtotal - (before.subtotal - before.discount)
          /\ \A t \in Taxes : Abs(tax(p, t) - (tax(own, t) - tax(before, t))) <= 1

\* invoice.fromQuote: "an invoice must say what the client agreed to".  Raised from
\* a quote, it charges the one-time part of the split, to the unit, or, when a
\* percentage is off, to a unit; and a schedule charges the part that recurs, when
\* nothing is off the document.
InvoicedAsAgreed ==
    /\ doc.agreed # None /\ doc.discount.kind # "amount" =>
          Abs(doc.priced.subtotal - doc.priced.discount - doc.agreed) <= IF doc.discount = NoDiscount THEN 0 ELSE 1
    /\ doc.kind = "quote" /\ doc.discount = NoDiscount =>
          SchedulePeriod(doc) = QuoteSplit(doc.lines, doc.priced.lines).perPeriod

\* quote-split.ts: "the split shown on the quote, printed on its PDF, and applied on
\* acceptance are one and the same": a period of the schedule comes to what the quote
\* says recurs.
SplitApplied ==
    doc.kind = "quote" => SchedulePeriod(doc) = QuoteSplit(doc.lines, doc.priced.lines).perPeriod
=============================================================================
