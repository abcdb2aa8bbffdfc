------------------------------- MODULE MCQuotes -------------------------------
\* Small instances of QuoteAcceptance and Pricing for TLC: what becomes of quotes, and
\* what documents come to.  Each has its own tables, so they are explored side by
\* side: a behaviour is one of the parts'.
EXTENDS QuoteAcceptance, Sequences, TLC

CONSTANTS
    Taxes, Percentages, Units, Quantities, LineDiscounts, AmountsOff, Scale, Hundred, MaxLines,
    MaxChanges,
    q1, q2

VARIABLES
    part,
    rate, service, doc, prior, update, changes

Pr == INSTANCE Pricing WITH Rates <- Percentages

pricingVars ==
    <<rate, service, doc, prior, update, changes>>
allVars == <<part, vars, pricingVars>>

\* A part that is not explored stays as it begins, or is left blank.
NoPricing ==
    /\ rate = None /\ service = None /\ doc = None /\ prior = None /\ update = None
    /\ changes = None

AllInit ==
    \/ part = "quotes" /\ Init /\ NoPricing
    \/ part = "pricing" /\ Pr!Init /\ Init

QuotesNext ==
    part = "quotes" /\ Next /\ UNCHANGED <<part, pricingVars>>
PricingNext ==
    part = "pricing" /\ Pr!Next /\ UNCHANGED <<part, vars>>

\* A step of the part, while the others stay blank.
QuotesStep(step) == part = "quotes" /\ step /\ UNCHANGED <<part, pricingVars>>

AllNext == QuotesNext \/ PricingNext
AllSpec ==
    /\ AllInit
    /\ [][AllNext]_allVars
    /\ SF_allVars(QuotesStep(ExpireDueQuotes))
    /\ \A t \in Txs : WF_allVars(QuotesStep(Finish(t)))

\* Two quotes of different price, which may be options of one group or both for
\* one project.
Worth == q1 :> 1 @@ q2 :> 2

\* Bounds: two lines of a draft's own, and one beside what takes an invoice off;
\* discounts are tried while the catalogue is as it was and nothing was issued, on
\* the first line or on the document; a service that recurs was there before the
\* first quote only, and one is archived when a draft is begun.
OneMatter ==
    /\ service.archived => Len(doc.lines) <= 1
    /\ doc.discount # Pr!NoDiscount => \A i \in DOMAIN doc.lines : doc.lines[i].off = 0
    /\ \A i \in DOMAIN doc.lines : doc.lines[i].off # 0 => i = 1
    /\ Len(Pr!Items(doc).lines) <= IF prior = None THEN 2 ELSE 1
    /\ service.recurs /\ changes = 0 => doc.kind = "quote" /\ service.price = 3
    /\ changes > 0 => doc.discount = Pr!NoDiscount /\ \A i \in DOMAIN doc.lines : doc.lines[i].off = 0
    /\ prior # None => doc.kind = "invoice" /\ \A i \in DOMAIN prior.lines : prior.lines[i].off = 0

Bounded ==
    /\ part = "pricing" => OneMatter

\* pricing: lines, taxes and discounts add up to the total, what is taken off leaves
\* the rest, and an invoice made from a quote asks what was agreed.
PricesAddUp == part = "pricing" => Pr!TypeOK /\ Pr!DocumentAddsUp /\ Pr!DeductionNetsOut /\ Pr!InvoicedAsAgreed
=============================================================================
