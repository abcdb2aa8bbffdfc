----------------------------- MODULE MCPricing -----------------------------
\* A small instance of Pricing for TLC.
EXTENDS Pricing

\* Bounds: two lines of a draft's own, and one beside what takes an invoice off;
\* discounts are tried while the catalogue is as it was and nothing was issued;
\* a service that recurs was there before the first quote only.
OneMatter ==
    /\ Len(Items(doc).lines) <= IF prior = None THEN 2 ELSE 1
    /\ service.recurs /\ changes = 0 => doc.kind = "quote" /\ service.price = 3
    /\ changes > 0 => doc.discount = NoDiscount /\ \A i \in DOMAIN doc.lines : doc.lines[i].off = 0
    /\ prior # None => doc.kind = "invoice" /\ \A i \in DOMAIN prior.lines : prior.lines[i].off = 0
=============================================================================
