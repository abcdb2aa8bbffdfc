-------------------------------- MODULE MCTime --------------------------------
\* A small instance of TimeBilling for TLC: what is logged, spent and billed.
EXTENDS TimeBilling, TLC

Alike == Permutations(Entries) \cup Permutations(Lines) \cup Permutations(Invoices) \cup Permutations(Requests)
=============================================================================
