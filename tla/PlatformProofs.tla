--------------------------- MODULE PlatformProofs ---------------------------
(***************************************************************************)
(* Proofs about the parts every request goes through, one section for each:*)
(*                                                                         *)
(* RowLocks.  Visiting invoices in ascending order keeps every number of   *)
(* transactions, over every number of invoices, out of a deadlock.  Rows   *)
(* are ranked: payments and drafts first, invoices by id, the counter last.*)
(* Each transaction still has to lock rows of ascending rank only, all of a*)
(* greater rank than those it holds.  So whoever holds the row of greatest *)
(* rank that anyone of a group waits for does not wait in it.              *)
(*                                                                         *)
(* Tenancy.  What a connection is left with, its transactions' settings    *)
(* undone, is nobody's organization; so a request sees its own rows only.  *)
(*                                                                         *)
(* Requests.  An Idempotency-Key is held by one transaction until it is    *)
(* recorded; the files a request removes belong to rows it takes away.     *)
(*                                                                         *)
(* Access.  A request carries only what a role of its person's has earned  *)
(* since it came in, and an owner is left whom nobody is removing.         *)
(***************************************************************************)
EXTENDS MCPlatform, FiniteSetTheorems, SequenceTheorems, WellFoundedInduction, TLAPS

Rank(r) ==
    IF r[1] = "invoice" THEN r[2]
    ELSE IF r[1] = "counter" THEN LastInvoice + 1
    ELSE 0

\* A sequence of rows of ascending rank.
Climbs(p) ==
    /\ p \in Seq(Rows)
    /\ \A a, b \in 1 .. Len(p) : a < b => Rank(p[a]) < Rank(p[b])

LEMMA RankOfRows ==
    /\ \A r \in Rows : Rank(r) \in 0 .. LastInvoice + 1
    /\ \A i \in Invoices : InvoiceRow(i) \in Rows /\ Rank(InvoiceRow(i)) = i /\ i \in 1 .. LastInvoice
    /\ \A p \in Payments : PaymentRow(p) \in Rows /\ Rank(PaymentRow(p)) = 0
    /\ \A d \in Drafts : DraftRow(d) \in Rows /\ Rank(DraftRow(d)) = 0
    /\ CounterRow \in Rows /\ Rank(CounterRow) = LastInvoice + 1
<1>1. \A i \in Invoices : InvoiceRow(i) \in Rows /\ Rank(InvoiceRow(i)) = i /\ i \in 1 .. LastInvoice
  BY RowLocksAssumption DEF Rows, Rank, InvoiceRow
<1>2. \A p \in Payments : PaymentRow(p) \in Rows /\ Rank(PaymentRow(p)) = 0
  BY DEF Rows, Rank, PaymentRow
<1>3. \A d \in Drafts : DraftRow(d) \in Rows /\ Rank(DraftRow(d)) = 0
  BY DEF Rows, Rank, DraftRow
<1>4. CounterRow \in Rows /\ Rank(CounterRow) = LastInvoice + 1
  BY DEF Rows, Rank, CounterRow
<1>5. \A r \in Rows : Rank(r) \in 0 .. LastInvoice + 1
  <2> SUFFICES ASSUME NEW r \in Rows PROVE Rank(r) \in 0 .. LastInvoice + 1
    OBVIOUS
  <2>1. \/ \E i \in Invoices : r = InvoiceRow(i)
        \/ \E p \in Payments : r = PaymentRow(p)
        \/ \E d \in Drafts : r = DraftRow(d)
        \/ r = CounterRow
    BY DEF Rows
  <2> QED
    BY <2>1, <1>1, <1>2, <1>3, <1>4, RowLocksAssumption
<1> QED
  BY <1>1, <1>2, <1>3, <1>4, <1>5

\* A row of smaller rank may go before, one of greater rank behind.
LEMMA ClimbFrom ==
    ASSUME NEW p, Climbs(p), NEW r \in Rows,
           \A k \in 1 .. Len(p) : Rank(r) < Rank(p[k])
    PROVE  Climbs(<<r>> \o p)
<1>1. <<r>> \in Seq(Rows) /\ p \in Seq(Rows) /\ Len(<<r>>) = 1 /\ <<r>>[1] = r
  BY DEF Climbs
<1>2. /\ <<r>> \o p \in Seq(Rows) /\ Len(<<r>> \o p) = 1 + Len(p) /\ Len(p) \in Nat
      /\ \A k \in 1 .. 1 + Len(p) : (<<r>> \o p)[k] = IF k <= 1 THEN r ELSE p[k - 1]
  <2>1. \A k \in 1 .. 1 + Len(p) : (<<r>> \o p)[k] = IF k <= 1 THEN <<r>>[k] ELSE p[k - 1]
    BY <1>1, ConcatProperties, LenProperties
  <2>2. \A k \in 1 .. 1 + Len(p) : k <= 1 => <<r>>[k] = r
    BY <1>1, LenProperties
  <2> QED
    BY <1>1, <2>1, <2>2, ConcatProperties, LenProperties
<1>3. ASSUME NEW a \in 1 .. 1 + Len(p), NEW b \in 1 .. 1 + Len(p), a < b
      PROVE  Rank((<<r>> \o p)[a]) < Rank((<<r>> \o p)[b])
  <2>1. (<<r>> \o p)[b] = p[b - 1] /\ b - 1 \in 1 .. Len(p)
    BY <1>2, <1>3
  <2>2. CASE a = 1
    BY <1>2, <2>1, <2>2
  <2>3. CASE a # 1
    <3>1. (<<r>> \o p)[a] = p[a - 1] /\ a - 1 \in 1 .. Len(p) /\ a - 1 < b - 1
      BY <1>2, <1>3, <2>3
    <3> QED
      BY <2>1, <3>1 DEF Climbs
  <2> QED
    BY <2>2, <2>3
<1> QED
  BY <1>2, <1>3 DEF Climbs

LEMMA ClimbTo ==
    ASSUME NEW p, Climbs(p), NEW r \in Rows,
           \A k \in 1 .. Len(p) : Rank(p[k]) < Rank(r)
    PROVE  Climbs(p \o <<r>>)
<1>1. <<r>> \in Seq(Rows) /\ p \in Seq(Rows) /\ Len(<<r>>) = 1 /\ <<r>>[1] = r /\ Len(p) \in Nat
  BY LenProperties DEF Climbs
<1>2. /\ p \o <<r>> \in Seq(Rows) /\ Len(p \o <<r>>) = Len(p) + 1
      /\ \A k \in 1 .. Len(p) + 1 : (p \o <<r>>)[k] = IF k <= Len(p) THEN p[k] ELSE r
  <2>1. \A k \in 1 .. Len(p) + 1 : (p \o <<r>>)[k] = IF k <= Len(p) THEN p[k] ELSE <<r>>[k - Len(p)]
    BY <1>1, ConcatProperties
  <2>2. \A k \in 1 .. Len(p) + 1 : ~(k <= Len(p)) => <<r>>[k - Len(p)] = r
    <3>1. \A k \in 1 .. Len(p) + 1 : ~(k <= Len(p)) => k - Len(p) = 1
      BY <1>1
    <3> QED
      BY <1>1, <3>1
  <2> QED
    BY <1>1, <2>1, <2>2, ConcatProperties
<1>3. ASSUME NEW a \in 1 .. Len(p) + 1, NEW b \in 1 .. Len(p) + 1, a < b
      PROVE  Rank((p \o <<r>>)[a]) < Rank((p \o <<r>>)[b])
  <2>1. (p \o <<r>>)[a] = p[a] /\ a \in 1 .. Len(p)
    BY <1>1, <1>2, <1>3
  <2> QED
    BY <1>1, <1>2, <1>3, <2>1 DEF Climbs
<1> QED
  BY <1>2, <1>3 DEF Climbs

\* The rows of invoices visited in ascending order climb.
LEMMA InvoicesClimb ==
    ASSUME NEW S \in SUBSET Invoices, NEW s \in Sorted(S)
    PROVE  /\ Climbs(InvoiceRowsOf(s))
           /\ \A k \in 1 .. Len(InvoiceRowsOf(s)) :
                  Rank(InvoiceRowsOf(s)[k]) \in 1 .. LastInvoice
<1>1. Cardinality(S) \in Nat
  <2>1. IsFiniteSet(1 .. LastInvoice) /\ S \subseteq 1 .. LastInvoice
    BY RowLocksAssumption, FS_Interval
  <2>2. IsFiniteSet(S)
    BY <2>1, FS_Subset
  <2> QED
    BY <2>2, FS_CardinalityType
<1>2. s \in [1 .. Cardinality(S) -> S] /\ InOrder(s)
  BY DEF Sorted, Visits
<1>3. /\ InvoiceRowsOf(s) \in [1 .. Cardinality(S) -> Rows]
      /\ \A k \in 1 .. Cardinality(S) :
             InvoiceRowsOf(s)[k] = InvoiceRow(s[k]) /\ s[k] \in Invoices
  BY <1>2, RankOfRows DEF InvoiceRowsOf
<1>4. InvoiceRowsOf(s) \in Seq(Rows) /\ Len(InvoiceRowsOf(s)) = Cardinality(S)
  BY <1>1, <1>3
<1>5. \A k \in 1 .. Cardinality(S) :
          Rank(InvoiceRowsOf(s)[k]) = s[k] /\ s[k] \in 1 .. LastInvoice
  BY <1>3, RankOfRows
<1>6. \A a, b \in 1 .. Cardinality(S) : a < b => s[a] < s[b]
  BY <1>2 DEF InOrder
<1> QED
  BY <1>4, <1>5, <1>6 DEF Climbs

\* What is Ascending about the transactions.
LEMMA PlansClimb == ASSUME Ascending, NEW p \in Plans PROVE Climbs(p)
<1>0. Climbs(<<>>)
  BY EmptySeq DEF Climbs
<1>1. ASSUME NEW r \in RecordPlans
      PROVE  /\ Climbs(r)
             /\ \A k \in 1 .. Len(r) : Rank(r[k]) \in 1 .. LastInvoice
  <2>1. PICK S \in (SUBSET Invoices) \ {{}} : \E s \in Orders(S) : r = InvoiceRowsOf(s)
    BY <1>1 DEF RecordPlans
  <2>2. PICK s \in Sorted(S) : r = InvoiceRowsOf(s)
    BY <2>1 DEF Orders
  <2> QED
    BY <2>2, InvoicesClimb
<1>2. ASSUME p \in CorrectPlans PROVE Climbs(p)
  <2>1. PICK m \in Payments, r \in RecordPlans \cup {<<>>} : p = <<PaymentRow(m)>> \o r
    BY <1>2 DEF CorrectPlans
  <2>2. Climbs(r) /\ \A k \in 1 .. Len(r) : Rank(r[k]) \in 1 .. LastInvoice
    <3>1. CASE r = <<>>
      BY <3>1, <1>0, EmptySeq
    <3>2. CASE r \in RecordPlans
      BY <3>2, <1>1
    <3> QED
      BY <3>1, <3>2
  <2>3. PaymentRow(m) \in Rows /\ \A k \in 1 .. Len(r) : Rank(PaymentRow(m)) < Rank(r[k])
    BY <2>2, RankOfRows, RowLocksAssumption
  <2> QED
    BY <2>1, <2>2, <2>3, ClimbFrom
<1>3. ASSUME p \in AllocatePlans PROVE Climbs(p)
  <2>1. PICK m \in Payments, i \in Invoices : p = <<PaymentRow(m), InvoiceRow(i)>>
    BY <1>3 DEF AllocatePlans
  <2>2. p \in Seq(Rows) /\ Len(p) = 2 /\ p[1] = PaymentRow(m) /\ p[2] = InvoiceRow(i)
    BY <2>1, RankOfRows
  <2>3. \A a, b \in 1 .. 2 : a < b => a = 1 /\ b = 2
    OBVIOUS
  <2> QED
    BY <2>2, <2>3, RankOfRows, RowLocksAssumption DEF Climbs
<1>4. ASSUME p \in InvoicePlans PROVE Climbs(p)
  <2>1. PICK i \in Invoices : p = <<InvoiceRow(i)>>
    BY <1>4 DEF InvoicePlans
  <2> QED
    BY <2>1, RankOfRows DEF Climbs
<1>5. ASSUME p \in SendPlans PROVE Climbs(p)
  <2>1. PICK d \in Drafts, S \in SUBSET Invoices :
            \E s \in Sorted(S) : p = <<DraftRow(d)>> \o InvoiceRowsOf(s) \o <<CounterRow>>
    BY <1>5 DEF SendPlans
  <2>2. PICK s \in Sorted(S) : p = <<DraftRow(d)>> \o InvoiceRowsOf(s) \o <<CounterRow>>
    BY <2>1
  <2> DEFINE r == InvoiceRowsOf(s)
  <2>3. Climbs(r) /\ \A k \in 1 .. Len(r) : Rank(r[k]) \in 1 .. LastInvoice
    BY InvoicesClimb
  <2>4. /\ DraftRow(d) \in Rows /\ Rank(DraftRow(d)) = 0
        /\ CounterRow \in Rows /\ Rank(CounterRow) = LastInvoice + 1
    BY RankOfRows
  <2> HIDE DEF r
  <2>5. Climbs(<<DraftRow(d)>> \o r)
    BY <2>3, <2>4, ClimbFrom
  <2>6. \A k \in 1 .. Len(<<DraftRow(d)>> \o r) :
            Rank((<<DraftRow(d)>> \o r)[k]) < LastInvoice + 1
    <3>1. /\ r \in Seq(Rows) /\ <<DraftRow(d)>> \in Seq(Rows) /\ Len(r) \in Nat
          /\ Len(<<DraftRow(d)>>) = 1 /\ <<DraftRow(d)>>[1] = DraftRow(d)
      BY <2>3, <2>4, LenProperties DEF Climbs
    <3>2. /\ Len(<<DraftRow(d)>> \o r) = 1 + Len(r)
          /\ \A k \in 1 .. 1 + Len(r) : (<<DraftRow(d)>> \o r)[k] =
                 IF k <= 1 THEN <<DraftRow(d)>>[k] ELSE r[k - 1]
      BY <3>1, ConcatProperties
    <3>3. TAKE k \in 1 .. Len(<<DraftRow(d)>> \o r)
    <3>4. CASE k = 1
      <4>1. (<<DraftRow(d)>> \o r)[k] = DraftRow(d)
        BY <3>1, <3>2, <3>4
      <4> QED
        BY <4>1, <2>4, RowLocksAssumption
    <3>5. CASE k # 1
      <4>1. (<<DraftRow(d)>> \o r)[k] = r[k - 1] /\ k - 1 \in 1 .. Len(r)
        BY <3>1, <3>2, <3>5
      <4> QED
        BY <4>1, <2>3, RowLocksAssumption
    <3> QED
      BY <3>4, <3>5
  <2>7. Climbs((<<DraftRow(d)>> \o r) \o <<CounterRow>>)
    BY <2>4, <2>5, <2>6, ClimbTo
  <2> QED
    BY <2>2, <2>7 DEF r
<1> QED
  BY <1>1, <1>2, <1>3, <1>4, <1>5 DEF Plans

-----------------------------------------------------------------------------
\* The inductive invariant: a transaction climbs from what it holds.
Ordered ==
    /\ plan \in [Txs -> Seq(Rows)] /\ held \in [Txs -> SUBSET Rows]
    /\ \A t \in Txs : Climbs(plan[t])
    /\ \A t \in Txs : \A r \in held[t] : \A k \in 1 .. Len(plan[t]) : Rank(r) < Rank(plan[t][k])

LEMMA OrderedInit == Init => Ordered
  BY EmptySeq DEF Init, Ordered, Climbs

LEMMA OrderedNext == ASSUME Ascending PROVE Ordered /\ [Next]_vars => Ordered'
<1> SUFFICES ASSUME Ordered, [Next]_vars PROVE Ordered'
  OBVIOUS
<1> USE DEF Ordered
<1>0. Climbs(<<>>) /\ Len(<<>>) = 0
  BY EmptySeq DEF Climbs
<1>1. ASSUME NEW t \in Txs, Begin(t) PROVE Ordered'
  <2>1. PICK p \in Plans : plan' = [plan EXCEPT ![t] = p]
    BY <1>1 DEF Begin
  <2>2. Climbs(p) /\ p \in Seq(Rows)
    BY PlansClimb DEF Climbs
  <2>3. held' = held /\ held[t] = {}
    BY <1>1 DEF Begin, Resting
  <2> QED
    BY <2>1, <2>2, <2>3
<1>2. ASSUME NEW t \in Txs, Lock(t) PROVE Ordered'
  <2> DEFINE p == plan[t]
  <2>1. /\ p # <<>> /\ p \in Seq(Rows)
        /\ held' = [held EXCEPT ![t] = @ \cup {Head(p)}]
        /\ plan' = [plan EXCEPT ![t] = Tail(p)]
    BY <1>2 DEF Lock
  <2>2. /\ Head(p) \in Rows /\ Head(p) = p[1] /\ Tail(p) \in Seq(Rows)
        /\ Len(p) \in Nat \ {0} /\ Len(Tail(p)) = Len(p) - 1
        /\ \A k \in 1 .. Len(Tail(p)) : Tail(p)[k] = p[k + 1]
    BY <2>1, HeadTailProperties, EmptySeq
  <2>3. \A k \in 1 .. Len(Tail(p)) : k + 1 \in 1 .. Len(p) /\ 1 \in 1 .. Len(p) /\ 1 < k + 1
    BY <2>2
  <2>4. Climbs(p)
    OBVIOUS
  <2>5. Climbs(Tail(p))
    <3>1. ASSUME NEW a \in 1 .. Len(Tail(p)), NEW b \in 1 .. Len(Tail(p)), a < b
          PROVE  Rank(Tail(p)[a]) < Rank(Tail(p)[b])
      <4>1. a + 1 \in 1 .. Len(p) /\ b + 1 \in 1 .. Len(p) /\ a + 1 < b + 1
        BY <2>3, <3>1
      <4> QED
        BY <4>1, <2>2, <2>4 DEF Climbs
    <3> QED
      BY <2>2, <3>1 DEF Climbs
  <2>6. \A k \in 1 .. Len(Tail(p)) : Rank(Head(p)) < Rank(Tail(p)[k])
    BY <2>2, <2>3, <2>4 DEF Climbs
  <2>7. \A r \in held[t] : \A k \in 1 .. Len(Tail(p)) : Rank(r) < Rank(Tail(p)[k])
    BY <2>2, <2>3
  <2> HIDE DEF p
  <2>8. plan' \in [Txs -> Seq(Rows)] /\ held' \in [Txs -> SUBSET Rows]
    BY <2>1, <2>2
  <2>9. \A u \in Txs : Climbs(plan'[u])
    BY <2>1, <2>5
  <2>10. ASSUME NEW u \in Txs, NEW r \in held'[u], NEW k \in 1 .. Len(plan'[u])
         PROVE  Rank(r) < Rank(plan'[u][k])
    <3>1. CASE u = t
      <4>1. plan'[u] = Tail(p) /\ r \in held[t] \cup {Head(p)}
        BY <2>1, <3>1
      <4> QED
        BY <4>1, <2>6, <2>7
    <3>2. CASE u # t
      BY <2>1, <3>2
    <3> QED
      BY <3>1, <3>2
  <2> QED
    BY <2>8, <2>9, <2>10 DEF Climbs
<1>3. ASSUME NEW t \in Txs, SweepLock(t) PROVE Ordered'
  <2>1. PICK S \in SUBSET Rows : held' = [held EXCEPT ![t] = S]
    BY <1>3 DEF SweepLock, SkipLocked, InvoiceRows, Rows
  <2>2. plan' = plan /\ plan[t] = <<>>
    BY <1>3 DEF SweepLock, Resting
  <2> QED
    BY <2>1, <2>2, <1>0
<1>4. ASSUME NEW t \in Txs, End(t) PROVE Ordered'
  BY <1>4, <1>0, EmptySeq DEF End
<1>5. CASE UNCHANGED vars
  BY <1>5 DEF vars, Climbs
<1> QED
  BY <1>1, <1>2, <1>3, <1>4, <1>5 DEF Next

\* Whoever waits for the row of greatest rank waits for one that does not wait.
LEMMA OrderedSuffices == Ordered => NeverDeadlocked
<1> SUFFICES ASSUME Ordered, NEW D \in SUBSET Txs, D # {},
                    \A t \in D : \E u \in D : WaitsFor(t, u)
             PROVE  FALSE
  BY DEF NeverDeadlocked
<1> DEFINE Waiting(t) == Head(plan[t])
           Height(t) == LastInvoice + 1 - Rank(Waiting(t))
           Heights == {Height(t) : t \in D}
<1>1. \A t \in D : /\ plan[t] \in Seq(Rows) /\ plan[t] # <<>> /\ Waiting(t) \in Rows
                   /\ Waiting(t) = plan[t][1] /\ 1 \in 1 .. Len(plan[t])
  <2> TAKE t \in D
  <2>1. plan[t] \in Seq(Rows) /\ plan[t] # <<>>
    BY DEF Ordered, WaitsFor
  <2> QED
    BY <2>1, HeadTailProperties, EmptySeq
<1>2. \A t \in D : Height(t) \in Nat /\ Rank(Waiting(t)) \in Nat
  BY <1>1, RankOfRows, RowLocksAssumption
<1>3. \E h \in Heights : \A g \in Heights : ~(g < h)
  <2>1. Heights \subseteq Nat /\ Heights # {}
    BY <1>2
  <2>2. IsWellFoundedOn(OpToRel(<, Nat), Nat)
    BY NatLessThanWellFounded
  <2> HIDE DEF Heights
  <2>3. PICK h \in Heights : \A g \in Heights : ~(<<g, h>> \in OpToRel(<, Nat))
    BY <2>1, <2>2, WFMin
  <2>4. \A g \in Heights : g < h => <<g, h>> \in OpToRel(<, Nat)
    BY <2>1 DEF OpToRel
  <2> QED
    BY <2>3, <2>4
<1>4. PICK t \in D : \A u \in D : ~(Height(u) < Height(t))
  BY <1>3
<1>5. PICK u \in D : Waiting(t) \in held[u]
  BY DEF WaitsFor
<1>6. Rank(Waiting(t)) < Rank(Waiting(u))
  BY <1>1, <1>5 DEF Ordered
<1> QED
  BY <1>2, <1>4, <1>6, RowLocksAssumption

\* Transactions that visit their invoices in ascending order, however many there
\* are and over however many invoices, never wait for one another in a circle:
\* the order settleAll and settleDeductions sort into is enough.
THEOREM AscendingNeverDeadlocks == ASSUME Ascending PROVE Spec => []NeverDeadlocked
<1>1. Init => Ordered
  BY OrderedInit
<1>2. Ordered /\ [Next]_vars => Ordered'
  BY OrderedNext
<1>3. Ordered => NeverDeadlocked
  BY OrderedSuffices
<1> QED
  BY <1>1, <1>2, <1>3, PTL DEF Spec

LEMMA TypeNext == ASSUME Ascending PROVE TypeOK /\ Ordered /\ [Next]_vars => TypeOK'
<1> SUFFICES ASSUME TypeOK, Ordered, [Next]_vars PROVE TypeOK'
  OBVIOUS
<1>1. plan' \in [Txs -> Seq(Rows)] /\ held' \in [Txs -> SUBSET Rows]
  BY OrderedNext DEF Ordered
<1>2. ASSUME NEW t \in Txs, NEW u \in Txs, t # u PROVE held'[t] \cap held'[u] = {}
  <2> USE DEF TypeOK
  <2>1. ASSUME NEW v \in Txs, Begin(v) PROVE held'[t] \cap held'[u] = {}
    BY <1>2, <2>1 DEF Begin
  <2>2. ASSUME NEW v \in Txs, Lock(v) PROVE held'[t] \cap held'[u] = {}
    BY <1>2, <2>2 DEF Lock
  <2>3. ASSUME NEW v \in Txs, SweepLock(v) PROVE held'[t] \cap held'[u] = {}
    <3>1. PICK S \in SUBSET SkipLocked : held' = [held EXCEPT ![v] = S]
      BY <2>3 DEF SweepLock
    <3>2. \A w \in Txs : S \cap held[w] = {}
      BY DEF SkipLocked, Taken
    <3> QED
      BY <1>2, <3>1, <3>2
  <2>4. ASSUME NEW v \in Txs, End(v) PROVE held'[t] \cap held'[u] = {}
    BY <1>2, <2>4 DEF End
  <2>5. CASE UNCHANGED vars
    BY <1>2, <2>5 DEF vars
  <2> QED
    BY <2>1, <2>2, <2>3, <2>4, <2>5 DEF Next
<1> QED
  BY <1>1, <1>2 DEF TypeOK

\* FOR UPDATE, SKIP LOCKED and the end of a transaction keep every row with one
\* transaction at a time.
THEOREM OneHolderPerRow == ASSUME Ascending PROVE Spec => []TypeOK
<1>1. Init => TypeOK /\ Ordered
  BY OrderedInit, EmptySeq DEF Init, TypeOK, Ordered
<1>2. TypeOK /\ Ordered /\ [Next]_vars => (TypeOK /\ Ordered)'
  BY TypeNext, OrderedNext
<1> QED
  BY <1>1, <1>2, PTL DEF Spec

-----------------------------------------------------------------------------
(* Tenancy: a connection is used by one transaction at a time, and when it *)
(* is not, no setting of it says anything.                                 *)

Clean == [org : {None, Empty}, lookup : {None, Empty}, dispatcher : {None, Empty}]
Begun == {"begun", "scoped"}

OnOneConnection ==
    /\ \A r \in Callers : tenancyRequest[r].step \in Begun => tenancyRequest[r].on \in Connections
    /\ \A r, q \in Callers : /\ {tenancyRequest[r].step, tenancyRequest[q].step} \subseteq Begun
                             /\ tenancyRequest[r].on = tenancyRequest[q].on
                             => r = q

Settings ==
    /\ \A c \in Connections :
          (\A r \in Callers : tenancyRequest[r].step = "scoped" => tenancyRequest[r].on # c) => session[c] \in Clean
    /\ \A r \in Callers : tenancyRequest[r].step = "scoped" =>
          /\ tenancyRequest[r].before \in Clean
          /\ session[tenancyRequest[r].on] = Tn!Scoped(tenancyRequest[r].before, tenancyRequest[r])

(* What a transaction is about to insert.                                  *)
Pending ==
    \A r \in Callers :
       /\ tenancyRequest[r].step \in Begun =>
             /\ tenancyRequest[r].as \in Tn!Ways
             /\ tenancyRequest[r].as = "withTenant" => tenancyRequest[r].org \in Orgs
       /\ tenancyRequest[r].new # Tn!NoRow =>
             LET x == tenancyRequest[r].new IN
             \/ x.by = x.org
             \/ x.by = None /\ x.table = "webhook_deliveries" /\ x.event \in Kept /\ row[x.event].org = x.org
                /\ row[x.event] # Tn!NoRow

(* Only withTenant has an organization of its own.                         *)
Scopeless == \A r \in Callers : tenancyRequest[r].as # "withTenant" => tenancyRequest[r].org = None

(* The event that a delivery of the dispatcher refers to.                  *)
EventsThere ==
    \A x \in Kept : row[x] # Tn!NoRow /\ row[x].by # row[x].org =>
       row[x].event \in Kept /\ row[row[x].event] # Tn!NoRow

TenancyInv ==
    /\ Tn!TypeOK /\ Tn!Isolated /\ Tn!RowsOfOwner /\ Tn!NeverFails
    /\ OnOneConnection /\ Settings /\ Pending /\ Scopeless /\ EventsThere
    /\ \A r \in Callers : tenancyRequest[r].seen \subseteq {x \in Kept : row[x] # Tn!NoRow}

LEMMA CleanSettings ==
    ASSUME NEW s \in Clean
    PROVE  /\ s \in Tn!Session
           /\ Tn!NullIf(s.org) = None /\ s.lookup # "on" /\ s.dispatcher # "on"
           /\ DOMAIN s = {"org", "lookup", "dispatcher"}
BY PlatformAssumption DEF Clean, Tn!Session, Tn!NullIf

LEMMA RevertedClean ==
    ASSUME NEW before \in Clean, NEW now \in Tn!Session
    PROVE  Tn!Reverted(before, now) \in Clean
BY DEF Clean, Tn!Session, Tn!Reverted

TenancyRows ==
    [step : {"idle", "begun", "scoped", "answered"}, as : Tn!Ways \cup {"db", None}, org : Orgs \cup {None},
     on : Connections \cup {None}, before : Tn!Session, seen : SUBSET Kept, new : Tn!Row, failed : BOOLEAN]

LEMMA NothingBegun ==
    /\ Tn!Idle \in TenancyRows /\ Tn!Idle.step = "idle" /\ Tn!Idle.seen = {} /\ Tn!Idle.new = Tn!NoRow /\ ~Tn!Idle.failed
    /\ Tn!Idle.org = None
    /\ Tn!Fresh \in Clean /\ Tn!NoRow \in Tn!Row /\ Tn!NoRow.table = None /\ Tn!NoRow.org = None
<1>1. Tn!Fresh \in Clean /\ Tn!NoRow \in Tn!Row /\ Tn!NoRow.table = None /\ Tn!NoRow.org = None
  BY DEF Tn!Fresh, Clean, Tn!NoRow, Tn!Row
<1>2. Tn!Fresh \in Tn!Session
  BY <1>1, CleanSettings
<1> QED BY <1>1, <1>2 DEF Tn!Idle, TenancyRows

LEMMA TenancyInit == Tn!Init => TenancyInv
<1> SUFFICES ASSUME Tn!Init PROVE TenancyInv
  OBVIOUS
<1>1. /\ row = [x \in Kept |-> Tn!NoRow] /\ session = [c \in Connections |-> Tn!Fresh]
      /\ tenancyRequest = [r \in Callers |-> Tn!Idle]
  BY DEF Tn!Init
<1>2. tenancyRequest \in [Callers -> TenancyRows] /\ session \in [Connections -> Tn!Session] /\ row \in [Kept -> Tn!Row]
  BY <1>1, NothingBegun, CleanSettings
<1>3. Tn!TypeOK
  BY <1>2 DEF Tn!TypeOK, TenancyRows
<1>4. Tn!Isolated /\ Tn!RowsOfOwner /\ Tn!NeverFails
  BY <1>1, NothingBegun DEF Tn!Isolated, Tn!RowsOfOwner, Tn!NeverFails
<1>5. OnOneConnection /\ Settings /\ Pending /\ Scopeless /\ EventsThere
  BY <1>1, NothingBegun DEF OnOneConnection, Settings, Pending, Begun, Scopeless, EventsThere
<1>6. \A r \in Callers : tenancyRequest[r].seen \subseteq {x \in Kept : row[x] # Tn!NoRow}
  BY <1>1, NothingBegun
<1> QED BY <1>3, <1>4, <1>5, <1>6 DEF TenancyInv

(* A step of one request, on the connection it has.                        *)
LEMMA CallersStep ==
    ASSUME TenancyInv, NEW r \in Callers, NEW q \in TenancyRows,
           tenancyRequest' = [tenancyRequest EXCEPT ![r] = q],
           row' \in [Kept -> Tn!Row], \A x \in Kept : row[x] # Tn!NoRow => row'[x] = row[x],
           Tn!RowsOfOwner', EventsThere', session' \in [Connections -> Tn!Session],
           \A c \in Connections : c # tenancyRequest[r].on => session'[c] = session[c],
           tenancyRequest[r].step \notin Begun => session' = session,
           tenancyRequest[r].step \in Begun /\ q.step # "scoped" => session'[tenancyRequest[r].on] \in Clean,
           q.step = "scoped" =>
              /\ tenancyRequest[r].step \in Begun /\ q.on = tenancyRequest[r].on
              /\ q.before \in Clean /\ session'[q.on] = Tn!Scoped(q.before, q),
           q.step \in Begun => /\ q.on \in Connections
                               /\ q.as \in Tn!Ways /\ (q.as = "withTenant" => q.org \in Orgs)
                               /\ \A p \in Callers : p # r /\ tenancyRequest[p].step \in Begun => tenancyRequest[p].on # q.on,
           q.seen \subseteq {x \in Kept : row[x] # Tn!NoRow}, \A x \in q.seen : Tn!Meant(q, row[x]), ~q.failed,
           q.as # "withTenant" => q.org = None,
           q.new # Tn!NoRow =>
              \/ q.new.by = q.new.org
              \/ q.new.by = None /\ q.new.table = "webhook_deliveries" /\ q.new.event \in Kept
                 /\ row[q.new.event].org = q.new.org /\ row[q.new.event] # Tn!NoRow
    PROVE  TenancyInv'
<1>1. tenancyRequest \in [Callers -> TenancyRows] /\ session \in [Connections -> Tn!Session] /\ row \in [Kept -> Tn!Row]
  BY DEF TenancyInv, Tn!TypeOK, TenancyRows
<1>2. tenancyRequest' \in [Callers -> TenancyRows] /\ tenancyRequest'[r] = q
      /\ \A p \in Callers : p # r => tenancyRequest'[p] = tenancyRequest[p]
  BY <1>1
<1>3. Tn!TypeOK'
  BY <1>2 DEF Tn!TypeOK, TenancyRows
<1>4. \A p \in Callers : tenancyRequest'[p].seen \subseteq {x \in Kept : row'[x] # Tn!NoRow}
  <2> SUFFICES ASSUME NEW p \in Callers PROVE tenancyRequest'[p].seen \subseteq {x \in Kept : row[x] # Tn!NoRow}
    OBVIOUS
  <2> QED BY <1>2 DEF TenancyInv
<1>5. Tn!Isolated'
  <2> SUFFICES ASSUME NEW p \in Callers, NEW x \in tenancyRequest'[p].seen
               PROVE  Tn!Meant(tenancyRequest'[p], row'[x])
    BY DEF Tn!Isolated
  <2>1. row'[x] = row[x]
    BY <1>2 DEF TenancyInv
  <2>2. Tn!Meant(tenancyRequest'[p], row[x])
    BY <1>2 DEF TenancyInv, Tn!Isolated
  <2> QED BY <2>1, <2>2
<1>6. Tn!NeverFails'
  BY <1>2 DEF TenancyInv, Tn!NeverFails
<1>7. OnOneConnection'
  BY <1>2 DEF TenancyInv, OnOneConnection
<1>8. Settings'
  <2>1. \A p \in Callers : p # r /\ tenancyRequest[p].step = "scoped" => session'[tenancyRequest[p].on] = session[tenancyRequest[p].on]
    BY DEF TenancyInv, OnOneConnection, Begun
  <2>2. \A p \in Callers : tenancyRequest'[p].step = "scoped" =>
          /\ tenancyRequest'[p].before \in Clean
          /\ session'[tenancyRequest'[p].on] = Tn!Scoped(tenancyRequest'[p].before, tenancyRequest'[p])
    BY <1>2, <2>1 DEF TenancyInv, Settings
  <2>3. ASSUME NEW c \in Connections, \A p \in Callers : tenancyRequest'[p].step = "scoped" => tenancyRequest'[p].on # c
        PROVE  session'[c] \in Clean
    <3>1. \A p \in Callers : p # r /\ tenancyRequest[p].step = "scoped" => tenancyRequest[p].on # c
      BY <1>2, <2>3
    <3>2. CASE tenancyRequest[r].step \in Begun /\ tenancyRequest[r].on = c
      BY <3>2, <1>2, <2>3
    <3>3. CASE ~(tenancyRequest[r].step \in Begun /\ tenancyRequest[r].on = c)
      <4>1. session'[c] = session[c]
        BY <3>3
      <4>2. session[c] \in Clean
        BY <3>1, <3>3 DEF TenancyInv, Settings, Begun
      <4> QED BY <4>1, <4>2
    <3> QED BY <3>2, <3>3
  <2> QED BY <2>2, <2>3 DEF Settings
<1>9. Pending'
  <2>1. \A p \in Callers : tenancyRequest'[p].step \in Begun =>
             /\ tenancyRequest'[p].as \in Tn!Ways
             /\ tenancyRequest'[p].as = "withTenant" => tenancyRequest'[p].org \in Orgs
    BY <1>2 DEF TenancyInv, Pending
  <2>2. ASSUME NEW p \in Callers, NEW x, x = tenancyRequest'[p].new, x # Tn!NoRow
        PROVE  \/ x.by = x.org
               \/ x.by = None /\ x.table = "webhook_deliveries" /\ x.event \in Kept /\ row'[x.event].org = x.org
                  /\ row'[x.event] # Tn!NoRow
    <3>1. \/ x.by = x.org
          \/ x.by = None /\ x.table = "webhook_deliveries" /\ x.event \in Kept /\ row[x.event].org = x.org
             /\ row[x.event] # Tn!NoRow
      BY <1>2, <2>2 DEF TenancyInv, Pending
    <3> QED BY <3>1
  <2> QED BY <2>1, <2>2 DEF Pending
<1>10. Scopeless'
  BY <1>2 DEF TenancyInv, Scopeless
<1> QED BY <1>3, <1>4, <1>5, <1>6, <1>7, <1>8, <1>9, <1>10 DEF TenancyInv

(* What is known of a request.                                             *)
LEMMA CallerAt ==
    ASSUME TenancyInv, NEW r \in Callers
    PROVE  /\ tenancyRequest \in [Callers -> TenancyRows] /\ tenancyRequest[r] \in TenancyRows
           /\ session \in [Connections -> Tn!Session] /\ row \in [Kept -> Tn!Row]
           /\ tenancyRequest[r].seen \subseteq {x \in Kept : row[x] # Tn!NoRow}
           /\ \A x \in tenancyRequest[r].seen : Tn!Meant(tenancyRequest[r], row[x])
           /\ ~tenancyRequest[r].failed
           /\ tenancyRequest[r].new # Tn!NoRow =>
                 \/ tenancyRequest[r].new.by = tenancyRequest[r].new.org
                 \/ /\ tenancyRequest[r].new.by = None /\ tenancyRequest[r].new.table = "webhook_deliveries"
                    /\ tenancyRequest[r].new.event \in Kept
                    /\ row[tenancyRequest[r].new.event].org = tenancyRequest[r].new.org
                    /\ row[tenancyRequest[r].new.event] # Tn!NoRow
           /\ tenancyRequest[r].step \in Begun =>
                 /\ tenancyRequest[r].on \in Connections
                 /\ tenancyRequest[r].as \in Tn!Ways
                 /\ tenancyRequest[r].as = "withTenant" => tenancyRequest[r].org \in Orgs
                 /\ \A p \in Callers : p # r /\ tenancyRequest[p].step \in Begun => tenancyRequest[p].on # tenancyRequest[r].on
           /\ tenancyRequest[r].step = "begun" => session[tenancyRequest[r].on] \in Clean
           /\ tenancyRequest[r].step = "scoped" =>
                 /\ tenancyRequest[r].before \in Clean
                 /\ session[tenancyRequest[r].on] = Tn!Scoped(tenancyRequest[r].before, tenancyRequest[r])
           /\ Tn!RowsOfOwner /\ EventsThere
           /\ tenancyRequest[r].as # "withTenant" => tenancyRequest[r].org = None
<1>1. tenancyRequest \in [Callers -> TenancyRows] /\ session \in [Connections -> Tn!Session] /\ row \in [Kept -> Tn!Row]
  BY DEF TenancyInv, Tn!TypeOK, TenancyRows
<1>2. tenancyRequest[r].step \in Begun =>
         /\ tenancyRequest[r].on \in Connections
         /\ tenancyRequest[r].as \in Tn!Ways
         /\ tenancyRequest[r].as = "withTenant" => tenancyRequest[r].org \in Orgs
         /\ \A p \in Callers : p # r /\ tenancyRequest[p].step \in Begun => tenancyRequest[p].on # tenancyRequest[r].on
  BY DEF TenancyInv, OnOneConnection, Pending
<1>3. tenancyRequest[r].step = "begun" => session[tenancyRequest[r].on] \in Clean
  <2> SUFFICES ASSUME tenancyRequest[r].step = "begun" PROVE session[tenancyRequest[r].on] \in Clean
    OBVIOUS
  <2>1. \A p \in Callers : tenancyRequest[p].step = "scoped" => tenancyRequest[p].on # tenancyRequest[r].on
    BY <1>2 DEF Begun
  <2> QED BY <2>1, <1>2 DEF TenancyInv, Settings, Begun
<1> QED BY <1>1, <1>2, <1>3 DEF TenancyInv, Tn!Isolated, Tn!NeverFails, Settings, Pending, Scopeless

(* What a transaction has set, and what that shows it.                     *)
LEMMA ScopedSettings ==
    ASSUME NEW s \in Clean, NEW q \in TenancyRows, q.as \in Tn!Ways, q.as = "withTenant" => q.org \in Orgs
    PROVE  /\ Tn!Scoped(s, q) \in Tn!Session
           /\ Tn!Castable(Tn!Scoped(s, q))
           /\ \A x \in Tn!Row : x # Tn!NoRow /\ Tn!Visible(Tn!Scoped(s, q), x) => Tn!Meant(q, x)
           /\ \A x \in Tn!Row : x # Tn!NoRow /\ Tn!Insertable(Tn!Scoped(s, q), x) =>
                 \/ q.as = "withTenant" /\ x.org = q.org
                 \/ q.as = "withDispatcher" /\ x.table = "webhook_deliveries"
<1>1. /\ s.org \in {None, Empty} /\ s.lookup \in {None, Empty} /\ s.dispatcher \in {None, Empty}
      /\ s \in Tn!Session
  BY CleanSettings DEF Clean
<1>2. CASE q.as = "withTenant"
  <2>1. /\ Tn!Scoped(s, q) = [s EXCEPT !.org = q.org] /\ q.org \in Orgs
    BY <1>2 DEF Tn!Scoped
  <2>2. /\ Tn!Scoped(s, q) \in Tn!Session /\ Tn!Scoped(s, q).org = q.org
        /\ Tn!Scoped(s, q).lookup # "on" /\ Tn!Scoped(s, q).dispatcher # "on"
    BY <2>1, <1>1, PlatformAssumption DEF Tn!Session
  <2>3. Tn!NullIf(q.org) = q.org
    BY <2>1, PlatformAssumption DEF Tn!NullIf
  <2>4. Tn!Castable(Tn!Scoped(s, q))
    BY <2>1, <2>2, <2>3 DEF Tn!Castable
  <2> QED BY <2>2, <2>3, <2>4, <1>2 DEF Tn!Visible, Tn!Insertable, Tn!Own, Tn!Meant
<1>3. CASE q.as = "verifyApiKey"
  <2>1. Tn!Scoped(s, q) = [s EXCEPT !.lookup = "on"]
    BY <1>3 DEF Tn!Scoped
  <2>2. /\ Tn!Scoped(s, q) \in Tn!Session /\ Tn!Scoped(s, q).org = s.org
        /\ Tn!Scoped(s, q).dispatcher # "on"
    BY <2>1, <1>1, PlatformAssumption DEF Tn!Session
  <2>3. Tn!NullIf(s.org) = None /\ None \notin Orgs
    BY CleanSettings, PlatformAssumption
  <2>4. Tn!Castable(Tn!Scoped(s, q))
    BY <2>2, <2>3 DEF Tn!Castable
  <2> QED BY <2>2, <2>3, <2>4, <1>3 DEF Tn!Visible, Tn!Insertable, Tn!Own, Tn!Meant
<1>4. CASE q.as = "withDispatcher"
  <2>1. Tn!Scoped(s, q) = [s EXCEPT !.dispatcher = "on"]
    BY <1>4 DEF Tn!Scoped
  <2>2. /\ Tn!Scoped(s, q) \in Tn!Session /\ Tn!Scoped(s, q).org = s.org
        /\ Tn!Scoped(s, q).lookup # "on"
    BY <2>1, <1>1, PlatformAssumption DEF Tn!Session
  <2>3. Tn!NullIf(s.org) = None /\ None \notin Orgs
    BY CleanSettings, PlatformAssumption
  <2>4. Tn!Castable(Tn!Scoped(s, q))
    BY <2>2, <2>3 DEF Tn!Castable
  <2> QED BY <2>2, <2>3, <2>4, <1>4 DEF Tn!Visible, Tn!Insertable, Tn!Own, Tn!Meant
<1> QED BY <1>2, <1>3, <1>4 DEF Tn!Ways

LEMMA BeginStep ==
    ASSUME TenancyInv, NEW r \in Callers, NEW way \in Tn!Ways, NEW org \in Orgs, NEW c \in Connections,
           Tn!Begin(r, way, org, c)
    PROVE  TenancyInv'
<1> DEFINE q == [Tn!Idle EXCEPT !.step = "begun", !.as = way, !.on = c,
                                !.org = IF way = "withTenant" THEN org ELSE None]
<1>1. /\ tenancyRequest[r] = Tn!Idle /\ \A p \in Callers : tenancyRequest[p].on # c
      /\ tenancyRequest' = [tenancyRequest EXCEPT ![r] = q]
      /\ row' = row /\ session' = session
  BY DEF Tn!Begin, Tn!Free
<1>2. /\ q \in TenancyRows /\ q.step = "begun" /\ q.as = way /\ q.on = c /\ q.org = IF way = "withTenant" THEN org ELSE None
      /\ q.seen = {} /\ ~q.failed /\ q.new = Tn!NoRow
  BY NothingBegun DEF TenancyRows
<1> HIDE DEF q
<1>3. tenancyRequest[r].step \notin Begun
  BY <1>1, NothingBegun DEF Begun
<1>4. Tn!RowsOfOwner' /\ EventsThere'
  BY <1>1, CallerAt DEF Tn!RowsOfOwner, EventsThere
<1> QED BY <1>1, <1>2, <1>3, <1>4, CallerAt, CallersStep

LEMMA SetConfigStep ==
    ASSUME TenancyInv, NEW r \in Callers, Tn!SetConfig(r)
    PROVE  TenancyInv'
<1> DEFINE old == tenancyRequest[r]
           q   == [old EXCEPT !.step = "scoped", !.before = session[old.on]]
<1>1. /\ old.step = "begun" /\ row' = row
      /\ session' = [session EXCEPT ![old.on] = Tn!Scoped(session[old.on], old)]
      /\ tenancyRequest' = [tenancyRequest EXCEPT ![r].step = "scoped", ![r].before = session[old.on]]
  BY DEF Tn!SetConfig
<1>2. old.step \in Begun /\ old \in TenancyRows /\ session[old.on] \in Clean /\ old.on \in Connections
  BY <1>1, CallerAt DEF Begun
<1>3. /\ q \in TenancyRows /\ q.step = "scoped" /\ q.as = old.as /\ q.org = old.org /\ q.on = old.on
      /\ q.before = session[old.on] /\ q.seen = old.seen /\ q.failed = old.failed /\ q.new = old.new
  BY <1>2, CleanSettings DEF TenancyRows
<1>4. tenancyRequest' = [tenancyRequest EXCEPT ![r] = q]
  BY <1>1, CallerAt DEF TenancyRows
<1> HIDE DEF q
<1>5. Tn!Scoped(session[old.on], old) \in Tn!Session /\ Tn!Scoped(session[old.on], old) = Tn!Scoped(q.before, q)
  <2>1. Tn!Scoped(session[old.on], old) \in Tn!Session
    BY <1>2, CallerAt, ScopedSettings
  <2> QED BY <2>1, <1>3 DEF Tn!Scoped
<1>6. /\ session' \in [Connections -> Tn!Session] /\ session'[q.on] = Tn!Scoped(q.before, q)
      /\ \A c \in Connections : c # old.on => session'[c] = session[c]
  BY <1>1, <1>2, <1>3, <1>5, CallerAt
<1>7. Tn!RowsOfOwner' /\ EventsThere' /\ \A x \in q.seen : Tn!Meant(q, row[x])
  BY <1>1, <1>3, CallerAt DEF Tn!RowsOfOwner, EventsThere, Tn!Meant
<1>8. /\ q.on \in Connections /\ q.as \in Tn!Ways /\ (q.as = "withTenant" => q.org \in Orgs)
      /\ \A p \in Callers : p # r /\ tenancyRequest[p].step \in Begun => tenancyRequest[p].on # q.on
  BY <1>2, <1>3, CallerAt
<1>9. /\ q.as # "withTenant" => q.org = None
      /\ q.seen \subseteq {x \in Kept : row[x] # Tn!NoRow} /\ ~q.failed
      /\ q.new # Tn!NoRow =>
            \/ q.new.by = q.new.org
            \/ q.new.by = None /\ q.new.table = "webhook_deliveries" /\ q.new.event \in Kept
               /\ row[q.new.event].org = q.new.org /\ row[q.new.event] # Tn!NoRow
  BY <1>3, CallerAt
<1>10. /\ row' \in [Kept -> Tn!Row] /\ \A x \in Kept : row[x] # Tn!NoRow => row'[x] = row[x]
       /\ q.before \in Clean
  BY <1>1, <1>2, <1>3, CallerAt
<1> HIDE DEF old
<1> QED BY <1>2, <1>3, <1>4, <1>6, <1>7, <1>8, <1>9, <1>10, CallersStep DEF old

(* A transaction that ends gives its connection back as it was.            *)
LEMMA EndStep ==
    ASSUME TenancyInv, NEW r \in Callers, Tn!Commit(r) \/ Tn!RollBack(r)
    PROVE  TenancyInv'
<1> DEFINE old == tenancyRequest[r]
<1>1. /\ old.step \in Begun
      /\ \/ session' = [session EXCEPT ![old.on] = Tn!Reverted(old.before, session[old.on])] /\ old.step = "scoped"
         \/ session' = [session EXCEPT ![old.on] = session[old.on]] /\ old.step = "begun"
      /\ tenancyRequest' = [tenancyRequest EXCEPT ![r] = Tn!Idle]
  BY DEF Tn!Commit, Tn!RollBack, Begun
<1>2. /\ row' \in [Kept -> Tn!Row] /\ \A x \in Kept : row[x] # Tn!NoRow => row'[x] = row[x]
      /\ \A x \in Kept : row'[x] = row[x] \/ (row'[x] = old.new /\ old.new # Tn!NoRow)
  <2>1. CASE row' = row
    BY <2>1, CallerAt
  <2>2. CASE row' # row
    <3>1. row' = [row EXCEPT ![Tn!Spare] = old.new] /\ Tn!Unused # {} /\ old.new # Tn!NoRow
      BY <2>2 DEF Tn!Commit, Tn!RollBack
    <3>2. Tn!Spare \in Kept /\ row[Tn!Spare] = Tn!NoRow
      BY <3>1 DEF Tn!Unused, Tn!Spare
    <3>3. old.new \in Tn!Row
      BY CallerAt DEF TenancyRows
    <3> QED BY <3>1, <3>2, <3>3, CallerAt
  <2> QED BY <2>1, <2>2
<1>3. old.on \in Connections /\ (old.step = "begun" => session[old.on] \in Clean) /\ (old.step = "scoped" => old.before \in Clean)
  BY <1>1, CallerAt
<1>4. /\ session' \in [Connections -> Tn!Session] /\ session'[old.on] \in Clean
      /\ \A c \in Connections : c # old.on => session'[c] = session[c]
  <2>1. old.step = "scoped" => Tn!Reverted(old.before, session[old.on]) \in Clean
    BY <1>3, CallerAt, RevertedClean
  <2>2. PICK s \in Clean : session' = [session EXCEPT ![old.on] = s]
    BY <1>1, <1>3, <2>1
  <2>3. s \in Tn!Session
    BY CleanSettings
  <2> QED BY <2>2, <2>3, <1>3, CallerAt
<1>5. Tn!RowsOfOwner' /\ EventsThere'
  <2> SUFFICES ASSUME NEW x \in Kept, row'[x] # Tn!NoRow
               PROVE  \/ row'[x].by = row'[x].org
                      \/ /\ row'[x].by = None /\ row'[x].table = "webhook_deliveries"
                         /\ row'[row'[x].event].org = row'[x].org
                         /\ row'[x].event \in Kept /\ row'[row'[x].event] # Tn!NoRow
    BY DEF Tn!RowsOfOwner, EventsThere
  <2>1. CASE row'[x] = row[x]
    <3>1. \/ row[x].by = row[x].org
          \/ /\ row[x].by = None /\ row[x].table = "webhook_deliveries" /\ row[row[x].event].org = row[x].org
             /\ row[x].event \in Kept /\ row[row[x].event] # Tn!NoRow
      BY <2>1, CallerAt DEF Tn!RowsOfOwner, EventsThere
    <3> QED BY <3>1, <2>1, <1>2
  <2>2. CASE row'[x] = old.new /\ old.new # Tn!NoRow
    BY <2>2, <1>2, CallerAt
  <2> QED BY <2>1, <2>2, <1>2
<1> HIDE DEF old
<1>6. tenancyRequest[r] = old
  BY DEF old
<1>7. "idle" \notin Begun /\ "idle" # "scoped"
  BY DEF Begun
<1> QED BY <1>1, <1>2, <1>4, <1>5, <1>6, <1>7, NothingBegun, CallersStep

(* The connection breaks, and the transaction on it with it.               *)
LEMMA ReconnectStep ==
    ASSUME TenancyInv, NEW c \in Connections, Tn!Reconnect(c)
    PROVE  TenancyInv'
<1>1. /\ row' = row /\ session' = [session EXCEPT ![c] = Tn!Fresh]
      /\ tenancyRequest' = [r \in Callers |-> IF tenancyRequest[r].on = c THEN Tn!Idle ELSE tenancyRequest[r]]
  BY DEF Tn!Reconnect
<1>2. Tn!Fresh \in Tn!Session
  BY NothingBegun, CleanSettings
<1>3. /\ tenancyRequest \in [Callers -> TenancyRows] /\ session \in [Connections -> Tn!Session]
      /\ row \in [Kept -> Tn!Row]
  BY DEF TenancyInv, Tn!TypeOK, TenancyRows
<1>4. /\ tenancyRequest' \in [Callers -> TenancyRows] /\ session' \in [Connections -> Tn!Session]
      /\ \A r \in Callers : tenancyRequest'[r] = Tn!Idle \/ (tenancyRequest'[r] = tenancyRequest[r] /\ tenancyRequest[r].on # c)
      /\ \A r \in Callers : tenancyRequest[r].on # c => tenancyRequest'[r] = tenancyRequest[r]
      /\ session'[c] = Tn!Fresh /\ \A d \in Connections : d # c => session'[d] = session[d]
  BY <1>1, <1>2, <1>3, NothingBegun
<1>5. Tn!TypeOK'
  BY <1>1, <1>3, <1>4 DEF Tn!TypeOK, TenancyRows
<1>6. Tn!Isolated' /\ Tn!NeverFails' /\ Tn!RowsOfOwner' /\ EventsThere'
  BY <1>1, <1>4, NothingBegun DEF TenancyInv, Tn!Isolated, Tn!NeverFails, Tn!RowsOfOwner, EventsThere
<1>7. \A r \in Callers : tenancyRequest'[r].seen \subseteq {x \in Kept : row'[x] # Tn!NoRow}
  BY <1>1, <1>4, NothingBegun DEF TenancyInv
<1>8. OnOneConnection' /\ Pending' /\ Scopeless'
  BY <1>1, <1>4, NothingBegun DEF TenancyInv, OnOneConnection, Pending, Begun, Scopeless
<1>9. Settings'
  <2>1. \A r \in Callers : tenancyRequest'[r].step = "scoped" =>
          /\ tenancyRequest'[r].before \in Clean
          /\ session'[tenancyRequest'[r].on] = Tn!Scoped(tenancyRequest'[r].before, tenancyRequest'[r])
    <3> SUFFICES ASSUME NEW r \in Callers, tenancyRequest'[r].step = "scoped"
                 PROVE  /\ tenancyRequest'[r].before \in Clean
                        /\ session'[tenancyRequest'[r].on] = Tn!Scoped(tenancyRequest'[r].before, tenancyRequest'[r])
      OBVIOUS
    <3>1. tenancyRequest'[r] = tenancyRequest[r] /\ tenancyRequest[r].on # c
      BY <1>4, NothingBegun
    <3>2. tenancyRequest[r].on \in Connections
      BY <3>1 DEF TenancyInv, OnOneConnection, Begun
    <3> QED BY <3>1, <3>2, <1>4 DEF TenancyInv, Settings
  <2>2. ASSUME NEW d \in Connections, \A r \in Callers : tenancyRequest'[r].step = "scoped" => tenancyRequest'[r].on # d
        PROVE  session'[d] \in Clean
    <3>1. CASE d = c
      BY <3>1, <1>4, NothingBegun
    <3>2. CASE d # c
      <4>1. \A r \in Callers : tenancyRequest[r].step = "scoped" => tenancyRequest[r].on # d
        BY <3>2, <2>2, <1>4
      <4> QED BY <4>1, <3>2, <1>4 DEF TenancyInv, Settings
    <3> QED BY <3>1, <3>2
  <2> QED BY <2>1, <2>2 DEF Settings
<1> QED BY <1>5, <1>6, <1>7, <1>8, <1>9 DEF TenancyInv

(* A statement of a transaction shows what its settings let it see.        *)
LEMMA SelectStep ==
    ASSUME TenancyInv, NEW r \in Callers, NEW t \in Tn!Tables, Tn!Select(r, t)
    PROVE  TenancyInv'
<1> DEFINE old   == tenancyRequest[r]
           shown == {x \in Tn!Stored(t) : Tn!Visible(session[old.on], row[x])}
           q     == [old EXCEPT !.seen = old.seen \cup shown]
<1>1. /\ old.step = "scoped" /\ row' = row /\ session' = session
      /\ tenancyRequest' = [tenancyRequest EXCEPT ![r] = Tn!Answer(old, session[old.on], t)]
  BY DEF Tn!Select
<1>2. /\ old \in TenancyRows /\ old.step \in Begun /\ old.before \in Clean /\ old.on \in Connections
      /\ old.as \in Tn!Ways /\ (old.as = "withTenant" => old.org \in Orgs)
      /\ session[old.on] = Tn!Scoped(old.before, old)
  BY <1>1, CallerAt DEF Begun
<1>3. Tn!Castable(session[old.on])
  BY <1>2, ScopedSettings
<1>4. shown \subseteq {x \in Kept : row[x] # Tn!NoRow} /\ \A x \in shown : Tn!Meant(old, row[x])
  <2> SUFFICES ASSUME NEW x \in shown PROVE x \in Kept /\ row[x] # Tn!NoRow /\ Tn!Meant(old, row[x])
    OBVIOUS
  <2>1. x \in Kept /\ row[x].table = t /\ Tn!Visible(Tn!Scoped(old.before, old), row[x])
    BY <1>2 DEF Tn!Stored
  <2>2. row[x] # Tn!NoRow
    BY <2>1, NothingBegun, PlatformAssumption DEF Tn!Tables, Tn!Outbox
  <2>3. row[x] \in Tn!Row
    BY <2>1, CallerAt
  <2> QED BY <1>2, <2>1, <2>2, <2>3, ScopedSettings
<1> HIDE DEF shown
<1>5. tenancyRequest' = [tenancyRequest EXCEPT ![r] = q]
  BY <1>1, <1>3 DEF Tn!Answer, shown
<1>6. /\ q \in TenancyRows /\ q.step = "scoped" /\ q.as = old.as /\ q.org = old.org /\ q.on = old.on
      /\ q.before = old.before /\ q.seen = old.seen \cup shown /\ q.failed = old.failed /\ q.new = old.new
  BY <1>1, <1>2, <1>4 DEF TenancyRows
<1> HIDE DEF q
<1>7. /\ q.as # "withTenant" => q.org = None
      /\ q.seen \subseteq {x \in Kept : row[x] # Tn!NoRow} /\ ~q.failed
      /\ q.new # Tn!NoRow =>
            \/ q.new.by = q.new.org
            \/ q.new.by = None /\ q.new.table = "webhook_deliveries" /\ q.new.event \in Kept
               /\ row[q.new.event].org = q.new.org /\ row[q.new.event] # Tn!NoRow
  BY <1>4, <1>6, CallerAt
<1>8. \A x \in q.seen : Tn!Meant(q, row[x])
  <2>1. \A x \in old.seen \cup shown : Tn!Meant(old, row[x])
    BY <1>4, CallerAt
  <2> QED BY <2>1, <1>6 DEF Tn!Meant
<1>9. Tn!RowsOfOwner' /\ EventsThere' /\ session' \in [Connections -> Tn!Session] /\ row' \in [Kept -> Tn!Row]
  BY <1>1, CallerAt DEF Tn!RowsOfOwner, EventsThere
<1>10. session'[q.on] = Tn!Scoped(q.before, q)
  BY <1>1, <1>2, <1>6 DEF Tn!Scoped
<1>11. \A p \in Callers : p # r /\ tenancyRequest[p].step \in Begun => tenancyRequest[p].on # q.on
  BY <1>2, <1>6, CallerAt
<1> HIDE DEF old
<1> QED BY <1>1, <1>2, <1>5, <1>6, <1>7, <1>8, <1>9, <1>10, <1>11, CallersStep DEF old

(* What a transaction may insert is its organization's, or refers to what  *)
(* is another's event as a delivery of it.                                 *)
LEMMA InsertStep ==
    ASSUME TenancyInv, NEW r \in Callers, NEW t \in Tn!Tables, NEW org \in Orgs, NEW event \in Kept \cup {None},
           Tn!Insert(r, t, org, event)
    PROVE  TenancyInv'
<1> DEFINE old == tenancyRequest[r]
           x   == [table |-> t, org |-> org, event |-> event, by |-> old.org]
           q   == [old EXCEPT !.new = x]
<1>1. /\ old.step = "scoped" /\ row' = row /\ session' = session
      /\ Tn!Insertable(session[old.on], x) /\ Tn!References(x)
      /\ tenancyRequest' = [tenancyRequest EXCEPT ![r].new = x]
  BY DEF Tn!Insert
<1>2. /\ old \in TenancyRows /\ old.step \in Begun /\ old.before \in Clean /\ old.on \in Connections
      /\ old.as \in Tn!Ways /\ (old.as = "withTenant" => old.org \in Orgs)
      /\ session[old.on] = Tn!Scoped(old.before, old)
  BY <1>1, CallerAt DEF Begun
<1>3. x \in Tn!Row /\ x.table = t /\ x.org = org /\ x.by = old.org /\ x.event = event /\ x # Tn!NoRow
  BY <1>2, NothingBegun, PlatformAssumption DEF TenancyRows, Tn!Row
<1>4. \/ x.by = x.org
      \/ x.by = None /\ x.table = "webhook_deliveries" /\ x.event \in Kept
         /\ row[x.event].org = x.org /\ row[x.event] # Tn!NoRow
  <2>1. \/ old.as = "withTenant" /\ x.org = old.org
        \/ old.as = "withDispatcher" /\ x.table = "webhook_deliveries"
    BY <1>1, <1>2, <1>3, ScopedSettings
  <2>2. x.table = "webhook_deliveries" => x.event \in Kept /\ row[x.event].table = "events" /\ row[x.event].org = x.org
    BY <1>1 DEF Tn!References
  <2>3. x.table = "webhook_deliveries" => row[x.event] # Tn!NoRow
    BY <2>2, <1>3, NothingBegun, PlatformAssumption
  <2>4. old.as = "withDispatcher" => old.org = None
    BY CallerAt
  <2> QED BY <1>3, <2>1, <2>2, <2>3, <2>4
<1> HIDE DEF x
<1>5. tenancyRequest' = [tenancyRequest EXCEPT ![r] = q]
  BY <1>1, CallerAt
<1>6. /\ q \in TenancyRows /\ q.step = "scoped" /\ q.as = old.as /\ q.org = old.org /\ q.on = old.on
      /\ q.before = old.before /\ q.seen = old.seen /\ q.failed = old.failed /\ q.new = x
  BY <1>1, <1>2, <1>3 DEF TenancyRows
<1> HIDE DEF q
<1>7. (q.as # "withTenant" => q.org = None) /\ q.seen \subseteq {y \in Kept : row[y] # Tn!NoRow} /\ ~q.failed
  BY <1>6, CallerAt
<1>8. \A y \in q.seen : Tn!Meant(q, row[y])
  BY <1>6, CallerAt DEF Tn!Meant
<1>9. Tn!RowsOfOwner' /\ EventsThere' /\ session' \in [Connections -> Tn!Session] /\ row' \in [Kept -> Tn!Row]
  BY <1>1, CallerAt DEF Tn!RowsOfOwner, EventsThere
<1>10. session'[q.on] = Tn!Scoped(q.before, q)
  BY <1>1, <1>2, <1>6 DEF Tn!Scoped
<1>11. \A p \in Callers : p # r /\ tenancyRequest[p].step \in Begun => tenancyRequest[p].on # q.on
  BY <1>2, <1>6, CallerAt
<1> HIDE DEF old
<1> QED BY <1>1, <1>2, <1>4, <1>5, <1>6, <1>7, <1>8, <1>9, <1>10, <1>11, CallersStep DEF old

(* A statement outside any transaction finds settings that say nothing.    *)
LEMMA QueryStep ==
    ASSUME TenancyInv, NEW r \in Callers, NEW t \in Tn!Tables, NEW c \in Connections, Tn!Query(r, t, c)
    PROVE  TenancyInv'
<1> DEFINE base == [Tn!Idle EXCEPT !.step = "answered", !.as = "db"]
<1>1. /\ tenancyRequest[r] = Tn!Idle /\ \A p \in Callers : tenancyRequest[p].on # c
      /\ row' = row /\ session' = session
      /\ tenancyRequest' = [tenancyRequest EXCEPT ![r] = Tn!Answer(base, session[c], t)]
  BY DEF Tn!Query, Tn!Free
<1>2. session[c] \in Clean
  BY <1>1 DEF TenancyInv, Settings
<1>3. {x \in Tn!Stored(t) : Tn!Visible(session[c], row[x])} = {}
  <2> SUFFICES ASSUME NEW x \in Tn!Stored(t), Tn!Visible(session[c], row[x]) PROVE FALSE
    OBVIOUS
  <2> QED BY <1>2, CleanSettings, PlatformAssumption DEF Tn!Visible, Tn!Own
<1>4. /\ base \in TenancyRows /\ base.seen = {} /\ base.step = "answered" /\ ~base.failed /\ base.new = Tn!NoRow /\ base.org = None
  BY NothingBegun DEF TenancyRows
<1>5. Tn!Answer(base, session[c], t) = base
  <2>1. Tn!Castable(session[c])
    BY <1>2, CleanSettings DEF Tn!Castable
  <2>2. Tn!Answer(base, session[c], t) = [base EXCEPT !.seen = base.seen \cup {}]
    BY <2>1, <1>3 DEF Tn!Answer
  <2> HIDE DEF base
  <2> QED BY <2>2, <1>4 DEF TenancyRows
<1> HIDE DEF base
<1>6. Tn!RowsOfOwner' /\ EventsThere'
  BY <1>1, CallerAt DEF Tn!RowsOfOwner, EventsThere
<1>7. "answered" \notin Begun \cup {"scoped"} /\ tenancyRequest[r].step \notin Begun
  BY <1>1, NothingBegun DEF Begun
<1> QED BY <1>1, <1>4, <1>5, <1>6, <1>7, CallerAt, CallersStep

LEMMA AnsweredStep ==
    ASSUME TenancyInv, NEW r \in Callers, Tn!Answered(r)
    PROVE  TenancyInv'
<1>1. /\ tenancyRequest[r].step = "answered" /\ row' = row /\ session' = session
      /\ tenancyRequest' = [tenancyRequest EXCEPT ![r] = Tn!Idle]
  BY DEF Tn!Answered
<1>2. Tn!RowsOfOwner' /\ EventsThere'
  BY <1>1, CallerAt DEF Tn!RowsOfOwner, EventsThere
<1>3. {"answered", "idle"} \cap (Begun \cup {"scoped"}) = {}
  BY DEF Begun
<1> QED BY <1>1, <1>2, <1>3, NothingBegun, CallerAt, CallersStep

LEMMA TenancyNextStep == TenancyInv /\ (Tn!Next \/ UNCHANGED tenancyVars) => TenancyInv'
<1> SUFFICES ASSUME TenancyInv, Tn!Next \/ UNCHANGED tenancyVars PROVE TenancyInv'
  OBVIOUS
<1>1. ASSUME NEW r \in Callers, Tn!Transaction(r) PROVE TenancyInv'
  BY <1>1, BeginStep, SetConfigStep, EndStep DEF Tn!Transaction
<1>2. ASSUME NEW r \in Callers, Tn!Statement(r) PROVE TenancyInv'
  BY <1>2, SelectStep, InsertStep, QueryStep, AnsweredStep DEF Tn!Statement
<1>3. CASE UNCHANGED tenancyVars
  <2>1. UNCHANGED <<row, session, tenancyRequest>>
    BY <1>3 DEF tenancyVars
  <2> QED BY <2>1 DEF TenancyInv, Tn!TypeOK, Tn!Isolated, Tn!RowsOfOwner, Tn!NeverFails,
                      OnOneConnection, Settings, Pending, Scopeless, EventsThere
<1> QED BY <1>1, <1>2, <1>3, ReconnectStep DEF Tn!Next

-----------------------------------------------------------------------------
(* Requests: a key is held by one transaction until it is recorded, and    *)
(* the files a request will remove belong to rows it takes away.           *)

KeyRows == [ask : Rq!Asks, answer : Requests]
Early   == {"unsent", "claiming", "replaying", "handling"}
Putting == {"upload document", "attach", "add receipt"}

Belongs(op) ==
    CASE op = "upload document" -> "client" [] op = "attach" -> "task" [] op = "add receipt" -> "expense" [] OTHER -> None

RequestsShape ==
    /\ request \in [Requests -> Rq!RequestRows]
    /\ \A r \in Requests : request[r].step # "unsent" => request[r].ask \in Rq!Asks
    /\ keyRow \in [Keys -> KeyRows \cup {Rq!Forgotten}]
    /\ did \in [Keys -> SUBSET Requests]
    /\ holder \in [Requests -> Rq!Parents \cup {"client", None}]
    /\ logo \in Requests \cup {None} /\ gone \subseteq Rq!Parents
    /\ stored \subseteq Requests /\ unheard \subseteq Requests

KeysHeld ==
    /\ \A r, q \in Requests : /\ {request[r].step, request[q].step} \subseteq {"handling", "writing"}
                              /\ request[r].key = request[q].key /\ request[r].key \in Keys
                              => r = q
    /\ \A r \in Requests : request[r].step \in {"handling", "writing"} /\ request[r].key \in Keys =>
                              keyRow[request[r].key] = Rq!Forgotten
    /\ \A r \in Requests : request[r].step = "replaying" => request[r].key \in Keys

KeysRecorded ==
    \A k \in Keys :
       /\ keyRow[k] = Rq!Forgotten => did[k] = {}
       /\ keyRow[k] # Rq!Forgotten =>
             LET by == keyRow[k].answer IN
             did[k] = {by} /\ request[by].step # "unsent" /\ request[by].key = k /\ request[by].ask = keyRow[k].ask

AnswersGiven ==
    \A r \in Requests : request[r].step = "answered" =>
       LET by == request[r].answer IN
       /\ by \in Requests /\ request[by].step # "unsent"
       /\ request[by].key = request[r].key /\ request[by].ask = request[r].ask
       /\ by # r => request[r].key \in Keys

(* A row, or the logo, names the file of the request that wrote it.        *)
RowsNamed ==
    /\ \A r \in Requests : holder[r] # None =>
          request[r].step \notin Early \cup {"writing"} /\ holder[r] = Belongs(request[r].ask.op)
    /\ logo # None => request[logo].step \notin Early \cup {"writing"} /\ request[logo].ask.op = "upload logo"
    /\ \A r \in Requests : holder[r] # None \/ logo = r =>
          request[r].step \in {"committed", "answered", "lost"} \/ r \in unheard
    /\ \A r \in Requests : holder[r] \notin gone

(* What a request removes when it has committed.                           *)
Removes(q, f) ==
    CASE q.ask.op = "delete file"    -> f = q.ask.of /\ request[f].ask.op \in Putting
      [] q.ask.op = "delete task"    -> request[f].ask.op = "attach"
      [] q.ask.op = "delete expense" -> request[f].ask.op = "add receipt"
      [] q.ask.op \in {"upload logo", "remove logo"} -> request[f].ask.op = "upload logo"
      [] OTHER -> FALSE

FilesRemoved ==
    \A r \in Requests :
       /\ request[r].step \in Early => request[r].drop = {}
       /\ \A f \in request[r].drop :
             /\ request[f].step \notin Early \cup {"writing"} /\ Removes(request[r], f)
             /\ request[r].step = "committed" => holder[f] = None /\ logo # f
       /\ request[r].step = "writing" /\ request[r].ask.op = "delete file" => request[r].ask.of \in request[r].drop
       /\ request[r].step = "writing" /\ request[r].ask.op = "delete expense" =>
             \A f \in Requests : holder[f] = "expense" => f \in request[r].drop

FilesStored ==
    /\ \A r \in Requests : request[r].step \in Early \cup {"failed"} => r \notin stored
    /\ \A r \in Requests : request[r].step = "writing" /\ request[r].ask.op \in Putting \cup {"upload logo"} => r \in stored
    /\ \A r \in Requests : holder[r] # None \/ logo = r => r \in stored \cup unheard
    /\ \A r \in stored :
          request[r].ask.op = "add receipt" /\ holder[r] = None /\ request[r].step \in {"committed", "answered"} =>
             unheard # {} \/ \E q \in Requests : request[q].step \in {"committed", "lost"} /\ r \in request[q].drop

RequestsInv ==
    /\ RequestsShape /\ KeysHeld /\ KeysRecorded /\ AnswersGiven
    /\ RowsNamed /\ FilesRemoved /\ FilesStored

(* The parts count with an operator of their own, which is the same one.   *)
LEMMA SameCardinality == \A S : Rq!Cardinality(S) = Cardinality(S)
  BY DEF Rq!Cardinality, Cardinality

LEMMA RequestsInvHolds == RequestsInv => Rq!TypeOK /\ Rq!OncePerKey /\ Rq!FilesFollowRows
<1> SUFFICES ASSUME RequestsInv PROVE Rq!TypeOK /\ Rq!OncePerKey /\ Rq!FilesFollowRows
  OBVIOUS
<1>1. Rq!TypeOK
  <2>1. \A k \in Keys : keyRow[k] # Rq!Forgotten => /\ keyRow[k].answer \in did[k]
                                                   /\ keyRow[k].ask = request[keyRow[k].answer].ask
    BY DEF RequestsInv, KeysRecorded
  <2> QED BY <2>1 DEF RequestsInv, RequestsShape, RowsNamed, Rq!TypeOK
<1>2. Rq!OncePerKey
  <2>1. \A k \in Keys : Cardinality(did[k]) <= 1
    <3> SUFFICES ASSUME NEW k \in Keys PROVE Cardinality(did[k]) <= 1
      OBVIOUS
    <3>1. did[k] = {} \/ did[k] = {keyRow[k].answer}
      BY DEF RequestsInv, KeysRecorded
    <3>2. Cardinality({}) = 0 /\ Cardinality({keyRow[k].answer}) = 1
      BY FS_EmptySet, FS_Singleton
    <3> QED BY <3>1, <3>2
  <2>2. ASSUME NEW r \in Requests, Rq!At(r, "answered")
        PROVE  /\ request[r].answer # None
               /\ request[request[r].answer].key = request[r].key
               /\ request[request[r].answer].ask = request[r].ask
               /\ request[r].answer # r => request[r].key # None
    <3>1. request[r].step = "answered"
      BY <2>2 DEF Rq!At
    <3>2. /\ request[r].answer \in Requests
          /\ request[request[r].answer].key = request[r].key
          /\ request[request[r].answer].ask = request[r].ask
          /\ request[r].answer # r => request[r].key \in Keys
      BY <3>1 DEF RequestsInv, AnswersGiven
    <3>3. None \notin Requests /\ None \notin Keys
      BY PlatformAssumption
    <3> QED BY <3>2, <3>3
  <2>3. \A r \in Requests : Rq!At(r, "answered") =>
           /\ request[r].answer # None
           /\ request[request[r].answer].key = request[r].key /\ request[request[r].answer].ask = request[r].ask
           /\ request[r].answer # r => request[r].key # None
    BY <2>2
  <2> QED BY <2>1, <2>3, SameCardinality DEF Rq!OncePerKey
<1>3. Rq!FilesFollowRows
  <2>1. \A r \in stored : request[r].step \in Rq!InFlight \cup {"lost", "answered"}
    BY DEF RequestsInv, FilesStored, RequestsShape, Rq!RequestRows, Early
  <2>2. ASSUME NEW r \in stored, request[r].ask.op = "add receipt", holder[r] = None
        PROVE  \E q \in Requests : \/ request[q].step \in Rq!InFlight \cup {"lost"} /\ (q = r \/ r \in request[q].drop)
                                   \/ q \in unheard
    <3>1. CASE request[r].step = "answered"
      <4>1. CASE unheard # {}
        BY <4>1 DEF RequestsInv, RequestsShape
      <4>2. CASE unheard = {}
        <5>1. PICK q \in Requests : request[q].step \in {"committed", "lost"} /\ r \in request[q].drop
          BY <4>2, <3>1, <2>2 DEF RequestsInv, FilesStored
        <5> QED BY <5>1 DEF Rq!InFlight
      <4> QED BY <4>1, <4>2
    <3>2. CASE request[r].step # "answered"
      BY <3>2, <2>1 DEF RequestsInv, RequestsShape
    <3> QED BY <3>1, <3>2
  <2> QED BY <2>2 DEF RequestsInv, FilesStored, Rq!FilesFollowRows
<1> QED BY <1>1, <1>2, <1>3

LEMMA RequestsInit == Rq!Init => RequestsInv
<1> SUFFICES ASSUME Rq!Init PROVE RequestsInv
  OBVIOUS
<1>1. /\ request = [r \in Requests |-> Rq!Unsent] /\ keyRow = [k \in Keys |-> Rq!Forgotten]
      /\ holder = [r \in Requests |-> None] /\ logo = None /\ gone = {} /\ stored = {} /\ unheard = {}
      /\ did = [k \in Keys |-> {}]
  BY DEF Rq!Init
<1>2. Rq!Unsent \in Rq!RequestRows /\ Rq!Unsent.step = "unsent" /\ Rq!Unsent.drop = {}
  BY DEF Rq!Unsent, Rq!RequestRows
<1>3. RequestsShape
  BY <1>1, <1>2 DEF RequestsShape
<1>4. KeysHeld /\ KeysRecorded /\ AnswersGiven
  BY <1>1, <1>2 DEF KeysHeld, KeysRecorded, AnswersGiven
<1>5. RowsNamed /\ FilesRemoved /\ FilesStored
  BY <1>1, <1>2, PlatformAssumption DEF RowsNamed, FilesRemoved, FilesStored
<1> QED BY <1>3, <1>4, <1>5 DEF RequestsInv

(* One request's row changes, and nothing else is known of it than this.   *)
Changes(r) ==
    /\ request' \in [Requests -> Rq!RequestRows]
    /\ \A q \in Requests : q # r => request'[q] = request[q]
Keeps(r) ==
    /\ Changes(r)
    /\ request'[r].key = request[r].key /\ request'[r].ask = request[r].ask
Steps == {"unsent", "answered", "failed", "lost"} \cup Rq!InFlight

LEMMA ToRow ==
  ASSUME RequestsShape, NEW r \in Requests, NEW s \in Steps, request' = Rq!To(r, s)
  PROVE  Keeps(r) /\ request'[r].step = s /\ request'[r].drop = request[r].drop /\ request'[r].answer = request[r].answer
<1>1. request[r] \in Rq!RequestRows /\ request \in [Requests -> Rq!RequestRows]
  BY DEF RequestsShape
<1>2. request' = [request EXCEPT ![r] = [request[r] EXCEPT !.step = s]]
  BY DEF Rq!To
<1>3. [request[r] EXCEPT !.step = s] \in Rq!RequestRows
  BY <1>1 DEF Rq!RequestRows, Steps
<1>4. request'[r] = [request[r] EXCEPT !.step = s]
  BY <1>1, <1>2
<1>5. Changes(r)
  BY <1>1, <1>2, <1>3 DEF Changes
<1> QED BY <1>1, <1>4, <1>5 DEF Keeps, Rq!RequestRows

(* A step that changes what one request is doing, and no row or file.      *)
LEMMA QuietStep ==
  ASSUME RequestsInv, NEW r \in Requests, Keeps(r), request'[r].drop = request[r].drop,
         UNCHANGED <<keyRow, holder, logo, gone, stored, did, unheard>>,
         \/ /\ request[r].step = "claiming" /\ request'[r].step = "handling"
            /\ request[r].key \in Keys => Rq!Holding(request[r].key) = {} /\ keyRow[request[r].key] = Rq!Forgotten
         \/ request[r].step = "claiming" /\ request'[r].step = "replaying" /\ request[r].key \in Keys
         \/ /\ request[r].step = "replaying" /\ request'[r].step = "answered"
            /\ request[r].key \in Keys /\ keyRow[request[r].key] # Rq!Forgotten
            /\ keyRow[request[r].key].ask = request[r].ask /\ request'[r].answer = keyRow[request[r].key].answer
         \/ request[r].step \in Early \cup {"writing"} /\ request[r].step # "unsent" /\ request'[r].step = "aborted"
         \/ request[r].step # "unsent" /\ request'[r].step = "lost"
  PROVE  RequestsInv'
<1>0. /\ \A q \in Requests : q # r => request'[q] = request[q]
      /\ \A q \in Requests : request'[q].key = request[q].key /\ request'[q].ask = request[q].ask /\ request'[q].drop = request[q].drop
      /\ request[r].step # "unsent" /\ request'[r].step \in {"handling", "replaying", "answered", "aborted", "lost"}
  BY DEF Keeps, Changes
<1>1. RequestsShape'
  BY <1>0 DEF RequestsInv, RequestsShape, Keeps, Changes
<1>2. KeysHeld'
  <2>1. KeysHeld
    BY DEF RequestsInv
  <2>2. CASE request'[r].step \notin {"handling", "replaying"}
    BY <1>0, <2>1, <2>2 DEF KeysHeld
  <2>3. CASE request'[r].step = "handling"
    <3>1. request[r].key \in Keys => keyRow[request[r].key] = Rq!Forgotten
      BY <2>3
    <3>2. ASSUME NEW q \in Requests, request[q].step \in {"handling", "writing"}, request[q].key = request[r].key,
                 request[r].key \in Keys
          PROVE  FALSE
      BY <2>3, <3>2 DEF Rq!Holding
    <3> QED BY <1>0, <2>1, <2>3, <3>1, <3>2 DEF KeysHeld
  <2>4. CASE request'[r].step = "replaying"
    BY <1>0, <2>1, <2>4 DEF KeysHeld
  <2> QED BY <1>0, <2>2, <2>3, <2>4
<1>3. KeysRecorded'
  <2>1. ASSUME NEW k \in Keys, keyRow[k] # Rq!Forgotten
        PROVE  /\ keyRow[k].answer \in Requests /\ did[k] = {keyRow[k].answer}
               /\ request'[keyRow[k].answer].step # "unsent"
               /\ request'[keyRow[k].answer].key = k /\ request'[keyRow[k].answer].ask = keyRow[k].ask
    <3>1. keyRow[k] \in KeyRows
      BY <2>1 DEF RequestsInv, RequestsShape
    <3>2. keyRow[k].answer \in Requests
      BY <3>1 DEF KeyRows
    <3> QED BY <1>0, <2>1, <3>2 DEF RequestsInv, KeysRecorded
  <2>2. \A k \in Keys : keyRow[k] = Rq!Forgotten => did[k] = {}
    BY DEF RequestsInv, KeysRecorded
  <2> QED BY <2>1, <2>2 DEF KeysRecorded
<1>4. AnswersGiven'
  <2>1. ASSUME NEW q \in Requests, request'[q].step = "answered", q # r
        PROVE  /\ request'[q].answer \in Requests /\ request'[request'[q].answer].step # "unsent"
               /\ request'[request'[q].answer].key = request'[q].key /\ request'[request'[q].answer].ask = request'[q].ask
               /\ request'[q].answer # q => request'[q].key \in Keys
    <3>1. request[q].step = "answered" /\ request'[q] = request[q]
      BY <1>0, <2>1
    <3>2. /\ request[q].answer \in Requests /\ request[request[q].answer].step # "unsent"
          /\ request[request[q].answer].key = request[q].key /\ request[request[q].answer].ask = request[q].ask
          /\ request[q].answer # q => request[q].key \in Keys
      BY <3>1 DEF RequestsInv, AnswersGiven
    <3> QED BY <1>0, <3>1, <3>2
  <2>2. ASSUME request'[r].step = "answered"
        PROVE  /\ request'[r].answer \in Requests /\ request'[request'[r].answer].step # "unsent"
               /\ request'[request'[r].answer].key = request'[r].key /\ request'[request'[r].answer].ask = request'[r].ask
               /\ request'[r].answer # r => request'[r].key \in Keys
    <3>1. /\ request[r].key \in Keys /\ keyRow[request[r].key] # Rq!Forgotten
          /\ keyRow[request[r].key].ask = request[r].ask /\ request'[r].answer = keyRow[request[r].key].answer
      BY <2>2
    <3>2. keyRow[request[r].key] \in KeyRows
      BY <3>1 DEF RequestsInv, RequestsShape
    <3>3. keyRow[request[r].key].answer \in Requests
      BY <3>2 DEF KeyRows
    <3>4. LET by == keyRow[request[r].key].answer IN
          request[by].step # "unsent" /\ request[by].key = request[r].key /\ request[by].ask = request[r].ask
      BY <3>1 DEF RequestsInv, KeysRecorded
    <3> QED BY <1>0, <3>1, <3>3, <3>4
  <2> QED BY <2>1, <2>2 DEF AnswersGiven
<1>5. RowsNamed'
  <2>1. RowsNamed
    BY DEF RequestsInv
  <2>2. logo # None => logo \in Requests
    BY DEF RequestsInv, RequestsShape
  <2> QED BY <1>0, <2>1, <2>2 DEF RowsNamed, Early
<1>6. FilesRemoved'
  <2>1. ASSUME NEW q \in Requests
        PROVE  /\ request'[q].step \in Early => request'[q].drop = {}
               /\ request'[q].step = "writing" /\ request'[q].ask.op = "delete file" => request'[q].ask.of \in request'[q].drop
               /\ request'[q].step = "writing" /\ request'[q].ask.op = "delete expense" =>
                     \A f \in Requests : holder[f] = "expense" => f \in request'[q].drop
               /\ request'[q].step = "committed" => request[q].step = "committed"
    BY <1>0 DEF RequestsInv, FilesRemoved, Early
  <2>2. ASSUME NEW q \in Requests, NEW f \in request'[q].drop
        PROVE  /\ request'[f].step \notin Early \cup {"writing"} /\ Removes(request[q], f)'
               /\ request'[q].step = "committed" => holder[f] = None /\ logo # f
    <3>1. f \in request[q].drop /\ f \in Requests
      BY <1>0, <2>2 DEF RequestsInv, RequestsShape, Rq!RequestRows
    <3>2. request[f].step \notin Early \cup {"writing"} /\ Removes(request[q], f)
      BY <3>1 DEF RequestsInv, FilesRemoved
    <3>3. request[q].step = "committed" => holder[f] = None /\ logo # f
      BY <3>1 DEF RequestsInv, FilesRemoved
    <3>4. Removes(request[q], f)'
      BY <1>0, <3>1, <3>2 DEF Removes
    <3>5. request'[f].step \notin Early \cup {"writing"}
      BY <1>0, <3>1, <3>2 DEF Early
    <3> QED BY <2>1, <3>3, <3>4, <3>5
  <2> QED BY <2>1, <2>2 DEF FilesRemoved
<1>7. FilesStored'
  <2>1. FilesStored
    BY DEF RequestsInv
  <2>2. \A q \in Requests : request'[q].step \in Early \cup {"failed"} => q \notin stored
    BY <1>0, <2>1 DEF FilesStored, Early
  <2>3. \A q \in Requests : request'[q].step = "writing" /\ request'[q].ask.op \in Putting \cup {"upload logo"} => q \in stored
    BY <1>0, <2>1 DEF FilesStored
  <2>4. ASSUME NEW q \in stored, request'[q].ask.op = "add receipt", holder[q] = None,
               request'[q].step \in {"committed", "answered"}
        PROVE  unheard # {} \/ \E w \in Requests : request'[w].step \in {"committed", "lost"} /\ q \in request'[w].drop
    <3>1. q \in Requests
      BY DEF RequestsInv, RequestsShape
    <3>2. request[q].step \in {"committed", "answered"}
      BY <1>0, <2>1, <2>4, <3>1 DEF FilesStored, Early
    <3>3. unheard # {} \/ \E w \in Requests : request[w].step \in {"committed", "lost"} /\ q \in request[w].drop
      BY <1>0, <2>1, <2>4, <3>1, <3>2 DEF FilesStored
    <3> QED BY <1>0, <3>3 DEF Early
  <2> QED BY <2>1, <2>2, <2>3, <2>4 DEF FilesStored
<1> QED BY <1>1, <1>2, <1>3, <1>4, <1>5, <1>6, <1>7 DEF RequestsInv

LEMMA QuietSteps ==
  ASSUME RequestsInv, NEW r \in Requests, Rq!Claim(r) \/ Rq!Replay(r) \/ Rq!RollBack(r) \/ Rq!Crash(r)
  PROVE  RequestsInv'
<1>0. /\ RequestsShape /\ request[r] \in Rq!RequestRows
      /\ UNCHANGED <<keyRow, holder, logo, gone, stored, did, unheard>>
  BY DEF RequestsInv, RequestsShape, Rq!Claim, Rq!Replay, Rq!RollBack, Rq!Crash, Rq!database
<1>1. CASE Rq!Claim(r)
  <2>1. request[r].step = "claiming"
    BY <1>1 DEF Rq!Claim, Rq!At
  <2>2. CASE request[r].key # None /\ keyRow[request[r].key] # Rq!Forgotten
    <3>1. request' = Rq!To(r, "replaying")
      BY <1>1, <2>2 DEF Rq!Claim
    <3>2. Keeps(r) /\ request'[r].step = "replaying" /\ request'[r].drop = request[r].drop
      BY <1>0, <3>1, ToRow DEF Steps, Rq!InFlight
    <3>3. request[r].key \in Keys
      BY <1>0, <2>2 DEF Rq!RequestRows
    <3> QED BY <1>0, <2>1, <3>2, <3>3, QuietStep
  <2>3. CASE ~(request[r].key # None /\ keyRow[request[r].key] # Rq!Forgotten)
    <3>1. request' = Rq!To(r, "handling")
      BY <1>1, <2>3 DEF Rq!Claim
    <3>2. Keeps(r) /\ request'[r].step = "handling" /\ request'[r].drop = request[r].drop
      BY <1>0, <3>1, ToRow DEF Steps, Rq!InFlight
    <3>3. request[r].key \in Keys => Rq!Holding(request[r].key) = {} /\ keyRow[request[r].key] = Rq!Forgotten
      BY <1>1, <2>3, PlatformAssumption DEF Rq!Claim, Rq!Claimable
    <3> QED BY <1>0, <2>1, <3>2, <3>3, QuietStep
  <2> QED BY <2>2, <2>3
<1>2. CASE Rq!Replay(r)
  <2>1. request[r].step = "replaying" /\ request[r].key \in Keys
    BY <1>2 DEF RequestsInv, KeysHeld, Rq!Replay, Rq!At
  <2> DEFINE row_ == keyRow[request[r].key]
  <2>2. CASE row_ = Rq!Forgotten \/ row_.ask # request[r].ask
    <3>1. request' = Rq!To(r, "aborted")
      BY <1>2, <2>2 DEF Rq!Replay
    <3>2. Keeps(r) /\ request'[r].step = "aborted" /\ request'[r].drop = request[r].drop
      BY <1>0, <3>1, ToRow DEF Steps, Rq!InFlight
    <3> QED BY <1>0, <2>1, <3>2, QuietStep DEF Early
  <2>3. CASE row_ # Rq!Forgotten /\ row_.ask = request[r].ask
    <3>1. request' = [request EXCEPT ![r].step = "answered", ![r].answer = row_.answer]
      BY <1>2, <2>3 DEF Rq!Replay
    <3>2. row_ \in KeyRows
      BY <2>1, <2>3, <1>0 DEF RequestsShape
    <3>3. row_.answer \in Requests
      BY <3>2 DEF KeyRows
    <3> HIDE DEF row_
    <3> DEFINE new == [request[r] EXCEPT !.step = "answered", !.answer = row_.answer]
    <3>4. new \in Rq!RequestRows /\ new.step = "answered" /\ new.answer = row_.answer
          /\ new.key = request[r].key /\ new.ask = request[r].ask /\ new.drop = request[r].drop
      BY <1>0, <3>3 DEF Rq!RequestRows
    <3>5. request' = [request EXCEPT ![r] = new] /\ request \in [Requests -> Rq!RequestRows]
      BY <1>0, <3>1 DEF RequestsShape
    <3> HIDE DEF new
    <3>6. Keeps(r) /\ request'[r] = new
      BY <3>4, <3>5 DEF Keeps, Changes
    <3>7. row_ = keyRow[request[r].key]
      BY DEF row_
    <3> QED BY <1>0, <2>1, <2>3, <3>4, <3>6, <3>7, QuietStep
  <2> QED BY <2>2, <2>3
<1>3. CASE Rq!RollBack(r)
  <2>1. request[r].step \in Early \cup {"writing"} /\ request[r].step # "unsent" /\ request' = Rq!To(r, "aborted")
    BY <1>3 DEF Rq!RollBack, Early
  <2>2. Keeps(r) /\ request'[r].step = "aborted" /\ request'[r].drop = request[r].drop
    BY <1>0, <2>1, ToRow DEF Steps, Rq!InFlight
  <2> QED BY <1>0, <2>1, <2>2, QuietStep
<1>4. CASE Rq!Crash(r)
  <2>1. request[r].step # "unsent" /\ request' = Rq!To(r, "lost")
    BY <1>4 DEF Rq!Crash, Rq!InFlight
  <2>2. Keeps(r) /\ request'[r].step = "lost" /\ request'[r].drop = request[r].drop
    BY <1>0, <2>1, ToRow DEF Steps, Rq!InFlight
  <2> QED BY <1>0, <2>1, <2>2, QuietStep
<1> QED BY <1>1, <1>2, <1>3, <1>4

(* A request begins: it is not yet known to any row.                       *)
LEMMA ExecuteStep ==
  ASSUME RequestsInv, NEW r \in Requests, NEW k \in Keys \cup {None}, NEW a \in Rq!Asks, Rq!ExecuteProcedure(r, k, a)
  PROVE  RequestsInv'
<1> DEFINE new == [Rq!Unsent EXCEPT !.step = "claiming", !.key = k, !.ask = a]
<1>0. /\ request[r].step = "unsent" /\ request' = [request EXCEPT ![r] = new]
      /\ UNCHANGED <<keyRow, holder, logo, gone, stored, did, unheard>>
  BY DEF Rq!ExecuteProcedure, Rq!At, Rq!database
<1>1. new \in Rq!RequestRows /\ new.step = "claiming" /\ new.ask = a /\ new.drop = {}
  BY DEF Rq!RequestRows, Rq!Unsent, Rq!InFlight
<1> HIDE DEF new
<1>2. /\ request' \in [Requests -> Rq!RequestRows] /\ request'[r] = new
      /\ \A q \in Requests : q # r => request'[q] = request[q]
  BY <1>0, <1>1 DEF RequestsInv, RequestsShape
<1>3. RequestsShape'
  BY <1>0, <1>1, <1>2 DEF RequestsInv, RequestsShape
<1>4. KeysHeld'
  <2>1. KeysHeld
    BY DEF RequestsInv
  <2> QED BY <1>0, <1>1, <1>2, <2>1 DEF KeysHeld
<1>5. KeysRecorded'
  <2>1. ASSUME NEW j \in Keys, keyRow[j] # Rq!Forgotten
        PROVE  /\ did[j] = {keyRow[j].answer} /\ request'[keyRow[j].answer].step # "unsent"
               /\ request'[keyRow[j].answer].key = j /\ request'[keyRow[j].answer].ask = keyRow[j].ask
    <3>1. keyRow[j] \in KeyRows
      BY <2>1 DEF RequestsInv, RequestsShape
    <3>2. keyRow[j].answer \in Requests
      BY <3>1 DEF KeyRows
    <3> QED BY <1>0, <1>2, <2>1, <3>2 DEF RequestsInv, KeysRecorded
  <2>2. \A j \in Keys : keyRow[j] = Rq!Forgotten => did[j] = {}
    BY DEF RequestsInv, KeysRecorded
  <2> QED BY <1>0, <2>1, <2>2 DEF KeysRecorded
<1>6. AnswersGiven'
  <2>1. ASSUME NEW q \in Requests, request'[q].step = "answered"
        PROVE  /\ request'[q].answer \in Requests /\ request'[request'[q].answer].step # "unsent"
               /\ request'[request'[q].answer].key = request'[q].key /\ request'[request'[q].answer].ask = request'[q].ask
               /\ request'[q].answer # q => request'[q].key \in Keys
    <3>1. request[q].step = "answered" /\ request'[q] = request[q]
      BY <1>1, <1>2, <2>1
    <3>2. /\ request[q].answer \in Requests /\ request[request[q].answer].step # "unsent"
          /\ request[request[q].answer].key = request[q].key /\ request[request[q].answer].ask = request[q].ask
          /\ request[q].answer # q => request[q].key \in Keys
      BY <3>1 DEF RequestsInv, AnswersGiven
    <3> QED BY <1>0, <1>2, <3>1, <3>2
  <2> QED BY <2>1 DEF AnswersGiven
<1>7. RowsNamed'
  <2>1. RowsNamed
    BY DEF RequestsInv
  <2>2. logo # None => logo \in Requests
    BY DEF RequestsInv, RequestsShape
  <2> QED BY <1>0, <1>1, <1>2, <2>1, <2>2 DEF RowsNamed, Early
<1>8. FilesRemoved'
  <2>1. ASSUME NEW q \in Requests
        PROVE  /\ request'[q].step \in Early => request'[q].drop = {}
               /\ request'[q].step = "writing" /\ request'[q].ask.op = "delete file" => request'[q].ask.of \in request'[q].drop
               /\ request'[q].step = "writing" /\ request'[q].ask.op = "delete expense" =>
                     \A f \in Requests : holder[f] = "expense" => f \in request'[q].drop
    BY <1>0, <1>1, <1>2 DEF RequestsInv, FilesRemoved, Early
  <2>2. ASSUME NEW q \in Requests, NEW f \in request'[q].drop
        PROVE  /\ request'[f].step \notin Early \cup {"writing"} /\ Removes(request[q], f)'
               /\ request'[q].step = "committed" => holder[f] = None /\ logo # f
    <3>1. f \in request[q].drop /\ f \in Requests /\ q # r /\ request'[q] = request[q]
      BY <1>1, <1>2, <2>2 DEF RequestsInv, RequestsShape, Rq!RequestRows
    <3>2. request[f].step \notin Early \cup {"writing"} /\ Removes(request[q], f)
          /\ (request[q].step = "committed" => holder[f] = None /\ logo # f)
      BY <3>1 DEF RequestsInv, FilesRemoved
    <3>3. f # r /\ request'[f] = request[f]
      BY <1>0, <1>2, <3>1, <3>2 DEF Early
    <3>4. Removes(request[q], f)'
      BY <1>0, <3>1, <3>2, <3>3 DEF Removes
    <3> QED BY <3>1, <3>2, <3>3, <3>4
  <2> QED BY <1>0, <2>1, <2>2 DEF FilesRemoved
<1>9. FilesStored'
  <2>1. FilesStored
    BY DEF RequestsInv
  <2>2. \A q \in Requests : request'[q].step \in Early \cup {"failed"} => q \notin stored
    BY <1>0, <1>1, <1>2, <2>1 DEF FilesStored, Early
  <2>3. \A q \in Requests : request'[q].step = "writing" /\ request'[q].ask.op \in Putting \cup {"upload logo"} => q \in stored
    BY <1>1, <1>2, <2>1 DEF FilesStored
  <2>4. ASSUME NEW q \in stored, request'[q].ask.op = "add receipt", holder[q] = None,
               request'[q].step \in {"committed", "answered"}
        PROVE  unheard # {} \/ \E w \in Requests : request'[w].step \in {"committed", "lost"} /\ q \in request'[w].drop
    <3>1. q \in Requests
      BY DEF RequestsInv, RequestsShape
    <3>2. q # r /\ request'[q] = request[q]
      BY <1>1, <1>2, <2>4, <3>1
    <3>3. unheard # {} \/ \E w \in Requests : request[w].step \in {"committed", "lost"} /\ q \in request[w].drop
      BY <2>1, <2>4, <3>2 DEF FilesStored
    <3> QED BY <1>0, <1>2, <3>3
  <2> QED BY <1>0, <2>1, <2>2, <2>3, <2>4 DEF FilesStored
<1> QED BY <1>3, <1>4, <1>5, <1>6, <1>7, <1>8, <1>9 DEF RequestsInv

(* A key is forgotten with what was done under it.                         *)
LEMMA PruneStep == ASSUME RequestsInv, NEW k \in Keys, Rq!Prune(k) PROVE RequestsInv'
<1>0. /\ keyRow' = [keyRow EXCEPT ![k] = Rq!Forgotten] /\ did' = [did EXCEPT ![k] = {}]
      /\ UNCHANGED <<request, holder, logo, gone, stored, unheard>>
  BY DEF Rq!Prune
<1>1. /\ RequestsShape /\ KeysHeld /\ KeysRecorded /\ AnswersGiven
      /\ RowsNamed /\ FilesRemoved /\ FilesStored
  BY DEF RequestsInv
<1>2. /\ keyRow' \in [Keys -> KeyRows \cup {Rq!Forgotten}] /\ keyRow'[k] = Rq!Forgotten
      /\ \A j \in Keys : j # k => keyRow'[j] = keyRow[j]
      /\ did' \in [Keys -> SUBSET Requests] /\ did'[k] = {} /\ \A j \in Keys : j # k => did'[j] = did[j]
  BY <1>0, <1>1 DEF RequestsShape
<1>3. RequestsShape'
  BY <1>0, <1>1, <1>2 DEF RequestsShape
<1>4. KeysHeld'
  BY <1>0, <1>1, <1>2 DEF KeysHeld
<1>5. KeysRecorded'
  BY <1>0, <1>1, <1>2 DEF KeysRecorded
<1>6. AnswersGiven' /\ RowsNamed' /\ FilesStored'
  BY <1>0, <1>1 DEF AnswersGiven, RowsNamed, FilesStored
<1>7. FilesRemoved'
  BY <1>0, <1>1 DEF FilesRemoved, Removes
<1> QED BY <1>3, <1>4, <1>5, <1>6, <1>7 DEF RequestsInv

(* The hooks remove what the request was to remove, or what it had put.    *)
LEMMA HooksStep == ASSUME RequestsInv, NEW r \in Requests, Rq!RunHooks(r) PROVE RequestsInv'
<1>0. /\ RequestsShape /\ KeysHeld /\ KeysRecorded /\ AnswersGiven
      /\ RowsNamed /\ FilesRemoved /\ FilesStored
  BY DEF RequestsInv
<1> DEFINE ok == request[r].step = "committed"
<1> DEFINE new == [request[r] EXCEPT !.step = IF ok THEN "answered" ELSE "failed", !.answer = IF ok THEN r ELSE None]
<1>1. /\ request[r].step \in {"committed", "aborted"}
      /\ stored' = stored \ (IF ok THEN request[r].drop ELSE {r})
      /\ UNCHANGED <<keyRow, holder, logo, gone, did, unheard>>
  BY DEF Rq!RunHooks, Rq!Removed, Rq!At, Rq!database
<1>2. request[r] \in Rq!RequestRows /\ request \in [Requests -> Rq!RequestRows]
  BY <1>0 DEF RequestsShape
<1>3. request' = [request EXCEPT ![r] = new]
  BY <1>2 DEF Rq!RunHooks, Rq!At
<1>4. /\ new \in Rq!RequestRows /\ new.step = (IF ok THEN "answered" ELSE "failed") /\ new.answer = (IF ok THEN r ELSE None)
      /\ new.key = request[r].key /\ new.ask = request[r].ask /\ new.drop = request[r].drop
  BY <1>2 DEF Rq!RequestRows
<1> HIDE DEF new
<1>5. /\ request' \in [Requests -> Rq!RequestRows] /\ request'[r] = new
      /\ \A q \in Requests : q # r => request'[q] = request[q]
  BY <1>2, <1>3, <1>4
<1>6. \A q \in Requests : request'[q].key = request[q].key /\ request'[q].ask = request[q].ask /\ request'[q].drop = request[q].drop
  BY <1>4, <1>5
<1>7. stored' \subseteq stored /\ stored \subseteq Requests
  BY <1>0, <1>1 DEF RequestsShape
<1>8. RequestsShape'
  BY <1>0, <1>1, <1>4, <1>5, <1>7 DEF RequestsShape
<1>9. KeysHeld'
  BY <1>0, <1>1, <1>4, <1>5, <1>6 DEF KeysHeld
<1>10. KeysRecorded'
  <2>1. ASSUME NEW j \in Keys, keyRow[j] # Rq!Forgotten
        PROVE  /\ did[j] = {keyRow[j].answer} /\ request'[keyRow[j].answer].step # "unsent"
               /\ request'[keyRow[j].answer].key = j /\ request'[keyRow[j].answer].ask = keyRow[j].ask
    <3>1. keyRow[j] \in KeyRows
      BY <2>1, <1>0 DEF RequestsShape
    <3>2. keyRow[j].answer \in Requests
      BY <3>1 DEF KeyRows
    <3> QED BY <1>0, <1>4, <1>5, <2>1, <3>2 DEF KeysRecorded
  <2>2. \A j \in Keys : keyRow[j] = Rq!Forgotten => did[j] = {}
    BY <1>0 DEF KeysRecorded
  <2> QED BY <1>1, <2>1, <2>2 DEF KeysRecorded
<1>11. AnswersGiven'
  <2>1. ASSUME NEW q \in Requests, request'[q].step = "answered"
        PROVE  /\ request'[q].answer \in Requests /\ request'[request'[q].answer].step # "unsent"
               /\ request'[request'[q].answer].key = request'[q].key /\ request'[request'[q].answer].ask = request'[q].ask
               /\ request'[q].answer # q => request'[q].key \in Keys
    <3>1. CASE q = r
      BY <1>4, <1>5, <2>1, <3>1
    <3>2. CASE q # r
      <4>1. request[q].step = "answered" /\ request'[q] = request[q]
        BY <1>5, <2>1, <3>2
      <4>2. /\ request[q].answer \in Requests /\ request[request[q].answer].step # "unsent"
            /\ request[request[q].answer].key = request[q].key /\ request[request[q].answer].ask = request[q].ask
            /\ request[q].answer # q => request[q].key \in Keys
        BY <4>1, <1>0 DEF AnswersGiven
      <4> QED BY <1>4, <1>5, <4>1, <4>2
    <3> QED BY <3>1, <3>2
  <2> QED BY <2>1 DEF AnswersGiven
<1>12. RowsNamed'
  <2>1. logo # None => logo \in Requests
    BY <1>0 DEF RequestsShape
  <2> QED BY <1>0, <1>1, <1>4, <1>5, <1>6, <2>1 DEF RowsNamed, Early
<1>13. FilesRemoved'
  <2>1. ASSUME NEW q \in Requests
        PROVE  /\ request'[q].step \in Early => request'[q].drop = {}
               /\ request'[q].step = "writing" /\ request'[q].ask.op = "delete file" => request'[q].ask.of \in request'[q].drop
               /\ request'[q].step = "writing" /\ request'[q].ask.op = "delete expense" =>
                     \A f \in Requests : holder[f] = "expense" => f \in request'[q].drop
               /\ request'[q].step = "committed" => request[q].step = "committed"
    BY <1>0, <1>1, <1>4, <1>5, <1>6 DEF FilesRemoved, Early
  <2>2. ASSUME NEW q \in Requests, NEW f \in request'[q].drop
        PROVE  /\ request'[f].step \notin Early \cup {"writing"} /\ Removes(request[q], f)'
               /\ request'[q].step = "committed" => holder[f] = None /\ logo # f
    <3>1. f \in request[q].drop /\ f \in Requests
      BY <1>2, <1>6, <2>2 DEF Rq!RequestRows
    <3>2. /\ request[f].step \notin Early \cup {"writing"} /\ Removes(request[q], f)
          /\ request[q].step = "committed" => holder[f] = None /\ logo # f
      BY <1>0, <3>1 DEF FilesRemoved
    <3>3. Removes(request[q], f)'
      BY <1>6, <3>1, <3>2 DEF Removes
    <3>4. request'[f].step \notin Early \cup {"writing"}
      BY <1>4, <1>5, <3>1, <3>2 DEF Early
    <3> QED BY <2>1, <3>2, <3>3, <3>4
  <2> QED BY <1>1, <2>1, <2>2 DEF FilesRemoved
<1>14. FilesStored'
  <2>1. ASSUME NEW q \in Requests, ok, q \in request[r].drop
        PROVE  request[q].step \notin Early \cup {"writing"} /\ holder[q] = None /\ logo # q
    BY <1>0, <2>1 DEF FilesRemoved
  <2>2. \A q \in Requests : request'[q].step \in Early \cup {"failed"} => q \notin stored'
    BY <1>0, <1>1, <1>4, <1>5, <1>7 DEF FilesStored, Early
  <2>3. \A q \in Requests : request'[q].step = "writing" /\ request'[q].ask.op \in Putting \cup {"upload logo"} => q \in stored'
    BY <1>0, <1>1, <1>4, <1>5, <1>6, <2>1 DEF FilesStored
  <2>4. \A q \in Requests : holder[q] # None \/ logo = q => q \in stored' \cup unheard
    BY <1>0, <1>1, <2>1 DEF FilesStored, RowsNamed
  <2>5. ASSUME NEW q \in stored', request'[q].ask.op = "add receipt", holder[q] = None,
               request'[q].step \in {"committed", "answered"}
        PROVE  unheard # {} \/ \E w \in Requests : request'[w].step \in {"committed", "lost"} /\ q \in request'[w].drop
    <3>1. q \in stored /\ q \in Requests
      BY <1>7
    <3>2. request[q].step \in {"committed", "answered"}
      BY <1>1, <1>4, <1>5, <2>5, <3>1
    <3>3. unheard # {} \/ \E w \in Requests : request[w].step \in {"committed", "lost"} /\ q \in request[w].drop
      BY <1>0, <1>6, <2>5, <3>1, <3>2 DEF FilesStored
    <3>4. ~(ok /\ q \in request[r].drop)
      BY <1>1
    <3> QED BY <1>1, <1>5, <3>3, <3>4
  <2> QED BY <1>1, <2>2, <2>3, <2>4, <2>5 DEF FilesStored
<1> QED BY <1>8, <1>9, <1>10, <1>11, <1>12, <1>13, <1>14 DEF RequestsInv

LEMMA FileAsked == \A a \in Rq!Asks : a.op = "delete file" => a.of \in Requests
<1> SUFFICES ASSUME NEW a \in Rq!Asks, a.op = "delete file" PROVE a.of \in Requests
  OBVIOUS
<1> DEFINE others == {"upload document", "attach", "add receipt", "delete task",
                      "delete expense", "upload logo", "remove logo"}
<1>1. CASE a \in {[op |-> o, of |-> None] : o \in others}
  <2>1. PICK o \in others : a = [op |-> o, of |-> None]
    BY <1>1
  <2>2. a.op = o
    BY <2>1
  <2> QED BY <2>2
<1>2. CASE a \in {[op |-> "delete file", of |-> q] : q \in Requests}
  <2>1. PICK q \in Requests : a = [op |-> "delete file", of |-> q]
    BY <1>2
  <2>2. a.of = q
    BY <2>1, ZenonT(40)
  <2> QED BY <2>2
<1> QED BY <1>1, <1>2 DEF Rq!Asks

(* What a handler has settled when it comes to write: the file it has put, *)
(* or the files it will remove when it has committed.                      *)
LEMMA HandleSettles ==
  ASSUME RequestsInv, NEW r \in Requests, Rq!Handle(r)
  PROVE  \E D \in SUBSET Requests :
            /\ request' = [request EXCEPT ![r] = [request[r] EXCEPT !.step = "writing", !.drop = D]]
            /\ stored' \in {stored, stored \cup {r}}
            /\ request[r].ask.op \in Putting \cup {"upload logo"} => r \in stored'
            /\ \A f \in D : (holder[f] # None \/ logo = f) /\ Removes(request[r], f)
            /\ request[r].ask.op = "delete file" => request[r].ask.of \in D
            /\ request[r].ask.op = "delete expense" => \A f \in Requests : holder[f] = "expense" => f \in D
<1>0. /\ RequestsShape /\ RowsNamed /\ FilesRemoved /\ request[r].step = "handling"
      /\ request[r] \in Rq!RequestRows /\ request[r].ask \in Rq!Asks /\ request[r].drop = {}
  BY DEF RequestsInv, RequestsShape, FilesRemoved, Rq!Handle, Rq!At, Early
<1>1. ASSUME NEW f \in Requests, holder[f] # None
      PROVE  holder[f] = Belongs(request[f].ask.op) /\ request[f].ask.op \in Putting
  BY <1>0, <1>1 DEF RowsNamed, Belongs, Putting
<1>2. logo # None => logo \in Requests /\ request[logo].ask.op = "upload logo"
  BY <1>0 DEF RowsNamed, RequestsShape
<1> DEFINE Row(D) == [request[r] EXCEPT !.step = "writing", !.drop = D]
<1>3. CASE request[r].ask.op \in Putting /\ Rq!Put(r)
  <2>1. Row({}) = [request[r] EXCEPT !.step = "writing"]
    BY <1>0 DEF Rq!RequestRows
  <2>2. request' = [request EXCEPT ![r] = Row({})]
    BY <2>1, <1>3 DEF Rq!Put, Rq!To
  <2>3. stored' = stored \cup {r}
    BY <1>3 DEF Rq!Put
  <2>4. request[r].ask.op \notin {"delete file", "delete expense"}
    BY <1>3 DEF Putting
  <2>5. {} \in SUBSET Requests
    OBVIOUS
  <2> QED BY <2>2, <2>3, <2>4, <2>5
<1>4. ASSUME NEW D \in SUBSET Requests, request' = [request EXCEPT ![r].step = "writing", ![r].drop = D]
      PROVE  request' = [request EXCEPT ![r] = Row(D)]
  BY <1>4, <1>0 DEF RequestsShape
<1>5. CASE Rq!DocumentDelete(r)
  <2>1. /\ request[r].ask.op = "delete file" /\ holder[request[r].ask.of] # None /\ UNCHANGED stored
        /\ request' = [request EXCEPT ![r].step = "writing", ![r].drop = {request[r].ask.of}]
    BY <1>5 DEF Rq!DocumentDelete, Rq!Drops
  <2>2. request[r].ask.of \in Requests
    BY <2>1, <1>0, FileAsked
  <2>3. request' = [request EXCEPT ![r] = Row({request[r].ask.of})]
    BY <2>1, <2>2, <1>4
  <2>4. Removes(request[r], request[r].ask.of)
    BY <2>1, <2>2, <1>1 DEF Removes
  <2>5. request[r].ask.op \notin Putting \cup {"upload logo", "delete expense"}
    BY <2>1 DEF Putting
  <2>6. {request[r].ask.of} \in SUBSET Requests
    BY <2>2
  <2> HIDE DEF Row
  <2> QED BY <2>1, <2>2, <2>3, <2>4, <2>5, <2>6 DEF Row
<1>6. CASE Rq!TaskDelete(r)
  <2>1. /\ request[r].ask.op = "delete task" /\ UNCHANGED stored
        /\ request' = [request EXCEPT ![r].step = "writing", ![r].drop = Rq!Files("task")]
    BY <1>6 DEF Rq!TaskDelete, Rq!Drops
  <2>2. Rq!Files("task") \in SUBSET Requests /\ \A f \in Rq!Files("task") : holder[f] = "task"
    BY DEF Rq!Files
  <2>3. request' = [request EXCEPT ![r] = Row(Rq!Files("task"))]
    BY <2>1, <2>2, <1>4
  <2>4. \A f \in Rq!Files("task") : holder[f] # None
    BY <2>2, PlatformAssumption DEF Rq!Parents
  <2>5. ASSUME NEW f \in Rq!Files("task") PROVE Removes(request[r], f)
    BY <2>1, <2>2, <2>4, <1>1, PlatformAssumption DEF Removes, Belongs, Putting, Rq!Parents
  <2>6. request[r].ask.op \notin Putting \cup {"upload logo", "delete expense", "delete file"}
    BY <2>1 DEF Putting
  <2> HIDE DEF Row
  <2> QED BY <2>1, <2>2, <2>3, <2>4, <2>5, <2>6 DEF Row
<1>7. CASE Rq!ExpenseDelete(r)
  <2>1. /\ request[r].ask.op = "delete expense" /\ UNCHANGED stored
        /\ request' = [request EXCEPT ![r].step = "writing", ![r].drop = Rq!Files("expense")]
    BY <1>7 DEF Rq!ExpenseDelete, Rq!Drops
  <2>2. Rq!Files("expense") \in SUBSET Requests /\ \A f \in Requests : f \in Rq!Files("expense") <=> holder[f] = "expense"
    BY DEF Rq!Files
  <2>3. request' = [request EXCEPT ![r] = Row(Rq!Files("expense"))]
    BY <2>1, <2>2, <1>4
  <2>4. \A f \in Rq!Files("expense") : holder[f] # None
    BY <2>2, PlatformAssumption DEF Rq!Parents
  <2>5. ASSUME NEW f \in Rq!Files("expense") PROVE Removes(request[r], f)
    BY <2>1, <2>2, <2>4, <1>1, PlatformAssumption DEF Removes, Belongs, Putting, Rq!Parents
  <2>6. request[r].ask.op \notin Putting \cup {"upload logo", "delete file"}
    BY <2>1 DEF Putting
  <2> HIDE DEF Row
  <2> QED BY <2>1, <2>2, <2>3, <2>4, <2>5, <2>6 DEF Row
<1>8. CASE Rq!OrganizationUploadLogo(r) \/ Rq!OrganizationRemoveLogo(r)
  <2>1. /\ request[r].ask.op \in {"upload logo", "remove logo"} /\ stored' \in {stored, stored \cup {r}}
        /\ request[r].ask.op = "upload logo" => stored' = stored \cup {r}
        /\ request' = [request EXCEPT ![r].step = "writing", ![r].drop = Rq!OldLogo]
    BY <1>8 DEF Rq!OrganizationUploadLogo, Rq!OrganizationRemoveLogo, Rq!Drops
  <2>2. Rq!OldLogo \in SUBSET Requests /\ \A f \in Rq!OldLogo : logo = f /\ f \in Requests /\ request[f].ask.op = "upload logo"
    BY <1>2 DEF Rq!OldLogo
  <2>3. request' = [request EXCEPT ![r] = Row(Rq!OldLogo)]
    BY <2>1, <2>2, <1>4
  <2>4. \A f \in Rq!OldLogo : Removes(request[r], f)
    BY <2>1, <2>2 DEF Removes
  <2>5. request[r].ask.op \notin Putting \cup {"delete expense", "delete file"}
    BY <2>1 DEF Putting
  <2>6. request[r].ask.op = "upload logo" => r \in stored'
    BY <2>1
  <2> HIDE DEF Row
  <2> QED BY <2>1, <2>2, <2>3, <2>4, <2>5, <2>6 DEF Row
<1> QED BY <1>3, <1>5, <1>6, <1>7, <1>8
        DEF Rq!Handle, Rq!DocumentUpload, Rq!AttachmentUpload, Rq!StoreReceipt, Putting

LEMMA HandleStep == ASSUME RequestsInv, NEW r \in Requests, Rq!Handle(r) PROVE RequestsInv'
<1>0. /\ RequestsShape /\ KeysHeld /\ KeysRecorded /\ AnswersGiven
      /\ RowsNamed /\ FilesRemoved /\ FilesStored
  BY DEF RequestsInv
<1>1. request[r].step = "handling" /\ UNCHANGED <<keyRow, holder, logo, gone, did, unheard>>
  BY DEF Rq!Handle, Rq!At, Rq!database
<1>2. PICK D \in SUBSET Requests :
            /\ request' = [request EXCEPT ![r] = [request[r] EXCEPT !.step = "writing", !.drop = D]]
            /\ stored' \in {stored, stored \cup {r}}
            /\ request[r].ask.op \in Putting \cup {"upload logo"} => r \in stored'
            /\ \A f \in D : (holder[f] # None \/ logo = f) /\ Removes(request[r], f)
            /\ request[r].ask.op = "delete file" => request[r].ask.of \in D
            /\ request[r].ask.op = "delete expense" => \A f \in Requests : holder[f] = "expense" => f \in D
  BY HandleSettles
<1> DEFINE new == [request[r] EXCEPT !.step = "writing", !.drop = D]
<1>3. /\ new \in Rq!RequestRows /\ new.step = "writing" /\ new.drop = D
      /\ new.key = request[r].key /\ new.ask = request[r].ask
  <2>1. request[r] \in Rq!RequestRows
    BY <1>0 DEF RequestsShape
  <2> QED BY <2>1 DEF Rq!RequestRows, Rq!InFlight
<1>4. request' = [request EXCEPT ![r] = new]
  BY <1>2
<1> HIDE DEF new
<1>5. /\ request' \in [Requests -> Rq!RequestRows] /\ request'[r] = new
      /\ \A q \in Requests : q # r => request'[q] = request[q]
  BY <1>0, <1>3, <1>4 DEF RequestsShape
<1>6. \A q \in Requests : request'[q].key = request[q].key /\ request'[q].ask = request[q].ask
  BY <1>3, <1>5
<1>7. stored \subseteq Requests /\ stored' \subseteq Requests /\ stored \subseteq stored'
  BY <1>0, <1>2 DEF RequestsShape
<1>8. RequestsShape'
  BY <1>0, <1>1, <1>3, <1>5, <1>7 DEF RequestsShape
<1>9. KeysHeld'
  BY <1>0, <1>1, <1>3, <1>5, <1>6 DEF KeysHeld
<1>10. KeysRecorded'
  <2>1. ASSUME NEW j \in Keys, keyRow[j] # Rq!Forgotten
        PROVE  /\ did[j] = {keyRow[j].answer} /\ request'[keyRow[j].answer].step # "unsent"
               /\ request'[keyRow[j].answer].key = j /\ request'[keyRow[j].answer].ask = keyRow[j].ask
    <3>1. keyRow[j] \in KeyRows
      BY <2>1, <1>0 DEF RequestsShape
    <3>2. keyRow[j].answer \in Requests
      BY <3>1 DEF KeyRows
    <3> QED BY <1>0, <1>3, <1>5, <2>1, <3>2 DEF KeysRecorded
  <2>2. \A j \in Keys : keyRow[j] = Rq!Forgotten => did[j] = {}
    BY <1>0 DEF KeysRecorded
  <2> QED BY <1>1, <2>1, <2>2 DEF KeysRecorded
<1>11. AnswersGiven'
  <2>1. ASSUME NEW q \in Requests, request'[q].step = "answered"
        PROVE  /\ request'[q].answer \in Requests /\ request'[request'[q].answer].step # "unsent"
               /\ request'[request'[q].answer].key = request'[q].key /\ request'[request'[q].answer].ask = request'[q].ask
               /\ request'[q].answer # q => request'[q].key \in Keys
    <3>1. request[q].step = "answered" /\ request'[q] = request[q]
      BY <1>3, <1>5, <2>1
    <3>2. /\ request[q].answer \in Requests /\ request[request[q].answer].step # "unsent"
          /\ request[request[q].answer].key = request[q].key /\ request[request[q].answer].ask = request[q].ask
          /\ request[q].answer # q => request[q].key \in Keys
      BY <3>1, <1>0 DEF AnswersGiven
    <3> QED BY <1>3, <1>5, <3>1, <3>2
  <2> QED BY <2>1 DEF AnswersGiven
<1>12. RowsNamed'
  <2>1. logo # None => logo \in Requests
    BY <1>0 DEF RequestsShape
  <2> QED BY <1>0, <1>1, <1>5, <1>6, <2>1 DEF RowsNamed, Early
<1>13. FilesRemoved'
  <2>1. ASSUME NEW q \in Requests
        PROVE  /\ request'[q].step \in Early => request'[q].drop = {}
               /\ request'[q].step = "writing" /\ request'[q].ask.op = "delete file" => request'[q].ask.of \in request'[q].drop
               /\ request'[q].step = "writing" /\ request'[q].ask.op = "delete expense" =>
                     \A f \in Requests : holder[f] = "expense" => f \in request'[q].drop
               /\ request'[q].step = "committed" => request[q].step = "committed" /\ request'[q] = request[q]
    <3>1. CASE q = r
      BY <1>2, <1>3, <1>5, <3>1 DEF Early
    <3>2. CASE q # r
      <4>1. request'[q] = request[q]
        BY <1>5, <3>2
      <4> QED BY <1>0, <4>1 DEF FilesRemoved
    <3> QED BY <3>1, <3>2
  <2>2. ASSUME NEW q \in Requests, NEW f \in request'[q].drop
        PROVE  /\ request'[f].step \notin Early \cup {"writing"} /\ Removes(request[q], f)'
               /\ request'[q].step = "committed" => holder[f] = None /\ logo # f
    <3>1. f \in Requests
      BY <1>5, <2>2 DEF Rq!RequestRows
    <3>2. request[f].step \notin Early \cup {"writing"} /\ Removes(request[q], f)
      <4>1. CASE q = r
        <5>1. f \in D
          BY <1>3, <1>5, <2>2, <4>1
        <5>2. (holder[f] # None \/ logo = f) /\ Removes(request[r], f)
          BY <5>1, <1>2
        <5>3. f # None
          BY <3>1, PlatformAssumption
        <5> QED BY <5>2, <5>3, <1>0, <4>1, <3>1 DEF RowsNamed
      <4>2. CASE q # r
        BY <1>0, <1>5, <2>2, <4>2 DEF FilesRemoved
      <4> QED BY <4>1, <4>2
    <3>3. request'[q].step = "committed" => holder[f] = None /\ logo # f
      BY <1>0, <2>1, <2>2 DEF FilesRemoved
    <3>4. Removes(request[q], f)'
      BY <1>6, <3>1, <3>2 DEF Removes
    <3>5. f # r
      BY <3>2, <1>1 DEF Early
    <3> QED BY <1>5, <3>1, <3>2, <3>3, <3>4, <3>5
  <2> QED BY <1>1, <2>1, <2>2 DEF FilesRemoved
<1>14. FilesStored'
  <2>1. \A q \in stored' : q # r => q \in stored
    BY <1>2
  <2>2. \A q \in Requests : request'[q].step \in Early \cup {"failed"} => q \notin stored'
    BY <1>0, <1>3, <1>5, <2>1 DEF FilesStored, Early
  <2>3. \A q \in Requests : request'[q].step = "writing" /\ request'[q].ask.op \in Putting \cup {"upload logo"} => q \in stored'
    BY <1>0, <1>2, <1>5, <1>6, <1>7 DEF FilesStored
  <2>4. \A q \in Requests : holder[q] # None \/ logo = q => q \in stored' \cup unheard
    BY <1>0, <1>7 DEF FilesStored
  <2>5. ASSUME NEW q \in stored', request'[q].ask.op = "add receipt", holder[q] = None,
               request'[q].step \in {"committed", "answered"}
        PROVE  unheard # {} \/ \E w \in Requests : request'[w].step \in {"committed", "lost"} /\ q \in request'[w].drop
    <3>1. q # r /\ q \in Requests /\ q \in stored
      BY <1>3, <1>5, <1>7, <2>1, <2>5
    <3>2. unheard # {} \/ \E w \in Requests : request[w].step \in {"committed", "lost"} /\ q \in request[w].drop
      BY <1>0, <1>5, <2>5, <3>1 DEF FilesStored
    <3> QED BY <1>1, <1>5, <3>2
  <2> QED BY <1>1, <2>2, <2>3, <2>4, <2>5 DEF FilesStored
<1> QED BY <1>8, <1>9, <1>10, <1>11, <1>12, <1>13, <1>14 DEF RequestsInv

Ended(op) == CASE op = "delete task" -> {"task"} [] op = "delete expense" -> {"expense"} [] OTHER -> {}

(* The rows as the transaction leaves them.                                *)
LEMMA WrittenRows ==
  ASSUME RequestsInv, NEW r \in Requests, Rq!Written(r)
  PROVE  /\ Belongs(request[r].ask.op) \notin gone /\ (Belongs(request[r].ask.op) = "expense" => Rq!ExpenseFree)
         /\ gone' = gone \cup Ended(request[r].ask.op)
         /\ holder' \in [Requests -> Rq!Parents \cup {"client", None}]
         /\ holder'[r] = Belongs(request[r].ask.op)
         /\ \A q \in Requests : q # r =>
               holder'[q] = IF holder[q] \in Ended(request[r].ask.op) \/ (request[r].ask.op = "delete file" /\ q = request[r].ask.of)
                            THEN None ELSE holder[q]
         /\ logo' = (CASE request[r].ask.op = "upload logo" -> r [] request[r].ask.op = "remove logo" -> None [] OTHER -> logo)
<1> DEFINE op == request[r].ask.op
           Kept_(q) == IF q = r THEN Belongs(op)
                       ELSE IF holder[q] \in Ended(op) \/ (op = "delete file" /\ q = request[r].ask.of) THEN None
                       ELSE holder[q]
<1>1. holder' = [q \in Requests |-> Kept_(q)]
  BY DEF Rq!Written, Belongs, Ended
<1>2. ASSUME NEW q \in Requests PROVE Kept_(q) \in Rq!Parents \cup {"client", None}
  <2>1. Belongs(op) \in Rq!Parents \cup {"client", None}
    BY DEF Belongs, Rq!Parents
  <2>2. holder[q] \in Rq!Parents \cup {"client", None}
    BY DEF RequestsInv, RequestsShape
  <2> QED BY <2>1, <2>2
<1>3. /\ Belongs(op) \notin gone /\ (Belongs(op) = "expense" => Rq!ExpenseFree)
      /\ gone' = gone \cup Ended(op)
      /\ logo' = (CASE op = "upload logo" -> r [] op = "remove logo" -> None [] OTHER -> logo)
  BY DEF Rq!Written, Belongs, Ended
<1>4. holder' \in [Requests -> Rq!Parents \cup {"client", None}]
  <2> HIDE DEF Kept_
  <2> QED BY <1>1, <1>2
<1>5. \A q \in Requests : holder'[q] = Kept_(q)
  BY <1>1
<1> QED BY <1>3, <1>4, <1>5

LEMMA CommitStep ==
  ASSUME RequestsInv, NEW r \in Requests, Rq!Commit(r) \/ Rq!CommitUnheard(r)
  PROVE  RequestsInv'
<1> DEFINE op == request[r].ask.op
<1> DEFINE key == request[r].key
<1>0. /\ RequestsShape /\ KeysHeld /\ KeysRecorded /\ AnswersGiven
      /\ RowsNamed /\ FilesRemoved /\ FilesStored
  BY DEF RequestsInv
<1>1. /\ request[r].step = "writing" /\ Rq!Written(r) /\ UNCHANGED stored
      /\ keyRow' = [j \in Keys |-> IF j = key THEN Rq!KeyStored(r) ELSE keyRow[j]]
      /\ did' = [j \in Keys |-> IF j = key THEN did[j] \cup {r} ELSE did[j]]
  BY DEF Rq!Commit, Rq!CommitUnheard, Rq!RunInTransaction, Rq!At
<1>2. \/ request' = Rq!To(r, "committed") /\ unheard' = unheard
      \/ request' = Rq!To(r, "aborted") /\ unheard' = unheard \cup {r}
  BY DEF Rq!Commit, Rq!CommitUnheard
<1>3. /\ request' \in [Requests -> Rq!RequestRows]
      /\ \A q \in Requests : q # r => request'[q] = request[q]
      /\ \A q \in Requests : request'[q].key = request[q].key /\ request'[q].ask = request[q].ask /\ request'[q].drop = request[q].drop
      /\ request'[r].step \in {"committed", "aborted"}
      /\ request'[r].step = "committed" => unheard' = unheard
      /\ request'[r].step = "aborted" => unheard' = unheard \cup {r}
  <2>1. CASE request' = Rq!To(r, "committed") /\ unheard' = unheard
    <3>1. Keeps(r) /\ request'[r].step = "committed" /\ request'[r].drop = request[r].drop
      BY <1>0, <2>1, ToRow DEF Steps, Rq!InFlight
    <3> QED BY <2>1, <3>1 DEF Keeps, Changes
  <2>2. CASE request' = Rq!To(r, "aborted") /\ unheard' = unheard \cup {r}
    <3>1. Keeps(r) /\ request'[r].step = "aborted" /\ request'[r].drop = request[r].drop
      BY <1>0, <2>2, ToRow DEF Steps, Rq!InFlight
    <3> QED BY <2>2, <3>1 DEF Keeps, Changes
  <2> QED BY <1>2, <2>1, <2>2
<1>4. unheard \subseteq unheard' /\ unheard' \subseteq Requests /\ (request'[r].step = "aborted" => r \in unheard')
  BY <1>0, <1>3 DEF RequestsShape
<1>5. /\ request[r] \in Rq!RequestRows /\ request[r].ask \in Rq!Asks
      /\ request[r].key \in Keys => keyRow[request[r].key] = Rq!Forgotten
      /\ request[r].key \in Keys => did[request[r].key] = {}
  BY <1>0, <1>1 DEF RequestsShape, KeysHeld, KeysRecorded
<1>6. /\ Rq!KeyStored(r) \in KeyRows /\ Rq!KeyStored(r).answer = r /\ Rq!KeyStored(r).ask = request[r].ask
      /\ Rq!KeyStored(r) # Rq!Forgotten
  BY <1>5, PlatformAssumption DEF Rq!KeyStored, Rq!Forgotten, KeyRows
<1>7. /\ keyRow' \in [Keys -> KeyRows \cup {Rq!Forgotten}] /\ did' \in [Keys -> SUBSET Requests]
      /\ key \in Keys => keyRow'[key] = Rq!KeyStored(r) /\ did'[key] = {r}
      /\ \A j \in Keys : j # key => keyRow'[j] = keyRow[j] /\ did'[j] = did[j]
  <2>1. keyRow' \in [Keys -> KeyRows \cup {Rq!Forgotten}]
    BY <1>0, <1>1, <1>6 DEF RequestsShape
  <2>2. did' \in [Keys -> SUBSET Requests]
    BY <1>0, <1>1 DEF RequestsShape
  <2>3. key \in Keys => keyRow'[key] = Rq!KeyStored(r) /\ did'[key] = {r}
    BY <1>1, <1>5
  <2>4. \A j \in Keys : j # key => keyRow'[j] = keyRow[j] /\ did'[j] = did[j]
    BY <1>1
  <2> QED BY <2>1, <2>2, <2>3, <2>4
<1>8. /\ Belongs(op) \notin gone /\ (Belongs(op) = "expense" => Rq!ExpenseFree)
      /\ gone' = gone \cup Ended(op)
      /\ holder' \in [Requests -> Rq!Parents \cup {"client", None}] /\ holder'[r] = Belongs(op)
      /\ \A q \in Requests : q # r =>
            holder'[q] = IF holder[q] \in Ended(op) \/ (op = "delete file" /\ q = request[r].ask.of) THEN None ELSE holder[q]
      /\ logo' = (CASE op = "upload logo" -> r [] op = "remove logo" -> None [] OTHER -> logo)
  BY <1>1, WrittenRows
<1>9. /\ None \notin Requests /\ None \notin Rq!Parents /\ Ended(op) \subseteq Rq!Parents
      /\ \A q \in Requests : holder'[q] # None /\ q # r => holder'[q] = holder[q]
      /\ logo' \in {r, None, logo}
  BY <1>8, PlatformAssumption DEF Ended, Rq!Parents
<1>10. holder[r] = None /\ logo # r
  BY <1>0, <1>1, <1>9 DEF RowsNamed
<1>11. RequestsShape'
  <2>1. \A q \in Requests : request'[q].step # "unsent" => request'[q].ask \in Rq!Asks
    BY <1>0, <1>3, <1>5 DEF RequestsShape
  <2>2. logo' \in Requests \cup {None} /\ gone' \subseteq Rq!Parents
    BY <1>0, <1>8, <1>9 DEF RequestsShape
  <2>3. stored' \subseteq Requests
    BY <1>0, <1>1 DEF RequestsShape
  <2> QED BY <1>3, <1>4, <1>7, <1>8, <2>1, <2>2, <2>3 DEF RequestsShape
<1>12. KeysHeld'
  <2>1. \A q, w \in Requests : /\ {request'[q].step, request'[w].step} \subseteq {"handling", "writing"}
                              /\ request'[q].key = request'[w].key /\ request'[q].key \in Keys
                              => q = w
    BY <1>0, <1>3 DEF KeysHeld
  <2>2. ASSUME NEW q \in Requests, request'[q].step \in {"handling", "writing"}, request'[q].key \in Keys
        PROVE  keyRow'[request'[q].key] = Rq!Forgotten
    <3>1. q # r /\ request'[q] = request[q]
      BY <1>3, <2>2
    <3>2. request[q].key # key /\ keyRow[request[q].key] = Rq!Forgotten
      BY <1>0, <1>1, <2>2, <3>1 DEF KeysHeld
    <3> QED BY <1>7, <2>2, <3>1, <3>2
  <2>3. \A q \in Requests : request'[q].step = "replaying" => request'[q].key \in Keys
    BY <1>0, <1>3 DEF KeysHeld
  <2> QED BY <2>1, <2>2, <2>3 DEF KeysHeld
<1>13. KeysRecorded'
  <2>1. ASSUME NEW j \in Keys, keyRow'[j] # Rq!Forgotten
        PROVE  /\ did'[j] = {keyRow'[j].answer} /\ request'[keyRow'[j].answer].step # "unsent"
               /\ request'[keyRow'[j].answer].key = j /\ request'[keyRow'[j].answer].ask = keyRow'[j].ask
    <3>1. CASE j = key
      BY <1>3, <1>6, <1>7, <3>1
    <3>2. CASE j # key
      <4>1. keyRow[j] \in KeyRows /\ keyRow'[j] = keyRow[j] /\ did'[j] = did[j]
        BY <1>0, <1>7, <2>1, <3>2 DEF RequestsShape
      <4>2. keyRow[j].answer \in Requests
        BY <4>1 DEF KeyRows
      <4>3. /\ did[j] = {keyRow[j].answer} /\ request[keyRow[j].answer].step # "unsent"
            /\ request[keyRow[j].answer].key = j /\ request[keyRow[j].answer].ask = keyRow[j].ask
        BY <1>0, <2>1, <4>1 DEF KeysRecorded
      <4> QED BY <1>3, <4>1, <4>2, <4>3
    <3> QED BY <3>1, <3>2
  <2>2. ASSUME NEW j \in Keys, keyRow'[j] = Rq!Forgotten PROVE did'[j] = {}
    BY <1>0, <1>6, <1>7, <2>2 DEF KeysRecorded
  <2> QED BY <2>1, <2>2 DEF KeysRecorded
<1>14. AnswersGiven'
  <2>1. ASSUME NEW q \in Requests, request'[q].step = "answered"
        PROVE  /\ request'[q].answer \in Requests /\ request'[request'[q].answer].step # "unsent"
               /\ request'[request'[q].answer].key = request'[q].key /\ request'[request'[q].answer].ask = request'[q].ask
               /\ request'[q].answer # q => request'[q].key \in Keys
    <3>1. request[q].step = "answered" /\ request'[q] = request[q]
      BY <1>3, <2>1
    <3>2. /\ request[q].answer \in Requests /\ request[request[q].answer].step # "unsent"
          /\ request[request[q].answer].key = request[q].key /\ request[request[q].answer].ask = request[q].ask
          /\ request[q].answer # q => request[q].key \in Keys
      BY <3>1, <1>0 DEF AnswersGiven
    <3> QED BY <1>3, <3>1, <3>2
  <2> QED BY <2>1 DEF AnswersGiven
<1>15. RowsNamed'
  <2>1. ASSUME NEW q \in Requests, holder'[q] # None
        PROVE  /\ request'[q].step \notin Early \cup {"writing"} /\ holder'[q] = Belongs(request'[q].ask.op)
               /\ request'[q].step \in {"committed", "answered", "lost"} \/ q \in unheard'
    <3>1. CASE q = r
      BY <1>3, <1>4, <1>8, <3>1 DEF Early
    <3>2. CASE q # r
      <4>1. holder[q] # None /\ holder'[q] = holder[q] /\ request'[q] = request[q]
        BY <1>3, <1>9, <2>1, <3>2
      <4> QED BY <1>0, <1>4, <4>1 DEF RowsNamed
    <3> QED BY <3>1, <3>2
  <2>2. ASSUME logo' # None
        PROVE  /\ request'[logo'].step \notin Early \cup {"writing"} /\ request'[logo'].ask.op = "upload logo"
               /\ request'[logo'].step \in {"committed", "answered", "lost"} \/ logo' \in unheard'
    <3>1. CASE op = "upload logo"
      BY <1>3, <1>4, <1>8, <3>1 DEF Early
    <3>2. CASE op # "upload logo"
      <4>1. logo' = logo /\ logo # None /\ logo \in Requests
        BY <1>0, <1>8, <2>2, <3>2 DEF RequestsShape
      <4>2. request'[logo] = request[logo]
        BY <1>3, <1>10, <4>1
      <4> QED BY <1>0, <1>4, <4>1, <4>2 DEF RowsNamed
    <3> QED BY <3>1, <3>2
  <2>3. ASSUME NEW q \in Requests PROVE holder'[q] \notin gone'
    <3>1. CASE q = r
      <4>1. Belongs(op) \notin Ended(op)
        BY <1>9 DEF Belongs, Ended, Rq!Parents
      <4> QED BY <1>8, <3>1, <4>1
    <3>2. CASE q # r
      <4>1. holder[q] \notin gone /\ None \notin gone
        BY <1>0, <1>9 DEF RowsNamed, RequestsShape
      <4> QED BY <1>8, <1>9, <3>2, <4>1
    <3> QED BY <3>1, <3>2
  <2> QED BY <1>9, <2>1, <2>2, <2>3 DEF RowsNamed
<1>16. FilesRemoved'
  <2>1. ASSUME NEW f \in request[r].drop PROVE f \in Requests /\ f # r /\ holder'[f] = None /\ logo' # f
    <3>1. f \in Requests
      BY <1>5, <2>1 DEF Rq!RequestRows
    <3>2. request[f].step \notin Early \cup {"writing"} /\ Removes(request[r], f)
      BY <1>0, <2>1 DEF FilesRemoved
    <3>3. f # r
      BY <1>1, <3>2
    <3>4. /\ holder[f] # None => holder[f] = Belongs(request[f].ask.op)
          /\ logo = f => request[f].ask.op = "upload logo"
      BY <1>0, <1>9, <3>1 DEF RowsNamed
    <3>5. /\ op = "delete file" => f = request[r].ask.of /\ request[f].ask.op \in Putting
          /\ op = "delete task" => request[f].ask.op = "attach"
          /\ op = "delete expense" => request[f].ask.op = "add receipt"
          /\ op \in {"upload logo", "remove logo"} => request[f].ask.op = "upload logo"
          /\ op \in {"delete file", "delete task", "delete expense", "upload logo", "remove logo"}
      BY <3>2 DEF Removes
    <3>6. holder'[f] = None
      <4>1. holder'[f] = IF holder[f] \in Ended(op) \/ (op = "delete file" /\ f = request[r].ask.of) THEN None ELSE holder[f]
        BY <1>8, <3>1, <3>3
      <4>2. CASE op = "delete file"
        BY <3>5, <4>1, <4>2
      <4>3. CASE op = "delete task"
        BY <3>4, <3>5, <4>1, <4>3 DEF Belongs, Ended
      <4>4. CASE op = "delete expense"
        BY <3>4, <3>5, <4>1, <4>4 DEF Belongs, Ended
      <4>5. CASE op \in {"upload logo", "remove logo"}
        BY <3>4, <3>5, <4>1, <4>5 DEF Belongs, Ended
      <4> QED BY <3>5, <4>2, <4>3, <4>4, <4>5
    <3>7. logo' # f
      <4>1. CASE op \in {"upload logo", "remove logo"}
        BY <1>8, <1>9, <3>1, <3>3, <4>1
      <4>2. CASE op \notin {"upload logo", "remove logo"}
        BY <1>8, <3>4, <3>5, <4>2 DEF Putting
      <4> QED BY <4>1, <4>2
    <3> QED BY <3>1, <3>3, <3>6, <3>7
  <2>2. ASSUME NEW q \in Requests, NEW f \in request'[q].drop
        PROVE  /\ request'[f].step \notin Early \cup {"writing"} /\ Removes(request[q], f)'
               /\ request'[q].step = "committed" => holder'[f] = None /\ logo' # f
    <3>1. f \in request[q].drop /\ f \in Requests
      BY <1>0, <1>3, <2>2 DEF RequestsShape, Rq!RequestRows
    <3>2. request[f].step \notin Early \cup {"writing"} /\ Removes(request[q], f) /\ f # r
      BY <1>0, <1>1, <3>1 DEF FilesRemoved
    <3>3. ASSUME request'[q].step = "committed" PROVE holder'[f] = None /\ logo' # f
      <4>1. CASE q = r
        BY <2>1, <3>1, <4>1
      <4>2. CASE q # r
        <5>1. holder[f] = None /\ logo # f
          BY <1>0, <1>3, <3>1, <3>3, <4>2 DEF FilesRemoved
        <5> QED BY <1>8, <1>9, <3>1, <3>2, <5>1
      <4> QED BY <4>1, <4>2
    <3>4. Removes(request[q], f)'
      BY <1>3, <3>1, <3>2 DEF Removes
    <3> QED BY <1>3, <3>1, <3>2, <3>3, <3>4
  <2>3. ASSUME NEW q \in Requests
        PROVE  /\ request'[q].step \in Early => request'[q].drop = {}
               /\ request'[q].step = "writing" /\ request'[q].ask.op = "delete file" => request'[q].ask.of \in request'[q].drop
               /\ request'[q].step = "writing" => q # r /\ request'[q] = request[q]
    BY <1>0, <1>1, <1>3 DEF FilesRemoved, Early
  <2>4. ASSUME NEW q \in Requests, request'[q].step = "writing", request'[q].ask.op = "delete expense",
               NEW f \in Requests, holder'[f] = "expense"
        PROVE  f \in request'[q].drop
    <3>1. request[q].step = "writing" /\ request[q].ask.op = "delete expense" /\ request'[q] = request[q]
      BY <2>3, <2>4
    <3>2. ~Rq!ExpenseFree
      BY <3>1 DEF Rq!ExpenseFree, Rq!At
    <3>3. f # r /\ holder'[f] # None
      BY <1>8, <1>9, <2>4, <3>2 DEF Rq!Parents
    <3>4. holder[f] = "expense"
      BY <1>9, <2>4, <3>3
    <3> QED BY <1>0, <3>1, <3>4 DEF FilesRemoved
  <2> QED BY <2>2, <2>3, <2>4 DEF FilesRemoved
<1>17. FilesStored'
  <2>1. \A q \in Requests : request'[q].step \in Early \cup {"failed"} => q \notin stored'
    BY <1>0, <1>1, <1>3 DEF FilesStored, Early
  <2>2. \A q \in Requests : request'[q].step = "writing" /\ request'[q].ask.op \in Putting \cup {"upload logo"} => q \in stored'
    BY <1>0, <1>1, <1>3 DEF FilesStored
  <2>3. ASSUME NEW q \in Requests, holder'[q] # None \/ logo' = q PROVE q \in stored' \cup unheard'
    <3>1. CASE q = r
      <4>1. op \in Putting \cup {"upload logo"}
        BY <1>8, <1>9, <1>10, <2>3, <3>1 DEF Belongs, Putting
      <4> QED BY <1>0, <1>1, <3>1, <4>1 DEF FilesStored
    <3>2. CASE q # r
      <4>1. holder[q] # None \/ logo = q
        BY <1>9, <2>3, <3>2
      <4> QED BY <1>0, <1>1, <1>4, <4>1 DEF FilesStored
    <3> QED BY <3>1, <3>2
  <2>4. ASSUME NEW q \in stored, request'[q].ask.op = "add receipt", holder'[q] = None,
               request'[q].step \in {"committed", "answered"}
        PROVE  unheard' # {} \/ \E w \in Requests : request'[w].step \in {"committed", "lost"} /\ q \in request'[w].drop
    <3>1. CASE request'[r].step = "aborted"
      BY <1>4, <3>1
    <3>2. CASE request'[r].step = "committed"
      <4>1. q \in Requests
        BY <1>0 DEF RequestsShape
      <4>2. q # r
        BY <1>3, <1>8, <1>9, <2>4 DEF Belongs, Rq!Parents
      <4>3. CASE holder[q] = None
        <5>1. unheard # {} \/ \E w \in Requests : request[w].step \in {"committed", "lost"} /\ q \in request[w].drop
          BY <1>0, <1>3, <2>4, <4>1, <4>2, <4>3 DEF FilesStored
        <5> QED BY <1>1, <1>3, <1>4, <5>1
      <4>4. CASE holder[q] # None
        <5>1. holder[q] = "expense"
          BY <1>0, <1>3, <2>4, <4>1, <4>4 DEF RowsNamed, Belongs
        <5>2. op = "delete expense" \/ (op = "delete file" /\ q = request[r].ask.of)
          BY <1>8, <2>4, <4>1, <4>2, <4>4, <5>1 DEF Ended
        <5>3. q \in request[r].drop
          BY <1>0, <1>1, <4>1, <5>1, <5>2 DEF FilesRemoved
        <5> QED BY <1>3, <3>2, <5>3
      <4> QED BY <4>3, <4>4
    <3> QED BY <1>3, <3>1, <3>2
  <2> QED BY <1>1, <2>1, <2>2, <2>3, <2>4 DEF FilesStored
<1> QED BY <1>11, <1>12, <1>13, <1>14, <1>15, <1>16, <1>17 DEF RequestsInv

LEMMA RequestsNextStep ==
  RequestsInv /\ (Rq!Next \/ UNCHANGED requestsVars) => RequestsInv'
<1>1. ASSUME RequestsInv, Rq!Next PROVE RequestsInv'
  <2>1. CASE \E r \in Requests, k \in Keys \cup {None}, a \in Rq!Asks : Rq!ExecuteProcedure(r, k, a)
    BY <1>1, <2>1, ExecuteStep
  <2>2. ASSUME NEW r \in Requests,
               \/ Rq!Claim(r) \/ Rq!Replay(r) \/ Rq!Handle(r) \/ Rq!Commit(r) \/ Rq!CommitUnheard(r)
               \/ Rq!RollBack(r) \/ Rq!RunHooks(r) \/ Rq!Crash(r)
        PROVE  RequestsInv'
    BY <1>1, <2>2, QuietSteps, HandleStep, CommitStep, HooksStep
  <2>3. CASE \E k \in Keys : Rq!Prune(k)
    BY <1>1, <2>3, PruneStep
  <2> QED BY <1>1, <2>1, <2>2, <2>3 DEF Rq!Next
<1>2. ASSUME RequestsInv, UNCHANGED requestsVars PROVE RequestsInv'
  <2>1. UNCHANGED <<request, keyRow, holder, logo, gone, stored, did, unheard>>
    BY <1>2 DEF requestsVars
  <2>2. RequestsShape' /\ KeysHeld' /\ KeysRecorded' /\ AnswersGiven'
    BY <1>2, <2>1 DEF RequestsInv, RequestsShape, KeysHeld, KeysRecorded, AnswersGiven
  <2>3. RowsNamed' /\ FilesStored'
    BY <1>2, <2>1 DEF RequestsInv, RowsNamed, FilesStored
  <2>4. FilesRemoved'
    BY <1>2, <2>1 DEF RequestsInv, FilesRemoved, Removes
  <2> QED BY <2>2, <2>3, <2>4 DEF RequestsInv
<1> QED BY <1>1, <1>2

-----------------------------------------------------------------------------
(* Access: what a request carries was earned by a role its person has had  *)
(* since it came in; what was let through in a minute was counted; and an  *)
(* owner is left whom nobody is removing.                                  *)

KeysIssued == [state : {"live", "expired", "revoked"}, user : Users, scopes : (SUBSET {"manage", "work"}) \ {{}}]

AccessShape ==
    /\ form \in [Users -> {"blank", "checked", "done"}]
    /\ role \in [Users -> Ax!Roles \cup {None}]
    /\ apiKey \in [ApiKeys -> KeysIssued \cup {Ax!NoKey}]
    /\ accessRequest \in [Requests -> Ax!RequestRows]
    /\ minute \in 0..LastMinute
    /\ counter \in [Ax!Actors -> [minute : 0..LastMinute, count : Nat]]
    /\ let \in [Ax!Actors -> [0..LastMinute -> Nat]]
    /\ overlapped \in BOOLEAN
    /\ \A r \in Requests : accessRequest[r].step \in Ax!InFlight =>
          accessRequest[r].actor \in Ax!Actors /\ accessRequest[r].ask \in Ax!Asks

SetUpOnce ==
    /\ \A u, v \in Users : form[u] # "blank" /\ form[v] # "blank" => u = v
    /\ ~Ax!Installed => \A u \in Users : role[u] = None
    /\ ~Ax!Installed => \A r \in Requests : accessRequest[r].step \notin Ax!InFlight
    /\ ~Ax!Installed => \A k \in ApiKeys : apiKey[k] = Ax!NoKey

IssuedTo(a)  == a \in Users \/ (a \in ApiKeys /\ apiKey[a] \in KeysIssued)
Advanced     == {"resolved", "counting", "running", "removing"}
EarnedBy(q)  == {p \in q.scopes : \E had \in q.roles : p \in Ax!PermissionsForRole(had)}

AuthorityEarned ==
    /\ \A r \in Requests : accessRequest[r].step \in Ax!InFlight =>
          /\ accessRequest[r].live = TRUE
          /\ IssuedTo(accessRequest[r].actor)
          /\ role[Ax!Person(accessRequest[r].actor)] \in accessRequest[r].roles
    /\ \A r \in Requests : accessRequest[r].step \in Advanced =>
          accessRequest[r].permissions \subseteq EarnedBy(accessRequest[r])
    /\ \A r \in Requests : accessRequest[r].step = "removing" =>
          accessRequest[r].ask.op = "remove" /\ "manage" \in accessRequest[r].permissions
    /\ \A r \in Requests : accessRequest[r].step = "done" =>
          /\ accessRequest[r].live = TRUE
          /\ Ax!Required(accessRequest[r].ask) \in EarnedBy(accessRequest[r])

Counted ==
    /\ \A a \in Ax!Actors : counter[a].minute <= minute
    /\ \A r \in Requests : accessRequest[r].step = "counting" => accessRequest[r].minute <= minute
    /\ \A a \in Ax!Actors \ late :
          /\ \A m \in 0..LastMinute : let[a][m] <= Limit /\ (m > counter[a].minute => let[a][m] = 0)
          /\ \/ let[a][counter[a].minute] <= counter[a].count
             \/ /\ counter[a].minute < minute
                /\ \A r \in Requests : accessRequest[r].step = "counting" => accessRequest[r].minute > counter[a].minute

Leaving(u)   == \E r \in Requests : accessRequest[r].step = "removing" /\ accessRequest[r].ask.on = u
OwnerStays   == Ax!Installed /\ ~overlapped => \E u \in Users : role[u] = "owner" /\ ~Leaving(u)

AccessInv == AccessShape /\ SetUpOnce /\ AuthorityEarned /\ Counted /\ OwnerStays

LEMMA AxCardinality == \A S : Ax!Cardinality(S) = Cardinality(S)
  BY DEF Ax!Cardinality, Cardinality

LEMMA AccessInvHolds ==
  AccessInv => Ax!TypeOK /\ Ax!AuthorityHeld /\ Ax!WithinLimit /\ Ax!OwnerRemains
<1> SUFFICES ASSUME AccessInv PROVE Ax!TypeOK /\ Ax!AuthorityHeld /\ Ax!WithinLimit /\ Ax!OwnerRemains
  OBVIOUS
<1>0. AccessShape /\ SetUpOnce /\ AuthorityEarned /\ Counted /\ OwnerStays
  BY DEF AccessInv
<1>1. Ax!TypeOK
  <2> DEFINE done == {u \in Users : form[u] = "done"}
  <2>1. Cardinality(done) <= 1
    <3>1. CASE done = {}
      BY <3>1, FS_EmptySet
    <3>2. CASE done # {}
      <4>1. PICK u \in done : TRUE
        BY <3>2
      <4>2. done = {u}
        BY <1>0, <4>1 DEF SetUpOnce
      <4>3. Cardinality({u}) = 1
        BY FS_Singleton
      <4> QED BY <4>2, <4>3
    <3> QED BY <3>1, <3>2
  <2>2. \A u \in Users : role[u] # None => Ax!Installed
    BY <1>0 DEF SetUpOnce
  <2>3. ASSUME NEW k \in ApiKeys PROVE apiKey[k] = Ax!NoKey \/ (apiKey[k].user \in Users /\ apiKey[k].scopes # {})
    BY <1>0 DEF AccessShape, KeysIssued
  <2>4. ASSUME NEW a \in Ax!Actors PROVE counter[a].minute \in 0..minute
    <3>1. counter[a] \in [minute : 0..LastMinute, count : Nat] /\ counter[a].minute <= minute /\ minute \in 0..LastMinute
      BY <1>0 DEF AccessShape, Counted
    <3> QED BY <3>1
  <2>5. /\ form \in [Users -> {"blank", "checked", "done"}] /\ role \in [Users -> Ax!Roles \cup {None}]
        /\ DOMAIN apiKey = ApiKeys /\ DOMAIN accessRequest = Requests
        /\ \A r \in Requests : accessRequest[r] \in Ax!RequestRows
    BY <1>0 DEF AccessShape
  <2> QED BY <2>1, <2>2, <2>3, <2>4, <2>5, AxCardinality DEF Ax!TypeOK
<1>2. Ax!AuthorityHeld
  BY <1>0 DEF AuthorityEarned, EarnedBy, Ax!AuthorityHeld, Ax!At
<1>3. Ax!WithinLimit
  BY <1>0 DEF Counted, Ax!WithinLimit
<1>4. Ax!OwnerRemains
  BY <1>0 DEF OwnerStays, Ax!OwnerRemains, Ax!Owners
<1> QED BY <1>1, <1>2, <1>3, <1>4

LEMMA AccessInit == Ax!Init => AccessInv
<1> SUFFICES ASSUME Ax!Init PROVE AccessInv
  OBVIOUS
<1>1. /\ form = [u \in Users |-> "blank"] /\ role = [u \in Users |-> None]
      /\ apiKey = [k \in ApiKeys |-> Ax!NoKey]
      /\ counter = [a \in Ax!Actors |-> [minute |-> 0, count |-> 0]] /\ minute = 0
      /\ accessRequest = [r \in Requests |-> Ax!Unsent]
      /\ let = [a \in Ax!Actors |-> [m \in 0..LastMinute |-> 0]] /\ overlapped = FALSE
  BY DEF Ax!Init
<1>2. Limit \in Nat /\ LastMinute \in Nat /\ 0 \in 0..LastMinute
  BY PlatformAssumption
<1>3. Ax!Unsent \in Ax!RequestRows /\ Ax!Unsent.step = "unsent"
  BY <1>2 DEF Ax!Unsent, Ax!RequestRows
<1>4. ~Ax!Installed
  BY <1>1 DEF Ax!Installed
<1>5. AccessShape
  BY <1>1, <1>2, <1>3 DEF AccessShape, Ax!InFlight
<1>6. SetUpOnce /\ AuthorityEarned /\ OwnerStays
  BY <1>1, <1>3, <1>4 DEF SetUpOnce, AuthorityEarned, OwnerStays, Ax!InFlight, Advanced
<1>7. Counted
  BY <1>1, <1>2, <1>3 DEF Counted
<1> QED BY <1>5, <1>6, <1>7 DEF AccessInv

(* One request's row changes.                                              *)
OneRow(r) ==
    /\ accessRequest' \in [Requests -> Ax!RequestRows]
    /\ \A q \in Requests : q # r => accessRequest'[q] = accessRequest[q]

(* A key that was issued stays its owner's.                                *)
KeysStand ==
    /\ apiKey' \in [ApiKeys -> KeysIssued \cup {Ax!NoKey}]
    /\ \A k \in ApiKeys : apiKey[k] \in KeysIssued => apiKey'[k] \in KeysIssued /\ apiKey'[k].user = apiKey[k].user
    /\ apiKey' = apiKey \/ Ax!Installed

(* How far a request goes in a step: what it carries is kept, or earned.   *)
Carries(r) ==
    /\ accessRequest'[r].actor = accessRequest[r].actor /\ accessRequest'[r].ask = accessRequest[r].ask
    /\ accessRequest'[r].scopes = accessRequest[r].scopes /\ accessRequest'[r].roles = accessRequest[r].roles
    /\ accessRequest'[r].live = accessRequest[r].live
Goes(r) ==
    \/ accessRequest'[r].step = "refused"
    \/ /\ accessRequest'[r].step = "identified" /\ Ax!Installed
       /\ accessRequest'[r].live = TRUE /\ IssuedTo(accessRequest'[r].actor) /\ accessRequest'[r].ask \in Ax!Asks
       /\ role[Ax!Person(accessRequest'[r].actor)] \in accessRequest'[r].roles
    \/ /\ Carries(r) /\ accessRequest[r].step = "identified" /\ accessRequest'[r].step = "resolved"
       /\ accessRequest'[r].permissions \subseteq EarnedBy(accessRequest[r])
    \/ /\ Carries(r) /\ accessRequest'[r].permissions = accessRequest[r].permissions
       /\ <<accessRequest[r].step, accessRequest'[r].step>> \in {<<"resolved", "counting">>, <<"counting", "running">>}
    \/ /\ Carries(r) /\ accessRequest'[r].permissions = accessRequest[r].permissions
       /\ accessRequest[r].step = "running" /\ accessRequest'[r].step = "removing"
       /\ accessRequest[r].ask.op = "remove" /\ "manage" \in accessRequest[r].permissions
    \/ /\ Carries(r) /\ accessRequest[r].step \in {"running", "removing"} /\ accessRequest'[r].step = "done"
       /\ Ax!Required(accessRequest[r].ask) \in accessRequest[r].permissions

LEMMA PersonStands ==
  ASSUME NEW a, IssuedTo(a), KeysStand
  PROVE  IssuedTo(a)' /\ Ax!Person(a)' = Ax!Person(a) /\ Ax!Person(a) \in Users /\ a \in Ax!Actors
<1>1. CASE a \in Users
  BY <1>1, PlatformAssumption DEF IssuedTo, Ax!Person, Ax!Actors
<1>2. CASE a \in ApiKeys /\ apiKey[a] \in KeysIssued
  BY <1>2 DEF KeysStand, IssuedTo, Ax!Person, Ax!Actors, KeysIssued
<1> QED BY <1>1, <1>2 DEF IssuedTo

LEMMA RowStep ==
  ASSUME AccessInv, NEW r \in Requests, OneRow(r), KeysStand, UNCHANGED <<form, role>>, Goes(r)
  PROVE  /\ SetUpOnce' /\ AuthorityEarned'
         /\ \A q \in Requests : accessRequest'[q].step \in Ax!InFlight =>
               accessRequest'[q].actor \in Ax!Actors /\ accessRequest'[q].ask \in Ax!Asks
<1>0. AccessShape /\ SetUpOnce /\ AuthorityEarned
  BY DEF AccessInv
<1>1. Ax!Installed' = Ax!Installed /\ \A q \in Requests : q # r => accessRequest'[q] = accessRequest[q]
  BY DEF OneRow, Ax!Installed
<1>2. accessRequest'[r].step \in Ax!InFlight => Ax!Installed
  BY <1>0 DEF Goes, SetUpOnce, Ax!InFlight
<1>3. SetUpOnce'
  <2>1. ~Ax!Installed => apiKey' = apiKey
    BY DEF KeysStand
  <2>2. ASSUME ~Ax!Installed, NEW q \in Requests PROVE accessRequest'[q].step \notin Ax!InFlight
    BY <1>0, <1>1, <1>2, <2>2 DEF SetUpOnce
  <2> QED BY <1>0, <1>1, <2>1, <2>2 DEF SetUpOnce
<1>4. ASSUME accessRequest'[r].step \in Ax!InFlight
      PROVE  /\ IssuedTo(accessRequest'[r].actor) /\ accessRequest'[r].ask \in Ax!Asks /\ accessRequest'[r].live = TRUE
             /\ role[Ax!Person(accessRequest'[r].actor)] \in accessRequest'[r].roles
  <2>1. CASE Carries(r) /\ accessRequest[r].step \in Ax!InFlight
    BY <1>0, <2>1 DEF Carries, AuthorityEarned, AccessShape
  <2> QED BY <1>4, <2>1 DEF Goes, Ax!InFlight
<1>5. ASSUME NEW q \in Requests, accessRequest'[q].step \in Ax!InFlight
      PROVE  /\ accessRequest'[q].actor \in Ax!Actors /\ accessRequest'[q].ask \in Ax!Asks
             /\ accessRequest'[q].live = TRUE
             /\ \E a : a = accessRequest'[q].actor /\ IssuedTo(a)' /\ role[Ax!Person(a)'] \in accessRequest'[q].roles
  <2>1. PICK a : a = accessRequest'[q].actor
    OBVIOUS
  <2>2. /\ IssuedTo(a) /\ accessRequest'[q].ask \in Ax!Asks /\ accessRequest'[q].live = TRUE
        /\ role[Ax!Person(a)] \in accessRequest'[q].roles
    <3>1. CASE q = r
      BY <1>4, <1>5, <2>1, <3>1
    <3>2. CASE q # r
      BY <1>0, <1>1, <1>5, <2>1, <3>2 DEF AuthorityEarned, AccessShape
    <3> QED BY <3>1, <3>2
  <2>3. IssuedTo(a)' /\ Ax!Person(a)' = Ax!Person(a) /\ a \in Ax!Actors
    BY <2>2, PersonStands
  <2> QED BY <2>1, <2>2, <2>3
<1>6. AuthorityEarned'
  <2>1. ASSUME NEW q \in Requests, accessRequest'[q].step \in Ax!InFlight
        PROVE  /\ accessRequest'[q].live = TRUE
               /\ IssuedTo(accessRequest[q].actor)'
               /\ (role[Ax!Person(accessRequest[q].actor)] \in accessRequest[q].roles)'
    <3>1. PICK a : a = accessRequest'[q].actor /\ IssuedTo(a)' /\ role[Ax!Person(a)'] \in accessRequest'[q].roles
      BY <1>5, <2>1
    <3>2. accessRequest'[q].live = TRUE
      BY <1>5, <2>1
    <3> QED BY <3>1, <3>2 DEF IssuedTo, Ax!Person
  <2>2. ASSUME NEW q \in Requests, accessRequest'[q].step \in Advanced
        PROVE  accessRequest'[q].permissions \subseteq EarnedBy(accessRequest[q])'
    <3>1. CASE q = r
      <4>1. CASE accessRequest'[r].step = "resolved"
        BY <3>1, <4>1 DEF Goes, Carries, EarnedBy
      <4>2. CASE accessRequest'[r].step # "resolved"
        <5>1. Carries(r) /\ accessRequest'[r].permissions = accessRequest[r].permissions /\ accessRequest[r].step \in Advanced
          BY <2>2, <3>1, <4>2 DEF Goes, Advanced
        <5>2. accessRequest[r].permissions \subseteq EarnedBy(accessRequest[r])
          BY <1>0, <5>1 DEF AuthorityEarned
        <5> QED BY <3>1, <5>1, <5>2 DEF Carries, EarnedBy
      <4> QED BY <4>1, <4>2
    <3>2. CASE q # r
      BY <1>0, <1>1, <2>2, <3>2 DEF AuthorityEarned, EarnedBy
    <3> QED BY <3>1, <3>2
  <2>3. ASSUME NEW q \in Requests, accessRequest'[q].step = "removing"
        PROVE  accessRequest'[q].ask.op = "remove" /\ "manage" \in accessRequest'[q].permissions
    BY <1>0, <1>1, <2>3 DEF AuthorityEarned, Goes, Carries
  <2>4. ASSUME NEW q \in Requests, accessRequest'[q].step = "done"
        PROVE  accessRequest'[q].live = TRUE /\ (Ax!Required(accessRequest[q].ask) \in EarnedBy(accessRequest[q]))'
    <3>1. CASE q = r
      <4>1. /\ Carries(r) /\ accessRequest[r].step \in {"running", "removing"}
            /\ Ax!Required(accessRequest[r].ask) \in accessRequest[r].permissions
        BY <2>4, <3>1 DEF Goes
      <4>2. accessRequest[r].live = TRUE /\ accessRequest[r].permissions \subseteq EarnedBy(accessRequest[r])
        BY <1>0, <4>1 DEF AuthorityEarned, Ax!InFlight, Advanced
      <4> QED BY <3>1, <4>1, <4>2 DEF Carries, EarnedBy, Ax!Required
    <3>2. CASE q # r
      <4>1. accessRequest[q].live = TRUE /\ Ax!Required(accessRequest[q].ask) \in EarnedBy(accessRequest[q])
        BY <1>0, <1>1, <2>4, <3>2 DEF AuthorityEarned
      <4> QED BY <1>1, <3>2, <4>1 DEF EarnedBy, Ax!Required
    <3> QED BY <3>1, <3>2
  <2> QED BY <2>1, <2>2, <2>3, <2>4 DEF AuthorityEarned
<1> QED BY <1>3, <1>5, <1>6

(* Nobody's role changes, and nobody begins to be removed.                 *)
LEMMA OwnerStaysHere ==
  ASSUME AccessInv, UNCHANGED <<form, role, overlapped>>,
         \A q \in Requests : accessRequest'[q].step = "removing" =>
            accessRequest[q].step = "removing" /\ accessRequest'[q].ask = accessRequest[q].ask
  PROVE  OwnerStays'
<1>1. Ax!Installed' = Ax!Installed
  BY DEF Ax!Installed
<1>2. \A u : Leaving(u)' => Leaving(u)
  BY DEF Leaving
<1> QED BY <1>1, <1>2 DEF AccessInv, OwnerStays

(* Nothing is counted: requests read the clock, which only goes on.        *)
LEMMA CountStands ==
  ASSUME AccessInv, UNCHANGED <<counter, let, late>>, minute' \in 0..LastMinute, minute <= minute',
         \A q \in Requests : accessRequest'[q].step = "counting" =>
            \/ accessRequest[q].step = "counting" /\ accessRequest'[q].minute = accessRequest[q].minute
            \/ accessRequest'[q].minute = minute /\ minute' = minute
  PROVE  Counted'
<1>0. AccessShape /\ Counted /\ minute \in Nat /\ minute' \in Nat
  BY PlatformAssumption DEF AccessInv, AccessShape
<1>1. ASSUME NEW a \in Ax!Actors PROVE counter[a].minute \in Nat
  <2>1. counter[a] \in [minute : 0..LastMinute, count : Nat]
    BY <1>0 DEF AccessShape
  <2> QED BY <2>1
<1>2. ASSUME NEW a \in Ax!Actors PROVE counter[a].minute <= minute'
  BY <1>0, <1>1 DEF Counted
<1>3. ASSUME NEW q \in Requests, accessRequest'[q].step = "counting" PROVE accessRequest'[q].minute <= minute'
  <2>1. accessRequest[q] \in Ax!RequestRows
    BY <1>0 DEF AccessShape
  <2>2. accessRequest[q].minute \in Nat
    BY <2>1 DEF Ax!RequestRows
  <2> QED BY <1>0, <1>3, <2>2 DEF Counted
<1>4. ASSUME NEW a \in Ax!Actors \ late
      PROVE  /\ \A m \in 0..LastMinute : let[a][m] <= Limit /\ (m > counter[a].minute => let[a][m] = 0)
             /\ \/ let[a][counter[a].minute] <= counter[a].count
                \/ /\ counter[a].minute < minute'
                   /\ \A r \in Requests : accessRequest'[r].step = "counting" => accessRequest'[r].minute > counter[a].minute
  <2>1. /\ \A m \in 0..LastMinute : let[a][m] <= Limit /\ (m > counter[a].minute => let[a][m] = 0)
        /\ \/ let[a][counter[a].minute] <= counter[a].count
           \/ /\ counter[a].minute < minute
              /\ \A r \in Requests : accessRequest[r].step = "counting" => accessRequest[r].minute > counter[a].minute
    BY <1>0, <1>4 DEF Counted
  <2>2. counter[a].minute \in Nat
    BY <1>1, <1>4
  <2>3. CASE let[a][counter[a].minute] <= counter[a].count
    BY <2>1, <2>3
  <2>4. CASE /\ counter[a].minute < minute
             /\ \A r \in Requests : accessRequest[r].step = "counting" => accessRequest[r].minute > counter[a].minute
    <3>1. ASSUME NEW r \in Requests, accessRequest'[r].step = "counting" PROVE accessRequest'[r].minute > counter[a].minute
      BY <2>4, <3>1
    <3>2. counter[a].minute < minute'
      BY <1>0, <2>2, <2>4
    <3> QED BY <2>1, <3>1, <3>2
  <2> QED BY <2>1, <2>3, <2>4
<1> QED BY <1>2, <1>3, <1>4 DEF Counted

(* What is left of a request that goes, when nothing is counted and nobody *)
(* begins to be removed.                                                   *)
LEMMA GoesOn ==
  ASSUME AccessInv, NEW r \in Requests, OneRow(r), KeysStand, Goes(r),
         UNCHANGED <<form, role, counter, let, late, minute, overlapped>>,
         accessRequest'[r].step # "removing",
         accessRequest'[r].step = "counting" => accessRequest'[r].minute = minute
  PROVE  AccessInv'
<1>0. AccessShape /\ SetUpOnce /\ AuthorityEarned
  BY DEF AccessInv
<1>1. /\ SetUpOnce' /\ AuthorityEarned'
      /\ \A q \in Requests : accessRequest'[q].step \in Ax!InFlight =>
            accessRequest'[q].actor \in Ax!Actors /\ accessRequest'[q].ask \in Ax!Asks
  BY RowStep
<1>2. AccessShape'
  BY <1>0, <1>1 DEF AccessShape, OneRow, KeysStand
<1>3. OwnerStays'
  <2>1. \A q \in Requests : accessRequest'[q].step = "removing" =>
            accessRequest[q].step = "removing" /\ accessRequest'[q].ask = accessRequest[q].ask
    BY DEF OneRow
  <2> QED BY <2>1, OwnerStaysHere
<1>4. Counted'
  <2>1. minute' \in 0..LastMinute /\ minute <= minute' /\ minute' = minute
    BY <1>0, PlatformAssumption DEF AccessShape
  <2>2. \A q \in Requests : accessRequest'[q].step = "counting" =>
            \/ accessRequest[q].step = "counting" /\ accessRequest'[q].minute = accessRequest[q].minute
            \/ accessRequest'[q].minute = minute /\ minute' = minute
    BY <2>1 DEF OneRow
  <2> QED BY <2>1, <2>2, CountStands
<1> QED BY <1>1, <1>2, <1>3, <1>4 DEF AccessInv

LEMMA SetRow ==
  ASSUME AccessShape, NEW r \in Requests, NEW x \in Ax!RequestRows, accessRequest' = [accessRequest EXCEPT ![r] = x]
  PROVE  OneRow(r) /\ accessRequest'[r] = x
BY DEF AccessShape, OneRow

LEMMA KeysSame == AccessShape /\ UNCHANGED apiKey => KeysStand
BY DEF AccessShape, KeysStand

LEMMA FirstMinute == 0 \in 0..LastMinute
BY PlatformAssumption

LEMMA RefusedRow == Ax!Refused \in Ax!RequestRows /\ Ax!Refused.step = "refused"
BY FirstMinute DEF Ax!Refused, Ax!Unsent, Ax!RequestRows, Ax!InFlight

LEMMA DoneRow ==
  ASSUME AccessShape, NEW r \in Requests, accessRequest' = Ax!Done(r)
  PROVE  OneRow(r) /\ Carries(r) /\ accessRequest'[r].step = "done"
<1>1. accessRequest[r] \in Ax!RequestRows
  BY DEF AccessShape
<1> DEFINE x == [accessRequest[r] EXCEPT !.step = "done", !.permissions = {}, !.minute = 0]
<1>2. /\ x \in Ax!RequestRows /\ x.step = "done" /\ x.actor = accessRequest[r].actor /\ x.ask = accessRequest[r].ask
      /\ x.scopes = accessRequest[r].scopes /\ x.roles = accessRequest[r].roles /\ x.live = accessRequest[r].live
  BY <1>1, FirstMinute DEF Ax!RequestRows
<1>3. accessRequest' = [accessRequest EXCEPT ![r] = x]
  BY DEF Ax!Done, AccessShape
<1> HIDE DEF x
<1>4. OneRow(r) /\ accessRequest'[r] = x
  BY <1>2, <1>3, SetRow
<1> QED BY <1>2, <1>4 DEF Carries

LEMMA ArrivesStep ==
  ASSUME AccessInv, NEW r \in Requests, NEW ask \in Ax!Asks,
         \/ \E u \in Users : Ax!ResolveFromSession(r, u, ask)
         \/ \E k \in ApiKeys : Ax!ResolveFromApiKey(r, k, ask)
  PROVE  AccessInv'
<1>0. AccessShape /\ SetUpOnce
  BY DEF AccessInv
<1>1. PICK a, scopes :
         /\ Ax!Arrives(r, a, ask, scopes) /\ IssuedTo(a) /\ scopes \in SUBSET {"manage", "work"}
         /\ (a \in Users \/ apiKey[a].state = "live") /\ Ax!Installed
  <2>1. ASSUME NEW u \in Users, Ax!ResolveFromSession(r, u, ask)
        PROVE  Ax!Arrives(r, u, ask, {"manage", "work"}) /\ IssuedTo(u) /\ Ax!Installed
    BY <1>0, <2>1 DEF Ax!ResolveFromSession, IssuedTo, SetUpOnce
  <2>2. ASSUME NEW k \in ApiKeys, Ax!ResolveFromApiKey(r, k, ask)
        PROVE  /\ Ax!Arrives(r, k, ask, apiKey[k].scopes) /\ IssuedTo(k) /\ apiKey[k].scopes \in SUBSET {"manage", "work"}
               /\ apiKey[k].state = "live" /\ Ax!Installed
    <3>1. apiKey[k].state = "live" /\ Ax!Arrives(r, k, ask, apiKey[k].scopes)
      BY <2>2 DEF Ax!ResolveFromApiKey, Ax!VerifyApiKey
    <3>2. apiKey[k] # Ax!NoKey
      BY <3>1 DEF Ax!NoKey
    <3>3. apiKey[k] \in KeysIssued
      BY <1>0, <3>2 DEF AccessShape
    <3> QED BY <1>0, <3>1, <3>2, <3>3 DEF IssuedTo, SetUpOnce, KeysIssued
  <2> QED BY <2>1, <2>2
<1>2. /\ accessRequest[r].step = "unsent" /\ UNCHANGED <<form, role, apiKey, counter, let, late, minute, overlapped>>
      /\ accessRequest' = [accessRequest EXCEPT ![r] = [Ax!Unsent EXCEPT
             !.step = "identified", !.actor = a, !.ask = ask, !.scopes = scopes,
             !.roles = {role[Ax!Person(a)]}, !.live = a \in Users \/ apiKey[a].state = "live"]]
  BY <1>1 DEF Ax!Arrives, Ax!At, Ax!members, Ax!limits
<1>3. KeysStand
  BY <1>0, <1>2, KeysSame
<1>4. Ax!Person(a) \in Users /\ a \in Ax!Actors
  BY <1>1, <1>3, PersonStands
<1>5. PICK mine : mine = role[Ax!Person(a)] /\ mine \in Ax!Roles \cup {None}
  BY <1>0, <1>4 DEF AccessShape
<1> DEFINE x == [Ax!Unsent EXCEPT !.step = "identified", !.actor = a, !.ask = ask, !.scopes = scopes,
                                  !.roles = {mine}, !.live = TRUE]
<1>6. (a \in Users \/ apiKey[a].state = "live") = TRUE
  BY <1>1
<1>7. accessRequest' = [accessRequest EXCEPT ![r] = x]
  BY <1>2, <1>5, <1>6
<1>8. x \in Ax!RequestRows /\ x.step = "identified" /\ x.actor = a /\ x.ask = ask /\ x.roles = {mine} /\ x.live = TRUE
  <2>1. {mine} \in SUBSET (Ax!Roles \cup {None}) /\ ask \in Ax!Asks \cup {None} /\ a \in Ax!Actors \cup {None}
    BY <1>4, <1>5
  <2>2. scopes \in SUBSET {"manage", "work"}
    BY <1>1
  <2> QED BY <2>1, <2>2, FirstMinute DEF Ax!RequestRows, Ax!Unsent, Ax!InFlight
<1> HIDE DEF x
<1>9. OneRow(r) /\ accessRequest'[r] = x
  BY <1>0, <1>7, <1>8, SetRow
<1>10. Goes(r)
  BY <1>1, <1>5, <1>8, <1>9 DEF Goes
<1>11. accessRequest'[r].step # "removing" /\ accessRequest'[r].step # "counting"
  BY <1>8, <1>9
<1> QED BY <1>2, <1>3, <1>9, <1>10, <1>11, GoesOn

(* A row of which only the step, the permissions and the minute change.    *)
LEMMA RowWith ==
  ASSUME AccessShape, NEW r \in Requests, NEW s \in {"resolved", "counting", "running", "removing"},
         NEW p \in SUBSET {"manage", "work"}, NEW m \in 0..LastMinute,
         accessRequest' = [accessRequest EXCEPT ![r] = [accessRequest[r] EXCEPT !.step = s, !.permissions = p, !.minute = m]]
  PROVE  /\ OneRow(r) /\ Carries(r)
         /\ accessRequest'[r].step = s /\ accessRequest'[r].permissions = p /\ accessRequest'[r].minute = m
<1>1. accessRequest[r] \in Ax!RequestRows
  BY DEF AccessShape
<1> DEFINE x == [accessRequest[r] EXCEPT !.step = s, !.permissions = p, !.minute = m]
<1>2. /\ x \in Ax!RequestRows /\ x.step = s /\ x.permissions = p /\ x.minute = m
      /\ x.actor = accessRequest[r].actor /\ x.ask = accessRequest[r].ask
      /\ x.scopes = accessRequest[r].scopes /\ x.roles = accessRequest[r].roles /\ x.live = accessRequest[r].live
  BY <1>1 DEF Ax!RequestRows, Ax!InFlight
<1> HIDE DEF x
<1>3. OneRow(r) /\ accessRequest'[r] = x
  BY <1>2, SetRow DEF x
<1> QED BY <1>2, <1>3 DEF Carries

LEMMA RefusedGoes ==
  ASSUME AccessInv, NEW r \in Requests, accessRequest' = [accessRequest EXCEPT ![r] = Ax!Refused]
  PROVE  OneRow(r) /\ Goes(r) /\ accessRequest'[r].step = "refused"
<1>1. AccessShape
  BY DEF AccessInv
<1> QED BY <1>1, RefusedRow, SetRow DEF Goes

LEMMA FindRoleStep == ASSUME AccessInv, NEW r \in Requests, Ax!FindMemberRole(r) PROVE AccessInv'
<1>0. AccessShape /\ AuthorityEarned
  BY DEF AccessInv
<1>1. accessRequest[r].step = "identified" /\ UNCHANGED <<form, role, apiKey, counter, let, late, minute, overlapped>>
  BY DEF Ax!FindMemberRole, Ax!At, Ax!members, Ax!limits
<1>2. KeysStand
  BY <1>0, <1>1, KeysSame
<1>3. CASE role[Ax!Person(accessRequest[r].actor)] = None
  <2>1. accessRequest' = [accessRequest EXCEPT ![r] = Ax!Refused]
    BY <1>3 DEF Ax!FindMemberRole
  <2> QED BY <1>1, <1>2, <2>1, RefusedGoes, GoesOn
<1>4. CASE role[Ax!Person(accessRequest[r].actor)] # None
  <2>1. accessRequest[r] \in Ax!RequestRows /\ accessRequest[r].minute \in 0..LastMinute
    BY <1>0 DEF AccessShape, Ax!RequestRows
  <2>2. Ax!Granted(r) \in SUBSET {"manage", "work"} /\ Ax!Granted(r) \subseteq EarnedBy(accessRequest[r])
    <3>1. role[Ax!Person(accessRequest[r].actor)] \in accessRequest[r].roles
      BY <1>0, <1>1 DEF AuthorityEarned, Ax!InFlight
    <3>2. accessRequest[r].scopes \in SUBSET {"manage", "work"}
      BY <2>1 DEF Ax!RequestRows
    <3>3. Ax!Granted(r) = Ax!PermissionsForRole(role[Ax!Person(accessRequest[r].actor)]) \cap accessRequest[r].scopes
      BY DEF Ax!Granted
    <3> QED BY <3>1, <3>2, <3>3 DEF EarnedBy
  <2> DEFINE p == Ax!Granted(r)
  <2> HIDE DEF p
  <2>3. accessRequest' = [accessRequest EXCEPT ![r] = [accessRequest[r] EXCEPT !.step = "resolved", !.permissions = p]]
    BY <1>0, <1>4 DEF Ax!FindMemberRole, AccessShape, p
  <2>4. p \in SUBSET {"manage", "work"} /\ p \subseteq EarnedBy(accessRequest[r])
    BY <2>2 DEF p
  <2>5. [accessRequest[r] EXCEPT !.step = "resolved", !.permissions = p] =
        [accessRequest[r] EXCEPT !.step = "resolved", !.permissions = p, !.minute = accessRequest[r].minute]
    BY <2>1 DEF Ax!RequestRows
  <2>6. OneRow(r) /\ Carries(r) /\ accessRequest'[r].step = "resolved" /\ accessRequest'[r].permissions = p
    <3>1. accessRequest' = [accessRequest EXCEPT ![r] =
             [accessRequest[r] EXCEPT !.step = "resolved", !.permissions = p, !.minute = accessRequest[r].minute]]
      BY <2>3, <2>5
    <3>2. PICK m : m = accessRequest[r].minute
      OBVIOUS
    <3>3. m \in 0..LastMinute
      BY <2>1, <3>2
    <3>4. accessRequest' = [accessRequest EXCEPT ![r] =
             [accessRequest[r] EXCEPT !.step = "resolved", !.permissions = p, !.minute = m]]
      BY <3>1, <3>2
    <3> QED BY <1>0, <2>4, <3>3, <3>4, RowWith
  <2>7. Goes(r)
    BY <1>1, <2>4, <2>6 DEF Goes
  <2> QED BY <1>1, <1>2, <2>6, <2>7, GoesOn
<1> QED BY <1>3, <1>4

LEMMA ReadClockStep == ASSUME AccessInv, NEW r \in Requests, Ax!ReadClock(r) PROVE AccessInv'
<1>0. AccessShape /\ AuthorityEarned
  BY DEF AccessInv
<1>1. /\ accessRequest[r].step = "resolved" /\ UNCHANGED <<form, role, apiKey, counter, let, late, minute, overlapped>>
      /\ accessRequest' = [accessRequest EXCEPT ![r].step = "counting", ![r].minute = minute]
  BY DEF Ax!ReadClock, Ax!At, Ax!members, Ax!limits
<1>2. KeysStand
  BY <1>0, <1>1, KeysSame
<1>3. accessRequest[r] \in Ax!RequestRows /\ minute \in 0..LastMinute
  BY <1>0 DEF AccessShape
<1>4. accessRequest[r].permissions \in SUBSET {"manage", "work"}
  BY <1>3 DEF Ax!RequestRows
<1>5. accessRequest' = [accessRequest EXCEPT ![r] = [accessRequest[r] EXCEPT !.step = "counting", !.minute = minute]]
  BY <1>0, <1>1 DEF AccessShape
<1>6. [accessRequest[r] EXCEPT !.step = "counting", !.minute = minute] =
      [accessRequest[r] EXCEPT !.step = "counting", !.permissions = accessRequest[r].permissions, !.minute = minute]
  BY <1>3 DEF Ax!RequestRows
<1>7. /\ OneRow(r) /\ Carries(r) /\ accessRequest'[r].step = "counting"
      /\ accessRequest'[r].permissions = accessRequest[r].permissions /\ accessRequest'[r].minute = minute
  <2>1. PICK p : p = accessRequest[r].permissions
    OBVIOUS
  <2>2. PICK m : m = minute
    OBVIOUS
  <2>3. p \in SUBSET {"manage", "work"} /\ m \in 0..LastMinute
    BY <1>3, <1>4, <2>1, <2>2
  <2>4. accessRequest' = [accessRequest EXCEPT ![r] =
           [accessRequest[r] EXCEPT !.step = "counting", !.permissions = p, !.minute = m]]
    BY <1>5, <1>6, <2>1, <2>2
  <2>5. /\ OneRow(r) /\ Carries(r) /\ accessRequest'[r].step = "counting"
        /\ accessRequest'[r].permissions = p /\ accessRequest'[r].minute = m
    BY <1>0, <2>3, <2>4, RowWith
  <2> QED BY <2>1, <2>2, <2>5
<1>8. Goes(r)
  BY <1>1, <1>7 DEF Goes
<1> QED BY <1>1, <1>2, <1>7, <1>8, GoesOn

LEMMA RefuseStep == ASSUME AccessInv, NEW r \in Requests, Ax!Refuse(r) PROVE AccessInv'
<1>1. /\ accessRequest' = [accessRequest EXCEPT ![r] = Ax!Refused]
      /\ UNCHANGED <<form, role, apiKey, counter, let, late, minute, overlapped>>
  BY DEF Ax!Refuse, Ax!members, Ax!limits
<1>2. KeysStand
  BY <1>1, KeysSame DEF AccessInv
<1> QED BY <1>1, <1>2, RefusedGoes, GoesOn

(* What a procedure asks for is done, and the row tells what it went by.   *)
LEMMA DoneStep ==
  ASSUME AccessInv, NEW r \in Requests, accessRequest[r].step = "running",
         Ax!Required(accessRequest[r].ask) \in accessRequest[r].permissions,
         accessRequest' = Ax!Done(r), KeysStand,
         UNCHANGED <<form, role, counter, let, late, minute, overlapped>>
  PROVE  AccessInv'
<1>1. OneRow(r) /\ Carries(r) /\ accessRequest'[r].step = "done"
  BY DoneRow DEF AccessInv
<1>2. Goes(r)
  BY <1>1 DEF Goes
<1> QED BY <1>1, <1>2, GoesOn

LEMMA RunningInstalled ==
  ASSUME AccessInv, NEW r \in Requests, accessRequest[r].step \in Ax!InFlight
  PROVE  Ax!Installed
BY DEF AccessInv, SetUpOnce

LEMMA WorkStep ==
  ASSUME AccessInv, NEW r \in Requests,
         Ax!Work(r) \/ Ax!ApiKeyRevoke(r) \/ \E k \in ApiKeys, scopes \in {{"work"}, {"manage", "work"}} : Ax!ApiKeyCreate(r, k, scopes)
  PROVE  AccessInv'
<1>0. AccessShape
  BY DEF AccessInv
<1>1. /\ accessRequest[r].step = "running" /\ Ax!Required(accessRequest[r].ask) \in accessRequest[r].permissions
      /\ UNCHANGED <<form, role, counter, let, late, minute, overlapped>>
  BY DEF Ax!Work, Ax!ApiKeyRevoke, Ax!ApiKeyCreate, Ax!Permitted, Ax!At, Ax!members, Ax!limits
<1>2. Ax!Installed
  BY <1>1, RunningInstalled DEF Ax!InFlight
<1>3. CASE Ax!Work(r)
  <2>1. accessRequest' = Ax!Done(r) /\ UNCHANGED apiKey
    BY <1>3 DEF Ax!Work
  <2>2. KeysStand
    BY <1>0, <2>1, KeysSame
  <2> QED BY <1>1, <2>1, <2>2, DoneStep
<1>4. CASE Ax!ApiKeyRevoke(r)
  <2> DEFINE k == accessRequest[r].ask.on
  <2>1. CASE apiKey[k].state \in {"live", "expired"}
    <3>1. accessRequest' = Ax!Done(r) /\ apiKey' = [apiKey EXCEPT ![k].state = "revoked"]
      BY <1>4, <2>1 DEF Ax!ApiKeyRevoke
    <3>2. ASSUME NEW j \in ApiKeys, apiKey[j] \in KeysIssued
          PROVE  [apiKey[j] EXCEPT !.state = "revoked"] \in KeysIssued /\ [apiKey[j] EXCEPT !.state = "revoked"].user = apiKey[j].user
      BY <3>2 DEF KeysIssued
    <3>3. apiKey \in [ApiKeys -> KeysIssued \cup {Ax!NoKey}] /\ Ax!NoKey.state \notin {"live", "expired"}
      BY <1>0 DEF AccessShape, Ax!NoKey
    <3>4. k \in ApiKeys => apiKey[k] \in KeysIssued
      BY <2>1, <3>3
    <3>5. apiKey' = [apiKey EXCEPT ![k] = [apiKey[k] EXCEPT !.state = "revoked"]]
      BY <3>1
    <3> HIDE DEF k
    <3>6. KeysStand
      BY <1>2, <3>2, <3>3, <3>4, <3>5 DEF KeysStand
    <3> QED BY <1>1, <3>1, <3>6, DoneStep
  <2>2. CASE apiKey[k].state \notin {"live", "expired"}
    <3>1. accessRequest' = [accessRequest EXCEPT ![r] = Ax!Refused] /\ UNCHANGED apiKey
      BY <1>4, <2>2 DEF Ax!ApiKeyRevoke
    <3>2. KeysStand
      BY <1>0, <3>1, KeysSame
    <3> QED BY <1>1, <3>1, <3>2, RefusedGoes, GoesOn
  <2> QED BY <2>1, <2>2
<1>5. ASSUME NEW k \in ApiKeys, NEW scopes \in {{"work"}, {"manage", "work"}}, Ax!ApiKeyCreate(r, k, scopes)
      PROVE  AccessInv'
  <2>1. /\ accessRequest[r].actor \in Users /\ apiKey[k] = Ax!NoKey /\ accessRequest' = Ax!Done(r)
        /\ apiKey' = [apiKey EXCEPT ![k] = [state |-> "live", user |-> accessRequest[r].actor, scopes |-> scopes]]
    BY <1>5 DEF Ax!ApiKeyCreate
  <2> DEFINE new == [state |-> "live", user |-> accessRequest[r].actor, scopes |-> scopes]
  <2>2. new \in KeysIssued
    BY <2>1 DEF KeysIssued
  <2>3. Ax!NoKey \notin KeysIssued /\ apiKey \in [ApiKeys -> KeysIssued \cup {Ax!NoKey}]
    BY <1>0 DEF Ax!NoKey, KeysIssued, AccessShape
  <2>4. apiKey' = [apiKey EXCEPT ![k] = new]
    BY <2>1
  <2> HIDE DEF new
  <2>5. KeysStand
    BY <1>2, <2>1, <2>2, <2>3, <2>4 DEF KeysStand
  <2> QED BY <1>1, <2>1, <2>5, DoneStep
<1> QED BY <1>3, <1>4, <1>5

(* The owners are counted without a lock: two removals at once are told    *)
(* from one, and one leaves an owner.                                      *)
LEMMA RemoveReadStep == ASSUME AccessInv, NEW r \in Requests, Ax!MemberRemoveRead(r) PROVE AccessInv'
<1> DEFINE u == accessRequest[r].ask.on
<1>0. AccessShape /\ SetUpOnce /\ AuthorityEarned /\ OwnerStays /\ Counted
  BY DEF AccessInv
<1>1. /\ accessRequest[r].step = "running" /\ accessRequest[r].ask.op = "remove"
      /\ Ax!Required(accessRequest[r].ask) \in accessRequest[r].permissions /\ role[u] # None
      /\ UNCHANGED <<form, role, apiKey, counter, let, late, minute>>
      /\ overlapped' = (overlapped \/ Ax!Overlaps(u))
  BY DEF Ax!MemberRemoveRead, Ax!Permitted, Ax!At, Ax!members, Ax!limits
<1>2. KeysStand
  BY <1>0, <1>1, KeysSame
<1>3. overlapped \in BOOLEAN /\ overlapped' \in BOOLEAN /\ (overlapped => overlapped') /\ (Ax!Overlaps(u) => overlapped')
  BY <1>0, <1>1 DEF AccessShape
<1>4. Ax!Installed' = Ax!Installed
  BY <1>1 DEF Ax!Installed
<1>5. ASSUME OneRow(r), Goes(r), accessRequest'[r].step # "counting", OwnerStays' PROVE AccessInv'
  <2>1. /\ SetUpOnce' /\ AuthorityEarned'
        /\ \A q \in Requests : accessRequest'[q].step \in Ax!InFlight =>
              accessRequest'[q].actor \in Ax!Actors /\ accessRequest'[q].ask \in Ax!Asks
    BY <1>1, <1>2, <1>5, RowStep
  <2>2. AccessShape'
    BY <1>0, <1>1, <1>3, <1>5, <2>1 DEF AccessShape, OneRow
  <2>3. Counted'
    <3>1. minute' \in 0..LastMinute /\ minute <= minute'
      BY <1>0, <1>1, PlatformAssumption DEF AccessShape
    <3>2. \A q \in Requests : accessRequest'[q].step = "counting" =>
              accessRequest[q].step = "counting" /\ accessRequest'[q].minute = accessRequest[q].minute
      BY <1>5 DEF OneRow
    <3>3. UNCHANGED <<counter, let, late>>
      BY <1>1
    <3> QED BY <3>1, <3>2, <3>3, CountStands
  <2> QED BY <1>5, <2>1, <2>2, <2>3 DEF AccessInv
<1>6. CASE ~Ax!Removable(u)
  <2>1. accessRequest' = [accessRequest EXCEPT ![r] = Ax!Refused]
    BY <1>6 DEF Ax!MemberRemoveRead
  <2>2. OneRow(r) /\ Goes(r) /\ accessRequest'[r].step = "refused"
    BY <2>1, RefusedGoes
  <2>3. \A w : Leaving(w)' => Leaving(w)
    BY <2>2 DEF OneRow, Leaving
  <2>4. OwnerStays'
    BY <1>0, <1>1, <1>3, <1>4, <2>3 DEF OwnerStays
  <2> QED BY <1>5, <2>2, <2>4
<1>7. CASE Ax!Removable(u)
  <2>1. accessRequest[r] \in Ax!RequestRows
    BY <1>0 DEF AccessShape
  <2>2. PICK p, m : p = accessRequest[r].permissions /\ m = accessRequest[r].minute
    OBVIOUS
  <2>3. p \in SUBSET {"manage", "work"} /\ m \in 0..LastMinute
    BY <2>1, <2>2 DEF Ax!RequestRows
  <2>4. accessRequest' = [accessRequest EXCEPT ![r] = [accessRequest[r] EXCEPT !.step = "removing"]]
    BY <1>0, <1>7 DEF Ax!MemberRemoveRead, AccessShape
  <2>5. [accessRequest[r] EXCEPT !.step = "removing"] =
        [accessRequest[r] EXCEPT !.step = "removing", !.permissions = p, !.minute = m]
    BY <2>1, <2>2 DEF Ax!RequestRows
  <2>6. accessRequest' = [accessRequest EXCEPT ![r] =
            [accessRequest[r] EXCEPT !.step = "removing", !.permissions = p, !.minute = m]]
    BY <2>4, <2>5
  <2>7. OneRow(r) /\ Carries(r) /\ accessRequest'[r].step = "removing" /\ accessRequest'[r].permissions = p
    BY <1>0, <2>3, <2>6, RowWith
  <2>8. "manage" \in accessRequest[r].permissions
    BY <1>1 DEF Ax!Required
  <2>9. Goes(r)
    BY <1>1, <2>2, <2>7, <2>8 DEF Goes
  <2>10. \A w : Leaving(w)' => Leaving(w) \/ w = u
    BY <2>7 DEF OneRow, Carries, Leaving
  <2>11. OwnerStays'
    <3> SUFFICES ASSUME Ax!Installed, ~overlapped' PROVE \E w \in Users : role[w] = "owner" /\ ~Leaving(w)'
      BY <1>1, <1>4 DEF OwnerStays
    <3>1. PICK w \in Users : role[w] = "owner" /\ ~Leaving(w)
      BY <1>0, <1>3 DEF OwnerStays
    <3>2. CASE role[u] # "owner"
      BY <2>10, <3>1, <3>2
    <3>3. CASE role[u] = "owner"
      <4>1. Cardinality(Ax!Owners) > 1
        BY <1>7, <3>3, AxCardinality DEF Ax!Removable
      <4>2. ~(Ax!Owners \subseteq {u})
        <5>1. ASSUME Ax!Owners \subseteq {u} PROVE FALSE
          <6>1. Ax!Owners = {} \/ Ax!Owners = {u}
            BY <5>1
          <6>2. Cardinality({}) = 0 /\ Cardinality({u}) = 1
            BY FS_EmptySet, FS_Singleton
          <6> QED BY <4>1, <6>1, <6>2
        <5> QED BY <5>1
      <4>3. PICK v \in Users : role[v] = "owner" /\ v # u
        BY <4>2 DEF Ax!Owners
      <4>4. ~Leaving(v)
        BY <1>3, <3>3, <4>3 DEF Leaving, Ax!Overlaps, Ax!At
      <4> QED BY <2>10, <4>3, <4>4
    <3> QED BY <3>2, <3>3
  <2> QED BY <1>5, <2>7, <2>9, <2>11
<1> QED BY <1>6, <1>7

(* No row of a request, and nobody's role, changes.                        *)
LEMMA AsideStep ==
  ASSUME AccessInv,
         \/ Ax!Tick
         \/ \E a \in Ax!Actors : Ax!PruneRateLimits(a)
         \/ \E k \in ApiKeys : Ax!ApiKeyExpires(k)
         \/ \E u \in Users : Ax!SetupCheck(u)
         \/ UNCHANGED accessVars
  PROVE  AccessInv'
<1>0. AccessShape /\ SetUpOnce /\ AuthorityEarned /\ OwnerStays /\ Counted
  BY DEF AccessInv
<1>1. UNCHANGED <<role, accessRequest, overlapped, let, late>>
  BY DEF Ax!Tick, Ax!PruneRateLimits, Ax!ApiKeyExpires, Ax!SetupCheck, Ax!members, Ax!limits, accessVars
<1>2. ASSUME KeysStand, Ax!Installed' = Ax!Installed PROVE AuthorityEarned' /\ OwnerStays'
  <2>1. ASSUME NEW q \in Requests, accessRequest[q].step \in Ax!InFlight
        PROVE  /\ accessRequest[q].live = TRUE
               /\ IssuedTo(accessRequest[q].actor)'
               /\ (role[Ax!Person(accessRequest[q].actor)] \in accessRequest[q].roles)'
    <3>1. PICK a : a = accessRequest[q].actor
      OBVIOUS
    <3>2. /\ accessRequest[q].live = TRUE /\ IssuedTo(a)
          /\ role[Ax!Person(a)] \in accessRequest[q].roles
      BY <1>0, <2>1, <3>1 DEF AuthorityEarned
    <3>3. IssuedTo(a)' /\ Ax!Person(a)' = Ax!Person(a)
      BY <1>2, <3>2, PersonStands
    <3>4. accessRequest'[q].actor = a /\ role' = role /\ accessRequest' = accessRequest
      BY <1>1, <3>1
    <3> QED BY <3>2, <3>3, <3>4 DEF IssuedTo, Ax!Person
  <2>2. AuthorityEarned'
    BY <1>0, <1>1, <2>1 DEF AuthorityEarned, EarnedBy, Ax!Required
  <2>3. OwnerStays'
    BY <1>0, <1>1, <1>2 DEF OwnerStays, Leaving
  <2> QED BY <2>2, <2>3
<1>3. CASE Ax!Tick \/ UNCHANGED accessVars
  <2>1. UNCHANGED <<form, apiKey, counter>> /\ minute' \in {minute, minute + 1} /\ (minute' # minute => minute < LastMinute)
    BY <1>3 DEF Ax!Tick, Ax!members, Ax!limits, accessVars
  <2>2. minute' \in 0..LastMinute /\ minute <= minute'
    BY <1>0, <2>1, PlatformAssumption DEF AccessShape
  <2>3. Counted'
    <3>1. \A q \in Requests : accessRequest'[q].step = "counting" =>
              accessRequest[q].step = "counting" /\ accessRequest'[q].minute = accessRequest[q].minute
      BY <1>1
    <3>2. UNCHANGED <<counter, let, late>>
      BY <1>1, <2>1
    <3> QED BY <2>2, <3>1, <3>2, CountStands
  <2>4. KeysStand /\ Ax!Installed' = Ax!Installed
    BY <1>0, <2>1, KeysSame DEF Ax!Installed
  <2>5. AccessShape' /\ SetUpOnce'
    BY <1>0, <1>1, <2>1, <2>2, <2>4 DEF AccessShape, SetUpOnce
  <2> QED BY <1>2, <2>3, <2>4, <2>5 DEF AccessInv
<1>4. ASSUME NEW a \in Ax!Actors, Ax!PruneRateLimits(a) PROVE AccessInv'
  <2>1. /\ counter[a].minute < minute /\ counter' = [counter EXCEPT ![a].count = 0]
        /\ \A r \in Requests : accessRequest[r].step = "counting" => accessRequest[r].minute > counter[a].minute
        /\ UNCHANGED <<form, apiKey, minute>>
    BY <1>4 DEF Ax!PruneRateLimits, Ax!At, Ax!members
  <2>2. counter[a] \in [minute : 0..LastMinute, count : Nat]
    BY <1>0 DEF AccessShape
  <2> DEFINE c == [counter[a] EXCEPT !.count = 0]
  <2>3. c \in [minute : 0..LastMinute, count : Nat] /\ c.minute = counter[a].minute
    BY <2>2
  <2>4. counter' = [counter EXCEPT ![a] = c]
    BY <2>1
  <2> HIDE DEF c
  <2>5. /\ counter' \in [Ax!Actors -> [minute : 0..LastMinute, count : Nat]]
        /\ \A b \in Ax!Actors : counter'[b].minute = counter[b].minute /\ (b # a => counter'[b] = counter[b])
    BY <1>0, <2>3, <2>4 DEF AccessShape
  <2>6. Counted'
    BY <1>0, <1>1, <2>1, <2>5 DEF Counted
  <2>7. KeysStand /\ Ax!Installed' = Ax!Installed
    BY <1>0, <2>1, KeysSame DEF Ax!Installed
  <2>8. AccessShape' /\ SetUpOnce'
    BY <1>0, <1>1, <2>1, <2>5, <2>7 DEF AccessShape, SetUpOnce
  <2> QED BY <1>2, <2>6, <2>7, <2>8 DEF AccessInv
<1>5. ASSUME NEW k \in ApiKeys, Ax!ApiKeyExpires(k) PROVE AccessInv'
  <2>1. /\ apiKey[k].state = "live" /\ apiKey' = [apiKey EXCEPT ![k].state = "expired"]
        /\ UNCHANGED <<form, counter, minute>>
    BY <1>5 DEF Ax!ApiKeyExpires, Ax!members, Ax!limits
  <2>2. apiKey[k] \in KeysIssued
    BY <1>0, <2>1 DEF AccessShape, Ax!NoKey
  <2> DEFINE x == [apiKey[k] EXCEPT !.state = "expired"]
  <2>3. x \in KeysIssued /\ x.user = apiKey[k].user
    BY <2>2 DEF KeysIssued
  <2>4. apiKey' = [apiKey EXCEPT ![k] = x]
    BY <2>1
  <2>5. Ax!NoKey \notin KeysIssued /\ Ax!Installed
    BY <1>0, <2>2 DEF Ax!NoKey, KeysIssued, SetUpOnce
  <2> HIDE DEF x
  <2>6. KeysStand /\ Ax!Installed' = Ax!Installed
    BY <1>0, <2>1, <2>3, <2>4, <2>5 DEF KeysStand, AccessShape, Ax!Installed
  <2>7. AccessShape' /\ SetUpOnce' /\ Counted'
    BY <1>0, <1>1, <2>1, <2>5, <2>6 DEF AccessShape, SetUpOnce, Counted, KeysStand
  <2> QED BY <1>2, <2>6, <2>7 DEF AccessInv
<1>6. ASSUME NEW u \in Users, Ax!SetupCheck(u) PROVE AccessInv'
  <2>1. /\ form[u] = "blank" /\ ~Ax!Installed /\ \A v \in Users : form[v] # "checked"
        /\ form' = [form EXCEPT ![u] = "checked"] /\ UNCHANGED <<apiKey, counter, minute>>
    BY <1>6 DEF Ax!SetupCheck, Ax!SetupFree, Ax!limits
  <2>2. \A v \in Users : form[v] = "blank"
    BY <1>0, <2>1 DEF AccessShape, Ax!Installed
  <2>3. form' \in [Users -> {"blank", "checked", "done"}] /\ \A v \in Users : form'[v] = IF v = u THEN "checked" ELSE "blank"
    BY <1>0, <2>1, <2>2 DEF AccessShape
  <2>4. ~Ax!Installed'
    BY <2>3 DEF Ax!Installed
  <2>5. KeysStand
    BY <1>0, <2>1, KeysSame
  <2>6. AccessShape' /\ SetUpOnce'
    BY <1>0, <1>1, <2>1, <2>3, <2>4 DEF AccessShape, SetUpOnce
  <2>7. Counted'
    BY <1>0, <1>1, <2>1 DEF Counted
  <2>8. Ax!Installed' = Ax!Installed
    BY <2>1, <2>4 DEF Ax!Installed
  <2> QED BY <1>2, <2>5, <2>6, <2>7, <2>8 DEF AccessInv
<1> QED BY <1>3, <1>4, <1>5, <1>6

(* A request is counted, in its own minute or not at all.                  *)
LEMMA ConsumeStep == ASSUME AccessInv, NEW r \in Requests, Ax!ConsumeRateLimit(r) PROVE AccessInv'
<1>0. AccessShape /\ SetUpOnce /\ AuthorityEarned /\ OwnerStays /\ Counted
  BY DEF AccessInv
<1>1. PICK q, a, c, n : /\ q = accessRequest[r] /\ a = q.actor /\ c = counter[a]
                        /\ n = IF c.minute = q.minute THEN c.count + 1 ELSE 1
  OBVIOUS
<1>2. /\ q.step = "counting"
      /\ counter' = [counter EXCEPT ![a] = [minute |-> q.minute, count |-> n]]
      /\ late' = IF q.minute < c.minute THEN late \cup {a} ELSE late
      /\ accessRequest' = [accessRequest EXCEPT ![r] = IF Ax!Allowed(n) THEN [@ EXCEPT !.step = "running"] ELSE Ax!Refused]
      /\ let' = IF Ax!Allowed(n) THEN [let EXCEPT ![a][q.minute] = @ + 1] ELSE let
      /\ UNCHANGED <<form, role, apiKey, minute, overlapped>>
  BY <1>1 DEF Ax!ConsumeRateLimit, Ax!At, Ax!members
<1>3. q \in Ax!RequestRows /\ a \in Ax!Actors /\ q.minute <= minute
  BY <1>0, <1>1, <1>2 DEF AccessShape, Ax!InFlight, Counted
<1>4. q.minute \in 0..LastMinute /\ c \in [minute : 0..LastMinute, count : Nat]
  BY <1>0, <1>1, <1>3 DEF AccessShape, Ax!RequestRows
<1>5. q.minute \in Nat /\ c.minute \in Nat /\ c.count \in Nat /\ n \in Nat /\ minute \in Nat /\ Limit \in Nat
  BY <1>0, <1>1, <1>4, PlatformAssumption DEF AccessShape
<1>6. KeysStand
  BY <1>0, <1>2, KeysSame
<1>7. OneRow(r) /\ Goes(r) /\ accessRequest'[r].step \in {"running", "refused"}
  <2>1. CASE ~Ax!Allowed(n)
    <3>1. accessRequest' = [accessRequest EXCEPT ![r] = Ax!Refused]
      BY <1>2, <2>1
    <3> QED BY <3>1, RefusedGoes
  <2>2. CASE Ax!Allowed(n)
    <3>1. PICK p, m : p = q.permissions /\ m = q.minute
      OBVIOUS
    <3>2. p \in SUBSET {"manage", "work"} /\ m \in 0..LastMinute
      BY <1>3, <3>1 DEF Ax!RequestRows
    <3>3. accessRequest' = [accessRequest EXCEPT ![r] = [accessRequest[r] EXCEPT !.step = "running"]]
      BY <1>0, <1>2, <2>2 DEF AccessShape
    <3>4. [q EXCEPT !.step = "running"] = [q EXCEPT !.step = "running", !.permissions = p, !.minute = m]
      BY <1>3, <3>1 DEF Ax!RequestRows
    <3>5. accessRequest' = [accessRequest EXCEPT ![r] =
              [accessRequest[r] EXCEPT !.step = "running", !.permissions = p, !.minute = m]]
      BY <1>1, <3>3, <3>4
    <3>6. OneRow(r) /\ Carries(r) /\ accessRequest'[r].step = "running" /\ accessRequest'[r].permissions = p
      BY <1>0, <3>2, <3>5, RowWith
    <3> QED BY <1>1, <1>2, <3>1, <3>6 DEF Goes
  <2> QED BY <2>1, <2>2
<1>8. /\ SetUpOnce' /\ AuthorityEarned'
      /\ \A w \in Requests : accessRequest'[w].step \in Ax!InFlight =>
            accessRequest'[w].actor \in Ax!Actors /\ accessRequest'[w].ask \in Ax!Asks
  BY <1>2, <1>6, <1>7, RowStep
<1>9. OwnerStays'
  <2>1. \A w \in Requests : accessRequest'[w].step = "removing" =>
            accessRequest[w].step = "removing" /\ accessRequest'[w].ask = accessRequest[w].ask
    BY <1>7 DEF OneRow
  <2> QED BY <1>2, <2>1, OwnerStaysHere
<1> DEFINE here == [minute |-> q.minute, count |-> n]
<1>10. here \in [minute : 0..LastMinute, count : Nat] /\ here.minute = q.minute /\ here.count = n
  BY <1>4, <1>5
<1>11. counter' = [counter EXCEPT ![a] = here]
  BY <1>2
<1> HIDE DEF here
<1>12. /\ counter' \in [Ax!Actors -> [minute : 0..LastMinute, count : Nat]]
       /\ counter'[a] = here /\ \A b \in Ax!Actors : b # a => counter'[b] = counter[b]
  BY <1>0, <1>3, <1>10, <1>11 DEF AccessShape
<1>13. let[a] \in [0..LastMinute -> Nat]
  BY <1>0, <1>3 DEF AccessShape
<1>14. PICK more : more = IF Ax!Allowed(n) THEN [let[a] EXCEPT ![q.minute] = let[a][q.minute] + 1] ELSE let[a]
  OBVIOUS
<1>15. /\ more \in [0..LastMinute -> Nat]
       /\ more[q.minute] = (IF Ax!Allowed(n) THEN let[a][q.minute] + 1 ELSE let[a][q.minute])
       /\ \A m \in 0..LastMinute : m # q.minute => more[m] = let[a][m]
  <2>1. PICK at : at = q.minute
    OBVIOUS
  <2>2. at \in 0..LastMinute /\ let[a][at] + 1 \in Nat
    <3>1. at \in 0..LastMinute
      BY <1>4, <2>1
    <3>2. let[a][at] \in Nat
      BY <1>13, <3>1
    <3> QED BY <3>1, <3>2
  <2>3. PICK old : old = let[a]
    OBVIOUS
  <2>4. CASE Ax!Allowed(n)
    <3>1. more = [old EXCEPT ![at] = old[at] + 1] /\ old \in [0..LastMinute -> Nat] /\ old[at] + 1 \in Nat
      BY <1>13, <1>14, <2>1, <2>2, <2>3, <2>4
    <3>2. /\ more \in [0..LastMinute -> Nat] /\ more[at] = old[at] + 1
          /\ \A m \in 0..LastMinute : m # at => more[m] = old[m]
      BY <2>2, <3>1
    <3> QED BY <2>1, <2>3, <2>4, <3>2
  <2>5. CASE ~Ax!Allowed(n)
    BY <1>13, <1>14, <2>5
  <2> QED BY <2>4, <2>5
<1>16. /\ let' \in [Ax!Actors -> [0..LastMinute -> Nat]] /\ let'[a] = more
       /\ \A b \in Ax!Actors : b # a => let'[b] = let[b]
  <2>1. let' = [let EXCEPT ![a] = more]
    BY <1>0, <1>2, <1>3, <1>13, <1>14 DEF AccessShape
  <2> QED BY <1>0, <1>3, <1>15, <2>1 DEF AccessShape
<1>17. AccessShape'
  BY <1>0, <1>2, <1>6, <1>7, <1>8, <1>12, <1>16 DEF AccessShape, OneRow, KeysStand
<1>18. Counted'
  <2>1. \A b \in Ax!Actors : counter'[b].minute <= minute'
    BY <1>0, <1>2, <1>3, <1>10, <1>12 DEF Counted
  <2>2. \A w \in Requests : accessRequest'[w].step = "counting" => w # r /\ accessRequest'[w] = accessRequest[w]
    BY <1>7 DEF OneRow
  <2>3. \A w \in Requests : accessRequest'[w].step = "counting" => accessRequest'[w].minute <= minute'
    BY <1>0, <1>2, <2>2 DEF Counted
  <2>4. ASSUME NEW b \in Ax!Actors \ late', b # a
        PROVE  /\ \A m \in 0..LastMinute : let'[b][m] <= Limit /\ (m > counter'[b].minute => let'[b][m] = 0)
               /\ \/ let'[b][counter'[b].minute] <= counter'[b].count
                  \/ /\ counter'[b].minute < minute'
                     /\ \A w \in Requests : accessRequest'[w].step = "counting" => accessRequest'[w].minute > counter'[b].minute
    <3>1. b \in Ax!Actors \ late /\ let'[b] = let[b] /\ counter'[b] = counter[b] /\ minute' = minute
      BY <1>2, <1>12, <1>16, <2>4
    <3>2. /\ \A m \in 0..LastMinute : let[b][m] <= Limit /\ (m > counter[b].minute => let[b][m] = 0)
          /\ \/ let[b][counter[b].minute] <= counter[b].count
             \/ /\ counter[b].minute < minute
                /\ \A w \in Requests : accessRequest[w].step = "counting" => accessRequest[w].minute > counter[b].minute
      BY <1>0, <3>1 DEF Counted
    <3> QED BY <2>2, <3>1, <3>2
  <2>5. ASSUME a \notin late'
        PROVE  /\ \A m \in 0..LastMinute : more[m] <= Limit /\ (m > q.minute => more[m] = 0)
               /\ more[q.minute] <= n
    <3>1. a \in Ax!Actors \ late /\ ~(q.minute < c.minute)
      BY <1>2, <1>3, <2>5
    <3>2. /\ \A m \in 0..LastMinute : let[a][m] <= Limit /\ (m > c.minute => let[a][m] = 0)
          /\ \/ let[a][c.minute] <= c.count
             \/ \A w \in Requests : accessRequest[w].step = "counting" => accessRequest[w].minute > c.minute
      BY <1>0, <1>1, <3>1 DEF Counted
    <3>3. let[a][q.minute] \in Nat
      BY <1>4, <1>13
    <3>4. let[a][q.minute] + 1 <= n
      <4>1. CASE c.minute = q.minute
        BY <1>1, <1>2, <1>5, <3>2, <3>3, <4>1
      <4>2. CASE c.minute # q.minute
        <5>1. q.minute > c.minute
          BY <1>5, <3>1, <4>2
        <5>2. let[a][q.minute] = 0
          BY <1>4, <3>2, <5>1
        <5> QED BY <1>1, <4>2, <5>2
      <4> QED BY <4>1, <4>2
    <3>5. more[q.minute] <= n /\ more[q.minute] <= Limit
      <4>1. CASE Ax!Allowed(n)
        <5>1. n <= Limit
          BY <4>1 DEF Ax!Allowed
        <5> QED BY <1>5, <1>15, <3>3, <3>4, <4>1, <5>1
      <4>2. CASE ~Ax!Allowed(n)
        <5>1. more[q.minute] = let[a][q.minute] /\ let[a][q.minute] <= Limit
          BY <1>4, <1>15, <3>2, <4>2
        <5> QED BY <1>5, <3>3, <3>4, <5>1
      <4> QED BY <4>1, <4>2
    <3>6. ASSUME NEW m \in 0..LastMinute, m # q.minute PROVE more[m] <= Limit /\ (m > q.minute => more[m] = 0)
      <4>1. more[m] = let[a][m] /\ m \in Nat
        BY <1>15, <3>6, PlatformAssumption
      <4> QED BY <1>5, <3>1, <3>2, <4>1
    <3>7. ~(q.minute > q.minute)
      BY <1>5
    <3> QED BY <3>5, <3>6, <3>7
  <2>6. ASSUME NEW b \in Ax!Actors \ late'
        PROVE  /\ \A m \in 0..LastMinute : let'[b][m] <= Limit /\ (m > counter'[b].minute => let'[b][m] = 0)
               /\ \/ let'[b][counter'[b].minute] <= counter'[b].count
                  \/ /\ counter'[b].minute < minute'
                     /\ \A w \in Requests : accessRequest'[w].step = "counting" => accessRequest'[w].minute > counter'[b].minute
    <3>1. CASE b = a
      BY <1>10, <1>12, <1>16, <2>5, <2>6, <3>1
    <3> QED BY <2>4, <2>6, <3>1
  <2> QED BY <2>1, <2>3, <2>6 DEF Counted
<1> QED BY <1>8, <1>9, <1>17, <1>18 DEF AccessInv

(* A person's role changes: their requests on the way have had it too.     *)
LEMMA BecomesStep ==
  ASSUME AccessInv, NEW u \in Users, NEW new \in Ax!Roles \cup {None}, NEW others \in [Requests -> Ax!RequestRows],
         Ax!Becomes(u, new, others), UNCHANGED <<apiKey, counter, let, late, minute>>,
         form' \in [Users -> {"blank", "checked", "done"}], overlapped' \in BOOLEAN, Ax!Installed',
         \A v, w \in Users : form'[v] # "blank" /\ form'[w] # "blank" => v = w,
         \A q \in Requests :
            \/ others[q] = accessRequest[q]
            \/ /\ others[q].step = "done" /\ others[q].live = TRUE
               /\ Ax!Required(others[q].ask) \in EarnedBy(others[q])
  PROVE  /\ AccessShape' /\ SetUpOnce' /\ AuthorityEarned' /\ Counted'
         /\ role'[u] = new /\ \A v \in Users : v # u => role'[v] = role[v]
         /\ \A v : Leaving(v)' => \E q \in Requests : others[q].step = "removing" /\ others[q].ask.on = v
<1>0. AccessShape /\ SetUpOnce /\ AuthorityEarned /\ Counted
  BY DEF AccessInv
<1> DEFINE mine == {q \in Requests : others[q].step \in Ax!InFlight /\ Ax!Person(others[q].actor) = u}
           X(q) == IF q \in mine THEN [others[q] EXCEPT !.roles = others[q].roles \cup {new}] ELSE others[q]
<1>1. accessRequest' = [q \in Requests |-> X(q)] /\ role' = [role EXCEPT ![u] = new]
  BY DEF Ax!Becomes
<1> HIDE DEF mine, X
<1>2. ASSUME NEW q \in Requests
      PROVE  /\ X(q) \in Ax!RequestRows
             /\ X(q).step = others[q].step /\ X(q).actor = others[q].actor /\ X(q).ask = others[q].ask
             /\ X(q).scopes = others[q].scopes /\ X(q).permissions = others[q].permissions
             /\ X(q).minute = others[q].minute /\ X(q).live = others[q].live
             /\ X(q).roles = IF q \in mine THEN others[q].roles \cup {new} ELSE others[q].roles
  <2>1. others[q] \in Ax!RequestRows
    OBVIOUS
  <2>2. PICK o, m : o = others[q] /\ m = (q \in mine)
    OBVIOUS
  <2>3. o \in Ax!RequestRows /\ X(q) = IF m THEN [o EXCEPT !.roles = o.roles \cup {new}] ELSE o
    BY <2>1, <2>2 DEF X
  <2>4. o.roles \cup {new} \in SUBSET (Ax!Roles \cup {None})
    BY <2>3 DEF Ax!RequestRows
  <2>5. CASE m
    <3>1. X(q) = [o EXCEPT !.roles = o.roles \cup {new}]
      BY <2>3, <2>5
    <3>2. /\ [o EXCEPT !.roles = o.roles \cup {new}] \in Ax!RequestRows
          /\ X(q).step = o.step /\ X(q).actor = o.actor /\ X(q).ask = o.ask /\ X(q).scopes = o.scopes
          /\ X(q).permissions = o.permissions /\ X(q).minute = o.minute /\ X(q).live = o.live
          /\ X(q).roles = o.roles \cup {new}
      BY <2>3, <2>4, <3>1 DEF Ax!RequestRows
    <3> QED BY <2>2, <2>5, <3>1, <3>2
  <2>6. CASE ~m
    BY <2>2, <2>3, <2>6
  <2> QED BY <2>5, <2>6
<1>3. /\ \A q \in Requests : accessRequest'[q] \in Ax!RequestRows
      /\ \A q \in Requests : accessRequest'[q].step = others[q].step
      /\ \A q \in Requests : accessRequest'[q].actor = others[q].actor /\ accessRequest'[q].ask = others[q].ask
      /\ \A q \in Requests : accessRequest'[q].scopes = others[q].scopes /\ accessRequest'[q].permissions = others[q].permissions
      /\ \A q \in Requests : accessRequest'[q].minute = others[q].minute /\ accessRequest'[q].live = others[q].live
      /\ \A q \in Requests : others[q].roles \subseteq accessRequest'[q].roles
      /\ \A q \in mine : new \in accessRequest'[q].roles
  <2>1. \A q \in Requests : accessRequest'[q] = X(q)
    BY <1>1
  <2>2. \A q \in Requests : X(q).roles = IF q \in mine THEN others[q].roles \cup {new} ELSE others[q].roles
    BY <1>2
  <2>3. \A q \in Requests : others[q].roles \subseteq X(q).roles
    BY <2>2
  <2>4. \A q \in mine : q \in Requests /\ new \in X(q).roles
    BY <2>2 DEF mine
  <2>5. \A q \in Requests : /\ X(q) \in Ax!RequestRows /\ X(q).step = others[q].step
                            /\ X(q).actor = others[q].actor /\ X(q).ask = others[q].ask
    BY <1>2
  <2>6. \A q \in Requests : /\ X(q).scopes = others[q].scopes /\ X(q).permissions = others[q].permissions
                            /\ X(q).minute = others[q].minute /\ X(q).live = others[q].live
    BY <1>2
  <2> QED BY <2>1, <2>3, <2>4, <2>5, <2>6
<1>4. /\ accessRequest' \in [Requests -> Ax!RequestRows]
      /\ role' \in [Users -> Ax!Roles \cup {None}] /\ role'[u] = new /\ \A v \in Users : v # u => role'[v] = role[v]
  <2>1. accessRequest' \in [Requests -> Ax!RequestRows]
    BY <1>1, <1>2
  <2> QED BY <1>0, <1>1, <2>1 DEF AccessShape
<1>5. ASSUME NEW q \in Requests, others[q].step \in Ax!InFlight \cup Advanced PROVE others[q] = accessRequest[q]
  BY <1>5 DEF Ax!InFlight, Advanced
<1>6. AccessShape'
  <2>1. ASSUME NEW q \in Requests, accessRequest'[q].step \in Ax!InFlight
        PROVE  accessRequest'[q].actor \in Ax!Actors /\ accessRequest'[q].ask \in Ax!Asks
    <3>1. others[q] = accessRequest[q] /\ accessRequest[q].step \in Ax!InFlight
      BY <1>3, <1>5, <2>1
    <3> QED BY <1>0, <1>3, <3>1 DEF AccessShape
  <2> QED BY <1>0, <1>4, <2>1 DEF AccessShape
<1>7. SetUpOnce'
  BY DEF SetUpOnce
<1>8. KeysStand
  BY <1>0, KeysSame
<1>9. AuthorityEarned'
  <2>1. ASSUME NEW q \in Requests, accessRequest'[q].step \in Ax!InFlight
        PROVE  /\ accessRequest'[q].live = TRUE
               /\ IssuedTo(accessRequest[q].actor)'
               /\ (role[Ax!Person(accessRequest[q].actor)] \in accessRequest[q].roles)'
    <3>1. PICK a : a = accessRequest[q].actor
      OBVIOUS
    <3>2. others[q] = accessRequest[q] /\ accessRequest[q].step \in Ax!InFlight
      BY <1>3, <1>5, <2>1
    <3>3. /\ accessRequest[q].live = TRUE /\ IssuedTo(a)
          /\ role[Ax!Person(a)] \in accessRequest[q].roles
      BY <1>0, <3>1, <3>2 DEF AuthorityEarned
    <3>4. IssuedTo(a)' /\ Ax!Person(a)' = Ax!Person(a) /\ Ax!Person(a) \in Users
      BY <1>8, <3>3, PersonStands
    <3>5. accessRequest'[q].actor = a /\ accessRequest'[q].live = TRUE
      BY <1>3, <3>1, <3>2, <3>3
    <3>6. role'[Ax!Person(a)'] \in accessRequest'[q].roles
      <4>1. CASE Ax!Person(a) = u
        <5>1. q \in mine
          BY <3>1, <3>2, <4>1 DEF mine
        <5> QED BY <1>3, <1>4, <3>4, <4>1, <5>1
      <4>2. CASE Ax!Person(a) # u
        <5>1. q \notin mine
          BY <3>1, <3>2, <4>2 DEF mine
        <5> QED BY <1>3, <1>4, <3>2, <3>3, <3>4, <4>2, <5>1
      <4> QED BY <4>1, <4>2
    <3> QED BY <3>4, <3>5, <3>6 DEF IssuedTo, Ax!Person
  <2>2. ASSUME NEW q \in Requests PROVE EarnedBy(others[q]) \subseteq EarnedBy(accessRequest[q])'
    <3>1. accessRequest'[q].scopes = others[q].scopes /\ others[q].roles \subseteq accessRequest'[q].roles
      BY <1>3
    <3> QED BY <3>1 DEF EarnedBy, Ax!PermissionsForRole
  <2>3. ASSUME NEW q \in Requests, accessRequest'[q].step \in Advanced
        PROVE  accessRequest'[q].permissions \subseteq EarnedBy(accessRequest[q])'
    <3>1. others[q] = accessRequest[q] /\ accessRequest[q].step \in Advanced
      BY <1>3, <1>5, <2>3
    <3>2. others[q].permissions \subseteq EarnedBy(others[q])
      BY <1>0, <3>1 DEF AuthorityEarned
    <3> QED BY <1>3, <2>2, <3>2
  <2>4. ASSUME NEW q \in Requests, accessRequest'[q].step = "removing"
        PROVE  accessRequest'[q].ask.op = "remove" /\ "manage" \in accessRequest'[q].permissions
    <3>1. others[q] = accessRequest[q] /\ accessRequest[q].step = "removing"
      BY <1>3, <1>5, <2>4 DEF Advanced
    <3> QED BY <1>0, <1>3, <3>1 DEF AuthorityEarned
  <2>5. ASSUME NEW q \in Requests, accessRequest'[q].step = "done"
        PROVE  accessRequest'[q].live = TRUE /\ (Ax!Required(accessRequest[q].ask) \in EarnedBy(accessRequest[q]))'
    <3>1. others[q].live = TRUE /\ Ax!Required(others[q].ask) \in EarnedBy(others[q])
      BY <1>0, <1>3, <2>5 DEF AuthorityEarned
    <3>2. accessRequest'[q].live = TRUE /\ accessRequest'[q].ask = others[q].ask
      BY <1>3, <3>1
    <3> QED BY <2>2, <3>1, <3>2 DEF Ax!Required
  <2> QED BY <2>1, <2>3, <2>4, <2>5 DEF AuthorityEarned
<1>10. Counted'
  <2>1. minute' \in 0..LastMinute /\ minute <= minute'
    BY <1>0, PlatformAssumption DEF AccessShape
  <2>2. ASSUME NEW q \in Requests, accessRequest'[q].step = "counting"
        PROVE  accessRequest[q].step = "counting" /\ accessRequest'[q].minute = accessRequest[q].minute
    <3>1. others[q] = accessRequest[q]
      BY <1>3, <1>5, <2>2 DEF Advanced
    <3> QED BY <1>3, <2>2, <3>1
  <2> QED BY <2>1, <2>2, CountStands
<1>11. \A v : Leaving(v)' => \E q \in Requests : others[q].step = "removing" /\ others[q].ask.on = v
  BY <1>3 DEF Leaving
<1> QED BY <1>4, <1>6, <1>7, <1>9, <1>10, <1>11

LEMMA PersonAsked == \A a \in Ax!Asks : a.op = "remove" => a.on \in Users
<1> SUFFICES ASSUME NEW a \in Ax!Asks, a.op = "remove" PROVE a.on \in Users
  OBVIOUS
<1>1. CASE a \in {[op |-> o, on |-> None] : o \in {"work", "create key"}}
  <2>1. PICK o \in {"work", "create key"} : a = [op |-> o, on |-> None]
    BY <1>1
  <2>2. a.op = o
    BY <2>1
  <2> QED BY <2>2
<1>2. CASE a \in {[op |-> "remove", on |-> u] : u \in Users}
  <2>1. PICK u \in Users : a = [op |-> "remove", on |-> u]
    BY <1>2
  <2>2. a.on = u
    BY <2>1
  <2> QED BY <2>2
<1>3. CASE a \in {[op |-> "revoke", on |-> k] : k \in ApiKeys}
  <2>1. PICK k \in ApiKeys : a = [op |-> "revoke", on |-> k]
    BY <1>3
  <2>2. a.op = "revoke"
    BY <2>1
  <2> QED BY <2>2
<1> QED BY <1>1, <1>2, <1>3 DEF Ax!Asks

LEMMA SetupStep == ASSUME AccessInv, NEW u \in Users, Ax!CompleteSetup(u) PROVE AccessInv'
<1>0. AccessShape /\ SetUpOnce
  BY DEF AccessInv
<1>1. /\ form[u] = "checked" /\ form' = [form EXCEPT ![u] = "done"] /\ Ax!Becomes(u, "owner", accessRequest)
      /\ UNCHANGED <<apiKey, counter, let, late, minute, overlapped>>
  BY DEF Ax!CompleteSetup, Ax!limits
<1>2. ~Ax!Installed /\ \A q \in Requests : accessRequest[q].step \notin Ax!InFlight
  BY <1>0, <1>1 DEF SetUpOnce, Ax!Installed
<1>3. /\ form' \in [Users -> {"blank", "checked", "done"}] /\ Ax!Installed' /\ overlapped' \in BOOLEAN
      /\ \A v, w \in Users : form'[v] # "blank" /\ form'[w] # "blank" => v = w
  BY <1>0, <1>1 DEF AccessShape, SetUpOnce, Ax!Installed
<1>4. "owner" \in Ax!Roles \cup {None} /\ accessRequest \in [Requests -> Ax!RequestRows]
  BY <1>0 DEF Ax!Roles, AccessShape
<1>5. /\ AccessShape' /\ SetUpOnce' /\ AuthorityEarned' /\ Counted' /\ role'[u] = "owner"
      /\ \A v : Leaving(v)' => \E q \in Requests : accessRequest[q].step = "removing" /\ accessRequest[q].ask.on = v
  <2>1. PICK others : others = accessRequest
    OBVIOUS
  <2>2. \A q \in Requests :
          \/ others[q] = accessRequest[q]
          \/ /\ others[q].step = "done" /\ others[q].live = TRUE
             /\ Ax!Required(others[q].ask) \in EarnedBy(others[q])
    BY <2>1
  <2>3. UNCHANGED <<apiKey, counter, let, late, minute>> /\ Ax!Becomes(u, "owner", others) /\ others \in [Requests -> Ax!RequestRows]
    BY <1>1, <1>3, <1>4, <2>1
  <2>4. /\ AccessShape' /\ SetUpOnce' /\ AuthorityEarned' /\ Counted'
        /\ role'[u] = "owner" /\ \A v \in Users : v # u => role'[v] = role[v]
        /\ \A v : Leaving(v)' => \E q \in Requests : others[q].step = "removing" /\ others[q].ask.on = v
    <3>1. PICK new : new = "owner"
      OBVIOUS
    <3>2. Ax!Becomes(u, new, others) /\ new \in Ax!Roles \cup {None}
      BY <1>4, <2>3, <3>1
    <3>3. /\ AccessShape' /\ SetUpOnce' /\ AuthorityEarned' /\ Counted'
          /\ role'[u] = new /\ \A v \in Users : v # u => role'[v] = role[v]
          /\ \A v : Leaving(v)' => \E q \in Requests : others[q].step = "removing" /\ others[q].ask.on = v
      BY <1>3, <2>2, <2>3, <3>2, BecomesStep
    <3> QED BY <3>1, <3>3
  <2> QED BY <2>1, <2>4
<1>6. OwnerStays'
  BY <1>2, <1>5 DEF OwnerStays, Ax!InFlight
<1> QED BY <1>5, <1>6 DEF AccessInv

LEMMA ProvisionStep ==
  ASSUME AccessInv, NEW u \in Users, NEW new \in Ax!Roles, Ax!ProvisionMember(u, new)
  PROVE  AccessInv'
<1>0. AccessShape /\ SetUpOnce /\ OwnerStays
  BY DEF AccessInv
<1>1. /\ Ax!Installed /\ role[u] = None /\ Ax!Becomes(u, new, accessRequest)
      /\ UNCHANGED <<form, apiKey, counter, let, late, minute, overlapped>>
  BY DEF Ax!ProvisionMember, Ax!limits
<1>2. /\ form' \in [Users -> {"blank", "checked", "done"}] /\ Ax!Installed' /\ overlapped' \in BOOLEAN
      /\ \A v, w \in Users : form'[v] # "blank" /\ form'[w] # "blank" => v = w
  BY <1>0, <1>1 DEF AccessShape, SetUpOnce, Ax!Installed
<1>3. accessRequest \in [Requests -> Ax!RequestRows] /\ new \in Ax!Roles \cup {None}
  BY <1>0 DEF AccessShape
<1>4. /\ AccessShape' /\ SetUpOnce' /\ AuthorityEarned' /\ Counted' /\ \A v \in Users : v # u => role'[v] = role[v]
      /\ \A v : Leaving(v)' => \E q \in Requests : accessRequest[q].step = "removing" /\ accessRequest[q].ask.on = v
  <2>1. PICK others : others = accessRequest
    OBVIOUS
  <2>2. \A q \in Requests :
          \/ others[q] = accessRequest[q]
          \/ /\ others[q].step = "done" /\ others[q].live = TRUE
             /\ Ax!Required(others[q].ask) \in EarnedBy(others[q])
    BY <2>1
  <2>3. UNCHANGED <<apiKey, counter, let, late, minute>> /\ Ax!Becomes(u, new, others) /\ others \in [Requests -> Ax!RequestRows]
    BY <1>1, <1>2, <1>3, <2>1
  <2>4. /\ AccessShape' /\ SetUpOnce' /\ AuthorityEarned' /\ Counted'
        /\ role'[u] = new /\ \A v \in Users : v # u => role'[v] = role[v]
        /\ \A v : Leaving(v)' => \E q \in Requests : others[q].step = "removing" /\ others[q].ask.on = v
    BY <1>1, <1>2, <1>3, <2>2, <2>3, BecomesStep
  <2> QED BY <2>1, <2>4
<1>5. None # "owner"
  BY PlatformAssumption DEF Ax!Roles
<1>6. OwnerStays'
  BY <1>0, <1>1, <1>4, <1>5 DEF OwnerStays, Leaving
<1> QED BY <1>4, <1>6 DEF AccessInv

LEMMA UpdateRoleStep ==
  ASSUME AccessInv, NEW u \in Users, NEW new \in Ax!Roles, Ax!UpdateMemberRole(u, new)
  PROVE  AccessInv'
<1>0. AccessShape /\ SetUpOnce /\ OwnerStays
  BY DEF AccessInv
<1>1. /\ role[u] # None /\ Ax!Owners \ {u} # {} /\ Ax!Becomes(u, new, accessRequest)
      /\ overlapped' = (overlapped \/ Ax!Overlaps(u))
      /\ UNCHANGED <<form, apiKey, counter, let, late, minute>>
  BY DEF Ax!UpdateMemberRole, Ax!limits
<1>2. Ax!Installed /\ overlapped \in BOOLEAN /\ overlapped' \in BOOLEAN /\ (overlapped => overlapped') /\ (Ax!Overlaps(u) => overlapped')
  BY <1>0, <1>1 DEF AccessShape, SetUpOnce
<1>3. /\ form' \in [Users -> {"blank", "checked", "done"}] /\ Ax!Installed'
      /\ \A v, w \in Users : form'[v] # "blank" /\ form'[w] # "blank" => v = w
  BY <1>0, <1>1, <1>2 DEF AccessShape, SetUpOnce, Ax!Installed
<1>4. accessRequest \in [Requests -> Ax!RequestRows] /\ new \in Ax!Roles \cup {None}
  BY <1>0 DEF AccessShape
<1>5. UNCHANGED <<apiKey, counter, let, late, minute>>
  BY <1>1
<1>6. /\ AccessShape' /\ SetUpOnce' /\ AuthorityEarned' /\ Counted' /\ \A v \in Users : v # u => role'[v] = role[v]
      /\ \A v : Leaving(v)' => \E q \in Requests : accessRequest[q].step = "removing" /\ accessRequest[q].ask.on = v
  <2>1. PICK others : others = accessRequest
    OBVIOUS
  <2>2. \A q \in Requests :
          \/ others[q] = accessRequest[q]
          \/ /\ others[q].step = "done" /\ others[q].live = TRUE
             /\ Ax!Required(others[q].ask) \in EarnedBy(others[q])
    BY <2>1
  <2>3. UNCHANGED <<apiKey, counter, let, late, minute>> /\ Ax!Becomes(u, new, others) /\ others \in [Requests -> Ax!RequestRows]
    BY <1>1, <1>2, <1>3, <1>4, <1>5, <2>1
  <2>4. /\ AccessShape' /\ SetUpOnce' /\ AuthorityEarned' /\ Counted'
        /\ role'[u] = new /\ \A v \in Users : v # u => role'[v] = role[v]
        /\ \A v : Leaving(v)' => \E q \in Requests : others[q].step = "removing" /\ others[q].ask.on = v
    BY <1>1, <1>2, <1>3, <1>4, <1>5, <2>2, <2>3, BecomesStep
  <2> QED BY <2>1, <2>4
<1>7. OwnerStays'
  <2> SUFFICES ASSUME ~overlapped' PROVE \E w \in Users : role'[w] = "owner" /\ ~Leaving(w)'
    BY DEF OwnerStays
  <2>1. CASE role[u] = "owner"
    <3>1. PICK w \in Users : role[w] = "owner" /\ w # u
      BY <1>1 DEF Ax!Owners
    <3>2. ~Leaving(w)'
      BY <1>2, <1>6, <2>1, <3>1 DEF Ax!Overlaps, Ax!At
    <3> QED BY <1>6, <3>1, <3>2
  <2>2. CASE role[u] # "owner"
    <3>1. PICK w \in Users : role[w] = "owner" /\ ~Leaving(w)
      BY <1>0, <1>2 DEF OwnerStays
    <3> QED BY <1>6, <2>2, <3>1 DEF Leaving
  <2> QED BY <2>1, <2>2
<1> QED BY <1>6, <1>7 DEF AccessInv

LEMMA RemoveStep == ASSUME AccessInv, NEW r \in Requests, Ax!MemberRemove(r) PROVE AccessInv'
<1>0. AccessShape /\ SetUpOnce /\ AuthorityEarned /\ OwnerStays
  BY DEF AccessInv
<1>1. PICK u, others : u = accessRequest[r].ask.on /\ others = Ax!Done(r)
  OBVIOUS
<1>2. /\ accessRequest[r].step = "removing" /\ Ax!Becomes(u, None, others)
      /\ UNCHANGED <<form, apiKey, counter, let, late, minute, overlapped>>
  BY <1>1 DEF Ax!MemberRemove, Ax!At, Ax!limits
<1>3. /\ accessRequest[r].ask \in Ax!Asks /\ accessRequest[r].ask.op = "remove" /\ accessRequest[r].live = TRUE
      /\ "manage" \in accessRequest[r].permissions /\ accessRequest[r].permissions \subseteq EarnedBy(accessRequest[r])
  BY <1>0, <1>2 DEF AccessShape, AuthorityEarned, Ax!InFlight, Advanced
<1>4. u \in Users
  BY <1>1, <1>3, PersonAsked
<1>5. Ax!Installed
  BY <1>2, RunningInstalled DEF Ax!InFlight
<1>6. /\ form' \in [Users -> {"blank", "checked", "done"}] /\ Ax!Installed' /\ overlapped' \in BOOLEAN
      /\ \A v, w \in Users : form'[v] # "blank" /\ form'[w] # "blank" => v = w
  BY <1>0, <1>2, <1>5 DEF AccessShape, SetUpOnce, Ax!Installed
<1> DEFINE x == [accessRequest[r] EXCEPT !.step = "done", !.permissions = {}, !.minute = 0]
<1>7. accessRequest \in [Requests -> Ax!RequestRows] /\ accessRequest[r] \in Ax!RequestRows
  BY <1>0 DEF AccessShape
<1>8. /\ x \in Ax!RequestRows /\ x.step = "done" /\ x.ask = accessRequest[r].ask
      /\ x.scopes = accessRequest[r].scopes /\ x.roles = accessRequest[r].roles /\ x.live = accessRequest[r].live
  BY <1>7, FirstMinute DEF Ax!RequestRows
<1>9. others = [accessRequest EXCEPT ![r] = x]
  BY <1>1, <1>7 DEF Ax!Done
<1> HIDE DEF x
<1>10. /\ others \in [Requests -> Ax!RequestRows] /\ others[r] = x
       /\ \A q \in Requests : q # r => others[q] = accessRequest[q]
  BY <1>7, <1>8, <1>9
<1>11. x.live = TRUE /\ Ax!Required(x.ask) \in EarnedBy(x)
  BY <1>3, <1>8 DEF EarnedBy, Ax!Required
<1>12. \A q \in Requests :
          \/ others[q] = accessRequest[q]
          \/ /\ others[q].step = "done" /\ others[q].live = TRUE
             /\ Ax!Required(others[q].ask) \in EarnedBy(others[q])
  BY <1>8, <1>10, <1>11
<1>13. None \in Ax!Roles \cup {None} /\ UNCHANGED <<apiKey, counter, let, late, minute>>
  BY <1>2
<1>14. /\ AccessShape' /\ SetUpOnce' /\ AuthorityEarned' /\ Counted' /\ \A v \in Users : v # u => role'[v] = role[v]
       /\ \A v : Leaving(v)' => \E q \in Requests : others[q].step = "removing" /\ others[q].ask.on = v
  BY <1>2, <1>4, <1>6, <1>10, <1>12, <1>13, BecomesStep
<1>15. \A v : Leaving(v)' => Leaving(v)
  BY <1>8, <1>10, <1>14 DEF Leaving
<1>16. Leaving(u)
  BY <1>1, <1>2 DEF Leaving
<1>17. OwnerStays'
  BY <1>0, <1>2, <1>5, <1>14, <1>15, <1>16 DEF OwnerStays
<1> QED BY <1>14, <1>17 DEF AccessInv

LEMMA AccessNextStep ==
  AccessInv /\ (Ax!Next \/ UNCHANGED accessVars) => AccessInv'
<1> SUFFICES ASSUME AccessInv, Ax!Next \/ UNCHANGED accessVars PROVE AccessInv'
  OBVIOUS
<1>1. CASE Ax!LetIn
  <2>1. ASSUME NEW r \in Requests, NEW ask \in Ax!Asks,
               \/ \E u \in Users : Ax!ResolveFromSession(r, u, ask)
               \/ \E k \in ApiKeys : Ax!ResolveFromApiKey(r, k, ask)
        PROVE  AccessInv'
    BY <2>1, ArrivesStep
  <2>2. ASSUME NEW r \in Requests, Ax!FindMemberRole(r) \/ Ax!ReadClock(r) \/ Ax!ConsumeRateLimit(r)
        PROVE  AccessInv'
    BY <2>2, FindRoleStep, ReadClockStep, ConsumeStep
  <2>3. CASE Ax!Tick \/ \E a \in Ax!Actors : Ax!PruneRateLimits(a)
    BY <2>3, AsideStep
  <2> QED BY <1>1, <2>1, <2>2, <2>3 DEF Ax!LetIn
<1>2. CASE Ax!Act
  <2>1. ASSUME NEW r \in Requests,
               \/ Ax!Work(r) \/ Ax!ApiKeyRevoke(r)
               \/ \E k \in ApiKeys, scopes \in {{"work"}, {"manage", "work"}} : Ax!ApiKeyCreate(r, k, scopes)
        PROVE  AccessInv'
    BY <2>1, WorkStep
  <2>2. ASSUME NEW r \in Requests, Ax!MemberRemoveRead(r) \/ Ax!MemberRemove(r) \/ Ax!Refuse(r)
        PROVE  AccessInv'
    BY <2>2, RemoveReadStep, RemoveStep, RefuseStep
  <2> QED BY <1>2, <2>1, <2>2 DEF Ax!Act
<1>3. CASE Ax!People
  <2>1. ASSUME NEW u \in Users, Ax!SetupCheck(u) \/ Ax!CompleteSetup(u) PROVE AccessInv'
    BY <2>1, SetupStep, AsideStep
  <2>2. ASSUME NEW u \in Users, NEW new \in Ax!Roles, Ax!ProvisionMember(u, new) \/ Ax!UpdateMemberRole(u, new)
        PROVE  AccessInv'
    BY <2>2, ProvisionStep, UpdateRoleStep
  <2>3. CASE \E k \in ApiKeys : Ax!ApiKeyExpires(k)
    BY <2>3, AsideStep
  <2> QED BY <1>3, <2>1, <2>2, <2>3 DEF Ax!People
<1>4. CASE UNCHANGED accessVars
  BY <1>4, AsideStep
<1> QED BY <1>1, <1>2, <1>3, <1>4 DEF Ax!Next

-----------------------------------------------------------------------------
(* The parts side by side: each behaviour is one of the parts'.            *)

PlatformInv ==
    /\ part = "requests" => RequestsInv
    /\ part = "access" => AccessInv
    /\ part = "tenancy" => TenancyInv

LEMMA PlatformInit == AllInit => PlatformInv
<1> SUFFICES ASSUME AllInit PROVE PlatformInv
  OBVIOUS
<1>1. /\ part = "requests" => Rq!Init
      /\ part = "access" => Ax!Init
      /\ part = "tenancy" => Tn!Init
  BY DEF AllInit
<1> QED BY <1>1, RequestsInit, AccessInit, TenancyInit DEF PlatformInv

LEMMA PlatformNextStep == PlatformInv /\ [AllNext]_allVars => PlatformInv'
<1> SUFFICES ASSUME PlatformInv, [AllNext]_allVars PROVE PlatformInv'
  OBVIOUS
<1>1. /\ part' = part
      /\ part = "requests" => Rq!Next \/ UNCHANGED requestsVars
      /\ part = "access" => Ax!Next \/ UNCHANGED accessVars
      /\ part = "tenancy" => Tn!Next \/ UNCHANGED tenancyVars
  BY DEF AllNext, LocksNext, RequestsNext, AccessNext, TenancyNext, allVars
<1>2. part = "requests" => RequestsInv'
  BY <1>1, RequestsNextStep DEF PlatformInv
<1>3. part = "access" => AccessInv'
  BY <1>1, AccessNextStep DEF PlatformInv
<1>4. part = "tenancy" => TenancyInv'
  BY <1>1, TenancyNextStep DEF PlatformInv
<1> QED BY <1>1, <1>2, <1>3, <1>4 DEF PlatformInv

(* The rows of the locks take their steps, or stay.                        *)
LEMMA LocksAmongThem == AllSpec => Spec
<1>1. AllInit => Init
  BY DEF AllInit
<1>2. [AllNext]_allVars => [Next]_vars
  BY DEF AllNext, LocksNext, RequestsNext, AccessNext, TenancyNext, allVars, vars
<1> QED BY <1>1, <1>2, PTL DEF AllSpec, Spec

LEMMA PlatformKept == AllSpec => []PlatformInv
<1>1. AllInit => PlatformInv
  BY PlatformInit
<1>2. PlatformInv /\ [AllNext]_allVars => PlatformInv'
  BY PlatformNextStep
<1> QED BY <1>1, <1>2, PTL DEF AllSpec

(* Under one Idempotency-Key something is done once, however often and     *)
(* however concurrently it is sent (registry/execute.ts claims the key in  *)
(* the handler's own transaction), every answer under a key is the answer  *)
(* of what was done, and the files that rows name are there.               *)
THEOREM RequestsAlwaysOnce == AllSpec => []RequestsOnce
<1>1. PlatformInv => RequestsOnce
  BY RequestsInvHolds DEF PlatformInv, RequestsOnce
<1> QED BY <1>1, PlatformKept, PTL

(* What was done was permitted by a role held since the request came in    *)
(* and by the scopes of its key, no more than the limit is let through in  *)
(* a minute, an owner remains (identity.ts, rate-limit.ts); and a request  *)
(* sees and writes the rows of its own organization only, whatever ran on  *)
(* its connection before (tenant.ts).                                      *)
THEOREM AccessAlwaysHeld == AllSpec => []AccessHeld
<1>1. PlatformInv => AccessHeld
  <2>1. TenancyInv => Tn!TypeOK /\ Tn!Isolated /\ Tn!RowsOfOwner /\ Tn!NeverFails
    BY DEF TenancyInv
  <2> QED BY <2>1, AccessInvHolds DEF PlatformInv, AccessHeld
<1> QED BY <1>1, PlatformKept, PTL
=============================================================================
