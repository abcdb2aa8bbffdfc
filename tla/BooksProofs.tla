----------------------------- MODULE BooksProofs -----------------------------
(***************************************************************************)
(* Proofs about closed books and tax packs, banking and seals, for any     *)
(* number of records, of requests under way and of workers, of accounts,   *)
(* money and entries, and of days.                                         *)
(*                                                                         *)
(* Books: a trigger judges a row when it is written and the row stands     *)
(* when it is committed; the proofs rest on what a request under way has   *)
(* written, and on the lock that keeps the row it judged as it was.        *)
(*                                                                         *)
(* Banking: a balance is a sum over the lines of its account, so sums come *)
(* first.  Money has one line at most and in the account it names, which   *)
(* is why what moves in one account leaves the others' sums alone.         *)
(*                                                                         *)
(* Seals: of two workers that have read the same last seal, one is about   *)
(* every day that the other is, and no two have inserted the same day: the *)
(* one that commits leaves the other a day that is sealed, at which it     *)
(* stops.                                                                  *)
(***************************************************************************)
EXTENDS MCTreasury, Sequences, FiniteSetTheorems, WellFoundedInduction, TLAPS

Asked == [op : {"lock", "unlock"}, read : 0..LastDay, to : 0..LastDay]
Resulting == Rows \cup {NoRow}
PackRows == [state : {"none", "pending", "ready", "failed"}, attempts : 0..MaxAttempts]
Steps == {"idle", "invoice", "expense", "payment", "zip"}

Shape ==
    /\ kind \in [Records -> Kinds]
    /\ row \in [Records -> Resulting]
    /\ closed \in 0..LastDay
    /\ DOMAIN writer = Writers /\ DOMAIN clerk = Clerks /\ DOMAIN worker = Workers
    /\ pack \in PackRows

(* A request under way has written one record, alone, and was not refused  *)
(* by the books as they were closed then.                                  *)
Written ==
    /\ \A t \in Writers : writer[t] # Idle =>
          /\ writer[t].record \in Records /\ writer[t].new \in Resulting /\ writer[t].checked \in 0..LastDay
          /\ writer[t].new # row[writer[t].record]
          /\ Writable(kind[writer[t].record], row[writer[t].record], writer[t].new)
          /\ writer[t].checked > 0 =>
                ~Refused(kind[writer[t].record], row[writer[t].record], writer[t].new, writer[t].checked)
    /\ \A s, t \in Writers : writer[s] # Idle /\ writer[s].record = writer[t].record => s = t

(* Whoever closes or reopens was right to, by the date read.               *)
Asking == \A c \in Clerks : clerk[c] # Off => clerk[c] \in Asked /\ Accepted(clerk[c])

(* A pack that waits is still due, or its last attempt is under way.       *)
PackDue ==
    pack.state = "pending" =>
       \/ pack.attempts < MaxAttempts
       \/ \E w \in Workers : worker[w].attempt = MaxAttempts
       \/ lost

(* The kinds a builder has read.                                           *)
ReadBy(step) ==
    CASE step = "expense" -> {"invoice"}
      [] step = "payment" -> {"invoice", "expense"}
      [] step = "zip"     -> Kinds
      [] OTHER            -> {}

Counted(x) == IF Stands(x) /\ x.day = Year THEN x ELSE NoRow

(* While the year is closed, what was read is what the books still say.    *)
Reading ==
    \A w \in Workers :
        /\ worker[w] = Resting \/ worker[w].step \in Steps \ {"idle"}
        /\ w \in quiet /\ worker[w] # Resting =>
              \A r \in Records :
                 /\ kind[r] \in ReadBy(worker[w].step) => MoneyOf(worker[w].content[r]) = MoneyOf(Counted(row[r]))
                 /\ kind[r] \notin ReadBy(worker[w].step) => worker[w].content[r] = NoRow

QuietIsClosed == quiet \subseteq Workers /\ (quiet # {} => closed >= Year)

BooksInv ==
    /\ Shape
    /\ Written
    /\ Asking
    /\ PackDue
    /\ Reading
    /\ QuietIsClosed

LEMMA BooksInit == Init => BooksInv
<1> SUFFICES ASSUME Init PROVE BooksInv
  OBVIOUS
<1>1. row \in [Records -> Resulting]
  BY DEF Init, Resulting, Rows
<1>2. Shape
  BY <1>1, BooksAssumption DEF Init, Shape, NoPack, PackRows
<1>3. Written /\ Asking
  BY DEF Init, Written, Asking
<1>4. PackDue /\ Reading /\ QuietIsClosed
  BY DEF Init, PackDue, Reading, QuietIsClosed, NoPack
<1> QED BY <1>2, <1>3, <1>4 DEF BooksInv

LEMMA IdleRecord == Idle.record = None /\ None \notin Records
BY BooksAssumption DEF Idle

-----------------------------------------------------------------------------
(* What the triggers let through leaves a closed year as it was.           *)
LEMMA LetThrough ==
    ASSUME NEW k \in Kinds, NEW old \in Resulting, NEW new \in Resulting, NEW through \in 1..LastDay,
           Writable(k, old, new), ~Refused(k, old, new, through)
    PROVE  /\ \/ \A x \in {old, new} : Stands(x) => x.day > through
              \/ MoneyOf(old) = MoneyOf(new) /\ (k = "invoice" \/ (k = "expense" /\ (old # new => new.with)))
           /\ MoneyOf(Counted(old)) = MoneyOf(Counted(new))
<1>0. \A x \in Resulting : x.day \in Int /\ x.with \in BOOLEAN /\ (Stands(x) => x \in Rows)
  <2>1. \A x \in Rows : x.day \in Int /\ x.with \in BOOLEAN
    BY DEF Rows
  <2>2. NoRow.day \in Int /\ NoRow.with \in BOOLEAN /\ ~Stands(NoRow)
    BY DEF NoRow, Stands
  <2> QED BY <2>1, <2>2 DEF Resulting
<1>1. /\ old.day \in Int /\ new.day \in Int /\ through \in Int /\ through >= 1
      /\ old.with \in BOOLEAN /\ new.with \in BOOLEAN
      /\ Stands(old) => old \in Rows
      /\ Stands(new) => new \in Rows
  BY <1>0, BooksAssumption
<1>2. CASE k = "invoice"
  <2>1. ~InvoiceLock(old, new, through)
    BY <1>2 DEF Refused
  <2>2. \/ old = NoRow /\ new.state = "draft"
        \/ old.state = "draft" /\ (new = NoRow \/ new.state \in {"draft", "booked"})
        \/ old.state = "booked" /\ new = [old EXCEPT !.with = ~@]
        \/ old.state = "booked" /\ new = [old EXCEPT !.state = "cancelled"]
    BY <1>2 DEF Writable
  <2>3. CASE old = NoRow /\ new.state = "draft"
    BY <2>3 DEF Stands, NoRow, Counted
  <2>4. CASE old.state = "draft" /\ (new = NoRow \/ new.state \in {"draft", "booked"})
    BY <2>1, <2>4, <1>1 DEF Stands, NoRow, Counted, InvoiceLock, In, Year
  <2>5. CASE old.state = "booked" /\ new = [old EXCEPT !.with = ~@]
    <3>1. old \in Rows
      BY <2>5, <1>1 DEF Stands
    <3>2. new.state = old.state /\ new.day = old.day /\ new.amount = old.amount
      BY <2>5, <3>1 DEF Rows
    <3> QED BY <3>2, <1>2 DEF MoneyOf, Counted, Stands
  <2>6. CASE old.state = "booked" /\ new = [old EXCEPT !.state = "cancelled"]
    <3>1. old \in Rows
      BY <2>6, <1>1 DEF Stands
    <3>2. new.state = "cancelled" /\ new.day = old.day
      BY <2>6, <3>1 DEF Rows
    <3> QED BY <2>1, <2>6, <3>2, <1>1 DEF InvoiceLock, In, Stands, Counted, Year
  <2> QED BY <2>2, <2>3, <2>4, <2>5, <2>6
<1>3. CASE k = "expense"
  <2>1. ~ExpenseLock(old, new, through)
    BY <1>3 DEF Refused
  <2>2. CASE MoneyOf(old) # MoneyOf(new)
    <3>1. \A x \in {old, new} : Stands(x) => x.day > through
      BY <2>1, <2>2, <1>1 DEF ExpenseLock, Stands, In
    <3>2. Counted(old) = NoRow /\ Counted(new) = NoRow
      BY <3>1, <1>1 DEF Counted, Year
    <3> QED BY <3>1, <3>2
  <2>3. CASE MoneyOf(old) = MoneyOf(new)
    <3>1. old.state = new.state /\ old.day = new.day /\ old.amount = new.amount
      BY <2>3 DEF MoneyOf
    <3>2. MoneyOf(Counted(old)) = MoneyOf(Counted(new))
      BY <3>1 DEF MoneyOf, Counted, Stands
    <3>3. CASE ~Stands(old) \/ old.day > through
      BY <3>1, <3>2, <3>3 DEF Stands
    <3>4. CASE Stands(old) /\ ~(old.day > through)
      <4>1. ~(old.with /\ ~new.with)
        BY <2>1, <3>4, <1>1 DEF ExpenseLock, Stands, In
      <4>2. old # new => new.with
        <5> SUFFICES ASSUME ~new.with PROVE old = new
          OBVIOUS
        <5>1. old \in Rows /\ new \in Rows
          BY <3>1, <3>4, <1>1 DEF Stands
        <5> QED BY <5>1, <4>1, <3>1, <1>1 DEF Rows
      <4> QED BY <4>2, <3>2, <2>3, <1>3
    <3> QED BY <3>3, <3>4
  <2> QED BY <2>2, <2>3
<1>4. CASE k = "payment"
  <2>1. ~PaymentLock(old, new, through)
    BY <1>4 DEF Refused
  <2>2. \A x \in {old, new} : Stands(x) => x.day > through
    BY <2>1, <1>1 DEF PaymentLock, In, Stands, NoRow
  <2>3. Counted(old) = NoRow /\ Counted(new) = NoRow
    BY <2>2, <1>1 DEF Counted, Year
  <2> QED BY <2>2, <2>3
<1> QED BY <1>2, <1>3, <1>4 DEF Kinds

-----------------------------------------------------------------------------
(* Records.                                                                *)
LEMMA WriteStep ==
    ASSUME BooksInv, NEW t \in Writers, NEW r \in Records, NEW new \in Resulting, Write(t, r, new)
    PROVE  BooksInv'
<1>1. /\ writer' = [writer EXCEPT ![t] = [record |-> r, new |-> new, checked |-> closed]]
      /\ new # row[r] /\ Writable(kind[r], row[r], new)
      /\ \A o \in Writers : writer[o].record # r
      /\ closed > 0 => ~Refused(kind[r], row[r], new, closed)
      /\ UNCHANGED <<kind, row, closed, clerk, pack, worker, lost, quiet>>
  BY DEF Write, books, tax
<1>2. /\ writer'[t].record = r /\ writer'[t].new = new /\ writer'[t].checked = closed
      /\ \A o \in Writers \ {t} : writer'[o] = writer[o]
  BY <1>1 DEF BooksInv, Shape
<1>3. Shape' /\ Asking' /\ PackDue' /\ Reading' /\ QuietIsClosed'
  BY <1>1 DEF BooksInv, Shape, Asking, PackDue, Reading, QuietIsClosed
<1>4. Written'
  <2>1. closed \in 0..LastDay
    BY DEF BooksInv, Shape
  <2>2. writer'[t] # Idle
    BY <1>2, IdleRecord
  <2> QED BY <1>1, <1>2, <2>1, <2>2 DEF BooksInv, Written
<1> QED BY <1>3, <1>4 DEF BooksInv

LEMMA CommitStep ==
    ASSUME BooksInv, NEW t \in Writers, Commit(t)
    PROVE  BooksInv'
<1> DEFINE r == writer[t].record
<1>1. /\ writer[t] # Idle
      /\ row' = [row EXCEPT ![r] = writer[t].new]
      /\ quiet' = IF writer[t].checked < Year THEN {} ELSE quiet
      /\ writer' = [writer EXCEPT ![t] = Idle]
      /\ UNCHANGED <<kind, closed, clerk, pack, worker, lost>>
  BY DEF Commit
<1>2. /\ r \in Records /\ writer[t].new \in Resulting /\ writer[t].checked \in 0..LastDay
      /\ Writable(kind[r], row[r], writer[t].new)
      /\ writer[t].checked > 0 => ~Refused(kind[r], row[r], writer[t].new, writer[t].checked)
      /\ kind[r] \in Kinds /\ row[r] \in Resulting
  BY <1>1 DEF BooksInv, Shape, Written
<1> HIDE DEF r
<1>3. /\ writer'[t] = Idle
      /\ \A o \in Writers \ {t} : writer'[o] = writer[o]
      /\ row'[r] = writer[t].new
      /\ \A x \in Records \ {r} : row'[x] = row[x]
  BY <1>1, <1>2 DEF BooksInv, Shape
<1>4. Shape' /\ Asking' /\ PackDue' /\ QuietIsClosed'
  BY <1>1, <1>2 DEF BooksInv, Shape, Asking, PackDue, QuietIsClosed
<1>5. Written'
  <2> SUFFICES ASSUME NEW o \in Writers, writer'[o] # Idle
               PROVE  /\ writer'[o].record \in Records /\ writer'[o].new \in Resulting
                      /\ writer'[o].checked \in 0..LastDay
                      /\ writer'[o].new # row'[writer'[o].record]
                      /\ Writable(kind[writer'[o].record], row'[writer'[o].record], writer'[o].new)
                      /\ writer'[o].checked > 0 =>
                            ~Refused(kind[writer'[o].record], row'[writer'[o].record], writer'[o].new,
                                     writer'[o].checked)
                      /\ \A s \in Writers : writer'[o].record = writer'[s].record => o = s
    BY <1>1 DEF Written
  <2>1. o # t /\ writer'[o] = writer[o] /\ writer[o] # Idle
    BY <1>3
  <2>2. writer[o].record \in Records /\ writer[o].record # r
    BY <2>1 DEF BooksInv, Written, r
  <2>3. row'[writer[o].record] = row[writer[o].record]
    BY <1>3, <2>2
  <2>4. \A s \in Writers : writer[o].record = writer'[s].record => o = s
    BY <1>3, <2>1, <2>2, IdleRecord DEF BooksInv, Written
  <2> QED BY <2>1, <2>3, <2>4 DEF BooksInv, Written
<1>6. Reading'
  <2>1. CASE writer[t].checked < Year
    BY <2>1, <1>1 DEF BooksInv, Reading
  <2>2. CASE ~(writer[t].checked < Year)
    <3>1. writer[t].checked \in 1..LastDay
      BY <2>2, <1>2, BooksAssumption DEF Year
    <3>2. MoneyOf(Counted(row[r])) = MoneyOf(Counted(writer[t].new))
      BY <3>1, <1>2, LetThrough
    <3>3. \A x \in Records : MoneyOf(Counted(row'[x])) = MoneyOf(Counted(row[x]))
      BY <3>2, <1>3
    <3> QED BY <3>3, <2>2, <1>1 DEF BooksInv, Reading
  <2> QED BY <2>1, <2>2
<1> QED BY <1>4, <1>5, <1>6 DEF BooksInv

LEMMA RollBackStep ==
    ASSUME BooksInv, NEW t \in Writers, RollBack(t)
    PROVE  BooksInv'
<1>1. /\ writer' = [writer EXCEPT ![t] = Idle]
      /\ UNCHANGED <<kind, row, closed, clerk, pack, worker, lost, quiet>>
  BY DEF RollBack, books, tax
<1>2. writer'[t] = Idle /\ \A o \in Writers \ {t} : writer'[o] = writer[o]
  BY <1>1 DEF BooksInv, Shape
<1>3. Shape' /\ Asking' /\ PackDue' /\ Reading' /\ QuietIsClosed'
  BY <1>1 DEF BooksInv, Shape, Asking, PackDue, Reading, QuietIsClosed
<1>4. Written'
  BY <1>1, <1>2, IdleRecord DEF BooksInv, Written
<1> QED BY <1>3, <1>4 DEF BooksInv

-----------------------------------------------------------------------------
(* Closing and reopening.                                                  *)
LEMMA BooksReadStep ==
    ASSUME BooksInv, NEW c \in Clerks, NEW q \in Asked, BooksRead(c, q)
    PROVE  BooksInv'
<1>1. /\ clerk' = [clerk EXCEPT ![c] = q] /\ Accepted(q)
      /\ UNCHANGED <<kind, row, closed, writer, pack, worker, lost, quiet>>
  BY DEF BooksRead, books, tax
<1>2. Asking'
  BY <1>1 DEF BooksInv, Shape, Asking
<1>3. Shape' /\ Written' /\ PackDue' /\ Reading' /\ QuietIsClosed'
  BY <1>1 DEF BooksInv, Shape, Written, PackDue, Reading, QuietIsClosed
<1> QED BY <1>2, <1>3 DEF BooksInv

LEMMA BooksMoveStep ==
    ASSUME BooksInv, NEW c \in Clerks, NEW op \in {"lock", "unlock"}, BooksMove(c, op)
    PROVE  BooksInv'
<1>1. /\ clerk[c].op = op
      /\ closed' = clerk[c].to /\ quiet' = (IF clerk[c].to < Year THEN {} ELSE quiet)
      /\ clerk' = [clerk EXCEPT ![c] = Off]
      /\ UNCHANGED <<kind, row, writer, pack, worker, lost>>
  BY DEF BooksMove
<1>2. clerk[c] \in Asked
  BY <1>1 DEF BooksInv, Asking, Off
<1>3. closed' \in 0..LastDay
  BY <1>1, <1>2 DEF Asked
<1>4. Asking'
  BY <1>1 DEF BooksInv, Shape, Asking
<1>5. Shape' /\ Written' /\ PackDue' /\ Reading'
  BY <1>1, <1>3 DEF BooksInv, Shape, Written, PackDue, Reading
<1>6. QuietIsClosed'
  BY <1>1, <1>3, BooksAssumption DEF BooksInv, QuietIsClosed, Year
<1> QED BY <1>4, <1>5, <1>6 DEF BooksInv

-----------------------------------------------------------------------------
(* Packs.                                                                  *)

(* A step of a builder: what it must keep.                                 *)
LEMMA BuilderStep ==
    ASSUME BooksInv, NEW w \in Workers,
           UNCHANGED <<kind, row, closed, writer, clerk>>,
           DOMAIN worker' = Workers, \A v \in Workers \ {w} : worker'[v] = worker[v],
           pack' \in PackRows, PackDue',
           quiet' \subseteq Workers, quiet' # {} => closed >= Year, quiet' \subseteq quiet \cup {w},
           worker'[w] = Resting \/ worker'[w].step \in Steps \ {"idle"},
           w \in quiet' /\ worker'[w] # Resting =>
              \A r \in Records :
                 /\ kind[r] \in ReadBy(worker'[w].step) => MoneyOf(worker'[w].content[r]) = MoneyOf(Counted(row[r]))
                 /\ kind[r] \notin ReadBy(worker'[w].step) => worker'[w].content[r] = NoRow
    PROVE  BooksInv'
<1>1. Shape' /\ Written' /\ Asking' /\ QuietIsClosed'
  BY DEF BooksInv, Shape, Written, Asking, QuietIsClosed
<1>2. Reading'
  BY DEF BooksInv, Reading
<1> QED BY <1>1, <1>2 DEF BooksInv

LEMMA RequestStep ==
    ASSUME BooksInv, TaxPackRequest
    PROVE  BooksInv'
<1>1. /\ pack' = [NoPack EXCEPT !.state = "pending"]
      /\ UNCHANGED <<kind, row, closed, writer, clerk, worker, lost, quiet>>
  BY DEF TaxPackRequest, books
<1>2. pack'.attempts = 0 /\ 0 < MaxAttempts /\ pack' \in PackRows
  BY <1>1, BooksAssumption DEF NoPack, PackRows
<1>3. Shape' /\ PackDue'
  BY <1>1, <1>2 DEF BooksInv, Shape, PackDue
<1>4. Written' /\ Asking' /\ Reading' /\ QuietIsClosed'
  BY <1>1 DEF BooksInv, Written, Asking, Reading, QuietIsClosed
<1> QED BY <1>3, <1>4 DEF BooksInv

LEMMA ClaimStep ==
    ASSUME BooksInv, NEW w \in Workers, Claim(w)
    PROVE  BooksInv'
<1> DEFINE mine == [step |-> "invoice", attempt |-> pack.attempts + 1, content |-> [r \in Records |-> NoRow]]
<1>1. /\ worker[w] = Resting /\ pack.state = "pending" /\ pack.attempts < MaxAttempts
      /\ pack' = [pack EXCEPT !.attempts = @ + 1]
      /\ worker' = [worker EXCEPT ![w] = mine]
      /\ quiet' = IF closed >= Year THEN quiet \cup {w} ELSE quiet \ {w}
      /\ UNCHANGED <<kind, row, closed, writer, clerk, lost>>
  BY DEF Claim, books
<1>2. pack \in PackRows /\ pack.attempts \in 0..MaxAttempts /\ DOMAIN worker = Workers
  BY DEF BooksInv, Shape, PackRows
<1>3. pack'.attempts = pack.attempts + 1 /\ pack'.state = "pending"
  BY <1>1, <1>2 DEF PackRows
<1>4. worker'[w] = mine /\ DOMAIN worker' = Workers /\ \A v \in Workers \ {w} : worker'[v] = worker[v]
  BY <1>1, <1>2
<1>5. pack' \in PackRows /\ (pack'.attempts < MaxAttempts \/ worker'[w].attempt = MaxAttempts)
  BY <1>1, <1>2, <1>3, <1>4, BooksAssumption DEF PackRows
<1>6. PackDue'
  BY <1>5 DEF PackDue
<1>7. /\ worker'[w].step = "invoice" /\ "invoice" \in Steps \ {"idle"}
      /\ \A r \in Records : kind[r] \notin ReadBy("invoice") /\ worker'[w].content[r] = NoRow
  BY <1>4 DEF ReadBy, Steps
<1>8. quiet' \subseteq Workers /\ quiet' \subseteq quiet \cup {w} /\ (quiet' # {} => closed >= Year)
  BY <1>1 DEF BooksInv, QuietIsClosed
<1> HIDE DEF mine
<1> QED BY <1>1, <1>4, <1>5, <1>6, <1>7, <1>8, BuilderStep

LEMMA CollectStep ==
    ASSUME BooksInv, NEW w \in Workers, CollectPackInput(w)
    PROVE  BooksInv'
<1> DEFINE k == worker[w].step
           read == [r \in Records |-> IF kind[r] = k /\ Counts(row[r]) THEN row[r] ELSE worker[w].content[r]]
<1>1. /\ k \in Kinds
      /\ worker' = [worker EXCEPT ![w].step = After(k), ![w].content = read]
      /\ UNCHANGED <<kind, row, closed, writer, clerk, pack, lost, quiet>>
  BY DEF CollectPackInput, books
<1>2. DOMAIN worker = Workers /\ \A r \in Records : kind[r] \in Kinds
  BY DEF BooksInv, Shape
<1>3. worker[w] # Resting
  BY <1>1 DEF Resting, Kinds
<1>4. /\ worker'[w].step = After(k) /\ worker'[w].content = read /\ worker'[w].attempt = worker[w].attempt
      /\ DOMAIN worker' = Workers /\ \A v \in Workers \ {w} : worker'[v] = worker[v]
  BY <1>1, <1>2
<1>5. After(k) \in Steps \ {"idle"} /\ ReadBy(After(k)) = ReadBy(k) \cup {k} /\ k \notin ReadBy(k)
  BY <1>1 DEF After, Steps, Kinds, ReadBy
<1>6. ASSUME w \in quiet, NEW r \in Records
      PROVE  /\ kind[r] \in ReadBy(After(k)) => MoneyOf(read[r]) = MoneyOf(Counted(row[r]))
             /\ kind[r] \notin ReadBy(After(k)) => read[r] = NoRow
  <2>1. /\ kind[r] \in ReadBy(k) => MoneyOf(worker[w].content[r]) = MoneyOf(Counted(row[r]))
        /\ kind[r] \notin ReadBy(k) => worker[w].content[r] = NoRow
    BY <1>3, <1>6 DEF BooksInv, Reading
  <2> HIDE DEF k
  <2>2. kind[r] # k => read[r] = worker[w].content[r]
    OBVIOUS
  <2>3. kind[r] = k /\ worker[w].content[r] = NoRow => read[r] = Counted(row[r])
    BY DEF Counts, Counted, Stands
  <2> HIDE DEF read
  <2> QED BY <2>1, <2>2, <2>3, <1>5
<1>7. PackDue'
  <2>1. \A v \in Workers : worker'[v].attempt = worker[v].attempt
    BY <1>4
  <2> QED BY <2>1, <1>1 DEF BooksInv, PackDue
<1>8. pack' \in PackRows /\ quiet' \subseteq Workers /\ (quiet' # {} => closed >= Year)
  BY <1>1 DEF BooksInv, Shape, QuietIsClosed
<1> HIDE DEF k, read
<1> QED BY <1>1, <1>4, <1>5, <1>6, <1>7, <1>8, BuilderStep

(* A builder rests: done, failed or dead.                                  *)
LEMMA RestStep ==
    ASSUME BooksInv, NEW w \in Workers, BuildPack(w) \/ BuildFails(w) \/ Crash(w)
    PROVE  BooksInv'
<1>1. /\ worker' = [worker EXCEPT ![w] = Resting]
      /\ UNCHANGED <<kind, row, closed, writer, clerk, quiet>>
  BY DEF BuildPack, BuildFails, Crash, books
<1>2. pack' \in PackRows /\ pack'.attempts = pack.attempts
  <2>0. pack \in PackRows
    BY DEF BooksInv, Shape
  <2>1. BuildPack(w) => pack' = [pack EXCEPT !.state = "ready"]
    BY DEF BuildPack
  <2>2. BuildFails(w) => pack' = [pack EXCEPT !.state = IF Ends(worker[w].attempt) THEN "failed" ELSE @]
    BY DEF BuildFails
  <2>3. Crash(w) => pack' = pack
    BY DEF Crash
  <2> QED BY <2>0, <2>1, <2>2, <2>3 DEF PackRows
<1>3. worker'[w] = Resting /\ DOMAIN worker' = Workers /\ \A v \in Workers \ {w} : worker'[v] = worker[v]
  BY <1>1 DEF BooksInv, Shape
<1>4. PackDue'
  <2> SUFFICES ASSUME pack'.state = "pending"
               PROVE  pack'.attempts < MaxAttempts \/ (\E v \in Workers : worker'[v].attempt = MaxAttempts) \/ lost'
    BY DEF PackDue
  <2>1. CASE BuildPack(w)
    <3>1. pack' = [pack EXCEPT !.state = "ready"]
      BY <2>1 DEF BuildPack
    <3>2. pack'.state = "ready"
      BY <3>1 DEF BooksInv, Shape, PackRows
    <3> QED BY <3>2
  <2>2. CASE BuildFails(w)
    <3>1. pack' = [pack EXCEPT !.state = IF Ends(worker[w].attempt) THEN "failed" ELSE @] /\ lost' = lost
      BY <2>2 DEF BuildFails
    <3>2. ~Ends(worker[w].attempt) /\ pack.state = "pending"
      BY <3>1 DEF BooksInv, Shape, PackRows
    <3>3. worker[w].attempt # MaxAttempts
      BY <3>2, BooksAssumption DEF Ends
    <3> QED BY <1>2, <1>3, <3>1, <3>2, <3>3 DEF BooksInv, PackDue
  <2>3. CASE Crash(w)
    BY <2>3, Zenon DEF Crash
  <2> QED BY <2>1, <2>2, <2>3
<1>5. quiet' \subseteq Workers /\ (quiet' # {} => closed >= Year)
  BY <1>1 DEF BooksInv, Shape, QuietIsClosed
<1> QED BY <1>1, <1>2, <1>3, <1>4, <1>5, BuilderStep

-----------------------------------------------------------------------------
LEMMA BooksKeep == BooksInv /\ [Next]_vars => BooksInv'
<1> SUFFICES ASSUME BooksInv, [Next]_vars PROVE BooksInv'
  OBVIOUS
<1>1. ASSUME NEW t \in Writers, NEW r \in Records, NEW new \in Rows \cup {NoRow}, Write(t, r, new) PROVE BooksInv'
  BY <1>1, WriteStep DEF Resulting
<1>2. ASSUME NEW t \in Writers, Commit(t) PROVE BooksInv'
  BY <1>2, CommitStep
<1>3. ASSUME NEW t \in Writers, RollBack(t) PROVE BooksInv'
  BY <1>3, RollBackStep
<1>4. ASSUME NEW c \in Clerks, NEW op \in {"lock", "unlock"}, NEW read \in 0..LastDay, NEW to \in 0..LastDay,
             BooksRead(c, [op |-> op, read |-> read, to |-> to])
      PROVE  BooksInv'
  BY <1>4, BooksReadStep DEF Asked
<1>5. ASSUME NEW c \in Clerks, BooksLock(c) \/ BooksUnlock(c) PROVE BooksInv'
  BY <1>5, BooksMoveStep DEF BooksLock, BooksUnlock
<1>6. CASE TaxPackRequest
  BY <1>6, RequestStep
<1>7. ASSUME NEW w \in Workers, Claim(w) PROVE BooksInv'
  BY <1>7, ClaimStep
<1>8. ASSUME NEW w \in Workers, CollectPackInput(w) PROVE BooksInv'
  BY <1>8, CollectStep
<1>9. ASSUME NEW w \in Workers, BuildPack(w) \/ BuildFails(w) \/ Crash(w) PROVE BooksInv'
  BY <1>9, RestStep
<1>10. CASE UNCHANGED vars
  BY <1>10 DEF vars, BooksInv, Shape, Written, Asking, PackDue, Reading, QuietIsClosed
<1> QED BY <1>1, <1>2, <1>3, <1>4, <1>5, <1>6, <1>7, <1>8, <1>9, <1>10, Zenon DEF Next

(* A pack asked for stays due until it is built or given up, and one read  *)
(* while its year was closed holds that year as the books have it, though  *)
(* each kind of record was read at another moment.                         *)
THEOREM PacksAlwaysHold == Spec => []PacksHold
<1>1. BooksInv => TypeOK
  BY DEF BooksInv, Shape, Written, PackDue, TypeOK, Resulting
<1>2. BooksInv => PackOfBooks
  <2> SUFFICES ASSUME BooksInv, NEW w \in quiet, NEW r \in Records, worker[w].step = "zip"
               PROVE  MoneyOf(worker[w].content[r]) = MoneyOf(Counted(row[r]))
    BY DEF PackOfBooks, Counted
  <2>1. w \in Workers /\ worker[w] # Resting /\ kind[r] \in ReadBy(worker[w].step)
    BY DEF BooksInv, QuietIsClosed, Resting, ReadBy, Shape
  <2> QED BY <2>1 DEF BooksInv, Reading
<1> QED BY BooksInit, BooksKeep, <1>1, <1>2, PTL DEF Spec, PacksHold

-----------------------------------------------------------------------------
LEMMA RowsKept ==
    ASSUME BooksInv, [Next]_vars, row' # row
    PROVE  \E t \in Writers : Commit(t)
<1>1. ~(\E t \in Writers, r \in Records, new \in Rows \cup {NoRow} : Write(t, r, new))
  BY DEF Write, books
<1>2. ~(\E t \in Writers : RollBack(t))
  BY DEF RollBack, books
<1>3. ~(\E c \in Clerks, q \in Asked : BooksRead(c, q)) /\ ~(\E c \in Clerks : BooksLock(c) \/ BooksUnlock(c))
  BY DEF BooksRead, BooksLock, BooksUnlock, BooksMove, books
<1>4. \A op \in {"lock", "unlock"}, read, to \in 0..LastDay : [op |-> op, read |-> read, to |-> to] \in Asked
  BY DEF Asked
<1>5. ~TaxPackRequest /\ ~(\E w \in Workers : Claim(w) \/ CollectPackInput(w) \/ BuildPack(w) \/ BuildFails(w) \/ Crash(w))
  BY DEF TaxPackRequest, Claim, CollectPackInput, BuildPack, BuildFails, Crash, books
<1>6. Next
  BY DEF vars
<1> QED BY <1>1, <1>2, <1>3, <1>4, <1>5, <1>6, Zenon DEF Next

LEMMA ClosedRow ==
    ASSUME BooksInv, NEW t \in Writers, Commit(t), NEW r \in Records, row'[r] # row[r]
    PROVE  \/ \A x \in {row[r], row'[r]} : Stands(x) => x.day > closed
           \/ MoneyOf(row[r]) = MoneyOf(row'[r]) /\ (kind[r] = "invoice" \/ (kind[r] = "expense" /\ row'[r].with))
           \/ \E u \in Writers : writer[u].record = r /\ writer[u].checked # closed
<1>1. writer[t] # Idle /\ row' = [row EXCEPT ![writer[t].record] = writer[t].new]
  BY DEF Commit
<1>2. writer[t].record = r /\ row'[r] = writer[t].new
  BY <1>1 DEF BooksInv, Shape
<1>3. /\ writer[t].new \in Resulting /\ row[r] \in Resulting /\ kind[r] \in Kinds
      /\ Writable(kind[r], row[r], writer[t].new)
      /\ writer[t].checked > 0 => ~Refused(kind[r], row[r], writer[t].new, writer[t].checked)
  BY <1>1, <1>2 DEF BooksInv, Shape, Written
<1>4. CASE writer[t].checked # closed
  BY <1>2, <1>4
<1>5. CASE writer[t].checked = closed /\ closed > 0
  <2>1. closed \in 1..LastDay
    BY <1>5, BooksAssumption DEF BooksInv, Shape
  <2> QED BY <2>1, <1>2, <1>3, <1>5, LetThrough
<1>6. CASE closed = 0
  <2>1. \A x \in Resulting : Stands(x) => x.day > 0
    BY BooksAssumption DEF Resulting, Rows, NoRow, Stands
  <2> QED BY <2>1, <1>2, <1>3, <1>6
<1>7. closed > 0 \/ closed = 0
  BY BooksAssumption DEF BooksInv, Shape
<1> QED BY <1>4, <1>5, <1>6, <1>7

LEMMA ClosedMoves ==
    ASSUME BooksInv, [Next]_vars, closed' # closed, closed' < closed
    PROVE  \E c \in Clerks : clerk'[c] # clerk[c] /\ (clerk[c].op = "unlock" \/ clerk[c].read # closed)
<1>1. ~(\E t \in Writers, r \in Records, new \in Rows \cup {NoRow} : Write(t, r, new))
  BY DEF Write, books
<1>2. ~(\E t \in Writers : Commit(t) \/ RollBack(t))
  BY DEF Commit, RollBack, books
<1>3. ~(\E c \in Clerks, op \in {"lock", "unlock"}, read, to \in 0..LastDay :
            BooksRead(c, [op |-> op, read |-> read, to |-> to]))
  BY DEF BooksRead, books
<1>4. ~TaxPackRequest /\ ~(\E w \in Workers : Claim(w) \/ CollectPackInput(w) \/ BuildPack(w) \/ BuildFails(w) \/ Crash(w))
  BY DEF TaxPackRequest, Claim, CollectPackInput, BuildPack, BuildFails, Crash, books
<1>5. Next
  BY DEF vars
<1>6. \E c \in Clerks : BooksLock(c) \/ BooksUnlock(c)
  BY <1>1, <1>2, <1>3, <1>4, <1>5, Zenon DEF Next
<1>7. PICK c \in Clerks : BooksMove(c, "lock") \/ BooksMove(c, "unlock")
  BY <1>6 DEF BooksLock, BooksUnlock
<1>8. /\ clerk[c].op \in {"lock", "unlock"} /\ closed' = clerk[c].to
      /\ clerk' = [clerk EXCEPT ![c] = Off]
  BY <1>7 DEF BooksMove
<1>9. clerk[c] \in Asked /\ Accepted(clerk[c])
  BY <1>8 DEF BooksInv, Asking, Off
<1>10. clerk'[c] # clerk[c]
  BY <1>8 DEF BooksInv, Shape, Off
<1>11. clerk[c].op = "unlock" \/ clerk[c].read # closed
  <2>1. clerk[c].op = "lock" => clerk[c].to > clerk[c].read
    BY <1>9 DEF Accepted, Onwards
  <2>2. closed \in Int /\ clerk[c].to \in Int /\ clerk[c].read \in Int
    BY <1>9 DEF BooksInv, Shape, Asked
  <2> QED BY <1>8, <2>1, <2>2
<1> QED BY <1>10, <1>11

(* What stands in the closed period keeps its money, but for what was      *)
(* written before the books moved, and the books are only moved back by    *)
(* who reopens them, or read them before another moved them.               *)
THEOREM ClosedAlwaysHolds == Spec => ClosedHolds
<1>1. BooksInv /\ [Next]_vars =>
         [ row' # row => \A r \in Records : row'[r] # row[r] =>
             \/ \A x \in {row[r], row'[r]} : Stands(x) => x.day > closed
             \/ MoneyOf(row[r]) = MoneyOf(row'[r]) /\ (kind[r] = "invoice" \/ (kind[r] = "expense" /\ row'[r].with))
             \/ \E t \in Writers : writer[t].record = r /\ writer[t].checked # closed ]_vars
  BY RowsKept, ClosedRow
<1>2. BooksInv /\ [Next]_vars =>
         [ closed' # closed /\ closed' < closed => \E c \in Clerks :
           clerk'[c] # clerk[c] /\ (clerk[c].op = "unlock" \/ clerk[c].read # closed) ]_vars
  BY ClosedMoves
<1> QED BY BooksInit, BooksKeep, <1>1, <1>2, PTL DEF Spec, ClosedHolds, ClosedStands, OnlyReopenedBack

-----------------------------------------------------------------------------
(* Sums.                                                                   *)

Top(s) == CHOOSE x \in s : TRUE
Adds(g, f, D) == g = [s \in D |-> IF s = {} THEN 0 ELSE f[Top(s)] + g[s \ {Top(s)}]]
Small(S, n) == {s \in SUBSET S : Cardinality(s) <= n}

LEMMA LeastNumber ==
  ASSUME NEW T, T \subseteq Nat, T # {}
  PROVE  \E n \in T : \A m \in T : n <= m
<1>1. IsWellFoundedOn(OpToRel(<, Nat), Nat)
  BY NatLessThanWellFounded
<1>2. PICK n \in T : \A m \in T : ~(<<m, n>> \in OpToRel(<, Nat))
  BY <1>1, WFMin
<1>3. \A m \in T : ~(m < n)
  BY <1>2 DEF OpToRel
<1>4. \A m \in T : m \in Nat /\ n \in Nat
  OBVIOUS
<1>5. \A m \in T : n <= m
  BY <1>3, <1>4, SMT
<1> QED
  BY <1>5

LEMMA TopOf ==
  ASSUME NEW S, IsFiniteSet(S), NEW s \in SUBSET S, s # {}
  PROVE  /\ Top(s) \in s /\ Top(s) \in S /\ s \ {Top(s)} \in SUBSET S
         /\ IsFiniteSet(s) /\ IsFiniteSet(s \ {Top(s)})
         /\ Cardinality(s) \in Nat \ {0} /\ Cardinality(s \ {Top(s)}) = Cardinality(s) - 1
<1>1. Top(s) \in s
  BY DEF Top
<1>2. IsFiniteSet(s)
  BY FS_Subset
<1>3. /\ IsFiniteSet(s \ {Top(s)})
      /\ Cardinality(s \ {Top(s)}) = Cardinality(s) - 1
      /\ Cardinality(s) \in Nat
      /\ Cardinality(s) # 0
  BY <1>1, <1>2, FS_RemoveElement, FS_CardinalityType, FS_EmptySet
<1> QED
  BY <1>1, <1>2, <1>3

LEMMA AddsExists ==
  ASSUME NEW f, NEW S, IsFiniteSet(S), \A x \in S : f[x] \in Int
  PROVE  \E g \in [SUBSET S -> Int] : Adds(g, f, SUBSET S)
<1> DEFINE Adding(n) == \E g \in [Small(S, n) -> Int] : Adds(g, f, Small(S, n))
           Bad == {n \in Nat : ~Adding(n)}
<1>1. Adding(0)
  <2>1. \A s \in Small(S, 0) : s = {}
    <3> SUFFICES ASSUME NEW s \in Small(S, 0) PROVE s = {}
      OBVIOUS
    <3>1. IsFiniteSet(s) /\ Cardinality(s) <= 0
      BY FS_Subset DEF Small
    <3> QED
      BY <3>1, FS_CardinalityType, FS_EmptySet
  <2>2. Adds([s \in Small(S, 0) |-> 0], f, Small(S, 0))
    BY <2>1 DEF Adds
  <2> QED
    BY <2>2
<1>2. ASSUME NEW n \in Nat, Adding(n) PROVE Adding(n + 1)
  <2>1. PICK g \in [Small(S, n) -> Int] : Adds(g, f, Small(S, n))
    BY <1>2
  <2> DEFINE h == [s \in Small(S, n + 1) |-> IF s = {} THEN 0 ELSE f[Top(s)] + g[s \ {Top(s)}]]
  <2>2. \A s \in Small(S, n + 1) : s # {} => f[Top(s)] \in Int /\ s \ {Top(s)} \in Small(S, n)
    <3> SUFFICES ASSUME NEW s \in Small(S, n + 1), s # {}
                 PROVE f[Top(s)] \in Int /\ s \ {Top(s)} \in Small(S, n)
      OBVIOUS
    <3>1. s \in SUBSET S /\ Cardinality(s) <= n + 1
      BY DEF Small
    <3> QED
      BY <3>1, TopOf DEF Small
  <2>3. h \in [Small(S, n + 1) -> Int]
    BY <2>2
  <2>4. \A s \in Small(S, n) : s \in Small(S, n + 1)
    <3> SUFFICES ASSUME NEW s \in Small(S, n) PROVE s \in Small(S, n + 1)
      OBVIOUS
    <3>1. s \in SUBSET S /\ Cardinality(s) <= n /\ Cardinality(s) \in Nat
      BY FS_Subset, FS_CardinalityType DEF Small
    <3> QED
      BY <3>1 DEF Small
  <2>5. \A s \in Small(S, n) : h[s] = g[s]
    BY <2>1, <2>4 DEF Adds
  <2>6. \A s \in Small(S, n + 1) : s # {} => h[s \ {Top(s)}] = g[s \ {Top(s)}]
    BY <2>2, <2>5
  <2>7. Adds(h, f, Small(S, n + 1))
    BY <2>6 DEF Adds
  <2> QED
    BY <2>3, <2>7
<1>3. Bad = {}
  <2> SUFFICES ASSUME Bad # {} PROVE FALSE
    OBVIOUS
  <2> HIDE DEF Adding
  <2>1. PICK n \in Bad : \A m \in Bad : n <= m
    <3> HIDE DEF Bad
    <3>1. Bad \subseteq Nat
      BY DEF Bad
    <3> QED
      BY <3>1, LeastNumber
  <2>2. n # 0
    BY <1>1
  <2>3. n - 1 \in Nat /\ Adding(n - 1)
    BY <2>1, <2>2
  <2>4. Adding((n - 1) + 1)
    BY <2>3, <1>2
  <2> QED
    BY <2>4
<1>4. Cardinality(S) \in Nat /\ Small(S, Cardinality(S)) = SUBSET S
  BY FS_Subset, FS_CardinalityType DEF Small
<1> QED
  <2>1. Adding(Cardinality(S))
    BY <1>3, <1>4
  <2> QED
    BY <2>1, <1>4

LEMMA AddsAlike ==
  ASSUME NEW f, NEW g, NEW S, NEW T, T \subseteq S, IsFiniteSet(S), \A x \in T : f[x] = g[x],
         NEW a, NEW b, Adds(a, f, SUBSET S), Adds(b, g, SUBSET T)
  PROVE  \A s \in SUBSET T : a[s] = b[s]
<1> DEFINE Bad == {n \in Nat : \E s \in SUBSET T : Cardinality(s) = n /\ a[s] # b[s]}
<1> SUFFICES ASSUME NEW s0 \in SUBSET T, a[s0] # b[s0] PROVE FALSE
  OBVIOUS
<1>1. Bad # {} /\ Bad \subseteq Nat
  <2>1. Cardinality(s0) \in Nat
    BY FS_Subset, FS_CardinalityType
  <2> QED
    BY <2>1
<1>2. PICK n \in Bad : \A m \in Bad : n <= m
  <2> HIDE DEF Bad
  <2> QED
    BY <1>1, LeastNumber
<1>3. PICK s \in SUBSET T : Cardinality(s) = n /\ a[s] # b[s]
  BY <1>2
<1>4. s \in SUBSET S /\ IsFiniteSet(T)
  BY FS_Subset
<1>5. s # {}
  BY <1>3, <1>4 DEF Adds
<1>6. /\ Top(s) \in s /\ s \ {Top(s)} \in SUBSET T
      /\ Cardinality(s) \in Nat \ {0} /\ Cardinality(s \ {Top(s)}) = Cardinality(s) - 1
  BY <1>4, <1>5, TopOf
<1>7. a[s \ {Top(s)}] = b[s \ {Top(s)}]
  <2> SUFFICES ASSUME a[s \ {Top(s)}] # b[s \ {Top(s)}] PROVE FALSE
    OBVIOUS
  <2>1. n - 1 \in Bad
    BY <1>3, <1>6
  <2> QED
    BY <2>1, <1>2, <1>6, <1>3
<1>8. a[s] = f[Top(s)] + a[s \ {Top(s)}] /\ b[s] = g[Top(s)] + b[s \ {Top(s)}]
  BY <1>4, <1>5 DEF Adds
<1> QED
  BY <1>3, <1>6, <1>7, <1>8

Summing(f, S) == CHOOSE g : Adds(g, f, SUBSET S)

LEMMA SumIs ==
  ASSUME NEW f, NEW S
  PROVE  Bank!SumFunctionOnSet(f, S) = Summing(f, S)[S]
BY Zenon DEF Bank!SumFunctionOnSet, Bank!FoldFunctionOnSet, Bank!MapThenFoldSet, Adds, Top, Summing

LEMMA SummingAdds ==
  ASSUME NEW f, NEW S, IsFiniteSet(S), \A x \in S : f[x] \in Int
  PROVE  Adds(Summing(f, S), f, SUBSET S)
BY AddsExists DEF Summing

\* A sum is an integer, and depends on what is summed.
LEMMA SumInt ==
  ASSUME NEW f, NEW S, IsFiniteSet(S), \A x \in S : f[x] \in Int
  PROVE  Bank!SumFunctionOnSet(f, S) \in Int
<1>1. PICK g \in [SUBSET S -> Int] : Adds(g, f, SUBSET S)
  BY AddsExists
<1>2. Adds(Summing(f, S), f, SUBSET S)
  BY SummingAdds
<1>3. \A s \in SUBSET S : Summing(f, S)[s] = g[s]
  BY <1>1, <1>2, AddsAlike
<1> QED
  BY <1>1, <1>3, SumIs

LEMMA SumSame ==
  ASSUME NEW f, NEW g, NEW S, IsFiniteSet(S), \A x \in S : f[x] \in Int /\ f[x] = g[x]
  PROVE  Bank!SumFunctionOnSet(f, S) = Bank!SumFunctionOnSet(g, S)
<1>1. Adds(Summing(f, S), f, SUBSET S) /\ Adds(Summing(g, S), g, SUBSET S)
  BY SummingAdds
<1>2. Summing(f, S)[S] = Summing(g, S)[S]
  BY <1>1, AddsAlike
<1> QED
  BY <1>2, SumIs

LEMMA SumEmpty ==
  ASSUME NEW f
  PROVE  Bank!SumFunctionOnSet(f, {}) = 0
<1>1. IsFiniteSet({}) /\ \A x \in {} : f[x] \in Int
  BY FS_EmptySet
<1>2. Adds(Summing(f, {}), f, SUBSET {})
  BY <1>1, SummingAdds
<1>3. Summing(f, {})[{}] = 0
  BY <1>2 DEF Adds
<1> QED
  BY <1>3, SumIs

-----------------------------------------------------------------------------
(* Banking.                                                                *)

LineRows == [account : Accounts \cup {None}, amount : Int, on : Int, matched : Int, ignored : BOOLEAN,
             status : {"ignored", "unexplained", "explained", "part_explained"}]

AccountRows == [opening : Nat, balance : Int, archived : BOOLEAN, isDefault : BOOLEAN]

GoodLine(entered) ==
    /\ entered \in LineRows
    /\ entered # Bank!NoLine =>
          /\ entered.account \in Accounts /\ entered.amount # 0 /\ entered.matched \in {0, entered.amount}
          /\ entered.status = Bank!ExplainedStatus(entered)

LineTable == {lines \in [Bank!Names -> LineRows] : \A n \in Bank!Names : GoodLine(lines[n])}

(* What a request has read.                                                *)
BankRequests ==
    [op : {"idle", "record", "sweep", "by hand", "transfer"}, m : Money \cup {None},
     wanted : Bank!Recordable \cup {None}, line : LineRows, seen : Nat \cup {None}]

GoodRequest(q) ==
    /\ q \in BankRequests
    /\ q.op \in {"record", "sweep"} => q.m \in Money /\ q.wanted \in Bank!Recordable /\ q.seen \in Nat
    /\ q.op \in {"by hand", "transfer"} => GoodLine(q.line) /\ q.line.matched = 0 /\ ~q.line.ignored /\ q.line.amount > 0
                                              /\ q.line.account \in Accounts
    /\ q.op = "sweep" => Bank!Placeable(q.wanted, q.seen)

BankShape ==
    /\ foreign \subseteq Accounts
    /\ account \in [Accounts -> AccountRows]
    /\ line \in LineTable
    /\ money \in [Money -> Bank!Recordable \cup {Bank!NoMoney}]
    /\ DOMAIN request = Clerks /\ \A r \in Clerks : GoodRequest(request[r])

OneDefault ==
    /\ \A a, b \in Accounts : account[a].isDefault /\ account[b].isDefault => a = b
    /\ \A a \in Accounts : ~(account[a].isDefault /\ account[a].archived)

(* Recorded money has one line at most, in the account it is named for and *)
(* matched in full; nothing was placed while a sweep is under way for      *)
(* money that has left its account.                                        *)
Follows(m) ==
    /\ \A n \in Bank!RecordedNames(m) : Bank!There(n) =>
          /\ line[n].account = n[2] /\ line[n].matched = line[n].amount
          /\ money[m].account \in {n[2], None}
          /\ money[m].state # "absent" /\ line[n].amount <= money[m].amount
    /\ \A k, n \in Bank!RecordedNames(m) : Bank!There(k) /\ Bank!There(n) => k = n
    /\ m \notin stale =>
          \A n \in Bank!RecordedNames(m) :
             IF Bank!Placeable(money[m], Bank!Opening(money[m].account)) /\ n[2] = money[m].account
             THEN Bank!There(n) /\ line[n].amount = money[m].amount /\ line[n].on = money[m].on
             ELSE ~Bank!There(n)
    /\ \A r \in Clerks : request[r].op = "sweep" /\ request[r].m = m /\ money[m].account = None =>
          \A n \in Bank!RecordedNames(m) : ~Bank!There(n)

OneSweep == \A q, r \in Clerks : request[q].op = "sweep" /\ request[r].op = "sweep" => q = r

BankInv ==
    /\ BankShape
    /\ OneDefault
    /\ Bank!BalanceFollows
    /\ \A m \in Money : Follows(m)
    /\ OneSweep
    /\ Bank!LegsTogether

-----------------------------------------------------------------------------
LEMMA NamesAre ==
  /\ Bank!Out \in Bank!Names /\ Bank!In \in Bank!Names /\ Bank!ByHand \in Bank!Names /\ Bank!Adjustment \in Bank!Names
  /\ Bank!Out # Bank!In /\ Bank!ByHand \notin Bank!Legs /\ Bank!Adjustment \notin Bank!Legs
  /\ Bank!Legs = {Bank!Out, Bank!In}
  /\ \A m \in Money : \A n \in Bank!RecordedNames(m) :
        /\ n \in Bank!Names /\ n \notin Bank!Legs /\ n # Bank!ByHand /\ n # Bank!Adjustment
        /\ n[2] \in Accounts /\ n = <<m, n[2]>>
        /\ \A k \in Money : n \in Bank!RecordedNames(k) => k = m
  /\ \A m \in Money, a \in Accounts : <<m, a>> \in Bank!RecordedNames(m) /\ <<m, a>>[2] = a
<1> USE TreasuryAssumption DEF Bank!Names, Bank!Legs, Bank!Out, Bank!In, Bank!ByHand, Bank!Adjustment, Bank!RecordedNames
<1>1. /\ Bank!Out \in Bank!Names /\ Bank!In \in Bank!Names /\ Bank!ByHand \in Bank!Names /\ Bank!Adjustment \in Bank!Names
      /\ Bank!Out # Bank!In /\ Bank!ByHand \notin Bank!Legs /\ Bank!Adjustment \notin Bank!Legs
      /\ Bank!Legs = {Bank!Out, Bank!In}
  OBVIOUS
<1>2. ASSUME NEW m \in Money, NEW n \in Bank!RecordedNames(m)
      PROVE  /\ n \in Bank!Names /\ n \notin Bank!Legs /\ n # Bank!ByHand /\ n # Bank!Adjustment
             /\ n[2] \in Accounts /\ n = <<m, n[2]>>
             /\ \A k \in Money : n \in Bank!RecordedNames(k) => k = m
  <2>1. PICK a \in Accounts : n = <<m, a>>
    OBVIOUS
  <2>2. a # None
    OBVIOUS
  <2>3. <<m, a>> # <<"out", None>> /\ <<m, a>> # <<"in", None>> /\ <<m, a>> # <<"by hand", None>> /\ <<m, a>> # <<"adjustment", None>>
    BY <2>2
  <2>4. \A k \in Money : n \in {k} \X Accounts => k = m
    BY <2>1
  <2> QED
    BY <2>1, <2>3, <2>4
<1>4. \A m \in Money, a \in Accounts : <<m, a>> \in Bank!RecordedNames(m) /\ <<m, a>>[2] = a
  OBVIOUS
<1> QED
  BY <1>1, <1>2, <1>4

LEMMA NamesFinite == IsFiniteSet(Bank!Names)
<1>1. IsFiniteSet(Money \X Accounts)
  BY TreasuryAssumption, FS_Product
<1>2. IsFiniteSet({Bank!Out, Bank!In, Bank!ByHand, Bank!Adjustment})
  <2>1. IsFiniteSet({Bank!Out}) /\ IsFiniteSet({Bank!In}) /\ IsFiniteSet({Bank!ByHand}) /\ IsFiniteSet({Bank!Adjustment})
    BY FS_Singleton
  <2>2. IsFiniteSet(({Bank!Out} \cup {Bank!In}) \cup ({Bank!ByHand} \cup {Bank!Adjustment}))
    BY <2>1, FS_Union
  <2>3. {Bank!Out, Bank!In, Bank!ByHand, Bank!Adjustment} = ({Bank!Out} \cup {Bank!In}) \cup ({Bank!ByHand} \cup {Bank!Adjustment})
    OBVIOUS
  <2> QED
    BY <2>2, <2>3
<1>3. Bank!Names = {Bank!Out, Bank!In, Bank!ByHand, Bank!Adjustment} \cup (Money \X Accounts)
  BY DEF Bank!Names, Bank!Legs
<1> QED
  BY <1>1, <1>2, <1>3, FS_Union

(* The lines become others, and the balances are summed again.             *)
LEMMA Registers ==
  ASSUME BankShape, OneDefault, NEW lines \in LineTable, Bank!Register(lines)
  PROVE  /\ line' = lines /\ line' \in LineTable
         /\ account' \in [Accounts -> AccountRows] /\ OneDefault' /\ Bank!BalanceFollows'
         /\ \A a \in Accounts : account'[a].opening = account[a].opening
<1> DEFINE total(a) == Bank!SumFunctionOnSet([n \in Bank!Names |-> lines[n].amount], {n \in Bank!Names : lines[n].account = a})
<1>1. line' = lines /\ account' = [a \in Accounts |-> [account[a] EXCEPT !.balance = account[a].opening + total(a)]]
  BY DEF Bank!Register, Bank!Balanced
<1>2. \A a \in Accounts : total(a) \in Int
  <2> SUFFICES ASSUME NEW a \in Accounts PROVE total(a) \in Int
    OBVIOUS
  <2> DEFINE f == [n \in Bank!Names |-> lines[n].amount]
             S == {n \in Bank!Names : lines[n].account = a}
  <2>1. IsFiniteSet(S)
    BY NamesFinite, FS_Subset
  <2>2. \A n \in S : f[n] \in Int
    BY DEF LineTable, LineRows
  <2> HIDE DEF f, S
  <2>3. Bank!SumFunctionOnSet(f, S) \in Int
    BY <2>1, <2>2, SumInt
  <2> QED
    BY <2>3 DEF f, S
<1> HIDE DEF total
<1>3. account \in [Accounts -> AccountRows]
  BY DEF BankShape
<1>4. \A a \in Accounts :
        /\ account'[a] \in AccountRows
        /\ account'[a].opening = account[a].opening /\ account'[a].balance = account[a].opening + total(a)
        /\ account'[a].archived = account[a].archived /\ account'[a].isDefault = account[a].isDefault
  BY <1>1, <1>2, <1>3 DEF AccountRows
<1>5. account' \in [Accounts -> AccountRows]
  BY <1>1, <1>4
<1>6. OneDefault'
  BY <1>4 DEF OneDefault
<1>7. Bank!BalanceFollows'
  BY <1>1, <1>4 DEF Bank!BalanceFollows, Bank!LinesOf, total
<1> QED
  BY <1>1, <1>4, <1>5, <1>6, <1>7

(* Nothing of this money has changed.                                      *)
LEMMA StillFollows ==
  ASSUME NEW m \in Money, Follows(m), money'[m] = money[m], foreign' = foreign,
         money[m].account # None => account'[money[m].account].opening = account[money[m].account].opening,
         m \in stale => m \in stale',
         \A n \in Bank!RecordedNames(m) :
            /\ Bank!There(n)' <=> Bank!There(n)
            /\ line'[n].account = line[n].account /\ line'[n].amount = line[n].amount
            /\ line'[n].matched = line[n].matched /\ line'[n].on = line[n].on,
         \A r \in Clerks : request'[r].op = "sweep" /\ request'[r].m = m /\ money[m].account = None =>
            request[r].op = "sweep" /\ request[r].m = m
  PROVE  Follows(m)'
<1>1. Bank!Opening(money[m].account)' = Bank!Opening(money[m].account)
  BY DEF Bank!Opening
<1>2. Bank!Placeable(money[m], Bank!Opening(money[m].account))' <=> Bank!Placeable(money[m], Bank!Opening(money[m].account))
  BY <1>1 DEF Bank!Placeable
<1>3. /\ \A n \in Bank!RecordedNames(m) : Bank!There(n)' =>
          /\ line'[n].account = n[2] /\ line'[n].matched = line'[n].amount
          /\ money'[m].account \in {n[2], None}
          /\ money'[m].state # "absent" /\ line'[n].amount <= money'[m].amount
      /\ \A k, n \in Bank!RecordedNames(m) : Bank!There(k)' /\ Bank!There(n)' => k = n
  BY DEF Follows
<1>4. m \notin stale' =>
          \A n \in Bank!RecordedNames(m) :
             IF Bank!Placeable(money[m], Bank!Opening(money[m].account))' /\ n[2] = money'[m].account
             THEN Bank!There(n)' /\ line'[n].amount = money'[m].amount /\ line'[n].on = money'[m].on
             ELSE ~Bank!There(n)'
  BY <1>2 DEF Follows
<1>5. \A r \in Clerks : request'[r].op = "sweep" /\ request'[r].m = m /\ money'[m].account = None =>
          \A n \in Bank!RecordedNames(m) : ~Bank!There(n)'
  BY DEF Follows
<1> QED
  BY <1>3, <1>4, <1>5 DEF Follows

LEMMA SettledLine ==
  ASSUME NEW entered \in LineRows, entered.account \in Accounts, entered.amount # 0, entered.matched \in {0, entered.amount}
  PROVE  /\ GoodLine(Bank!Settled(entered)) /\ Bank!Settled(entered) # Bank!NoLine
         /\ Bank!Settled(entered).account = entered.account /\ Bank!Settled(entered).amount = entered.amount
         /\ Bank!Settled(entered).on = entered.on /\ Bank!Settled(entered).matched = entered.matched
<1> DEFINE status == Bank!ExplainedStatus(entered)
<1>1. status \in {"ignored", "unexplained", "explained", "part_explained"}
  BY DEF Bank!ExplainedStatus, LineRows
<1>2. Bank!Settled(entered) = [entered EXCEPT !.status = status]
  BY DEF Bank!Settled
<1> HIDE DEF status
<1>3. /\ Bank!Settled(entered) \in LineRows /\ Bank!Settled(entered).status = status
      /\ Bank!Settled(entered).account = entered.account /\ Bank!Settled(entered).amount = entered.amount
      /\ Bank!Settled(entered).on = entered.on /\ Bank!Settled(entered).matched = entered.matched /\ Bank!Settled(entered).ignored = entered.ignored
  BY <1>1, <1>2 DEF LineRows
<1>4. Bank!ExplainedStatus(Bank!Settled(entered)) = status
  BY <1>3 DEF Bank!ExplainedStatus, status
<1>5. Bank!Settled(entered) # Bank!NoLine
  BY <1>3 DEF Bank!NoLine
<1> QED
  BY <1>3, <1>4, <1>5 DEF GoodLine

LEMMA NoLineIs ==
  /\ Bank!NoLine \in LineRows /\ GoodLine(Bank!NoLine)
  /\ Bank!NoLine.account = None /\ Bank!NoLine.amount = 0 /\ Bank!NoLine.matched = 0 /\ ~Bank!NoLine.ignored
BY DEF Bank!NoLine, LineRows, GoodLine

LEMMA RecordableIs ==
  ASSUME NEW w \in Bank!Recordable
  PROVE  /\ w.account \in Accounts \cup {None} /\ w.amount \in Nat \ {0} /\ w.on \in Nat /\ w.state \in {"draft", "booked"}
         /\ w # Bank!NoMoney
BY DEF Bank!Recordable, Bank!Amounts, Bank!Days, Bank!NoMoney

LEMMA PlacedIs ==
  ASSUME NEW w \in Bank!Recordable, w.account # None
  PROVE  /\ GoodLine(Bank!PlacedLine(w)) /\ Bank!PlacedLine(w) \in LineRows /\ Bank!PlacedLine(w) # Bank!NoLine
         /\ Bank!PlacedLine(w).account = w.account /\ Bank!PlacedLine(w).amount = w.amount
         /\ Bank!PlacedLine(w).on = w.on /\ Bank!PlacedLine(w).matched = w.amount
<1> DEFINE entered == [Bank!NoLine EXCEPT !.account = w.account, !.amount = w.amount, !.on = w.on, !.matched = w.amount]
<1>1. /\ entered \in LineRows /\ entered.account = w.account /\ entered.amount = w.amount /\ entered.on = w.on /\ entered.matched = w.amount
  <2>1. w.account \in Accounts /\ w.amount \in Int /\ w.on \in Int
    BY RecordableIs
  <2>2. Bank!NoLine \in LineRows
    BY NoLineIs
  <2> QED
    BY <2>1, <2>2 DEF LineRows
<1>2. Bank!PlacedLine(w) = Bank!Settled(entered)
  BY DEF Bank!PlacedLine
<1> HIDE DEF entered
<1>3. GoodLine(Bank!Settled(entered)) /\ Bank!Settled(entered) # Bank!NoLine
      /\ Bank!Settled(entered).account = entered.account /\ Bank!Settled(entered).amount = entered.amount
      /\ Bank!Settled(entered).on = entered.on /\ Bank!Settled(entered).matched = entered.matched
  BY <1>1, RecordableIs, SettledLine
<1> QED
  BY <1>1, <1>2, <1>3 DEF GoodLine

LEMMA IdleIs == GoodRequest(Bank!Idle) /\ Bank!Idle.op = "idle" /\ Bank!Idle \in BankRequests
BY NoLineIs DEF GoodRequest, Bank!Idle, BankRequests

(* A request that rests or reads sweeps for nothing.                       *)
SweepsKept == \A r \in Clerks : request'[r].op = "sweep" => request'[r] = request[r]

LEMMA GoesIdle ==
  ASSUME BankShape, NEW r \in Clerks, request' = [request EXCEPT ![r] = Bank!Idle]
  PROVE  SweepsKept /\ DOMAIN request' = Clerks /\ \A q \in Clerks : GoodRequest(request'[q])
BY IdleIs DEF BankShape, SweepsKept

LEMMA Reads ==
  ASSUME BankShape, NEW r \in Clerks, NEW q, GoodRequest(q), q.op # "sweep", request' = [request EXCEPT ![r] = q]
  PROVE  SweepsKept /\ DOMAIN request' = Clerks /\ \A p \in Clerks : GoodRequest(request'[p])
BY DEF BankShape, SweepsKept

LEMMA SameRequests ==
  ASSUME BankShape, request' = request
  PROVE  SweepsKept /\ DOMAIN request' = Clerks /\ \A p \in Clerks : GoodRequest(request'[p])
BY DEF BankShape, SweepsKept

LEMMA SweepStays ==
  ASSUME OneSweep, SweepsKept
  PROVE  OneSweep'
BY DEF OneSweep, SweepsKept

LEMMA GoodStill ==
  ASSUME foreign' = foreign, \A r \in Clerks : GoodRequest(request'[r])
  PROVE  (\A r \in Clerks : GoodRequest(request[r]))'
BY DEF GoodRequest, Bank!Placeable

(* Nothing recorded has changed.                                           *)
LEMMA Bystander ==
  ASSUME BankInv, SweepsKept, foreign' = foreign, money' = money, stale' = stale,
         \A a \in Accounts : account'[a].opening = account[a].opening,
         \A m \in Money : \A n \in Bank!RecordedNames(m) : line'[n] = line[n]
  PROVE  (\A m \in Money : Follows(m))' /\ OneSweep'
<1>1. ASSUME NEW m \in Money PROVE Follows(m)'
  <2>1. Follows(m)
    BY DEF BankInv
  <2>2. money[m].account # None => money[m].account \in Accounts
    BY RecordableIs DEF BankInv, BankShape, Bank!NoMoney
  <2>3. \A n \in Bank!RecordedNames(m) : Bank!There(n)' <=> Bank!There(n)
    BY DEF Bank!There
  <2>4. \A r \in Clerks : request'[r].op = "sweep" /\ request'[r].m = m /\ money[m].account = None =>
            request[r].op = "sweep" /\ request[r].m = m
    BY DEF SweepsKept
  <2> QED
    BY <2>1, <2>2, <2>3, <2>4, StillFollows
<1>2. OneSweep'
  BY SweepStays DEF BankInv
<1> QED
  BY <1>1, <1>2

LEMMA LegsStay ==
  ASSUME Bank!LegsTogether, line'[Bank!Out] = line[Bank!Out], line'[Bank!In] = line[Bank!In]
  PROVE  Bank!LegsTogether'
BY DEF Bank!LegsTogether, Bank!There

-----------------------------------------------------------------------------
(* The steps of banking.                                                   *)

(* Lines become others, of no recorded money.                              *)
LEMMA RegistersOthers ==
  ASSUME BankInv, NEW lines \in LineTable, Bank!Register(lines),
         foreign' = foreign, money' = money, stale' = stale,
         SweepsKept, DOMAIN request' = Clerks, \A r \in Clerks : GoodRequest(request'[r]),
         \A m \in Money : \A n \in Bank!RecordedNames(m) : lines[n] = line[n],
         Bank!LegsTogether'
  PROVE  BankInv'
<1>1. /\ line' = lines /\ line' \in LineTable
      /\ account' \in [Accounts -> AccountRows] /\ OneDefault' /\ Bank!BalanceFollows'
      /\ \A a \in Accounts : account'[a].opening = account[a].opening
  BY Registers DEF BankInv
<1>2. BankShape'
  BY <1>1, GoodStill DEF BankInv, BankShape
<1>3. (\A m \in Money : Follows(m))' /\ OneSweep'
  BY <1>1, Bystander
<1> QED
  BY <1>1, <1>2, <1>3 DEF BankInv

(* No line changes, and no balance.                                        *)
LEMMA LinesStay ==
  ASSUME BankInv, line' = line, foreign' = foreign, money' = money, stale' = stale,
         SweepsKept, DOMAIN request' = Clerks, \A r \in Clerks : GoodRequest(request'[r]),
         account' \in [Accounts -> AccountRows], OneDefault',
         \A a \in Accounts : account'[a].opening = account[a].opening /\ account'[a].balance = account[a].balance
  PROVE  BankInv'
<1>1. BankShape'
  BY GoodStill DEF BankInv, BankShape
<1>2. (\A m \in Money : Follows(m))' /\ OneSweep'
  BY Bystander
<1>3. Bank!LegsTogether'
  BY LegsStay DEF BankInv
<1>4. Bank!BalanceFollows'
  BY DEF BankInv, Bank!BalanceFollows, Bank!LinesOf
<1> QED
  BY <1>1, <1>2, <1>3, <1>4 DEF BankInv

LEMMA RecordReadKeeps ==
  ASSUME BankInv, NEW r \in Clerks, NEW m \in Money, NEW w \in Bank!Recordable, Bank!RecordRead(r, m, w)
  PROVE  BankInv'
<1> DEFINE q == [Bank!Idle EXCEPT !.op = "record", !.m = m, !.wanted = w, !.seen = Bank!Opening(w.account)]
<1>1. /\ request' = [request EXCEPT ![r] = q]
      /\ UNCHANGED <<foreign, account, line, money, stale>>
  BY DEF Bank!RecordRead
<1>2. Bank!Opening(w.account) \in Nat
  BY RecordableIs DEF BankInv, BankShape, AccountRows, Bank!Opening
<1>3. GoodRequest(q) /\ q.op # "sweep"
  BY <1>2, NoLineIs DEF GoodRequest, BankRequests, Bank!Idle
<1> HIDE DEF q
<1>4. SweepsKept /\ DOMAIN request' = Clerks /\ \A p \in Clerks : GoodRequest(request'[p])
  BY <1>1, <1>3, Reads DEF BankInv
<1>5. account' \in [Accounts -> AccountRows] /\ OneDefault'
  BY <1>1 DEF BankInv, BankShape, OneDefault
<1> QED
  BY <1>1, <1>4, <1>5, LinesStay

LEMMA RollBackKeeps ==
  ASSUME BankInv, NEW r \in Clerks, Bank!RollBack(r)
  PROVE  BankInv'
<1>1. /\ request' = [request EXCEPT ![r] = Bank!Idle]
      /\ UNCHANGED <<foreign, account, line, money, stale>>
  BY DEF Bank!RollBack
<1>2. SweepsKept /\ DOMAIN request' = Clerks /\ \A p \in Clerks : GoodRequest(request'[p])
  BY <1>1, GoesIdle DEF BankInv
<1>3. account' \in [Accounts -> AccountRows] /\ OneDefault'
  BY <1>1 DEF BankInv, BankShape, OneDefault
<1> QED
  BY <1>1, <1>2, <1>3, LinesStay

LEMMA BoundsAre == MaxAmount \in Int /\ MaxAmount > 0 /\ LastDay \in Int
BY TreasuryAssumption, BooksAssumption

NewLine(l) == GoodLine(l) /\ l.account \in Accounts /\ l.amount > 0 /\ l.matched = 0 /\ ~l.ignored

LEMMA EnteredLine ==
  ASSUME NEW a \in Accounts
  PROVE  NewLine([Bank!NoLine EXCEPT !.account = a, !.amount = MaxAmount, !.on = LastDay])
<1> DEFINE l == [Bank!NoLine EXCEPT !.account = a, !.amount = MaxAmount, !.on = LastDay]
<1>1. l \in LineRows /\ l.account = a /\ l.amount = MaxAmount /\ l.matched = 0 /\ ~l.ignored /\ l.status = "unexplained"
  <2>1. Bank!NoLine \in LineRows /\ Bank!NoLine.matched = 0 /\ ~Bank!NoLine.ignored /\ Bank!NoLine.status = "unexplained"
    BY NoLineIs DEF Bank!NoLine
  <2> QED
    BY <2>1, BoundsAre DEF LineRows
<1>2. l.amount \in Int /\ l.amount > 0
  BY <1>1, BoundsAre
<1> HIDE DEF l
<1>3. GoodLine(l)
  BY <1>1, <1>2 DEF GoodLine, Bank!ExplainedStatus
<1> QED
  BY <1>1, <1>2, <1>3 DEF NewLine, l

LEMMA EnterReadKeeps ==
  ASSUME BankInv, NEW r \in Clerks, NEW op \in {"by hand", "transfer"}, NEW l, NewLine(l), Bank!EnterRead(r, op, l)
  PROVE  BankInv'
<1> DEFINE q == [Bank!Idle EXCEPT !.op = op, !.line = l]
<1>1. /\ request' = [request EXCEPT ![r] = q]
      /\ UNCHANGED <<foreign, account, line, money, stale>>
  BY DEF Bank!EnterRead
<1>2. GoodRequest(q) /\ q.op # "sweep"
  BY DEF GoodRequest, BankRequests, Bank!Idle, NewLine, GoodLine
<1> HIDE DEF q
<1>3. SweepsKept /\ DOMAIN request' = Clerks /\ \A p \in Clerks : GoodRequest(request'[p])
  BY <1>1, <1>2, Reads DEF BankInv
<1>4. account' \in [Accounts -> AccountRows] /\ OneDefault'
  BY <1>1 DEF BankInv, BankShape, OneDefault
<1> QED
  BY <1>1, <1>3, <1>4, LinesStay

LEMMA MakeDefaultKeeps ==
  ASSUME BankInv, NEW a \in Accounts, Bank!MakeDefault(a)
  PROVE  BankInv'
<1>1. /\ account' = [b \in Accounts |-> [account[b] EXCEPT !.isDefault = (b = a)]] /\ ~account[a].archived
      /\ UNCHANGED <<foreign, line, money, request, stale>>
  BY DEF Bank!MakeDefault
<1>2. account \in [Accounts -> AccountRows]
  BY DEF BankInv, BankShape
<1>3. \A b \in Accounts :
        /\ account'[b] \in AccountRows /\ account'[b].opening = account[b].opening /\ account'[b].balance = account[b].balance
        /\ account'[b].archived = account[b].archived /\ account'[b].isDefault = (b = a)
  BY <1>1, <1>2 DEF AccountRows
<1>4. account' \in [Accounts -> AccountRows]
  BY <1>1, <1>3
<1>5. OneDefault'
  BY <1>1, <1>3 DEF OneDefault
<1>6. SweepsKept /\ DOMAIN request' = Clerks /\ \A p \in Clerks : GoodRequest(request'[p])
  BY <1>1, SameRequests DEF BankInv
<1> QED
  BY <1>1, <1>3, <1>4, <1>5, <1>6, LinesStay

LEMMA PutAwayKeeps ==
  ASSUME BankInv, NEW a \in Accounts, Bank!BankAccountArchive(a) \/ Bank!BankAccountRestore(a)
  PROVE  BankInv'
<1>1. /\ \/ account' = [account EXCEPT ![a].archived = TRUE, ![a].isDefault = FALSE]
         \/ account' = [account EXCEPT ![a].archived = FALSE]
      /\ UNCHANGED <<foreign, line, money, request, stale>>
  BY DEF Bank!BankAccountArchive, Bank!BankAccountRestore
<1>2. account \in [Accounts -> AccountRows]
  BY DEF BankInv, BankShape
<1>3. \A b \in Accounts :
        /\ account'[b] \in AccountRows /\ account'[b].opening = account[b].opening /\ account'[b].balance = account[b].balance
        /\ account'[b].isDefault => account[b].isDefault
        /\ account'[b].isDefault /\ account'[b].archived => account[b].archived
  <2>1. CASE account' = [account EXCEPT ![a].archived = TRUE, ![a].isDefault = FALSE]
    BY <2>1, <1>2 DEF AccountRows
  <2>2. CASE account' = [account EXCEPT ![a].archived = FALSE]
    BY <2>2, <1>2 DEF AccountRows
  <2> QED
    BY <1>1, <2>1, <2>2
<1>4. account' \in [Accounts -> AccountRows]
  BY <1>1, <1>2, <1>3
<1>5. OneDefault'
  BY <1>3 DEF OneDefault, BankInv
<1>6. SweepsKept /\ DOMAIN request' = Clerks /\ \A p \in Clerks : GoodRequest(request'[p])
  BY <1>1, SameRequests DEF BankInv
<1> QED
  BY <1>1, <1>3, <1>4, <1>5, <1>6, LinesStay

(* One line becomes another.                                               *)
LEMMA LineBecomes ==
  ASSUME BankShape, NEW n \in Bank!Names, NEW entered, GoodLine(entered)
  PROVE  [line EXCEPT ![n] = entered] \in LineTable
BY DEF BankShape, LineTable, GoodLine

LEMMA AdjustKeeps ==
  ASSUME BankInv, NEW a \in Accounts, Bank!BankAccountAdjustBalance(a, 0)
  PROVE  BankInv'
<1> DEFINE new == [Bank!NoLine EXCEPT !.account = a, !.on = LastDay, !.amount = 0 - account[a].balance, !.ignored = TRUE]
           lines == [line EXCEPT ![Bank!Adjustment] = Bank!Settled(new)]
<1>1. /\ Bank!Register(lines) /\ 0 # account[a].balance
      /\ UNCHANGED <<foreign, money, request, stale>>
  BY DEF Bank!BankAccountAdjustBalance
<1>2. account[a].balance \in Int
  BY DEF BankInv, BankShape, AccountRows
<1>3. new \in LineRows /\ new.account = a /\ new.amount # 0 /\ new.matched = 0
  <2>1. Bank!NoLine \in LineRows /\ Bank!NoLine.matched = 0
    BY NoLineIs
  <2>2. 0 - account[a].balance \in Int /\ 0 - account[a].balance # 0
    BY <1>1, <1>2
  <2> QED
    BY <2>1, <2>2, BoundsAre DEF LineRows
<1> HIDE DEF new
<1>4. GoodLine(Bank!Settled(new))
  BY <1>3, SettledLine
<1>5. Bank!Adjustment \in Bank!Names /\ Bank!Adjustment \notin Bank!Legs /\ Bank!Legs = {Bank!Out, Bank!In}
  BY NamesAre
<1>6. lines \in LineTable
  BY <1>4, <1>5, LineBecomes DEF BankInv
<1>7. DOMAIN line = Bank!Names
  BY DEF BankInv, BankShape, LineTable
<1>8. \A m \in Money : \A n \in Bank!RecordedNames(m) : lines[n] = line[n]
  BY <1>7, NamesAre
<1>9. lines[Bank!Out] = line[Bank!Out] /\ lines[Bank!In] = line[Bank!In]
  BY <1>5, <1>7
<1> HIDE DEF lines
<1>10. line' = lines
  BY <1>1 DEF Bank!Register
<1>11. Bank!LegsTogether'
  BY <1>9, <1>10, LegsStay DEF BankInv
<1>12. SweepsKept /\ DOMAIN request' = Clerks /\ \A p \in Clerks : GoodRequest(request'[p])
  BY <1>1, SameRequests DEF BankInv
<1> QED
  BY <1>1, <1>6, <1>8, <1>11, <1>12, RegistersOthers

LEMMA CreateKeeps ==
  ASSUME BankInv, NEW r \in Clerks, Bank!BankTransactionCreate(r)
  PROVE  BankInv'
<1> DEFINE lines == [line EXCEPT ![Bank!ByHand] = request[r].line]
<1>1. /\ request[r].op = "by hand" /\ Bank!Register(lines)
      /\ request' = [request EXCEPT ![r] = Bank!Idle]
      /\ UNCHANGED <<foreign, money, stale>>
  BY DEF Bank!BankTransactionCreate
<1>2. GoodLine(request[r].line)
  BY <1>1 DEF BankInv, BankShape, GoodRequest
<1>3. Bank!ByHand \in Bank!Names /\ Bank!ByHand \notin Bank!Legs /\ Bank!Legs = {Bank!Out, Bank!In}
  BY NamesAre
<1>4. lines \in LineTable
  BY <1>2, <1>3, LineBecomes DEF BankInv
<1>5. DOMAIN line = Bank!Names
  BY DEF BankInv, BankShape, LineTable
<1>6. \A m \in Money : \A n \in Bank!RecordedNames(m) : lines[n] = line[n]
  BY <1>5, NamesAre
<1>7. lines[Bank!Out] = line[Bank!Out] /\ lines[Bank!In] = line[Bank!In]
  BY <1>3, <1>5
<1> HIDE DEF lines
<1>8. line' = lines
  BY <1>1 DEF Bank!Register
<1>9. Bank!LegsTogether'
  BY <1>7, <1>8, LegsStay DEF BankInv
<1>10. SweepsKept /\ DOMAIN request' = Clerks /\ \A p \in Clerks : GoodRequest(request'[p])
  BY <1>1, GoesIdle DEF BankInv
<1> QED
  BY <1>1, <1>4, <1>6, <1>9, <1>10, RegistersOthers

(* What a person changes is no leg and follows no money.                   *)
LEMMA EditableIs ==
  ASSUME BankInv, NEW n \in Bank!Names, Bank!Editable(n)
  PROVE  /\ n \notin Bank!Legs /\ line[n] \in LineRows /\ GoodLine(line[n]) /\ line[n] # Bank!NoLine /\ line[n].matched = 0
         /\ \A m \in Money : n \notin Bank!RecordedNames(m)
<1>1. n \notin Bank!Legs /\ GoodLine(line[n]) /\ line[n] # Bank!NoLine /\ line[n].matched = 0
  BY DEF Bank!Editable, Bank!There, BankInv, BankShape, LineTable
<1>2. line[n].amount # 0
  BY <1>1 DEF GoodLine
<1>3. \A m \in Money : n \notin Bank!RecordedNames(m)
  BY <1>1, <1>2 DEF BankInv, Follows, Bank!There
<1> QED
  BY <1>1, <1>3 DEF GoodLine

LEMMA EditKeeps ==
  ASSUME BankInv, NEW n \in Bank!Names, Bank!Editable(n), NEW entered, GoodLine(entered),
         Bank!Register([line EXCEPT ![n] = entered]), UNCHANGED <<foreign, money, request, stale>>
  PROVE  BankInv'
<1> DEFINE lines == [line EXCEPT ![n] = entered]
<1>1. n \notin Bank!Legs /\ \A m \in Money : n \notin Bank!RecordedNames(m)
  BY EditableIs
<1>2. Bank!Out \in Bank!Names /\ Bank!In \in Bank!Names /\ Bank!Legs = {Bank!Out, Bank!In}
  BY NamesAre
<1>3. lines \in LineTable
  BY LineBecomes DEF BankInv
<1>4. DOMAIN line = Bank!Names
  BY DEF BankInv, BankShape, LineTable
<1>5. \A m \in Money : \A k \in Bank!RecordedNames(m) : lines[k] = line[k]
  BY <1>1, <1>4, NamesAre
<1>6. lines[Bank!Out] = line[Bank!Out] /\ lines[Bank!In] = line[Bank!In]
  BY <1>1, <1>2, <1>4
<1> HIDE DEF lines
<1>7. Bank!Register(lines)
  BY DEF lines
<1>8. Bank!LegsTogether'
  BY <1>6, <1>7, LegsStay DEF BankInv, Bank!Register
<1>9. SweepsKept /\ DOMAIN request' = Clerks /\ \A p \in Clerks : GoodRequest(request'[p])
  BY SameRequests DEF BankInv
<1> QED
  BY <1>3, <1>5, <1>7, <1>8, <1>9, RegistersOthers

LEMMA UpdateLineKeeps ==
  ASSUME BankInv, NEW n \in Bank!Names, Bank!BankTransactionUpdate(n, 1)
  PROVE  BankInv'
<1> DEFINE entered == [line[n] EXCEPT !.amount = 1]
<1>1. /\ Bank!Editable(n) /\ Bank!Register([line EXCEPT ![n].amount = 1]) /\ line[n].amount # 1
      /\ UNCHANGED <<foreign, money, request, stale>>
  BY DEF Bank!BankTransactionUpdate
<1>2. line[n] \in LineRows /\ GoodLine(line[n]) /\ line[n] # Bank!NoLine /\ line[n].matched = 0
  BY <1>1, EditableIs
<1>3. /\ entered \in LineRows /\ entered.account = line[n].account /\ entered.amount = 1 /\ entered.matched = 0
      /\ entered.ignored = line[n].ignored /\ entered.status = line[n].status
  BY <1>2 DEF LineRows
<1>4. line[n].amount # 0 /\ line[n].account \in Accounts /\ line[n].status = Bank!ExplainedStatus(line[n])
  BY <1>2 DEF GoodLine
<1> HIDE DEF entered
<1>5. Bank!ExplainedStatus(entered) = Bank!ExplainedStatus(line[n])
  BY <1>2, <1>3, <1>4 DEF Bank!ExplainedStatus
<1>6. GoodLine(entered)
  BY <1>3, <1>4, <1>5 DEF GoodLine
<1>7. Bank!Register([line EXCEPT ![n] = entered])
  BY <1>1 DEF entered
<1> QED
  BY <1>1, <1>6, <1>7, EditKeeps

LEMMA DeleteLineKeeps ==
  ASSUME BankInv, NEW n \in Bank!Names, Bank!BankTransactionDelete(n)
  PROVE  BankInv'
BY NoLineIs, EditKeeps DEF Bank!BankTransactionDelete

LEMMA IgnoreKeeps ==
  ASSUME BankInv, NEW n \in Bank!Names, Bank!BankTransactionIgnore(n)
  PROVE  BankInv'
<1> DEFINE turned == [line[n] EXCEPT !.ignored = ~@]
           entered == Bank!Settled(turned)
<1>1. /\ line[n] # Bank!NoLine /\ n \notin Bank!Legs /\ line' = [line EXCEPT ![n] = entered]
      /\ UNCHANGED <<foreign, account, money, request, stale>>
  BY DEF Bank!BankTransactionIgnore, Bank!There
<1>2. line[n] \in LineRows /\ line[n].account \in Accounts /\ line[n].amount # 0 /\ line[n].matched \in {0, line[n].amount}
  BY <1>1 DEF BankInv, BankShape, LineTable, GoodLine
<1>3. /\ turned \in LineRows /\ turned.account = line[n].account /\ turned.amount = line[n].amount
      /\ turned.matched = line[n].matched /\ turned.on = line[n].on
  BY <1>2 DEF LineRows
<1> HIDE DEF turned
<1>4. /\ GoodLine(entered) /\ entered # Bank!NoLine /\ entered.account = line[n].account /\ entered.amount = line[n].amount
      /\ entered.matched = line[n].matched /\ entered.on = line[n].on
  BY <1>2, <1>3, SettledLine
<1> HIDE DEF entered
<1>5. line \in LineTable /\ DOMAIN line = Bank!Names /\ line' \in LineTable
  BY <1>1, <1>4, LineBecomes DEF BankInv, BankShape, LineTable
<1>6. \A k \in Bank!Names :
        /\ Bank!There(k)' <=> Bank!There(k)
        /\ line'[k].account = line[k].account /\ line'[k].amount = line[k].amount
        /\ line'[k].matched = line[k].matched /\ line'[k].on = line[k].on
  BY <1>1, <1>4, <1>5 DEF Bank!There
<1>7. (\A m \in Money : Follows(m))'
  <2> SUFFICES ASSUME NEW m \in Money PROVE Follows(m)'
    OBVIOUS
  <2>1. \A k \in Bank!RecordedNames(m) : k \in Bank!Names
    BY NamesAre
  <2> QED
    BY <1>1, <1>6, <2>1, StillFollows DEF BankInv
<1>8. [k \in Bank!Names |-> line'[k].amount] = [k \in Bank!Names |-> line[k].amount]
  BY <1>6
<1>9. \A a \in Accounts : {k \in Bank!Names : line'[k].account = a} = {k \in Bank!Names : line[k].account = a}
  BY <1>6
<1>10. Bank!BalanceFollows'
  BY <1>1, <1>8, <1>9 DEF BankInv, Bank!BalanceFollows, Bank!LinesOf
<1>11. Bank!LegsTogether'
  <2>1. n # Bank!Out /\ n # Bank!In
    BY <1>1, NamesAre
  <2> QED
    BY <1>1, <1>5, <2>1, LegsStay DEF BankInv
<1>12. SweepsKept /\ DOMAIN request' = Clerks /\ \A p \in Clerks : GoodRequest(request'[p])
  BY <1>1, SameRequests DEF BankInv
<1>13. BankShape'
  BY <1>1, <1>5, <1>12, GoodStill DEF BankInv, BankShape
<1>14. OneDefault' /\ OneSweep'
  BY <1>1 DEF BankInv, OneDefault, OneSweep
<1> QED
  BY <1>7, <1>10, <1>11, <1>13, <1>14 DEF BankInv

LEMMA LegIs ==
  ASSUME NEW l, NewLine(l), NEW other \in Accounts, NEW n \in Bank!Legs
  PROVE  /\ GoodLine(Bank!Leg(n, l, other)) /\ Bank!Leg(n, l, other) # Bank!NoLine
         /\ Bank!Leg(n, l, other).account = (IF n = Bank!Out THEN l.account ELSE other)
         /\ Bank!Leg(n, l, other).amount = (IF n = Bank!Out THEN -l.amount ELSE l.amount)
         /\ Bank!Leg(n, l, other).on = l.on
         /\ Bank!Leg(n, l, other).matched =
               (IF foreign \cap {l.account, other} = {} THEN IF n = Bank!Out THEN -l.amount ELSE l.amount ELSE 0)
<1> DEFINE where == IF n = Bank!Out THEN l.account ELSE other
           amount == IF n = Bank!Out THEN -l.amount ELSE l.amount
           same   == foreign \cap {l.account, other} = {}
           entered == [Bank!NoLine EXCEPT !.account = where, !.amount = amount, !.on = l.on,
                  !.matched = IF same THEN amount ELSE 0, !.ignored = ~same]
<1>1. Bank!Leg(n, l, other) = Bank!Settled(entered)
  BY DEF Bank!Leg
<1>2. l.amount \in Int /\ l.amount > 0 /\ l.on \in Int /\ l.account \in Accounts
  BY DEF NewLine, GoodLine, LineRows
<1>3. amount \in Int /\ amount # 0 /\ where \in Accounts
  BY <1>2
<1> HIDE DEF amount, where
<1> HIDE DEF same
<1>5. /\ entered \in LineRows /\ entered.account = where /\ entered.amount = amount
      /\ entered.on = l.on /\ entered.matched = (IF same THEN amount ELSE 0)
  <2>1. Bank!NoLine \in LineRows
    BY NoLineIs
  <2>2. CASE same
    <3>1. entered = [Bank!NoLine EXCEPT !.account = where, !.amount = amount, !.on = l.on,
                  !.matched = amount, !.ignored = FALSE]
      BY <2>2
    <3> HIDE DEF entered
    <3> QED
      BY <1>2, <1>3, <2>1, <2>2, <3>1 DEF LineRows
  <2>3. CASE ~same
    <3>1. entered = [Bank!NoLine EXCEPT !.account = where, !.amount = amount, !.on = l.on,
                  !.matched = 0, !.ignored = TRUE]
      BY <2>3
    <3> HIDE DEF entered
    <3> DEFINE aside == [[Bank!NoLine EXCEPT !.account = where, !.amount = amount, !.on = l.on] EXCEPT !.ignored = TRUE]
    <3>2. aside \in LineRows /\ aside.account = where /\ aside.amount = amount /\ aside.on = l.on /\ aside.matched = 0
      BY <1>2, <1>3, NoLineIs DEF LineRows
    <3>3. entered = [aside EXCEPT !.matched = 0]
      BY <3>1 DEF Bank!NoLine
    <3> HIDE DEF aside
    <3>4. entered \in LineRows /\ entered.account = where /\ entered.amount = amount /\ entered.on = l.on /\ entered.matched = 0
      BY ONLY <3>2, <3>3 DEF LineRows
    <3> QED
      BY <2>3, <3>4
  <2> QED
    BY <2>2, <2>3
<1> HIDE DEF entered
<1>6. entered.account \in Accounts /\ entered.amount # 0 /\ entered.matched \in {0, entered.amount}
  BY <1>2, <1>3, <1>5
<1>7. /\ GoodLine(Bank!Settled(entered)) /\ Bank!Settled(entered) # Bank!NoLine
      /\ Bank!Settled(entered).account = entered.account /\ Bank!Settled(entered).amount = entered.amount
      /\ Bank!Settled(entered).on = entered.on /\ Bank!Settled(entered).matched = entered.matched
  BY <1>5, <1>6, SettledLine
<1> QED
  BY <1>1, <1>5, <1>7 DEF amount, same, where

LEMMA TransferKeeps ==
  ASSUME BankInv, NEW r \in Clerks, NEW other \in Accounts, Bank!BankTransferCreate(r, other)
  PROVE  BankInv'
<1> DEFINE l == request[r].line
           lines == [n \in Bank!Names |-> IF n \in Bank!Legs THEN Bank!Leg(n, l, other) ELSE line[n]]
<1>1. /\ request[r].op = "transfer" /\ Bank!Register(lines) /\ other # l.account
      /\ request' = [request EXCEPT ![r] = Bank!Idle]
      /\ UNCHANGED <<foreign, money, stale>>
  BY DEF Bank!BankTransferCreate
<1>2. NewLine(l)
  BY <1>1 DEF BankInv, BankShape, GoodRequest, NewLine
<1> HIDE DEF l
<1>3. Bank!Out \in Bank!Names /\ Bank!In \in Bank!Names /\ Bank!Legs = {Bank!Out, Bank!In} /\ Bank!Out # Bank!In
  BY NamesAre
<1>4. lines \in LineTable
  <2>1. \A n \in Bank!Names : GoodLine(lines[n])
    BY <1>2, LegIs DEF BankInv, BankShape, LineTable
  <2>2. \A n \in Bank!Names : lines[n] \in LineRows
    BY <2>1 DEF GoodLine
  <2>3. lines \in [Bank!Names -> LineRows]
    BY <2>2
  <2> QED
    BY <2>1, <2>3 DEF LineTable
<1>5. \A m \in Money : \A n \in Bank!RecordedNames(m) : lines[n] = line[n]
  BY NamesAre
<1>6. lines[Bank!Out] = Bank!Leg(Bank!Out, l, other) /\ lines[Bank!In] = Bank!Leg(Bank!In, l, other)
  BY <1>3
<1> HIDE DEF lines
<1>7. line' = lines
  BY <1>1 DEF Bank!Register
<1>8. Bank!LegsTogether'
  <2>1. l.amount \in Int /\ other # l.account
    BY <1>1, <1>2 DEF NewLine, GoodLine, LineRows, l
  <2> QED
    BY <1>2, <1>3, <1>6, <1>7, <2>1, LegIs DEF Bank!LegsTogether, Bank!There
<1>9. SweepsKept /\ DOMAIN request' = Clerks /\ \A p \in Clerks : GoodRequest(request'[p])
  BY <1>1, GoesIdle DEF BankInv
<1> QED
  BY <1>1, <1>4, <1>5, <1>8, <1>9, RegistersOthers

LEMMA TransferDeleteKeeps ==
  ASSUME BankInv, Bank!BankTransferDelete
  PROVE  BankInv'
<1> DEFINE lines == [n \in Bank!Names |-> IF n \in Bank!Legs THEN Bank!NoLine ELSE line[n]]
<1>1. /\ Bank!Register(lines)
      /\ UNCHANGED <<foreign, money, request, stale>>
  BY DEF Bank!BankTransferDelete
<1>2. Bank!Out \in Bank!Names /\ Bank!In \in Bank!Names /\ Bank!Legs = {Bank!Out, Bank!In} /\ Bank!Out # Bank!In
  BY NamesAre
<1>3. lines \in LineTable
  <2>1. \A n \in Bank!Names : GoodLine(lines[n]) /\ lines[n] \in LineRows
    BY NoLineIs DEF BankInv, BankShape, LineTable
  <2> QED
    BY <2>1 DEF LineTable
<1>4. \A m \in Money : \A n \in Bank!RecordedNames(m) : lines[n] = line[n]
  BY NamesAre
<1>5. lines[Bank!Out] = Bank!NoLine /\ lines[Bank!In] = Bank!NoLine
  BY <1>2
<1> HIDE DEF lines
<1>6. Bank!LegsTogether'
  BY <1>1, <1>5 DEF Bank!LegsTogether, Bank!There, Bank!Register
<1>7. SweepsKept /\ DOMAIN request' = Clerks /\ \A p \in Clerks : GoodRequest(request'[p])
  BY <1>1, SameRequests DEF BankInv
<1> QED
  BY <1>1, <1>3, <1>4, <1>6, <1>7, RegistersOthers

-----------------------------------------------------------------------------
(* What follows recorded money.                                            *)

LEMMA SweepReads ==
  ASSUME BankInv, NEW r \in Clerks, NEW m \in Money, Bank!PlaceRecordedRead(r, m)
  PROVE  BankInv'
<1> DEFINE q == [Bank!Idle EXCEPT !.op = "sweep", !.m = m, !.wanted = money[m], !.seen = Bank!Opening(money[m].account)]
<1>1. /\ Bank!Unplaced(m) /\ Bank!Placeable(money[m], Bank!Opening(money[m].account))
      /\ \A p \in Clerks : request[p].op # "sweep"
      /\ request' = [request EXCEPT ![r] = q]
      /\ UNCHANGED <<foreign, account, line, money, stale>>
  BY DEF Bank!PlaceRecordedRead
<1>2. money[m] \in Bank!Recordable /\ money[m].account \in Accounts
  BY <1>1, RecordableIs DEF Bank!Unplaced, BankInv, BankShape, Bank!NoMoney
<1>3. Bank!Opening(money[m].account) \in Nat
  BY <1>2 DEF BankInv, BankShape, AccountRows, Bank!Opening
<1>4. q.op = "sweep" /\ q.m = m /\ GoodRequest(q)
  <2>1. /\ q.op = "sweep" /\ q.m = m /\ q.wanted = money[m] /\ q.seen = Bank!Opening(money[m].account) /\ q \in BankRequests
    BY <1>2, <1>3, NoLineIs DEF BankRequests, Bank!Idle
  <2> HIDE DEF q
  <2> QED
    BY <1>1, <1>2, <1>3, <2>1 DEF GoodRequest
<1> HIDE DEF q
<1>5. /\ DOMAIN request' = Clerks /\ request'[r] = q
      /\ \A p \in Clerks : p # r => request'[p] = request[p]
  BY <1>1 DEF BankInv, BankShape
<1>6. \A p \in Clerks : GoodRequest(request'[p])
  BY <1>4, <1>5 DEF BankInv, BankShape
<1>7. BankShape'
  BY <1>1, <1>5, <1>6, GoodStill DEF BankInv, BankShape
<1>8. OneDefault' /\ Bank!BalanceFollows' /\ Bank!LegsTogether'
  BY <1>1 DEF BankInv, OneDefault, Bank!BalanceFollows, Bank!LinesOf, Bank!LegsTogether, Bank!There
<1>9. OneSweep'
  BY <1>1, <1>5 DEF OneSweep
<1>10. ASSUME NEW k \in Money PROVE Follows(k)'
  <2>1. \A p \in Clerks : request'[p].op = "sweep" /\ request'[p].m = k /\ money[k].account = None =>
            request[p].op = "sweep" /\ request[p].m = k
    <3>1. money[m].account # None
      BY <1>2, TreasuryAssumption
    <3> QED
      BY <1>4, <1>5, <3>1
  <2>2. Follows(k)
    BY DEF BankInv
  <2>3. \A n \in Bank!RecordedNames(k) : Bank!There(n)' <=> Bank!There(n)
    BY <1>1 DEF Bank!There
  <2> QED
    BY <1>1, <2>1, <2>2, <2>3, StillFollows
<1> QED
  BY <1>7, <1>8, <1>9, <1>10 DEF BankInv

(* The lines of one piece of money are placed again.                       *)
LEMMA PlaceIs ==
  ASSUME BankInv, NEW m \in Money, NEW w \in Bank!Recordable \cup {Bank!NoMoney}, NEW opening
  PROVE  /\ Bank!Place(m, w, opening) \in LineTable
         /\ \A n \in Bank!Names : n \notin Bank!RecordedNames(m) => Bank!Place(m, w, opening)[n] = line[n]
         /\ \A n \in Bank!RecordedNames(m) :
               Bank!Place(m, w, opening)[n] =
                  IF Bank!Placeable(w, opening) /\ n[2] = w.account THEN Bank!PlacedLine(w) ELSE Bank!NoLine
<1> DEFINE lines == Bank!Place(m, w, opening)
<1>1. lines = [n \in Bank!Names |->
        IF n \notin Bank!RecordedNames(m) THEN line[n]
        ELSE IF Bank!Placeable(w, opening) /\ n = <<m, w.account>> THEN Bank!PlacedLine(w) ELSE Bank!NoLine]
  BY DEF Bank!Place
<1> HIDE DEF lines
<1>2. \A n \in Bank!RecordedNames(m) : n \in Bank!Names /\ (n = <<m, w.account>> <=> n[2] = w.account)
  <2> SUFFICES ASSUME NEW n \in Bank!RecordedNames(m) PROVE n \in Bank!Names /\ (n = <<m, w.account>> <=> n[2] = w.account)
    OBVIOUS
  <2>1. n \in Bank!Names /\ n = <<m, n[2]>>
    BY NamesAre
  <2> QED
    BY <2>1
<1>3. Bank!Placeable(w, opening) => w \in Bank!Recordable /\ w.account # None
  BY DEF Bank!Placeable, Bank!NoMoney
<1>4. Bank!Placeable(w, opening) => GoodLine(Bank!PlacedLine(w)) /\ Bank!PlacedLine(w) \in LineRows
  BY <1>3, PlacedIs
<1>5. line \in LineTable
  BY DEF BankInv, BankShape
<1>6. \A n \in Bank!Names : GoodLine(lines[n]) /\ lines[n] \in LineRows
  BY <1>1, <1>4, <1>5, NoLineIs DEF LineTable
<1>7. lines \in LineTable
  BY <1>1, <1>6 DEF LineTable
<1>8. \A n \in Bank!Names : n \notin Bank!RecordedNames(m) => lines[n] = line[n]
  BY <1>1
<1>9. \A n \in Bank!RecordedNames(m) :
        lines[n] = IF Bank!Placeable(w, opening) /\ n[2] = w.account THEN Bank!PlacedLine(w) ELSE Bank!NoLine
  BY <1>1, <1>2
<1> QED
  BY <1>7, <1>8, <1>9 DEF lines

(* What is placed from the account as it is, or from what it was.          *)
LEMMA PlacedFollows ==
  ASSUME NEW m \in Money, NEW w \in Bank!Recordable \cup {Bank!NoMoney}, NEW opening, money'[m] = w,
         \A n \in Bank!RecordedNames(m) :
            line'[n] = IF Bank!Placeable(w, opening) /\ n[2] = w.account THEN Bank!PlacedLine(w) ELSE Bank!NoLine,
         foreign' = foreign,
         m \in stale' \/ opening = Bank!Opening(w.account)'
  PROVE  Follows(m)'
<1>1. Bank!Placeable(w, opening) => w \in Bank!Recordable /\ w.account # None /\ w.state # "absent"
  BY DEF Bank!Placeable, Bank!NoMoney
<1>2. Bank!Placeable(w, opening) =>
        /\ Bank!PlacedLine(w) # Bank!NoLine /\ Bank!PlacedLine(w).account = w.account /\ Bank!PlacedLine(w).amount = w.amount
        /\ Bank!PlacedLine(w).on = w.on /\ Bank!PlacedLine(w).matched = w.amount /\ w.amount \in Nat
  BY <1>1, PlacedIs, RecordableIs
<1>3. \A n \in Bank!RecordedNames(m) : Bank!There(n)' <=> Bank!Placeable(w, opening) /\ n[2] = w.account
  BY <1>2 DEF Bank!There
<1>4. \A n \in Bank!RecordedNames(m) : Bank!There(n)' => line'[n] = Bank!PlacedLine(w)
  BY <1>3
<1>5. \A n \in Bank!RecordedNames(m) : n = <<m, n[2]>>
  BY NamesAre
<1>6. /\ \A n \in Bank!RecordedNames(m) : Bank!There(n)' =>
          /\ line'[n].account = n[2] /\ line'[n].matched = line'[n].amount
          /\ money'[m].account \in {n[2], None}
          /\ money'[m].state # "absent" /\ line'[n].amount <= money'[m].amount
  BY <1>1, <1>2, <1>3, <1>4
<1>7. \A k, n \in Bank!RecordedNames(m) : Bank!There(k)' /\ Bank!There(n)' => k = n
  BY <1>3, <1>5
<1>8. m \notin stale' =>
          \A n \in Bank!RecordedNames(m) :
             IF Bank!Placeable(money[m], Bank!Opening(money[m].account))' /\ n[2] = money'[m].account
             THEN Bank!There(n)' /\ line'[n].amount = money'[m].amount /\ line'[n].on = money'[m].on
             ELSE ~Bank!There(n)'
  <2> SUFFICES ASSUME m \notin stale' PROVE Bank!Placeable(money[m], Bank!Opening(money[m].account))' <=> Bank!Placeable(w, opening)
    BY <1>2, <1>3, <1>4
  <2>1. opening = Bank!Opening(money[m].account)'
    OBVIOUS
  <2> QED
    BY <2>1 DEF Bank!Placeable
<1>9. \A r \in Clerks : request'[r].op = "sweep" /\ request'[r].m = m /\ money'[m].account = None =>
          \A n \in Bank!RecordedNames(m) : ~Bank!There(n)'
  BY <1>1, <1>3
<1> QED
  BY <1>6, <1>7, <1>8, <1>9 DEF Follows

(* The money of another name is left alone.                                *)
LEMMA OthersFollow ==
  ASSUME BankInv, SweepsKept, NEW m \in Money, NEW k \in Money, k # m, foreign' = foreign, money'[k] = money[k],
         k \in stale => k \in stale',
         \A a \in Accounts : account'[a].opening = account[a].opening,
         \A n \in Bank!Names : n \notin Bank!RecordedNames(m) => line'[n] = line[n]
  PROVE  Follows(k)'
<1>1. Follows(k)
  BY DEF BankInv
<1>2. money[k].account # None => money[k].account \in Accounts
  BY RecordableIs DEF BankInv, BankShape, Bank!NoMoney
<1>3. \A n \in Bank!RecordedNames(k) : line'[n] = line[n]
  BY NamesAre
<1>4. \A n \in Bank!RecordedNames(k) : Bank!There(n)' <=> Bank!There(n)
  BY <1>3 DEF Bank!There
<1>5. \A r \in Clerks : request'[r].op = "sweep" /\ request'[r].m = k /\ money[k].account = None =>
          request[r].op = "sweep" /\ request[r].m = k
  BY DEF SweepsKept
<1> QED
  BY <1>1, <1>2, <1>3, <1>4, <1>5, StillFollows

(* The lines of one piece of money become others.                          *)
LEMMA OneFollows ==
  ASSUME BankInv, NEW m \in Money, NEW lines \in LineTable, Bank!Register(lines),
         foreign' = foreign, money' \in [Money -> Bank!Recordable \cup {Bank!NoMoney}],
         \A k \in Money : k # m => money'[k] = money[k] /\ (k \in stale => k \in stale'),
         SweepsKept, DOMAIN request' = Clerks, \A r \in Clerks : GoodRequest(request'[r]),
         \A n \in Bank!Names : n \notin Bank!RecordedNames(m) => lines[n] = line[n],
         Follows(m)'
  PROVE  BankInv'
<1>1. /\ line' = lines /\ line' \in LineTable
      /\ account' \in [Accounts -> AccountRows] /\ OneDefault' /\ Bank!BalanceFollows'
      /\ \A a \in Accounts : account'[a].opening = account[a].opening
  BY Registers DEF BankInv
<1>2. BankShape'
  BY <1>1, GoodStill DEF BankInv, BankShape
<1>3. (\A k \in Money : Follows(k))'
  BY <1>1, OthersFollow
<1>4. OneSweep'
  BY SweepStays DEF BankInv
<1>5. Bank!LegsTogether'
  <2>1. Bank!Out \in Bank!Names /\ Bank!In \in Bank!Names /\ Bank!Out \notin Bank!RecordedNames(m) /\ Bank!In \notin Bank!RecordedNames(m)
    BY NamesAre
  <2> QED
    BY <1>1, <2>1, LegsStay DEF BankInv
<1> QED
  BY <1>1, <1>2, <1>3, <1>4, <1>5 DEF BankInv

LEMMA RecordWriteKeeps ==
  ASSUME BankInv, NEW r \in Clerks, Bank!RecordWrite(r)
  PROVE  BankInv'
<1>0. PICK q : q = request[r]
  OBVIOUS
<1> DEFINE lines == Bank!Place(q.m, q.wanted, q.seen)
<1>1. /\ q.op = "record" /\ money' = [money EXCEPT ![q.m] = q.wanted] /\ Bank!Register(lines)
      /\ stale' = IF q.seen = Bank!Opening(q.wanted.account) THEN stale \ {q.m} ELSE stale \cup {q.m}
      /\ request' = [request EXCEPT ![r] = Bank!Idle]
      /\ foreign' = foreign
  BY <1>0 DEF Bank!RecordWrite
<1>2. q.m \in Money /\ q.wanted \in Bank!Recordable /\ q.seen \in Nat
  BY <1>0, <1>1 DEF BankInv, BankShape, GoodRequest
<1>3. money \in [Money -> Bank!Recordable \cup {Bank!NoMoney}]
  BY DEF BankInv, BankShape
<1>4. /\ money' \in [Money -> Bank!Recordable \cup {Bank!NoMoney}] /\ money'[q.m] = q.wanted
      /\ \A k \in Money : k # q.m => money'[k] = money[k]
  BY <1>1, <1>2, <1>3
<1>5. /\ lines \in LineTable
      /\ \A n \in Bank!Names : n \notin Bank!RecordedNames(q.m) => lines[n] = line[n]
      /\ \A n \in Bank!RecordedNames(q.m) :
            lines[n] = IF Bank!Placeable(q.wanted, q.seen) /\ n[2] = q.wanted.account THEN Bank!PlacedLine(q.wanted) ELSE Bank!NoLine
  BY <1>2, PlaceIs
<1> HIDE DEF lines
<1>6. line' = lines /\ \A a \in Accounts : account'[a].opening = account[a].opening
  BY <1>1, <1>5, Registers DEF BankInv
<1>7. q.m \in stale' \/ q.seen = Bank!Opening(q.wanted.account)'
  <2>1. Bank!Opening(q.wanted.account)' = Bank!Opening(q.wanted.account)
    BY <1>2, <1>6, RecordableIs DEF Bank!Opening
  <2> QED
    BY <1>1, <2>1
<1>8. Follows(q.m)'
  BY <1>1, <1>2, <1>4, <1>5, <1>6, <1>7, PlacedFollows
<1>9. \A k \in Money : k # q.m => (k \in stale => k \in stale')
  BY <1>1
<1>10. SweepsKept /\ DOMAIN request' = Clerks /\ \A p \in Clerks : GoodRequest(request'[p])
  BY <1>1, GoesIdle DEF BankInv
<1> QED
  BY <1>1, <1>2, <1>4, <1>5, <1>8, <1>9, <1>10, OneFollows

LEMMA DeleteMoneyKeeps ==
  ASSUME BankInv, NEW m \in Money, Bank!DeleteMoney(m)
  PROVE  BankInv'
<1> DEFINE lines == [n \in Bank!Names |-> IF n \in Bank!RecordedNames(m) THEN Bank!NoLine ELSE line[n]]
<1>1. /\ money' = [money EXCEPT ![m] = Bank!NoMoney] /\ Bank!Register(lines) /\ stale' = stale \ {m}
      /\ foreign' = foreign /\ request' = request
  BY DEF Bank!DeleteMoney
<1>2. money \in [Money -> Bank!Recordable \cup {Bank!NoMoney}]
  BY DEF BankInv, BankShape
<1>3. /\ money' \in [Money -> Bank!Recordable \cup {Bank!NoMoney}] /\ money'[m] = Bank!NoMoney
      /\ \A k \in Money : k # m => money'[k] = money[k]
  BY <1>1, <1>2
<1>4. ~Bank!Placeable(Bank!NoMoney, 0)
  BY DEF Bank!Placeable, Bank!NoMoney
<1>5. /\ lines \in LineTable
      /\ \A n \in Bank!Names : n \notin Bank!RecordedNames(m) => lines[n] = line[n]
      /\ \A n \in Bank!RecordedNames(m) : lines[n] = Bank!NoLine
  <2>1. \A n \in Bank!Names : GoodLine(lines[n]) /\ lines[n] \in LineRows
    BY NoLineIs DEF BankInv, BankShape, LineTable
  <2>2. \A n \in Bank!RecordedNames(m) : n \in Bank!Names
    BY NamesAre
  <2> QED
    BY <2>1, <2>2 DEF LineTable
<1> HIDE DEF lines
<1>6. line' = lines
  BY <1>1 DEF Bank!Register
<1>7. Bank!Opening(Bank!NoMoney.account)' = 0
  BY DEF Bank!Opening, Bank!NoMoney
<1>8. Follows(m)'
  BY <1>1, <1>3, <1>4, <1>5, <1>6, <1>7, PlacedFollows
<1>9. SweepsKept /\ DOMAIN request' = Clerks /\ \A p \in Clerks : GoodRequest(request'[p])
  BY <1>1, SameRequests DEF BankInv
<1> QED
  BY <1>1, <1>3, <1>5, <1>8, <1>9, OneFollows

LEMMA PlaceRecordedKeeps ==
  ASSUME BankInv, NEW r \in Clerks, Bank!PlaceRecordedMoney(r)
  PROVE  BankInv'
<1>0. PICK q : q = request[r]
  OBVIOUS
<1> DEFINE placed == Bank!PlacedLine(q.wanted)
           name == <<q.m, q.wanted.account>>
           lines == [line EXCEPT ![name] = placed]
<1>1. /\ q.op = "sweep" /\ Bank!Fits(q.m, q.wanted) /\ Bank!Register(lines)
      /\ stale' = IF q.wanted = money[q.m] /\ q.seen = Bank!Opening(q.wanted.account) THEN stale ELSE stale \cup {q.m}
      /\ request' = [request EXCEPT ![r] = Bank!Idle]
      /\ UNCHANGED <<foreign, money>>
  BY <1>0 DEF Bank!PlaceRecordedMoney
<1>2. q.m \in Money /\ q.wanted \in Bank!Recordable /\ q.seen \in Nat /\ Bank!Placeable(q.wanted, q.seen)
  BY <1>0, <1>1 DEF BankInv, BankShape, GoodRequest
<1>3. money \in [Money -> Bank!Recordable \cup {Bank!NoMoney}] /\ line \in LineTable /\ DOMAIN line = Bank!Names
  BY DEF BankInv, BankShape, LineTable
<1>4. q.wanted.account # None /\ q.wanted.account \in Accounts /\ q.wanted.amount \in Nat /\ q.wanted.amount # 0
  BY <1>2, RecordableIs DEF Bank!Placeable
<1>5. /\ GoodLine(placed) /\ placed # Bank!NoLine /\ placed.account = q.wanted.account
      /\ placed.amount = q.wanted.amount /\ placed.on = q.wanted.on /\ placed.matched = q.wanted.amount
  BY <1>2, <1>4, PlacedIs
<1>6. name \in Bank!RecordedNames(q.m) /\ name \in Bank!Names /\ name[2] = q.wanted.account
  BY <1>2, <1>4, NamesAre
<1>7. Follows(q.m)
  BY <1>2 DEF BankInv
<1> DEFINE m == q.m
           w == q.wanted
<1>8. q.op = "sweep" /\ q.m = m
  BY <1>1
<1>9. money[m].account = None => \A n \in Bank!RecordedNames(m) : ~Bank!There(n)
  BY <1>0, <1>7, <1>8 DEF Follows
<1> HIDE DEF placed
<1>10. money[m].state # "absent" /\ money[m].account \in {w.account, None} /\ w.amount <= money[m].amount /\ ~Bank!There(name)
  BY <1>1 DEF Bank!Fits
<1>11. \A n \in Bank!RecordedNames(m) : ~Bank!There(n)
  \* Elsewhere there is none: its line would be in the account of the money.
  <2> SUFFICES ASSUME NEW n \in Bank!RecordedNames(m), Bank!There(n) PROVE FALSE
    OBVIOUS
  <2>1. money[m].account # None
    BY <1>9
  <2>2. money[m].account \in {n[2], None}
    BY <1>7 DEF Follows
  <2>3. n = <<m, n[2]>>
    BY <1>2, NamesAre
  <2> QED
    BY <1>10, <2>1, <2>2, <2>3
<1>12. lines \in LineTable /\ (\A n \in Bank!Names : n \notin Bank!RecordedNames(m) => lines[n] = line[n]) /\ lines[name] = placed
       /\ \A n \in Bank!RecordedNames(m) : n # name => lines[n] = Bank!NoLine
  <2>1. lines \in LineTable
    BY <1>5, <1>6, LineBecomes DEF BankInv
  <2>2. \A n \in Bank!RecordedNames(m) : n \in Bank!Names
    BY <1>2, NamesAre
  <2> QED
    BY <1>3, <1>6, <1>11, <2>1, <2>2 DEF Bank!There
<1> HIDE DEF lines, name
<1>13. line' = lines /\ \A a \in Accounts : account'[a].opening = account[a].opening
  BY <1>1, <1>12, Registers DEF BankInv
<1>14. \A n \in Bank!RecordedNames(m) : Bank!There(n)' <=> n = name
  BY <1>5, <1>12, <1>13 DEF Bank!There
<1>15. Follows(m)'
  <2>1. /\ \A n \in Bank!RecordedNames(m) : Bank!There(n)' =>
            /\ line'[n].account = n[2] /\ line'[n].matched = line'[n].amount
            /\ money'[m].account \in {n[2], None}
            /\ money'[m].state # "absent" /\ line'[n].amount <= money'[m].amount
    BY <1>1, <1>5, <1>6, <1>10, <1>12, <1>13, <1>14
  <2>2. \A k, n \in Bank!RecordedNames(m) : Bank!There(k)' /\ Bank!There(n)' => k = n
    BY <1>14
  <2>3. m \notin stale' =>
          \A n \in Bank!RecordedNames(m) :
             IF Bank!Placeable(money[m], Bank!Opening(money[m].account))' /\ n[2] = money'[m].account
             THEN Bank!There(n)' /\ line'[n].amount = money'[m].amount /\ line'[n].on = money'[m].on
             ELSE ~Bank!There(n)'
    <3> SUFFICES ASSUME m \notin stale', NEW n \in Bank!RecordedNames(m)
                 PROVE  IF Bank!Placeable(money[m], Bank!Opening(money[m].account))' /\ n[2] = money'[m].account
                        THEN Bank!There(n)' /\ line'[n].amount = money'[m].amount /\ line'[n].on = money'[m].on
                        ELSE ~Bank!There(n)'
      OBVIOUS
    <3>1. w = money[m] /\ q.seen = Bank!Opening(w.account)
      BY <1>1
    <3>2. Bank!Opening(w.account)' = Bank!Opening(w.account)
      BY <1>4, <1>13 DEF Bank!Opening
    <3>3. Bank!Placeable(money[m], Bank!Opening(money[m].account))'
      BY <1>1, <1>2, <3>1, <3>2 DEF Bank!Placeable
    <3>4. n = <<m, n[2]>>
      BY <1>2, NamesAre
    <3>5. n = name <=> n[2] = w.account
      BY <1>6, <3>4 DEF name
    <3> QED
      BY <1>1, <1>5, <1>12, <1>13, <1>14, <3>1, <3>3, <3>5
  <2>4. \A p \in Clerks : request'[p].op = "sweep" /\ request'[p].m = m /\ money'[m].account = None =>
          \A n \in Bank!RecordedNames(m) : ~Bank!There(n)'
    <3>1. \A p \in Clerks : request'[p].op # "sweep"
      BY <1>0, <1>1, IdleIs DEF BankInv, BankShape, OneSweep
    <3> QED
      BY <3>1
  <2> QED
    BY <2>1, <2>2, <2>3, <2>4 DEF Follows
<1>16. SweepsKept /\ DOMAIN request' = Clerks /\ \A p \in Clerks : GoodRequest(request'[p])
  BY <1>1, GoesIdle DEF BankInv
<1>17. \A k \in Money : k # m => (k \in stale => k \in stale')
  BY <1>1
<1> QED
  BY <1>1, <1>2, <1>3, <1>12, <1>15, <1>16, <1>17, OneFollows

(* The opening balance of an account moves, and what is recorded in it is  *)
(* placed again.                                                           *)
Moved(a) == {m \in Money : money[m].state # "absent" /\ money[m].account = a}
Replaced(a, opening) ==
    [n \in Bank!Names |->
        IF \E m \in Moved(a) : n \in Bank!RecordedNames(m)
        THEN LET m == CHOOSE m \in Moved(a) : n \in Bank!RecordedNames(m) IN
             IF Bank!There(n) /\ Bank!Placeable(money[m], opening) /\ line[n].amount = money[m].amount /\ line[n].on = money[m].on
             THEN line[n] ELSE Bank!Place(m, money[m], opening)[n]
        ELSE line[n]]

Updated(a, opening, lines) ==
    /\ line' = lines
    /\ account' = [b \in Accounts |->
         IF b # a THEN account[b]
         ELSE [account[a] EXCEPT !.opening = opening,
              !.balance = opening + Bank!SumFunctionOnSet([n \in Bank!Names |-> lines[n].amount], {n \in Bank!Names : lines[n].account = a})]]
    /\ stale' = stale \ Moved(a)
    /\ UNCHANGED <<foreign, money, request>>

LEMMA UpdateIs ==
  ASSUME NEW a, NEW opening, Bank!BankAccountUpdate(a, opening)
  PROVE  Updated(a, opening, Replaced(a, opening))
BY Zenon DEF Bank!BankAccountUpdate, Updated, Replaced, Moved

LEMMA ReplacedIs ==
  ASSUME BankInv, NEW a \in Accounts, NEW opening
  PROVE  /\ \A n \in Bank!Names : (\A m \in Moved(a) : n \notin Bank!RecordedNames(m)) => Replaced(a, opening)[n] = line[n]
         /\ \A m \in Moved(a) : \A n \in Bank!RecordedNames(m) :
              IF Bank!Placeable(money[m], opening) /\ n[2] = a
              THEN \/ Replaced(a, opening)[n] = Bank!PlacedLine(money[m])
                   \/ /\ Replaced(a, opening)[n] = line[n] /\ line[n] # Bank!NoLine
                      /\ line[n].amount = money[m].amount /\ line[n].on = money[m].on
              ELSE Replaced(a, opening)[n] = Bank!NoLine
         /\ Replaced(a, opening) \in LineTable
<1>1. \A n \in Bank!Names : (\A m \in Moved(a) : n \notin Bank!RecordedNames(m)) => Replaced(a, opening)[n] = line[n]
  BY DEF Replaced
<1>2. ASSUME NEW m \in Moved(a), NEW n \in Bank!RecordedNames(m)
      PROVE  /\ IF Bank!Placeable(money[m], opening) /\ n[2] = a
                THEN \/ Replaced(a, opening)[n] = Bank!PlacedLine(money[m])
                     \/ /\ Replaced(a, opening)[n] = line[n] /\ line[n] # Bank!NoLine
                        /\ line[n].amount = money[m].amount /\ line[n].on = money[m].on
                ELSE Replaced(a, opening)[n] = Bank!NoLine
             /\ GoodLine(Replaced(a, opening)[n])
  <2>1. m \in Money /\ money[m].account = a /\ money[m] \in Bank!Recordable \cup {Bank!NoMoney}
    BY DEF Moved, BankInv, BankShape
  <2>2. n \in Bank!Names /\ \A k \in Moved(a) : n \in Bank!RecordedNames(k) => k = m
    BY <2>1, NamesAre DEF Moved
  <2>3. (CHOOSE k \in Moved(a) : n \in Bank!RecordedNames(k)) = m
    BY <2>2
  <2>4. Replaced(a, opening)[n] =
          IF Bank!There(n) /\ Bank!Placeable(money[m], opening) /\ line[n].amount = money[m].amount /\ line[n].on = money[m].on
          THEN line[n] ELSE Bank!Place(m, money[m], opening)[n]
    BY <2>2, <2>3 DEF Replaced
  <2>5. Bank!Place(m, money[m], opening)[n] =
          IF Bank!Placeable(money[m], opening) /\ n[2] = money[m].account THEN Bank!PlacedLine(money[m]) ELSE Bank!NoLine
    BY <2>1, PlaceIs
  <2>6. Bank!There(n) => n[2] = a
    <3>1. Bank!There(n) => a \in {n[2], None}
      BY <2>1 DEF BankInv, Follows
    <3> QED
      BY <3>1, TreasuryAssumption
  <2>7. Bank!Placeable(money[m], opening) => GoodLine(Bank!PlacedLine(money[m]))
    BY <2>1, PlacedIs DEF Bank!Placeable, Bank!NoMoney
  <2>8. GoodLine(line[n])
    BY <2>2 DEF BankInv, BankShape, LineTable
  <2>9. GoodLine(Replaced(a, opening)[n])
    BY <2>4, <2>5, <2>7, <2>8, NoLineIs
  <2> QED
    BY <2>1, <2>4, <2>5, <2>6, <2>9 DEF Bank!There
<1>3. \A n \in Bank!Names : GoodLine(Replaced(a, opening)[n])
  BY <1>1, <1>2 DEF BankInv, BankShape, LineTable
<1>4. Replaced(a, opening) \in [Bank!Names -> LineRows]
  <2>1. \A n \in Bank!Names : Replaced(a, opening)[n] \in LineRows
    BY <1>3 DEF GoodLine
  <2> DEFINE lines == Replaced(a, opening)
  <2>2. lines = [n \in Bank!Names |-> lines[n]]
    BY DEF Replaced
  <2> HIDE DEF lines
  <2>3. \A n \in Bank!Names : lines[n] \in LineRows
    BY <2>1 DEF lines
  <2>4. lines \in [Bank!Names -> LineRows]
    BY <2>2, <2>3
  <2> QED
    BY <2>4 DEF lines
<1>5. Replaced(a, opening) \in LineTable
  BY <1>3, <1>4 DEF LineTable
<1> QED
  BY <1>1, <1>2, <1>5

LEMMA AccountUpdateKeeps ==
  ASSUME BankInv, NEW a \in Accounts, NEW opening \in Nat, Bank!BankAccountUpdate(a, opening)
  PROVE  BankInv'
<1>1. PICK lines : lines = Replaced(a, opening)
  OBVIOUS
<1>2. PICK moved : moved = Moved(a)
  OBVIOUS
<1> DEFINE f == [n \in Bank!Names |-> lines[n].amount]
           S(b) == {n \in Bank!Names : lines[n].account = b}
           total(b) == Bank!SumFunctionOnSet(f, S(b))
<1>3. /\ line' = lines
      /\ account' = [b \in Accounts |-> IF b # a THEN account[b] ELSE [account[a] EXCEPT !.opening = opening, !.balance = opening + total(a)]]
      /\ stale' = stale \ moved
      /\ UNCHANGED <<foreign, money, request>>
  <2>1. Updated(a, opening, lines)
    BY <1>1, UpdateIs
  <2> QED
    BY <1>2, <2>1, Zenon DEF Updated
<1>4. /\ \A n \in Bank!Names : (\A m \in moved : n \notin Bank!RecordedNames(m)) => lines[n] = line[n]
      /\ lines \in LineTable
  BY <1>1, <1>2, ReplacedIs
<1>5. \A m \in moved : \A n \in Bank!RecordedNames(m) :
        IF Bank!Placeable(money[m], opening) /\ n[2] = a
        THEN \/ lines[n] = Bank!PlacedLine(money[m])
             \/ /\ lines[n] = line[n] /\ line[n] # Bank!NoLine
                /\ line[n].amount = money[m].amount /\ line[n].on = money[m].on
        ELSE lines[n] = Bank!NoLine
  BY <1>1, <1>2, ReplacedIs
<1>6. moved \subseteq Money /\ \A m \in moved : money[m].account = a /\ money[m].state # "absent"
  BY <1>2 DEF Moved
<1>7. /\ money \in [Money -> Bank!Recordable \cup {Bank!NoMoney}] /\ account \in [Accounts -> AccountRows]
      /\ line \in LineTable
  BY DEF BankInv, BankShape
<1>8. \A b \in Accounts : IsFiniteSet(S(b)) /\ (\A n \in S(b) : f[n] \in Int)
  BY <1>4, NamesFinite, FS_Subset DEF LineTable, LineRows
<1>9. total(a) \in Int
  <2> HIDE DEF f, S
  <2> QED
    BY <1>8, SumInt
<1>10. \A b \in Accounts : b # a => S(b) = {n \in Bank!Names : line[n].account = b} /\ \A n \in S(b) : lines[n] = line[n]
  <2> SUFFICES ASSUME NEW b \in Accounts, b # a, NEW n \in Bank!Names
               PROVE  /\ lines[n].account = b <=> line[n].account = b
                      /\ lines[n].account = b => lines[n] = line[n]
    OBVIOUS
  <2>1. CASE \A m \in moved : n \notin Bank!RecordedNames(m)
    BY <2>1, <1>4
  <2>2. CASE \E m \in moved : n \in Bank!RecordedNames(m)
    <3>1. PICK m \in moved : n \in Bank!RecordedNames(m)
      BY <2>2
    <3>2. m \in Money /\ money[m].account = a /\ money[m] \in Bank!Recordable \cup {Bank!NoMoney}
      BY <1>6, <1>7
    <3>3. lines[n].account \in {a, None}
      <4>1. Bank!Placeable(money[m], opening) => Bank!PlacedLine(money[m]).account = a
        BY <3>2, PlacedIs DEF Bank!Placeable, Bank!NoMoney
      <4>2. line[n] # Bank!NoLine => line[n].account = n[2]
        BY <3>1, <3>2 DEF BankInv, Follows, Bank!There
      <4> QED
        BY <1>5, <3>1, <4>1, <4>2, NoLineIs
    <3>4. line[n].account \in {a, None}
      <4>1. line[n] # Bank!NoLine => line[n].account = n[2] /\ a \in {n[2], None}
        BY <3>1, <3>2 DEF BankInv, Follows, Bank!There
      <4> QED
        BY <4>1, NoLineIs, TreasuryAssumption
    <3>5. b # None
      BY TreasuryAssumption
    <3> QED
      BY <3>3, <3>4, <3>5
  <2> QED
    BY <2>1, <2>2
<1>11. \A b \in Accounts :
         /\ account'[b] \in AccountRows /\ account'[b].isDefault = account[b].isDefault /\ account'[b].archived = account[b].archived
         /\ b # a => account'[b] = account[b]
         /\ account'[a].opening = opening /\ account'[a].balance = opening + total(a)
  <2>1. opening + total(a) \in Int
    BY <1>9
  <2> HIDE DEF total
  <2> QED
    BY <1>3, <1>7, <2>1 DEF AccountRows
<1>12. Bank!BalanceFollows'
  <2> SUFFICES ASSUME NEW b \in Accounts PROVE account'[b].balance = account'[b].opening + total(b)
    BY <1>3 DEF Bank!BalanceFollows, Bank!LinesOf
  <2>1. CASE b = a
    BY <2>1, <1>11
  <2>2. CASE b # a
    <3> DEFINE g == [n \in Bank!Names |-> line[n].amount]
    <3>1. account[b].balance = account[b].opening + Bank!SumFunctionOnSet(g, {n \in Bank!Names : line[n].account = b})
      BY DEF BankInv, Bank!BalanceFollows, Bank!LinesOf
    <3>2. S(b) = {n \in Bank!Names : line[n].account = b} /\ \A n \in S(b) : lines[n] = line[n]
      BY <1>10, <2>2
    <3>3. \A n \in S(b) : f[n] \in Int /\ f[n] = g[n]
      BY <1>8, <3>2
    <3>4. IsFiniteSet(S(b))
      BY <1>8
    <3>5. Bank!SumFunctionOnSet(f, S(b)) = Bank!SumFunctionOnSet(g, S(b))
      <4> HIDE DEF f, g, S
      <4> QED
        BY <3>3, <3>4, SumSame
    <3> QED
      BY <1>11, <2>2, <3>1, <3>2, <3>5
  <2> QED
    BY <2>1, <2>2
<1> HIDE DEF total
<1>13. SweepsKept /\ DOMAIN request' = Clerks /\ \A p \in Clerks : GoodRequest(request'[p])
  BY <1>3, SameRequests DEF BankInv
<1>14. account' \in [Accounts -> AccountRows] /\ OneDefault'
  BY <1>3, <1>11 DEF BankInv, OneDefault
<1>15. BankShape'
  BY <1>3, <1>4, <1>13, <1>14, GoodStill DEF BankInv, BankShape
<1>16. Bank!LegsTogether'
  <2>1. \A m \in moved : Bank!Out \notin Bank!RecordedNames(m) /\ Bank!In \notin Bank!RecordedNames(m)
    BY <1>6, NamesAre
  <2>2. Bank!Out \in Bank!Names /\ Bank!In \in Bank!Names
    BY NamesAre
  <2> QED
    BY <1>3, <1>4, <2>1, <2>2, LegsStay DEF BankInv
<1>17. ASSUME NEW k \in Money, k \notin moved PROVE Follows(k)'
  <2>1. money[k].account # None => account'[money[k].account].opening = account[money[k].account].opening
    <3>1. money[k].account # None => money[k].account \in Accounts /\ money[k].state # "absent"
      BY <1>7, RecordableIs DEF Bank!NoMoney
    <3>2. money[k].account = a => money[k].state = "absent"
      BY <1>2, <1>17 DEF Moved
    <3> QED
      BY <1>11, <3>1, <3>2
  <2>2. \A n \in Bank!RecordedNames(k) : lines[n] = line[n]
    BY <1>4, <1>6, <1>17, NamesAre
  <2>3. \A n \in Bank!RecordedNames(k) : Bank!There(n)' <=> Bank!There(n)
    BY <1>3, <2>2 DEF Bank!There
  <2>4. Follows(k) /\ (k \in stale => k \in stale')
    BY <1>3, <1>17 DEF BankInv
  <2> QED
    BY <1>3, <2>1, <2>2, <2>3, <2>4, StillFollows
<1>18. ASSUME NEW m \in Money, m \in moved PROVE Follows(m)'
  <2>1. money[m].account = a /\ money[m].state # "absent" /\ a # None /\ money[m] \in Bank!Recordable \cup {Bank!NoMoney}
    BY <1>6, <1>7, <1>18, TreasuryAssumption
  <2>2. Bank!Opening(money[m].account)' = opening
    BY <1>3, <1>11, <2>1 DEF Bank!Opening
  <2>3. Bank!Placeable(money[m], Bank!Opening(money[m].account))' <=> Bank!Placeable(money[m], opening)
    BY <1>3, <2>2 DEF Bank!Placeable
  <2>4. \A n \in Bank!RecordedNames(m) :
           IF Bank!Placeable(money[m], opening) /\ n[2] = a
           THEN /\ lines[n] # Bank!NoLine /\ lines[n].account = a /\ lines[n].amount = money[m].amount
                /\ lines[n].on = money[m].on /\ lines[n].matched = money[m].amount
           ELSE lines[n] = Bank!NoLine
    <3> SUFFICES ASSUME NEW n \in Bank!RecordedNames(m), Bank!Placeable(money[m], opening), n[2] = a
                 PROVE  /\ lines[n] # Bank!NoLine /\ lines[n].account = a /\ lines[n].amount = money[m].amount
                        /\ lines[n].on = money[m].on /\ lines[n].matched = money[m].amount
      BY <1>5, <1>18
    <3>1. CASE lines[n] = Bank!PlacedLine(money[m])
      BY <2>1, <3>1, PlacedIs DEF Bank!Placeable, Bank!NoMoney
    <3>2. CASE lines[n] = line[n] /\ line[n] # Bank!NoLine /\ line[n].amount = money[m].amount /\ line[n].on = money[m].on
      BY <3>2 DEF BankInv, Follows, Bank!There
    <3> QED
      BY <1>5, <1>18, <3>1, <3>2
  <2>5. money[m].amount \in Nat
    BY <2>1, RecordableIs DEF Bank!NoMoney
  <2>6. \A n \in Bank!RecordedNames(m) : n = <<m, n[2]>>
    BY NamesAre
  <2>7. \A n \in Bank!RecordedNames(m) : Bank!There(n)' <=> Bank!Placeable(money[m], opening) /\ n[2] = a
    BY <1>3, <2>4 DEF Bank!There
  <2>8. \A n \in Bank!RecordedNames(m) : Bank!There(n)' =>
            /\ line'[n].account = n[2] /\ line'[n].matched = line'[n].amount
            /\ money'[m].account \in {n[2], None}
            /\ money'[m].state # "absent" /\ line'[n].amount <= money'[m].amount
    BY <1>3, <2>1, <2>4, <2>5, <2>7
  <2>9. \A k, n \in Bank!RecordedNames(m) : Bank!There(k)' /\ Bank!There(n)' => k = n
    BY <2>6, <2>7
  <2>10. \A n \in Bank!RecordedNames(m) :
             IF Bank!Placeable(money[m], Bank!Opening(money[m].account))' /\ n[2] = money'[m].account
             THEN Bank!There(n)' /\ line'[n].amount = money'[m].amount /\ line'[n].on = money'[m].on
             ELSE ~Bank!There(n)'
    BY <1>3, <2>1, <2>3, <2>4, <2>7
  <2>11. money'[m].account # None
    BY <1>3, <2>1
  <2> QED
    BY <2>8, <2>9, <2>10, <2>11 DEF Follows
<1>19. OneSweep'
  BY <1>13, SweepStays DEF BankInv
<1>20. (\A m \in Money : Follows(m))'
  BY <1>17, <1>18
<1> QED
  BY <1>12, <1>14, <1>15, <1>16, <1>19, <1>20 DEF BankInv

-----------------------------------------------------------------------------
LEMMA BankBegins ==
  ASSUME Bank!Init
  PROVE  BankInv
<1>1. /\ foreign \subseteq Accounts
      /\ account = [a \in Accounts |-> [opening |-> 0, balance |-> 0, archived |-> FALSE, isDefault |-> FALSE]]
      /\ line = [n \in Bank!Names |-> Bank!NoLine]
      /\ money = [m \in Money |-> Bank!NoMoney]
      /\ request = [r \in Clerks |-> Bank!Idle]
      /\ stale = {}
  BY DEF Bank!Init
<1>2. BankShape
  <2>1. account \in [Accounts -> AccountRows]
    BY <1>1 DEF AccountRows
  <2>2. line \in LineTable
    BY <1>1, NoLineIs DEF LineTable
  <2> QED
    BY <1>1, <2>1, <2>2, IdleIs DEF BankShape
<1>3. OneDefault
  BY <1>1 DEF OneDefault
<1>4. Bank!BalanceFollows
  <2> SUFFICES ASSUME NEW a \in Accounts
               PROVE account[a].balance = account[a].opening + Bank!SumFunctionOnSet([n \in Bank!Names |-> line[n].amount], Bank!LinesOf(a))
    BY DEF Bank!BalanceFollows
  <2>1. Bank!LinesOf(a) = {}
    BY <1>1, NoLineIs, TreasuryAssumption DEF Bank!LinesOf
  <2>2. Bank!SumFunctionOnSet([n \in Bank!Names |-> line[n].amount], {}) = 0
    BY SumEmpty
  <2> QED
    BY <1>1, <2>1, <2>2
<1>5. ASSUME NEW m \in Money PROVE Follows(m)
  <2>1. \A n \in Bank!RecordedNames(m) : ~Bank!There(n)
    BY <1>1, NamesAre DEF Bank!There
  <2>2. money[m].state = "absent"
    BY <1>1 DEF Bank!NoMoney
  <2> QED
    BY <2>1, <2>2 DEF Follows, Bank!Placeable
<1>6. OneSweep
  BY <1>1, IdleIs DEF OneSweep
<1>7. Bank!LegsTogether
  BY <1>1, NamesAre DEF Bank!LegsTogether, Bank!There
<1> QED
  BY <1>2, <1>3, <1>4, <1>5, <1>6, <1>7 DEF BankInv

LEMMA BankKeeps ==
  ASSUME BankInv, Bank!Next
  PROVE  BankInv'
<1>1. CASE Bank!Follow
  BY <1>1, RecordReadKeeps, SweepReads, DeleteMoneyKeeps, RecordWriteKeeps, PlaceRecordedKeeps, RollBackKeeps DEF Bank!Follow
<1>2. CASE Bank!Keep
  <2>1. CASE \E a \in Accounts : \E opening \in 0..(LastDay - 1) : Bank!BankAccountUpdate(a, opening)
    BY <2>1, AccountUpdateKeeps, BoundsAre
  <2>2. CASE \E a \in Accounts : \/ Bank!MakeDefault(a) \/ Bank!BankAccountAdjustBalance(a, 0)
                                 \/ Bank!BankAccountArchive(a) \/ Bank!BankAccountRestore(a)
    BY <2>2, MakeDefaultKeeps, AdjustKeeps, PutAwayKeeps
  <2>3. CASE \E r \in Clerks, a \in Accounts :
               \/ \E op \in {"by hand", "transfer"} : Bank!EnterRead(r, op, [Bank!NoLine EXCEPT !.account = a, !.amount = MaxAmount, !.on = LastDay])
               \/ Bank!BankTransferCreate(r, a)
    BY <2>3, EnteredLine, EnterReadKeeps, TransferKeeps
  <2>4. CASE \/ \E r \in Clerks : Bank!BankTransactionCreate(r)
             \/ Bank!BankTransferDelete
             \/ \E n \in Bank!Names : Bank!BankTransactionUpdate(n, 1) \/ Bank!BankTransactionDelete(n) \/ Bank!BankTransactionIgnore(n)
    BY <2>4, CreateKeeps, TransferDeleteKeeps, UpdateLineKeeps, DeleteLineKeeps, IgnoreKeeps
  <2> QED
    BY <1>2, <2>1, <2>2, <2>3, <2>4 DEF Bank!Keep
<1> QED
  BY <1>1, <1>2 DEF Bank!Next

LEMMA BankStays ==
  ASSUME BankInv, UNCHANGED bankVars
  PROVE  BankInv'
<1>1. UNCHANGED <<foreign, account, line, money, request, stale>>
  BY DEF bankVars
<1>2. SweepsKept /\ DOMAIN request' = Clerks /\ \A p \in Clerks : GoodRequest(request'[p])
  BY <1>1, SameRequests DEF BankInv
<1>3. account' \in [Accounts -> AccountRows] /\ OneDefault'
  BY <1>1 DEF BankInv, BankShape, OneDefault
<1> QED
  BY <1>1, <1>2, <1>3, LinesStay

LEMMA BankHolds ==
  ASSUME BankInv
  PROVE  Bank!TypeOK /\ Bank!BalanceFollows /\ Bank!RecordedFollows /\ Bank!LegsTogether
<1>1. Bank!TypeOK
  BY DEF Bank!TypeOK, BankInv, BankShape, OneDefault, LineTable, GoodLine, Bank!There
<1>2. ASSUME NEW m \in Money PROVE Bank!Cardinality({n \in Bank!RecordedNames(m) : Bank!There(n)}) <= 1
  <2> DEFINE T == {n \in Bank!RecordedNames(m) : Bank!There(n)}
  <2>1. \A k, n \in T : k = n
    BY DEF BankInv, Follows
  <2>0. Bank!Cardinality(T) = Cardinality(T)
    BY Zenon DEF Bank!Cardinality, Cardinality
  <2> SUFFICES Cardinality(T) <= 1
    BY <2>0
  <2> HIDE DEF T
  <2>2. CASE T = {}
    BY <2>2, FS_EmptySet
  <2>3. CASE T # {}
    <3>1. PICK n \in T : TRUE
      BY <2>3
    <3>2. T = {n}
      BY <2>1, <3>1
    <3> QED
      BY <3>2, FS_Singleton
  <2> QED
    BY <2>2, <2>3
<1>3. Bank!RecordedFollows
  BY <1>2 DEF Bank!RecordedFollows, BankInv, Follows
<1> QED
  BY <1>1, <1>3 DEF BankInv

-----------------------------------------------------------------------------
(* Seals.                                                                  *)

Digests == Seq(SUBSET Entries)
SealRows == [day : Nat, digest : Digests, previous : Digests]
SealerRows == [days : SUBSET Nat, previous : Digests, made : Seq(SealRows), at : Nat]
EntryRows == [state : {"none", "open", "written"}, day : Nat, late : BOOLEAN]

SealDays(p) == {p[i].day : i \in DOMAIN p}
Final(p) == IF p = <<>> THEN [day |-> 0, digest |-> <<>>] ELSE p[Len(p)]
Rising(p) == \A i, j \in DOMAIN p : i < j => p[i].day < p[j].day

(* What a transaction that seals is about, and the digest it began with.   *)
DueDays(q) == q.days \cup SealDays(q.made)
Base(q) == IF q.made = <<>> THEN q.previous ELSE q.made[1].previous

(* Each seal is of the digest before it and of what its day held.          *)
Linked(p, base, held) ==
    \A i \in DOMAIN p :
        /\ p[i].previous = IF i = 1 THEN base ELSE p[i - 1].digest
        /\ p[i].digest = Seals!SealDigest(p[i].previous, held[p[i].day])

(* A transaction seals days that are written and over, in order.           *)
Ordered(q, written, now) ==
    /\ DueDays(q) \subseteq written
    /\ \A d \in DueDays(q) : q.at <= d /\ d < now
    /\ Rising(q.made)
    /\ \A d \in SealDays(q.made), x \in q.days : d < x
    /\ IF q.at > 0 THEN DueDays(q) # {} ELSE q = Seals!Resting
    /\ q.made # <<>> => q.previous = q.made[Len(q.made)].digest

(* It follows the last seal, or has a day that is sealed and cannot go on. *)
Recent(q, p) ==
    /\ q.at <= Final(p).day + 1
    /\ q.at > 0 => \/ q.at = Final(p).day + 1 /\ Base(q) = Final(p).digest
                   \/ q.days \cap SealDays(p) # {}

(* Two insert no seal of the same day, and of two that have read the same  *)
(* last seal one is about all that the other is.                           *)
Apart(k) == \A s, t \in Clerks : SealDays(k[s].made) \cap SealDays(k[t].made) # {} => s = t
Nesting(k) ==
    \A s, t \in Clerks : k[s].at = k[t].at => DueDays(k[s]) \subseteq DueDays(k[t]) \/ DueDays(k[t]) \subseteq DueDays(k[s])

(* Nothing is left out, and every digest is that of its day.               *)
Whole(q, written, held) ==
    /\ Linked(q.made, Base(q), held)
    /\ \A d \in DueDays(q), x \in written : q.at <= x /\ x < d => x \in DueDays(q)
Chain(p, written, held) ==
    /\ Linked(p, <<>>, held)
    /\ \A x \in written : x <= Final(p).day => x \in SealDays(p)

WrittenDays == Seals!DaysOf(Seals!Written)
Held == [d \in Nat |-> Seals!DayEntries(d)]
NoneLate == \A e \in Seals!Written : ~entry[e].late

SealShape ==
    /\ today \in 1..SealsLastDay
    /\ entry \in [Entries -> EntryRows]
    /\ \A e \in Entries : entry[e].state # "none" => entry[e].day \in 1..today
    /\ seal \in Seq(SealRows)
    /\ sealer \in [Clerks -> SealerRows]

SealInv ==
    /\ SealShape
    /\ Rising(seal) /\ \A d \in SealDays(seal) : d < today
    /\ Apart(sealer) /\ Nesting(sealer)
    /\ \A s \in Clerks : Ordered(sealer[s], WrittenDays, today) /\ Recent(sealer[s], seal)
    /\ NoneLate => Chain(seal, WrittenDays, Held) /\ \A s \in Clerks : Whole(sealer[s], WrittenDays, Held)

-----------------------------------------------------------------------------
LEMMA SealBounds == SealsLastDay \in Nat /\ SealsLastDay >= 1
BY TreasuryAssumption

LEMMA FinalIs ==
  ASSUME NEW p \in Seq(SealRows), Rising(p)
  PROVE  /\ Final(p).day \in Nat /\ Final(p).digest \in Digests
         /\ \A d \in SealDays(p) : d <= Final(p).day
         /\ p # <<>> => Final(p) = p[Len(p)] /\ Len(p) \in DOMAIN p /\ Final(p).day \in SealDays(p)
         /\ p = <<>> => Final(p).day = 0 /\ Final(p).digest = <<>> /\ SealDays(p) = {}
<1>1. CASE p = <<>>
  <2>1. SealDays(p) = {}
    BY <1>1 DEF SealDays
  <2> QED
    BY <1>1, <2>1 DEF Final, Digests
<1>2. CASE p # <<>>
  <2>1. Len(p) \in DOMAIN p /\ DOMAIN p = 1..Len(p) /\ Len(p) \in Nat
    BY <1>2
  <2>2. \A i \in DOMAIN p : p[i] \in SealRows
    BY <2>1
  <2>3. Final(p) = p[Len(p)]
    BY <1>2 DEF Final
  <2>4. \A i \in DOMAIN p : p[i].day <= p[Len(p)].day
    <3> SUFFICES ASSUME NEW i \in DOMAIN p PROVE p[i].day <= p[Len(p)].day
      OBVIOUS
    <3>1. p[i].day \in Nat /\ p[Len(p)].day \in Nat
      BY <2>1, <2>2 DEF SealRows
    <3>2. i = Len(p) \/ i < Len(p)
      BY <2>1
    <3> QED
      BY <2>1, <3>1, <3>2 DEF Rising
  <2> QED
    BY <1>2, <2>1, <2>2, <2>3, <2>4 DEF SealDays, SealRows
<1> QED
  BY <1>1, <1>2

LEMMA RestingIs ==
  ASSUME NEW written, NEW now, NEW held, NEW p \in Seq(SealRows), Rising(p)
  PROVE  /\ Seals!Resting \in SealerRows /\ Seals!Resting.at = 0 /\ Seals!Resting.made = <<>>
         /\ DueDays(Seals!Resting) = {} /\ SealDays(Seals!Resting.made) = {}
         /\ Ordered(Seals!Resting, written, now) /\ Recent(Seals!Resting, p) /\ Whole(Seals!Resting, written, held)
<1>1. Seals!Resting \in SealerRows /\ Seals!Resting.at = 0 /\ Seals!Resting.made = <<>> /\ Seals!Resting.days = {}
  <2>1. <<>> \in Digests /\ <<>> \in Seq(SealRows)
    BY DEF Digests
  <2> QED
    BY <2>1 DEF Seals!Resting, SealerRows
<1>2. DueDays(Seals!Resting) = {} /\ SealDays(Seals!Resting.made) = {}
  BY <1>1 DEF DueDays, SealDays
<1>3. Ordered(Seals!Resting, written, now)
  BY <1>1, <1>2 DEF Ordered, Rising
<1>4. Recent(Seals!Resting, p)
  BY <1>1, FinalIs DEF Recent
<1>5. Whole(Seals!Resting, written, held)
  BY <1>1, <1>2 DEF Whole, Linked
<1> QED
  BY <1>1, <1>2, <1>3, <1>4, <1>5

LEMMA DaysAreNumbers ==
  ASSUME SealShape
  PROVE  WrittenDays \subseteq Nat /\ \A d \in Nat : Held[d] \in SUBSET Entries
BY DEF SealShape, EntryRows, WrittenDays, Seals!DaysOf, Seals!Written, Held, Seals!DayEntries

LEMMA DaysOfSeals ==
  ASSUME NEW p \in Seq(SealRows)
  PROVE  SealDays(p) \subseteq Nat
<1>1. \A i \in DOMAIN p : p[i] \in SealRows
  OBVIOUS
<1> QED
  BY <1>1 DEF SealDays, SealRows

LEMMA SealerIs ==
  ASSUME NEW q \in SealerRows
  PROVE  /\ q.days \subseteq Nat /\ q.previous \in Digests /\ q.made \in Seq(SealRows) /\ q.at \in Nat
         /\ SealDays(q.made) \subseteq Nat /\ DueDays(q) \subseteq Nat
<1>1. q.days \subseteq Nat /\ q.previous \in Digests /\ q.made \in Seq(SealRows) /\ q.at \in Nat
  BY DEF SealerRows
<1>2. SealDays(q.made) \subseteq Nat
  BY <1>1, DaysOfSeals
<1> QED
  BY <1>1, <1>2 DEF DueDays

-----------------------------------------------------------------------------
(* The steps of sealing.                                                   *)

(* One transaction goes on.                                                *)
LEMMA OneSealer ==
  ASSUME SealInv, NEW s \in Clerks, NEW q \in SealerRows, sealer' = [sealer EXCEPT ![s] = q],
         UNCHANGED <<today, entry, seal>>,
         Ordered(q, WrittenDays, today), Recent(q, seal),
         \A t \in Clerks : t # s => SealDays(q.made) \cap SealDays(sealer[t].made) = {},
         \A t \in Clerks : t # s /\ q.at = sealer[t].at => DueDays(q) \subseteq DueDays(sealer[t]) \/ DueDays(sealer[t]) \subseteq DueDays(q),
         NoneLate => Whole(q, WrittenDays, Held)
  PROVE  SealInv'
<1>1. WrittenDays' = WrittenDays /\ Held' = Held /\ (NoneLate' <=> NoneLate)
  BY DEF WrittenDays, Held, NoneLate, Seals!DaysOf, Seals!Written, Seals!DayEntries
<1>2. sealer'[s] = q /\ \A t \in Clerks : t # s => sealer'[t] = sealer[t]
  BY DEF SealInv, SealShape
<1>3. SealShape'
  BY DEF SealInv, SealShape
<1>4. Apart(sealer')
  BY <1>2 DEF SealInv, Apart
<1>5. Nesting(sealer')
  BY <1>2 DEF SealInv, Nesting
<1>6. \A t \in Clerks : Ordered(sealer'[t], WrittenDays', today') /\ Recent(sealer'[t], seal')
  BY <1>1, <1>2 DEF SealInv
<1>7. NoneLate' => \A t \in Clerks : Whole(sealer'[t], WrittenDays', Held')
  BY <1>1, <1>2 DEF SealInv
<1>8. NoneLate' => Chain(seal', WrittenDays', Held')
  BY <1>1 DEF SealInv
<1>9. Rising(seal') /\ \A d \in SealDays(seal') : d < today'
  BY DEF SealInv
<1> QED
  BY <1>3, <1>4, <1>5, <1>6, <1>7, <1>8, <1>9 DEF SealInv

LEMMA SealRollsBack ==
  ASSUME SealInv, NEW s \in Clerks, Seals!RollBack(s)
  PROVE  SealInv'
<1>1. sealer' = [sealer EXCEPT ![s] = Seals!Resting] /\ UNCHANGED <<today, entry, seal>>
  BY DEF Seals!RollBack
<1>2. seal \in Seq(SealRows) /\ Rising(seal)
  BY DEF SealInv, SealShape
<1> QED
  BY <1>1, <1>2, RestingIs, OneSealer

LEMMA AuditLogReads ==
  ASSUME SealInv, NEW s \in Clerks, Seals!SealAuditLog(s)
  PROVE  SealInv'
<1>1. PICK last : last = Final(seal)
  OBVIOUS
<1>2. PICK due : due = {d \in WrittenDays : d > last.day /\ d < today}
  OBVIOUS
<1> DEFINE q == [days |-> due, previous |-> last.digest, made |-> <<>>, at |-> last.day + 1]
<1>3. due # {} /\ sealer' = [sealer EXCEPT ![s] = q] /\ UNCHANGED <<today, entry, seal>>
  BY <1>1, <1>2 DEF Seals!SealAuditLog, Seals!Last, Seals!Over, Final, WrittenDays
<1>4. seal \in Seq(SealRows) /\ Rising(seal) /\ WrittenDays \subseteq Nat /\ today \in Nat
  BY DaysAreNumbers DEF SealInv, SealShape
<1>5. last.day \in Nat /\ last.digest \in Digests
  BY <1>1, <1>4, FinalIs
<1>6. due \subseteq WrittenDays /\ due \subseteq Nat /\ \A d \in WrittenDays : d \in due <=> last.day + 1 <= d /\ d < today
  <2>1. due \subseteq WrittenDays /\ due \subseteq Nat
    BY <1>2, <1>4
  <2>2. ASSUME NEW d \in WrittenDays PROVE d \in due <=> last.day + 1 <= d /\ d < today
    <3>1. d \in due <=> d > last.day /\ d < today
      BY <1>2
    <3>2. d \in Nat
      BY <1>4
    <3> QED
      BY <1>5, <3>1, <3>2
  <2> QED
    BY <2>1, <2>2
<1>7. q \in SealerRows /\ q.days = due /\ q.previous = last.digest /\ q.made = <<>> /\ q.at = last.day + 1
  <2>1. <<>> \in Seq(SealRows) /\ last.day + 1 \in Nat
    BY <1>5
  <2> QED
    BY <1>5, <1>6, <2>1 DEF SealerRows
<1> HIDE DEF q
<1>8. SealDays(q.made) = {} /\ DueDays(q) = due /\ Base(q) = last.digest
  BY <1>7 DEF SealDays, DueDays, Base
<1>9. Ordered(q, WrittenDays, today)
  <2>1. Rising(q.made)
    BY <1>7 DEF Rising
  <2>2. \A d \in due : q.at <= d /\ d < today
    BY <1>6, <1>7
  <2>3. q.at > 0
    BY <1>5, <1>7
  <2> QED
    BY <1>3, <1>6, <1>7, <1>8, <2>1, <2>2, <2>3 DEF Ordered
<1>10. Recent(q, seal)
  BY <1>1, <1>5, <1>7, <1>8 DEF Recent
<1>11. ASSUME NEW t \in Clerks, q.at = sealer[t].at PROVE DueDays(sealer[t]) \subseteq DueDays(q)
  <2>1. Ordered(sealer[t], WrittenDays, today)
    BY DEF SealInv
  <2>2. \A d \in DueDays(sealer[t]) : d \in WrittenDays /\ last.day + 1 <= d /\ d < today
    BY <1>7, <1>11, <2>1 DEF Ordered
  <2> QED
    BY <1>6, <1>8, <2>2
<1>12. Whole(q, WrittenDays, Held)
  <2>1. Linked(q.made, Base(q), Held)
    BY <1>7 DEF Linked
  <2>2. ASSUME NEW d \in due, NEW x \in WrittenDays, q.at <= x, x < d PROVE x \in due
    <3>1. d < today /\ d \in Nat /\ x \in Nat
      BY <1>4, <1>6
    <3> QED
      BY <1>4, <1>6, <1>7, <2>2, <3>1
  <2> QED
    BY <1>8, <2>1, <2>2 DEF Whole
<1> QED
  BY <1>3, <1>7, <1>8, <1>9, <1>10, <1>11, <1>12, OneSealer

LEMMA OneMore ==
  ASSUME NEW p \in Seq(SealRows), NEW x \in SealRows
  PROVE  /\ Append(p, x) \in Seq(SealRows) /\ Append(p, x) # <<>> /\ Len(Append(p, x)) = Len(p) + 1
         /\ DOMAIN Append(p, x) = 1..(Len(p) + 1) /\ DOMAIN p = 1..Len(p) /\ Len(p) \in Nat
         /\ \A i \in 1..Len(p) : Append(p, x)[i] = p[i]
         /\ Append(p, x)[Len(p) + 1] = x
         /\ SealDays(Append(p, x)) = SealDays(p) \cup {x.day}
<1> DEFINE a == Append(p, x)
<1>1. a \in Seq(SealRows) /\ a # <<>> /\ Len(a) = Len(p) + 1
  <2>1. a \in Seq(SealRows) /\ Len(a) = Len(p) + 1 /\ Len(p) \in Nat
    OBVIOUS
  <2> HIDE DEF a
  <2> QED
    BY <2>1
<1>2. DOMAIN a = 1..(Len(p) + 1) /\ DOMAIN p = 1..Len(p) /\ Len(p) \in Nat
  OBVIOUS
<1>3. (\A i \in 1..Len(p) : a[i] = p[i]) /\ a[Len(p) + 1] = x
  OBVIOUS
<1> HIDE DEF a
<1>4. \A i \in 1..(Len(p) + 1) : i \in 1..Len(p) \/ i = Len(p) + 1
  BY <1>2
<1>5. \A i \in 1..Len(p) : i \in 1..(Len(p) + 1)
  BY <1>2
<1>6. Len(p) + 1 \in 1..(Len(p) + 1)
  BY <1>2
<1>7. SealDays(a) = SealDays(p) \cup {x.day}
  BY <1>2, <1>3, <1>4, <1>5, <1>6 DEF SealDays
<1> QED
  BY <1>1, <1>2, <1>3, <1>7 DEF a

LEMMA LeastIs ==
  ASSUME NEW T, T \subseteq Nat, T # {}
  PROVE  Seals!Least(T) \in T /\ \A x \in T : Seals!Least(T) <= x
<1>1. \E d \in T : \A x \in T : d <= x
  BY LeastNumber
<1> QED
  BY <1>1, Zenon DEF Seals!Least

(* The least of the days that are left is sealed.                          *)
LEMMA SealDayKeeps ==
  ASSUME SealInv, NEW s \in Clerks, Seals!SealDay(s)
  PROVE  SealInv'
<1>1. PICK q0 : q0 = sealer[s]
  OBVIOUS
<1>2. PICK d : d = Seals!Least(q0.days)
  OBVIOUS
<1>3. PICK dig : dig = Seals!SealDigest(q0.previous, Seals!DayEntries(d))
  OBVIOUS
<1> DEFINE x == [day |-> d, digest |-> dig, previous |-> q0.previous]
           q == [q0 EXCEPT !.days = q0.days \ {d}, !.previous = dig, !.made = Append(q0.made, x)]
<1>4. q0 \in SealerRows /\ q0.days # {} /\ q0.days \subseteq Nat /\ q0.previous \in Digests /\ q0.made \in Seq(SealRows) /\ q0.at \in Nat
      /\ SealDays(q0.made) \subseteq Nat /\ DueDays(q0) \subseteq Nat
  <2>1. q0 \in SealerRows /\ q0.days # {}
    BY <1>1 DEF SealInv, SealShape, Seals!SealDay
  <2> QED
    BY <2>1, SealerIs
<1>5. d \in q0.days /\ d \in Nat /\ \A y \in q0.days : d <= y
  BY <1>2, <1>4, LeastIs
<1>6. Seals!DayEntries(d) \in SUBSET Entries /\ Held[d] = Seals!DayEntries(d)
  BY <1>5 DEF Held, Seals!DayEntries, Seals!Written
<1>7. dig \in Digests
  BY <1>3, <1>4, <1>6 DEF Digests, Seals!SealDigest
<1>8. x \in SealRows /\ x.day = d /\ x.digest = dig /\ x.previous = q0.previous
  BY <1>4, <1>5, <1>7 DEF SealRows
<1>9. Seals!DayKey(d) /\ UNCHANGED <<today, entry, seal>>
  BY <1>1, <1>2 DEF Seals!SealDay
<1>10. sealer' = [sealer EXCEPT ![s] = q]
  <2>1. sealer' = [sealer EXCEPT ![s].days = @ \ {d}, ![s].previous = dig, ![s].made = Append(@, x)]
    BY <1>1, <1>2, <1>3 DEF Seals!SealDay
  <2>2. sealer \in [Clerks -> SealerRows]
    BY DEF SealInv, SealShape
  <2> HIDE DEF x
  <2> QED
    BY <1>1, <2>1, <2>2
<1> HIDE DEF x
<1>11. q \in SealerRows /\ q.days = q0.days \ {d} /\ q.previous = dig /\ q.made = Append(q0.made, x) /\ q.at = q0.at
  BY <1>4, <1>7, <1>8, OneMore DEF SealerRows
<1> HIDE DEF q
<1>12. /\ q.made # <<>> /\ Len(q.made) = Len(q0.made) + 1
       /\ DOMAIN q.made = 1..(Len(q0.made) + 1) /\ DOMAIN q0.made = 1..Len(q0.made) /\ Len(q0.made) \in Nat
       /\ \A i \in 1..Len(q0.made) : q.made[i] = q0.made[i]
       /\ q.made[Len(q0.made) + 1] = x
       /\ SealDays(q.made) = SealDays(q0.made) \cup {d}
  BY <1>4, <1>8, <1>11, OneMore
<1>13. DueDays(q) = DueDays(q0)
  BY <1>5, <1>11, <1>12 DEF DueDays
<1>14. Ordered(q0, WrittenDays, today) /\ Recent(q0, seal)
  BY <1>1 DEF SealInv
<1>15. Base(q) = Base(q0)
  <2>1. CASE q0.made = <<>>
    BY <1>8, <1>12, <2>1 DEF Base
  <2>2. CASE q0.made # <<>>
    <3>1. 1 \in 1..Len(q0.made)
      BY <1>4, <2>2
    <3> QED
      BY <1>12, <2>2, <3>1 DEF Base
  <2> QED
    BY <2>1, <2>2
<1>16. \A y \in SealDays(q0.made) : y < d
  BY <1>5, <1>14 DEF Ordered
<1>17. Ordered(q, WrittenDays, today)
  <2>1. Rising(q.made)
    <3> SUFFICES ASSUME NEW i \in DOMAIN q.made, NEW j \in DOMAIN q.made, i < j PROVE q.made[i].day < q.made[j].day
      BY DEF Rising
    <3>1. i \in 1..Len(q0.made)
      BY <1>12
    <3>2. CASE j \in 1..Len(q0.made)
      BY <1>12, <1>14, <3>1, <3>2 DEF Ordered, Rising
    <3>3. CASE j = Len(q0.made) + 1
      <4>1. q0.made[i].day \in SealDays(q0.made)
        BY <1>12, <3>1 DEF SealDays
      <4> QED
        BY <1>8, <1>12, <1>16, <3>1, <3>3, <4>1
    <3> QED
      BY <1>12, <3>2, <3>3
  <2>2. \A y \in SealDays(q.made), z \in q.days : y < z
    <3> SUFFICES ASSUME NEW y \in SealDays(q.made), NEW z \in q.days PROVE y < z
      OBVIOUS
    <3>1. z \in q0.days /\ z # d /\ z \in Nat
      BY <1>4, <1>11
    <3>2. y \in SealDays(q0.made) \/ y = d
      BY <1>12
    <3> QED
      BY <1>5, <1>14, <3>1, <3>2 DEF Ordered
  <2>3. q.made[Len(q.made)].digest = q.previous
    BY <1>8, <1>11, <1>12
  <2>4. q.at > 0
    <3> SUFFICES ASSUME ~(q0.at > 0) PROVE FALSE
      BY <1>11
    <3>1. q0.days = {}
      BY <1>14 DEF Ordered, Seals!Resting
    <3> QED
      BY <1>4, <3>1
  <2>5. DueDays(q) # {}
    BY <1>5, <1>13 DEF DueDays
  <2> QED
    BY <1>11, <1>13, <1>14, <2>1, <2>2, <2>3, <2>4, <2>5 DEF Ordered
<1>18. d \notin SealDays(seal) /\ \A t \in Clerks : d \notin SealDays(sealer[t].made)
  BY <1>9 DEF Seals!DayKey, SealDays
<1>19. Recent(q, seal)
  BY <1>11, <1>14, <1>15, <1>18 DEF Recent
<1>20. \A t \in Clerks : t # s => SealDays(q.made) \cap SealDays(sealer[t].made) = {}
  BY <1>1, <1>12, <1>18 DEF SealInv, Apart
<1>21. \A t \in Clerks : t # s /\ q.at = sealer[t].at => DueDays(q) \subseteq DueDays(sealer[t]) \/ DueDays(sealer[t]) \subseteq DueDays(q)
  BY <1>1, <1>11, <1>13 DEF SealInv, Nesting
<1>22. ASSUME NoneLate PROVE Whole(q, WrittenDays, Held)
  <2>1. Whole(q0, WrittenDays, Held)
    BY <1>1, <1>22 DEF SealInv
  <2>2. Linked(q.made, Base(q), Held)
    <3> SUFFICES ASSUME NEW i \in DOMAIN q.made
                 PROVE  /\ q.made[i].previous = IF i = 1 THEN Base(q) ELSE q.made[i - 1].digest
                        /\ q.made[i].digest = Seals!SealDigest(q.made[i].previous, Held[q.made[i].day])
      BY DEF Linked
    <3>1. CASE i \in 1..Len(q0.made)
      <4>1. i # 1 => i - 1 \in 1..Len(q0.made)
        BY <1>12, <3>1
      <4> QED
        BY <1>12, <1>15, <2>1, <3>1, <4>1 DEF Whole, Linked
    <3>2. CASE i = Len(q0.made) + 1
      <4>1. q.made[i].digest = Seals!SealDigest(q.made[i].previous, Held[q.made[i].day])
        BY <1>3, <1>6, <1>8, <1>12, <3>2
      <4>2. CASE q0.made = <<>>
        <5>1. i = 1 /\ Base(q) = q0.previous
          BY <1>4, <1>15, <3>2, <4>2 DEF Base
        <5> QED
          BY <1>8, <1>12, <3>2, <4>1, <5>1
      <4>3. CASE q0.made # <<>>
        <5>1. i # 1 /\ i - 1 = Len(q0.made) /\ i - 1 \in 1..Len(q0.made)
          BY <1>4, <1>12, <3>2, <4>3
        <5>2. q0.previous = q0.made[Len(q0.made)].digest
          BY <1>14, <4>3 DEF Ordered
        <5> QED
          BY <1>8, <1>12, <3>2, <4>1, <5>1, <5>2
      <4> QED
        BY <4>2, <4>3
    <3> QED
      BY <1>12, <3>1, <3>2
  <2> QED
    BY <1>11, <1>13, <2>1, <2>2 DEF Whole
<1> QED
  BY <1>9, <1>10, <1>11, <1>17, <1>19, <1>20, <1>21, <1>22, OneSealer

-----------------------------------------------------------------------------
(* What a transaction has inserted follows the seals that were there.      *)
LEMMA JoinedIs ==
  ASSUME NEW p \in Seq(SealRows), NEW m \in Seq(SealRows), m # <<>>
  PROVE  /\ p \o m \in Seq(SealRows) /\ p \o m # <<>>
         /\ Len(p) \in Nat /\ Len(m) \in Nat \ {0} /\ Len(p \o m) = Len(p) + Len(m)
         /\ DOMAIN (p \o m) = 1..(Len(p) + Len(m)) /\ DOMAIN p = 1..Len(p) /\ DOMAIN m = 1..Len(m)
         /\ \A i \in 1..(Len(p) + Len(m)) :
               \/ i \in 1..Len(p) /\ (p \o m)[i] = p[i]
               \/ i - Len(p) \in 1..Len(m) /\ (p \o m)[i] = m[i - Len(p)] /\ i \notin 1..Len(p)
         /\ SealDays(p \o m) = SealDays(p) \cup SealDays(m)
         /\ Final(p \o m) = m[Len(m)]
<1> DEFINE a == p \o m
<1>1. a \in Seq(SealRows) /\ Len(p) \in Nat /\ Len(m) \in Nat \ {0} /\ Len(a) = Len(p) + Len(m)
  OBVIOUS
<1>2. DOMAIN a = 1..(Len(p) + Len(m)) /\ DOMAIN p = 1..Len(p) /\ DOMAIN m = 1..Len(m)
  OBVIOUS
<1>3. \A i \in 1..(Len(p) + Len(m)) : a[i] = IF i <= Len(p) THEN p[i] ELSE m[i - Len(p)]
  OBVIOUS
<1> HIDE DEF a
<1>4. \A i \in 1..(Len(p) + Len(m)) :
               \/ i \in 1..Len(p) /\ a[i] = p[i]
               \/ i - Len(p) \in 1..Len(m) /\ a[i] = m[i - Len(p)] /\ i \notin 1..Len(p)
  BY <1>1, <1>3
<1>5. \A i \in 1..Len(p) : i \in 1..(Len(p) + Len(m)) /\ a[i] = p[i]
  BY <1>1, <1>3
<1>6. \A i \in 1..Len(m) : i + Len(p) \in 1..(Len(p) + Len(m)) /\ a[i + Len(p)] = m[i]
  <2> SUFFICES ASSUME NEW i \in 1..Len(m) PROVE i + Len(p) \in 1..(Len(p) + Len(m)) /\ a[i + Len(p)] = m[i]
    OBVIOUS
  <2>1. i + Len(p) \in 1..(Len(p) + Len(m)) /\ ~(i + Len(p) <= Len(p)) /\ (i + Len(p)) - Len(p) = i
    BY <1>1
  <2> QED
    BY <1>3, <2>1
<1>7. SealDays(a) = SealDays(p) \cup SealDays(m)
  BY <1>2, <1>4, <1>5, <1>6 DEF SealDays
<1>8. a # <<>>
  BY <1>1
<1>9. Final(a) = m[Len(m)]
  <2>1. a[Len(a)] = m[Len(m)]
    BY <1>1, <1>6
  <2> QED
    BY <1>8, <2>1 DEF Final
<1> QED
  BY <1>1, <1>2, <1>4, <1>7, <1>8, <1>9 DEF a

LEMMA JoinedLinked ==
  ASSUME NEW p \in Seq(SealRows), NEW m \in Seq(SealRows), m # <<>>, NEW held,
         Linked(p, <<>>, held), Linked(m, Final(p).digest, held)
  PROVE  Linked(p \o m, <<>>, held)
<1> DEFINE a == p \o m
<1>1. /\ Len(p) \in Nat /\ Len(m) \in Nat \ {0}
      /\ DOMAIN a = 1..(Len(p) + Len(m)) /\ DOMAIN p = 1..Len(p) /\ DOMAIN m = 1..Len(m)
      /\ \A i \in 1..(Len(p) + Len(m)) :
               \/ i \in 1..Len(p) /\ a[i] = p[i]
               \/ i - Len(p) \in 1..Len(m) /\ a[i] = m[i - Len(p)] /\ i \notin 1..Len(p)
  BY JoinedIs
<1> HIDE DEF a
<1> SUFFICES ASSUME NEW i \in DOMAIN a
             PROVE  /\ a[i].previous = IF i = 1 THEN <<>> ELSE a[i - 1].digest
                    /\ a[i].digest = Seals!SealDigest(a[i].previous, held[a[i].day])
  BY DEF Linked, a
<1>2. CASE i \in 1..Len(p)
  <2>1. a[i] = p[i]
    BY <1>1, <1>2
  <2>2. i # 1 => i - 1 \in 1..Len(p) /\ i - 1 \in 1..(Len(p) + Len(m)) /\ a[i - 1] = p[i - 1]
    <3> SUFFICES ASSUME i # 1 PROVE i - 1 \in 1..Len(p) /\ i - 1 \in 1..(Len(p) + Len(m)) /\ a[i - 1] = p[i - 1]
      OBVIOUS
    <3>1. i - 1 \in 1..Len(p) /\ i - 1 \in 1..(Len(p) + Len(m))
      BY <1>1, <1>2
    <3> QED
      BY <1>1, <3>1
  <2> QED
    BY <1>1, <1>2, <2>1, <2>2 DEF Linked
<1>3. CASE i \notin 1..Len(p)
  <2>1. PICK j \in 1..Len(m) : j = i - Len(p) /\ i = j + Len(p) /\ a[i] = m[j]
    BY <1>1, <1>3
  <2>2. /\ m[j].previous = IF j = 1 THEN Final(p).digest ELSE m[j - 1].digest
        /\ m[j].digest = Seals!SealDigest(m[j].previous, held[m[j].day])
    BY <1>1 DEF Linked
  <2>3. CASE j = 1 /\ p = <<>>
    <3>1. i = 1 /\ Final(p).digest = <<>>
      <4>1. Len(p) = 0
        BY <2>3
      <4> QED
        BY <1>1, <2>1, <2>3, <4>1 DEF Final
    <3> QED
      BY <2>1, <2>2, <2>3, <3>1
  <2>4. CASE j = 1 /\ p # <<>>
    <3>0. Len(p) # 0 /\ Len(p) \in Nat /\ Len(m) \in Nat \ {0} /\ i = 1 + Len(p)
      <4>1. Len(p) # 0
        BY <2>4
      <4> QED
        BY <1>1, <2>1, <2>4, <4>1
    <3>1. i # 1 /\ i - 1 = Len(p) /\ i - 1 \in 1..Len(p) /\ i - 1 \in 1..(Len(p) + Len(m))
      BY ONLY <3>0
    <3>2. a[i - 1] = p[Len(p)]
      BY <1>1, <3>1
    <3> QED
      BY <2>1, <2>2, <2>4, <3>1, <3>2 DEF Final
  <2>5. CASE j # 1
    <3>1. i # 1 /\ i - 1 \in 1..(Len(p) + Len(m)) /\ i - 1 \notin 1..Len(p) /\ (i - 1) - Len(p) = j - 1
      BY <1>1, <2>1, <2>5
    <3>2. a[i - 1] = m[j - 1]
      BY <1>1, <3>1
    <3> QED
      BY <2>1, <2>2, <2>5, <3>1, <3>2
  <2> QED
    BY <2>3, <2>4, <2>5
<1> QED
  BY <1>2, <1>3

(* A transaction that has inserted a seal of every day it read commits.    *)
LEMMA SealsCommit ==
  ASSUME SealInv, NEW s \in Clerks, Seals!Commit(s)
  PROVE  SealInv'
<1>1. PICK q : q = sealer[s]
  OBVIOUS
<1>2. PICK p : p = seal
  OBVIOUS
<1>3. PICK k : k = sealer
  OBVIOUS
<1>4. PICK m : m = q.made
  OBVIOUS
<1>5. /\ q.at > 0 /\ q.days = {} /\ seal' = p \o m /\ sealer' = [sealer EXCEPT ![s] = Seals!Resting]
      /\ UNCHANGED <<today, entry>>
  BY <1>1, <1>2, <1>4 DEF Seals!Commit, Seals!Sealing
<1>6. /\ q \in SealerRows /\ p \in Seq(SealRows) /\ Rising(p) /\ today \in Nat /\ WrittenDays \subseteq Nat
      /\ \A d \in SealDays(p) : d < today
  BY <1>1, <1>2, DaysAreNumbers DEF SealInv, SealShape
<1>7. m \in Seq(SealRows) /\ SealDays(m) \subseteq Nat /\ q.at \in Nat
  BY <1>4, <1>6, SealerIs
<1>8. Ordered(q, WrittenDays, today) /\ Recent(q, p)
  BY <1>1, <1>2 DEF SealInv
<1>9. DueDays(q) = SealDays(m) /\ SealDays(m) # {} /\ m # <<>>
  <2>1. DueDays(q) = SealDays(m)
    BY <1>4, <1>5 DEF DueDays
  <2>2. SealDays(m) # {}
    BY <1>5, <1>8, <2>1 DEF Ordered
  <2> QED
    BY <2>1, <2>2 DEF SealDays
<1>10. Rising(m) /\ \A d \in SealDays(m) : q.at <= d /\ d < today /\ d \in WrittenDays
  BY <1>4, <1>8, <1>9 DEF Ordered
<1>11. q.at = Final(p).day + 1 /\ m[1].previous = Final(p).digest
  BY <1>4, <1>5, <1>8, <1>9 DEF Recent, Base
<1>12. /\ Final(p).day \in Nat /\ \A d \in SealDays(p) : d <= Final(p).day
  BY <1>6, FinalIs
<1> DEFINE a == p \o m
<1>13. /\ a \in Seq(SealRows)
       /\ Len(p) \in Nat /\ Len(m) \in Nat \ {0}
       /\ DOMAIN a = 1..(Len(p) + Len(m)) /\ DOMAIN p = 1..Len(p) /\ DOMAIN m = 1..Len(m)
       /\ \A i \in 1..(Len(p) + Len(m)) :
               \/ i \in 1..Len(p) /\ a[i] = p[i]
               \/ i - Len(p) \in 1..Len(m) /\ a[i] = m[i - Len(p)] /\ i \notin 1..Len(p)
       /\ SealDays(a) = SealDays(p) \cup SealDays(m)
       /\ Final(a) = m[Len(m)]
  BY <1>6, <1>7, <1>9, JoinedIs
<1> HIDE DEF a
<1>14. Final(m) = m[Len(m)] /\ Final(m).day \in SealDays(m) /\ \A d \in SealDays(m) : d <= Final(m).day
  BY <1>7, <1>9, <1>10, FinalIs
<1>15. Final(a).day \in Nat /\ Final(a).day \in SealDays(m) /\ Final(a).day > Final(p).day
  BY <1>7, <1>10, <1>11, <1>12, <1>13, <1>14
<1>16. Rising(a)
  <2> SUFFICES ASSUME NEW i \in DOMAIN a, NEW j \in DOMAIN a, i < j PROVE a[i].day < a[j].day
    BY DEF Rising
  <2>1. CASE i \in 1..Len(p) /\ j \in 1..Len(p)
    BY <1>6, <1>13, <2>1 DEF Rising
  <2>2. CASE i \in 1..Len(p) /\ j \notin 1..Len(p)
    <3>1. a[i].day \in SealDays(p) /\ a[i].day <= Final(p).day
      BY <1>12, <1>13, <2>2 DEF SealDays
    <3>2. a[j].day \in SealDays(m) /\ Final(p).day < a[j].day
      <4>1. a[j].day \in SealDays(m)
        BY <1>13, <2>2 DEF SealDays
      <4> QED
        BY <1>7, <1>10, <1>11, <1>12, <4>1
    <3>3. a[i].day \in Nat /\ a[j].day \in Nat
      BY <1>6, <1>7, <3>1, <3>2, DaysOfSeals
    <3> QED
      BY <1>12, <3>1, <3>2, <3>3
  <2>3. CASE i \notin 1..Len(p)
    <3>1. j \notin 1..Len(p)
      BY <1>13, <2>3
    <3>2. i - Len(p) \in 1..Len(m) /\ a[i] = m[i - Len(p)] /\ j - Len(p) \in 1..Len(m) /\ a[j] = m[j - Len(p)]
      BY <1>13, <2>3, <3>1
    <3>3. i - Len(p) < j - Len(p)
      BY <1>13
    <3> QED
      BY <1>10, <1>13, <3>2, <3>3 DEF Rising
  <2> QED
    BY <2>1, <2>2, <2>3
<1>17. \A d \in SealDays(a) : d < today
  BY <1>6, <1>10, <1>13
<1>18. /\ Seals!Resting \in SealerRows /\ Seals!Resting.at = 0 /\ DueDays(Seals!Resting) = {} /\ SealDays(Seals!Resting.made) = {}
       /\ Ordered(Seals!Resting, WrittenDays, today) /\ Recent(Seals!Resting, a) /\ Whole(Seals!Resting, WrittenDays, Held)
  BY <1>13, <1>16, RestingIs
<1>19. sealer'[s] = Seals!Resting /\ \A t \in Clerks : t # s => sealer'[t] = sealer[t]
  BY <1>5 DEF SealInv, SealShape
<1>20. SealShape'
  <2>1. sealer' \in [Clerks -> SealerRows]
    BY <1>5, <1>18 DEF SealInv, SealShape
  <2>2. seal' \in Seq(SealRows)
    BY <1>5, <1>13 DEF a
  <2> QED
    BY <1>5, <2>1, <2>2 DEF SealInv, SealShape
<1>21. Apart(sealer')
  BY <1>18, <1>19 DEF SealInv, Apart
<1>22. Nesting(sealer')
  <2> SUFFICES ASSUME NEW t \in Clerks, NEW u \in Clerks, sealer'[t].at = sealer'[u].at
               PROVE  DueDays(sealer'[t]) \subseteq DueDays(sealer'[u]) \/ DueDays(sealer'[u]) \subseteq DueDays(sealer'[t])
    BY DEF Nesting
  <2>1. CASE t = s \/ u = s
    BY <1>18, <1>19, <2>1
  <2>2. CASE t # s /\ u # s
    BY <1>19, <2>2 DEF SealInv, Nesting
  <2> QED
    BY <2>1, <2>2
<1>23. ASSUME NEW t \in Clerks, t # s PROVE Recent(sealer[t], a)
  <2>1. PICK r : r = sealer[t]
    OBVIOUS
  <2>2. r \in SealerRows /\ Ordered(r, WrittenDays, today) /\ Recent(r, p)
    BY <1>2, <2>1 DEF SealInv, SealShape
  <2>3. r.at \in Nat
    BY <2>2, SealerIs
  <2>4. r.at <= Final(a).day + 1
    BY <1>12, <1>15, <2>2, <2>3 DEF Recent
  <2>5. ASSUME r.at > 0 PROVE r.days \cap SealDays(a) # {}
    <3>1. CASE r.days \cap SealDays(p) # {}
      BY <1>13, <3>1
    <3>2. CASE r.at = Final(p).day + 1
      <4>1. DueDays(q) \subseteq DueDays(r) \/ DueDays(r) \subseteq DueDays(q)
        BY <1>1, <1>11, <2>1, <3>2 DEF SealInv, Nesting
      <4>2. SealDays(m) \cap SealDays(r.made) = {}
        BY <1>1, <1>4, <1>23, <2>1 DEF SealInv, Apart
      <4>3. CASE DueDays(q) \subseteq DueDays(r)
        BY <1>9, <1>13, <4>2, <4>3 DEF DueDays
      <4>4. CASE DueDays(r) \subseteq DueDays(q)
        <5>1. DueDays(r) # {}
          BY <2>2, <2>5 DEF Ordered
        <5> QED
          BY <1>9, <1>13, <4>2, <4>4, <5>1 DEF DueDays
      <4> QED
        BY <4>1, <4>3, <4>4
    <3> QED
      BY <2>2, <2>5, <3>1, <3>2 DEF Recent
  <2> QED
    BY <2>1, <2>4, <2>5 DEF Recent
<1>24. WrittenDays' = WrittenDays /\ Held' = Held /\ (NoneLate' <=> NoneLate)
  BY <1>5 DEF WrittenDays, Held, NoneLate, Seals!DaysOf, Seals!Written, Seals!DayEntries
<1>25. \A t \in Clerks : Ordered(sealer'[t], WrittenDays', today') /\ Recent(sealer'[t], seal')
  <2> SUFFICES ASSUME NEW t \in Clerks PROVE Ordered(sealer'[t], WrittenDays, today) /\ Recent(sealer'[t], a)
    BY <1>5, <1>24 DEF a
  <2>1. CASE t = s
    BY <1>18, <1>19, <2>1
  <2>2. CASE t # s
    BY <1>19, <1>23, <2>2 DEF SealInv
  <2> QED
    BY <2>1, <2>2
<1>26. ASSUME NoneLate PROVE Chain(a, WrittenDays, Held)
  <2>1. Linked(p, <<>>, Held) /\ \A x \in WrittenDays : x <= Final(p).day => x \in SealDays(p)
    BY <1>2, <1>26 DEF SealInv, Chain
  <2>2. Whole(q, WrittenDays, Held)
    BY <1>1, <1>26 DEF SealInv
  <2>3. Linked(m, Final(p).digest, Held)
    BY <1>4, <1>9, <1>11, <2>2 DEF Whole, Base
  <2>4. Linked(a, <<>>, Held)
    BY <1>6, <1>7, <1>9, <2>1, <2>3, JoinedLinked DEF a
  <2>5. ASSUME NEW x \in WrittenDays, x <= Final(a).day PROVE x \in SealDays(a)
    <3>1. CASE x <= Final(p).day
      BY <1>13, <2>1, <3>1
    <3>2. CASE x = Final(a).day
      BY <1>13, <1>15, <3>2
    <3>3. CASE Final(p).day < x /\ x < Final(a).day
      <4>1. q.at <= x
        BY <1>6, <1>11, <1>12, <3>3
      <4>2. x \in DueDays(q)
        BY <1>9, <1>15, <2>2, <3>3, <4>1 DEF Whole
      <4> QED
        BY <1>9, <1>13, <4>2
    <3>4. x \in Nat
      BY <1>6
    <3> QED
      BY <1>12, <1>15, <2>5, <3>1, <3>2, <3>3, <3>4
  <2> QED
    BY <2>4, <2>5 DEF Chain
<1>27. ASSUME NoneLate, NEW t \in Clerks PROVE Whole(sealer'[t], WrittenDays, Held)
  <2>1. CASE t = s
    BY <1>18, <1>19, <2>1
  <2>2. CASE t # s
    BY <1>19, <1>27, <2>2 DEF SealInv
  <2> QED
    BY <2>1, <2>2
<1>28. NoneLate' => Chain(seal', WrittenDays', Held') /\ \A t \in Clerks : Whole(sealer'[t], WrittenDays', Held')
  BY <1>5, <1>24, <1>26, <1>27 DEF a
<1>29. Rising(seal') /\ \A d \in SealDays(seal') : d < today'
  BY <1>5, <1>16, <1>17 DEF a
<1> QED
  BY <1>20, <1>21, <1>22, <1>25, <1>28, <1>29 DEF SealInv

-----------------------------------------------------------------------------
LEMMA OrderedStill ==
  ASSUME NEW q \in SealerRows, NEW written, NEW more, written \subseteq more, NEW now \in Nat, NEW later \in Nat, now <= later,
         Ordered(q, written, now)
  PROVE  Ordered(q, more, later)
<1>1. DueDays(q) \subseteq Nat
  BY SealerIs
<1>2. \A d \in DueDays(q) : q.at <= d /\ d < later
  BY <1>1 DEF Ordered
<1> QED
  BY <1>2 DEF Ordered

(* The clock goes on, and entries are begun.                               *)
LEMMA NothingNew ==
  ASSUME SealInv, UNCHANGED <<seal, sealer>>, today' \in Nat, today <= today', SealShape',
         WrittenDays' = WrittenDays, Held' = Held, NoneLate' => NoneLate
  PROVE  SealInv'
<1>1. today \in Nat /\ seal \in Seq(SealRows) /\ sealer \in [Clerks -> SealerRows]
  BY DEF SealInv, SealShape
<1>2. \A t \in Clerks : Ordered(sealer[t], WrittenDays, today')
  BY <1>1, OrderedStill DEF SealInv
<1>3. \A d \in SealDays(seal) : d < today'
  <2>1. \A d \in SealDays(seal) : d \in Nat /\ d < today
    BY <1>1, DaysOfSeals DEF SealInv
  <2> QED
    BY <1>1, <2>1
<1> QED
  BY <1>2, <1>3 DEF SealInv

LEMMA MidnightKeeps ==
  ASSUME SealInv, Seals!Midnight
  PROVE  SealInv'
<1>1. today < SealsLastDay /\ today' = today + 1 /\ UNCHANGED <<entry, seal, sealer>> /\ today \in 1..SealsLastDay
  BY DEF Seals!Midnight, SealInv, SealShape
<1>2. today' \in 1..SealsLastDay /\ today' \in Nat /\ today <= today'
  BY <1>1, SealBounds
<1>3. SealShape'
  <2>1. \A e \in Entries : entry[e].state # "none" => entry[e].day \in 1..today'
    BY <1>1, <1>2 DEF SealInv, SealShape
  <2> QED
    BY <1>1, <1>2, <2>1 DEF SealInv, SealShape
<1>4. WrittenDays' = WrittenDays /\ Held' = Held /\ (NoneLate' <=> NoneLate)
  BY <1>1 DEF WrittenDays, Held, NoneLate, Seals!DaysOf, Seals!Written, Seals!DayEntries
<1> QED
  BY <1>1, <1>2, <1>3, <1>4, NothingNew

LEMMA BeginKeeps ==
  ASSUME SealInv, NEW e \in Entries, Seals!Begin(e)
  PROVE  SealInv'
<1>1. /\ entry[e].state = "none" /\ entry' = [entry EXCEPT ![e].state = "open", ![e].day = today]
      /\ UNCHANGED <<today, seal, sealer>>
  BY DEF Seals!Begin
<1>2. entry \in [Entries -> EntryRows] /\ today \in 1..SealsLastDay /\ today \in Nat /\ 1 <= today
  BY SealBounds DEF SealInv, SealShape
<1>3. /\ entry'[e].state = "open" /\ entry'[e].day = today /\ entry'[e].late = entry[e].late
      /\ \A x \in Entries : x # e => entry'[x] = entry[x]
      /\ entry' \in [Entries -> EntryRows]
  BY <1>1, <1>2 DEF EntryRows
<1>4. SealShape'
  <2>1. \A x \in Entries : entry'[x].state # "none" => entry'[x].day \in 1..today
    BY <1>2, <1>3 DEF SealInv, SealShape
  <2> QED
    BY <1>1, <1>2, <1>3, <2>1 DEF SealInv, SealShape
<1>5. Seals!Written' = Seals!Written /\ \A x \in Seals!Written : entry'[x] = entry[x] /\ x # e
  BY <1>1, <1>3 DEF Seals!Written
<1>6. WrittenDays' = WrittenDays
  BY <1>5 DEF WrittenDays, Seals!DaysOf
<1>7. \A d : Seals!DayEntries(d)' = Seals!DayEntries(d)
  BY <1>5 DEF Seals!DayEntries
<1>8. Held' = Held
  BY <1>7 DEF Held
<1>9. NoneLate' => NoneLate
  BY <1>5 DEF NoneLate
<1> QED
  BY <1>1, <1>2, <1>4, <1>6, <1>8, <1>9, NothingNew

LEMMA LinkedStill ==
  ASSUME NEW p \in Seq(SealRows), NEW base, NEW held, NEW found, \A d \in SealDays(p) : found[d] = held[d],
         Linked(p, base, held)
  PROVE  Linked(p, base, found)
<1>1. \A i \in DOMAIN p : p[i].day \in SealDays(p)
  BY DEF SealDays
<1> QED
  BY <1>1 DEF Linked

(* An entry written on the day it began is of no day that is sealed.       *)
LEMMA WriteEntryKeeps ==
  ASSUME SealInv, NEW e \in Entries, Seals!WriteAuditEntry(e)
  PROVE  SealInv'
<1>1. PICK day : day = entry[e].day
  OBVIOUS
<1>2. /\ entry[e].state = "open" /\ entry' = [entry EXCEPT ![e].state = "written", ![e].late = today > entry[e].day]
      /\ UNCHANGED <<today, seal, sealer>>
  BY DEF Seals!WriteAuditEntry
<1>3. entry \in [Entries -> EntryRows] /\ today \in 1..SealsLastDay /\ today \in Nat /\ 1 <= today
  BY SealBounds DEF SealInv, SealShape
<1>4. day \in 1..today /\ day \in Nat
  BY <1>1, <1>2 DEF SealInv, SealShape
<1>5. /\ entry'[e].state = "written" /\ entry'[e].day = day /\ entry'[e].late = (today > day)
      /\ \A x \in Entries : x # e => entry'[x] = entry[x]
      /\ entry' \in [Entries -> EntryRows]
  <2>1. (today > day) \in BOOLEAN
    OBVIOUS
  <2>2. entry' = [entry EXCEPT ![e] = [entry[e] EXCEPT !.state = "written", !.late = (today > day)]]
    BY <1>1, <1>2, <1>3
  <2>3. [entry[e] EXCEPT !.state = "written", !.late = (today > day)] \in EntryRows
    BY <1>3, <2>1 DEF EntryRows
  <2>4. entry'[e] = [entry[e] EXCEPT !.state = "written", !.late = (today > day)]
    BY <1>3, <2>2
  <2>5. entry'[e].state = "written" /\ entry'[e].day = day /\ entry'[e].late = (today > day)
    BY <1>1, <1>3, <2>4 DEF EntryRows
  <2> QED
    BY <1>3, <2>2, <2>3, <2>5
<1>6. SealShape'
  <2>1. \A x \in Entries : entry'[x].state # "none" => entry'[x].day \in 1..today
    BY <1>4, <1>5 DEF SealInv, SealShape
  <2> QED
    BY <1>2, <1>3, <1>5, <2>1 DEF SealInv, SealShape
<1>7. Seals!Written' = Seals!Written \cup {e} /\ e \notin Seals!Written /\ \A x \in Seals!Written : entry'[x] = entry[x]
  BY <1>2, <1>5 DEF Seals!Written
<1>8. WrittenDays' = WrittenDays \cup {day}
  BY <1>5, <1>7 DEF WrittenDays, Seals!DaysOf
<1>9. \A d \in Nat : d # day => Held'[d] = Held[d]
  BY <1>5, <1>7 DEF Held, Seals!DayEntries
<1>10. NoneLate' => NoneLate /\ day = today
  <2> SUFFICES ASSUME NoneLate' PROVE NoneLate /\ day = today
    OBVIOUS
  <2>1. ~(today > day)
    BY <1>5, <1>7 DEF NoneLate
  <2>2. NoneLate
    BY <1>7 DEF NoneLate
  <2> QED
    BY <1>3, <1>4, <2>1, <2>2
<1>11. PICK written, more, found : written = WrittenDays /\ more = WrittenDays' /\ found = Held'
  OBVIOUS
<1>12. \A t \in Clerks : Ordered(sealer[t], more, today)
  <2> SUFFICES ASSUME NEW t \in Clerks PROVE Ordered(sealer[t], more, today)
    OBVIOUS
  <2>1. Ordered(sealer[t], written, today) /\ sealer[t] \in SealerRows
    BY <1>11 DEF SealInv, SealShape
  <2>2. written \subseteq more /\ today <= today
    BY <1>3, <1>8, <1>11
  <2> QED
    BY <1>3, <2>1, <2>2, OrderedStill
<1>13. seal \in Seq(SealRows) /\ Rising(seal) /\ SealDays(seal) \subseteq Nat /\ \A d \in SealDays(seal) : d < today
  BY DaysOfSeals DEF SealInv, SealShape
<1>14. ASSUME NoneLate' PROVE Chain(seal, more, found)
  <2>1. Chain(seal, written, Held) /\ day = today
    BY <1>10, <1>11, <1>14 DEF SealInv
  <2>2. \A d \in SealDays(seal) : found[d] = Held[d]
    BY <1>9, <1>11, <1>13, <2>1
  <2>3. Linked(seal, <<>>, found)
    BY <1>13, <2>1, <2>2, LinkedStill DEF Chain
  <2>4. Final(seal).day < today /\ Final(seal).day \in Nat
    BY <1>3, <1>13, FinalIs
  <2>5. \A x \in more : x <= Final(seal).day => x \in written
    BY <1>3, <1>8, <1>11, <2>1, <2>4
  <2> QED
    BY <2>1, <2>3, <2>5 DEF Chain
<1>15. ASSUME NoneLate', NEW t \in Clerks PROVE Whole(sealer[t], more, found)
  <2>1. PICK q : q = sealer[t]
    OBVIOUS
  <2>2. Whole(q, written, Held) /\ day = today /\ q \in SealerRows /\ Ordered(q, written, today)
    BY <1>10, <1>11, <1>15, <2>1 DEF SealInv, SealShape
  <2>3. q.made \in Seq(SealRows) /\ SealDays(q.made) \subseteq Nat /\ DueDays(q) \subseteq Nat
    BY <2>2, SealerIs
  <2>4. \A d \in DueDays(q) : d < today /\ d # day
    BY <1>3, <2>2, <2>3 DEF Ordered
  <2>5. \A d \in SealDays(q.made) : found[d] = Held[d]
    BY <1>9, <1>11, <2>3, <2>4 DEF DueDays
  <2>6. Linked(q.made, Base(q), found)
    BY <2>2, <2>3, <2>5, LinkedStill DEF Whole
  <2>7. ASSUME NEW d \in DueDays(q), NEW x \in more, q.at <= x, x < d PROVE x \in DueDays(q)
    <3>1. x # day
      BY <1>3, <2>2, <2>3, <2>4, <2>7
    <3>2. x \in written
      BY <1>8, <1>11, <3>1
    <3> QED
      BY <2>2, <2>7, <3>2 DEF Whole
  <2> QED
    BY <2>1, <2>6, <2>7 DEF Whole
<1>16. (\A t \in Clerks : Ordered(sealer[t], WrittenDays, today) /\ Recent(sealer[t], seal))'
  BY <1>2, <1>11, <1>12 DEF SealInv
<1>17. (NoneLate => Chain(seal, WrittenDays, Held) /\ \A t \in Clerks : Whole(sealer[t], WrittenDays, Held))'
  BY <1>2, <1>11, <1>14, <1>15
<1> QED
  BY <1>2, <1>6, <1>16, <1>17 DEF SealInv

LEMMA SealsBegin ==
  ASSUME Seals!Init
  PROVE  SealInv
<1>1. /\ today = 1 /\ entry = [e \in Entries |-> [state |-> "none", day |-> 0, late |-> FALSE]]
      /\ seal = <<>> /\ sealer = [s \in Clerks |-> Seals!Resting]
  BY DEF Seals!Init
<1>2. seal \in Seq(SealRows) /\ Rising(seal) /\ SealDays(seal) = {} /\ Final(seal).day = 0
  BY <1>1 DEF Rising, SealDays, Final
<1>3. \A s \in Clerks :
         /\ sealer[s] \in SealerRows /\ SealDays(sealer[s].made) = {} /\ DueDays(sealer[s]) = {}
         /\ Ordered(sealer[s], WrittenDays, today) /\ Recent(sealer[s], seal) /\ Whole(sealer[s], WrittenDays, Held)
  BY <1>1, <1>2, RestingIs
<1>4. SealShape
  <2>1. entry \in [Entries -> EntryRows] /\ \A e \in Entries : entry[e].state = "none"
    BY <1>1 DEF EntryRows
  <2>2. sealer \in [Clerks -> SealerRows]
    BY <1>1, <1>3
  <2>3. today \in 1..SealsLastDay
    BY <1>1, SealBounds
  <2> QED
    BY <1>2, <2>1, <2>2, <2>3 DEF SealShape
<1>5. Apart(sealer) /\ Nesting(sealer)
  BY <1>3 DEF Apart, Nesting
<1>6. WrittenDays = {}
  BY <1>1 DEF WrittenDays, Seals!DaysOf, Seals!Written
<1>7. Chain(seal, WrittenDays, Held)
  BY <1>1, <1>6 DEF Chain, Linked
<1> QED
  BY <1>2, <1>3, <1>4, <1>5, <1>7 DEF SealInv

LEMMA SealsKeep ==
  ASSUME SealInv, Seals!Next
  PROVE  SealInv'
BY MidnightKeeps, BeginKeeps, WriteEntryKeeps, AuditLogReads, SealDayKeeps, SealsCommit, SealRollsBack DEF Seals!Next

LEMMA SealsStay ==
  ASSUME SealInv, UNCHANGED sealsVars
  PROVE  SealInv'
<1>1. UNCHANGED <<today, entry, seal, sealer>>
  BY DEF sealsVars
<1>2. SealShape' /\ today' \in Nat /\ today <= today'
  BY <1>1 DEF SealInv, SealShape
<1>3. WrittenDays' = WrittenDays /\ Held' = Held /\ (NoneLate' <=> NoneLate)
  BY <1>1 DEF WrittenDays, Held, NoneLate, Seals!DaysOf, Seals!Written, Seals!DayEntries
<1> QED
  BY <1>1, <1>2, <1>3, NothingNew

LEMMA SealsHold ==
  ASSUME SealInv
  PROVE  Seals!TypeOK /\ Seals!SealsVerify
<1>1. Seals!TypeOK
  BY DEF Seals!TypeOK, Seals!Days, SealInv, SealShape, Rising
<1>2. seal \in Seq(SealRows) /\ SealDays(seal) \subseteq Nat
  BY DaysOfSeals DEF SealInv, SealShape
<1>3. ASSUME NoneLate PROVE Seals!AuditSealVerify
  <2>1. Chain(seal, WrittenDays, Held)
    BY <1>3 DEF SealInv
  <2>2. ASSUME NEW i \in DOMAIN seal PROVE Seals!Intact(i)
    <3>1. seal[i].day \in Nat
      BY <1>2 DEF SealDays
    <3>2. Held[seal[i].day] = Seals!DayEntries(seal[i].day)
      BY <3>1 DEF Held
    <3> QED
      BY <2>1, <3>2 DEF Chain, Linked, Seals!Intact
  <2>3. Seals!Last = Final(seal)
    BY DEF Seals!Last, Final
  <2>4. Seals!Stray = {}
    BY <2>1, <2>3 DEF Chain, SealDays, WrittenDays, Seals!Stray
  <2> QED
    BY <2>2, <2>4 DEF Seals!AuditSealVerify
<1> QED
  BY <1>1, <1>3 DEF Seals!SealsVerify, NoneLate

-----------------------------------------------------------------------------
TreasuryInv ==
    /\ part = "banking" => BankInv
    /\ part = "seals" => SealInv

(* The balance of every account is its opening balance and its lines, what *)
(* follows recorded money follows it, the legs of a transfer come and go   *)
(* together; and the seals verify unless an entry was late.                *)
THEOREM RecordsAlwaysVerify == AllSpec => []RecordsVerify
<1>1. AllInit => TreasuryInv
  BY BankBegins, SealsBegin DEF AllInit, TreasuryInv
<1>2. TreasuryInv /\ [AllNext]_allVars => TreasuryInv'
  <2> SUFFICES ASSUME TreasuryInv, [AllNext]_allVars PROVE TreasuryInv'
    OBVIOUS
  <2>1. CASE BooksNext
    BY <2>1 DEF BooksNext, TreasuryInv
  <2>2. CASE BankingNext
    BY <2>2, BankKeeps DEF BankingNext, TreasuryInv
  <2>3. CASE SealsNext
    BY <2>3, SealsKeep DEF SealsNext, TreasuryInv
  <2>4. CASE UNCHANGED allVars
    BY <2>4, BankStays, SealsStay DEF allVars, TreasuryInv
  <2> QED
    BY <2>1, <2>2, <2>3, <2>4 DEF AllNext
<1>3. TreasuryInv => RecordsVerify
  BY BankHolds, SealsHold DEF TreasuryInv, RecordsVerify
<1> QED
  BY <1>1, <1>2, <1>3, PTL DEF AllSpec
=============================================================================
