-------------------------------- MODULE Books --------------------------------
(***************************************************************************)
(* Closing the books (books.ts, the triggers of migration 0044) beside the *)
(* requests that write money into them, and the tax pack of a year, built  *)
(* by workers from the books as they read them (tax-packs.ts,              *)
(* pack-builder.ts).                                                       *)
(*                                                                         *)
(* A trigger asks how far the books are closed when a row is written; the  *)
(* row stands when its transaction commits.  Whoever closes or reopens has *)
(* read the date a statement before writing it.  A pack is read by one     *)
(* statement for each kind of record.                                      *)
(*                                                                         *)
(* Data: records are invoices, expenses or payments of a day.  A payment's *)
(* amount stands for how it is applied, too; `with' says that an expense   *)
(* has a receipt, or that an invoice is settled.  The year is day 1.  Today*)
(* is the last day.                                                        *)
(***************************************************************************)
EXTENDS Integers, FiniteSets

CONSTANTS
    Records, Writers, Clerks, Workers,
    LastDay,
    MaxAttempts,    \* MAX_ATTEMPTS
    MaxWrites,      \* bound on writes of rows
    MaxClosings,    \* bound on closings and reopenings
    MaxPacks,       \* bound on packs requested
    None

ASSUME BooksAssumption ==
    /\ LastDay \in Nat \ {0} /\ MaxAttempts \in Nat \ {0}
    /\ None \notin Records

VARIABLES
    kind,           \* what each record is
    row,            \* invoices, expenses and payments, as committed
    closed,         \* organization.books_locked_through, 0 when never closed
    writer,         \* transactions that have written a row and not ended
    clerk,          \* whoever closes or reopens, having read the date
    pack,           \* the newest row of tax_packs
    worker,         \* builders
    lost,           \* history: a worker died
    quiet,          \* history: workers since whose claim the year was closed to everyone
    writes, closings, packs

books == <<row, closed>>
tax   == <<pack, worker, lost, quiet, packs>>
vars  == <<kind, row, closed, writer, clerk, pack, worker, lost, quiet, writes, closings, packs>>

Kinds   == {"invoice", "expense", "payment"}
Year    == 1
NoRow   == [state |-> "absent", day |-> 0, amount |-> 0, with |-> FALSE]
Rows    == [state : {"draft", "booked", "cancelled"}, day : 1..LastDay, amount : {1, 2}, with : BOOLEAN]
NoPack  == [state |-> "none", attempts |-> 0]
Resting == [step |-> "idle", attempt |-> 0, content |-> None]
Idle    == [record |-> None, new |-> NoRow, checked |-> 0]
Off     == [op |-> "off", read |-> 0, to |-> 0]

Init ==
    /\ kind \in [Records -> Kinds]
    /\ row \in [Records -> {NoRow} \cup {x \in Rows : x.state = "booked" /\ x.day = Year /\ x.amount = 1 /\ ~x.with}]
    /\ closed = 0
    /\ writer = [t \in Writers |-> Idle]
    /\ clerk = [c \in Clerks |-> Off]
    /\ pack = NoPack
    /\ worker = [w \in Workers |-> Resting]
    /\ lost = FALSE /\ quiet = {} /\ writes = 0 /\ closings = 0 /\ packs = 0

-----------------------------------------------------------------------------
\* What a handler may make of a row.
Writable(k, old, new) ==
    CASE k = "payment" -> new = NoRow \/ (new.state = "booked" /\ ~new.with)
      [] k = "expense" -> new = NoRow \/ new.state \in (IF old.state = "booked" THEN {"booked"} ELSE {"draft", "booked"})
      [] k = "invoice" ->
           \/ old = NoRow /\ new.state = "draft" /\ ~new.with
           \/ old.state = "draft" /\ (new = NoRow \/ (new.state \in {"draft", "booked"} /\ new.amount = 1 /\ ~new.with))
           \/ old.state = "booked" /\ new = [old EXCEPT !.with = ~@]
           \/ old.state = "booked" /\ ~old.with /\ new = [old EXCEPT !.state = "cancelled"]

In(x, through)  == x.day <= through
MoneyOf(x)      == <<x.state, x.day, x.amount>>

\* workloom_invoice_lock: issued into the closed period, or cancelled in it.
InvoiceLock(old, new, through) ==
    \/ old.state = "draft" /\ new.state = "booked" /\ In(new, through)
    \/ old.state = "booked" /\ In(old, through) /\ (new.state = "cancelled" \/ new.day # old.day)

\* mutation: where a payment comes from is not looked at
PaymentLockNew(old, new, through) == new # NoRow /\ In(new, through)

\* workloom_payment_lock, workloom_allocation_lock
PaymentLock(old, new, through) == (new # NoRow /\ In(new, through)) \/ (old # NoRow /\ In(old, through))

\* workloom_expense_lock: drafts are not in the books.
\* workloom_expense_receipt_lock: receipts may be added, not taken away.
ExpenseLock(old, new, through) ==
    \/ MoneyOf(old) # MoneyOf(new) /\ \E x \in {old, new} : x.state = "booked" /\ In(x, through)
    \/ old.state = "booked" /\ In(old, through) /\ old.with /\ ~new.with

Refused(k, old, new, through) ==
    CASE k = "invoice" -> InvoiceLock(old, new, through)
      [] k = "payment" -> PaymentLock(old, new, through)
      [] k = "expense" -> ExpenseLock(old, new, through)

\* A row is written; it is locked until its transaction ends.
Write(t, r, new) ==
    /\ writer[t] = Idle /\ writes < MaxWrites /\ writes' = writes + 1
    /\ new # row[r] /\ Writable(kind[r], row[r], new)
    /\ row[r] = NoRow => new.amount = 1 /\ ~new.with
    /\ \A o \in Writers : writer[o].record # r
    /\ closed > 0 => ~Refused(kind[r], row[r], new, closed)
    /\ writer' = [writer EXCEPT ![t] = [record |-> r, new |-> new, checked |-> closed]]
    /\ UNCHANGED <<kind, books, clerk, tax, closings>>

Commit(t) ==
    /\ writer[t] # Idle
    /\ row' = [row EXCEPT ![writer[t].record] = writer[t].new]
    /\ quiet' = IF writer[t].checked < Year THEN {} ELSE quiet
    /\ writer' = [writer EXCEPT ![t] = Idle]
    /\ UNCHANGED <<kind, closed, clerk, pack, worker, lost, packs, writes, closings>>

RollBack(t) ==
    /\ writer[t] # Idle
    /\ writer' = [writer EXCEPT ![t] = Idle]
    /\ UNCHANGED <<kind, books, clerk, tax, writes, closings>>

-----------------------------------------------------------------------------
\* Closing and reopening.

\* mutation: closing moves the date either way
AnyDate(q) == TRUE

\* Closing moves the date on.
Onwards(q) == q.to > q.read

Accepted(q) ==
    \/ q.op = "lock" /\ Onwards(q)
    \/ q.op = "unlock" /\ q.read > 0 /\ q.to < q.read

\* organization(): the date is read, and nothing is locked.
BooksRead(c, q) ==
    /\ clerk[c] = Off /\ closings < MaxClosings /\ closings' = closings + 1
    /\ q.read = closed /\ Accepted(q)
    /\ clerk' = [clerk EXCEPT ![c] = q]
    /\ UNCHANGED <<kind, books, writer, tax, writes>>

BooksMove(c, op) ==
    LET to == clerk[c].to IN
    /\ clerk[c].op = op
    /\ closed' = to /\ quiet' = (IF to < Year THEN {} ELSE quiet)
    /\ clerk' = [clerk EXCEPT ![c] = Off]
    /\ UNCHANGED <<kind, row, writer, pack, worker, lost, packs, writes, closings>>

BooksLock(c)   == BooksMove(c, "lock")
BooksUnlock(c) == BooksMove(c, "unlock")

-----------------------------------------------------------------------------
\* The pack of the year.

TaxPackRequest ==
    /\ packs < MaxPacks /\ packs' = packs + 1
    /\ pack.state # "pending"
    /\ pack' = [NoPack EXCEPT !.state = "pending"]
    /\ \A w \in Workers : worker[w] = Resting
    /\ UNCHANGED <<kind, books, writer, clerk, worker, lost, quiet, writes, closings>>

\* buildDueTaxPacks: the attempt is counted, and nothing else says that
\* somebody is at it.
Claim(w) ==
    /\ worker[w] = Resting /\ pack.state = "pending" /\ pack.attempts < MaxAttempts
    /\ pack' = [pack EXCEPT !.attempts = @ + 1]
    /\ worker' = [worker EXCEPT ![w] = [step |-> "invoice", attempt |-> pack.attempts + 1,
                     content |-> [r \in Records |-> NoRow]]]
    /\ quiet' = IF closed >= Year THEN quiet \cup {w} ELSE quiet \ {w}
    /\ UNCHANGED <<kind, books, writer, clerk, lost, packs, writes, closings>>

\* mutation: a cancelled invoice is counted
CountsCancelled(x) == x.state \in {"booked", "cancelled"} /\ x.day = Year

\* Neither drafts nor what is cancelled.
Counts(x) == x.state = "booked" /\ x.day = Year

After(k) == CASE k = "invoice" -> "expense" [] k = "expense" -> "payment" [] OTHER -> "zip"

\* collectPackInput, a statement for each kind.
CollectPackInput(w) ==
    LET k == worker[w].step IN
    /\ k \in Kinds
    /\ worker' = [worker EXCEPT
           ![w].step = After(k),
           ![w].content = [r \in Records |-> IF kind[r] = k /\ Counts(row[r]) THEN row[r] ELSE @[r]]]
    /\ UNCHANGED <<kind, books, writer, clerk, pack, lost, quiet, packs, writes, closings>>

\* buildPack: put away, and said to be ready.
BuildPack(w) ==
    /\ worker[w].step = "zip"
    /\ pack' = [pack EXCEPT !.state = "ready"]
    /\ worker' = [worker EXCEPT ![w] = Resting]
    /\ UNCHANGED <<kind, books, writer, clerk, lost, quiet, packs, writes, closings>>

\* mutation: one attempt more is waited for
EndsLater(attempt) == attempt > MaxAttempts

Ends(attempt) == attempt >= MaxAttempts

\* The build throws.
BuildFails(w) ==
    /\ worker[w] # Resting
    /\ pack' = [pack EXCEPT !.state = IF Ends(worker[w].attempt) THEN "failed" ELSE @]
    /\ worker' = [worker EXCEPT ![w] = Resting]
    /\ UNCHANGED <<kind, books, writer, clerk, lost, quiet, packs, writes, closings>>

\* The worker dies, once.
Crash(w) ==
    /\ worker[w] # Resting /\ ~lost
    /\ lost' = TRUE
    /\ worker' = [worker EXCEPT ![w] = Resting]
    /\ UNCHANGED <<kind, books, writer, clerk, pack, quiet, packs, writes, closings>>

-----------------------------------------------------------------------------
Next ==
    \/ \E t \in Writers :
          \/ \E r \in Records, new \in Rows \cup {NoRow} : Write(t, r, new)
          \/ Commit(t) \/ RollBack(t)
    \/ \E c \in Clerks :
          \/ \E op \in {"lock", "unlock"}, read, to \in 0..LastDay :
                BooksRead(c, [op |-> op, read |-> read, to |-> to])
          \/ BooksLock(c) \/ BooksUnlock(c)
    \/ TaxPackRequest
    \/ \E w \in Workers : Claim(w) \/ CollectPackInput(w) \/ BuildPack(w) \/ BuildFails(w) \/ Crash(w)

Spec == Init /\ [][Next]_vars

-----------------------------------------------------------------------------
\* Whoever writes holds a row of its own; and a pack that waits is still due,
\* unless a worker at its last attempt is at it, or died.
TypeOK ==
    /\ \A r \in Records : row[r] \in Rows \cup {NoRow}
    /\ \A s, t \in Writers : writer[s] # Idle /\ writer[s].record = writer[t].record => s = t
    /\ closed \in 0..LastDay
    /\ pack.state = "pending" =>
          \/ pack.attempts < MaxAttempts
          \/ \E w \in Workers : worker[w].attempt = MaxAttempts
          \/ lost

Stands(x) == x.state = "booked"

\* "A record dated on or before it cannot be created, changed in any way that
\* moves money, or removed" (0044): of what stands in the closed period
\* nothing changes but that a receipt is added or an invoice settled, unless
\* it was written before the books were closed or reopened.
ClosedStands ==
    [][ row' # row => \A r \in Records : row'[r] # row[r] =>
             \/ \A x \in {row[r], row'[r]} : Stands(x) => x.day > closed
             \/ MoneyOf(row[r]) = MoneyOf(row'[r]) /\ (kind[r] = "invoice" \/ (kind[r] = "expense" /\ row'[r].with))
             \/ \E t \in Writers : writer[t].record = r /\ writer[t].checked # closed ]_vars

\* "Reopen them to move the date back": closing never does, unless another
\* closed or reopened in between: the organization is read without a lock.
OnlyReopenedBack ==
    [][ closed' # closed /\ closed' < closed => \E c \in Clerks :
           clerk'[c] # clerk[c] /\ (clerk[c].op = "unlock" \/ clerk[c].read # closed) ]_vars

\* A pack that was read while its year was closed, and nothing begun before was
\* still being written, holds the books of that year: nothing else, and all of
\* it at once, though it is read by one statement for each kind.
PackOfBooks ==
    \A w \in quiet, r \in Records : worker[w].step = "zip" =>
       MoneyOf(worker[w].content[r]) = MoneyOf(IF Stands(row[r]) /\ row[r].day = Year THEN row[r] ELSE NoRow)

\* A tax pack is due, being built or ready, and holds the books of its year.
PacksHold == TypeOK /\ PackOfBooks

\* What is closed stays as it is until somebody reopens it.
ClosedHolds == ClosedStands /\ OnlyReopenedBack
=============================================================================
