------------------------------- MODULE Banking -------------------------------
(***************************************************************************)
(* Bank accounts and their lines (modules/banking): lines entered by hand, *)
(* adjustments, transfers between accounts, and the lines that follow the  *)
(* payments and expenses recorded in an account (recorded.ts), with the    *)
(* triggers that keep balances and matches (0023, 0031, 0047).             *)
(*                                                                         *)
(* A line is inserted by a request that has read the account, and at times *)
(* the money, a statement before and without a lock; the trigger that      *)
(* recomputes the balance locks the account.  A change of an account locks *)
(* it throughout, so it is one step here, between the two of the others.   *)
(*                                                                         *)
(* Data: money is a payment or an expense, of an amount out of 1..MaxAmount*)
(* on a day out of 1..LastDay; an account's opening balance is the number  *)
(* of its opening day.  One transfer, one line by hand and one adjustment  *)
(* exist at a time.  Nothing in this code reconciles a line.               *)
(***************************************************************************)
EXTENDS Integers, FiniteSets, Functions

CONSTANTS
    Accounts, Money, Requests,
    MaxAmount, LastDay,
    MaxChanges,     \* bound on changes by people
    None

VARIABLES
    foreign,        \* the accounts in another currency
    account,        \* bank_accounts
    line,           \* bank_transactions with their matches, by fingerprint
    money,          \* payments and expenses: where, what and when
    request,        \* requests that have read and not yet written
    stale,          \* history: money whose line was placed from what had changed since it was read
    changes

vars == <<foreign, account, line, money, request, stale, changes>>

Out        == <<"out", None>>
In         == <<"in", None>>
ByHand     == <<"by hand", None>>
Adjustment == <<"adjustment", None>>
Legs       == {Out, In}
Names      == Legs \cup {ByHand, Adjustment} \cup (Money \X Accounts)
Amounts  == 1..MaxAmount
Days     == 1..LastDay
NoLine   == [account |-> None, amount |-> 0, on |-> 0, matched |-> 0, ignored |-> FALSE, status |-> "unexplained"]
NoMoney  == [state |-> "absent", account |-> None, amount |-> 1, on |-> 1]
Idle     == [op |-> "idle", m |-> None, wanted |-> None, line |-> NoLine, seen |-> None]

Init ==
    /\ foreign \in {{}} \cup {{a} : a \in Accounts}
    /\ account = [a \in Accounts |-> [opening |-> 0, balance |-> 0, archived |-> FALSE, isDefault |-> FALSE]]
    /\ line = [n \in Names |-> NoLine]
    /\ money = [m \in Money |-> NoMoney]
    /\ request = [r \in Requests |-> Idle]
    /\ stale = {} /\ changes = 0

-----------------------------------------------------------------------------
\* explainedStatus
ExplainedStatus(l) ==
    CASE l.ignored             -> "ignored"
      [] ~l.ignored /\ l.matched = 0        -> "unexplained"
      [] ~l.ignored /\ l.matched = l.amount -> "explained"
      [] OTHER                 -> "part_explained"

\* mutation: what explains the line changes, its status does not
StatusStays(l) == l

\* settleBankTransaction
Settled(l)  == [l EXCEPT !.status = ExplainedStatus(l)]
There(n)    == line[n] # NoLine
LinesOf(a)  == {n \in Names : line[n].account = a}
Change      == changes < MaxChanges /\ changes' = changes + 1

\* mutation: an update of a line leaves the balance
BalanceOnInsert(lines) ==
    [a \in Accounts |-> [account[a] EXCEPT !.balance =
        IF \E n \in Names : lines[n].account = a /\ line[n] = NoLine
        THEN account[a].opening + SumFunctionOnSet([n \in Names |-> lines[n].amount], {n \in Names : lines[n].account = a})
        ELSE @]]

\* workloom_bank_balance, of every account whose lines change.
Balanced(lines) ==
    [a \in Accounts |-> [account[a] EXCEPT !.balance =
        account[a].opening + SumFunctionOnSet([n \in Names |-> lines[n].amount], {n \in Names : lines[n].account = a})]]

\* The lines become these, and the balances follow.
Register(lines) == line' = lines /\ account' = Balanced(lines)

-----------------------------------------------------------------------------
\* Lines that follow recorded money.

RecordedNames(m) == {m} \X Accounts

\* placeable: where the line of this money is wanted, by the account as read.
Placeable(w, opening) ==
    w.state = "booked" /\ w.account # None /\ w.account \notin foreign /\ w.on > opening
PlacedLine(w) == Settled([NoLine EXCEPT !.account = w.account, !.amount = w.amount, !.on = w.on, !.matched = w.amount])

\* mutation: a line that is there already stays as it is
KeepsLine(m, w, opening) ==
    [n \in Names |-> IF Placeable(w, opening) /\ n = <<m, w.account>> /\ ~There(n) THEN PlacedLine(w) ELSE line[n]]

\* dropRecordedLine, then place.
Place(m, w, opening) ==
    [n \in Names |->
        IF n \notin RecordedNames(m) THEN line[n]
        ELSE IF Placeable(w, opening) /\ n = <<m, w.account>> THEN PlacedLine(w) ELSE NoLine]

Opening(a) == IF a = None THEN 0 ELSE account[a].opening
Locked(m)  == \E r \in Requests : request[r].op = "record" /\ request[r].m = m

\* paymentCreate, paymentUpdate, createExpense, expenseConfirm, expenseUpdate:
\* the row is locked and the account it names is read ...
RecordRead(r, m, w) ==
    /\ request[r] = Idle /\ ~Locked(m) /\ w # money[m] /\ Change
    /\ w.account # None => w.account \notin foreign /\ (w.account # money[m].account => ~account[w.account].archived)
    /\ request' = [request EXCEPT ![r] = [Idle EXCEPT !.op = "record", !.m = m, !.wanted = w, !.seen = Opening(w.account)]]
    /\ UNCHANGED <<foreign, account, line, money, stale>>

\* ... and the old line goes, the row is written and the new line placed.
RecordWrite(r) ==
    LET q == request[r] IN
    /\ q.op = "record"
    /\ money' = [money EXCEPT ![q.m] = q.wanted]
    /\ Register(Place(q.m, q.wanted, q.seen))
    /\ stale' = IF q.seen = Opening(q.wanted.account) THEN stale \ {q.m} ELSE stale \cup {q.m}
    /\ request' = [request EXCEPT ![r] = Idle]
    /\ UNCHANGED <<foreign, changes>>

\* paymentDelete, expenseDelete: dropRecordedLine, then the row.
DeleteMoney(m) ==
    /\ money[m].state # "absent" /\ ~Locked(m) /\ Change
    /\ money' = [money EXCEPT ![m] = NoMoney]
    /\ Register([n \in Names |-> IF n \in RecordedNames(m) THEN NoLine ELSE line[n]])
    /\ stale' = stale \ {m}
    /\ UNCHANGED <<foreign, request>>

\* placeRecordedMoney: money that names an account and has no line.
Unplaced(m) == money[m].state = "booked" /\ money[m].account # None /\ \A n \in RecordedNames(m) : ~There(n)

PlaceRecordedRead(r, m) ==
    /\ request[r] = Idle /\ Unplaced(m) /\ Placeable(money[m], Opening(money[m].account))
    /\ \A q \in Requests : request[q].op # "sweep"
    /\ request' = [request EXCEPT ![r] = [Idle EXCEPT !.op = "sweep", !.m = m, !.wanted = money[m], !.seen = Opening(money[m].account)]]
    /\ UNCHANGED <<foreign, account, line, money, stale, changes>>

\* mutation: a line is placed whatever the money has become
FitsAnyway(m, w) == TRUE

\* The match waits for the money: it must be there, in that account or in
\* none, of no less, and not have this line yet (0023, 0031, fingerprint_key).
Fits(m, w) ==
    /\ money[m].state # "absent" /\ money[m].account \in {w.account, None}
    /\ w.amount <= money[m].amount
    /\ ~There(<<m, w.account>>)

PlaceRecordedMoney(r) ==
    LET q == request[r] IN
    /\ q.op = "sweep" /\ ~Locked(q.m) /\ Fits(q.m, q.wanted)
    /\ Register([line EXCEPT ![<<q.m, q.wanted.account>>] = PlacedLine(q.wanted)])
    /\ stale' = IF q.wanted = money[q.m] /\ q.seen = Opening(q.wanted.account) THEN stale ELSE stale \cup {q.m}
    /\ request' = [request EXCEPT ![r] = Idle]
    /\ UNCHANGED <<foreign, money, changes>>

\* Refused, failed, or chosen to end a deadlock.
RollBack(r) ==
    /\ request[r] # Idle
    /\ request' = [request EXCEPT ![r] = Idle]
    /\ UNCHANGED <<foreign, account, line, money, stale, changes>>

-----------------------------------------------------------------------------
\* Accounts.

\* bankAccountUpdate: the opening balance moves, and what was recorded is
\* placed again (resyncAccount).
BankAccountUpdate(a, opening) ==
    LET moved == {m \in Money : money[m].state # "absent" /\ money[m].account = a}
        lines == [n \in Names |->
            IF \E m \in moved : n \in RecordedNames(m)
            THEN LET m == CHOOSE m \in moved : n \in RecordedNames(m) IN
                 IF There(n) /\ Placeable(money[m], opening) /\ line[n].amount = money[m].amount /\ line[n].on = money[m].on
                 THEN line[n] ELSE Place(m, money[m], opening)[n]
            ELSE line[n]]
    IN
    /\ opening # account[a].opening /\ Change
    /\ line' = lines
    /\ account' = [b \in Accounts |->
          IF b # a THEN account[b]
          ELSE [account[a] EXCEPT !.opening = opening,
                   !.balance = opening + SumFunctionOnSet([n \in Names |-> lines[n].amount], {n \in Names : lines[n].account = a})]]
    /\ stale' = stale \ moved
    /\ UNCHANGED <<foreign, money, request>>

\* bankAccountCreate, bankAccountUpdate: standDownOtherDefaults.
MakeDefault(a) ==
    /\ ~account[a].isDefault /\ ~account[a].archived /\ Change
    /\ account' = [b \in Accounts |-> [account[b] EXCEPT !.isDefault = (b = a)]]
    /\ UNCHANGED <<foreign, line, money, request, stale>>

BankAccountAdjustBalance(a, wanted) ==
    /\ ~account[a].archived /\ ~There(Adjustment) /\ wanted # account[a].balance /\ Change
    /\ Register([line EXCEPT ![Adjustment] = Settled([NoLine EXCEPT !.account = a, !.on = LastDay,
                                  !.amount = wanted - account[a].balance, !.ignored = TRUE])])
    /\ UNCHANGED <<foreign, money, request, stale>>

Archivable(a) == \A n \in LinesOf(a) : line[n].status \notin {"unexplained", "part_explained"}

BankAccountArchive(a) ==
    /\ ~account[a].archived /\ Archivable(a) /\ Change
    /\ account' = [account EXCEPT ![a].archived = TRUE, ![a].isDefault = FALSE]
    /\ UNCHANGED <<foreign, line, money, request, stale>>

BankAccountRestore(a) ==
    /\ account[a].archived /\ Change
    /\ account' = [account EXCEPT ![a].archived = FALSE]
    /\ UNCHANGED <<foreign, line, money, request, stale>>

-----------------------------------------------------------------------------
\* Lines by hand, and transfers.

\* bankTransactionCreate and bankTransferCreate read the accounts first.
EnterRead(r, op, l) ==
    /\ request[r] = Idle /\ Change
    /\ ~account[l.account].archived
    /\ request' = [request EXCEPT ![r] = [Idle EXCEPT !.op = op, !.line = l]]
    /\ UNCHANGED <<foreign, account, line, money, stale>>

BankTransactionCreate(r) ==
    /\ request[r].op = "by hand" /\ ~There(ByHand)
    /\ Register([line EXCEPT ![ByHand] = request[r].line])
    /\ request' = [request EXCEPT ![r] = Idle]
    /\ UNCHANGED <<foreign, money, stale, changes>>

\* Out of one account into the other; in two currencies nothing is matched,
\* and both legs are set aside.
Leg(n, l, other) ==
    LET amount == IF n = Out THEN -l.amount ELSE l.amount
        same   == foreign \cap {l.account, other} = {}
    IN Settled([NoLine EXCEPT !.account = IF n = Out THEN l.account ELSE other, !.amount = amount, !.on = l.on,
                  !.matched = IF same THEN amount ELSE 0, !.ignored = ~same])

BankTransferCreate(r, other) ==
    LET l == request[r].line IN
    /\ request[r].op = "transfer" /\ ~There(Out) /\ other # l.account
    /\ Register([n \in Names |-> IF n \in Legs THEN Leg(n, l, other) ELSE line[n]])
    /\ request' = [request EXCEPT ![r] = Idle]
    /\ UNCHANGED <<foreign, money, stale, changes>>

BankTransferDelete ==
    /\ There(Out) /\ There(In) /\ Change
    /\ Register([n \in Names |-> IF n \in Legs THEN NoLine ELSE line[n]])
    /\ UNCHANGED <<foreign, money, request, stale>>

\* mutation: one leg of a transfer may be changed
EditableLeg(n) == There(n) /\ line[n].matched = 0

\* refuseTransferLeg, and what is matched does not move.
Editable(n) == There(n) /\ n \notin Legs /\ line[n].matched = 0

BankTransactionUpdate(n, amount) ==
    /\ Editable(n) /\ amount # line[n].amount /\ Change
    /\ Register([line EXCEPT ![n].amount = amount])
    /\ UNCHANGED <<foreign, money, request, stale>>

BankTransactionDelete(n) ==
    /\ Editable(n) /\ Change
    /\ Register([line EXCEPT ![n] = NoLine])
    /\ UNCHANGED <<foreign, money, request, stale>>

\* Set aside, and taken up again.
BankTransactionIgnore(n) ==
    /\ There(n) /\ n \notin Legs /\ Change
    /\ line' = [line EXCEPT ![n] = Settled([line[n] EXCEPT !.ignored = ~@])]
    /\ UNCHANGED <<foreign, account, money, request, stale>>

-----------------------------------------------------------------------------
Recordable == {w \in [state : {"draft", "booked"}, account : Accounts \cup {None}, amount : Amounts, on : Days] :
                  w.state = "draft" => w.account = None /\ w.amount = 1 /\ w.on = 1}

Follow ==
    \/ \E r \in Requests, m \in Money :
          \/ \E w \in Recordable : RecordRead(r, m, w)
          \/ PlaceRecordedRead(r, m)
    \/ \E m \in Money : DeleteMoney(m)
    \/ \E r \in Requests : RecordWrite(r) \/ PlaceRecordedMoney(r) \/ RollBack(r)

Keep ==
    \/ \E a \in Accounts :
          \/ \E opening \in 0..(LastDay - 1) : BankAccountUpdate(a, opening)
          \/ MakeDefault(a) \/ BankAccountAdjustBalance(a, 0)
          \/ BankAccountArchive(a) \/ BankAccountRestore(a)
    \/ \E r \in Requests, a \in Accounts :
          \/ \E op \in {"by hand", "transfer"} : EnterRead(r, op, [NoLine EXCEPT !.account = a, !.amount = MaxAmount, !.on = LastDay])
          \/ BankTransferCreate(r, a)
    \/ \E r \in Requests : BankTransactionCreate(r)
    \/ BankTransferDelete
    \/ \E n \in Names : BankTransactionUpdate(n, 1) \/ BankTransactionDelete(n) \/ BankTransactionIgnore(n)

Next == Follow \/ Keep

Spec == Init /\ [][Next]_vars

-----------------------------------------------------------------------------
\* Rows keep their types; at most one account is the default, and none that is
\* archived.
TypeOK ==
    /\ \A n \in Names : There(n) => /\ line[n].account \in Accounts /\ line[n].amount # 0
                                    /\ line[n].matched \in {0, line[n].amount}
                                    /\ line[n].status = ExplainedStatus(line[n])
    /\ \A m \in Money : money[m] \in Recordable \cup {NoMoney}
    /\ \A a, b \in Accounts : account[a].isDefault /\ account[b].isDefault => a = b
    /\ \A a \in Accounts : ~(account[a].isDefault /\ account[a].archived)

\* "An account's balance follows its transactions" (0023): it is its opening
\* balance and every line, after whatever was entered, moved and followed.
BalanceFollows ==
    \A a \in Accounts :
       account[a].balance = account[a].opening + SumFunctionOnSet([n \in Names |-> line[n].amount], LinesOf(a))

\* The line of a payment or an expense is there exactly if its account takes
\* it, in one account, and says what the money says, unless it was placed from
\* something that had changed since; and it never outlives the money.
RecordedFollows ==
    \A m \in Money :
       /\ Cardinality({n \in RecordedNames(m) : There(n)}) <= 1
       /\ \A n \in RecordedNames(m) : There(n) => money[m].state # "absent" /\ line[n].amount <= money[m].amount
       /\ m \notin stale =>
             \A n \in RecordedNames(m) :
                IF Placeable(money[m], Opening(money[m].account)) /\ n[2] = money[m].account
                THEN There(n) /\ line[n].amount = money[m].amount /\ line[n].on = money[m].on
                ELSE ~There(n)

\* What left one account by a transfer came into another: both legs or none,
\* of one day, and matched with each other in one currency.
LegsTogether ==
    /\ There(Out) <=> There(In)
    /\ There(Out) => /\ line[Out].account # line[In].account
                       /\ line[Out].amount = -line[In].amount /\ line[Out].on = line[In].on
                       /\ line[Out].matched = -line[In].matched

=============================================================================
