------------------------------ MODULE MCTreasury ------------------------------
\* Small instances of Books, Banking and AuditSeals for TLC.  They share no
\* table, so they are explored side by side: a behaviour is one of the parts'.
EXTENDS Books, TLC

CONSTANTS
    Accounts, Money, MaxAmount, MaxChanges,
    Entries, SealsLastDay

VARIABLES
    part,
    foreign, account, line, money, request, stale, changes,
    today, entry, seal, sealer

Bank  == INSTANCE Banking WITH Requests <- Clerks
Seals == INSTANCE AuditSeals WITH LastDay <- SealsLastDay, Sealers <- Clerks

\* Accounts and money are finitely many; None is no account.
ASSUME TreasuryAssumption ==
    /\ IsFiniteSet(Accounts) /\ IsFiniteSet(Money) /\ None \notin Accounts
    /\ MaxAmount \in Nat \ {0} /\ SealsLastDay \in Nat \ {0}

bankVars  == <<foreign, account, line, money, request, stale, changes>>
sealsVars == <<today, entry, seal, sealer>>
allVars   == <<part, vars, bankVars, sealsVars>>

\* A part that is not explored stays as it begins, or is left blank.
NoBooks == Init /\ \A r \in Records : kind[r] = "invoice" /\ row[r] = NoRow
NoBanking ==
    /\ foreign = None /\ account = None /\ line = None /\ money = None /\ request = None
    /\ stale = None /\ changes = None
NoSeals ==
    /\ today = None /\ entry = None /\ seal = None /\ sealer = None

AllInit ==
    \/ part = "books" /\ Init /\ NoBanking /\ NoSeals
    \/ part = "banking" /\ Bank!Init /\ NoBooks /\ NoSeals
    \/ part = "seals" /\ Seals!Init /\ NoBooks /\ NoBanking

BooksNext   == part = "books" /\ Next /\ UNCHANGED <<part, bankVars, sealsVars>>
BankingNext == part = "banking" /\ Bank!Next /\ UNCHANGED <<part, vars, sealsVars>>
SealsNext   == part = "seals" /\ Seals!Next /\ UNCHANGED <<part, vars, bankVars>>

AllNext == BooksNext \/ BankingNext \/ SealsNext
AllSpec == AllInit /\ [][AllNext]_allVars

Alike == Permutations(Clerks) \cup Permutations(Records)

\* banking: the balance of an account follows its lines, money that was recorded
\* is on the lines it belongs to, and the two legs of a transfer come and go together.
\* seals: the chain of seals verifies, unless an entry was dated before its day was
\* sealed and written after.
RecordsVerify ==
    /\ part = "banking" => Bank!TypeOK /\ Bank!BalanceFollows /\ Bank!RecordedFollows /\ Bank!LegsTogether
    /\ part = "seals" => Seals!TypeOK /\ Seals!SealsVerify
=============================================================================
