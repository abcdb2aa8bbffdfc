------------------------------- MODULE MCInbox -------------------------------
\* Small instances of Inbox, Correspondence and Lists for TLC: what clients and
\* members are told, and shown.  They share no table, so they are explored side by
\* side: a behaviour is one of the parts'.
EXTENDS Inbox, TLC

CONSTANTS
    Invoices, Quotes, Totals,
    Ids, Days, Walked, Limit, MaxRows, MaxEdits

VARIABLES
    part,
    document, issued, request, seen, mailed, views,
    table, drawn, reader, kept, listsChanges

\* Documents are finitely many, and none is issued over nothing: an invoice of
\* nothing reads `sent` until something settles it, which finds it `paid`.
ASSUME LettersAssumption ==
    IsFiniteSet(Invoices) /\ IsFiniteSet(Quotes) /\ Totals \subseteq Nat \ {0}

Co == INSTANCE Correspondence WITH Requests <- Workers
Li == INSTANCE Lists WITH MaxChanges <- MaxEdits, changes <- listsChanges

\* Ids and days are ordered; the lists that are read are those whose cursor compares
\* all they are sorted by.
ASSUME ListsAssumption ==
    /\ Ids \subseteq Int /\ IsFiniteSet(Ids) /\ Days \subseteq Int
    /\ Limit \in Nat \ {0} /\ MaxRows \in Nat
    /\ \A name \in Walked : Li!FollowsCursor(name)
    /\ None \notin [day : Int, asked : BOOLEAN] /\ None \notin [id : Ids, day : Int]

lettersVars ==
    <<document, issued, request, seen, mailed, views>>
listsVars ==
    <<table, drawn, reader, kept, listsChanges>>
allVars == <<part, vars, lettersVars, listsVars>>

\* A part that is not explored stays as it begins, or is left blank.
NoLetters ==
    /\ document = None /\ issued = None /\ request = None /\ seen = None /\ mailed = None
    /\ views = None
NoLists ==
    /\ table = None /\ drawn = None /\ reader = None /\ kept = None /\ listsChanges = None
OneInit == Init /\ bot.mode = "poll"

AllInit ==
    \/ part = "inbox" /\ Init /\ NoLetters /\ NoLists
    \/ part = "letters" /\ Co!Init /\ OneInit /\ NoLists
    \/ part = "lists" /\ Li!Init /\ OneInit /\ NoLetters

InboxNext ==
    part = "inbox" /\ Next /\ UNCHANGED <<part, lettersVars, listsVars>>
LettersNext ==
    part = "letters" /\ Co!Next /\ UNCHANGED <<part, vars, listsVars>>
ListsNext ==
    part = "lists" /\ Li!Next /\ UNCHANGED <<part, vars, lettersVars>>

AllNext == InboxNext \/ LettersNext \/ ListsNext
AllSpec == AllInit /\ [][AllNext]_allVars

\* Lists that follow their cursors, one of each shape: those
\* that are exported too, that are not, that ask for nothing, and of another order.
InOrder == {"companies", "documents", "comments", "activities", "messages"}

Alike == Permutations(Workers) \cup Permutations(Readings)

\* letters: a client is shown what was issued, a first view is told once, and a mail
\* states what was due when it was written.
LettersTrue == part = "letters" => Co!TypeOK /\ Co!ShownAsIssued /\ Co!ViewedOnce /\ Co!StatesWhatWasDue

\* lists: who follows the cursor to the end sees every row that was there, once.
ListsComplete == part = "lists" => Li!ShownOnce
=============================================================================
