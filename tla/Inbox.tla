--------------------------------- MODULE Inbox ---------------------------------
(***************************************************************************)
(* The Telegram bot of an organization (integrations/telegram): updates    *)
(* are polled by the workers or pushed to the webhook, stored once, and    *)
(* handled from the inbox under a lease (inbox.ts, process-update.ts).     *)
(*                                                                         *)
(* Time is left out: a lease or a wait may be over at any moment, however  *)
(* its holder fares.  The request registry is used by what it promises     *)
(* (module Requests): a key runs once, is answered the same again, and is  *)
(* refused for another input.  A key outlives the five attempts.           *)
(*                                                                         *)
(* Data: a receipt is known by its update, what was read from it by a      *)
(* value,  and the one project its caption names by whether it is active.  *)
(* Groups act as private chats do.                                         *)
(***************************************************************************)
EXTENDS Integers, FiniteSets

CONSTANTS
    Updates,        \* a set of naturals: Telegram's update ids, in order
    Workers, Users,
    Readings,       \* what the reader may make of a receipt
    MaxAttempts,    \* MAX_ATTEMPTS
    MaxTrouble,     \* bound on crashes, failed calls and leases that run out
    MaxChanges,     \* bound on what the organization's people change
    None

Asks   == [kind : {"receipt"}, of : {None}]
          \cup [kind : {"start"}, of : Users]                  \* /start with that member's code
          \cup [kind : {"confirm", "discard"}, of : Updates]   \* under what that update started

\* Of the updates of any batch, one is the last.
ASSUME InboxAssumption ==
    /\ Updates \subseteq Nat \ {0}
    /\ \A us \in SUBSET Updates : us # {} => \E u \in us : \A v \in us : v <= u
    /\ MaxAttempts \in Nat \ {0} /\ MaxTrouble \in Nat /\ MaxChanges \in Nat
    /\ None \notin Updates /\ None \notin Users /\ None \notin Readings /\ None \notin Asks

VARIABLES
    sent,       \* Telegram: what each update asks, once it exists
    held,       \* Telegram: the updates it has not been told are taken
    hook,       \* Telegram: whose secret it pushes with, if it pushes at all
    bot,        \* telegram_bots
    row,        \* telegram_updates
    code,       \* messaging_link_codes: one for each member
    linked,     \* messaging_identities: the member the account is linked to
    active,     \* whether the project is in play
    expense,    \* what ran under each key: its input, and the expense it made
    worker,     \* the workers' passes
    passed,     \* history: updates answered 200 and not stored, or passed over
                \* for a paused bot
    wiped,      \* history: updates stored for a bot since disconnected
    told,       \* history: updates whose sender was answered
    trouble, changes

telegram == <<sent, held, hook>>
people   == <<code, linked, active>>
past     == <<passed, wiped, told>>
vars == <<sent, held, hook, bot, row, code, linked, active, expense, worker, passed, wiped, told, trouble, changes>>

Modes  == {"poll", "webhook"}
NoBot  == [gen |-> 0, mode |-> None, status |-> None, last |-> 0]
NoRow  == [status |-> "absent", gen |-> 0, attempts |-> 0, waits |-> FALSE, leased |-> FALSE, reading |-> None]
Idle   == [at |-> "idle", gen |-> 0, last |-> 0, was |-> None, batch |-> {}, row |-> NoRow, id |-> None, reading |-> None, note |-> None]
Polled == [Idle EXCEPT !.at = "polled"]

Init ==
    /\ sent = [u \in Updates |-> None] /\ held = {}
    /\ \E mode \in Modes :
         /\ bot = [gen |-> 1, mode |-> mode, status |-> "active", last |-> 0]
         /\ hook = IF mode = "webhook" THEN "on" ELSE "off"
    /\ row = [u \in Updates |-> NoRow]
    /\ code = [m \in Users |-> "live"] /\ linked = None /\ active = TRUE
    /\ expense = {}
    /\ worker = [w \in Workers |-> Idle]
    /\ passed = {} /\ wiped = {} /\ told = {}
    /\ trouble = 0 /\ changes = 0

Troubled == trouble < MaxTrouble /\ trouble' = trouble + 1
Changed  == changes < MaxChanges /\ changes' = changes + 1
Stored   == {u \in Updates : row[u].status # "absent"}
NewRow(g) == [NoRow EXCEPT !.status = "pending", !.gen = g]

-----------------------------------------------------------------------------
\* People, in Telegram and in Workloom.

Send(u, ask) ==
    /\ sent[u] = None /\ \A v \in Updates : v < u => sent[v] # None
    /\ ask.kind \in {"confirm", "discard"} => ask.of \in told /\ sent[ask.of].kind = "receipt"
    /\ sent' = [sent EXCEPT ![u] = ask] /\ held' = held \cup {u}
    /\ UNCHANGED <<hook, bot, row, people, expense, worker, past, trouble, changes>>

ProjectEnds ==
    /\ active /\ Changed /\ active' = FALSE
    /\ UNCHANGED <<telegram, bot, row, code, linked, expense, worker, past, trouble>>

MessagingIdentityRevoke ==
    /\ linked # None /\ Changed /\ linked' = None
    /\ UNCHANGED <<telegram, bot, row, code, active, expense, worker, past, trouble>>

CodeExpires(m) ==
    /\ code[m] = "live" /\ Changed /\ code' = [code EXCEPT ![m] = "over"]
    /\ UNCHANGED <<telegram, bot, row, linked, active, expense, worker, past, trouble>>

\* Pausing and resuming: the mode stays.
TelegramBotPause(paused) ==
    /\ bot # NoBot /\ paused # (bot.status = "paused") /\ Changed
    /\ bot' = [bot EXCEPT !.status = IF paused THEN "paused" ELSE "active"]
    /\ UNCHANGED <<telegram, row, people, expense, worker, past, trouble>>

\* applyMode calls Telegram before the transaction writes what it was told:
\* until then Telegram pushes with a secret that is not the bot's.
ApplyMode(mode) ==
    /\ bot # NoBot /\ bot.mode # mode /\ Changed
    /\ hook' = IF mode = "poll" THEN "off" ELSE "early"
    /\ UNCHANGED <<sent, held, bot, row, people, expense, worker, past, trouble>>

TelegramBotUpdate ==
    /\ bot # NoBot
    /\ \/ hook = "early" /\ hook' = "on" /\ bot' = [bot EXCEPT !.mode = "webhook"]
       \/ hook = "off" /\ bot.mode = "webhook" /\ hook' = hook /\ bot' = [bot EXCEPT !.mode = "poll"]
    /\ UNCHANGED <<sent, held, row, people, expense, worker, past, trouble, changes>>

\* The rows go with the bot.
TelegramBotDisconnect ==
    /\ bot # NoBot /\ hook # "early" /\ (hook = "on" <=> bot.mode = "webhook") /\ Changed
    /\ bot' = NoBot /\ hook' = "off"
    /\ row' = [u \in Updates |-> NoRow] /\ wiped' = wiped \cup Stored
    /\ UNCHANGED <<sent, held, people, expense, worker, passed, told, trouble>>

\* Once more, that is: another bot has another id, and no offset.
TelegramBotConnect ==
    /\ bot = NoBot
    /\ bot' = [gen |-> 2, mode |-> "poll", status |-> "active", last |-> 0]
    /\ UNCHANGED <<telegram, row, people, expense, worker, past, trouble, changes>>

-----------------------------------------------------------------------------
\* Taking updates in.

StoreAll(us, g) == [u \in Updates |-> IF u \in us /\ row[u] = NoRow THEN NewRow(g) ELSE row[u]]

\* receiveTelegramWebhook: 200 whatever happens.  An answer that is lost makes
\* Telegram push again.
ReceiveTelegramWebhook(u) ==
    /\ u \in held /\ hook # "off"
    /\ IF bot.mode = "webhook" /\ hook = "on"
         THEN /\ row' = StoreAll({u}, bot.gen) /\ passed' = passed
              /\ \/ held' = held \ {u} /\ UNCHANGED trouble
                 \/ held' = held /\ Troubled
         ELSE /\ row' = row /\ passed' = passed \cup {u}
              /\ held' = held \ {u} /\ UNCHANGED trouble
    /\ UNCHANGED <<sent, hook, bot, people, expense, worker, wiped, told, changes>>

PollBegin(w) ==
    /\ worker[w].at = "idle" /\ bot.mode = "poll" /\ bot.status # "paused"
    /\ worker' = [worker EXCEPT ![w] = [Idle EXCEPT !.at = "poll", !.gen = bot.gen, !.last = bot.last, !.was = bot.status]]
    /\ UNCHANGED <<telegram, bot, row, people, expense, past, trouble, changes>>

\* mutation: the offset of the bot as it is, not as it was stored
TakenAll(w) == held

Taken(w) == {u \in held : u <= worker[w].last}

\* Asking for what comes after the offset tells Telegram the rest is taken.
\* Telegram refuses while it pushes.
GetUpdates(w) ==
    /\ worker[w].at = "poll"
    /\ LET left  == held \ Taken(w)
           batch == {u \in Updates : u > worker[w].last} \cap held IN
       IF hook = "off"
         THEN /\ held' = left
              /\ worker' = [worker EXCEPT ![w] = IF batch = {} THEN Polled ELSE [@ EXCEPT !.at = "store", !.batch = batch]]
              /\ bot' = IF batch = {} /\ worker[w].was = "error" /\ bot.gen = worker[w].gen
                          THEN [bot EXCEPT !.status = "active"] ELSE bot
         ELSE /\ held' = held
              /\ worker' = [worker EXCEPT ![w] = Polled]
              /\ bot' = IF bot.gen = worker[w].gen THEN [bot EXCEPT !.status = "error"] ELSE bot
    /\ UNCHANGED <<sent, hook, row, people, expense, past, trouble, changes>>

MaxOf(us) == CHOOSE u \in us : \A v \in us : v <= u

\* One transaction; the bot's foreign key fails it when the bot is gone.
PollStore(w) ==
    /\ worker[w].at = "store"
    /\ IF bot.gen = worker[w].gen
         THEN /\ row' = StoreAll(worker[w].batch, bot.gen)
              /\ bot' = [bot EXCEPT !.last = MaxOf(worker[w].batch), !.status = "active"]
         ELSE UNCHANGED <<row, bot>>
    /\ worker' = [worker EXCEPT ![w] = Polled]
    /\ UNCHANGED <<telegram, people, expense, past, trouble, changes>>

-----------------------------------------------------------------------------
\* processTelegramInbox.

\* The bot is read in a transaction before the one that claims.
ProcessBegin(w) ==
    /\ worker[w].at \in {"idle", "polled"} /\ bot # NoBot
    /\ worker' = [worker EXCEPT ![w] = [Idle EXCEPT !.at = "claim", !.gen = bot.gen, !.was = bot.status]]
    /\ UNCHANGED <<telegram, bot, row, people, expense, past, trouble, changes>>

Claimable(u) == row[u].status = "pending" /\ ~row[u].waits /\ ~row[u].leased

Due == {u \in Updates : Claimable(u)}

\* Everything due is claimed at once, whichever bot it was stored for.
Claim(w) ==
    /\ worker[w].at = "claim"
    /\ row' = [u \in Updates |-> IF u \in Due THEN [row[u] EXCEPT !.leased = TRUE, !.attempts = @ + 1] ELSE row[u]]
    /\ worker' = [worker EXCEPT ![w] = IF Due = {} THEN Idle ELSE [@ EXCEPT
                    !.at = "next", !.batch = {[id |-> u, row |-> row'[u]] : u \in Due}]]
    /\ UNCHANGED <<telegram, bot, people, expense, past, trouble, changes>>

Goes(w, at)  == worker' = [worker EXCEPT ![w].at = at]
At(w, at)    == worker[w].at = at
Id(w)        == worker[w].id
Mine(w)      == row[Id(w)].status # "absent" /\ row[Id(w)].gen = worker[w].row.gen
Ask(w)       == sent[Id(w)]
Answers(w)   == told' = told \cup {Id(w)}

\* Who sent it.  Whoever is not linked is told how to link, and no more.
LinkedMember(ask) ==
    CASE ask.kind = "start"   -> "code"
      [] linked = None        -> "answer"
      [] ask.kind = "receipt" -> "read"
      [] OTHER                -> "press"

\* A paused bot's updates are done with as they are.
ProcessUpdate(w) ==
    /\ At(w, "next")
    /\ \E b \in worker[w].batch :
         /\ worker' = [worker EXCEPT ![w] = [worker[w] EXCEPT !.batch = @ \ {b}, !.id = b.id, !.row = b.row,
                !.at = IF worker[w].was = "paused" THEN "done" ELSE LinkedMember(sent[b.id])]]
         /\ passed' = IF worker[w].was = "paused" THEN passed \cup {b.id} ELSE passed
    /\ UNCHANGED <<telegram, bot, row, people, expense, wiped, told, trouble, changes>>

Note == IF active THEN "none" ELSE "caption"

\* What was read before is used again.  The caption is a note of its own once
\* the project it names is no longer in play.
ReadReceipt(w) ==
    /\ At(w, "read")
    /\ IF worker[w].row.reading # None
         THEN worker' = [worker EXCEPT ![w] = [@ EXCEPT !.at = "create", !.reading = worker[w].row.reading, !.note = Note]]
         ELSE \E r \in Readings :
                worker' = [worker EXCEPT ![w] = [@ EXCEPT !.at = "save", !.reading = r, !.note = Note]]
    /\ UNCHANGED <<telegram, bot, row, people, expense, past, trouble, changes>>

SaveReading(w) ==
    /\ At(w, "save")
    /\ row' = IF Mine(w) THEN [row EXCEPT ![Id(w)].reading = worker[w].reading] ELSE row
    /\ Goes(w, "create")
    /\ UNCHANGED <<telegram, bot, people, expense, past, trouble, changes>>

\* mutation: the key names the attempt, not the update
KeyOfAttempt(w) == <<worker[w].row.attempts, Id(w)>>

\* telegram:<bot>:<update>, of the bot the pass began with.
IdempotencyKey(w) == <<worker[w].gen, Id(w)>>

Ran(w)  == {e \in expense : e.key = IdempotencyKey(w)}
Same(w) == \A e \in Ran(w) : e.reading = worker[w].reading /\ e.note = worker[w].note

\* A draft, or what was answered before; another input under the key is
\* refused, and the sender told so.
CreateFromReceipt(w) ==
    /\ At(w, "create")
    /\ expense' = IF Ran(w) # {} THEN expense
                  ELSE expense \cup {[key |-> IdempotencyKey(w), reading |-> worker[w].reading,
                                      note |-> worker[w].note, status |-> "draft"]}
    /\ Goes(w, "answer")
    /\ UNCHANGED <<telegram, bot, row, people, past, trouble, changes>>

\* The button names one expense; whoever is late is told so.
HandleButton(w) ==
    /\ At(w, "press")
    /\ expense' = {[e EXCEPT !.status = CASE e.key[2] # Ask(w).of \/ e.status = "gone" -> @
                                          [] Ask(w).kind = "confirm" -> "confirmed"
                                          [] OTHER -> "gone"] : e \in expense}
    /\ Goes(w, "answer")
    /\ UNCHANGED <<telegram, bot, row, people, past, trouble, changes>>

\* The code is spent in one transaction, the account linked in the next.
UseCode(w) ==
    /\ At(w, "code")
    /\ IF code[Ask(w).of] = "live"
         THEN code' = [code EXCEPT ![Ask(w).of] = "over"] /\ Goes(w, "link")
         ELSE code' = code /\ Goes(w, "answer")
    /\ UNCHANGED <<telegram, bot, row, linked, active, expense, past, trouble, changes>>

Link(w) ==
    /\ At(w, "link")
    /\ linked' = Ask(w).of /\ Goes(w, "answer")
    /\ UNCHANGED <<telegram, bot, row, code, active, expense, past, trouble, changes>>

Answer(w) ==
    /\ At(w, "answer")
    /\ told' = told \cup {Id(w)} /\ Goes(w, "done")
    /\ UNCHANGED <<telegram, bot, row, people, expense, passed, wiped, trouble, changes>>

\* A call of Telegram, of the reader or of the database throws.
Throws(w) ==
    /\ worker[w].at \in {"read", "save", "create", "press", "code", "link", "answer"}
    /\ Troubled /\ Goes(w, "failed")
    /\ UNCHANGED <<telegram, bot, row, people, expense, past, changes>>

\* mutation: whoever has failed often enough is not stored as failed
Retried(r, attempts) == [r EXCEPT !.status = "pending", !.leased = FALSE, !.waits = TRUE]

\* As many attempts as were claimed, not as the row counts now.
Rested(r, attempts) ==
    [r EXCEPT !.status = IF attempts >= MaxAttempts THEN "failed" ELSE "pending",
              !.leased = FALSE, !.waits = TRUE]

\* The outcome is written by id, whoever may have claimed the row since.
Outcome(w) ==
    /\ worker[w].at \in {"done", "failed"}
    /\ row' = IF ~Mine(w) THEN row
              ELSE [row EXCEPT ![Id(w)] = IF At(w, "done") THEN [@ EXCEPT !.status = "done", !.leased = FALSE]
                                          ELSE Rested(@, worker[w].row.attempts)]
    /\ worker' = [worker EXCEPT ![w] = IF @.batch = {} THEN Idle
                                       ELSE [Idle EXCEPT !.at = "next", !.gen = worker[w].gen, !.was = worker[w].was, !.batch = worker[w].batch]]
    /\ UNCHANGED <<telegram, bot, people, expense, past, trouble, changes>>

WorkerStep(w) ==
    \/ PollBegin(w) \/ GetUpdates(w) \/ PollStore(w) \/ ProcessBegin(w) \/ Claim(w) \/ ProcessUpdate(w)
    \/ ReadReceipt(w) \/ SaveReading(w) \/ CreateFromReceipt(w) \/ HandleButton(w)
    \/ UseCode(w) \/ Link(w) \/ Answer(w) \/ Outcome(w)

Crash(w) ==
    /\ worker[w] # Idle /\ Troubled
    /\ worker' = [worker EXCEPT ![w] = Idle]
    /\ UNCHANGED <<telegram, bot, row, people, expense, past, changes>>

-----------------------------------------------------------------------------
\* Time.

\* A pass holds what it is handling and what it has claimed and not come to.
Holds(w, u) == worker[w].id = u \/ \E b \in worker[w].batch : ~At(w, "store") /\ b.id = u

\* Two minutes after the claim, whatever became of whoever claimed it.
LeaseEnds(u) ==
    /\ row[u].leased
    /\ row' = [row EXCEPT ![u].leased = FALSE]
    /\ IF \E w \in Workers : Holds(w, u) THEN Troubled ELSE UNCHANGED trouble
    /\ UNCHANGED <<telegram, bot, people, expense, worker, past, changes>>

WaitEnds(u) ==
    /\ row[u].waits /\ row[u].status = "pending"
    /\ row' = [row EXCEPT ![u].waits = FALSE]
    /\ UNCHANGED <<telegram, bot, people, expense, worker, past, trouble, changes>>

Next ==
    \/ \E u \in Updates : \E ask \in Asks : Send(u, ask)
    \/ \E u \in Updates : ReceiveTelegramWebhook(u) \/ LeaseEnds(u) \/ WaitEnds(u)
    \/ ProjectEnds \/ MessagingIdentityRevoke
    \/ \E m \in Users : CodeExpires(m)
    \/ \E p \in BOOLEAN : TelegramBotPause(p)
    \/ \E mode \in Modes : ApplyMode(mode)
    \/ TelegramBotUpdate \/ TelegramBotDisconnect \/ TelegramBotConnect
    \/ \E w \in Workers : WorkerStep(w) \/ Throws(w) \/ Crash(w)

Spec == Init /\ [][Next]_vars

\* The workers loop; time passes.
FairSpec ==
    /\ Spec
    /\ \A w \in Workers : WF_vars(WorkerStep(w))
    /\ \A u \in Updates : WF_vars(LeaseEnds(u)) /\ WF_vars(WaitEnds(u))

-----------------------------------------------------------------------------

TypeOK ==
    /\ sent \in [Updates -> Asks \cup {None}] /\ held \subseteq Updates /\ hook \in {"off", "early", "on"}
    /\ bot \in [gen : 0..2, mode : Modes \cup {None}, status : {"active", "paused", "error", None}, last : {0} \cup Updates]
    /\ row \in [Updates -> [status : {"absent", "pending", "done", "failed"}, gen : 0..2, attempts : Nat,
                            waits : BOOLEAN, leased : BOOLEAN, reading : Readings \cup {None}]]
    /\ code \in [Users -> {"live", "over"}] /\ linked \in Users \cup {None}

\* A receipt makes one expense, however often Telegram delivers it and the
\* workers attempt it (messaging.ts: "one expense, not two").  Not so once
\* the bot has been replaced: a pass that began with the bot before claims the
\* new one's updates, and runs them under the old one's keys.
OneExpense ==
    bot.gen = 1 => \A e, f \in expense : e.key[2] = f.key[2] => e = f

\* What Telegram has been told is taken is stored, or was refused at the door,
\* or went with its bot.
NothingLost ==
    \A u \in Updates : sent[u] # None /\ u \notin held => u \in Stored \cup passed \cup wiped

\* What is done with has been answered, unless it was passed over.
Answered == \A u \in Updates : row[u].status = "done" => u \in told \cup passed

\* A receipt that was sent is kept: taken in, made an expense once, and answered.
ReceiptsKept == TypeOK /\ OneExpense /\ NothingLost /\ Answered

\* A retry sends what the attempt before it sent (messaging.ts: the reading is
\* kept "so that a retry after a crash sends the same thing to the expense").
SentAgainTheSame == \A w \in Workers : At(w, "create") => Same(w)

\* What has been stored is done with, one way or the other.
EventuallySettled ==
    \A u \in Updates : row[u].status = "pending" ~> row[u].status # "pending"
=============================================================================
