----------------------------- MODULE InboxProofs -----------------------------
(***************************************************************************)
(* Proofs about the Telegram bot's inbox, for any number of updates,       *)
(* workers and members; about the letters, for any finite sets of          *)
(* invoices and quotes and any requests; and about the lists, for any      *)
(* rows, any page size and any list that follows its cursor.               *)
(*                                                                         *)
(* That nothing is lost rests on what a poll under way knows: everything   *)
(* up to its offset, and everything up to the end of its batch but the     *)
(* batch, has been taken in.                                               *)
(***************************************************************************)
EXTENDS MCInbox, Sequences, FiniteSetTheorems, TLAPS

RowRows    == [status : {"absent", "pending", "done", "failed"}, gen : 0..2, attempts : Nat,
               waits : BOOLEAN, leased : BOOLEAN, reading : Readings \cup {None}]
Claims     == [id : Updates, row : RowRows]
Handling   == {"read", "save", "create", "press", "code", "link", "answer", "done", "failed"}
WorkerRows == [at : {"idle", "polled", "poll", "store", "claim", "next"} \cup Handling,
               gen : 0..2, last : {0} \cup Updates, was : {"active", "paused", "error", None},
               batch : SUBSET (Updates \cup Claims), row : RowRows, id : Updates \cup {None},
               reading : Readings \cup {None}, note : {"none", "caption", None}]
Expenses   == [key : (0..2) \X Updates, reading : Readings \cup {None}, note : {"none", "caption", None},
               status : {"draft", "confirmed", "gone"}]

(* An update that Telegram need not keep.                                  *)
TakenIn(u) == sent[u] # None /\ u \in Stored \cup passed \cup wiped

Shape ==
    /\ TypeOK
    /\ worker \in [Workers -> WorkerRows]
    /\ expense \subseteq Expenses

(* Updates are sent in order, and held or stored once they are sent.       *)
SentInOrder ==
    /\ \A u, v \in Updates : v < u /\ sent[u] # None => sent[v] # None
    /\ \A u \in held \cup Stored : sent[u] # None
    /\ \A u \in Updates : row[u].status = "absent" => row[u] = NoRow

(* Up to the bot's offset, everything has been taken in.                   *)
Offset == \A u \in Updates : u <= bot.last => TakenIn(u)

(* A poll has an offset of its own, and a batch that leaves nothing out.   *)
Polls ==
    \A w \in Workers :
        /\ worker[w].at = "poll" => \A u \in Updates : u <= worker[w].last => TakenIn(u)
        /\ worker[w].at = "store" =>
              /\ worker[w].batch \subseteq Updates /\ worker[w].batch # {}
              /\ \A v \in worker[w].batch :
                    /\ sent[v] # None
                    /\ \A u \in Updates : u <= v => u \in worker[w].batch \/ TakenIn(u)

(* A pass handles what was sent, and is done when the sender is answered.  *)
Passes ==
    \A w \in Workers :
        /\ worker[w].at \in Handling \cup {"next"} =>
              worker[w].batch \subseteq Claims /\ \A b \in worker[w].batch : sent[b.id] # None
        /\ worker[w].at \in Handling => worker[w].id \in Updates /\ sent[worker[w].id] # None
        /\ worker[w].at = "save" => worker[w].reading \in Readings
        /\ worker[w].at \in {"code", "link"} => sent[worker[w].id].kind = "start"
        /\ worker[w].at = "done" => worker[w].id \in told \cup passed

(* Until the bot is replaced there is one key for an update, and whatever  *)
(* ran under it.                                                           *)
Keys ==
    /\ bot.gen = 1 => /\ \A e \in expense : e.key[1] = 1
                      /\ \A w \in Workers : worker[w].at \notin {"idle", "polled"} => worker[w].gen = 1
    /\ \A e, f \in expense : e.key = f.key => e = f

InboxInv ==
    /\ Shape
    /\ SentInOrder
    /\ NothingLost
    /\ Offset
    /\ Polls
    /\ Passes
    /\ Answered
    /\ Keys

LEMMA InvKeepsReceipts == InboxInv => ReceiptsKept
<1> SUFFICES ASSUME InboxInv PROVE OneExpense
  BY DEF InboxInv, Shape, ReceiptsKept
<1> SUFFICES ASSUME bot.gen = 1, NEW e \in expense, NEW f \in expense, e.key[2] = f.key[2]
             PROVE  e = f
  BY DEF OneExpense
<1>1. e.key \in (0..2) \X Updates /\ f.key \in (0..2) \X Updates
  BY DEF InboxInv, Shape, Expenses
<1>2. e.key[1] = 1 /\ f.key[1] = 1
  BY DEF InboxInv, Keys
<1>3. e.key = f.key
  BY <1>1, <1>2
<1> QED BY <1>3 DEF InboxInv, Keys

LEMMA Blank ==
    /\ NoRow \in RowRows /\ NoRow.status = "absent"
    /\ Idle \in WorkerRows /\ Idle.at = "idle" /\ Idle.batch = {} /\ Idle.id = None
    /\ Polled \in WorkerRows /\ Polled.at = "polled"
<1>1. NoRow \in RowRows /\ NoRow.status = "absent"
  BY DEF NoRow, RowRows
<1>2. Idle \in WorkerRows /\ Idle.at = "idle" /\ Idle.batch = {} /\ Idle.id = None
  BY <1>1 DEF Idle, WorkerRows
<1>3. Polled \in WorkerRows /\ Polled.at = "polled"
  BY <1>2 DEF Polled, WorkerRows
<1> QED BY <1>1, <1>2, <1>3

LEMMA InboxInit == Init => InboxInv
<1> SUFFICES ASSUME Init PROVE InboxInv
  OBVIOUS
<1>1. /\ \A u \in Updates : sent[u] = None /\ row[u] = NoRow
      /\ \A w \in Workers : worker[w] = Idle
      /\ held = {} /\ expense = {} /\ bot.last = 0
  BY DEF Init
<1>2. TypeOK
  <2>1. bot \in [gen : 0..2, mode : Modes \cup {None}, status : {"active", "paused", "error", None}, last : {0} \cup Updates]
    BY DEF Init
  <2>2. row \in [Updates -> RowRows]
    BY Blank DEF Init
  <2>3. hook \in {"off", "early", "on"}
    BY DEF Init
  <2> QED BY <2>1, <2>2, <2>3 DEF Init, TypeOK, RowRows
<1>3. Shape
  BY <1>1, <1>2, Blank DEF Init, Shape
<1>4. Stored = {}
  BY <1>1, Blank DEF Stored
<1>5. SentInOrder /\ NothingLost
  BY <1>1, <1>4 DEF SentInOrder, NothingLost
<1>6. Offset
  BY <1>1, InboxAssumption DEF Offset
<1>7. Polls /\ Passes
  BY <1>1, Blank DEF Polls, Passes, Handling
<1>8. Answered /\ Keys
  BY <1>1, Blank DEF Answered, Keys
<1> QED BY <1>3, <1>5, <1>6, <1>7, <1>8 DEF InboxInv

-----------------------------------------------------------------------------
(* What a step must keep for the polls and the passes it does not take.    *)
LEMMA OthersKept ==
    ASSUME InboxInv, NEW busy \in SUBSET Workers,
           DOMAIN worker' = Workers, \A v \in busy : worker'[v] = worker[v],
           \A u \in Updates : sent[u] # None => sent'[u] = sent[u],
           \A u \in Updates : TakenIn(u) => TakenIn(u)',
           told \subseteq told', passed \subseteq passed'
    PROVE  /\ \A v \in busy :
                /\ worker'[v] \in WorkerRows
                /\ worker'[v].at = "poll" => \A u \in Updates : u <= worker'[v].last => TakenIn(u)'
                /\ worker'[v].at = "store" =>
                      /\ worker'[v].batch \subseteq Updates /\ worker'[v].batch # {}
                      /\ \A x \in worker'[v].batch :
                            /\ sent'[x] # None
                            /\ \A u \in Updates : u <= x => u \in worker'[v].batch \/ TakenIn(u)'
                /\ worker'[v].at \in Handling \cup {"next"} =>
                      worker'[v].batch \subseteq Claims /\ \A b \in worker'[v].batch : sent'[b.id] # None
                /\ worker'[v].at \in Handling => worker'[v].id \in Updates /\ sent'[worker'[v].id] # None
                /\ worker'[v].at = "save" => worker'[v].reading \in Readings
                /\ worker'[v].at \in {"code", "link"} => sent'[worker'[v].id].kind = "start"
                /\ worker'[v].at = "done" => worker'[v].id \in told' \cup passed'
<1> SUFFICES ASSUME NEW v \in busy
             PROVE  /\ worker'[v] \in WorkerRows
                    /\ worker'[v].at = "poll" => \A u \in Updates : u <= worker'[v].last => TakenIn(u)'
                    /\ worker'[v].at = "store" =>
                          /\ worker'[v].batch \subseteq Updates /\ worker'[v].batch # {}
                          /\ \A x \in worker'[v].batch :
                                /\ sent'[x] # None
                                /\ \A u \in Updates : u <= x => u \in worker'[v].batch \/ TakenIn(u)'
                    /\ worker'[v].at \in Handling \cup {"next"} =>
                          worker'[v].batch \subseteq Claims /\ \A b \in worker'[v].batch : sent'[b.id] # None
                    /\ worker'[v].at \in Handling => worker'[v].id \in Updates /\ sent'[worker'[v].id] # None
                    /\ worker'[v].at = "save" => worker'[v].reading \in Readings
                    /\ worker'[v].at \in {"code", "link"} => sent'[worker'[v].id].kind = "start"
                    /\ worker'[v].at = "done" => worker'[v].id \in told' \cup passed'
  OBVIOUS
<1>1. v \in Workers /\ worker'[v] = worker[v] /\ worker[v] \in WorkerRows
  BY DEF InboxInv, Shape
<1>2. worker[v].at = "poll" => \A u \in Updates : u <= worker[v].last => TakenIn(u)'
  BY <1>1 DEF InboxInv, Polls
<1>3. worker[v].at = "store" =>
         /\ worker[v].batch \subseteq Updates /\ worker[v].batch # {}
         /\ \A x \in worker[v].batch :
               /\ sent'[x] # None
               /\ \A u \in Updates : u <= x => u \in worker[v].batch \/ TakenIn(u)'
  <2> SUFFICES ASSUME worker[v].at = "store"
               PROVE  /\ worker[v].batch \subseteq Updates /\ worker[v].batch # {}
                      /\ \A x \in worker[v].batch :
                            /\ sent'[x] # None
                            /\ \A u \in Updates : u <= x => u \in worker[v].batch \/ TakenIn(u)'
    OBVIOUS
  <2>1. /\ worker[v].batch \subseteq Updates /\ worker[v].batch # {}
        /\ \A x \in worker[v].batch :
              /\ sent[x] # None
              /\ \A u \in Updates : u <= x => u \in worker[v].batch \/ TakenIn(u)
    BY <1>1 DEF InboxInv, Polls
  <2> QED BY <2>1
<1>4. worker[v].at \in Handling \cup {"next"} =>
         worker[v].batch \subseteq Claims /\ \A b \in worker[v].batch : sent'[b.id] # None
  <2> SUFFICES ASSUME worker[v].at \in Handling \cup {"next"}
               PROVE  worker[v].batch \subseteq Claims /\ \A b \in worker[v].batch : sent'[b.id] # None
    OBVIOUS
  <2>1. worker[v].batch \subseteq Claims /\ \A b \in worker[v].batch : sent[b.id] # None
    BY <1>1 DEF InboxInv, Passes
  <2>2. \A b \in worker[v].batch : b.id \in Updates
    BY <2>1 DEF Claims
  <2> QED BY <2>1, <2>2
<1>5. /\ worker[v].at \in Handling => worker[v].id \in Updates /\ sent'[worker[v].id] # None
      /\ worker[v].at = "save" => worker[v].reading \in Readings
      /\ worker[v].at \in {"code", "link"} => sent'[worker[v].id].kind = "start"
      /\ worker[v].at = "done" => worker[v].id \in told' \cup passed'
  BY <1>1 DEF InboxInv, Passes, Handling
<1> QED BY <1>1, <1>2, <1>3, <1>4, <1>5

(* A step of Telegram, of people or of time: no pass goes on.              *)
LEMMA OutsideStep ==
    ASSUME InboxInv, worker' = worker, expense' = expense,
           \A u \in Updates : sent[u] # None => sent'[u] = sent[u],
           \A u \in Updates : TakenIn(u) => TakenIn(u)',
           told \subseteq told', passed \subseteq passed', bot'.gen = bot.gen \/ bot'.gen # 1,
           TypeOK', SentInOrder', NothingLost', Offset', Answered'
    PROVE  InboxInv'
<1>1. DOMAIN worker' = Workers
  BY DEF InboxInv, Shape
<1>2. \A v \in Workers : worker'[v] = worker[v]
  OBVIOUS
<1>4. Polls'
  BY <1>1, <1>2, OthersKept DEF Polls
<1>5. Passes'
  BY <1>1, <1>2, OthersKept DEF Passes
<1>3. Shape' /\ Keys'
  BY DEF InboxInv, Shape, Keys
<1> QED BY <1>3, <1>4, <1>5 DEF InboxInv

(* A step of one worker.                                                   *)
LEMMA WorkersStep ==
    ASSUME InboxInv, NEW w \in Workers,
           worker' \in [Workers -> WorkerRows], \A v \in Workers \ {w} : worker'[v] = worker[v],
           sent' = sent, \A u \in Updates : TakenIn(u) => TakenIn(u)',
           told \subseteq told', passed \subseteq passed', bot'.gen = bot.gen,
           TypeOK', SentInOrder', NothingLost', Offset', Answered',
           expense' \subseteq Expenses,
           bot.gen = 1 => \A e \in expense' : e.key[1] = 1,
           \A e, f \in expense' : e.key = f.key => e = f,
           bot.gen = 1 /\ worker'[w].at \notin {"idle", "polled"} => worker'[w].gen = 1,
           worker'[w].at = "poll" => \A u \in Updates : u <= worker'[w].last => TakenIn(u)',
           worker'[w].at = "store" =>
              /\ worker'[w].batch \subseteq Updates /\ worker'[w].batch # {}
              /\ \A x \in worker'[w].batch :
                    /\ sent'[x] # None
                    /\ \A u \in Updates : u <= x => u \in worker'[w].batch \/ TakenIn(u)',
           worker'[w].at \in Handling \cup {"next"} =>
              worker'[w].batch \subseteq Claims /\ \A b \in worker'[w].batch : sent'[b.id] # None,
           worker'[w].at \in Handling => worker'[w].id \in Updates /\ sent'[worker'[w].id] # None,
           worker'[w].at = "save" => worker'[w].reading \in Readings,
           worker'[w].at \in {"code", "link"} => sent'[worker'[w].id].kind = "start",
           worker'[w].at = "done" => worker'[w].id \in told' \cup passed'
    PROVE  InboxInv'
<1> DEFINE busy == Workers \ {w}
<1>1. /\ busy \in SUBSET Workers /\ \A v \in busy : worker'[v] = worker[v]
      /\ \A v \in Workers : v = w \/ v \in busy
  OBVIOUS
<1> HIDE DEF busy
<1>0. DOMAIN worker' = Workers
  OBVIOUS
<1>2. Polls'
  BY <1>0, <1>1, OthersKept DEF Polls
<1>3. Passes'
  BY <1>0, <1>1, OthersKept, ZenonT(40) DEF Passes
<1>4. Shape'
  BY DEF Shape
<1>5. Keys'
  BY DEF InboxInv, Keys
<1> QED BY <1>2, <1>3, <1>4, <1>5 DEF InboxInv

-----------------------------------------------------------------------------
(* Rows change, but none comes or goes.                                    *)
LEMMA RowsKept ==
    ASSUME InboxInv, row' \in [Updates -> RowRows],
           \A u \in Updates : row[u].status = "absent" => row'[u] = row[u],
           \A u \in Updates : row[u].status # "absent" => row'[u].status # "absent"
    PROVE  /\ Stored' = Stored
           /\ \A u \in Updates : row'[u].status = "absent" => row'[u] = NoRow
<1>1. \A u \in Updates : row'[u].status = "absent" <=> row[u].status = "absent"
  OBVIOUS
<1> QED BY <1>1 DEF InboxInv, SentInOrder, Stored

(* Some are stored that were not.                                          *)
LEMMA StoredAll ==
    ASSUME InboxInv, NEW us \in SUBSET Updates, NEW g \in 0..2, row' = StoreAll(us, g)
    PROVE  /\ row' \in [Updates -> RowRows]
           /\ Stored' = Stored \cup us
           /\ \A u \in Updates : row'[u].status = "absent" => row'[u] = NoRow
           /\ \A u \in Updates : row'[u].status = "done" => row[u].status = "done"
<1>1. NewRow(g) \in RowRows /\ NewRow(g).status = "pending"
  BY Blank DEF NewRow, RowRows
<1>2. \A u \in Updates : row'[u] = IF u \in us /\ row[u] = NoRow THEN NewRow(g) ELSE row[u]
  BY DEF StoreAll
<1>3. row' \in [Updates -> RowRows]
  <2>1. row \in [Updates -> RowRows]
    BY DEF InboxInv, Shape, TypeOK, RowRows
  <2> QED BY <1>1, <2>1 DEF StoreAll
<1>4. \A u \in Updates : row[u].status = "absent" <=> row[u] = NoRow
  BY Blank DEF InboxInv, SentInOrder
<1>5. \A u \in Updates : row'[u].status = "absent" <=> row[u].status = "absent" /\ u \notin us
  BY <1>1, <1>2, <1>4
<1>6. Stored' = Stored \cup us
  BY <1>5 DEF Stored
<1> QED BY <1>1, <1>2, <1>3, <1>4, <1>5, <1>6

LEMMA TypeParts ==
    TypeOK <=>
       /\ sent \in [Updates -> Asks \cup {None}] /\ held \subseteq Updates /\ hook \in {"off", "early", "on"}
       /\ bot \in [gen : 0..2, mode : Modes \cup {None}, status : {"active", "paused", "error", None}, last : {0} \cup Updates]
       /\ row \in [Updates -> RowRows]
       /\ code \in [Users -> {"live", "over"}] /\ linked \in Users \cup {None}
BY DEF TypeOK, RowRows

LEMMA TypeNext ==
    TypeOK' <=>
       /\ sent' \in [Updates -> Asks \cup {None}] /\ held' \subseteq Updates /\ hook' \in {"off", "early", "on"}
       /\ bot' \in [gen : 0..2, mode : Modes \cup {None}, status : {"active", "paused", "error", None}, last : {0} \cup Updates]
       /\ row' \in [Updates -> RowRows]
       /\ code' \in [Users -> {"live", "over"}] /\ linked' \in Users \cup {None}
BY DEF TypeOK, RowRows

(* Nothing the invariant speaks of changes but what is named.              *)
LEMMA PeopleStep ==
    ASSUME InboxInv, UNCHANGED <<sent, held, row, expense, worker, passed, wiped, told>>,
           TypeOK', bot'.last = bot.last, bot'.gen = bot.gen
    PROVE  InboxInv'
<1>1. \A u \in Updates : TakenIn(u) => TakenIn(u)'
  BY DEF TakenIn, Stored
<1>2. SentInOrder' /\ NothingLost' /\ Offset' /\ Answered'
  BY <1>1 DEF InboxInv, SentInOrder, NothingLost, Offset, Answered, Stored
<1> QED BY <1>1, <1>2, OutsideStep

LEMMA SendStep ==
    ASSUME InboxInv, NEW u \in Updates, NEW ask \in Asks, Send(u, ask)
    PROVE  InboxInv'
<1>1. /\ sent[u] = None /\ \A v \in Updates : v < u => sent[v] # None
      /\ sent' = [sent EXCEPT ![u] = ask] /\ held' = held \cup {u}
      /\ UNCHANGED <<hook, bot, row, code, linked, expense, worker, passed, wiped, told>>
  BY DEF Send, people, past
<1>2. TypeOK
  BY DEF InboxInv, Shape
<1>3. sent'[u] = ask /\ ask # None /\ \A v \in Updates : v # u => sent'[v] = sent[v]
  BY <1>1, <1>2, InboxAssumption DEF TypeOK
<1>4. TypeOK'
  BY <1>1, <1>2 DEF TypeOK
<1>5. Stored' = Stored
  BY <1>1 DEF Stored
<1>6. \A v \in Updates : TakenIn(v) => TakenIn(v)'
  BY <1>1, <1>3, <1>5 DEF TakenIn
<1>7. SentInOrder'
  <2>1. \A x, y \in Updates : y < x /\ sent'[x] # None => sent'[y] # None
    BY <1>1, <1>3 DEF InboxInv, SentInOrder
  <2>2. \A x \in held' \cup Stored' : sent'[x] # None
    BY <1>1, <1>3, <1>5 DEF InboxInv, SentInOrder
  <2> QED BY <2>1, <2>2, <1>1 DEF InboxInv, SentInOrder
<1>8. NothingLost'
  BY <1>1, <1>3, <1>5 DEF InboxInv, NothingLost
<1>9. Offset' /\ Answered'
  BY <1>1, <1>6 DEF InboxInv, Offset, Answered
<1> QED BY <1>1, <1>3, <1>4, <1>6, <1>7, <1>8, <1>9, OutsideStep

LEMMA OrganizationSteps ==
    ASSUME InboxInv,
           \/ ProjectEnds \/ MessagingIdentityRevoke
           \/ \E m \in Users : CodeExpires(m)
           \/ \E p \in BOOLEAN : TelegramBotPause(p)
           \/ \E mode \in Modes : ApplyMode(mode)
           \/ TelegramBotUpdate
    PROVE  InboxInv'
<1>1. UNCHANGED <<sent, held, row, expense, worker, passed, wiped, told>>
  BY DEF ProjectEnds, MessagingIdentityRevoke, CodeExpires, TelegramBotPause, ApplyMode, TelegramBotUpdate,
         telegram, people, past
<1>2. /\ bot \in [gen : 0..2, mode : Modes \cup {None}, status : {"active", "paused", "error", None}, last : {0} \cup Updates]
      /\ hook \in {"off", "early", "on"} /\ code \in [Users -> {"live", "over"}] /\ linked \in Users \cup {None}
  BY DEF InboxInv, Shape, TypeOK
<1>3. hook' \in {"off", "early", "on"}
  BY <1>2 DEF ProjectEnds, MessagingIdentityRevoke, CodeExpires, TelegramBotPause, ApplyMode, TelegramBotUpdate, telegram
<1>4. code' \in [Users -> {"live", "over"}] /\ linked' \in Users \cup {None}
  BY <1>2 DEF ProjectEnds, MessagingIdentityRevoke, CodeExpires, TelegramBotPause, ApplyMode, TelegramBotUpdate, people
<1>5. /\ bot' \in [gen : 0..2, mode : Modes \cup {None}, status : {"active", "paused", "error", None}, last : {0} \cup Updates]
      /\ bot'.last = bot.last /\ bot'.gen = bot.gen
  BY <1>2 DEF ProjectEnds, MessagingIdentityRevoke, CodeExpires, TelegramBotPause, ApplyMode, TelegramBotUpdate, Modes
<1>6. TypeOK'
  BY <1>1, <1>3, <1>4, <1>5 DEF InboxInv, Shape, TypeOK
<1> QED BY <1>1, <1>5, <1>6, PeopleStep

LEMMA DisconnectStep ==
    ASSUME InboxInv, TelegramBotDisconnect
    PROVE  InboxInv'
<1>1. /\ bot' = NoBot /\ hook' = "off"
      /\ row' = [u \in Updates |-> NoRow] /\ wiped' = wiped \cup Stored
      /\ UNCHANGED <<sent, held, code, linked, expense, worker, passed, told>>
  BY DEF TelegramBotDisconnect, people
<1>2. TypeOK'
  <2>1. NoBot \in [gen : 0..2, mode : Modes \cup {None}, status : {"active", "paused", "error", None}, last : {0} \cup Updates]
    BY DEF NoBot
  <2>2. row' \in [Updates -> RowRows]
    BY <1>1, Blank
  <2> QED BY <1>1, <2>1, <2>2, TypeParts, TypeNext DEF InboxInv, Shape
<1>3. Stored' = {}
  BY <1>1, Blank DEF Stored
<1>4. \A u \in Updates : TakenIn(u) => TakenIn(u)'
  BY <1>1 DEF TakenIn
<1>5. SentInOrder' /\ NothingLost' /\ Answered'
  BY <1>1, <1>3, Blank DEF InboxInv, SentInOrder, NothingLost, Answered
<1>6. bot'.last = 0 /\ bot'.gen = 0
  BY <1>1 DEF NoBot
<1>7. Offset'
  BY <1>6, InboxAssumption DEF Offset
<1> QED BY <1>1, <1>2, <1>4, <1>5, <1>6, <1>7, OutsideStep

LEMMA ConnectStep ==
    ASSUME InboxInv, TelegramBotConnect
    PROVE  InboxInv'
<1>1. /\ bot' = [gen |-> 2, mode |-> "poll", status |-> "active", last |-> 0]
      /\ UNCHANGED <<sent, held, hook, row, code, linked, expense, worker, passed, wiped, told>>
  BY DEF TelegramBotConnect, telegram, people, past
<1>2. TypeOK'
  BY <1>1 DEF InboxInv, Shape, TypeOK, Modes
<1>3. \A u \in Updates : TakenIn(u) => TakenIn(u)'
  BY <1>1 DEF TakenIn, Stored
<1>4. SentInOrder' /\ NothingLost' /\ Answered'
  BY <1>1 DEF InboxInv, SentInOrder, NothingLost, Answered, Stored
<1>5. Offset'
  BY <1>1, InboxAssumption DEF Offset
<1> QED BY <1>1, <1>2, <1>3, <1>4, <1>5, OutsideStep

(* Telegram pushes an update.                                              *)
LEMMA ReceiveStep ==
    ASSUME InboxInv, NEW u \in Updates, ReceiveTelegramWebhook(u)
    PROVE  InboxInv'
<1>1. /\ u \in held /\ held' \subseteq held /\ held \subseteq held' \cup {u}
      /\ \/ row' = StoreAll({u}, bot.gen) /\ passed' = passed
         \/ row' = row /\ passed' = passed \cup {u}
      /\ UNCHANGED <<sent, hook, bot, code, linked, expense, worker, wiped, told>>
  BY DEF ReceiveTelegramWebhook, people
<1>2. bot.gen \in 0..2 /\ row \in [Updates -> RowRows] /\ sent[u] # None
  BY <1>1, TypeParts DEF InboxInv, Shape, SentInOrder
<1>3. /\ row' \in [Updates -> RowRows]
      /\ Stored \subseteq Stored' /\ Stored' \subseteq Stored \cup {u} /\ u \in Stored' \cup passed'
      /\ \A x \in Updates : row'[x].status = "absent" => row'[x] = NoRow
      /\ \A x \in Updates : row'[x].status = "done" => row[x].status = "done"
  <2>1. CASE row' = StoreAll({u}, bot.gen)
    BY <2>1, <1>2, StoredAll
  <2>2. CASE row' = row /\ passed' = passed \cup {u}
    BY <2>2, <1>2 DEF InboxInv, SentInOrder, Stored
  <2> QED BY <1>1, <2>1, <2>2
<1>4. TypeOK'
  BY <1>1, <1>3, TypeParts, TypeNext DEF InboxInv, Shape
<1>5. passed \subseteq passed'
  BY <1>1
<1>6. \A x \in Updates : TakenIn(x) => TakenIn(x)'
  BY <1>1, <1>3, <1>5 DEF TakenIn
<1>7. SentInOrder'
  BY <1>1, <1>2, <1>3 DEF InboxInv, SentInOrder
<1>8. NothingLost'
  BY <1>1, <1>3, <1>5 DEF InboxInv, NothingLost
<1>9. Offset' /\ Answered'
  BY <1>1, <1>3, <1>5, <1>6 DEF InboxInv, Offset, Answered
<1> QED BY <1>1, <1>4, <1>5, <1>6, <1>7, <1>8, <1>9, OutsideStep

(* A lease or a wait is over.                                              *)
LEMMA TimeStep ==
    ASSUME InboxInv, NEW u \in Updates, LeaseEnds(u) \/ WaitEnds(u)
    PROVE  InboxInv'
<1>1. /\ row[u].leased \/ row[u].status = "pending"
      /\ row' = [row EXCEPT ![u].leased = FALSE] \/ row' = [row EXCEPT ![u].waits = FALSE]
      /\ UNCHANGED <<sent, held, hook, bot, code, linked, expense, worker, passed, wiped, told>>
  BY DEF LeaseEnds, WaitEnds, telegram, people, past
<1>2. row \in [Updates -> RowRows] /\ row[u].status # "absent"
  <2>1. row \in [Updates -> RowRows]
    BY TypeParts DEF InboxInv, Shape
  <2>2. row[u].status = "absent" => row[u] = NoRow
    BY DEF InboxInv, SentInOrder
  <2>3. NoRow.leased = FALSE
    BY DEF NoRow
  <2> QED BY <1>1, <2>1, <2>2, <2>3
<1>3. /\ row' \in [Updates -> RowRows]
      /\ row'[u].status = row[u].status
      /\ \A v \in Updates : v # u => row'[v] = row[v]
  BY <1>1, <1>2, ZenonT(40) DEF RowRows
<1>4. Stored' = Stored /\ \A v \in Updates : row'[v].status = "absent" => row'[v] = NoRow
  BY <1>2, <1>3, RowsKept
<1>5. TypeOK'
  BY <1>1, <1>3, TypeParts, TypeNext DEF InboxInv, Shape
<1>6. \A x \in Updates : TakenIn(x) => TakenIn(x)'
  BY <1>1, <1>4 DEF TakenIn
<1>7. SentInOrder' /\ NothingLost' /\ Offset' /\ Answered'
  BY <1>1, <1>3, <1>4, <1>6 DEF InboxInv, SentInOrder, NothingLost, Offset, Answered
<1> QED BY <1>1, <1>5, <1>6, <1>7, OutsideStep

-----------------------------------------------------------------------------
(* A pass goes on without touching updates, rows or the bot.               *)
LEMMA PassStep ==
    ASSUME InboxInv, NEW w \in Workers,
           worker' \in [Workers -> WorkerRows], \A v \in Workers \ {w} : worker'[v] = worker[v],
           UNCHANGED <<sent, held, hook, bot, row, wiped>>,
           code' \in [Users -> {"live", "over"}], linked' \in Users \cup {None},
           told \subseteq told', passed \subseteq passed',
           expense' \subseteq Expenses,
           bot.gen = 1 => \A e \in expense' : e.key[1] = 1,
           \A e, f \in expense' : e.key = f.key => e = f,
           bot.gen = 1 /\ worker'[w].at \notin {"idle", "polled"} => worker'[w].gen = 1,
           worker'[w].at = "poll" => \A u \in Updates : u <= worker'[w].last => TakenIn(u),
           worker'[w].at # "store",
           worker'[w].at \in Handling \cup {"next"} =>
              worker'[w].batch \subseteq Claims /\ \A b \in worker'[w].batch : sent[b.id] # None,
           worker'[w].at \in Handling => worker'[w].id \in Updates /\ sent[worker'[w].id] # None,
           worker'[w].at = "save" => worker'[w].reading \in Readings,
           worker'[w].at \in {"code", "link"} => sent[worker'[w].id].kind = "start",
           worker'[w].at = "done" => worker'[w].id \in told' \cup passed'
    PROVE  InboxInv'
<1>1. TypeOK'
  BY TypeParts, TypeNext DEF InboxInv, Shape
<1>2. \A u \in Updates : TakenIn(u) => TakenIn(u)'
  BY DEF TakenIn, Stored
<1>3. SentInOrder' /\ NothingLost' /\ Offset' /\ Answered'
  BY <1>2 DEF InboxInv, SentInOrder, NothingLost, Offset, Answered, Stored
<1> QED BY <1>1, <1>2, <1>3, WorkersStep

(* What is known of a worker at work.                                      *)
LEMMA AtWork ==
    ASSUME InboxInv, NEW w \in Workers
    PROVE  /\ worker[w] \in WorkerRows
           /\ expense \subseteq Expenses /\ \A e, f \in expense : e.key = f.key => e = f
           /\ bot.gen = 1 => \A e \in expense : e.key[1] = 1
           /\ bot.gen = 1 /\ worker[w].at \notin {"idle", "polled"} => worker[w].gen = 1
           /\ worker[w].at \in Handling \cup {"next"} =>
                 worker[w].batch \subseteq Claims /\ \A b \in worker[w].batch : sent[b.id] # None
           /\ worker[w].at \in Handling => worker[w].id \in Updates /\ sent[worker[w].id] # None
           /\ code \in [Users -> {"live", "over"}] /\ linked \in Users \cup {None}
           /\ bot.gen \in 0..2 /\ bot.last \in {0} \cup Updates
           /\ bot.status \in {"active", "paused", "error", None}
BY TypeParts DEF InboxInv, Shape, Keys, Passes

(* A handler goes on with the update it has.                               *)
LEMMA GoesOn ==
    ASSUME InboxInv, NEW w \in Workers, NEW at \in Handling, Goes(w, at), worker[w].at \in Handling,
           UNCHANGED <<sent, held, hook, bot, row, wiped>>,
           code' \in [Users -> {"live", "over"}], linked' \in Users \cup {None},
           told \subseteq told', passed \subseteq passed',
           expense' \subseteq Expenses,
           bot.gen = 1 => \A e \in expense' : e.key[1] = 1,
           \A e, f \in expense' : e.key = f.key => e = f,
           at # "save",
           at \in {"code", "link"} => sent[worker[w].id].kind = "start",
           at = "done" => worker[w].id \in told' \cup passed'
    PROVE  InboxInv'
<1>1. /\ worker' \in [Workers -> WorkerRows]
      /\ worker'[w] = [worker[w] EXCEPT !.at = at]
      /\ \A v \in Workers \ {w} : worker'[v] = worker[v]
  <2>1. worker' = [worker EXCEPT ![w].at = at]
    BY DEF Goes
  <2> QED BY <2>1 DEF InboxInv, Shape, WorkerRows
<1>2. /\ worker'[w].at = at /\ worker'[w].gen = worker[w].gen /\ worker'[w].batch = worker[w].batch
      /\ worker'[w].id = worker[w].id
  BY <1>1, AtWork DEF WorkerRows
<1>3. at \notin {"idle", "polled", "poll", "store", "next"} /\ worker[w].at \notin {"idle", "polled"}
  BY DEF Handling
<1> QED BY <1>1, <1>2, <1>3, AtWork, PassStep, ZenonT(40)

LEMMA PollBeginStep ==
    ASSUME InboxInv, NEW w \in Workers, PollBegin(w)
    PROVE  InboxInv'
<1> DEFINE new == [Idle EXCEPT !.at = "poll", !.gen = bot.gen, !.last = bot.last, !.was = bot.status]
<1>1. /\ worker' = [worker EXCEPT ![w] = new]
      /\ UNCHANGED <<sent, held, hook, bot, row, code, linked, expense, passed, wiped, told>>
  BY DEF PollBegin, telegram, people, past
<1>2. new \in WorkerRows /\ new.at = "poll" /\ new.gen = bot.gen /\ new.last = bot.last
  BY Blank, AtWork, ZenonT(40) DEF WorkerRows
<1> HIDE DEF new
<1>3. worker' \in [Workers -> WorkerRows] /\ worker'[w] = new /\ \A v \in Workers \ {w} : worker'[v] = worker[v]
  BY <1>1, <1>2 DEF InboxInv, Shape
<1>4. \A u \in Updates : u <= new.last => TakenIn(u)
  BY <1>2 DEF InboxInv, Offset
<1>5. new.at \notin Handling \cup {"next", "store", "save", "code", "link", "done"}
  BY <1>2 DEF Handling
<1> QED BY <1>1, <1>2, <1>3, <1>4, <1>5, AtWork, PassStep

LEMMA ProcessBeginStep ==
    ASSUME InboxInv, NEW w \in Workers, ProcessBegin(w)
    PROVE  InboxInv'
<1> DEFINE new == [Idle EXCEPT !.at = "claim", !.gen = bot.gen, !.was = bot.status]
<1>1. /\ worker' = [worker EXCEPT ![w] = new]
      /\ UNCHANGED <<sent, held, hook, bot, row, code, linked, expense, passed, wiped, told>>
  BY DEF ProcessBegin, telegram, people, past
<1>2. new \in WorkerRows /\ new.at = "claim" /\ new.gen = bot.gen
  BY Blank, AtWork, ZenonT(40) DEF WorkerRows
<1> HIDE DEF new
<1>3. worker' \in [Workers -> WorkerRows] /\ worker'[w] = new /\ \A v \in Workers \ {w} : worker'[v] = worker[v]
  BY <1>1, <1>2 DEF InboxInv, Shape
<1>5. new.at \notin Handling \cup {"next", "store", "save", "code", "link", "done", "poll"}
  BY <1>2 DEF Handling
<1> QED BY <1>1, <1>2, <1>3, <1>5, AtWork, PassStep

LEMMA CrashStep ==
    ASSUME InboxInv, NEW w \in Workers, Crash(w)
    PROVE  InboxInv'
<1>1. /\ worker' = [worker EXCEPT ![w] = Idle]
      /\ UNCHANGED <<sent, held, hook, bot, row, code, linked, expense, passed, wiped, told>>
  BY DEF Crash, telegram, people, past
<1>3. worker' \in [Workers -> WorkerRows] /\ worker'[w] = Idle /\ \A v \in Workers \ {w} : worker'[v] = worker[v]
  BY <1>1, Blank DEF InboxInv, Shape
<1>5. Idle.at \notin Handling \cup {"next", "store", "save", "code", "link", "done", "poll"}
  BY Blank DEF Handling
<1> QED BY <1>1, <1>3, <1>5, AtWork, Blank, PassStep

(* What a poll asks for is all it was not told before.                     *)
LEMMA GetUpdatesStep ==
    ASSUME InboxInv, NEW w \in Workers, GetUpdates(w)
    PROVE  InboxInv'
<1> DEFINE left  == held \ Taken(w)
           batch == {u \in Updates : u > worker[w].last} \cap held
<1>1. /\ worker[w].at = "poll"
      /\ UNCHANGED <<sent, hook, row, code, linked, expense, passed, wiped, told>>
      /\ \/ /\ held' = left
            /\ worker' = [worker EXCEPT ![w] = IF batch = {} THEN Polled ELSE [@ EXCEPT !.at = "store", !.batch = batch]]
         \/ /\ held' = held
            /\ worker' = [worker EXCEPT ![w] = Polled]
      /\ bot' = bot \/ bot' = [bot EXCEPT !.status = "active"] \/ bot' = [bot EXCEPT !.status = "error"]
  BY DEF GetUpdates, people, past
<1>2. /\ worker[w] \in WorkerRows /\ held \subseteq Updates /\ worker[w].last \in Nat
      /\ \A u \in Updates : u \in Nat
  BY <1>1, InboxAssumption, TypeParts DEF InboxInv, Shape, WorkerRows
<1>3. /\ bot' \in [gen : 0..2, mode : Modes \cup {None}, status : {"active", "paused", "error", None}, last : {0} \cup Updates]
      /\ bot'.gen = bot.gen /\ bot'.last = bot.last
  <2>1. bot \in [gen : 0..2, mode : Modes \cup {None}, status : {"active", "paused", "error", None}, last : {0} \cup Updates]
    BY TypeParts DEF InboxInv, Shape
  <2> QED BY <1>1, <2>1
<1>4. \A u \in Updates : u <= worker[w].last => TakenIn(u)
  BY <1>1 DEF InboxInv, Polls
<1>5. held' \subseteq held /\ \A u \in held \ held' : TakenIn(u)
  BY <1>1, <1>2, <1>4 DEF Taken
<1>6. TypeOK'
  BY <1>1, <1>2, <1>3, <1>5, TypeParts, TypeNext DEF InboxInv, Shape
<1>7. \A u \in Updates : TakenIn(u) <=> TakenIn(u)'
  BY <1>1 DEF TakenIn, Stored
<1>8. NothingLost'
  BY <1>1, <1>5 DEF InboxInv, NothingLost, TakenIn, Stored
<1>9. SentInOrder' /\ Offset' /\ Answered'
  BY <1>1, <1>3, <1>5, <1>7 DEF InboxInv, SentInOrder, Offset, Answered, Stored
<1>10. \A x \in batch : /\ sent[x] # None
                        /\ \A u \in Updates : u <= x => u \in batch \/ TakenIn(u)
  <2> SUFFICES ASSUME NEW x \in batch, NEW u \in Updates, u <= x, u \notin batch
               PROVE  TakenIn(u)
    BY DEF InboxInv, SentInOrder
  <2>1. u <= worker[w].last \/ u \notin held
    BY <1>2
  <2>2. sent[u] # None
    BY <1>2 DEF InboxInv, SentInOrder
  <2>3. u \notin held => TakenIn(u)
    BY <2>2 DEF InboxInv, NothingLost, TakenIn
  <2> QED BY <2>1, <2>3, <1>4
<1> DEFINE new == worker'[w]
<1>11. /\ \A v \in Workers \ {w} : worker'[v] = worker[v]
       /\ worker'[w] = Polled \/ (batch # {} /\ worker'[w] = [worker[w] EXCEPT !.at = "store", !.batch = batch])
       /\ DOMAIN worker' = Workers
  BY <1>1 DEF InboxInv, Shape
<1>12. [worker[w] EXCEPT !.at = "store", !.batch = batch] \in WorkerRows
  <2>1. batch \subseteq Updates
    OBVIOUS
  <2> HIDE DEF batch
  <2> QED BY <1>2, <2>1 DEF WorkerRows
<1>13. worker' \in [Workers -> WorkerRows]
  BY <1>1, <1>12, Blank DEF InboxInv, Shape
<1>14. CASE worker'[w] = Polled
  <2>1. Polled.at \notin Handling \cup {"next", "store", "save", "code", "link", "done", "poll"}
    BY Blank DEF Handling
  <2> QED BY <1>1, <1>3, <1>6, <1>7, <1>8, <1>9, <1>11, <1>13, <1>14, <2>1, Blank, AtWork, WorkersStep
<1>15. CASE batch # {} /\ worker'[w] = [worker[w] EXCEPT !.at = "store", !.batch = batch]
  <2>1. /\ worker'[w].at = "store" /\ worker'[w].batch = batch /\ worker'[w].gen = worker[w].gen
        /\ batch \subseteq Updates
    BY <1>2, <1>15 DEF WorkerRows
  <2>2. "store" \notin Handling \cup {"next", "save", "code", "link", "done", "poll"}
    BY DEF Handling
  <2> HIDE DEF batch
  <2>3. \A x \in worker'[w].batch :
             /\ sent'[x] # None
             /\ \A u \in Updates : u <= x => u \in worker'[w].batch \/ TakenIn(u)'
    <3>1. sent' = sent /\ worker'[w].batch = batch
      BY <2>1, <1>1
    <3> SUFFICES ASSUME NEW x \in batch
                 PROVE  /\ sent[x] # None
                        /\ \A u \in Updates : u <= x => u \in batch \/ TakenIn(u)'
      BY <3>1, Zenon
    <3> QED BY <1>7, <1>10
  <2>4. bot.gen = 1 => worker'[w].gen = 1
    BY <1>1, <2>1, AtWork
  <2>5. /\ worker'[w].at \notin Handling \cup {"next", "save", "code", "link", "done", "poll"}
        /\ worker'[w].batch \subseteq Updates /\ worker'[w].batch # {}
    BY <1>15, <2>1, <2>2
  <2>6. /\ UNCHANGED <<sent, expense, passed, told>>
        /\ \A v \in Workers \ {w} : worker'[v] = worker[v]
    BY <1>1, <1>11
  <2> QED BY <1>3, <1>6, <1>7, <1>8, <1>9, <1>13, <2>3, <2>4, <2>5, <2>6, AtWork, WorkersStep
<1> QED BY <1>11, <1>14, <1>15

(* What a poll brought is stored, and the offset is its last.              *)
LEMMA PollStoreStep ==
    ASSUME InboxInv, NEW w \in Workers, PollStore(w)
    PROVE  InboxInv'
<1> DEFINE us == worker[w].batch
<1>1. /\ worker[w].at = "store" /\ worker' = [worker EXCEPT ![w] = Polled]
      /\ UNCHANGED <<sent, held, hook, code, linked, expense, passed, wiped, told>>
      /\ \/ row' = StoreAll(us, bot.gen) /\ bot' = [bot EXCEPT !.last = MaxOf(us), !.status = "active"]
         \/ row' = row /\ bot' = bot
  BY DEF PollStore, telegram, people, past
<1>2. /\ us \in SUBSET Updates /\ us # {}
      /\ \A x \in us : /\ sent[x] # None
                       /\ \A u \in Updates : u <= x => u \in us \/ TakenIn(u)
  BY <1>1 DEF InboxInv, Polls
<1> HIDE DEF us
<1>3. /\ bot \in [gen : 0..2, mode : Modes \cup {None}, status : {"active", "paused", "error", None}, last : {0} \cup Updates]
      /\ row \in [Updates -> RowRows]
  BY TypeParts DEF InboxInv, Shape
<1>4. /\ row' \in [Updates -> RowRows]
      /\ Stored \subseteq Stored' /\ \A u \in Stored' : sent[u] # None
      /\ \A u \in Updates : row'[u].status = "absent" => row'[u] = NoRow
      /\ \A u \in Updates : row'[u].status = "done" => row[u].status = "done"
      /\ bot' = bot \/ us \subseteq Stored'
  <2>1. CASE row' = StoreAll(us, bot.gen)
    <3>1. /\ row' \in [Updates -> RowRows]
          /\ Stored' = Stored \cup us
          /\ \A u \in Updates : row'[u].status = "absent" => row'[u] = NoRow
          /\ \A u \in Updates : row'[u].status = "done" => row[u].status = "done"
      BY <2>1, <1>2, <1>3, StoredAll
    <3> QED BY <3>1, <1>2 DEF InboxInv, SentInOrder
  <2>2. CASE row' = row /\ bot' = bot
    BY <2>2, <1>3 DEF InboxInv, SentInOrder, Stored
  <2> QED BY <1>1, <2>1, <2>2
<1>5. MaxOf(us) \in us
  BY <1>2, InboxAssumption DEF MaxOf
<1>6. /\ bot' \in [gen : 0..2, mode : Modes \cup {None}, status : {"active", "paused", "error", None}, last : {0} \cup Updates]
      /\ bot'.gen = bot.gen
      /\ bot' = bot \/ bot'.last = MaxOf(us)
  BY <1>1, <1>2, <1>3, <1>5
<1>7. TypeOK'
  BY <1>1, <1>4, <1>6, TypeParts, TypeNext DEF InboxInv, Shape
<1>8. \A u \in Updates : TakenIn(u) => TakenIn(u)'
  BY <1>1, <1>4 DEF TakenIn
<1>9. SentInOrder' /\ NothingLost' /\ Answered'
  BY <1>1, <1>4 DEF InboxInv, SentInOrder, NothingLost, Answered
<1>10. Offset'
  <2>1. CASE bot' = bot
    BY <2>1, <1>8 DEF InboxInv, Offset
  <2>2. CASE bot' # bot
    <3> SUFFICES ASSUME NEW u \in Updates, u <= MaxOf(us)
                 PROVE  TakenIn(u)'
      BY <2>2, <1>6 DEF Offset
    <3>1. u \in us => TakenIn(u)'
      BY <2>2, <1>1, <1>2, <1>4 DEF TakenIn
    <3> QED BY <3>1, <1>2, <1>5, <1>8
  <2> QED BY <2>1, <2>2
<1>11. worker' \in [Workers -> WorkerRows] /\ worker'[w] = Polled /\ \A v \in Workers \ {w} : worker'[v] = worker[v]
  BY <1>1, Blank DEF InboxInv, Shape
<1>12. Polled.at \notin Handling \cup {"next", "store", "save", "code", "link", "done", "poll"}
  BY Blank DEF Handling
<1>13. UNCHANGED <<sent, expense, passed, told>>
  BY <1>1
<1> QED BY <1>6, <1>7, <1>8, <1>9, <1>10, <1>11, <1>12, <1>13, Blank, AtWork, WorkersStep

(* A pass takes what is due.                                               *)
LEMMA ClaimStep ==
    ASSUME InboxInv, NEW w \in Workers, Claim(w)
    PROVE  InboxInv'
<1> DEFINE claims == {[id |-> u, row |-> row'[u]] : u \in Due}
           new    == [worker[w] EXCEPT !.at = "next", !.batch = claims]
<1>1. /\ worker[w].at = "claim"
      /\ row' = [u \in Updates |-> IF u \in Due THEN [row[u] EXCEPT !.leased = TRUE, !.attempts = @ + 1] ELSE row[u]]
      /\ worker' = [worker EXCEPT ![w] = IF Due = {} THEN Idle ELSE new]
      /\ UNCHANGED <<sent, held, hook, bot, code, linked, expense, passed, wiped, told>>
  BY DEF Claim, telegram, people, past
<1>2. row \in [Updates -> RowRows] /\ worker[w] \in WorkerRows
  BY TypeParts, AtWork DEF InboxInv, Shape
<1>3. Due \subseteq Updates /\ \A u \in Due : row[u].status = "pending" /\ sent[u] # None
  BY DEF InboxInv, SentInOrder, Stored, Due, Claimable
<1>4. \A u \in Updates : row'[u] \in RowRows /\ row'[u].status = row[u].status /\ (u \notin Due => row'[u] = row[u])
  <2> SUFFICES ASSUME NEW u \in Updates
               PROVE  row'[u] \in RowRows /\ row'[u].status = row[u].status /\ (u \notin Due => row'[u] = row[u])
    OBVIOUS
  <2>1. row[u] \in RowRows
    BY <1>2
  <2>2. row'[u] = IF u \in Due THEN [row[u] EXCEPT !.leased = TRUE, !.attempts = @ + 1] ELSE row[u]
    BY <1>1
  <2>3. u \in Due => /\ row'[u] = [row[u] EXCEPT !.leased = TRUE, !.attempts = row[u].attempts + 1]
                     /\ row[u].attempts + 1 \in Nat
    BY <2>1, <2>2 DEF RowRows
  <2>4. CASE u \in Due
    BY <2>1, <2>3, <2>4 DEF RowRows
  <2> QED BY <2>1, <2>2, <2>4
<1>5. row' \in [Updates -> RowRows]
  BY <1>1, <1>4
<1>6. Stored' = Stored /\ \A u \in Updates : row'[u].status = "absent" => row'[u] = NoRow
  BY <1>3, <1>4, <1>5, RowsKept
<1>7. TypeOK'
  BY <1>1, <1>5, TypeParts, TypeNext DEF InboxInv, Shape
<1>8. \A u \in Updates : TakenIn(u) => TakenIn(u)'
  BY <1>1, <1>6 DEF TakenIn
<1>9. SentInOrder' /\ NothingLost' /\ Offset' /\ Answered'
  BY <1>1, <1>4, <1>6, <1>8 DEF InboxInv, SentInOrder, NothingLost, Offset, Answered
<1>10. claims \subseteq Claims /\ \A b \in claims : sent[b.id] # None
  BY <1>3, <1>4 DEF Claims
<1> HIDE DEF claims
<1>11. new \in WorkerRows /\ new.at = "next" /\ new.batch = claims /\ new.gen = worker[w].gen
  BY <1>2, <1>10 DEF WorkerRows
<1> HIDE DEF new
<1>12. /\ worker' \in [Workers -> WorkerRows] /\ (worker'[w] = Idle \/ worker'[w] = new)
       /\ \A v \in Workers \ {w} : worker'[v] = worker[v]
  BY <1>1, <1>11, Blank DEF InboxInv, Shape
<1>13. /\ {Idle.at, new.at} \cap (Handling \cup {"store", "save", "code", "link", "done", "poll"}) = {}
       /\ Idle.at # "next"
  BY <1>11, Blank DEF Handling
<1>14. bot.gen = 1 => new.gen = 1
  BY <1>1, <1>11, AtWork
<1>15. /\ UNCHANGED <<sent, expense, passed, told>> /\ bot'.gen = bot.gen
  BY <1>1
<1>16. worker' \in [Workers -> WorkerRows]
  BY <1>1, <1>11, Blank DEF InboxInv, Shape
<1> QED BY <1>7, <1>8, <1>9, <1>10, <1>11, <1>12, <1>13, <1>14, <1>15, <1>16, Blank, AtWork, WorkersStep

(* A pass comes to the next it has claimed.                                *)
LEMMA ProcessUpdateStep ==
    ASSUME InboxInv, NEW w \in Workers, ProcessUpdate(w)
    PROVE  InboxInv'
<1>1. PICK b \in worker[w].batch :
        /\ worker' = [worker EXCEPT ![w] = [worker[w] EXCEPT !.batch = @ \ {b}, !.id = b.id, !.row = b.row,
               !.at = IF worker[w].was = "paused" THEN "done" ELSE LinkedMember(sent[b.id])]]
        /\ passed' = IF worker[w].was = "paused" THEN passed \cup {b.id} ELSE passed
  BY DEF ProcessUpdate
<1>2. /\ worker[w].at = "next"
      /\ UNCHANGED <<sent, held, hook, bot, row, code, linked, expense, wiped, told>>
  BY DEF ProcessUpdate, At, telegram, people
<1>3. /\ worker[w] \in WorkerRows /\ worker[w].batch \subseteq Claims /\ \A c \in worker[w].batch : sent[c.id] # None
      /\ b.id \in Updates /\ b.row \in RowRows /\ sent[b.id] # None
  BY <1>1, <1>2, AtWork DEF Claims
<1> DEFINE at  == IF worker[w].was = "paused" THEN "done" ELSE LinkedMember(sent[b.id])
           rest == worker[w].batch \ {b}
           new == [worker[w] EXCEPT !.batch = rest, !.id = b.id, !.row = b.row, !.at = at]
<1>4. /\ at \in {"done", "code", "answer", "read", "press"}
      /\ at = "done" => b.id \in passed'
      /\ at = "code" => sent[b.id].kind = "start"
  BY <1>1 DEF LinkedMember
<1>5. worker' = [worker EXCEPT ![w] = new]
  BY <1>1
<1> HIDE DEF at
<1>6. rest \subseteq Claims /\ rest \subseteq Updates \cup Claims /\ \A c \in rest : sent[c.id] # None
  BY <1>3
<1> HIDE DEF rest
<1>7. /\ new \in WorkerRows /\ new.at = at /\ new.batch = rest /\ new.gen = worker[w].gen /\ new.id = b.id
  BY <1>3, <1>4, <1>6 DEF WorkerRows, Handling
<1> HIDE DEF new
<1>8. worker' \in [Workers -> WorkerRows] /\ worker'[w] = new /\ \A v \in Workers \ {w} : worker'[v] = worker[v]
  BY <1>5, <1>7 DEF InboxInv, Shape
<1>9. bot.gen = 1 => new.gen = 1
  BY <1>2, <1>7, AtWork
<1>10. passed \subseteq passed' /\ UNCHANGED <<sent, held, hook, bot, row, wiped, expense, told, code, linked>>
  BY <1>1, <1>2
<1> QED BY <1>3, <1>4, <1>6, <1>7, <1>8, <1>9, <1>10, AtWork, PassStep

(* The receipt is read, or was read before.                                *)
LEMMA ReadReceiptStep ==
    ASSUME InboxInv, NEW w \in Workers, ReadReceipt(w)
    PROVE  InboxInv'
<1>1. /\ worker[w].at = "read"
      /\ UNCHANGED <<sent, held, hook, bot, row, code, linked, expense, passed, wiped, told>>
  BY DEF ReadReceipt, At, telegram, people, past
<1>2. worker[w] \in WorkerRows /\ worker[w].row \in RowRows
  BY AtWork DEF WorkerRows
<1>3. PICK at \in {"create", "save"}, r \in Readings :
         worker' = [worker EXCEPT ![w] = [worker[w] EXCEPT !.at = at, !.reading = r, !.note = Note]]
  <2>1. CASE worker[w].row.reading # None
    <3>1. worker[w].row.reading \in Readings
      BY <2>1, <1>2 DEF RowRows
    <3>2. worker' = [worker EXCEPT ![w] = [worker[w] EXCEPT !.at = "create", !.reading = worker[w].row.reading, !.note = Note]]
      BY <2>1 DEF ReadReceipt
    <3> QED BY <3>1, <3>2
  <2>2. CASE worker[w].row.reading = None
    <3>1. PICK r \in Readings :
            worker' = [worker EXCEPT ![w] = [worker[w] EXCEPT !.at = "save", !.reading = r, !.note = Note]]
      BY <2>2 DEF ReadReceipt
    <3> QED BY <3>1
  <2> QED BY <2>1, <2>2
<1>4. Note \in {"none", "caption", None}
  BY DEF Note
<1> DEFINE new == [worker[w] EXCEPT !.at = at, !.reading = r, !.note = Note]
<1>5. /\ new \in WorkerRows /\ new.at = at /\ new.reading = r
      /\ new.batch = worker[w].batch /\ new.gen = worker[w].gen /\ new.id = worker[w].id
  BY <1>2, <1>4 DEF WorkerRows, Handling
<1>6. worker' = [worker EXCEPT ![w] = new]
  BY <1>3
<1> HIDE DEF new
<1>7. worker' \in [Workers -> WorkerRows] /\ worker'[w] = new /\ \A v \in Workers \ {w} : worker'[v] = worker[v]
  BY <1>5, <1>6 DEF InboxInv, Shape
<1>8. at \in Handling /\ at \notin {"code", "link", "done", "poll", "store", "next"} /\ "read" \in Handling
  BY DEF Handling
<1> QED BY <1>1, <1>5, <1>7, <1>8, AtWork, PassStep

(* What runs under a key runs once.                                        *)
LEMMA CreateFromReceiptStep ==
    ASSUME InboxInv, NEW w \in Workers, CreateFromReceipt(w)
    PROVE  InboxInv'
<1> DEFINE new == [key |-> IdempotencyKey(w), reading |-> worker[w].reading, note |-> worker[w].note, status |-> "draft"]
<1>1. /\ worker[w].at = "create" /\ Goes(w, "answer")
      /\ expense' = IF Ran(w) # {} THEN expense ELSE expense \cup {new}
      /\ UNCHANGED <<sent, held, hook, bot, row, code, linked, passed, wiped, told>>
  BY DEF CreateFromReceipt, At, telegram, people, past
<1>2. worker[w].at \in Handling /\ "answer" \in Handling
  BY <1>1 DEF Handling
<1>3. worker[w] \in WorkerRows /\ worker[w].id \in Updates
  BY <1>2, AtWork
<1>4. new \in Expenses /\ new.key = IdempotencyKey(w) /\ new.key[1] = worker[w].gen
  <2>1. IdempotencyKey(w) \in (0..2) \X Updates /\ IdempotencyKey(w)[1] = worker[w].gen
    BY <1>3 DEF IdempotencyKey, Id, WorkerRows
  <2>2. worker[w].reading \in Readings \cup {None} /\ worker[w].note \in {"none", "caption", None}
    BY <1>3 DEF WorkerRows
  <2> QED BY <2>1, <2>2 DEF Expenses
<1> HIDE DEF new
<1>5. expense' \subseteq Expenses
  BY <1>1, <1>4, AtWork
<1>6. bot.gen = 1 => \A e \in expense' : e.key[1] = 1
  BY <1>1, <1>4, AtWork
<1>7. \A e, f \in expense' : e.key = f.key => e = f
  <2>1. expense' = expense \/ (Ran(w) = {} /\ expense' = expense \cup {new})
    BY <1>1
  <2>2. Ran(w) = {} => \A e \in expense : e.key # new.key
    BY <1>4 DEF Ran
  <2> QED BY <2>1, <2>2, AtWork
<1>8. \A f \in {"save", "code", "link", "done"} : "answer" # f
  OBVIOUS
<1> QED BY <1>1, <1>2, <1>5, <1>6, <1>7, <1>8, AtWork, GoesOn

(* A button changes what it names, and no key.                             *)
LEMMA HandleButtonStep ==
    ASSUME InboxInv, NEW w \in Workers, HandleButton(w)
    PROVE  InboxInv'
<1> DEFINE status(e) == CASE e.key[2] # Ask(w).of \/ e.status = "gone" -> e.status
                          [] Ask(w).kind = "confirm" -> "confirmed"
                          [] OTHER -> "gone"
           press(e)  == [e EXCEPT !.status = status(e)]
<1>1. /\ worker[w].at = "press" /\ Goes(w, "answer")
      /\ expense' = {press(e) : e \in expense}
      /\ UNCHANGED <<sent, held, hook, bot, row, code, linked, passed, wiped, told>>
  BY DEF HandleButton, At, telegram, people, past
<1>2. worker[w].at \in Handling /\ "answer" \in Handling
  BY <1>1 DEF Handling
<1>3. \A e \in expense : press(e) \in Expenses /\ press(e).key = e.key
  <2> SUFFICES ASSUME NEW e \in expense PROVE press(e) \in Expenses /\ press(e).key = e.key
    OBVIOUS
  <2>1. e \in Expenses
    BY AtWork
  <2>2. status(e) \in {"draft", "confirmed", "gone"}
    BY <2>1 DEF Expenses
  <2> HIDE DEF status
  <2> QED BY <2>1, <2>2 DEF Expenses
<1> HIDE DEF press
<1>4. \A e \in expense' : \E f \in expense : e = press(f)
  BY <1>1
<1>5. expense' \subseteq Expenses
  BY <1>3, <1>4
<1>6. bot.gen = 1 => \A e \in expense' : e.key[1] = 1
  BY <1>3, <1>4, AtWork
<1>7. \A e, f \in expense' : e.key = f.key => e = f
  <2> SUFFICES ASSUME NEW e \in expense', NEW f \in expense', e.key = f.key PROVE e = f
    OBVIOUS
  <2>1. PICK d \in expense, g \in expense : e = press(d) /\ f = press(g)
    BY <1>4
  <2>2. d = g
    BY <2>1, <1>3, AtWork
  <2> QED BY <2>1, <2>2
<1>8. \A f \in {"save", "code", "link", "done"} : "answer" # f
  OBVIOUS
<1> QED BY <1>1, <1>2, <1>5, <1>6, <1>7, <1>8, AtWork, GoesOn

(* What was read is kept with the row, if the row is still there.          *)
LEMMA SaveReadingStep ==
    ASSUME InboxInv, NEW w \in Workers, SaveReading(w)
    PROVE  InboxInv'
<1>1. /\ worker[w].at = "save" /\ worker' = [worker EXCEPT ![w].at = "create"]
      /\ row' = IF Mine(w) THEN [row EXCEPT ![worker[w].id].reading = worker[w].reading] ELSE row
      /\ UNCHANGED <<sent, held, hook, bot, code, linked, expense, passed, wiped, told>>
  BY DEF SaveReading, At, Goes, Id, telegram, people, past
<1>2. worker[w].at \in Handling
  BY <1>1 DEF Handling
<1>3. /\ worker[w] \in WorkerRows /\ worker[w].id \in Updates /\ sent[worker[w].id] # None
      /\ worker[w].reading \in Readings
      /\ row \in [Updates -> RowRows]
  BY <1>1, <1>2, AtWork, TypeParts DEF InboxInv, Shape, Passes
<1>4. /\ row' \in [Updates -> RowRows]
      /\ \A u \in Updates : row'[u].status = row[u].status /\ (row[u].status = "absent" => row'[u] = row[u])
  <2>1. CASE Mine(w)
    <3>1. row[worker[w].id].status # "absent"
      BY <2>1 DEF Mine, Id
    <3>2. row' = [row EXCEPT ![worker[w].id].reading = worker[w].reading]
      BY <2>1, <1>1
    <3> QED BY <3>1, <3>2, <1>3 DEF RowRows
  <2>2. CASE ~Mine(w)
    BY <2>2, <1>1, <1>3
  <2> QED BY <2>1, <2>2
<1>5. Stored' = Stored /\ \A u \in Updates : row'[u].status = "absent" => row'[u] = NoRow
  BY <1>4, RowsKept
<1>6. TypeOK'
  BY <1>1, <1>4, TypeParts, TypeNext DEF InboxInv, Shape
<1>7. \A u \in Updates : TakenIn(u) => TakenIn(u)'
  BY <1>1, <1>5 DEF TakenIn
<1>8. SentInOrder' /\ NothingLost' /\ Offset' /\ Answered'
  BY <1>1, <1>4, <1>5, <1>7 DEF InboxInv, SentInOrder, NothingLost, Offset, Answered
<1>9. /\ worker' \in [Workers -> WorkerRows] /\ worker'[w] = [worker[w] EXCEPT !.at = "create"]
      /\ \A v \in Workers \ {w} : worker'[v] = worker[v]
  BY <1>1 DEF InboxInv, Shape, WorkerRows, Handling
<1>10. /\ worker'[w].at = "create" /\ worker'[w].gen = worker[w].gen /\ worker'[w].batch = worker[w].batch
       /\ worker'[w].id = worker[w].id
  BY <1>9, <1>3 DEF WorkerRows
<1>11. UNCHANGED <<sent, expense, passed, told>> /\ bot'.gen = bot.gen
  BY <1>1
<1> QED BY <1>2, <1>3, <1>1, <1>6, <1>7, <1>8, <1>9, <1>10, <1>11, AtWork, WorkersStep

(* The steps that only go on: a code is spent, the account linked, the     *)
(* sender answered, or something throws.                                   *)
LEMMA GoingOnSteps ==
    ASSUME InboxInv, NEW w \in Workers, UseCode(w) \/ Link(w) \/ Answer(w) \/ Throws(w)
    PROVE  InboxInv'
<1>1. /\ UNCHANGED <<sent, held, hook, bot, row, expense, passed, wiped>>
      /\ worker[w].at \in Handling
  BY DEF UseCode, Link, Answer, Throws, At, Handling, telegram, people, past
<1>2. /\ worker[w].id \in Updates
      /\ expense' \subseteq Expenses /\ \A e, f \in expense' : e.key = f.key => e = f
      /\ bot.gen = 1 => \A e \in expense' : e.key[1] = 1
      /\ code \in [Users -> {"live", "over"}] /\ linked \in Users \cup {None}
  BY <1>1, AtWork
<1>3. \A at \in {"link", "answer", "done", "failed"} : at \in Handling /\ at # "save"
  BY DEF Handling
<1>4. worker[w].at \in {"code", "link"} => sent[worker[w].id].kind = "start" /\ sent[worker[w].id].of \in Users
  <2>1. worker[w].at \in {"code", "link"} => sent[worker[w].id].kind = "start" /\ sent[worker[w].id] # None
    BY <1>1 DEF InboxInv, Passes
  <2>2. \A ask \in Asks : ask.kind = "start" => ask.of \in Users
    BY DEF Asks
  <2>3. sent[worker[w].id] \in Asks \cup {None}
    BY <1>2, TypeParts DEF InboxInv, Shape
  <2> QED BY <2>1, <2>2, <2>3
<1>5. CASE UseCode(w)
  <2>1. /\ worker[w].at = "code" /\ UNCHANGED <<linked, told>> /\ (Goes(w, "link") \/ Goes(w, "answer"))
        /\ code' = code \/ code' = [code EXCEPT ![sent[worker[w].id].of] = "over"]
    BY <1>5 DEF UseCode, At, Ask, Id, past
  <2>2. code' \in [Users -> {"live", "over"}]
    BY <2>1, <1>2
  <2>3. linked' \in Users \cup {None} /\ told \subseteq told' /\ passed \subseteq passed'
    BY <2>1, <1>1, <1>2
  <2>4. sent[worker[w].id].kind = "start"
    BY <2>1, <1>4
  <2>5. CASE Goes(w, "link")
    BY <2>2, <2>3, <2>4, <2>5, <1>1, <1>2, <1>3, GoesOn
  <2>6. CASE Goes(w, "answer")
    BY <2>2, <2>3, <2>6, <1>1, <1>2, <1>3, GoesOn
  <2> QED BY <2>1, <2>5, <2>6
<1>6. CASE Link(w)
  <2>1. worker[w].at = "link" /\ UNCHANGED <<code, told>> /\ Goes(w, "answer") /\ linked' = sent[worker[w].id].of
    BY <1>6 DEF Link, At, Ask, Id, past
  <2>2. linked' \in Users \cup {None}
    BY <2>1, <1>4
  <2> QED BY <2>1, <2>2, <1>1, <1>2, <1>3, GoesOn
<1>7. CASE Answer(w)
  <2>1. UNCHANGED <<code, linked>> /\ Goes(w, "done") /\ told' = told \cup {worker[w].id}
    BY <1>7 DEF Answer, Id, people
  <2> QED BY <2>1, <1>1, <1>2, <1>3, GoesOn
<1>8. CASE Throws(w)
  <2>1. UNCHANGED <<code, linked, told>> /\ Goes(w, "failed")
    BY <1>8 DEF Throws, people, past
  <2> QED BY <2>1, <1>1, <1>2, <1>3, GoesOn
<1> QED BY <1>5, <1>6, <1>7, <1>8

(* What became of an update is written on its row, if it is still there.   *)
LEMMA OutcomeStep ==
    ASSUME InboxInv, NEW w \in Workers, Outcome(w)
    PROVE  InboxInv'
<1> DEFINE next == [Idle EXCEPT !.at = "next", !.gen = worker[w].gen, !.was = worker[w].was, !.batch = worker[w].batch]
           id   == worker[w].id
           r    == row[id]
<1>1. /\ worker[w].at \in {"done", "failed"}
      /\ worker' = [worker EXCEPT ![w] = IF worker[w].batch = {} THEN Idle ELSE next]
      /\ UNCHANGED <<sent, held, hook, bot, code, linked, expense, passed, wiped, told>>
  BY DEF Outcome, telegram, people, past
<1>2. worker[w].at \in Handling
  BY <1>1 DEF Handling
<1>3. /\ worker[w] \in WorkerRows /\ id \in Updates
      /\ worker[w].at = "done" => id \in told \cup passed
      /\ row \in [Updates -> RowRows] /\ r \in RowRows
  BY <1>2, AtWork, TypeParts DEF InboxInv, Shape, Passes
<1>4. /\ row' = row
      \/ /\ r.status # "absent"
         /\ \E new \in RowRows : /\ row' = [row EXCEPT ![id] = new]
                                 /\ new.status \in {"done", "failed", "pending"}
                                 /\ new.status = "done" => worker[w].at = "done"
  <2>1. CASE Mine(w) /\ worker[w].at = "done"
    <3>1. row' = [row EXCEPT ![id] = [r EXCEPT !.status = "done", !.leased = FALSE]] /\ r.status # "absent"
      BY <2>1 DEF Outcome, Mine, At, Id
    <3>2. [r EXCEPT !.status = "done", !.leased = FALSE] \in RowRows
      BY <1>3 DEF RowRows
    <3>3. [r EXCEPT !.status = "done", !.leased = FALSE].status = "done"
      BY <1>3 DEF RowRows
    <3> QED BY <2>1, <3>1, <3>2, <3>3
  <2>2. CASE Mine(w) /\ worker[w].at = "failed"
    <3>1. row' = [row EXCEPT ![id] = Rested(r, worker[w].row.attempts)] /\ r.status # "absent"
      BY <2>2 DEF Outcome, Mine, At, Id
    <3>2. PICK s \in {"failed", "pending"} : Rested(r, worker[w].row.attempts) = [r EXCEPT !.status = s, !.leased = FALSE, !.waits = TRUE]
      BY DEF Rested
    <3>3. [r EXCEPT !.status = s, !.leased = FALSE, !.waits = TRUE] \in RowRows
      BY <1>3 DEF RowRows
    <3>4. [r EXCEPT !.status = s, !.leased = FALSE, !.waits = TRUE].status = s
      BY <1>3 DEF RowRows
    <3> QED BY <3>1, <3>2, <3>3, <3>4
  <2>3. CASE ~Mine(w)
    BY <2>3 DEF Outcome
  <2> QED BY <1>1, <2>1, <2>2, <2>3
<1> HIDE DEF r
<1>5. /\ row' \in [Updates -> RowRows]
      /\ \A u \in Updates : row[u].status = "absent" => row'[u] = row[u]
      /\ \A u \in Updates : row[u].status # "absent" => row'[u].status # "absent"
      /\ \A u \in Updates : row'[u].status = "done" => row[u].status = "done" \/ (u = id /\ worker[w].at = "done")
  <2>1. CASE row' = row
    BY <2>1, <1>3
  <2>2. CASE row' # row
    <3>1. PICK new \in RowRows : /\ row' = [row EXCEPT ![id] = new] /\ r.status # "absent"
                                 /\ new.status \in {"done", "failed", "pending"}
                                 /\ new.status = "done" => worker[w].at = "done"
      BY <2>2, <1>4
    <3>2. row'[id] = new /\ \A u \in Updates : u # id => row'[u] = row[u]
      BY <3>1, <1>3
    <3> QED BY <3>1, <3>2, <1>3 DEF r
  <2> QED BY <2>1, <2>2
<1>6. Stored' = Stored /\ \A u \in Updates : row'[u].status = "absent" => row'[u] = NoRow
  BY <1>5, RowsKept
<1>7. TypeOK'
  BY <1>1, <1>5, TypeParts, TypeNext DEF InboxInv, Shape
<1>8. \A u \in Updates : TakenIn(u) => TakenIn(u)'
  BY <1>1, <1>6 DEF TakenIn
<1>9. SentInOrder' /\ NothingLost' /\ Offset' /\ Answered'
  BY <1>1, <1>3, <1>5, <1>6, <1>8 DEF InboxInv, SentInOrder, NothingLost, Offset, Answered
<1>10. next \in WorkerRows /\ next.at = "next" /\ next.gen = worker[w].gen /\ next.batch = worker[w].batch
  BY <1>3, Blank, ZenonT(40) DEF WorkerRows
<1> HIDE DEF next
<1>11. worker' \in [Workers -> WorkerRows] /\ \A v \in Workers \ {w} : worker'[v] = worker[v]
  BY <1>1, <1>10, Blank DEF InboxInv, Shape
<1>12. worker'[w] = Idle \/ worker'[w] = next
  BY <1>1 DEF InboxInv, Shape
<1>13. /\ {Idle.at, next.at} \cap (Handling \cup {"store", "save", "code", "link", "done", "poll"}) = {}
       /\ Idle.at # "next"
  BY <1>10, Blank DEF Handling
<1>14. bot.gen = 1 => next.gen = 1
  BY <1>1, <1>10, AtWork
<1>15. /\ UNCHANGED <<sent, expense, passed, told>> /\ bot'.gen = bot.gen
       /\ next.batch \subseteq Claims /\ \A b \in next.batch : sent[b.id] # None
  BY <1>1, <1>2, <1>10, AtWork
<1> QED BY <1>7, <1>8, <1>9, <1>10, <1>11, <1>12, <1>13, <1>14, <1>15, Blank, AtWork, WorkersStep

-----------------------------------------------------------------------------
LEMMA WorkerStepCases ==
    ASSUME InboxInv, NEW w \in Workers, WorkerStep(w) \/ Throws(w) \/ Crash(w)
    PROVE  InboxInv'
BY PollBeginStep, GetUpdatesStep, PollStoreStep, ProcessBeginStep, ClaimStep, ProcessUpdateStep, ReadReceiptStep,
   SaveReadingStep, CreateFromReceiptStep, HandleButtonStep, GoingOnSteps, OutcomeStep, CrashStep DEF WorkerStep

LEMMA InboxStep == InboxInv /\ [Next]_vars => InboxInv'
<1> SUFFICES ASSUME InboxInv, [Next]_vars PROVE InboxInv'
  OBVIOUS
<1>1. CASE \E u \in Updates : \E ask \in Asks : Send(u, ask)
  BY <1>1, SendStep
<1>2. CASE \E u \in Updates : ReceiveTelegramWebhook(u) \/ LeaseEnds(u) \/ WaitEnds(u)
  BY <1>2, ReceiveStep, TimeStep
<1>3. CASE \/ ProjectEnds \/ MessagingIdentityRevoke
           \/ \E m \in Users : CodeExpires(m)
           \/ \E p \in BOOLEAN : TelegramBotPause(p)
           \/ \E mode \in Modes : ApplyMode(mode)
           \/ TelegramBotUpdate
  BY <1>3, OrganizationSteps
<1>4. CASE TelegramBotDisconnect
  BY <1>4, DisconnectStep
<1>5. CASE TelegramBotConnect
  BY <1>5, ConnectStep
<1>6. CASE \E w \in Workers : WorkerStep(w) \/ Throws(w) \/ Crash(w)
  BY <1>6, WorkerStepCases
<1>7. CASE UNCHANGED vars
  <2>1. /\ UNCHANGED <<sent, held, hook, bot, row, code, linked, expense, worker, passed, wiped, told>>
    BY <1>7 DEF vars
  <2>2. TypeOK'
    BY <2>1, TypeParts, TypeNext DEF InboxInv, Shape
  <2> QED BY <2>1, <2>2, PeopleStep
<1> QED BY <1>1, <1>2, <1>3, <1>4, <1>5, <1>6, <1>7, Zenon DEF Next

(***************************************************************************)
(* A receipt that was sent is kept: whatever Telegram was told is taken is *)
(* stored, or was refused at the door, or went with its bot; while the     *)
(* first bot stands it makes one expense, however often it is delivered    *)
(* and tried; and what is done with was answered, or passed over for a     *)
(* paused bot.                                                             *)
(***************************************************************************)
THEOREM ReceiptsAlwaysKept == Spec => []ReceiptsKept
<1>1. Init => InboxInv
  BY InboxInit
<1>2. InboxInv /\ [Next]_vars => InboxInv'
  BY InboxStep
<1>3. InboxInv => ReceiptsKept
  BY InvKeepsReceipts
<1> QED BY <1>1, <1>2, <1>3, PTL DEF Spec

-----------------------------------------------------------------------------
(***************************************************************************)
(* Letters.  A request that holds a document finds it as it was read, and  *)
(* one that does not has read it after it was issued, which is for good.   *)
(***************************************************************************)
DocumentRows == [status : {"draft", "sent", "viewed", "partially_paid", "paid", "cancelled"}, number : Nat,
                 total : Totals, paid : Nat, viewed : BOOLEAN, emailed : BOOLEAN]
RequestRows  == [op : {"send", "email", "view"}, doc : Co!Documents, step : {"read", "written", "committed"},
                 holds : BOOLEAN, row : DocumentRows, mail : BOOLEAN, dues : SUBSET Int]
Glimpses     == [doc : Co!Documents, number : Nat, total : Totals]

LettersShape ==
    /\ document \in [Co!Documents -> DocumentRows]
    /\ issued \in [{"invoice", "quote"} -> Nat]
    /\ request \in [Workers -> RequestRows \cup {Co!Idle}]
    /\ seen \subseteq Glimpses
    /\ views \in [Invoices -> Nat]

(* A draft has no number, nothing paid and no reader; only invoices keep   *)
(* whether they were mailed.                                               *)
DocumentStands(d, x) ==
    /\ (x.number = 0) = (x.status = "draft")
    /\ x.status = "draft" => x.paid = 0 /\ ~x.viewed
    /\ d \notin Invoices => ~x.emailed

Numbered(kind) == {d \in Co!Documents : Co!KindOf(d) = kind /\ document[d].number > 0}

NumbersCount ==
    /\ \A d \in Co!Documents : document[d].number <= issued[Co!KindOf(d)]
    /\ \A d, e \in Co!Documents :
          Co!KindOf(d) = Co!KindOf(e) /\ document[d].number = document[e].number /\ document[d].number > 0 => d = e
    /\ \A kind \in {"invoice", "quote"} : issued[kind] = Cardinality(Numbered(kind))

(* What a mail says of a document, which nothing changes once it is issued.*)
SameIssue(x, d) == x.number > 0 /\ document[d].number = x.number /\ document[d].total = x.total

Mailing(q) == q.op = "email" \/ q.step = "committed" => q.mail /\ SameIssue(q.row, q.doc)

Marking(q) ==
    q.op = "email" /\ q.step = "written" =>
        q.row.emailed = (q.doc \in Invoices) /\ (q.doc \in Invoices => q.holds)

Sending(q) ==
    q.op = "send" /\ q.step # "committed" =>
        /\ q.holds /\ document[q.doc].status = "draft"
        /\ q.row = IF q.step = "read" THEN document[q.doc]
                   ELSE [document[q.doc] EXCEPT !.status = "sent", !.number = issued[Co!KindOf(q.doc)] + 1,
                                                !.emailed = q.mail /\ q.doc \in Invoices]

Viewing(q) ==
    q.op = "view" =>
        /\ q.holds /\ q.doc \in Invoices /\ ~q.mail /\ document[q.doc].status # "draft"
        /\ \/ q.row = document[q.doc]
           \/ /\ q.step = "written" /\ document[q.doc].status = "sent" /\ ~document[q.doc].viewed
              /\ q.row = [document[q.doc] EXCEPT !.status = "viewed", !.viewed = TRUE]

Sound(q) == Co!Due(q.row) \in q.dues /\ Mailing(q) /\ Marking(q) /\ Sending(q) /\ Viewing(q)

(* Two that run hold different documents, and take numbers of two kinds.   *)
Apart(p, q) ==
    /\ ~(p.doc = q.doc /\ p.holds /\ q.holds)
    /\ ~(/\ p.op = "send" /\ p.step = "written" /\ q.op = "send" /\ q.step = "written"
         /\ Co!KindOf(p.doc) = Co!KindOf(q.doc))

LettersInv ==
    /\ LettersShape
    /\ \A d \in Co!Documents : DocumentStands(d, document[d])
    /\ NumbersCount
    /\ Co!ViewedOnce
    /\ \A r \in Workers : Co!Active(r) => Sound(request[r])
    /\ \A p, r \in Workers : p # r /\ Co!Running(p) /\ Co!Running(r) => Apart(request[p], request[r])
    /\ Co!ShownAsIssued /\ Co!StatesWhatWasDue

LEMMA KindIs == \A d : Co!KindOf(d) \in {"invoice", "quote"}
BY DEF Co!KindOf

LEMMA ActiveRow ==
    ASSUME LettersShape, NEW r \in Workers, Co!Active(r)
    PROVE  request[r] \in RequestRows
BY DEF LettersShape, Co!Active

LEMMA IdleRow == Co!Idle \notin RequestRows
BY DEF Co!Idle, RequestRows

LEMMA NumberedFinite == IsFiniteSet(Co!Documents) /\ \A kind : IsFiniteSet(Numbered(kind))
<1>1. IsFiniteSet(Co!Documents)
  BY LettersAssumption, FS_Union DEF Co!Documents
<1> QED BY <1>1, FS_Subset DEF Numbered

LEMMA LettersInit == Co!Init => LettersInv
<1> SUFFICES ASSUME Co!Init PROVE LettersInv
  OBVIOUS
<1>1. \A d \in Co!Documents :
        /\ document[d] \in DocumentRows /\ document[d].status = "draft" /\ document[d].number = 0
        /\ document[d].paid = 0 /\ ~document[d].viewed /\ ~document[d].emailed
  <2> DEFINE Drafts == [status : {"draft"}, number : {0}, total : Totals, paid : {0}, viewed : {FALSE}, emailed : {FALSE}]
  <2>1. \A x \in Drafts : x.status = "draft" /\ x.number = 0 /\ x.paid = 0 /\ x.viewed = FALSE /\ x.emailed = FALSE
    OBVIOUS
  <2>2. Drafts \subseteq DocumentRows
    <3>1. \A S, T, N, M, P, Q, V, U, E, D, X : S \subseteq T /\ N \subseteq M /\ P \subseteq Q /\ V \subseteq U /\ E \subseteq D =>
            [status : S, number : N, total : X, paid : P, viewed : V, emailed : E]
                \subseteq [status : T, number : M, total : X, paid : Q, viewed : U, emailed : D]
      OBVIOUS
    <3>2. {"draft"} \subseteq {"draft", "sent", "viewed", "partially_paid", "paid", "cancelled"} /\ {0} \subseteq Nat /\ {FALSE} \subseteq BOOLEAN
      OBVIOUS
    <3> QED BY <3>1, <3>2 DEF DocumentRows
  <2>3. \A d \in Co!Documents : document[d] \in Drafts
    BY DEF Co!Init
  <2> HIDE DEF Drafts
  <2> QED BY <2>1, <2>2, <2>3
<1>2. document \in [Co!Documents -> DocumentRows]
  BY <1>1 DEF Co!Init
<1>3. LettersShape
  BY <1>2 DEF Co!Init, LettersShape
<1>4. \A d \in Co!Documents : DocumentStands(d, document[d])
  BY <1>1 DEF DocumentStands
<1>5. NumbersCount
  <2>1. \A kind : Numbered(kind) = {}
    BY <1>1 DEF Numbered
  <2>2. \A kind \in {"invoice", "quote"} : issued[kind] = 0
    BY DEF Co!Init
  <2> QED BY <1>1, <2>1, <2>2, KindIs, FS_EmptySet DEF NumbersCount
<1>6. Co!ViewedOnce
  BY <1>1 DEF Co!Init, Co!ViewedOnce, Co!Documents
<1>7. \A r \in Workers : ~Co!Active(r)
  BY DEF Co!Init, Co!Active
<1> QED BY <1>3, <1>4, <1>5, <1>6, <1>7 DEF LettersInv, Co!Running, Co!Init, Co!ShownAsIssued, Co!StatesWhatWasDue

LEMMA DocumentsSame ==
    ASSUME LettersInv, UNCHANGED <<document, issued, views>>
    PROVE  (\A d \in Co!Documents : DocumentStands(d, document[d]))' /\ NumbersCount' /\ Co!ViewedOnce'
<1>1. (\A d \in Co!Documents : DocumentStands(d, document[d]))'
  BY DEF LettersInv, DocumentStands
<1>2. NumbersCount'
  BY DEF LettersInv, NumbersCount, Numbered
<1>3. Co!ViewedOnce'
  BY DEF LettersInv, Co!ViewedOnce
<1> QED BY <1>1, <1>2, <1>3

LEMMA RequestsSame ==
    ASSUME LettersInv, UNCHANGED <<document, issued, request>>
    PROVE  /\ (\A r \in Workers : Co!Active(r) => Sound(request[r]))'
           /\ (\A p, r \in Workers : p # r /\ Co!Running(p) /\ Co!Running(r) => Apart(request[p], request[r]))'
<1>1. \A q : Sound(q) => Sound(q)'
  BY DEF Sound, Mailing, SameIssue, Marking, Sending, Viewing
<1>2. ASSUME NEW r \in Workers, Co!Active(r)' PROVE Sound(request[r])'
  <2>1. PICK q : q = request[r] /\ q = request'[r]
    OBVIOUS
  <2>2. Sound(q)'
    BY <1>1, <1>2, <2>1 DEF LettersInv, Co!Active
  <2> QED BY <2>1, <2>2 DEF Sound, Mailing, SameIssue, Marking, Sending, Viewing
<1>3. (\A p, r \in Workers : p # r /\ Co!Running(p) /\ Co!Running(r) => Apart(request[p], request[r]))'
  BY DEF LettersInv, Co!Active, Co!Running, Apart
<1> QED BY <1>2, <1>3

(* A request goes on, and nothing it may have read changes.                *)
LEMMA RequestMoved ==
    ASSUME LettersInv, NEW w \in Workers, NEW q \in RequestRows \cup {Co!Idle},
           request' = [request EXCEPT ![w] = q], UNCHANGED <<document, issued, views>>,
           seen' \subseteq Glimpses, Co!ShownAsIssued', Co!StatesWhatWasDue',
           q # Co!Idle => Sound(q),
           \A r \in Workers \ {w} : Co!Running(r) /\ q # Co!Idle /\ q.step # "committed" => Apart(request[r], q)
    PROVE  LettersInv'
<1>1. request'[w] = q /\ \A r \in Workers \ {w} : request'[r] = request[r]
  BY DEF LettersInv, LettersShape
<1>2. LettersShape'
  BY DEF LettersInv, LettersShape
<1>3. (\A d \in Co!Documents : DocumentStands(d, document[d]))' /\ NumbersCount' /\ Co!ViewedOnce'
  BY DocumentsSame
<1>5. ASSUME NEW r \in Workers, Co!Active(r)' PROVE Sound(request[r])'
  <2>1. request'[r] # Co!Idle
    BY <1>5 DEF Co!Active
  <2>2. Sound(request'[r])
    BY <1>1, <2>1 DEF LettersInv, Co!Active
  <2> QED BY <2>2 DEF Sound, Mailing, SameIssue, Marking, Sending, Viewing
<1>6. ASSUME NEW p \in Workers, NEW r \in Workers, p # r, Co!Running(p)', Co!Running(r)'
      PROVE  Apart(request[p], request[r])'
  <2>1. \A v \in Workers : Co!Running(v)' => request'[v] # Co!Idle /\ request'[v].step # "committed"
    BY DEF Co!Running, Co!Active
  <2>2. \A v \in Workers \ {w} : Co!Running(v)' => Co!Running(v)
    BY <1>1 DEF Co!Running, Co!Active
  <2>3. CASE p # w /\ r # w
    BY <1>1, <1>6, <2>2, <2>3 DEF LettersInv, Apart
  <2>4. CASE p = w
    <3>1. Apart(request[r], q)
      BY <1>1, <1>6, <2>1, <2>2, <2>4
    <3> QED BY <1>1, <1>6, <2>4, <3>1 DEF Apart
  <2>5. CASE r = w
    <3>1. Apart(request[p], q)
      BY <1>1, <1>6, <2>1, <2>2, <2>5
    <3> QED BY <1>1, <1>6, <2>5, <3>1 DEF Apart
  <2> QED BY <2>3, <2>4, <2>5
<1> QED BY <1>2, <1>3, <1>5, <1>6 DEF LettersInv

(* It begins by reading the document, which nobody holds if it will.       *)
LEMMA LetterStarts ==
    ASSUME LettersInv, NEW w \in Workers, NEW op \in {"send", "email", "view"}, NEW d \in Co!Documents,
           NEW holds \in BOOLEAN, NEW mail \in BOOLEAN, Co!Starts(w, op, d, holds, mail),
           holds => Co!LockFree(d),
           op = "email" => mail /\ document[d].status # "draft",
           op = "send"  => holds /\ document[d].status = "draft",
           op = "view"  => holds /\ ~mail /\ d \in Invoices /\ document[d].status # "draft"
    PROVE  LettersInv'
<1> DEFINE q == [op |-> op, doc |-> d, step |-> "read", holds |-> holds, row |-> document[d], mail |-> mail,
                 dues |-> {Co!Due(document[d])}]
<1>1. document[d] \in DocumentRows /\ DocumentStands(d, document[d])
  BY DEF LettersInv, LettersShape
<1>2. q \in RequestRows
  <2>1. document[d].total \in Nat /\ document[d].paid \in Nat
    BY <1>1, LettersAssumption DEF DocumentRows
  <2>2. Co!Due(document[d]) \in Int
    BY <2>1 DEF Co!Due
  <2> QED BY <1>1, <2>2 DEF RequestRows
<1>3. Sound(q)
  <2>1. SameIssue(document[d], d) \/ document[d].status = "draft"
    BY <1>1 DEF SameIssue, DocumentStands, DocumentRows
  <2> QED BY <2>1 DEF Sound, Mailing, Marking, Sending, Viewing
<1>4. \A r \in Workers : Co!Running(r) => Apart(request[r], q)
  BY DEF Apart, Co!LockFree
<1>5. request' = [request EXCEPT ![w] = q] /\ UNCHANGED <<document, issued, seen, mailed, views>>
  BY DEF Co!Starts
<1>6. seen' \subseteq Glimpses /\ Co!ShownAsIssued' /\ Co!StatesWhatWasDue'
  BY <1>5 DEF LettersInv, LettersShape, Co!ShownAsIssued, Co!StatesWhatWasDue
<1> HIDE DEF q
<1> QED BY <1>2, <1>3, <1>4, <1>5, <1>6, RequestMoved

LEMMA LetterAbandoned ==
    ASSUME LettersInv, NEW w \in Workers, Co!Abandon(w)
    PROVE  LettersInv'
<1>1. request' = [request EXCEPT ![w] = Co!Idle] /\ UNCHANGED <<document, issued, seen, mailed, views>>
  BY DEF Co!Abandon
<1>2. seen' \subseteq Glimpses /\ Co!ShownAsIssued' /\ Co!StatesWhatWasDue'
  BY <1>1 DEF LettersInv, LettersShape, Co!ShownAsIssued, Co!StatesWhatWasDue
<1> QED BY <1>1, <1>2, RequestMoved

(* The row as it will be left: its number is the next, or it has one.      *)
LEMMA LetterWritten ==
    ASSUME LettersInv, NEW w \in Workers, Co!Write(w)
    PROVE  LettersInv'
<1> DEFINE old == request[w]
           d == old.doc
           marks == old.op = "email" /\ d \in Invoices
           new == Co!Written(old)
           q == [old EXCEPT !.step = "written", !.holds = old.holds \/ marks, !.row = new]
<1>1. /\ old \in RequestRows /\ Sound(old) /\ old.step = "read" /\ Co!Running(w) /\ d \in Co!Documents
      /\ old.row \in DocumentRows /\ document[d] \in DocumentRows /\ issued[Co!KindOf(d)] \in Nat
  <2>1. old \in RequestRows /\ Sound(old) /\ old.step = "read" /\ Co!Running(w)
    BY ActiveRow DEF Co!Write, Co!Running, LettersInv
  <2> QED BY <2>1, KindIs DEF RequestRows, LettersInv, LettersShape
<1>2. /\ new \in DocumentRows /\ new.total = old.row.total /\ new.paid = old.row.paid
      /\ old.op = "send" => new = [old.row EXCEPT !.status = "sent", !.number = issued[Co!KindOf(d)] + 1,
                                                  !.emailed = old.mail /\ d \in Invoices]
      /\ old.op = "email" => new.number = old.row.number /\ new.emailed = (d \in Invoices)
      /\ old.op = "view" => \/ new = old.row
                            \/ /\ old.row.status = "sent" /\ ~old.row.viewed
                               /\ new = [old.row EXCEPT !.status = "viewed", !.viewed = TRUE]
  <2> DEFINE sent1 == [old.row EXCEPT !.status = "sent", !.number = issued[Co!KindOf(d)] + 1, !.emailed = old.mail /\ d \in Invoices]
             email1 == [old.row EXCEPT !.emailed = d \in Invoices]
             view1 == [old.row EXCEPT !.status = "viewed", !.viewed = TRUE]
  <2>1. sent1 \in DocumentRows /\ sent1.total = old.row.total /\ sent1.paid = old.row.paid
    <3>1. \A b \in BOOLEAN, n \in Nat :
             LET x == [old.row EXCEPT !.status = "sent", !.number = n, !.emailed = b] IN
             x \in DocumentRows /\ x.total = old.row.total /\ x.paid = old.row.paid
      BY <1>1 DEF DocumentRows
    <3>2. (old.mail /\ d \in Invoices) \in BOOLEAN
      OBVIOUS
    <3>3. issued[Co!KindOf(d)] + 1 \in Nat
      BY <1>1
    <3> QED BY <3>1, <3>2, <3>3
  <2>2. email1 \in DocumentRows /\ email1.total = old.row.total /\ email1.paid = old.row.paid
        /\ email1.number = old.row.number /\ email1.emailed = (d \in Invoices)
    <3>1. \A b \in BOOLEAN :
             LET x == [old.row EXCEPT !.emailed = b] IN
             /\ x \in DocumentRows /\ x.total = old.row.total /\ x.paid = old.row.paid
             /\ x.number = old.row.number /\ x.emailed = b
      BY <1>1 DEF DocumentRows
    <3>2. (d \in Invoices) \in BOOLEAN
      OBVIOUS
    <3> QED BY <3>1, <3>2
  <2>3. view1 \in DocumentRows /\ view1.total = old.row.total /\ view1.paid = old.row.paid
    BY <1>1 DEF DocumentRows
  <2>4. CASE old.op = "send"
    <3>1. new = sent1
      BY <2>4 DEF Co!Written
    <3> QED BY <2>1, <2>4, <3>1
  <2>5. CASE old.op = "email"
    <3>1. new = email1
      BY <2>5 DEF Co!Written
    <3> QED BY <2>2, <2>5, <3>1
  <2>6. CASE old.op = "view"
    <3>1. new = IF old.row.status = "sent" /\ ~old.row.viewed THEN view1 ELSE old.row
      BY <2>6 DEF Co!Written
    <3> HIDE DEF new, view1
    <3>2. CASE old.row.status = "sent" /\ ~old.row.viewed
      BY <2>3, <2>6, <3>1, <3>2 DEF view1
    <3>3. CASE ~(old.row.status = "sent" /\ ~old.row.viewed)
      BY <1>1, <2>6, <3>1, <3>3
    <3> QED BY <3>2, <3>3
  <2> QED BY <1>1, <2>4, <2>5, <2>6 DEF RequestRows
<1>3. /\ request' = [request EXCEPT ![w] = q] /\ UNCHANGED <<document, issued, seen, mailed, views>>
      /\ old.op = "send" => Co!CounterFree(w, Co!KindOf(d))
      /\ marks => Co!LockFree(d)
  <2>1. /\ UNCHANGED <<document, issued, seen, mailed, views>>
        /\ old.op = "send" => Co!CounterFree(w, Co!KindOf(d))
        /\ marks => Co!LockFree(d)
    BY DEF Co!Write
  <2>2. request' = [request EXCEPT ![w] = q]
    BY Zenon DEF Co!Write
  <2> QED BY <2>1, <2>2
<1> HIDE DEF new
<1>4. /\ q \in RequestRows /\ q.op = old.op /\ q.doc = d /\ q.step = "written" /\ q.holds = (old.holds \/ marks)
      /\ q.row = new /\ q.mail = old.mail /\ q.dues = old.dues
  BY <1>1, <1>2 DEF RequestRows
<1> HIDE DEF q
<1>5. Sound(q)
  <2>1. Co!Due(q.row) \in q.dues
    BY <1>1, <1>2, <1>4 DEF Sound, Co!Due
  <2>2. Mailing(q)
    BY <1>1, <1>2, <1>4 DEF Sound, Mailing, SameIssue
  <2>3. Marking(q)
    BY <1>1, <1>2, <1>4 DEF Marking
  <2>4. Sending(q)
    <3> SUFFICES ASSUME old.op = "send" PROVE Sending(q)
      BY <1>4 DEF Sending
    <3>1. old.holds /\ document[d].status = "draft" /\ old.row = document[d]
      BY <1>1 DEF Sound, Sending
    <3>2. q.row = [document[d] EXCEPT !.status = "sent", !.number = issued[Co!KindOf(d)] + 1, !.emailed = old.mail /\ d \in Invoices]
      BY <1>2, <1>4, <3>1
    <3> QED BY <1>4, <3>1, <3>2, Zenon DEF Sending
  <2>5. Viewing(q)
    <3> SUFFICES ASSUME old.op = "view" PROVE Viewing(q)
      BY <1>4 DEF Viewing
    <3>1. /\ old.holds /\ d \in Invoices /\ ~old.mail /\ document[d].status # "draft" /\ old.row = document[d]
      BY <1>1 DEF Sound, Viewing
    <3>2. \/ q.row = document[d]
          \/ /\ document[d].status = "sent" /\ ~document[d].viewed
             /\ q.row = [document[d] EXCEPT !.status = "viewed", !.viewed = TRUE]
      BY <1>2, <1>4, <3>1
    <3> QED BY <1>4, <3>1, <3>2, Zenon DEF Viewing
  <2> QED BY <2>1, <2>2, <2>3, <2>4, <2>5 DEF Sound
<1>6. ASSUME NEW r \in Workers \ {w}, Co!Running(r) PROVE Apart(request[r], q)
  <2>1. Apart(request[r], old)
    BY <1>1, <1>6 DEF LettersInv
  <2>2. ~(request[r].doc = d /\ request[r].holds /\ q.holds)
    BY <1>3, <1>4, <1>6, <2>1 DEF Apart, Co!LockFree
  <2>3. ~(request[r].op = "send" /\ request[r].step = "written" /\ q.op = "send" /\ Co!KindOf(request[r].doc) = Co!KindOf(d))
    BY <1>3, <1>4, <1>6 DEF Co!CounterFree
  <2> QED BY <1>4, <2>2, <2>3 DEF Apart
<1>7. seen' \subseteq Glimpses /\ Co!ShownAsIssued' /\ Co!StatesWhatWasDue'
  BY <1>3 DEF LettersInv, LettersShape, Co!ShownAsIssued, Co!StatesWhatWasDue
<1> QED BY <1>3, <1>4, <1>5, <1>6, <1>7, RequestMoved

LEMMA LetterMailed ==
    ASSUME LettersInv, NEW w \in Workers, Co!SendEmail(w)
    PROVE  LettersInv'
<1> DEFINE q == request[w]
<1>1. q \in RequestRows /\ Sound(q) /\ q.step = "committed"
  BY ActiveRow DEF Co!SendEmail, Co!Committed, LettersInv
<1>2. q.doc \in Co!Documents /\ q.row \in DocumentRows /\ SameIssue(q.row, q.doc) /\ Co!Due(q.row) \in q.dues
  BY <1>1 DEF Sound, Mailing, RequestRows
<1>3. /\ seen' = seen \cup {[doc |-> q.doc, number |-> q.row.number, total |-> q.row.total]}
      /\ mailed' = [due |-> Co!Due(q.row), dues |-> q.dues]
      /\ request' = [request EXCEPT ![w] = Co!Idle] /\ UNCHANGED <<document, issued, views>>
  BY DEF Co!SendEmail, Co!Mail
<1>4. seen' \subseteq Glimpses
  BY <1>2, <1>3 DEF LettersInv, LettersShape, Glimpses, DocumentRows
<1>5. Co!ShownAsIssued'
  BY <1>2, <1>3 DEF LettersInv, Co!ShownAsIssued, SameIssue
<1>6. Co!StatesWhatWasDue'
  BY <1>2, <1>3 DEF Co!StatesWhatWasDue
<1> QED BY <1>3, <1>4, <1>5, <1>6, RequestMoved

(* A member has the link of what is issued, a client of what was mailed.   *)
LEMMA PdfOpened ==
    ASSUME LettersInv, NEW d \in Co!Documents, Co!OpenPdf(d)
    PROVE  LettersInv'
<1>1. /\ seen' = seen \cup {[doc |-> d, number |-> document[d].number, total |-> document[d].total]}
      /\ UNCHANGED <<document, issued, request, mailed, views>>
  BY DEF Co!OpenPdf
<1>2. document[d] \in DocumentRows /\ DocumentStands(d, document[d])
  BY DEF LettersInv, LettersShape
<1>3. document[d].number > 0
  <2>1. CASE document[d].status # "draft"
    BY <1>2, <2>1 DEF DocumentStands, DocumentRows
  <2>2. CASE \E x \in seen : x.doc = d
    BY <1>2, <2>2 DEF LettersInv, Co!ShownAsIssued
  <2> QED BY <2>1, <2>2 DEF Co!OpenPdf, Co!Linked
<1>4. seen' \subseteq Glimpses
  BY <1>1, <1>2 DEF LettersInv, LettersShape, Glimpses, DocumentRows
<1>5. Co!ShownAsIssued'
  BY <1>1, <1>3 DEF LettersInv, Co!ShownAsIssued
<1>6. LettersShape'
  BY <1>1, <1>4 DEF LettersInv, LettersShape
<1> QED BY <1>1, <1>5, <1>6, DocumentsSame, RequestsSame DEF LettersInv, Co!StatesWhatWasDue

-----------------------------------------------------------------------------
(* A document changes that the request does not hold: what it was issued   *)
(* as stays, and a draft is only read by who holds it.                     *)
LEMMA SoundKept ==
    ASSUME LettersInv, NEW q \in RequestRows, Sound(q), NEW d \in Co!Documents, NEW x \in DocumentRows,
           document' = [document EXCEPT ![d] = x],
           document[d].number > 0 => x.number = document[d].number /\ x.total = document[d].total,
           x # document[d] /\ q.step # "committed" /\ q.doc = d => ~q.holds,
           q.op = "send" /\ q.step = "written" => issued'[Co!KindOf(q.doc)] = issued[Co!KindOf(q.doc)]
    PROVE  Sound(q)'
<1>1. q.doc \in Co!Documents /\ q.step \in {"read", "written", "committed"}
  BY DEF RequestRows
<1>2. document'[d] = x /\ \A e \in Co!Documents : e # d => document'[e] = document[e]
  BY DEF LettersInv, LettersShape
<1>3. Mailing(q)'
  BY <1>1, <1>2 DEF Sound, Mailing, SameIssue
<1>4. ASSUME q.op = "send" \/ q.op = "view", q.step # "committed" PROVE document'[q.doc] = document[q.doc]
  <2>1. q.holds
    BY <1>4 DEF Sound, Sending, Viewing
  <2> QED BY <1>1, <1>2, <1>4, <2>1
<1>5. Sending(q)'
  <2> SUFFICES ASSUME q.op = "send", q.step # "committed"
               PROVE  /\ q.holds /\ document'[q.doc].status = "draft"
                      /\ q.row = IF q.step = "read" THEN document'[q.doc]
                                 ELSE [document'[q.doc] EXCEPT !.status = "sent", !.number = issued'[Co!KindOf(q.doc)] + 1,
                                                              !.emailed = q.mail /\ q.doc \in Invoices]
    BY Zenon DEF Sending
  <2>1. q.holds /\ document[q.doc].status = "draft" /\ document'[q.doc] = document[q.doc]
    BY <1>4 DEF Sound, Sending
  <2>2. CASE q.step = "read"
    BY <2>1, <2>2 DEF Sound, Sending
  <2>3. CASE q.step = "written"
    <3>1. q.row = [document[q.doc] EXCEPT !.status = "sent", !.number = issued[Co!KindOf(q.doc)] + 1,
                                          !.emailed = q.mail /\ q.doc \in Invoices]
      BY <2>3, Zenon DEF Sound, Sending
    <3> QED BY <2>1, <2>3, <3>1
  <2> QED BY <1>1, <2>2, <2>3
<1>6. Viewing(q)'
  <2> SUFFICES ASSUME q.op = "view" PROVE Viewing(q)'
    BY DEF Viewing
  <2>1. q.step # "committed"
    BY DEF Sound, Mailing, Viewing
  <2> QED BY <1>4, <2>1 DEF Sound, Viewing
<1> QED BY <1>3, <1>5, <1>6 DEF Sound, Marking

LEMMA DuesGrow ==
    ASSUME NEW q \in RequestRows, Sound(q), NEW n \in Int
    PROVE  LET p == [q EXCEPT !.dues = q.dues \cup {n}] IN
           /\ p \in RequestRows /\ Sound(p)
           /\ p.op = q.op /\ p.step = q.step /\ p.doc = q.doc /\ p.holds = q.holds
<1> DEFINE p == [q EXCEPT !.dues = q.dues \cup {n}]
<1>1. /\ p \in RequestRows /\ p.dues = q.dues \cup {n}
      /\ p.op = q.op /\ p.step = q.step /\ p.doc = q.doc /\ p.holds = q.holds /\ p.row = q.row /\ p.mail = q.mail
  BY DEF RequestRows
<1> HIDE DEF p
<1>2. Sound(p)
  BY <1>1 DEF Sound, Mailing, Marking, Sending, Viewing
<1> QED BY <1>1, <1>2 DEF p

LEMMA SameRunning ==
    ASSUME LettersInv, NEW busy \in SUBSET Workers,
           \A r \in busy : Co!Running(r)' => /\ Co!Running(r)
                                             /\ request'[r].op = request[r].op /\ request'[r].step = request[r].step
                                             /\ request'[r].doc = request[r].doc /\ request'[r].holds = request[r].holds
    PROVE  \A p, r \in busy : p # r /\ Co!Running(p)' /\ Co!Running(r)' => Apart(request[p], request[r])'
BY DEF LettersInv, Apart

(* A person changes a document that nobody holds.                          *)
LEMMA DocumentChanges ==
    ASSUME LettersInv, NEW d \in Co!Documents, NEW x \in DocumentRows, Co!Changes(d, x),
           x.number = document[d].number, x.number > 0 => x.total = document[d].total,
           DocumentStands(d, x),
           d \in Invoices => /\ x.viewed = document[d].viewed
                             /\ x.status \notin {"draft", "cancelled"} => x.status = Co!SettlementStatus(x)
    PROVE  LettersInv'
<1>1. /\ Co!LockFree(d) /\ document' = [document EXCEPT ![d] = x] /\ UNCHANGED <<issued, seen, mailed, views>>
      /\ request' = [r \in Workers |-> IF Co!Active(r) /\ request[r].doc = d
                                       THEN [request[r] EXCEPT !.dues = request[r].dues \cup {Co!Due(x)}] ELSE request[r]]
  BY DEF Co!Changes
<1>2. document' \in [Co!Documents -> DocumentRows] /\ document'[d] = x /\ \A e \in Co!Documents : e # d => document'[e] = document[e]
  BY <1>1 DEF LettersInv, LettersShape
<1>3. Co!Due(x) \in Int
  <2>1. x.total \in Nat /\ x.paid \in Nat
    BY LettersAssumption DEF DocumentRows
  <2> QED BY <2>1 DEF Co!Due
<1>4. ASSUME NEW r \in Workers, Co!Active(r)
      PROVE  /\ request'[r] \in RequestRows /\ Sound(request'[r])
             /\ request'[r].op = request[r].op /\ request'[r].step = request[r].step
             /\ request'[r].doc = request[r].doc /\ request'[r].holds = request[r].holds
  <2>1. request[r] \in RequestRows /\ Sound(request[r])
    BY <1>4, ActiveRow DEF LettersInv
  <2>2. CASE request[r].doc = d
    BY <1>1, <1>3, <1>4, <2>1, <2>2, DuesGrow
  <2>3. CASE request[r].doc # d
    BY <1>1, <1>4, <2>1, <2>3
  <2> QED BY <2>2, <2>3
<1>5. \A r \in Workers : ~Co!Active(r) => request'[r] = Co!Idle
  BY <1>1 DEF Co!Active
<1>6. LettersShape'
  <2>1. request' \in [Workers -> RequestRows \cup {Co!Idle}]
    BY <1>1, <1>4, <1>5
  <2> QED BY <1>1, <1>2, <2>1 DEF LettersInv, LettersShape
<1>7. (\A e \in Co!Documents : DocumentStands(e, document[e]))'
  BY <1>2 DEF LettersInv, DocumentStands
<1>8. NumbersCount'
  <2>1. \A e \in Co!Documents : document'[e].number = document[e].number
    BY <1>2
  <2>2. \A kind : Numbered(kind)' = Numbered(kind)
    BY <2>1 DEF Numbered
  <2> QED BY <1>1, <2>1, <2>2 DEF LettersInv, NumbersCount
<1>9. Co!ViewedOnce'
  <2> SUFFICES ASSUME NEW e \in Invoices
               PROVE  /\ views'[e] = IF document'[e].viewed THEN 1 ELSE 0
                      /\ document'[e].status \notin {"draft", "cancelled"} => document'[e].status = Co!SettlementStatus(document'[e])
    BY DEF Co!ViewedOnce, Co!SettlementStatus, Co!Due
  <2>1. e \in Co!Documents
    BY DEF Co!Documents
  <2> QED BY <1>1, <1>2, <2>1 DEF LettersInv, Co!ViewedOnce
<1>10. ASSUME NEW r \in Workers, Co!Active(r)' PROVE Sound(request[r])'
  <2>1. Co!Active(r)
    BY <1>5, <1>10 DEF Co!Active
  <2>2. PICK q \in RequestRows : q = request'[r]
    BY <1>4, <2>1
  <2>3. Sound(q)
    BY <1>4, <2>1, <2>2
  <2>4. q.step # "committed" /\ q.doc = d => ~q.holds
    BY <1>1, <1>4, <2>1, <2>2 DEF Co!LockFree, Co!Running
  <2>5. Sound(q)'
    BY <1>1, <2>3, <2>4, SoundKept
  <2> QED BY <2>2, <2>5 DEF Sound, Mailing, SameIssue, Marking, Sending, Viewing
<1>11. \A p, r \in Workers : p # r /\ Co!Running(p)' /\ Co!Running(r)' => Apart(request[p], request[r])'
  <2>1. \A r \in Workers : Co!Running(r)' => Co!Active(r)
    BY <1>5 DEF Co!Running, Co!Active
  <2> QED BY <1>4, <2>1, SameRunning DEF Co!Running
<1>12. Co!ShownAsIssued' /\ Co!StatesWhatWasDue'
  <2>1. \A y \in seen : y.doc \in Co!Documents
    BY DEF LettersInv, LettersShape, Glimpses
  <2> QED BY <1>1, <1>2, <2>1 DEF LettersInv, Co!ShownAsIssued, Co!StatesWhatWasDue
<1> QED BY <1>6, <1>7, <1>8, <1>9, <1>10, <1>11, <1>12 DEF LettersInv

LEMMA DraftEdited ==
    ASSUME LettersInv, NEW d \in Co!Documents, NEW n \in Totals, Co!EditDraft(d, n)
    PROVE  LettersInv'
<1> DEFINE x == [document[d] EXCEPT !.total = n]
<1>1. document[d] \in DocumentRows /\ DocumentStands(d, document[d]) /\ document[d].status = "draft"
  BY DEF LettersInv, LettersShape, Co!EditDraft
<1>2. /\ x \in DocumentRows /\ x.number = document[d].number /\ x.status = document[d].status
      /\ x.viewed = document[d].viewed /\ x.paid = document[d].paid /\ x.emailed = document[d].emailed
  BY <1>1 DEF DocumentRows
<1>3. Co!Changes(d, x)
  BY DEF Co!EditDraft
<1> HIDE DEF x
<1>4. DocumentStands(d, x) /\ ~(x.number > 0)
  BY <1>1, <1>2 DEF DocumentStands
<1> QED BY <1>1, <1>2, <1>3, <1>4, DocumentChanges

LEMMA InvoiceSettled ==
    ASSUME LettersInv, NEW d \in Invoices, NEW n, n = document[d].paid + 1 \/ n = document[d].paid - 1,
           Co!SettleInvoice(d, [document[d] EXCEPT !.paid = n])
    PROVE  LettersInv'
<1> DEFINE y == [document[d] EXCEPT !.paid = n]
           x == [y EXCEPT !.status = Co!SettlementStatus(y)]
<1>1. d \in Co!Documents /\ document[d] \in DocumentRows /\ DocumentStands(d, document[d])
  BY DEF LettersInv, LettersShape, Co!Documents
<1>2. document[d].status \notin {"draft", "cancelled"} /\ y.paid \in 0..y.total /\ Co!Changes(d, x)
  BY DEF Co!SettleInvoice
<1>3. document[d].paid \in Nat /\ document[d].total \in Nat \ {0}
  BY <1>1, LettersAssumption DEF DocumentRows
<1>4. /\ y.paid = n /\ y.total = document[d].total /\ y.number = document[d].number
      /\ y.viewed = document[d].viewed /\ y.emailed = document[d].emailed
  BY <1>1 DEF DocumentRows
<1>5. n \in Nat /\ y \in DocumentRows
  <2>1. n \in Nat
    BY <1>2, <1>3, <1>4
  <2> QED BY <1>1, <2>1 DEF DocumentRows
<1> HIDE DEF y
<1>6. Co!SettlementStatus(y) \in {"sent", "viewed", "partially_paid", "paid"}
  BY <1>3, <1>4, <1>5 DEF Co!SettlementStatus, Co!Due
<1>7. /\ x \in DocumentRows /\ x.number = y.number /\ x.total = y.total /\ x.paid = y.paid
      /\ x.viewed = y.viewed /\ x.emailed = y.emailed /\ x.status = Co!SettlementStatus(y)
  BY <1>5, <1>6 DEF DocumentRows
<1> HIDE DEF x
<1>8. Co!SettlementStatus(x) = Co!SettlementStatus(y)
  BY <1>7 DEF Co!SettlementStatus, Co!Due
<1>9. DocumentStands(d, x)
  BY <1>1, <1>2, <1>4, <1>6, <1>7 DEF DocumentStands
<1> QED BY <1>1, <1>2, <1>4, <1>7, <1>8, <1>9, DocumentChanges

LEMMA InvoiceCancelled ==
    ASSUME LettersInv, NEW d \in Co!Documents, Co!Cancel(d)
    PROVE  LettersInv'
<1> DEFINE x == [document[d] EXCEPT !.status = "cancelled"]
<1>1. document[d] \in DocumentRows /\ DocumentStands(d, document[d]) /\ document[d].status # "draft" /\ Co!Changes(d, x)
  BY DEF LettersInv, LettersShape, Co!Cancel
<1>2. /\ x \in DocumentRows /\ x.number = document[d].number /\ x.status = "cancelled" /\ x.total = document[d].total
      /\ x.viewed = document[d].viewed /\ x.paid = document[d].paid /\ x.emailed = document[d].emailed
  BY <1>1 DEF DocumentRows
<1> HIDE DEF x
<1>3. DocumentStands(d, x)
  BY <1>1, <1>2 DEF DocumentStands
<1> QED BY <1>1, <1>2, <1>3, DocumentChanges

(* A request commits: it is done with, or has a mail of what it left.      *)
LEMMA LetterCommits ==
    ASSUME LettersInv, NEW w \in Workers, Co!Commit(w), NEW x \in DocumentRows,
           document' = [document EXCEPT ![request[w].doc] = x],
           document[request[w].doc].number > 0 =>
               x.number = document[request[w].doc].number /\ x.total = document[request[w].doc].total,
           x # document[request[w].doc] => request[w].holds,
           request[w].mail => request[w].row.number > 0 /\ x.number = request[w].row.number /\ x.total = request[w].row.total,
           DocumentStands(request[w].doc, x),
           issued' \in [{"invoice", "quote"} -> Nat], views' \in [Invoices -> Nat],
           \A kind \in {"invoice", "quote"} : issued'[kind] # issued[kind] => request[w].op = "send" /\ Co!KindOf(request[w].doc) = kind,
           NumbersCount', Co!ViewedOnce',
           \A y \in seen' \ seen : y \in Glimpses /\ y.doc = request[w].doc /\ y.number > 0 /\ y.number = x.number /\ y.total = x.total
    PROVE  LettersInv'
<1> DEFINE q == request[w]
           d == q.doc
           next == IF q.mail THEN [q EXCEPT !.step = "committed"] ELSE Co!Idle
<1>1. /\ q \in RequestRows /\ Sound(q) /\ q.step = "written" /\ Co!Running(w) /\ d \in Co!Documents
      /\ request' = [request EXCEPT ![w] = next] /\ mailed' = mailed /\ seen \subseteq seen'
  <2>1. q.step = "written" /\ Co!Running(w) /\ mailed' = mailed /\ seen \subseteq seen'
    BY DEF Co!Commit
  <2>2. q \in RequestRows /\ Sound(q)
    BY <2>1, ActiveRow DEF LettersInv, Co!Running
  <2>3. request' = [request EXCEPT ![w] = next]
    BY Zenon DEF Co!Commit
  <2> QED BY <2>1, <2>2, <2>3 DEF RequestRows
<1>2. document' \in [Co!Documents -> DocumentRows] /\ document'[d] = x /\ \A e \in Co!Documents : e # d => document'[e] = document[e]
  BY <1>1 DEF LettersInv, LettersShape
<1>3. /\ next \in RequestRows \cup {Co!Idle}
      /\ next # Co!Idle => /\ q.mail /\ next.step = "committed" /\ next.op = q.op /\ next.doc = d /\ next.row = q.row
                           /\ next.mail = q.mail /\ next.dues = q.dues
  BY <1>1 DEF RequestRows
<1>4. request'[w] = next /\ \A r \in Workers \ {w} : request'[r] = request[r]
  BY <1>1 DEF LettersInv, LettersShape
<1> HIDE DEF next
<1>5. LettersShape'
  <2>1. request' \in [Workers -> RequestRows \cup {Co!Idle}]
    BY <1>1, <1>3 DEF LettersInv, LettersShape
  <2> QED BY <1>2, <2>1 DEF LettersInv, LettersShape
<1>6. (\A e \in Co!Documents : DocumentStands(e, document[e]))'
  BY <1>2 DEF LettersInv, DocumentStands
<1>7. ASSUME NEW r \in Workers, Co!Active(r)' PROVE Sound(request[r])'
  <2>1. CASE r = w
    <3>1. next # Co!Idle
      BY <1>4, <1>7, <2>1 DEF Co!Active
    <3>2. /\ q.mail /\ next.step = "committed" /\ next.op = q.op /\ next.doc = d /\ next.row = q.row
          /\ next.mail = q.mail /\ next.dues = q.dues
      BY <1>3, <3>1
    <3>3. q.op # "view" /\ Co!Due(q.row) \in q.dues
      BY <1>1, <3>2 DEF Sound, Viewing
    <3>4. request'[r] = next
      BY <1>4, <2>1
    <3> QED BY <1>2, <3>2, <3>3, <3>4 DEF Sound, Mailing, SameIssue, Marking, Sending, Viewing
  <2>2. CASE r # w
    <3>1. Co!Active(r) /\ request'[r] = request[r]
      BY <1>4, <1>7, <2>2 DEF Co!Active
    <3>2. PICK p \in RequestRows : p = request[r]
      BY <3>1, ActiveRow DEF LettersInv
    <3>3. Sound(p)
      BY <3>1, <3>2 DEF LettersInv
    <3>4. p.step # "committed" => Apart(p, q)
      BY <1>1, <2>2, <3>1, <3>2 DEF LettersInv, Co!Running, Apart
    <3>5. x # document[d] /\ p.step # "committed" /\ p.doc = d => ~p.holds
      BY <3>4 DEF Apart
    <3>6. p.op = "send" /\ p.step = "written" => issued'[Co!KindOf(p.doc)] = issued[Co!KindOf(p.doc)]
      BY <1>1, <3>4, KindIs DEF Apart
    <3>7. Sound(p)'
      BY <1>1, <3>3, <3>5, <3>6, SoundKept
    <3> QED BY <3>1, <3>2, <3>7 DEF Sound, Mailing, SameIssue, Marking, Sending, Viewing
  <2> QED BY <2>1, <2>2
<1>8. \A p, r \in Workers : p # r /\ Co!Running(p)' /\ Co!Running(r)' => Apart(request[p], request[r])'
  <2>1. ~Co!Running(w)'
    BY <1>3, <1>4 DEF Co!Running, Co!Active
  <2> QED BY <1>4, <2>1, SameRunning DEF Co!Running, Co!Active
<1>9. Co!ShownAsIssued'
  <2> SUFFICES ASSUME NEW y \in seen'
               PROVE  y.number > 0 /\ document'[y.doc].number = y.number /\ document'[y.doc].total = y.total
    BY DEF Co!ShownAsIssued
  <2>1. CASE y \in seen
    <3>1. y.doc \in Co!Documents /\ y.number > 0 /\ document[y.doc].number = y.number /\ document[y.doc].total = y.total
      BY <2>1 DEF LettersInv, LettersShape, Glimpses, Co!ShownAsIssued
    <3> QED BY <1>2, <3>1
  <2>2. CASE y \notin seen
    BY <1>2, <2>2
  <2> QED BY <2>1, <2>2
<1>10. seen' \subseteq Glimpses /\ Co!StatesWhatWasDue'
  BY <1>1 DEF LettersInv, LettersShape, Co!StatesWhatWasDue
<1> QED BY <1>5, <1>6, <1>7, <1>8, <1>9, <1>10 DEF LettersInv

(* The invoice is sent: it has the next number, which no other has.        *)
LEMMA SendCommits ==
    ASSUME LettersInv, NEW w \in Workers, Co!Commit(w), request[w].op = "send"
    PROVE  LettersInv'
<1> DEFINE q == request[w]
           d == q.doc
           x == q.row
           k == Co!KindOf(d)
<1>1. /\ q \in RequestRows /\ Sound(q) /\ q.step = "written" /\ d \in Co!Documents /\ x \in DocumentRows
      /\ k \in {"invoice", "quote"} /\ issued[k] \in Nat
      /\ document[d] \in DocumentRows /\ DocumentStands(d, document[d])
  <2>1. q.step = "written" /\ Co!Active(w)
    BY DEF Co!Commit, Co!Running
  <2>2. q \in RequestRows /\ Sound(q)
    BY <2>1, ActiveRow DEF LettersInv
  <2> QED BY <2>1, <2>2, KindIs DEF RequestRows, LettersInv, LettersShape
<1>2. /\ q.holds /\ document[d].status = "draft"
      /\ x = [document[d] EXCEPT !.status = "sent", !.number = issued[k] + 1, !.emailed = q.mail /\ d \in Invoices]
  BY <1>1, Zenon DEF Sound, Sending
<1>3. /\ x.status = "sent" /\ x.number = issued[k] + 1 /\ x.total = document[d].total /\ x.paid = 0 /\ ~x.viewed
      /\ x.emailed = (q.mail /\ d \in Invoices) /\ document[d].number = 0
  BY <1>1, <1>2 DEF DocumentRows, DocumentStands
<1>4. /\ document' = [document EXCEPT ![d] = x] /\ issued' = [issued EXCEPT ![k] = x.number]
      /\ UNCHANGED <<seen, views>>
  BY DEF Co!Commit, Co!Shown
<1> HIDE DEF x
<1>5. document'[d] = x /\ \A e \in Co!Documents : e # d => document'[e] = document[e]
  BY <1>1, <1>4 DEF LettersInv, LettersShape
<1>6. /\ issued' \in [{"invoice", "quote"} -> Nat] /\ issued'[k] = issued[k] + 1
      /\ \A kind \in {"invoice", "quote"} : kind # k => issued'[kind] = issued[kind]
  BY <1>1, <1>3, <1>4 DEF LettersInv, LettersShape
<1>7. DocumentStands(d, x)
  <2>1. d \notin Invoices => ~x.emailed
    BY <1>3, Zenon
  <2>2. x.number # 0
    BY <1>1, <1>3
  <2> QED BY <1>3, <2>1, <2>2 DEF DocumentStands
<1>8. NumbersCount'
  <2>1. \A e \in Co!Documents : document[e].number \in Nat /\ document[e].number <= issued[Co!KindOf(e)]
    BY DEF LettersInv, LettersShape, NumbersCount, DocumentRows
  <2>2. \A e \in Co!Documents : document'[e].number <= issued'[Co!KindOf(e)]
    BY <1>1, <1>3, <1>5, <1>6, <2>1, KindIs DEF LettersInv, LettersShape
  <2>3. ASSUME NEW e \in Co!Documents, NEW f \in Co!Documents, Co!KindOf(e) = Co!KindOf(f),
               document'[e].number = document'[f].number, document'[e].number > 0
        PROVE  e = f
    <3>1. CASE e = d \/ f = d
      BY <1>1, <1>3, <1>5, <2>1, <2>3, <3>1
    <3>2. CASE e # d /\ f # d
      BY <1>5, <2>3, <3>2 DEF LettersInv, NumbersCount
    <3> QED BY <3>1, <3>2
  <2>4. ASSUME NEW kind \in {"invoice", "quote"} PROVE issued'[kind] = Cardinality(Numbered(kind)')
    <3>1. issued[kind] = Cardinality(Numbered(kind)) /\ IsFiniteSet(Numbered(kind))
      BY NumberedFinite DEF LettersInv, NumbersCount
    <3>2. CASE kind = k
      <4>1. d \notin Numbered(kind) /\ Numbered(kind)' = Numbered(kind) \cup {d}
        BY <1>1, <1>3, <1>5, <3>2 DEF Numbered
      <4> QED BY <1>6, <3>1, <3>2, <4>1, FS_AddElement
    <3>3. CASE kind # k
      <4>1. Numbered(kind)' = Numbered(kind)
        BY <1>5, <3>3 DEF Numbered
      <4> QED BY <1>6, <3>1, <3>3, <4>1
    <3> QED BY <3>2, <3>3
  <2> QED BY <2>2, <2>3, <2>4 DEF NumbersCount
<1>9. Co!ViewedOnce'
  <2> SUFFICES ASSUME NEW e \in Invoices
               PROVE  /\ views'[e] = IF document'[e].viewed THEN 1 ELSE 0
                      /\ document'[e].status \notin {"draft", "cancelled"} => document'[e].status = Co!SettlementStatus(document'[e])
    BY DEF Co!ViewedOnce, Co!SettlementStatus, Co!Due
  <2>1. e \in Co!Documents
    BY DEF Co!Documents
  <2>2. CASE e = d
    <3>1. x.total \in Nat \ {0}
      BY <1>1, LettersAssumption DEF DocumentRows
    <3>2. Co!SettlementStatus(x) = "sent"
      BY <1>3, <3>1 DEF Co!SettlementStatus, Co!Due
    <3>3. views[e] = 0
      BY <1>1, <1>2, <2>2 DEF LettersInv, Co!ViewedOnce, DocumentStands
    <3> QED BY <1>3, <1>4, <1>5, <2>2, <3>2, <3>3
  <2>3. CASE e # d
    BY <1>4, <1>5, <2>1, <2>3 DEF LettersInv, Co!ViewedOnce
  <2> QED BY <2>2, <2>3
<1>10. x.number > 0
  BY <1>1, <1>3
<1>11. views' \in [Invoices -> Nat]
  BY <1>4 DEF LettersInv, LettersShape
<1>12. \A kind \in {"invoice", "quote"} : issued'[kind] # issued[kind] => q.op = "send" /\ k = kind
  BY <1>6
<1>13. ~(document[d].number > 0)
  BY <1>3
<1>14. x = q.row /\ seen' \ seen = {}
  BY <1>4 DEF x
<1>15. q.row.number > 0 /\ x.number = q.row.number /\ x.total = q.row.total
  BY <1>10, <1>14
<1> QED BY <1>1, <1>2, <1>4, <1>6, <1>7, <1>8, <1>9, <1>11, <1>12, <1>13, <1>14, <1>15, LetterCommits

(* Nothing is issued, and what is shown is the invoice as it is now.       *)
LEMMA ViewCommits ==
    ASSUME LettersInv, NEW w \in Workers, Co!Commit(w), request[w].op = "view"
    PROVE  LettersInv'
<1> DEFINE q == request[w]
           d == q.doc
           x == q.row
<1>1. /\ q \in RequestRows /\ Sound(q) /\ q.step = "written" /\ d \in Co!Documents /\ x \in DocumentRows
      /\ document[d] \in DocumentRows /\ DocumentStands(d, document[d])
  <2>1. q.step = "written" /\ Co!Active(w)
    BY DEF Co!Commit, Co!Running
  <2>2. q \in RequestRows /\ Sound(q)
    BY <2>1, ActiveRow DEF LettersInv
  <2> QED BY <2>1, <2>2 DEF RequestRows, LettersInv, LettersShape
<1>2. /\ q.holds /\ d \in Invoices /\ ~q.mail /\ document[d].status # "draft"
      /\ \/ x = document[d]
         \/ /\ document[d].status = "sent" /\ ~document[d].viewed
            /\ x = [document[d] EXCEPT !.status = "viewed", !.viewed = TRUE]
  BY <1>1 DEF Sound, Viewing
<1>3. \/ x = document[d]
      \/ /\ document[d].status = "sent" /\ ~document[d].viewed /\ x.status = "viewed" /\ x.viewed
         /\ x.number = document[d].number /\ x.total = document[d].total /\ x.paid = document[d].paid /\ x.emailed = document[d].emailed
  BY <1>1, <1>2 DEF DocumentRows
<1>4. /\ document' = [document EXCEPT ![d] = x] /\ UNCHANGED issued
      /\ views' = IF x.viewed /\ x # document[d] THEN [views EXCEPT ![d] = views[d] + 1] ELSE views
      /\ seen' = seen \cup {[doc |-> d, number |-> x.number, total |-> x.total]}
  BY DEF Co!Commit, Co!Shown
<1> HIDE DEF x
<1>5. document'[d] = x /\ \A e \in Co!Documents : e # d => document'[e] = document[e]
  BY <1>1, <1>4 DEF LettersInv, LettersShape
<1>6. DocumentStands(d, x) /\ x.number = document[d].number /\ x.total = document[d].total /\ x.number > 0
  BY <1>1, <1>2, <1>3 DEF DocumentStands, DocumentRows
<1>7. NumbersCount'
  <2>1. \A e \in Co!Documents : document'[e].number = document[e].number
    BY <1>5, <1>6
  <2>2. \A kind : Numbered(kind)' = Numbered(kind)
    BY <2>1 DEF Numbered
  <2> QED BY <1>4, <2>1, <2>2 DEF LettersInv, NumbersCount
<1>8. Co!ViewedOnce' /\ views' \in [Invoices -> Nat]
  <2>1. views \in [Invoices -> Nat] /\ views[d] = IF document[d].viewed THEN 1 ELSE 0
    BY <1>2 DEF LettersInv, LettersShape, Co!ViewedOnce
  <2>2. document[d].status \notin {"draft", "cancelled"} => document[d].status = Co!SettlementStatus(document[d])
    BY <1>2 DEF LettersInv, Co!ViewedOnce
  <2>3. \A e \in Invoices : e # d => views'[e] = views[e]
    BY <1>4, <2>1
  <2>4. views' \in [Invoices -> Nat]
    BY <1>2, <1>4, <2>1
  <2>5. views'[d] = IF x.viewed THEN 1 ELSE 0
    BY <1>2, <1>3, <1>4, <2>1
  <2>6. x.status \notin {"draft", "cancelled"} => x.status = Co!SettlementStatus(x)
    <3>1. x.total \in Nat /\ x.paid \in Nat
      BY <1>1, LettersAssumption DEF DocumentRows
    <3> QED BY <1>3, <2>2, <3>1 DEF Co!SettlementStatus, Co!Due
  <2> SUFFICES ASSUME NEW e \in Invoices
               PROVE  /\ views'[e] = IF document'[e].viewed THEN 1 ELSE 0
                      /\ document'[e].status \notin {"draft", "cancelled"} => document'[e].status = Co!SettlementStatus(document'[e])
    BY <2>4 DEF Co!ViewedOnce, Co!SettlementStatus, Co!Due
  <2>7. e \in Co!Documents
    BY DEF Co!Documents
  <2>8. CASE e = d
    BY <1>5, <2>5, <2>6, <2>8
  <2>9. CASE e # d
    BY <1>5, <2>3, <2>7, <2>9 DEF LettersInv, Co!ViewedOnce
  <2> QED BY <2>8, <2>9
<1>9. \A y \in seen' \ seen : y \in Glimpses /\ y.doc = d /\ y.number > 0 /\ y.number = x.number /\ y.total = x.total
  BY <1>1, <1>4, <1>6 DEF Glimpses, DocumentRows
<1>10. issued' \in [{"invoice", "quote"} -> Nat]
  BY <1>4 DEF LettersInv, LettersShape
<1> QED BY <1>1, <1>2, <1>4, <1>6, <1>7, <1>8, <1>9, <1>10, LetterCommits

(* An invoice that is mailed again is marked so, and a quote is left alone.*)
LEMMA EmailCommits ==
    ASSUME LettersInv, NEW w \in Workers, Co!Commit(w), request[w].op = "email"
    PROVE  LettersInv'
<1> DEFINE q == request[w]
           d == q.doc
           x == [document[d] EXCEPT !.emailed = q.row.emailed]
<1>1. /\ q \in RequestRows /\ Sound(q) /\ q.step = "written" /\ d \in Co!Documents /\ q.row \in DocumentRows
      /\ document[d] \in DocumentRows /\ DocumentStands(d, document[d])
  <2>1. q.step = "written" /\ Co!Active(w)
    BY DEF Co!Commit, Co!Running
  <2>2. q \in RequestRows /\ Sound(q)
    BY <2>1, ActiveRow DEF LettersInv
  <2> QED BY <2>1, <2>2 DEF RequestRows, LettersInv, LettersShape
<1>2. q.mail /\ SameIssue(q.row, d) /\ q.row.emailed = (d \in Invoices) /\ (d \in Invoices => q.holds)
  BY <1>1 DEF Sound, Mailing, Marking
<1>3. /\ x \in DocumentRows /\ x.status = document[d].status /\ x.number = document[d].number /\ x.total = document[d].total
      /\ x.paid = document[d].paid /\ x.viewed = document[d].viewed /\ x.emailed = q.row.emailed
  BY <1>1 DEF DocumentRows
<1>4. d \notin Invoices => x = document[d]
  <2> SUFFICES ASSUME d \notin Invoices PROVE x = document[d]
    OBVIOUS
  <2>1. q.row.emailed = FALSE /\ document[d].emailed = FALSE
    BY <1>1, <1>2 DEF DocumentStands, DocumentRows
  <2> QED BY <1>1, <2>1 DEF DocumentRows
<1>5. document' = [document EXCEPT ![d] = x] /\ UNCHANGED <<issued, views, seen>>
  BY DEF Co!Commit, Co!Shown
<1> HIDE DEF x
<1>6. document'[d] = x /\ \A e \in Co!Documents : e # d => document'[e] = document[e]
  BY <1>1, <1>5 DEF LettersInv, LettersShape
<1>7. DocumentStands(d, x)
  BY <1>1, <1>2, <1>3 DEF DocumentStands
<1>8. NumbersCount'
  <2>1. \A e \in Co!Documents : document'[e].number = document[e].number
    BY <1>3, <1>6
  <2>2. \A kind : Numbered(kind)' = Numbered(kind)
    BY <2>1 DEF Numbered
  <2> QED BY <1>5, <2>1, <2>2 DEF LettersInv, NumbersCount
<1>9. Co!ViewedOnce'
  <2>1. \A e \in Co!Documents :
          /\ document'[e].status = document[e].status /\ document'[e].viewed = document[e].viewed
          /\ document'[e].total = document[e].total /\ document'[e].paid = document[e].paid
    BY <1>3, <1>6
  <2> SUFFICES ASSUME NEW e \in Invoices
               PROVE  /\ views'[e] = IF document'[e].viewed THEN 1 ELSE 0
                      /\ document'[e].status \notin {"draft", "cancelled"} => document'[e].status = Co!SettlementStatus(document'[e])
    BY DEF Co!ViewedOnce, Co!SettlementStatus, Co!Due
  <2>2. e \in Co!Documents
    BY DEF Co!Documents
  <2>3. Co!SettlementStatus(document'[e]) = Co!SettlementStatus(document[e])
    BY <2>1, <2>2 DEF Co!SettlementStatus, Co!Due
  <2> QED BY <1>5, <2>1, <2>2, <2>3 DEF LettersInv, Co!ViewedOnce
<1>10. issued' \in [{"invoice", "quote"} -> Nat] /\ views' \in [Invoices -> Nat]
  BY <1>5 DEF LettersInv, LettersShape
<1> QED BY <1>1, <1>2, <1>3, <1>4, <1>5, <1>7, <1>8, <1>9, <1>10, LetterCommits DEF SameIssue

LEMMA LettersStep == LettersInv /\ [Co!Next]_lettersVars => LettersInv'
<1> SUFFICES ASSUME LettersInv, [Co!Next]_lettersVars PROVE LettersInv'
  OBVIOUS
<1>1. ASSUME NEW r \in Workers, NEW d \in Co!Documents, NEW mail \in BOOLEAN, Co!Send(r, d, mail) PROVE LettersInv'
  BY <1>1, LetterStarts DEF Co!Send
<1>2. ASSUME NEW r \in Workers, NEW d \in Co!Documents, Co!Email(r, d) PROVE LettersInv'
  BY <1>2, LetterStarts DEF Co!Email
<1>3. ASSUME NEW r \in Workers, NEW d \in Co!Documents, Co!View(r, d) PROVE LettersInv'
  BY <1>3, LetterStarts DEF Co!View
<1>4. ASSUME NEW r \in Workers, Co!Commit(r) PROVE LettersInv'
  <2>1. request[r].op \in {"send", "email", "view"}
    BY <1>4, ActiveRow DEF Co!Commit, Co!Running, RequestRows, LettersInv
  <2> QED BY <1>4, <2>1, SendCommits, ViewCommits, EmailCommits
<1>5. ASSUME NEW d \in Invoices, Co!PaymentRecord(d) \/ Co!PaymentUnallocate(d) PROVE LettersInv'
  <2>1. CASE Co!PaymentRecord(d)
    BY <2>1, InvoiceSettled DEF Co!PaymentRecord
  <2>2. CASE Co!PaymentUnallocate(d)
    BY <2>2, InvoiceSettled DEF Co!PaymentUnallocate
  <2> QED BY <1>5, <2>1, <2>2
<1>6. CASE UNCHANGED lettersVars
  <2>1. UNCHANGED <<document, issued, request, seen, mailed, views>>
    BY <1>6 DEF lettersVars
  <2>2. LettersShape'
    BY <2>1 DEF LettersInv, LettersShape
  <2>3. Co!ShownAsIssued' /\ Co!StatesWhatWasDue'
    BY <2>1 DEF LettersInv, Co!ShownAsIssued, Co!StatesWhatWasDue
  <2> QED BY <2>1, <2>2, <2>3, DocumentsSame, RequestsSame DEF LettersInv
<1>7. ASSUME Co!Next PROVE LettersInv'
  BY <1>1, <1>2, <1>3, <1>4, <1>5, <1>7, LetterWritten, LetterAbandoned, LetterMailed, DraftEdited, PdfOpened, InvoiceCancelled
  DEF Co!Next
<1> QED BY <1>6, <1>7

LEMMA SameCount == \A S : Co!Cardinality(S) = Cardinality(S)
BY DEF Co!Cardinality, Cardinality

LEMMA LettersInvHolds == LettersInv => Co!TypeOK /\ Co!ShownAsIssued /\ Co!ViewedOnce /\ Co!StatesWhatWasDue
<1> SUFFICES ASSUME LettersInv PROVE Co!TypeOK
  BY DEF LettersInv
<1>1. \A d \in Co!Documents : document[d].number \in 0..Cardinality(Co!Documents)
  <2> SUFFICES ASSUME NEW d \in Co!Documents PROVE document[d].number \in 0..Cardinality(Co!Documents)
    OBVIOUS
  <2> DEFINE k == Co!KindOf(d)
  <2>1. document[d].number \in Nat /\ document[d].number <= issued[k] /\ issued[k] = Cardinality(Numbered(k))
    BY KindIs DEF LettersInv, LettersShape, NumbersCount, DocumentRows
  <2>2. Numbered(k) \subseteq Co!Documents
    BY DEF Numbered
  <2>3. Cardinality(Numbered(k)) <= Cardinality(Co!Documents) /\ Cardinality(Co!Documents) \in Nat /\ Cardinality(Numbered(k)) \in Nat
    BY <2>2, NumberedFinite, FS_Subset, FS_CardinalityType
  <2> QED BY <2>1, <2>3
<1>2. document \in [Co!Documents ->
         [status : {"draft", "sent", "viewed", "partially_paid", "paid", "cancelled"}, number : 0..Cardinality(Co!Documents),
          total : Totals, paid : Nat, viewed : BOOLEAN, emailed : BOOLEAN]]
  BY <1>1 DEF LettersInv, LettersShape, DocumentRows
<1>3. \A d \in Co!Documents : (document[d].number = 0) = (document[d].status = "draft")
  BY DEF LettersInv, DocumentStands
<1>4. \A d \in Co!Documents, r, q \in Workers :
        Co!Running(r) /\ Co!Running(q) /\ request[r].doc = d /\ request[q].doc = d /\ request[r].holds /\ request[q].holds => r = q
  BY DEF LettersInv, Apart
<1>5. \A d, e \in Co!Documents :
        Co!KindOf(d) = Co!KindOf(e) /\ document[d].number = document[e].number /\ document[d].number > 0 => d = e
  BY DEF LettersInv, NumbersCount
<1>6. \A kind \in {"invoice", "quote"} :
        issued[kind] = Cardinality({d \in Co!Documents : Co!KindOf(d) = kind /\ document[d].number > 0})
  BY DEF LettersInv, NumbersCount, Numbered
<1> QED BY <1>2, <1>3, <1>4, <1>5, <1>6, SameCount, Zenon DEF Co!TypeOK

(***************************************************************************)
(* What a client is shown of an invoice or a quote -- in a mail, behind a  *)
(* link, as a PDF -- is issued, under that number and at that total; an    *)
(* invoice is viewed once, and its status stays the one that what was paid *)
(* gives it; and a mail states what was due since it was asked for.        *)
(***************************************************************************)
THEOREM LettersAlwaysTrue == AllSpec => []LettersTrue
<1> DEFINE Inv == part = "letters" => LettersInv
<1>1. AllInit => Inv
  BY LettersInit DEF AllInit
<1>2. Inv /\ [AllNext]_allVars => Inv'
  <2> SUFFICES ASSUME Inv, [AllNext]_allVars, part' = "letters" PROVE LettersInv'
    OBVIOUS
  <2>1. part = "letters" /\ [Co!Next]_lettersVars
    BY DEF AllNext, InboxNext, LettersNext, ListsNext, allVars
  <2> QED BY <2>1, LettersStep
<1>3. Inv => LettersTrue
  BY LettersInvHolds DEF LettersTrue
<1> QED BY <1>1, <1>2, <1>3, PTL DEF AllSpec

(***************************************************************************)
(* The lists.                                                              *)
(***************************************************************************)
TableRows == [day : Int, asked : BOOLEAN]
Cursors   == [id : Ids, day : Int] \cup {None}

Shows(s, a) == \E i \in 1..Len(s) : s[i] = a
Once(s, a)  == \A i, j \in 1..Len(s) : s[i] = a /\ s[j] = a => i = j

ListsShape ==
    /\ table \in [Ids -> TableRows \cup {None}]
    /\ drawn \subseteq Ids /\ drawn \cap Li!Stored = {}
    /\ reader \in [list : Walked, who : {"pages", "export"},
                   step : {"idle", "reading", "whole", "truncated"}, cursor : Cursors, shown : Seq(Ids)]
    /\ kept \subseteq Li!Asked

(* What was there and stayed has been shown, once, up to the cursor, and   *)
(* not beyond it.                                                          *)
ListsInv ==
    /\ ListsShape
    /\ reader.step = "idle" => reader.cursor = None /\ reader.shown = <<>> /\ kept = {}
    /\ \A a \in kept : Once(reader.shown, a)
    /\ reader.step = "reading" =>
          \A a \in kept : Shows(reader.shown, a) <=> ~Li!After(Li!Lists[reader.list], reader.cursor, a)
    /\ reader.step = "whole" => \A a \in kept : Shows(reader.shown, a)
    /\ reader.step = "truncated" => Len(reader.shown) = MaxRows

LEMMA SameCountOfRows == \A S : Li!Cardinality(S) = Cardinality(S)
BY DEF Li!Cardinality, Cardinality

(* A finite set that is totally ordered can be listed in that order: each  *)
(* of its elements has as its place how many are not after it.             *)
LEMMA Listed ==
    ASSUME NEW S, IsFiniteSet(S), NEW R,
           \A a \in S : <<a, a>> \notin R,
           \A a, b, c \in S : <<a, b>> \in R /\ <<b, c>> \in R => <<a, c>> \in R,
           \A a, b \in S : a = b \/ <<a, b>> \in R \/ <<b, a>> \in R
    PROVE  \E s \in [1..Cardinality(S) -> S] : \A i, j \in 1..Cardinality(S) : i < j => <<s[i], s[j]>> \in R
<1> DEFINE n == Cardinality(S)
           Down(a) == {b \in S : <<b, a>> \in R}
           r == [a \in S |-> Cardinality(Down(a)) + 1]
<1>1. n \in Nat
  BY FS_CardinalityType
<1>2. \A a \in S : IsFiniteSet(Down(a)) /\ Cardinality(Down(a)) \in Nat /\ Cardinality(Down(a)) < n
  <2> SUFFICES ASSUME NEW a \in S PROVE IsFiniteSet(Down(a)) /\ Cardinality(Down(a)) \in Nat /\ Cardinality(Down(a)) < n
    OBVIOUS
  <2>1. Down(a) \in SUBSET S /\ Down(a) # S
    OBVIOUS
  <2>2. IsFiniteSet(Down(a)) /\ Cardinality(Down(a)) <= n /\ (n = Cardinality(Down(a)) => S = Down(a))
    BY <2>1, FS_Subset, Zenon
  <2>3. Cardinality(Down(a)) \in Nat
    BY <2>2, FS_CardinalityType
  <2> QED BY <1>1, <2>1, <2>2, <2>3
<1>3. \A a, b \in S : <<a, b>> \in R => Cardinality(Down(a)) < Cardinality(Down(b))
  <2> SUFFICES ASSUME NEW a \in S, NEW b \in S, <<a, b>> \in R PROVE Cardinality(Down(a)) < Cardinality(Down(b))
    OBVIOUS
  <2>1. Down(a) \in SUBSET Down(b) /\ a \in Down(b) /\ a \notin Down(a)
    OBVIOUS
  <2>2. Cardinality(Down(a)) <= Cardinality(Down(b)) /\ (Cardinality(Down(b)) = Cardinality(Down(a)) => Down(b) = Down(a))
    BY <1>2, <2>1, FS_Subset, Zenon
  <2>3. Down(a) # Down(b)
    BY <2>1
  <2> HIDE DEF Down
  <2> QED BY <1>2, <2>2, <2>3
<1> HIDE DEF Down
<1>4. r \in [S -> 1..n] /\ \A a, b \in S : <<a, b>> \in R => r[a] < r[b]
  BY <1>1, <1>2, <1>3
<1> HIDE DEF r
<1>5. \A a, b \in S : r[a] = r[b] => a = b
  <2> SUFFICES ASSUME NEW a \in S, NEW b \in S, r[a] = r[b], a # b PROVE FALSE
    OBVIOUS
  <2>1. r[a] \in Int /\ r[b] \in Int
    BY <1>1, <1>4
  <2>2. r[a] < r[b] \/ r[b] < r[a]
    BY <1>4
  <2> QED BY <2>1, <2>2
<1>6. r \in Injection(S, 1..n)
  BY <1>4, <1>5 DEF Injection, IsInjective
<1>7. IsFiniteSet(1..n) /\ Cardinality(1..n) = n
  BY <1>1, FS_Interval
<1>8. r \in Surjection(S, 1..n)
  BY <1>6, <1>7, FS_Injection
<1>9. \A k \in 1..n : \E a \in S : r[a] = k
  BY <1>8 DEF Surjection
<1> DEFINE s == [k \in 1..n |-> CHOOSE a \in S : r[a] = k]
<1>10. \A k \in 1..n : s[k] \in S /\ r[s[k]] = k
  BY <1>9
<1>11. s \in [1..n -> S]
  BY <1>10
<1> HIDE DEF s
<1>12. \A i, j \in 1..n : i < j => <<s[i], s[j]>> \in R
  <2> SUFFICES ASSUME NEW i \in 1..n, NEW j \in 1..n, i < j, <<s[i], s[j]>> \notin R PROVE FALSE
    OBVIOUS
  <2>1. s[i] = s[j] \/ <<s[j], s[i]>> \in R
    BY <1>10
  <2>2. r[s[i]] = i /\ r[s[j]] = j /\ s[i] \in S /\ s[j] \in S
    BY <1>10
  <2>3. r[s[j]] < r[s[i]] \/ s[i] = s[j]
    BY <1>4, <2>1, <2>2
  <2> QED BY <1>1, <2>2, <2>3
<1> QED BY <1>11, <1>12

(* What a list that follows its cursor is sorted by.                       *)
Follows(l) ==
    \/ l.order \in {"newest", "oldest"} /\ l.cursor = "id"
    \/ l.order = "latest" /\ l.cursor = "day and id"

LEMMA WalkedFollow ==
    ASSUME NEW name \in Walked
    PROVE  Follows(Li!Lists[name]) /\ \A c : Li!Selected(name, c) = {a \in Li!Asked : Li!After(Li!Lists[name], c, a)}
BY ListsAssumption DEF Li!FollowsCursor, Follows, Li!Selected

LEMMA AskedRows ==
    ASSUME ListsShape
    PROVE  Li!Asked \subseteq Ids /\ \A a \in Li!Asked : a \in Int /\ table[a] \in TableRows /\ table[a].day \in Int
BY ListsAssumption DEF ListsShape, Li!Asked, Li!Stored, TableRows

LEMMA RowsOrdered ==
    ASSUME ListsShape, NEW l, Follows(l)
    PROVE  /\ \A a \in Li!Asked : ~Li!Before(l, a, a)
           /\ \A a, b, d \in Li!Asked : Li!Before(l, a, b) /\ Li!Before(l, b, d) => Li!Before(l, a, d)
           /\ \A a, b \in Li!Asked : a = b \/ Li!Before(l, a, b) \/ Li!Before(l, b, a)
<1>1. \A a \in Li!Asked : a \in Int /\ table[a].day \in Int
  BY AskedRows
<1>2. CASE l.order = "newest"
  BY <1>1, <1>2 DEF Li!Before
<1>3. CASE l.order = "oldest"
  BY <1>1, <1>3 DEF Li!Before
<1>4. CASE l.order = "latest"
  BY <1>1, <1>4 DEF Li!Before
<1> QED BY <1>2, <1>3, <1>4 DEF Follows

(* What comes after a row is what comes after the cursor that it leaves.   *)
CursorAt(a) == [id |-> a, day |-> table[a].day]

LEMMA CursorOfRow ==
    ASSUME ListsShape, NEW l, Follows(l), NEW a \in Li!Asked
    PROVE  /\ CursorAt(a) \in Cursors /\ CursorAt(a) # None
           /\ \A b \in Li!Asked : Li!After(l, CursorAt(a), b) <=> Li!Before(l, a, b)
<1>1. a \in Ids /\ a \in Int /\ table[a].day \in Int
  BY AskedRows
<1>2. CursorAt(a) \in [id : Ids, day : Int] /\ CursorAt(a).id = a /\ CursorAt(a).day = table[a].day
  BY <1>1 DEF CursorAt
<1>3. CursorAt(a) # None
  BY <1>2, ListsAssumption
<1>4. \A b \in Li!Asked : b \in Int /\ table[b].day \in Int
  BY AskedRows
<1>5. \A b \in Li!Asked : Li!After(l, CursorAt(a), b) <=> Li!Before(l, a, b)
  <2> SUFFICES ASSUME NEW b \in Li!Asked PROVE Li!After(l, CursorAt(a), b) <=> Li!Before(l, a, b)
    OBVIOUS
  <2>1. CASE l.order = "newest"
    BY <1>1, <1>2, <1>3, <1>4, <2>1 DEF Li!After, Li!Before, Follows
  <2>2. CASE l.order = "oldest"
    BY <1>1, <1>2, <1>3, <1>4, <2>2 DEF Li!After, Li!Before, Follows
  <2>3. CASE l.order = "latest"
    BY <1>1, <1>2, <1>3, <1>4, <2>3 DEF Li!After, Li!Before, Follows
  <2> QED BY <2>1, <2>2, <2>3 DEF Follows
<1> QED BY <1>2, <1>3, <1>5 DEF Cursors

LEMMA ByDayAndId ==
    ASSUME NEW x \in Int, NEW y \in Int, NEW z \in Int, NEW a \in Int, NEW b \in Int, NEW d \in Int,
           x > y \/ (x = y /\ a > b), x < z \/ (x = z /\ a < d)
    PROVE  y < z \/ (y = z /\ b < d)
OBVIOUS

(* What comes after a row that is after the cursor is after it too.        *)
LEMMA AfterOnwards ==
    ASSUME ListsShape, NEW l, Follows(l), NEW c \in Cursors,
           NEW a \in Li!Asked, NEW b \in Li!Asked, Li!After(l, c, a), Li!Before(l, a, b)
    PROVE  Li!After(l, c, b)
<1>1. a \in Int /\ table[a].day \in Int /\ b \in Int /\ table[b].day \in Int
  BY AskedRows
<1>2. CASE c = None
  BY <1>2 DEF Li!After
<1>3. CASE c # None
  <2>1. c.id \in Int /\ c.day \in Int
    BY <1>3, ListsAssumption DEF Cursors
  <2>2. CASE l.order = "newest"
    <3>1. a > b /\ l.cursor = "id"
      BY <2>2, Zenon DEF Li!Before, Follows
    <3>2. a < c.id
      BY <1>3, <2>2, <3>1 DEF Li!After
    <3>3. b < c.id
      BY <1>1, <2>1, <3>1, <3>2
    <3> QED BY <2>2, <3>1, <3>3 DEF Li!After
  <2>3. CASE l.order = "oldest"
    <3>1. a < b /\ l.cursor = "id"
      BY <2>3 DEF Li!Before, Follows
    <3>2. a > c.id
      BY <1>3, <2>3, <3>1 DEF Li!After
    <3>3. b > c.id
      BY <1>1, <2>1, <3>1, <3>2
    <3> QED BY <2>3, <3>1, <3>3 DEF Li!After
  <2>4. CASE l.order = "latest"
    <3>1. (table[a].day > table[b].day \/ (table[a].day = table[b].day /\ a > b)) /\ l.cursor = "day and id"
      BY <2>4 DEF Li!Before, Follows
    <3>2. table[a].day < c.day \/ (table[a].day = c.day /\ a < c.id)
      BY <1>3, <3>1 DEF Li!After
    <3>3. table[b].day < c.day \/ (table[b].day = c.day /\ b < c.id)
      <4> DEFINE x == table[a].day  y == table[b].day  z == c.day  d == c.id
      <4>1. x \in Int /\ y \in Int /\ z \in Int /\ d \in Int
        BY <1>1, <2>1
      <4>2. (x > y \/ (x = y /\ a > b)) /\ (x < z \/ (x = z /\ a < d))
        BY <3>1, <3>2
      <4> HIDE DEF x, y, z, d
      <4>3. y < z \/ (y = z /\ b < d)
        BY <1>1, <4>1, <4>2, ByDayAndId
      <4> QED BY <4>3 DEF y, z, d
    <3> QED BY <3>1, <3>3 DEF Li!After
  <2> QED BY <2>2, <2>3, <2>4 DEF Follows
<1> QED BY <1>2, <1>3

LEMMA SortedRows ==
    ASSUME ListsShape, NEW l, Follows(l), NEW S \in SUBSET Li!Asked
    PROVE  /\ IsFiniteSet(S) /\ Cardinality(S) \in Nat
           /\ Li!Sorted(l, S) \in [1..Cardinality(S) -> S]
           /\ \A i, j \in 1..Cardinality(S) : i < j => Li!Before(l, Li!Sorted(l, S)[i], Li!Sorted(l, S)[j])
           /\ \A a \in S : \E i \in 1..Cardinality(S) : Li!Sorted(l, S)[i] = a
<1> DEFINE n == Cardinality(S)
           R == {p \in S \X S : Li!Before(l, p[1], p[2])}
<1>1. IsFiniteSet(S) /\ n \in Nat
  BY AskedRows, ListsAssumption, FS_Subset, FS_CardinalityType
<1>2. \A a, b \in S : <<a, b>> \in R <=> Li!Before(l, a, b)
  OBVIOUS
<1> HIDE DEF R
<1>3. /\ \A a \in S : <<a, a>> \notin R
      /\ \A a, b, d \in S : <<a, b>> \in R /\ <<b, d>> \in R => <<a, d>> \in R
      /\ \A a, b \in S : a = b \/ <<a, b>> \in R \/ <<b, a>> \in R
  BY <1>2, RowsOrdered
<1>4. \E s \in [1..n -> S] : \A i, j \in 1..n : i < j => <<s[i], s[j]>> \in R
  BY <1>1, <1>3, Listed
<1>5. PICK s0 \in [1..n -> S] : \A i, j \in 1..n : i < j => <<s0[i], s0[j]>> \in R
  BY <1>4
<1>6. \A i, j \in 1..n : i < j => Li!Before(l, s0[i], s0[j])
  BY <1>2, <1>5
<1> DEFINE f == Li!Sorted(l, S)
<1>7. f = CHOOSE s \in [1..n -> S] : \A i, j \in 1..n : i < j => Li!Before(l, s[i], s[j])
  BY SameCountOfRows, Zenon DEF Li!Sorted
<1> HIDE DEF f
<1>8. f \in [1..n -> S] /\ \A i, j \in 1..n : i < j => Li!Before(l, f[i], f[j])
  BY <1>6, <1>7
<1>9. \A i, j \in 1..n : f[i] = f[j] => i = j
  <2> SUFFICES ASSUME NEW i \in 1..n, NEW j \in 1..n, f[i] = f[j], i # j PROVE FALSE
    OBVIOUS
  <2>1. i < j \/ j < i
    BY <1>1
  <2>2. Li!Before(l, f[i], f[i]) /\ f[i] \in Li!Asked
    BY <1>8, <2>1
  <2> QED BY <2>2, RowsOrdered
<1>10. f \in Injection(1..n, S)
  BY <1>8, <1>9 DEF Injection, IsInjective
<1>11. IsFiniteSet(1..n) /\ Cardinality(1..n) = n
  BY <1>1, FS_Interval
<1>12. f \in Surjection(1..n, S)
  BY <1>1, <1>10, <1>11, FS_Injection
<1> QED BY <1>1, <1>8, <1>12 DEF Surjection, f

LEMMA Beginning ==
    ASSUME NEW T, NEW s \in Seq(T), NEW k \in 0..Len(s)
    PROVE  SubSeq(s, 1, k) \in Seq(T) /\ Len(SubSeq(s, 1, k)) = k /\ \A i \in 1..k : SubSeq(s, 1, k)[i] = s[i]
OBVIOUS

LEMMA SeqOfFunction ==
    ASSUME NEW T, NEW n \in Nat, NEW s \in [1..n -> T]
    PROVE  s \in Seq(T) /\ Len(s) = n
OBVIOUS

(* A page shows, once, what was asked for between its cursor and the next, *)
(* and all of it if there is no next.                                      *)
PageOf(p, l, c) ==
    /\ p.data \in Seq(Ids) /\ p.next \in Cursors
    /\ \A a : Once(p.data, a)
    /\ \A a \in Li!Asked : Shows(p.data, a) <=> Li!After(l, c, a) /\ (p.next = None \/ ~Li!After(l, p.next, a))
    /\ \A a \in Li!Asked : p.next # None /\ Li!After(l, p.next, a) => Li!After(l, c, a)

LEMMA PageShows ==
    ASSUME ListsShape, NEW name \in Walked, NEW c \in Cursors
    PROVE  PageOf(Li!Page(name, c), Li!Lists[name], c)
<1> DEFINE l == Li!Lists[name]
           S == {a \in Li!Asked : Li!After(l, c, a)}
           n == Cardinality(S)
           f == Li!Sorted(l, S)
           k == IF n > Limit + 1 THEN Limit + 1 ELSE n
           rows == SubSeq(f, 1, k)
           p == Li!Page(name, c)
<1>1. Follows(l) /\ Li!Selected(name, c) = S
  BY WalkedFollow
<1>2. S \subseteq Li!Asked /\ \A a \in Li!Asked : a \in S <=> Li!After(l, c, a)
  OBVIOUS
<1>3. Limit \in Nat \ {0} /\ Li!Asked \subseteq Ids
  BY AskedRows, ListsAssumption
<1> HIDE DEF l, S
<1>4. /\ n \in Nat /\ f \in [1..n -> S]
      /\ \A i, j \in 1..n : i < j => Li!Before(l, f[i], f[j])
      /\ \A a \in S : \E i \in 1..n : f[i] = a
  BY <1>1, <1>2, SortedRows
<1>5. p = Li!Paginate(SubSeq(f, 1, IF Len(f) > Limit + 1 THEN Limit + 1 ELSE Len(f)))
  BY <1>1 DEF Li!Page, l
<1> HIDE DEF f, n, p
<1>6. f \in Seq(Ids) /\ Len(f) = n
  <2>1. f \in [1..n -> Ids]
    BY <1>2, <1>3, <1>4
  <2> QED BY <1>4, <2>1, SeqOfFunction
<1>7. p = Li!Paginate(rows)
  BY <1>5, <1>6
<1>8. k \in 0..n /\ (k = n \/ k = Limit + 1) /\ (k > Limit <=> n > Limit) /\ (n > Limit => k = Limit + 1)
  BY <1>3, <1>4
<1> HIDE DEF k
<1>9. rows \in Seq(Ids) /\ Len(rows) = k /\ \A i \in 1..k : rows[i] = f[i]
  BY <1>6, <1>8, Beginning
<1> HIDE DEF rows
<1>10. \A i, j \in 1..n : f[i] = f[j] => i = j
  <2> SUFFICES ASSUME NEW i \in 1..n, NEW j \in 1..n, f[i] = f[j], i # j PROVE FALSE
    OBVIOUS
  <2>1. i < j \/ j < i
    BY <1>4
  <2>2. Li!Before(l, f[i], f[i]) /\ f[i] \in Li!Asked
    BY <1>2, <1>4, <2>1
  <2> QED BY <1>1, <2>2, RowsOrdered
<1>11. ASSUME n <= Limit PROVE PageOf(p, l, c)
  <2>1. k = n /\ ~(Len(rows) > Limit)
    BY <1>3, <1>4, <1>8, <1>9, <1>11
  <2>2. p = [data |-> rows, next |-> None]
    BY <1>7, <2>1 DEF Li!Paginate
  <2>3. p.data = rows /\ p.next = None
    BY <2>2
  <2>4. \A a : Once(rows, a)
    BY <1>9, <1>10, <2>1 DEF Once
  <2>5. \A a \in Li!Asked : Shows(rows, a) <=> a \in S
    BY <1>4, <1>9, <2>1 DEF Shows
  <2> QED BY <1>2, <1>9, <2>3, <2>4, <2>5 DEF Cursors, PageOf
<1>12. ASSUME n > Limit PROVE PageOf(p, l, c)
  <2> DEFINE data == SubSeq(rows, 1, Limit)
             last == f[Limit]
  <2>1. k = Limit + 1 /\ Len(rows) > Limit /\ Limit \in 0..Len(rows) /\ Limit \in 1..k /\ Limit \in 1..n
    BY <1>3, <1>4, <1>8, <1>9, <1>12
  <2>2. data \in Seq(Ids) /\ Len(data) = Limit /\ \A i \in 1..Limit : data[i] = f[i]
    <3>1. data \in Seq(Ids) /\ Len(data) = Limit /\ \A i \in 1..Limit : data[i] = rows[i]
      BY <1>9, <2>1, Beginning
    <3> QED BY <1>3, <1>9, <2>1, <3>1
  <2>3. rows[Limit] = last /\ last \in S /\ last \in Li!Asked
    BY <1>2, <1>4, <1>9, <2>1
  <2>4. p = [data |-> data, next |-> CursorAt(last)]
    BY <1>7, <2>1, <2>3 DEF Li!Paginate, CursorAt
  <2>5. p.data = data /\ p.next = CursorAt(last)
    BY <2>4
  <2> HIDE DEF data, last
  <2>6. /\ CursorAt(last) \in Cursors /\ CursorAt(last) # None
        /\ \A b \in Li!Asked : Li!After(l, CursorAt(last), b) <=> Li!Before(l, last, b)
    BY <1>1, <2>3, CursorOfRow
  <2>7. \A a : Once(data, a)
    <3>1. \A i \in 1..Limit : i \in 1..n
      BY <1>3, <1>4, <2>1
    <3> QED BY <1>10, <2>2, <3>1 DEF Once
  <2>8. \A a \in Li!Asked : Shows(data, a) <=> a \in S /\ ~Li!Before(l, last, a)
    <3> SUFFICES ASSUME NEW a \in Li!Asked PROVE Shows(data, a) <=> a \in S /\ ~Li!Before(l, last, a)
      OBVIOUS
    <3>1. ASSUME Shows(data, a) PROVE a \in S /\ ~Li!Before(l, last, a)
      <4>1. PICK i \in 1..Limit : f[i] = a
        BY <2>2, <3>1 DEF Shows
      <4>2. i \in 1..n /\ i <= Limit
        BY <1>4, <2>1
      <4>3. a \in S
        BY <1>4, <4>1, <4>2
      <4>4. i = Limit => a = last
        BY <4>1 DEF last
      <4>5. i < Limit => Li!Before(l, a, last)
        BY <1>4, <2>1, <4>1, <4>2 DEF last
      <4>6. i = Limit \/ i < Limit
        BY <1>3, <4>2
      <4>7. ~Li!Before(l, last, a)
        BY <1>1, <2>3, <4>4, <4>5, <4>6, RowsOrdered
      <4> QED BY <4>3, <4>7
    <3>2. ASSUME a \in S, ~Li!Before(l, last, a) PROVE Shows(data, a)
      <4>1. PICK i \in 1..n : f[i] = a
        BY <1>4, <3>2
      <4>2. ~(i > Limit)
        BY <1>4, <2>1, <3>2, <4>1 DEF last
      <4>3. i \in 1..Limit
        BY <1>3, <4>2
      <4> QED BY <2>2, <4>1, <4>3 DEF Shows
    <3> QED BY <3>1, <3>2
  <2>9. \A a \in Li!Asked : Li!After(l, p.next, a) => Li!After(l, c, a)
    BY <1>1, <1>2, <2>3, <2>5, <2>6, AfterOnwards
  <2> QED BY <1>2, <2>2, <2>5, <2>6, <2>7, <2>8, <2>9 DEF PageOf
<1> QED BY <1>3, <1>4, <1>11, <1>12 DEF l, p

LEMMA Appended ==
    ASSUME NEW s \in Seq(Ids), NEW t \in Seq(Ids), NEW a
    PROVE  /\ s \o t \in Seq(Ids)
           /\ Shows(s \o t, a) <=> Shows(s, a) \/ Shows(t, a)
           /\ Once(s, a) /\ Once(t, a) /\ ~(Shows(s, a) /\ Shows(t, a)) => Once(s \o t, a)
<1> DEFINE u == s \o t
<1>1. u \in Seq(Ids) /\ Len(u) = Len(s) + Len(t) /\ Len(s) \in Nat /\ Len(t) \in Nat
  OBVIOUS
<1>2. \A i \in 1..Len(s) : i \in 1..Len(u) /\ u[i] = s[i]
  OBVIOUS
<1>3. \A i \in 1..Len(t) : i + Len(s) \in 1..Len(u) /\ u[i + Len(s)] = t[i]
  OBVIOUS
<1> HIDE DEF u
<1>4. \A i \in 1..Len(u) : i \in 1..Len(s) \/ i - Len(s) \in 1..Len(t)
  BY <1>1
<1>5. ASSUME NEW i \in 1..Len(u)
      PROVE  \/ i \in 1..Len(s) /\ u[i] = s[i]
             \/ i - Len(s) \in 1..Len(t) /\ u[i] = t[i - Len(s)]
  <2>1. i \in 1..Len(s) => u[i] = s[i]
    BY <1>2
  <2>2. CASE i \notin 1..Len(s)
    <3>1. i - Len(s) \in 1..Len(t) /\ (i - Len(s)) + Len(s) = i
      BY <1>1, <1>4, <2>2
    <3> QED BY <1>3, <3>1
  <2> QED BY <2>1, <2>2
<1>6. Shows(u, a) <=> Shows(s, a) \/ Shows(t, a)
  <2>1. ASSUME Shows(u, a) PROVE Shows(s, a) \/ Shows(t, a)
    BY <1>5, <2>1 DEF Shows
  <2>2. ASSUME Shows(s, a) PROVE Shows(u, a)
    BY <1>2, <2>2 DEF Shows
  <2>3. ASSUME Shows(t, a) PROVE Shows(u, a)
    BY <1>3, <2>3 DEF Shows
  <2> QED BY <2>1, <2>2, <2>3
<1>7. ASSUME Once(s, a), Once(t, a), ~(Shows(s, a) /\ Shows(t, a)) PROVE Once(u, a)
  <2> SUFFICES ASSUME NEW i \in 1..Len(u), NEW j \in 1..Len(u), u[i] = a, u[j] = a PROVE i = j
    BY DEF Once
  <2>1. CASE i \in 1..Len(s) /\ u[i] = s[i] /\ j \in 1..Len(s) /\ u[j] = s[j]
    BY <1>7, <2>1 DEF Once
  <2>2. CASE i - Len(s) \in 1..Len(t) /\ u[i] = t[i - Len(s)] /\ j - Len(s) \in 1..Len(t) /\ u[j] = t[j - Len(s)]
    <3>1. i - Len(s) = j - Len(s)
      BY <1>7, <2>2 DEF Once
    <3> QED BY <1>1, <3>1
  <2>3. CASE Shows(s, a) /\ Shows(t, a)
    BY <1>7, <2>3
  <2> QED BY <1>5, <2>1, <2>2, <2>3 DEF Shows
<1> QED BY <1>1, <1>6, <1>7 DEF u

LEMMA Truncated ==
    ASSUME NEW s \in Seq(Ids), NEW k \in 0..Len(s), NEW a, Once(s, a)
    PROVE  Once(SubSeq(s, 1, k), a)
<1>1. Len(SubSeq(s, 1, k)) = k /\ \A i \in 1..k : SubSeq(s, 1, k)[i] = s[i]
  BY Beginning
<1>2. \A i \in 1..k : i \in 1..Len(s)
  OBVIOUS
<1> QED BY <1>1, <1>2 DEF Once

(* What has been shown once there is another page.                         *)
LEMMA PageAdds ==
    ASSUME ListsInv, reader.step = "reading"
    PROVE  LET p == Li!Page(reader.list, reader.cursor)  all == reader.shown \o p.data IN
           /\ all \in Seq(Ids) /\ p.next \in Cursors
           /\ \A a \in kept : Once(all, a)
           /\ \A a \in kept : Shows(all, a) <=> p.next = None \/ ~Li!After(Li!Lists[reader.list], p.next, a)
<1> DEFINE l == Li!Lists[reader.list]
           c == reader.cursor
           p == Li!Page(reader.list, c)
<1>1. reader.list \in Walked /\ c \in Cursors /\ reader.shown \in Seq(Ids) /\ kept \subseteq Li!Asked
  BY DEF ListsInv, ListsShape
<1>2. PageOf(p, l, c)
  BY <1>1, PageShows DEF ListsInv
<1>3. \A a \in kept : Once(reader.shown, a) /\ (Shows(reader.shown, a) <=> ~Li!After(l, c, a))
  BY DEF ListsInv
<1> HIDE DEF l, p
<1>4. \A a \in kept : Once(p.data, a) /\ (Shows(p.data, a) <=> Li!After(l, c, a) /\ (p.next = None \/ ~Li!After(l, p.next, a)))
  BY <1>1, <1>2 DEF PageOf
<1>5. \A a \in kept : p.next # None /\ Li!After(l, p.next, a) => Li!After(l, c, a)
  BY <1>1, <1>2 DEF PageOf
<1>6. p.data \in Seq(Ids) /\ p.next \in Cursors
  BY <1>2 DEF PageOf
<1>7. reader.shown \o p.data \in Seq(Ids)
  BY <1>1, <1>6, Appended
<1>8. \A a \in kept : Once(reader.shown \o p.data, a)
  BY <1>1, <1>3, <1>4, <1>6, Appended
<1>9. \A a \in kept : Shows(reader.shown \o p.data, a) <=> Shows(reader.shown, a) \/ Shows(p.data, a)
  BY <1>1, <1>6, Appended
<1>10. \A a \in kept : Shows(reader.shown \o p.data, a) <=> p.next = None \/ ~Li!After(l, p.next, a)
  BY <1>3, <1>4, <1>5, <1>9
<1> QED BY <1>6, <1>7, <1>8, <1>10 DEF l, p

LEMMA ListsInit == Li!Init => ListsInv
<1> SUFFICES ASSUME Li!Init PROVE ListsInv
  OBVIOUS
<1>1. PICK name \in Walked, who \in {"pages", "export"} :
         reader = [list |-> name, who |-> who, step |-> "idle", cursor |-> None, shown |-> <<>>]
  BY DEF Li!Init
<1>2. reader.step = "idle" /\ reader.cursor = None /\ reader.shown = <<>> /\ kept = {}
  BY <1>1 DEF Li!Init
<1>3. table \in [Ids -> TableRows \cup {None}] /\ drawn = {} /\ kept = {}
  BY DEF Li!Init
<1>4. reader \in [list : Walked, who : {"pages", "export"},
                  step : {"idle", "reading", "whole", "truncated"}, cursor : Cursors, shown : Seq(Ids)]
  BY <1>1 DEF Cursors
<1> QED BY <1>2, <1>3, <1>4 DEF ListsInv, ListsShape

(* A write leaves alone what is kept, and what is kept is where it was.    *)
LEMMA ListsWrites ==
    ASSUME ListsInv, ListsShape', reader' = reader, kept' \subseteq kept, reader.step = "idle" => kept' = {},
           \A a \in kept' : table'[a] = table[a]
    PROVE  ListsInv'
<1> DEFINE l == Li!Lists[reader.list]
<1>1. \A a \in kept' : Li!After(l, reader.cursor, a)' <=> Li!After(l, reader.cursor, a)
  BY DEF Li!After, Li!Lists
<1>2. reader.step = "reading" =>
          \A a \in kept' : Shows(reader.shown, a) <=> ~Li!After(l, reader.cursor, a)'
  BY <1>1 DEF ListsInv
<1> QED BY <1>2 DEF ListsInv

LEMMA ListsNewId == ASSUME ListsInv, NEW a \in Ids, Li!NewId(a) PROVE ListsInv'
<1>1. table' = table /\ reader' = reader /\ kept' = kept /\ drawn' = drawn \cup {a} /\ table[a] = None
  BY DEF Li!NewId
<1>2. Li!Stored' = Li!Stored /\ Li!Asked' = Li!Asked
  BY <1>1 DEF Li!Stored, Li!Asked
<1>3. ListsShape'
  BY <1>1, <1>2 DEF ListsInv, ListsShape, Li!Stored
<1> QED BY <1>1, <1>3, ListsWrites DEF ListsInv

LEMMA ListsInsert ==
    ASSUME ListsInv, NEW a \in Ids, NEW values \in TableRows, Li!Insert(a, values)
    PROVE  ListsInv'
<1>1. a \in drawn /\ reader' = reader /\ kept' = kept /\ drawn' = drawn \ {a} /\ table' = [table EXCEPT ![a] = values]
  BY DEF Li!Insert
<1>2. a \notin Li!Stored /\ a \notin kept
  BY <1>1 DEF ListsInv, ListsShape, Li!Asked
<1>3. table' \in [Ids -> TableRows \cup {None}] /\ \A b \in Ids : b # a => table'[b] = table[b]
  BY <1>1 DEF ListsInv, ListsShape
<1>4. kept \subseteq Li!Asked /\ Li!Asked \subseteq Ids
  BY DEF ListsInv, ListsShape, Li!Asked, Li!Stored
<1>5. kept' \subseteq Li!Asked' /\ \A b \in kept' : table'[b] = table[b]
  BY <1>1, <1>2, <1>3, <1>4 DEF Li!Asked, Li!Stored
<1>6. drawn' \subseteq Ids /\ drawn' \cap Li!Stored' = {}
  BY <1>1, <1>3 DEF ListsInv, ListsShape, Li!Stored
<1>7. ListsShape'
  BY <1>1, <1>3, <1>5, <1>6 DEF ListsInv, ListsShape
<1> QED BY <1>1, <1>5, <1>7, ListsWrites DEF ListsInv

LEMMA ListsEdit ==
    ASSUME ListsInv, NEW a \in Ids, NEW values \in TableRows \cup {None},
           reader.step = "reading", a \in Li!Stored,
           table' = [table EXCEPT ![a] = values], kept' = kept \ {a}, UNCHANGED <<drawn, reader>>
    PROVE  ListsInv'
<1>1. table' \in [Ids -> TableRows \cup {None}] /\ \A b \in Ids : b # a => table'[b] = table[b]
  BY DEF ListsInv, ListsShape
<1>2. kept \subseteq Li!Asked /\ Li!Asked \subseteq Ids
  BY DEF ListsInv, ListsShape, Li!Asked, Li!Stored
<1>3. kept' \subseteq Li!Asked' /\ \A b \in kept' : table'[b] = table[b]
  BY <1>1, <1>2 DEF Li!Asked, Li!Stored
<1>4. drawn' \subseteq Ids /\ drawn' \cap Li!Stored' = {}
  BY <1>1 DEF ListsInv, ListsShape, Li!Stored
<1>5. ListsShape'
  BY <1>1, <1>3, <1>4 DEF ListsInv, ListsShape
<1> QED BY <1>3, <1>5, ListsWrites DEF ListsInv

(* A reader who has the next page, or who has all there is.                *)
LEMMA ListsShows ==
    ASSUME ListsInv, reader.step = "reading", UNCHANGED <<table, drawn, kept>>,
           NEW shown \in Seq(Ids), NEW next \in Cursors, NEW step \in {"reading", "whole", "truncated"},
           reader' = [reader EXCEPT !.shown = shown, !.cursor = next, !.step = step],
           \A a \in kept : Once(shown, a),
           step # "truncated" => (step = "whole" <=> next = None),
           step # "truncated" =>
              \A a \in kept : Shows(shown, a) <=> next = None \/ ~Li!After(Li!Lists[reader.list], next, a),
           step = "truncated" => Len(shown) = MaxRows
    PROVE  ListsInv'
<1>1. Li!Stored' = Li!Stored /\ Li!Asked' = Li!Asked
  BY DEF Li!Stored, Li!Asked
<1>2. /\ reader'.list = reader.list /\ reader'.step = step /\ reader'.cursor = next /\ reader'.shown = shown
      /\ reader' \in [list : Walked, who : {"pages", "export"},
                       step : {"idle", "reading", "whole", "truncated"}, cursor : Cursors, shown : Seq(Ids)]
  BY DEF ListsInv, ListsShape
<1>3. ListsShape'
  BY <1>1, <1>2 DEF ListsInv, ListsShape
<1>4. \A a : Li!After(Li!Lists[reader.list], reader.cursor, a)' <=> Li!After(Li!Lists[reader.list], next, a)
  BY <1>2 DEF Li!After
<1>5. step = "reading" =>
         \A a \in kept : Shows(shown, a) <=> ~Li!After(Li!Lists[reader.list], reader.cursor, a)'
  BY <1>4
<1>6. step = "whole" => \A a \in kept : Shows(shown, a)
  OBVIOUS
<1> QED BY <1>2, <1>3, <1>5, <1>6 DEF ListsInv

LEMMA ListsNextPage == ASSUME ListsInv, Li!NextPage PROVE ListsInv'
<1> DEFINE p == Li!Page(reader.list, reader.cursor)
           all == reader.shown \o p.data
           step == IF p.next = None THEN "whole" ELSE "reading"
<1>1. /\ reader.step = "reading" /\ UNCHANGED <<table, drawn, kept>>
      /\ reader' = [reader EXCEPT !.shown = all, !.cursor = p.next, !.step = step]
  BY DEF Li!NextPage, Li!Reading
<1>2. /\ all \in Seq(Ids) /\ p.next \in Cursors
      /\ \A a \in kept : Once(all, a)
      /\ \A a \in kept : Shows(all, a) <=> p.next = None \/ ~Li!After(Li!Lists[reader.list], p.next, a)
  BY <1>1, PageAdds
<1> HIDE DEF p, all
<1> QED BY <1>1, <1>2, ListsShows

LEMMA ListsExportPage == ASSUME ListsInv, Li!ExportPage PROVE ListsInv'
<1> DEFINE p == Li!Page(reader.list, reader.cursor)
           all == reader.shown \o p.data
           cut == Len(all) > MaxRows
           shown == IF cut THEN SubSeq(all, 1, MaxRows) ELSE all
           step == IF cut THEN "truncated" ELSE IF p.next = None THEN "whole" ELSE "reading"
<1>1. /\ reader.step = "reading" /\ UNCHANGED <<table, drawn, kept>>
      /\ reader' = [reader EXCEPT !.shown = shown, !.cursor = p.next, !.step = step]
  BY DEF Li!ExportPage, Li!Reading
<1>2. /\ all \in Seq(Ids) /\ p.next \in Cursors
      /\ \A a \in kept : Once(all, a)
      /\ \A a \in kept : Shows(all, a) <=> p.next = None \/ ~Li!After(Li!Lists[reader.list], p.next, a)
  BY <1>1, PageAdds
<1> HIDE DEF p, all
<1>3. CASE cut
  <2>1. MaxRows \in 0..Len(all) /\ step = "truncated" /\ shown = SubSeq(all, 1, MaxRows)
    BY <1>2, <1>3, ListsAssumption
  <2>2. shown \in Seq(Ids) /\ Len(shown) = MaxRows /\ \A a \in kept : Once(shown, a)
    BY <1>2, <2>1, Beginning, Truncated
  <2> HIDE DEF shown, step
  <2> QED BY <1>1, <1>2, <2>1, <2>2, ListsShows
<1>4. CASE ~cut
  <2>1. shown = all /\ step = IF p.next = None THEN "whole" ELSE "reading"
    BY <1>4
  <2> HIDE DEF shown, step
  <2> QED BY <1>1, <1>2, <2>1, ListsShows
<1> QED BY <1>3, <1>4

LEMMA ListsFirstPage == ASSUME ListsInv, Li!FirstPage PROVE ListsInv'
<1>1. reader.step = "idle" /\ reader.cursor = None /\ reader.shown = <<>>
  BY DEF Li!FirstPage, ListsInv
<1>2. /\ table' = table /\ drawn' = drawn /\ reader' = [reader EXCEPT !.step = "reading"]
      /\ kept' = Li!Asked
  BY DEF Li!FirstPage
<1>3. Li!Stored' = Li!Stored /\ Li!Asked' = Li!Asked
  BY <1>2 DEF Li!Stored, Li!Asked
<1>4. reader'.step = "reading" /\ reader'.cursor = None /\ reader'.shown = <<>> /\ reader'.list = reader.list
  BY <1>1, <1>2 DEF ListsInv, ListsShape
<1>5. ListsShape'
  BY <1>2, <1>3, <1>4 DEF ListsInv, ListsShape
<1>6. \A a : Once(<<>>, a) /\ ~Shows(<<>>, a)
  BY DEF Once, Shows
<1>7. \A a : Li!After(Li!Lists[reader.list], reader.cursor, a)'
  BY <1>4 DEF Li!After
<1> QED BY <1>4, <1>5, <1>6, <1>7 DEF ListsInv

LEMMA ListsStep == ListsInv /\ [Li!Next]_listsVars => ListsInv'
<1> SUFFICES ASSUME ListsInv, [Li!Next]_listsVars PROVE ListsInv'
  OBVIOUS
<1>1. CASE UNCHANGED listsVars
  BY <1>1 DEF listsVars, ListsInv, ListsShape, Li!Asked, Li!Stored, Li!After
<1>2. ASSUME NEW a \in Ids, Li!NewId(a) PROVE ListsInv'
  BY <1>2, ListsNewId
<1>3. ASSUME NEW a \in Ids, Li!Delete(a) PROVE ListsInv'
  BY <1>3, ListsEdit DEF Li!Delete, Li!Reading, Li!Touched
<1>4. Li!RowsOf(reader.list) \subseteq TableRows
  <2>1. Li!DaysOf(reader.list) \subseteq Int
    BY ListsAssumption DEF Li!DaysOf
  <2> HIDE DEF Li!DaysOf
  <2> QED BY <2>1 DEF Li!RowsOf, TableRows
<1>5. ASSUME NEW a \in Ids, NEW values \in Li!RowsOf(reader.list), Li!Insert(a, values) PROVE ListsInv'
  BY <1>4, <1>5, ListsInsert
<1>6. ASSUME NEW a \in Ids, NEW values \in Li!RowsOf(reader.list), Li!Edit(a, values) PROVE ListsInv'
  BY <1>4, <1>6, ListsEdit DEF Li!Edit, Li!Reading, Li!Touched
<1> QED BY <1>1, <1>2, <1>3, <1>5, <1>6, ListsFirstPage, ListsNextPage, ListsExportPage DEF Li!Next, Li!Write

LEMMA ListsInvHolds == ListsInv => Li!ShownOnce
<1> SUFFICES ASSUME ListsInv PROVE Li!ShownOnce
  OBVIOUS
<1>1. reader.shown \in Seq(Ids) /\ DOMAIN reader.shown = 1..Len(reader.shown)
  BY DEF ListsInv, ListsShape
<1>2. ASSUME NEW a \in kept
      PROVE  Li!Cardinality({i \in DOMAIN reader.shown : reader.shown[i] = a}) <= 1
  <2> DEFINE P == {i \in DOMAIN reader.shown : reader.shown[i] = a}
  <2>1. Cardinality(P) <= 1
    <3>1. CASE P = {}
      BY <3>1, FS_EmptySet
    <3>2. CASE P # {}
      <4>1. PICK i \in P : TRUE
        BY <3>2
      <4>2. P = {i}
        BY <1>1, <4>1 DEF ListsInv, Once
      <4> QED BY <4>2, FS_Singleton
    <3> QED BY <3>1, <3>2
  <2> QED BY <2>1, SameCountOfRows
<1>3. reader.step = "whole" => kept \subseteq Li!Range(reader.shown)
  BY <1>1 DEF ListsInv, Shows, Li!Range
<1> QED BY <1>2, <1>3 DEF ListsInv, Li!ShownOnce

(***************************************************************************)
(* Whoever follows nextCursor to the end is shown, once, every row that    *)
(* was there when the reading began and stayed as it was, whatever is      *)
(* added, changed or removed meanwhile; and an export leaves some of it    *)
(* out only when it is full, and says so.                                  *)
(***************************************************************************)
THEOREM ListsAlwaysComplete == AllSpec => []ListsComplete
<1> DEFINE Inv == part = "lists" => ListsInv
<1>1. AllInit => Inv
  BY ListsInit DEF AllInit
<1>2. Inv /\ [AllNext]_allVars => Inv'
  <2> SUFFICES ASSUME Inv, [AllNext]_allVars, part' = "lists" PROVE ListsInv'
    OBVIOUS
  <2>1. part = "lists" /\ [Li!Next]_listsVars
    BY DEF AllNext, InboxNext, LettersNext, ListsNext, allVars
  <2> QED BY <2>1, ListsStep
<1>3. Inv => ListsComplete
  BY ListsInvHolds DEF ListsComplete
<1> QED BY <1>1, <1>2, <1>3, PTL DEF AllSpec
=============================================================================
