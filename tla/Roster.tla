-------------------------------- MODULE Roster --------------------------------
(***************************************************************************)
(* How the daemon learns of an account. The bot keeps a table of accounts  *)
(* and copies it to a Google sheet after every change (sheets_sync.py);    *)
(* the daemon imports the sheet every few minutes into its own table       *)
(* (sync_service.go, accounts_repo.go), by account id; what WhatsApp says  *)
(* of a connection reaches both tables by phone number (events.go, app.go).*)
(* Ids are reused: SQLite gives a new account the highest id plus one.     *)
(*                                                                         *)
(* Who may authorize when, and the sessions behind it, are in AuthFlow.    *)
(***************************************************************************)
EXTENDS Integers, FiniteSets, Sequences

CONSTANTS
  Phone,
  InitialRows,   \* accounts when the model starts: id |-> phone, all connected
  Writer,        \* handlers of the bot that can be at work at once
  Listener,      \* goroutines of the daemon that handle connection events
  Retries,       \* tries of a sheet sync (3)
  MaxMoves       \* bound: authorizations, deletions, logouts, lost connections,
                 \* restarts, failing statements, answers and sheet syncs

ASSUME RosterAssumption ==
  /\ IsFiniteSet(DOMAIN InitialRows)
  /\ \A id \in DOMAIN InitialRows : id \in Nat \ {0} /\ InitialRows[id] \in Phone
  /\ \A id, other \in DOMAIN InitialRows : InitialRows[id] = InitialRows[other] => id = other
  /\ Retries \in Nat \ {0} /\ MaxMoves \in Nat

VARIABLES
  rows,      \* accounts of the bot, by id
  sheet,     \* the sheet: blank, or a header and rows <<id, phone>>
  writer,    \* handlers of the bot
  runtime,   \* accounts of the daemon, by id
  fetched,   \* the sheet as the import that is at work has read it
  session,   \* of each phone: whether a device is stored, and the client in the pool
  event,     \* connection events at work
  told,      \* history: of each phone, the last event and the ids it changed
  unbroken,  \* history: the last sheet sync met no other and was not given up,
             \* and no handler has failed on its way to one since
  spent

rosterOnly == <<rows, sheet, writer, runtime, fetched, session, event, told, unbroken>>
rosterVars == <<rosterOnly, spent>>

Blank == [header |-> FALSE, rows |-> << >>]
At(pc, phone) == [pc |-> pc, phone |-> phone, rows |-> << >>, tries |-> 0]
NoWriter == At("idle", {})
NoEvent == [pc |-> "idle", phone |-> {}, status |-> "ready", client |-> 0]

RowsOf(t, p) == {id \in DOMAIN t : t[id].phone = p}
Greatest(S) == CHOOSE i \in S : \A j \in S : j <= i

(* The rows a sync writes, in the order of their ids.                      *)
ById(entries) ==
  LET lower(e) == {d \in entries : d[1] < e[1]}
  IN  [n \in 1..Cardinality(entries) |->
         CHOOSE e \in entries : Cardinality(lower(e)) = n - 1]

TableRows(t) == ById({<<id, t[id].phone>> : id \in DOMAIN t})

RosterInit ==
  /\ rows = [id \in DOMAIN InitialRows |-> [phone |-> InitialRows[id], status |-> "active"]]
  /\ sheet = [header |-> TRUE, rows |-> TableRows(rows)]
  /\ writer = [w \in Writer |-> NoWriter]
  /\ runtime = [id \in DOMAIN InitialRows |-> [phone |-> InitialRows[id], status |-> "ready"]]
  /\ fetched = Blank
  /\ session = [p \in Phone |-> IF RowsOf(rows, p) = {}
                                   THEN [stored |-> FALSE, pool |-> "none", client |-> 0]
                                   ELSE [stored |-> TRUE, pool |-> "up", client |-> 0]]
  /\ event = [g \in Listener |-> NoEvent]
  /\ told = [p \in Phone |-> [status |-> "ready", ids |-> RowsOf(rows, p)]]
  /\ unbroken = TRUE
  /\ spent = 0

Spend == spent < MaxMoves /\ spent' = spent + 1

------------------------------------------------------------------------------
(* The bot: accounts come and go.                                          *)

NextId == IF DOMAIN rows = {} THEN 1 ELSE 1 + Greatest(DOMAIN rows)

(* WhatsApp confirms an authorization. The daemon puts a client of the new *)
(* device into its pool, unless one of the phone is there (of a device     *)
(* that was logged out, perhaps); a phone with a device is authorized      *)
(* already. Only with the answer does the bot know the account.            *)
Authorized(w, p) ==
  /\ writer[w].pc = "idle"
  /\ Spend
  /\ session' = [session EXCEPT ![p] =
                    IF ~@.stored /\ @.pool = "none"
                      THEN [stored |-> TRUE, pool |-> "down", client |-> @.client + 1]
                      ELSE [@ EXCEPT !.stored = TRUE]]
  /\ writer' = [writer EXCEPT ![w] = At("persist", {p})]
  /\ UNCHANGED <<rows, sheet, runtime, fetched, event, told, unbroken>>

(* Mutant: every authorization adds a row.                                 *)
AddRow(w) ==
  /\ writer[w].pc = "persist"
  /\ LET p == CHOOSE q \in writer[w].phone : TRUE
     IN  rows' = [id \in DOMAIN rows \union {NextId} |->
                    IF id \in DOMAIN rows THEN rows[id] ELSE [phone |-> p, status |-> "active"]]
  /\ writer' = [writer EXCEPT ![w].pc = "sync"]
  /\ UNCHANGED <<sheet, runtime, fetched, session, event, told, unbroken, spent>>

(* Mutant: an account that comes is not synced.                            *)
PersistOnly(w) ==
  /\ writer[w].pc = "persist"
  /\ LET p == CHOOSE q \in writer[w].phone : TRUE
         row == [phone |-> p, status |-> "active"]
     IN  rows' = IF RowsOf(rows, p) # {}
                   THEN [id \in DOMAIN rows |-> IF rows[id].phone = p THEN row ELSE rows[id]]
                   ELSE [id \in DOMAIN rows \union {NextId} |->
                           IF id \in DOMAIN rows THEN rows[id] ELSE row]
  /\ writer' = [writer EXCEPT ![w] = NoWriter]
  /\ UNCHANGED <<sheet, runtime, fetched, session, event, told, unbroken, spent>>

(* _persist_account: a known phone is reactivated, a new one gets a row.   *)
Persist(w) ==
  /\ writer[w].pc = "persist"
  /\ LET p == CHOOSE q \in writer[w].phone : TRUE
         row == [phone |-> p, status |-> "active"]
     IN  rows' = IF RowsOf(rows, p) # {}
                   THEN [id \in DOMAIN rows |-> IF rows[id].phone = p THEN row ELSE rows[id]]
                   ELSE [id \in DOMAIN rows \union {NextId} |->
                           IF id \in DOMAIN rows THEN rows[id] ELSE row]
  /\ writer' = [writer EXCEPT ![w].pc = "sync"]
  /\ UNCHANGED <<sheet, runtime, fetched, session, event, told, unbroken, spent>>

(* delete_session: the daemon removes the session, or fails to; the answer *)
(* is not looked at.                                                       *)
BeginDelete(w, p) ==
  /\ writer[w].pc = "idle" /\ RowsOf(rows, p) # {}
  /\ Spend
  /\ \/ session' = [session EXCEPT ![p].stored = FALSE, ![p].pool = "none"]
     \/ UNCHANGED session
  /\ writer' = [writer EXCEPT ![w] = At("erase", {p})]
  /\ UNCHANGED <<rows, sheet, runtime, fetched, event, told, unbroken>>

Erase(w) ==
  /\ writer[w].pc = "erase"
  /\ rows' = [id \in {i \in DOMAIN rows : {rows[i].phone} # writer[w].phone} |-> rows[id]]
  /\ writer' = [writer EXCEPT ![w].pc = "sync"]
  /\ UNCHANGED <<sheet, runtime, fetched, session, event, told, unbroken, spent>>

(* A handler fails: at its statement, or between it and the sync, which    *)
(* then never begins: an answer to the admin, a query for the list shown   *)
(* to him, or the one the sync itself starts with.                         *)
WriterFails(w) ==
  /\ writer[w].pc \in {"persist", "erase", "sync"}
  /\ Spend
  /\ writer' = [writer EXCEPT ![w] = NoWriter]
  /\ unbroken' = (unbroken /\ writer[w].pc # "sync")
  /\ UNCHANGED <<rows, sheet, runtime, fetched, session, event, told>>

------------------------------------------------------------------------------
(* The bot: sync_accounts reads the table and then rewrites the sheet in a *)
(* thread of its own: clear it, write from the first row on, format.       *)

Writing == {w \in Writer : writer[w].pc \in {"clear", "update", "format"}}

ReadTable(w) ==
  /\ writer[w].pc = "sync"
  /\ writer' = [writer EXCEPT ![w] = [pc |-> "clear", phone |-> {}, rows |-> TableRows(rows),
                                         tries |-> Retries]]
  /\ unbroken' = (Writing = {})
  /\ UNCHANGED <<rows, sheet, runtime, fetched, session, event, told, spent>>

(* Mutant: the new rows are written over the old ones.                     *)
KeepSheet(w) ==
  /\ writer[w].pc = "clear"
  /\ writer' = [writer EXCEPT ![w].pc = "update"]
  /\ UNCHANGED <<rows, sheet, runtime, fetched, session, event, told, unbroken, spent>>

ClearSheet(w) ==
  /\ writer[w].pc = "clear"
  /\ sheet' = Blank
  /\ writer' = [writer EXCEPT ![w].pc = "update"]
  /\ UNCHANGED <<rows, runtime, fetched, session, event, told, unbroken, spent>>

(* Rows below the last one written stay as they are.                       *)
UpdateSheet(w) ==
  LET new == writer[w].rows
  IN  /\ writer[w].pc = "update"
      /\ sheet' = [header |-> TRUE,
                   rows |-> [i \in 1..Greatest({Len(new), Len(sheet.rows)}) |->
                               IF i <= Len(new) THEN new[i] ELSE sheet.rows[i]]]
      /\ writer' = [writer EXCEPT ![w].pc = "format"]
      /\ UNCHANGED <<rows, runtime, fetched, session, event, told, unbroken, spent>>

FormatSheet(w) ==
  /\ writer[w].pc = "format"
  /\ writer' = [writer EXCEPT ![w] = NoWriter]
  /\ UNCHANGED <<rows, sheet, runtime, fetched, session, event, told, unbroken, spent>>

(* Google refuses: once more from the start, and after the last try never. *)
SheetFails(w) ==
  /\ w \in Writing
  /\ Spend
  /\ \/ /\ writer[w].tries > 1
        /\ writer' = [writer EXCEPT ![w].pc = "clear", ![w].tries = @ - 1]
        /\ UNCHANGED unbroken
     \/ /\ writer[w].tries = 1
        /\ writer' = [writer EXCEPT ![w] = NoWriter]
        /\ unbroken' = FALSE
  /\ UNCHANGED <<rows, sheet, runtime, fetched, session, event, told>>

(* The bot starts: what it was at is lost, a sync comes first.             *)
BeginWithSync(w) ==
  /\ writer' = [v \in Writer |-> IF v = w THEN At("sync", {}) ELSE NoWriter]
  /\ UNCHANGED <<rows, sheet, runtime, fetched, session, event, told, unbroken>>

------------------------------------------------------------------------------
(* The daemon: Sync.                                                       *)

(* A blank sheet is an error.                                              *)
ReadSheet ==
  /\ fetched = Blank /\ sheet.header
  /\ fetched' = sheet
  /\ UNCHANGED <<rows, sheet, writer, runtime, session, event, told, unbroken, spent>>

SettledStatus == {"blocked", "failed", "ready", "disconnected"}

(* Mutant: an import knows nothing of connections.                         *)
StatusFromSheet(id) == "auth_required"

(* An account the daemon knows keeps its status, whatever phone it has now.*)
StatusAfterImport(id) ==
  IF id \in DOMAIN runtime /\ runtime[id].status \in SettledStatus
    THEN runtime[id].status ELSE "auth_required"

(* UpsertMany: of two rows with one id, the later one wins.                *)
Upsert ==
  LET new == fetched.rows
      ids == {new[i][1] : i \in DOMAIN new}
      PhoneIn(id) == new[Greatest({i \in DOMAIN new : new[i][1] = id})][2]
  IN  /\ fetched # Blank
      /\ runtime' = [id \in DOMAIN runtime \union ids |->
                       IF id \in ids THEN [phone |-> PhoneIn(id), status |-> StatusAfterImport(id)]
                                     ELSE runtime[id]]
      /\ told' = [p \in Phone |-> [told[p] EXCEPT !.ids = @ \intersect RowsOf(runtime', p)]]
      /\ fetched' = Blank
      /\ UNCHANGED <<rows, sheet, writer, session, event, unbroken, spent>>

(* The insertion is one transaction: it fails as a whole, the ticker comes *)
(* again.                                                                  *)
ImportFails ==
  /\ fetched # Blank
  /\ Spend
  /\ fetched' = Blank
  /\ UNCHANGED <<rows, sheet, writer, runtime, session, event, told, unbroken>>

------------------------------------------------------------------------------
(* WhatsApp: connections come and go, an owner removes the device.         *)

(* The events of one client are handled one after the other.              *)
Happens(p, status, s) ==
  /\ \A g \in Listener : event[g].phone # {p} \/ event[g].client # session[p].client
  /\ \E g \in Listener :
       /\ event[g].pc = "idle"
       /\ event' = [event EXCEPT ![g] = [pc |-> "runtime", phone |-> {p}, status |-> status,
                                         client |-> session[p].client]]
  /\ session' = [session EXCEPT ![p] = s]

LosesConnection(p) ==
  /\ session[p].pool = "up"
  /\ Spend
  /\ Happens(p, "disconnected", [session[p] EXCEPT !.pool = "down"])
  /\ UNCHANGED <<rows, sheet, writer, runtime, fetched, told, unbroken>>

Connects(p) ==
  /\ session[p].pool = "down"
  /\ Happens(p, "ready", [session[p] EXCEPT !.pool = "up"])
  /\ UNCHANGED <<rows, sheet, writer, runtime, fetched, told, unbroken, spent>>

(* The device is deleted. Its client stays in the pool and never connects. *)
IsLoggedOut(p) ==
  /\ session[p].pool = "up"
  /\ Spend
  /\ Happens(p, "blocked", [session[p] EXCEPT !.pool = "dead", !.stored = FALSE])
  /\ UNCHANGED <<rows, sheet, writer, runtime, fetched, told, unbroken>>

(* OnStatusChange: first the daemon's rows of this phone, all of them ...  *)
LeaveRuntime(g) ==
  /\ event[g].pc = "runtime"
  /\ event' = IF event[g].status = "disconnected" THEN [event EXCEPT ![g] = NoEvent]
                                                   ELSE [event EXCEPT ![g].pc = "admin"]
  /\ UNCHANGED <<rows, sheet, writer, fetched, session, unbroken>>

TellRuntime(g) ==
  LET p == CHOOSE q \in event[g].phone : TRUE
      hit == RowsOf(runtime, p)
      status == event[g].status
  IN  /\ LeaveRuntime(g)
      /\ runtime' = [id \in DOMAIN runtime |->
                       IF id \in hit THEN [runtime[id] EXCEPT !.status = status] ELSE runtime[id]]
      /\ told' = [told EXCEPT ![p] = [status |-> status, ids |-> hit]]
      /\ UNCHANGED spent

(* The update fails: the error is logged, and the handler goes on.         *)
UpdateFails(g) ==
  /\ LeaveRuntime(g)
  /\ Spend
  /\ UNCHANGED <<runtime, told>>

(* ... then the bot's row, if there is one and the statement does not fail *)
(* (the exclusion that follows is in Dispatcher).                          *)
TellBot(g) ==
  /\ event[g].pc = "admin"
  /\ \/ /\ rows' = [id \in DOMAIN rows |->
                     IF {rows[id].phone} = event[g].phone
                       THEN [rows[id] EXCEPT !.status = IF event[g].status = "ready"
                                                          THEN "active" ELSE "revoked"]
                       ELSE rows[id]]
        /\ UNCHANGED spent
     \/ Spend /\ UNCHANGED rows
  /\ event' = [event EXCEPT ![g] = NoEvent]
  /\ UNCHANGED <<sheet, writer, runtime, fetched, session, told, unbroken>>

(* The daemon restarts: what it was at is lost, every stored device gets a *)
(* client.                                                                 *)
RestartDaemon ==
  /\ Spend
  /\ fetched' = Blank
  /\ event' = [g \in Listener |-> NoEvent]
  /\ session' = [p \in Phone |->
                   IF session[p].stored
                     THEN [stored |-> TRUE, pool |-> "down", client |-> session[p].client + 1]
                     ELSE [session[p] EXCEPT !.pool = "none"]]
  /\ UNCHANGED <<rows, sheet, writer, runtime, told, unbroken>>

GoOnWriting(w) ==
  Persist(w) \/ Erase(w) \/ ReadTable(w) \/ ClearSheet(w) \/ UpdateSheet(w) \/ FormatSheet(w)

Import == ReadSheet \/ Upsert

RosterNext ==
  \/ \E w \in Writer, p \in Phone : Authorized(w, p) \/ BeginDelete(w, p)
  \/ \E w \in Writer : GoOnWriting(w) \/ WriterFails(w) \/ SheetFails(w)
  \/ Import \/ ImportFails
  \/ \E p \in Phone : LosesConnection(p) \/ Connects(p) \/ IsLoggedOut(p)
  \/ \E g \in Listener : TellRuntime(g) \/ UpdateFails(g) \/ TellBot(g)
  \/ RestartDaemon

------------------------------------------------------------------------------
AtRest == \A w \in Writer : writer[w].pc = "idle"
EventsOf(p) == {g \in Listener : event[g].phone = {p}}

RosterTypeOK ==
  /\ \A id \in DOMAIN rows :
       id \in Nat \ {0} /\ rows[id] \in [phone : Phone, status : {"active", "revoked"}]
  /\ \A id \in DOMAIN runtime :
       runtime[id] \in [phone : Phone, status : SettledStatus \union {"auth_required"}]
  /\ \A id, other \in DOMAIN rows : rows[id].phone = rows[other].phone => id = other
  /\ \A p \in Phone : session[p].pool \in {"none", "down", "up", "dead"}
  /\ spent \in 0..MaxMoves

(* Once the handlers are done, the sheet holds the accounts of the table   *)
(* and nothing else, if the last sync met no other and went through and no *)
(* handler failed between its change and its sync (which leaves the sheet  *)
(* behind): no account deleted before comes back with an import.           *)
SheetMatches ==
  AtRest /\ unbroken => sheet = [header |-> TRUE, rows |-> TableRows(rows)]

(* An import never undoes what a connection event said of an account, be   *)
(* it before, after or between the reading of the sheet and the insertion. *)
StatusIsLastEvent ==
  \A p \in Phone : \A id \in told[p].ids : runtime[id].status = told[p].status

(* What the bot saved reaches the daemon: when in the end a sync meets no  *)
(* other and goes through, and no handler fails on its way to one          *)
(* afterwards, the daemon ends up with every account under its id.         *)
CaughtUp ==
  <>[]unbroken => <>[](\A id \in DOMAIN rows :
                         id \in DOMAIN runtime /\ runtime[id].phone = rows[id].phone)

(* "Dead account -> rebuild ring among survivors": an account whose client *)
(* is connected, with every event handled and the account imported, is not *)
(* one the dispatcher takes for dead.                                      *)
ConnectedIsAvailable ==
  \A p \in Phone :
    session[p].pool = "up" /\ EventsOf(p) = {} =>
      \A id \in RowsOf(runtime, p) : runtime[id].status = "ready"

==============================================================================
