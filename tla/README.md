# A TLA+ model of the WhatsApp warm-up bot

This directory is a verification development for the two programs under
`src/`: a Telegram bot (Python, `src/admin-tg-bot`) with which administrators
link WhatsApp accounts and put them into warm-up groups, and a daemon (Go,
`src/wa-user-bot`) that keeps the accounts connected and sends the groups'
messages. The two share SQLite files and talk over HTTP. The modules say what
both do, step by step; TLC checks them on small instances; TLAPS proves the
main results for all values of the constants.

1. [The system](#1-the-system): components, state, interactions
2. [Modules](#2-modules): what models what
3. [What is checked](#3-what-is-checked): runs, bounds, fairness
4. [What is proved](#4-what-is-proved)
5. [Where code and promises differ](#5-where-code-and-promises-differ)
6. [Not modelled](#6-not-modelled)
7. [Plan](#7-plan)

Run a check with `tlc -config RingDrop.cfg MCDispatcher.tla` and a proof with
`tlapm LedgerProofs.tla`, both in this directory.

## 1. The system

| Component | State | Operations | What is hard about it | What makes it correct |
|---|---|---|---|---|
| Dispatcher loop (`scheduler/dispatcher.go`) | cooldown per account (memory); the batch of a tick (locals) | `DispatchDue` on every tick: cancel what missed its window, claim due jobs, send each, record the outcome; strikes, cooldowns, exclusion | runs against the bot and the event goroutines on one table; each statement can fail; a crash between a delivery and its record | keeps `JobLedger` (`KeepsLedger`); no message twice but after a crash (`AtMostOncePerRun`), outcomes final (`OutcomeIsFinal`), nothing sent on a wrong day (`SentOnItsDay`), no job stuck (`NothingStranded`, `EveryJobSettles`), strikes apart (`StrikesArePaced`) |
| Ring rebuild (`scheduler/ring_rebuild.go`) | `rebuildMu` | after an account drops out: read the group's open days and order of accounts, cancel its jobs, insert a new dialogue of the survivors | called by the loop and by every account's event goroutine; several transactions; the bot does not know of the mutex | one dialogue (`OneRingPerDay`), without the dropped account (`DropTakesEffect`), complete (`DialogueResumes`), in the window (`PlannedInWindow`), and always finished (`LogoutHandled`) |
| Job store (`storage/sqlite/jobs_repo.go`) | `message_jobs` | claim, mark, cancel, reschedule, reset, insert; the queries of the rebuild | outcomes are written by id whatever the status; the order of a ring is recovered from the rows | the operators behind all of the above; `DropBridges` for the recovered order |
| Connection events (`whatsapp/events.go`, `app/app.go`) | `accounts.status` in both databases | connected, disconnected, logged out; mirror to the admin database; exclusion | one goroutine per client, in any order with the loop, the import and the bot | `DropTakesEffect`, `LogoutHandled`, `StatusIsLastEvent` |
| Warm-up groups (`communications.py`, `group_repo.py`) | groups, members, the dialogues, `message_jobs` | pick accounts, start time and days; check, save and schedule; complete; delete; finish what is over | handlers interleave at every await; several transactions without a rollback; old buttons work forever; ids and `comm_id`s are used again | the ring: `AcceptedStartFits`, `BalancedDialogue`; a saved plan is whole (`FullPlan`), what runs can be stopped (`Stoppable`), what is finished was over (`FinishedIsOver`) |
| WhatsApp sessions (`whatsapp/manager.go`, `auth.go`, `api/server.go`) | device store `multi.db`, client pool | start, QR authorization, logout; whatsmeow's own deletions | one goroutine per HTTP request, contexts cancelled in the middle, pool and store updated apart | `SuccessIsConnected` |
| Account authorization (`utils/wa_auth.py`, `accounts_auth.py`, `session_repo.py`) | one `WhatsAppAuth` for all admins, the dialogues, `accounts` | enter a phone, pick a proxy, stream, cancel, save, delete | shared stream, tasks that interleave at every await | `BusyHasOwner`, `OneStream`, `OnlyOwnerSaves`, `OneProxyPerAccount` |
| Accounts and sheet sync (`sheets_sync.py`, `sync_service.go`, `accounts_repo.go`) | the bot's accounts, a Google sheet, the daemon's accounts | write the sheet after each change, import it every few minutes | the sheet is the only way a row takes; writes overlap and fail; imports never delete and ids are used again; events come by phone and may come first | `SheetMatches`, `CaughtUp`, `StatusIsLastEvent`, `ConnectedIsAvailable` |
| Administrators (`access.py`, `admins_handlers.py`) | table `admins`, the set `is_admin` reads | add, remove, reload at start | two copies, several handlers | `AccessMatchesTable` |
| Planner of sheet communications (`planner.go`) | `communications` | plan the days of a communication | nothing writes its table (section 6) | - |

How they interact: the bot inserts into and cancels in `message_jobs`; the
loop claims and settles there; a failing send or a logout makes the loop or an
event goroutine rebuild the ring there. The daemon mirrors connection changes
into the bot's `accounts` table; the bot asks the daemon for authorizations and
logouts over HTTP, and tells it of accounts through the sheet. `PROJECT.json` lists every component and, under
`hazards`, what can go wrong in each place that a test would hardly reach.

## 2. Modules

| Module | Models |
|---|---|
| `Rings` | The pure algorithm both programs implement: pairs and messages of a ring, random schedules, the window filter, accepted starts, the start of a rebuilt day. |
| `JobStore` | `JobsRepo`: each SQL statement as an operator on the table, a function from `<<comm_id, run_date, step_no>>` (the table's UNIQUE key) to rows. |
| `JobLedger` | Abstract: what a scheduled message is owed, without tables, batches, rebuilds or a clock. |
| `Dispatcher` | EXTENDS `Rings`, `JobStore`; refines `JobLedger`. The loop, the rebuilds of the loop and of each event goroutine, `OnStatusChange`, the bot's create/complete/delete, the clock, failing statements and crashes. |
| `GroupRing` | EXTENDS `Rings`, `JobStore`. One group from the picker through the accepted start and its first day's rows to every order of drops. |
| `Groups` | EXTENDS `Rings`, `JobStore`. The bot's groups: dialogues, the handlers that save, complete, delete and finish groups, restarts and failures. |
| `Sessions` | The daemon's device store, pool, authorization and logout handlers, and WhatsApp. |
| `AuthFlow` | EXTENDS `Sessions`. The bot's dialogues and the one shared stream. |
| `Roster` | The bot's accounts, the sheet, the import, the daemon's accounts, and the connection events that cross it. |
| `Access` | The administrators, in the table and in memory. |
| `Registry` | EXTENDS `Roster`, `Access`: the bot's handlers of both, which a restart ends together. |
| `MCDispatcher`, `MCGroupRing`, `MCGroups`, `MCAuthFlow`, `MCRegistry` | Values and symmetry for TLC. |
| `RingsProofs`, `GroupRingProofs`, `DispatcherProofs`, `LedgerProofs`, `DialogueProofs`, `AuthFlowProofs`, `GroupsProofs`, `RegistryProofs` | Lemmas and theorems (section 4). |

Mutated forms of some definitions stand beside them (comment "Mutant"); no
specification uses them. `PROJECT.json` names the property each one breaks.

### Dispatcher

An action is one SQL statement or transaction, one call to WhatsApp, or one
section under a mutex, together with the local computation next to it.

* `dpc` is the place in `DispatchDue`: `Boot` (`ResetSendingJobs`),
  `StartTick` (fix `now`, `CancelOutsideSendWindow`), `ClaimJobs`, then per job
  `SkipJob` (cancelled meanwhile by a rebuild of this tick, past the window),
  `LoadAccounts` with its decision, `RescheduleCooling`, `FailJob`, the send
  (`SendSucceeds`, `SendFailsSoftly`, `SendFailsFatally`), `RecordSent`,
  `MarkAdminSessionLost`, and the exclusion. A failing statement has the branch
  the code has: some end the tick, some only log.
* `rb[p]` holds the locals of process p's `rebuildRingAfterDrop`: `RbList`
  takes `rebuildMu` and reads the affected groups, `RbEnabled` asks the admin
  database which are enabled, per group `RbStale` or `RbRead`, `RbCancel`, one
  `RbInsert` per day, and `RbUnlock`.
* `handler[a]` is the event goroutine of account a: `Report` writes the runtime
  status, `Mirror` the admin database; a logout then excludes the account.
* `group[c]` is the bot's progress with a group: `BotSaveGroup`, one
  `BotInsertDay` per day, `BotEnable`; `BotCancel` and `BotDelete` complete or
  delete it. `BotGivesUp` is a failure in between.
* `Crash` forgets everything in memory, as a new process does.

Merged into one action, because no other process can tell the difference or
the difference only adds another stale read of the same kind: the reads of
`RbRead`; the two account reads of a job (`LoadAccounts`); `MaxStepNo` and the
insertion (`RbInsert`: steps of a group are only inserted by the bot before
the group is enabled or under `rebuildMu`); taking the mutex and the first
query (`RbList`).

Simplifications, with their reasons: accounts and phones are one to one;
`comm_id`s are distinct, and a group is not completed or deleted while it is
still being saved (both are in `Groups`); a dispatcher always has a message generator (`NewDispatcher`
is only called with one), so `CancelJobsInvolvingAccount` is not reached;
texts are not modelled. Times are compared as numbers: both programs write
them in formats that SQLite compares in the same order. `sends`, `base` and
`moved` are history fields of a row for the properties (deliveries, the step
the insertion was numbered after, whether the loop rescheduled it).

### JobLedger

A message is open, sent, failed or cancelled; some open ones are in the
daemon's hand. `Dispatcher` maps to it like this: the state is the row's status,
with `pending` and `sending` both open; the hand is the batch of the tick, from
the claim on; the epoch counts the crashes. So the hand empties in a crash, and
what was in it stays open, which is where a second delivery comes from. The
ledger says what the loop may not do however it is interleaved: take what was
withdrawn or already delivered in this run, call sent what was not delivered,
put back what this run delivered, settle a message twice.

### Groups

A `task` is one aiogram handler at work; `pc` is the await it is at. `Confirm`
reads and checks the dialogue (`ValidPlan`), `SaveGroup` is the transaction with
the row and its members, `InsertDay` one day's transaction, `SetCommId` the last
one, `ClearDialog` the end, which clears whatever the dialogue holds by then.
`Press` reads the group for "delete" or "complete", `CancelGroup` and
`DropGroup` are the two statements that follow; "delete" goes on into the menu,
whose statements are `FinishExpired` and one `StopExpired` per group. `Fault`
ends a handler between two statements, `Restart` all of them. Every button may
be pressed at any time, since the bot's messages keep theirs; "complete" only
for groups a menu has shown as finished. Row ids are SQLite's: the greatest
plus one, so the id of a deleted last group is given away again. `second` is
the Unix time that becomes `comm_id`: two groups may get the same.

`of` (a history field of rows, tasks and groups) tells which group a message
was made for; `orphaned` collects the groups that no row names any more, by the
four ways that `Stoppable` lists. The order of the accounts does not matter to
this module's properties, so a selection is a set (`GroupRing` has the order);
names and typed texts are left out, since a typed time or number does what a
button does. The daemon's settling and rebuilding are in `Dispatcher`: here a
message stays open until the bot cancels it.

### Roster, Access, Registry

`rows` is the bot's table, `sheet` the sheet, `runtime` the daemon's table;
`writer[w]` is a handler of the bot that saves (`Authorized`, `Persist`) or
deletes (`BeginDelete`, `Erase`) an account and then syncs: `ReadTable`,
`ClearSheet`, `UpdateSheet`, `FormatSheet`, with `SheetFails` and its retries at
each of the three. `WriterFails` ends a handler at its statement or between it
and the sync, which then does not happen: `_show_result` after the save, the
answer and the list after the deletion, and `get_all` in `sync_accounts` are
awaits outside the retry loop, and each can raise. `ReadSheet` and `Upsert` are
the import, and `ImportFails` is its transaction rolled back. `event[g]` is an
event goroutine: `TellRuntime`, or `UpdateFails` (the error is logged and the
goroutine goes on), then `TellBot`, which may fail, too. `session[p]` keeps only what
decides whether a phone's client can connect (a stored device, a client, and a
number that tells a new client from an old one); the daemon's own course is in
`Sessions`. `told` and `unbroken` are history: the last event of a phone with the
rows it changed (a failed update tells nothing), and whether the last sync met
no other and was not given up and no handler has failed since between its change
and its sync.
`_persist_account` is one action: no other handler can tell its read from its
write but a second authorization of one phone, which `Sessions` refuses.

`Access` is the table `admins` and the set in memory; `crossed` remembers people
that were added and removed at the same time, of whom nothing can be said.

### Sessions and AuthFlow

`req[r]` is an HTTP handler of the daemon, `gone` that its context is
cancelled. `pool` is `clientsByPhone`; `extra` holds clients that are only in
`m.clients`, which happens when `Start` finds two devices of one phone.
`store` is the device store, `unlinked` the devices WhatsApp no longer
accepts. `Store.Delete` with a cancelled context has no effect. When whatsmeow
learns that a device was removed it deletes it itself and reports `LoggedOut`
(external behaviour); the pool keeps the client. If `Connect` fails the old
entry stays, with a disconnected client. The mirror of an event in the admin
database is one action with the event here; its delays and failures are in
`Dispatcher`.

`flow[a]` is the dialogue of an admin and its `_run_account_auth`; `session` is
`WhatsAppAuth._session`, as the admin whose stream it is. `_close` is atomic
(closing a plain HTTP session does not wait for the network) and drops unread
data. `Cancel` is possible at any time: the button has no state filter. The
`finally` of a run closes whatever stream is open when it gets there, also
another admin's: the model keeps that. A time-out is a `StreamBreaks`.
An admin has one authorization at a time, one deletion runs at a time, and an
admin's request slot is free again once the daemon's handler has ended; these
are bounds. `Number` bounds the phones admins enter, not those that scan.

## 3. What is checked

| Run | Question | Instance |
|---|---|---|
| `RingDrop` | Two rebuilds of one ring, before and in the window, of today and tomorrow, in every interleaving: one dialogue, without the dropped account, nothing stranded, nothing lost, strikes apart | ring of 3, two days, two failed sends and a logout |
| `CrashRetry` | Deliveries and outcomes over a crash, a failing statement, a failing send, a status change; the refinement of `JobLedger` | 2 accounts, one of each fault |
| `Settling` | Liveness, with one failing statement | 2 accounts, `FairSpec` |
| `RingLife` | Every ring picked, every accepted start, every order of drops | 6 accounts and 3 cycles per pair: the code's own sizes |
| `AuthFlow` | Two admins on the shared stream, with cancellation, deletion, an unlinked device, a stranger's scan, a restart | 2 admins, 2 phones, 2 devices |
| `GroupLife` | Groups saved, deleted, completed and finished by two handlers at once | 3 accounts, 2 groups of 1 or 2 days, 1 fault |
| `Registry` | Accounts and administrators come and go while syncs overlap, imports run and both processes restart; liveness of the way to the daemon | 2 accounts, 2 handlers, 2 events at once, 3 moves |
| `CompleteRace`, `DroppedBack`, `ReauthStale`, `ProxyTwice`, `FreshIsDead` | The five divergences of section 5 | counterexamples |

Why the bounds are enough. In `Dispatcher` every property relates at most two
jobs, one group, and two processes that rebuild; a ring of three is the
smallest whose drop leaves a dialogue, and two drops the smallest number that
can clash. A tick of the clock stands for a minute; a "day" of 4 to 9 ticks has
ticks in and after the window (and before it, in `RingDrop` and `CrashRetry`).
`RingDrop` has two days' rows, so that one rebuild plans both a day that has
begun and one that has not. `CrashRetry` and `Settling` run to the end of the
window or into the next day. `MaxFaults`, `MaxErrors`, `MaxReports`,
`MaxCrashes` and `MaxTime` bound how often the environment acts; where in the
code it acts is free. The pauses between messages are random only in
`CrashRetry`, elsewhere a tick long; for arbitrary pauses the schedules' types
are lemmas of `RingsProofs`. `RingLife` reduces nothing but the pauses: the
latest start is computed for the longest pauses, and shorter ones only end a
schedule earlier. `AuthFlow` has one phone that admins enter and a second that
may scan; two admins suffice, since each property relates the stream to one
owner and one other admin; `ProxyTwice` lets them enter both phones and adds a
proxy.

`GroupLife` has one admin with two handlers: a dialogue is per admin, and what
collides are handlers. Its one start is early enough for two accounts and too
late for three, so that adding an account by an old button matters; its clock
jumps from the first day to the second, when plans of one day are over and
plans of two are not. Two groups are enough for a reused id and for a clashing
`comm_id`; `MaxFaults` allows one failing statement, restart or deleted
account. `Registry` has two accounts and two phones, so that ids are used
again; its `MaxMoves` counts what the world does (an authorization, a deletion,
a lost connection, a logout, a refusal by Google, a restart, a change of an
administrator) and what fails (a handler of the bot, an update of an event, an
import). Three are needed to delete an account, authorize another, and
have one thing go wrong; a sync is refused up to `Retries` times, so that it is
also given up.

Deadlock is checked in every run but `RingLife`, where a group that lost all
its accounts has nothing left to do, and `Registry` and `FreshIsDead`, where
after the last of the moves nothing may be left to do: an import reads only a
sheet that is not blank. `AuthFlow`, `GroupLife` and `RingLife` use symmetry: no
definition orders the permuted values or picks one out, and the runs check no
liveness.

Fairness (`FairSpec`): time passes; the loop's goroutine and the event
goroutines that can run do (weak); a goroutine that waits for `rebuildMu` again
and again finds it free gets it (strong, on `RbList` only: Go's mutex switches
to handing over after a millisecond of starvation). In `Registry`: a handler of
the bot that has work goes on (asyncio runs its task, the executor the thread
that writes the sheet), and the import, which is on a ticker, happens when the
sheet can be read (weak). Nothing is assumed of WhatsApp, Google, the admins, or
of failures: those may stop or never happen. In `Registry` a failing step is an
action of its own beside the one that succeeds, outside the fairness condition,
and may be taken instead as long as `MaxMoves` allows: a handler is not assumed
to reach its sync. (An import that cannot read the sheet changes nothing;
fairness says that the ticker's tries do not fail forever.) `CaughtUp` therefore
speaks of runs in which, in the end, a sync meets no other and goes through and
no handler fails on its way to one any more.

Every safety invariant and every action property of these runs is a theorem
(section 4). Only model-checked are `EveryJobSettles`, `LogoutHandled` and
`CaughtUp`: liveness under fairness and ENABLED are beyond the prover. So is
induction over data, but no module here defines a recursive operator. The
counterexamples of section 5 are TLC's alone.

## 4. What is proved

The theorems hold for every set of accounts, groups and plans, every calendar,
pauses, cooldowns and batch size, every set of admins, phones, devices and
proxies that satisfy the modules' assumptions (`RingsAssumption`,
`GroupRingAssumption`, `DispatcherAssumption`, `SessionsAssumption`,
`AuthFlowAssumption`, `GroupsAssumption`, `RosterAssumption`); nothing else is
assumed, but for the runs the last four theorems of the table speak of.

| Theorem | States |
|---|---|
| `DispatcherProofs!TypeCorrect` | `Spec => []TypeOK` of `Dispatcher` |
| `LedgerProofs!DeliveredOncePerRun` | `Spec => []AtMostOncePerRun`: a message reaches WhatsApp at most once more than the daemon has crashed |
| `LedgerProofs!OutcomesAreFinal` | `Spec => OutcomeIsFinal`: a sent or failed message stays so |
| `LedgerProofs!LedgerKept` | `Spec => KeepsLedger`: `Dispatcher` implements `JobLedger` |
| `DialogueProofs!OneDialogueADay` | `Spec => []OneRingPerDay`: rebuilds never leave two dialogues on a day |
| `DialogueProofs!DropsTakeEffect` | `Spec => []DropTakesEffect`: a finished rebuild leaves no open job of the dropped account |
| `DialogueProofs!NothingForgotten` | `Spec => []NothingStranded`: a finished tick has settled what it claimed |
| `DialogueProofs!SentInTime` | `Spec => []SentOnItsDay`: what is sent is due, on its day, in its window |
| `DialogueProofs!PlannedInTime` | `Spec => []PlannedInWindow`: messages are planned in the window of their day |
| `DialogueProofs!PeaceAfterFailure` | `Spec => StrikesArePaced`: between two failures an account cools down |
| `DialogueProofs!DialogueGoesOn` | `Spec => DialogueResumes`: a rebuild inserts all that the window is sure to hold |
| `GroupRingProofs!DialogueIsBalanced` | `Spec => []BalancedDialogue` of `GroupRing` |
| `GroupRingProofs!AcceptedStartsFit` | `Spec => []AcceptedStartFits`: at most the last message of a day is lost |
| `GroupRingProofs!GapsAreBridged` | `Spec => DropBridges`: one new pair bridges the gap of a drop |
| `AuthFlowProofs!TypeCorrect` | `Spec => []TypeOK` of `AuthFlow` |
| `AuthFlowProofs!AlwaysOwned` | `Spec => []BusyHasOwner` |
| `AuthFlowProofs!OneListenedTo` | `Spec => []OneStream` |
| `AuthFlowProofs!LateAnswersDropped` | `Spec => OnlyOwnerSaves` |
| `GroupsProofs!GroupsTyped` | `Spec => []GroupsTypeOK` |
| `GroupsProofs!EveryGroupStoppable` | `Spec => []Stoppable` |
| `GroupsProofs!PlansAreComplete` | `Spec => []FullPlan`: a saved group has the messages of all its days |
| `GroupsProofs!OnlyOldGroupsFinish` | `Spec => FinishedIsOver` |
| `RegistryProofs!AccessKept` | `Spec => []AccessMatchesTable` |
| `RegistryProofs!StatusKept` | `Spec => []StatusIsLastEvent` |
| `RegistryProofs!SheetKept` | `Spec => []SheetMatches`: the sheet is the table's, unless syncs met, one was given up, or a handler failed before its own |
| `RegistryProofs!RosterTyped` | `Spec => []RosterTypeOK`, with no phone in two rows |
| `DialogueProofs!OnlyTwoWritesRevive` | `Spec /\ []NoWriteUnderWay => []CompletedMeansCancelled` |
| `DialogueProofs!OnlyStaleStatusReturns` | `Spec /\ []ReadsTheTruth => DroppedStaysOut` |
| `AuthFlowProofs!OnlyPicksCollide` | `Spec /\ []ProxiesApart => []OneProxyPerAccount` |
| `RegistryProofs!ThreeWaysToLookDead` | `Spec /\ []OneClientSpeaks /\ [][ConnectionIsTold]_vars => []KnownIsAvailable` |

*Dispatcher.* `TypeOK` is not inductive: the job in hand is only a row
while the batch is not empty, which `dpc` must tell; a rebuild's writes need the
group and the dates it has read; and `MAX(step_no)` needs that step numbers are bounded.
`TypeInv` adds this:
`GoodTable` (keys and rows have their types, step numbers a bound), `LoopOK`, `RebuildOK`
(what a rebuild holds at each pc), `LoopWaits` (the loop only rebuilds while
excluding), `RestOK`. `RingsProofs` supplies what pairs, messages, schedules
and rows of a day are, and what a statement on the table leaves alone.

*Ledger.* `LedgerInv` adds to it where a message is that may still be sent.
`BatchClaimed`: the jobs of the batch are different and each is `sending`, or
was cancelled behind the loop's back, never anything else. `Ledger`: a pending
job (after a crash, every job) has been delivered at most `crashes` times, so
has a job of the batch until it is sent, and no job more than `crashes + 1`
times. `AtMostOncePerRun` alone is not inductive, since a claimed job could
have been delivered before. The proof sorts the steps into kinds (`QuietStep`,
`SettlingStep`, `DeliveryStep`, `ClaimStep`, `DecidingStep`) and then takes
each action of `Next` to its kind.

*Refinement.* `LedgerKept` needs no new invariant: `LedgerInv` tells of each job
in the batch how often it was delivered and that it has no outcome, which is what
`Deliver` and `Settle` of the ledger ask. The proof takes each action to a step
of the ledger or a stutter: rebuilds, the bot and the cancellations to
`Withdraw` and `Plan`, the claim to `Take`, the sends to `Deliver`, records and
reschedules to `Settle`, skips and failed statements to `PutDown`.

*Dialogue.* Two lemmas say what a step can do to the table: it ages (`Aged`: rows
stay, only a reschedule moves one), or the bot or a rebuild inserts the rows of
one day (`Inserted`). With them an invariant of the rows is checked against the
two insertions and the one step that concerns it. None of the properties is
inductive alone; what each needs is:

* `PlannedInWindow`: that the start of every group being saved was accepted
  (`PlansFit`), so that later days, which start with their window, fit too.
* `OneRingPerDay`: that whoever rebuilds holds `rebuildMu` (`MuHeld`), that what
  a rebuild is about to insert for replaces rows that are already closed
  (`Cleared`), but for those the loop has rescheduled, and that the bot and a
  rebuild never insert on the same day: the bot's days are still empty
  (`FreshDays`), a rebuild's had rows (`RebuiltDays`).
* `DropTakesEffect`: the invariant of the rings, which keeps other rebuilds out;
  that the new ring is without the account (`RingKnown`); and, for each open row
  that still joins it, that its group's turn is to come or it was rescheduled
  (`DropDone`).
* `SentOnItsDay` and `StrikesArePaced`: what was checked of the job in hand
  still holds when it is sent (`LoopTimes`), although hours may pass between,
  because nobody else moves a claimed job or a cooldown, and the checks were
  made against the time of the tick.
* `NothingStranded`: a claimed job is in the batch, and the job for which the
  loop excludes an account is either settled or in a group whose rebuild is
  still to come (`Taken`), which cancels it since the account takes part in it
  (`VictimKnown`).
* `DialogueResumes`: no invariant beyond the types, but that the step numbers
  after `MAX(step_no)` are free, so that INSERT OR IGNORE ignores nothing.

*GroupRing.* Pairs and messages are arithmetic on the places of a ring:
message k belongs to pair `(k - 1) \div 2c + 1` for c cycles per pair, and
exchanging k with its neighbour in the cycle is a bijection between what an
account writes and what it is sent; so the dialogue is balanced whatever c is.
`AcceptedStartFits` is `ScheduleBounds` of `RingsProofs` against the latest
accepted start. For `DropBridges`, `RingInv` says that the ring is the order
in which the rows first show its accounts (`Ordered`). That order is strict, so
the survivors have exactly one enumeration in it (`OneOrder`), and the ring
without the dropped account is one (`GapKeepsOrder`): the order that
`GetAccountOrderForComm` recovers after any number of drops is the ring that
remained, over the rows of the first day, as `GroupRing` has them.

*AuthFlow.* `StreamInv` adds to `TypeOK` and `BusyHasOwner` that every handler
with an open connection, also one whose answer waits to be read, is the stream
owner's (`Attended`), and that only a running handler can have lost its
connection (`GoneIsLive`). Each daemon step only ends connections
(`KeepsConnections`), `_close` ends them all (`CloseEnds`), and `StartStream`
begins one only when there is none.

*Groups.* `TypeInv` adds to the types the counting that bounds them: the greatest
row id is at most the number of groups made, and groups made plus plans about
to be saved stay within `MaxGroups`. `Bond` ties messages, handlers and rows.
Of a group that nothing orphaned: while it is saved (`SaverOK`), by one handler
only, its row waits with an empty `comm_id`, and all its messages carry the
handler's; while it is stopped (`StopperOK`), nobody is saving it any more, and
after the cancellation none of its messages is open. `Stoppable` alone is not
inductive, since a handler that drops a row, or stores a `comm_id`, may have
read it long ago. `DaysOK` says that messages are planned for days of their
group's plan, from which `FinishedIsOver` follows. Most steps only let a handler
go on or end; `QuietStep` is their common argument. `FullPlan` needs `FullInv`:
a plan in saving has passed the check, every day whose transaction is done is
full (`SaverFull`), and so is every day of a row that carries its `comm_id` and
shares it with nobody (`RowFull`). A day is full when it is inserted because its
`comm_id` is nobody else's, so no step number is taken, and because an accepted
start leaves room for every message but the last (`EveryDayFits`); it stays full
because the bot never deletes a message (`DayStaysFull`).

*Registry.* Three invariants, one for each property, and one for the types.
`AccessInv` adds what table and set are while a change of a person is at work
(`AccessSteps`), and that a person who is not `crossed` has one at most.
`StatusInv` adds that the rows an event has changed still have their phone
(`ToldOK`) and that what it said is a settled status, which an import keeps:
this is the reason for `SettledStatus`. `SheetInv` adds what the sheet is while
a sync is at each of its steps (`WriterOK`, `SheetIsAhead`), and that a table
changed since the last sync has a handler that is about to sync; a handler that
fails there ends `unbroken`, and with it the claim, until a sync has the sheet
to itself again. It needs no account of what the import does, since that only
reads.

`TableRows` and `NextId` choose a greatest id and the row of a rank, so their
types rest on two facts about finite sets of entries: there is a greatest one,
and every rank below the size is somebody's. Both are proved by choosing a
minimal subset for which they fail (the strict subsets of a finite set are a
well-founded ordering), since induction over sets is out of the prover's reach.

*The divergences, from the other side.* Four theorems say what alone breaks a
promise that section 5 shows broken. Their hypotheses speak of runs, not of the
constants: the code does not ensure them, and a run that breaks the promise
breaks the hypothesis (of the last theorem: or is about a row it leaves out).
Under it everything else may still go wrong at once: failing statements (but for
those the last theorem excludes), crashes, late events, other administrators.

* `OnlyTwoWritesRevive`: a completed group has no open message, unless, once it
  was ended, a rebuild was still about to insert for it or the loop to reschedule
  a message of it (`NoWriteUnderWay`). A guard at these two writes would do. With
  `RowComesFrom` and `OnlyRescheduleOpens`, nothing else makes or reopens a row.
* `OnlyStaleStatusReturns`: a rebuild inserts nothing of an account that is
  lost, unless the runtime status called the account available when the rebuild
  read it (`ReadsTheTruth`). Nothing goes wrong between the reading and the last
  insertion: whoever is lost meanwhile is also about to be dropped
  (`RemainingStays`), and that drop waits for `rebuildMu` (`DropWaits`). The
  property speaks of the rebuild's own insertions: what the bot inserts for
  another group in between is no fault of the rebuild.
* `OnlyPicksCollide`: two accounts have one proxy only if two authorizations
  at work had picked it (`ProxiesApart`): what is picked stays free, or is taken
  by the one who picked it (`Reserved`).
* `ThreeWaysToLookDead`: of a connected phone whose events are handled, every
  row that was there when the daemon was told last is `ready`
  (`KnownIsAvailable`: `ConnectedIsAvailable` of the rows in `told`): to be a row
  imported since is the first way to look dead. `LastWord` says that what is about to be told of a
  connected phone is `ready`. It takes that the events of two clients of a phone
  are never at work together (`OneClientSpeaks`): an old client's late
  `disconnected` is the second way. And it takes that no update of a connection
  fails (`ConnectionIsTold`; `app.go` only logs it, and the row keeps the
  `disconnected` of before): the third. TLC finds a run for each when its
  hypothesis is dropped. Updates that tell of anything else may fail.

For `ReauthStale` there is no such theorem: an authorization that leaves the old
client in the pool never connects, so all that could be assumed is the promise.

## 5. Where code and promises differ

Five runs end in a counterexample that a text of the repository contradicts
(quoted in `PROJECT.json`, `findings`):

* `CompleteRace` (`CompletedMeansCancelled`): a group completed between the cancel and the insert of a
  rebuild leaves pending messages that are sent.
* `DroppedBack` (`DroppedStaysOut`): an account lost in a send keeps its runtime status `ready`, so
  the next rebuild takes it back in.
* `ReauthStale`: after a logout the dead client keeps its place in the pool; a
  new authorization answers success without connecting the new device.
* `ProxyTwice`: a proxy is checked when picked and taken when saved; two
  authorizations get the same one.
* `FreshIsDead`: a new account connects before the import has brought its row;
  the row comes as `auth_required`, and the account counts as dead until it
  connects again.

Met while modelling, without a run of their own: the day-long cooldown outlives
a reconnect and moves messages of a new group to the next day
(`dispatcher.go:265`, against `communications.py:432`); the end of a batch is sent
although the window has closed since the tick began (`dispatcher.go:108`,
against `communications.py:432`); at the latest accepted start with the longest
pauses the last message falls on the end of the window and is dropped
(`communications.py:125-127`; `AcceptedStartFits` says it is at most one); a
handler of the bot that fails after it saved or deleted an account, because
Telegram refuses an answer or the query of `get_all` fails, never syncs, and the
sheet and the daemon stay behind until the next account comes or goes or the bot
starts again (`accounts_auth.py:207`, `accounts_info.py:144-156`,
`sheets_sync.py:59`, against "update the spreadsheet", `src/README.md:176`); a
rebuild that cannot read which groups are enabled is meant to go on with all of
them ("treating all as active", `ring_rebuild.go:51`), but `ListEnabledCommIDs`
answers a failing query with an empty set and no error (`proxy_repo.go:248`), so
that every group counts as stale (an outcome of `RbEnabled`). The hazards in `PROJECT.json` without a property are further behaviours the model
has and no text forbids.

## 6. Not modelled

* The planner of sheet communications. It plans what is in the table
  `communications`, and nothing fills that: `CommunicationsRepo.UpsertMany` has
  no caller, the import reads accounts only. In every state the program can be
  in it has nothing to plan.
* Proxies' own forms and tests: one statement each, and what depends on them
  (whether a proxy is free) is in `AuthFlow`. The proxy of a group is stored
  and shown.
* The sync state (written, never decided by), malformed rows of the sheet, and
  the report of communications that `sync_communications` writes for people.
* The admin database's file search and reopening; command-line authorization;
  session list; `sessions_repo`; message texts; configuration and process
  start; keyboards (but for which buttons they offer) and logging.
* One admin with several authorization dialogues at once. whatsmeow hands the
  events of one client to its handler one after the other; the models take this
  as given.

## 7. Plan

The order was by what the system is for: first that messages are sent once, in
their window and to the right ring, then the sessions and authorizations
everything rests on, then what surrounds them: the abstract ledger, the bot's
groups, the way of an account to the daemon, the administrators. Then the
proofs: types, the ledger and its refinement, the dialogue of a group, the
groups of the bot, the registry, and the divergences from the other side. What
is left:

1. The order of a ring over rows of several days and rebuilds: `GroupRing` has
   those of one day.
2. The hazards that have no property yet (`PROJECT.json`).
