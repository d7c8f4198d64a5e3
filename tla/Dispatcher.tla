------------------------------ MODULE Dispatcher ------------------------------
(***************************************************************************)
(* The message dispatcher of the Go daemon and everything that races with  *)
(* it on the message_jobs table:                                           *)
(*                                                                         *)
(*   Loop      the goroutine that runs DispatchDue on every tick of its    *)
(*             ticker (dispatcher.go, app.go);                             *)
(*   accounts  one whatsmeow event goroutine per account, which reports    *)
(*             connection changes and, on a logout, rebuilds the rings     *)
(*             (events.go, app.go, ring_rebuild.go);                       *)
(*   the bot   the Telegram bot, another process on the same SQLite file,  *)
(*             which schedules groups and completes them                   *)
(*             (communications.py);                                        *)
(*   the clock, crashes of the daemon, and failing SQLite statements.      *)
(*                                                                         *)
(* An action is one SQL statement or transaction, one call to WhatsApp, or *)
(* one section under a mutex, with the local computation next to it.       *)
(***************************************************************************)
EXTENDS Rings, JobStore

CONSTANTS
  Account,      \* warm-up accounts (their phones are one to one with them)
  Comm,         \* comm_ids the bot may assign, numbers
  PlanOf,       \* [Comm -> the ring, the start and the days an admin chose]
  Loop,         \* the dispatcher goroutine, a process beside the accounts'
  NoProc,       \* no process
  BatchSize,    \* jobs claimed per tick (DispatchBatchSize)
  Cooldowns,    \* pause after the 1st, 2nd .. consecutive failure; the last
                \* one also excludes the account
  MaxTime,      \* bound: the clock stops here
  MaxReports,   \* bound: connection changes reported
  MaxFaults,    \* bound: failing database statements
  MaxErrors,    \* bound: failing sends
  MaxCrashes    \* bound: crashes of the daemon

ASSUME DispatcherAssumption ==
  /\ IsFiniteSet(Account)
  /\ Loop # NoProc
  /\ Loop \notin Account
  /\ NoProc \notin Account
  /\ Comm \subseteq Nat
  /\ PlanOf \in [Comm -> [ring : Seq(Account), start : Nat, days : Nat \ {0}]]
  /\ BatchSize \in Nat \ {0}
  /\ Cooldowns \in Seq(Nat)
  /\ Len(Cooldowns) > 0
  /\ MaxTime \in Nat

Proc == Account \union {Loop}

VARIABLES
  jobs,       \* the message_jobs table
  account,    \* accounts.status in the runtime database
  admin,      \* accounts.status in the admin database
  group,      \* per comm_id: how far the bot is with its group
  clock,      \* local time
  dpc,        \* where Loop is in DispatchDue
  batch,      \* jobs of this tick still to handle, the current one first
  tick,       \* DispatchDue's "now"
  rebuilt,    \* DispatchDue's rebuiltComms
  victim,     \* the account Loop is excluding
  cooldown,   \* Dispatcher.cooldowns
  handler,    \* per account: where its event goroutine is
  rb,         \* per process: its call of rebuildRingAfterDrop
  rebuildMu,  \* holder of Dispatcher.rebuildMu
  used        \* how much of each bound is used up

loopVars == <<dpc, batch, tick, rebuilt, victim>>
vars == <<jobs, account, admin, group, clock, loopVars, cooldown, handler, rb,
          rebuildMu, used>>

AccountStatus == {"ready", "disconnected", "blocked", "failed", "auth_required"}
Unavailable == {"disconnected", "failed", "blocked", "auth_required"}

NoRebuild == [pc |-> "idle", todo |-> {}, active |-> {}, affected |-> {},
              ring |-> << >>, dates |-> {}, now |-> 0]

(* In front of the loop over the comm_ids.                                 *)
AtComm(todo, active, affected) ==
  [pc |-> "comm", todo |-> todo, active |-> active, affected |-> affected,
   ring |-> << >>, dates |-> {}, now |-> 0]

NoCooldown == [fails |-> 0, until |-> 0]

Init ==
  /\ jobs = << >>
  /\ account = [a \in Account |-> "ready"]
  /\ admin = [a \in Account |-> "active"]
  /\ group = [c \in Comm |-> [stage |-> "none", saved |-> 0]]
  /\ clock = 0
  /\ dpc = "boot" /\ batch = << >> /\ tick = 0 /\ rebuilt = {} /\ victim = NoProc
  /\ cooldown = [a \in Account |-> NoCooldown]
  /\ handler = [a \in Account |-> "idle"]
  /\ rb = [p \in Proc |-> NoRebuild]
  /\ rebuildMu = NoProc
  /\ used = [reports |-> 0, faults |-> 0, errors |-> 0, crashes |-> 0]

(* A statement fails (SQLITE_BUSY, disk): at most MaxFaults times.         *)
Fault ==
  /\ used.faults < MaxFaults
  /\ used' = [used EXCEPT !.faults = @ + 1]

Smallest(S) == CHOOSE x \in S : \A y \in S : x <= y

------------------------------------------------------------------------------
(* One transaction inserts a day of messages; each pause is random.        *)
InsertDay(ring, c, d, start, base) ==
  LET n == MessageCount(ring)
  IN  \E at \in Schedules(start, n) : \E m \in 0..n :
        /\ KeptInWindow(at, n, d, m)
        /\ jobs' = InsertOrIgnore(jobs, DayRows(ring, c, d, base, at, m))

------------------------------------------------------------------------------
(* The dispatcher loop.                                                    *)

(* Planned on an earlier day, or for today when today's window is over.    *)
MissedDays(now) == {k \in DOMAIN jobs : jobs[k].at < Day(now) * DayLength}

(* Mutant: only the pending ones of today.                                 *)
PendingLeftovers(now) ==
  {k \in DOMAIN jobs : /\ now >= DayEnd(Day(now)) /\ Day(jobs[k].at) = Day(now)
                       /\ jobs[k].status = "pending"}

Leftovers(now) == {k \in DOMAIN jobs :
                     now >= DayEnd(Day(now)) /\ Day(jobs[k].at) = Day(now)}

(* Mutant: a job of an earlier day is not past its window.                 *)
PastTodaysWindow(now, at) ==
  \/ at >= DayEnd(Day(at))
  \/ Day(now) = Day(at) /\ now >= DayEnd(Day(at))

PastSendWindow(now, at) ==
  \/ at >= DayEnd(Day(at))
  \/ Day(now) = Day(at) /\ now >= DayEnd(Day(at))
  \/ Day(at) < Day(now)

Current == Head(batch)
CurrentJob == jobs[Current]

(* DispatchDue returns.                                                    *)
Return ==
  /\ dpc' = "idle"
  /\ batch' = << >>
  /\ tick' = 0
  /\ rebuilt' = {}
  /\ victim' = NoProc

(* The next iteration, or the end of the loop.                             *)
NextJob(affected) ==
  IF Len(batch) = 1
    THEN Return
    ELSE /\ dpc' = "next"
         /\ batch' = Tail(batch)
         /\ rebuilt' = rebuilt \union affected
         /\ victim' = NoProc
         /\ UNCHANGED tick

(* App.Run: after WhatsApp is up, jobs left in "sending" become pending;   *)
(* an error is logged and the loop starts all the same.                    *)
Boot ==
  /\ dpc = "boot"
  /\ dpc' = "idle"
  /\ \/ jobs' = ResetSending(jobs) /\ UNCHANGED used
     \/ UNCHANGED jobs /\ Fault
  /\ UNCHANGED <<account, admin, group, clock, batch, tick, rebuilt, victim,
                 cooldown, handler, rb, rebuildMu>>

(* DispatchDue starts with CancelOutsideSendWindow: two statements, whose  *)
(* error is logged.                                                        *)
StartTick ==
  /\ dpc = "idle"
  /\ dpc' = "claim"
  /\ tick' = clock
  /\ \/ jobs' = Cancel(jobs, MissedDays(clock) \union Leftovers(clock)) /\ UNCHANGED used
     \/ jobs' = Cancel(jobs, MissedDays(clock)) /\ Fault
     \/ UNCHANGED jobs /\ Fault
  /\ UNCHANGED <<account, admin, group, clock, batch, rebuilt, victim, cooldown,
                 handler, rb, rebuildMu>>

ClaimJobs ==
  /\ dpc = "claim"
  /\ \/ /\ \E s \in DueOrders(jobs, tick, BatchSize) :
             /\ jobs' = Claim(jobs, s)
             /\ IF s = << >> THEN Return
                             ELSE /\ dpc' = "next"
                                  /\ batch' = s
                                  /\ UNCHANGED <<tick, rebuilt, victim>>
        /\ UNCHANGED used
     \/ Return /\ UNCHANGED jobs /\ Fault
  /\ UNCHANGED <<account, admin, group, clock, cooldown, handler, rb, rebuildMu>>

(* Jobs of a ring rebuilt earlier in this batch and jobs past their window *)
(* are cancelled.                                                          *)
Skipped(k) == k[1] \in rebuilt \/ PastSendWindow(tick, jobs[k].at)

SkipJob ==
  /\ dpc = "next"
  /\ Skipped(Current)
  /\ \/ jobs' = MarkCancelled(jobs, Current) /\ UNCHANGED used
     \/ UNCHANGED jobs /\ Fault
  /\ NextJob({})
  /\ UNCHANGED <<account, admin, group, clock, cooldown, handler, rb, rebuildMu>>

(* Mutant: off by one.                                                     *)
CoolingButLast(a) == tick + 1 < cooldown[a].until

(* The sender's cooldown, against the time the tick began.                 *)
Cooling(a) == tick < cooldown[a].until

(* Both accounts are loaded and what to do with the job is decided.        *)
Decide(pc, who) ==
  /\ dpc' = pc
  /\ victim' = who
  /\ UNCHANGED used

LoadAccounts ==
  LET snd == CurrentJob.snd
      rcv == CurrentJob.rcv
  IN  /\ dpc = "next"
      /\ ~Skipped(Current)
      /\ \/ dpc' = "fail" /\ Fault /\ UNCHANGED victim
         \/ account[snd] \in Unavailable /\ Decide("exclude", snd)
         \/ /\ account[snd] \notin Unavailable
            /\ \/ account[rcv] \in Unavailable /\ Decide("exclude", rcv)
               \/ /\ account[rcv] \notin Unavailable
                  /\ \/ Cooling(snd) /\ Decide("resched", NoProc)
                     \/ ~Cooling(snd) /\ Decide("send", NoProc)
      /\ UNCHANGED <<jobs, account, admin, group, clock, batch, tick, rebuilt,
                     cooldown, handler, rb, rebuildMu>>

RescheduleCooling ==
  /\ dpc = "resched"
  /\ \/ jobs' = Reschedule(jobs, Current, cooldown[CurrentJob.snd].until) /\ UNCHANGED used
     \/ UNCHANGED jobs /\ Fault
  /\ NextJob({})
  /\ UNCHANGED <<account, admin, group, clock, cooldown, handler, rb, rebuildMu>>

FailJob ==
  /\ dpc = "fail"
  /\ \/ jobs' = MarkFailed(jobs, Current) /\ UNCHANGED used
     \/ UNCHANGED jobs /\ Fault
  /\ NextJob({})
  /\ UNCHANGED <<account, admin, group, clock, cooldown, handler, rb, rebuildMu>>

Delivered(n) == jobs' = [jobs EXCEPT ![Current].sends = @ + n]

SendSucceeds ==
  /\ dpc = "send"
  /\ Delivered(1)
  /\ cooldown' = [cooldown EXCEPT ![CurrentJob.snd] = NoCooldown]
  /\ dpc' = "sent"
  /\ UNCHANGED <<account, admin, group, clock, batch, tick, rebuilt, victim,
                 handler, rb, rebuildMu, used>>

(* SendText returns an error. The message may have reached WhatsApp all    *)
(* the same: its acknowledgement can be what got lost.                     *)
SendFails ==
  /\ dpc = "send"
  /\ used.errors < MaxErrors
  /\ \E n \in {0, 1} : Delivered(n)
  /\ UNCHANGED <<admin, group, clock, batch, tick, rebuilt, handler, rb, rebuildMu>>

SendFailsFatally ==
  /\ SendFails
  /\ dpc' = "lost"
  /\ victim' = CurrentJob.snd
  /\ used' = [used EXCEPT !.errors = @ + 1]
  /\ UNCHANGED <<account, cooldown>>

(* recordFailure: the account cools down, and after the last strike it is  *)
(* marked disconnected and excluded.                                       *)
SendFailsSoftly ==
  LET snd == CurrentJob.snd
      fails == cooldown[snd].fails + 1
      strike == IF fails < Len(Cooldowns) THEN fails ELSE Len(Cooldowns)
  IN  /\ SendFails
      /\ cooldown' = [cooldown EXCEPT ![snd] =
                        [fails |-> fails, until |-> clock + Cooldowns[strike]]]
      /\ \/ /\ fails < Len(Cooldowns)
            /\ dpc' = "fail"
            /\ used' = [used EXCEPT !.errors = @ + 1]
            /\ UNCHANGED <<account, victim>>
         \/ /\ fails >= Len(Cooldowns)
            /\ dpc' = "lost"
            /\ victim' = snd
            /\ \/ /\ account' = [account EXCEPT ![snd] = "disconnected"]
                  /\ used' = [used EXCEPT !.errors = @ + 1]
               \/ /\ used.faults < MaxFaults
                  /\ used' = [used EXCEPT !.errors = @ + 1, !.faults = @ + 1]
                  /\ UNCHANGED account

(* Mutant: the admin database is told the runtime database's status.       *)
RuntimeStatusOfLost == "disconnected"

(* The status of a lost session in the admin database.                     *)
AdminStatusOfLost == "revoked"

MarkAdminSessionLost ==
  /\ dpc = "lost"
  /\ \/ admin' = [admin EXCEPT ![victim] = AdminStatusOfLost] /\ UNCHANGED used
     \/ UNCHANGED admin /\ Fault
  /\ dpc' = "exclude"
  /\ UNCHANGED <<jobs, account, group, clock, batch, tick, rebuilt, victim, cooldown,
                 handler, rb, rebuildMu>>

(* An error of MarkSent ends DispatchDue; the rest of the batch stays in   *)
(* "sending".                                                              *)
RecordSent ==
  /\ dpc = "sent"
  /\ \/ jobs' = MarkSent(jobs, Current) /\ NextJob({}) /\ UNCHANGED used
     \/ UNCHANGED jobs /\ Return /\ Fault
  /\ UNCHANGED <<account, admin, group, clock, cooldown, handler, rb, rebuildMu>>

------------------------------------------------------------------------------
(* Ring rebuild after process p drops an account. Only the holder of       *)
(* rebuildMu is past RbList.                                               *)

Dropped(p) == IF p = Loop THEN victim ELSE p
Excluding(p) == IF p = Loop THEN dpc = "exclude" ELSE handler[p] = "exclude"

(* rebuildRingAfterDrop returns the affected comm_ids to its caller.       *)
RbReturn(p, affected) ==
  IF p = Loop
    THEN NextJob(affected) /\ UNCHANGED handler
    ELSE handler' = [handler EXCEPT ![p] = "idle"] /\ UNCHANGED loopVars

(* Mutant: no mutual exclusion.                                            *)
MuIgnored == TRUE

MuFree == rebuildMu = NoProc

(* Lock, and the comm_ids with an open job of the account; none, or an     *)
(* error, and the rebuild is over.                                         *)
RbList(p) ==
  LET comms == CommsInvolving(jobs, Dropped(p))
  IN  /\ Excluding(p)
      /\ rb[p].pc = "idle"
      /\ MuFree
      /\ \/ comms = {} /\ RbReturn(p, {}) /\ UNCHANGED <<rb, rebuildMu, used>>
         \/ Fault /\ RbReturn(p, {}) /\ UNCHANGED <<rb, rebuildMu>>
         \/ /\ comms # {}
            /\ rebuildMu' = p
            /\ rb' = [rb EXCEPT ![p] = [NoRebuild EXCEPT !.pc = "enabled", !.todo = comms]]
            /\ UNCHANGED <<loopVars, handler, used>>
      /\ UNCHANGED <<jobs, account, admin, group, clock, cooldown>>

EnabledComms == {c \in Comm : group[c].stage \in {"enabled", "closing"}}

(* The comm_ids of enabled groups, from the admin database. A failing      *)
(* query yields none of them; a database that cannot be opened, all.       *)
RbEnabled(p) ==
  /\ rb[p].pc = "enabled"
  /\ \E active \in SUBSET Comm :
       /\ rb' = [rb EXCEPT ![p] = AtComm(rb[p].todo, active, {})]
       /\ \/ active = EnabledComms /\ UNCHANGED used
          \/ active \in {{}, Comm} /\ Fault
  /\ UNCHANGED <<jobs, account, admin, group, clock, loopVars, cooldown, handler, rebuildMu>>

RbComm(p) == Smallest(rb[p].todo)

(* Mutant: the group is not counted off.                                   *)
NextCommAgain(p) ==
  rb' = [rb EXCEPT ![p] = AtComm(rb[p].todo, rb[p].active,
                                 rb[p].affected \union {RbComm(p)})]

NextComm(p) ==
  rb' = [rb EXCEPT ![p] = AtComm(rb[p].todo \ {RbComm(p)}, rb[p].active,
                                 rb[p].affected \union {RbComm(p)})]

(* A group that is not enabled only loses the jobs of the account.         *)
RbStale(p) ==
  /\ rb[p].pc = "comm"
  /\ rb[p].todo # {}
  /\ RbComm(p) \notin rb[p].active
  /\ \/ jobs' = CancelInvolvingInComm(jobs, RbComm(p), Dropped(p)) /\ UNCHANGED used
     \/ UNCHANGED jobs /\ Fault
  /\ NextComm(p)
  /\ UNCHANGED <<account, admin, group, clock, loopVars, cooldown, handler, rebuildMu>>

(* Mutant: the dropped account stays in, its status still says "ready".    *)
AvailableMembers(p) ==
  {a \in Members(jobs, RbComm(p)) : account[a] \notin Unavailable}

Survivors(p) ==
  {a \in Members(jobs, RbComm(p)) \ {Dropped(p)} : account[a] \notin Unavailable}

(* rebuildCommRing reads the ring order, the accounts and the open days;   *)
(* an account that cannot be loaded is skipped, another error gives up.    *)
RbRead(p) ==
  /\ rb[p].pc = "comm"
  /\ rb[p].todo # {}
  /\ RbComm(p) \in rb[p].active
  /\ \/ \E lost \in SUBSET Survivors(p) :
          /\ \E ring \in RingOrders(jobs, RbComm(p), Survivors(p) \ lost) :
               rb' = [rb EXCEPT ![p].pc = "cancel", ![p].ring = ring,
                                ![p].dates = PendingDates(jobs, RbComm(p))]
          /\ \/ lost = {} /\ UNCHANGED used
             \/ lost # {} /\ Fault
     \/ NextComm(p) /\ Fault
  /\ UNCHANGED <<jobs, account, admin, group, clock, loopVars, cooldown, handler, rebuildMu>>

RbCancel(p) ==
  /\ rb[p].pc = "cancel"
  /\ \/ /\ jobs' = CancelPendingForComm(jobs, RbComm(p))
        /\ IF Len(rb[p].ring) < 2 \/ rb[p].dates = {}
             THEN NextComm(p)
             ELSE rb' = [rb EXCEPT ![p].pc = "insert", ![p].now = clock]
        /\ UNCHANGED used
     \/ UNCHANGED jobs /\ NextComm(p) /\ Fault
  /\ UNCHANGED <<account, admin, group, clock, loopVars, cooldown, handler, rebuildMu>>

(* One transaction per day that had open jobs.                             *)
RbInsert(p) ==
  LET c == RbComm(p)
      d == Smallest(rb[p].dates)
  IN  /\ rb[p].pc = "insert"
      /\ \/ /\ InsertDay(rb[p].ring, c, d, RebuildStart(d, rb[p].now), MaxStep(jobs, c, d))
            /\ IF rb[p].dates = {d} THEN NextComm(p)
                                    ELSE rb' = [rb EXCEPT ![p].dates = @ \ {d}]
            /\ UNCHANGED used
         \/ UNCHANGED jobs /\ NextComm(p) /\ Fault
      /\ UNCHANGED <<account, admin, group, clock, loopVars, cooldown, handler, rebuildMu>>

RbUnlock(p) ==
  /\ rb[p].pc = "comm"
  /\ rb[p].todo = {}
  /\ rebuildMu' = NoProc
  /\ rb' = [rb EXCEPT ![p] = NoRebuild]
  /\ RbReturn(p, rb[p].affected)
  /\ UNCHANGED <<jobs, account, admin, group, clock, cooldown, used>>

Rebuild(p) ==
  \/ RbList(p)
  \/ RbEnabled(p)
  \/ RbStale(p)
  \/ RbRead(p)
  \/ RbCancel(p)
  \/ RbInsert(p)
  \/ RbUnlock(p)

------------------------------------------------------------------------------
(* Connection events of an account: Connected, Disconnected, LoggedOut.    *)

AfterReport(s) ==
  CASE s = "ready" -> "activate"
    [] s = "blocked" -> "revoke"
    [] OTHER -> "idle"

(* OnStatusChange: the runtime status first; its error is logged.          *)
Report(a, s) ==
  /\ handler[a] = "idle"
  /\ used.reports < MaxReports
  /\ \/ /\ account' = [account EXCEPT ![a] = s]
        /\ used' = [used EXCEPT !.reports = @ + 1]
     \/ /\ used.faults < MaxFaults
        /\ used' = [used EXCEPT !.reports = @ + 1, !.faults = @ + 1]
        /\ UNCHANGED account
  /\ handler' = [handler EXCEPT ![a] = AfterReport(s)]
  /\ UNCHANGED <<jobs, admin, group, clock, loopVars, cooldown, rb, rebuildMu>>

(* Then the mirror in the admin database, and after a logout the rebuild.  *)
Mirror(a) ==
  /\ \/ /\ handler[a] = "activate"
        /\ handler' = [handler EXCEPT ![a] = "idle"]
        /\ \/ admin' = [admin EXCEPT ![a] = "active"] /\ UNCHANGED used
           \/ UNCHANGED admin /\ Fault
     \/ /\ handler[a] = "revoke"
        /\ handler' = [handler EXCEPT ![a] = "exclude"]
        /\ \/ admin' = [admin EXCEPT ![a] = "revoked"] /\ UNCHANGED used
           \/ UNCHANGED admin /\ Fault
  /\ UNCHANGED <<jobs, account, group, clock, loopVars, cooldown, rb, rebuildMu>>

------------------------------------------------------------------------------
(* The Telegram bot: a group is saved without comm_id, its days are        *)
(* inserted one transaction each, then the group gets its comm_id.         *)

BotSaveGroup(c) ==
  LET n == MessageCount(PlanOf[c].ring)
      start == PlanOf[c].start
  IN  /\ group[c].stage = "none"
      /\ StartAllowed(start, n)
      /\ PlanOf[c].days > 1 => StartAllowed(DayStart(Day(start) + 1), n)
      /\ group' = [group EXCEPT ![c].stage = "saving"]
      /\ UNCHANGED <<jobs, account, admin, clock, loopVars, cooldown, handler, rb,
                     rebuildMu, used>>

(* A failing statement ends the creation with an error message: the group  *)
(* stays without comm_id, the messages inserted so far stay too.           *)
BotGivesUp(c) ==
  /\ Fault
  /\ group' = [group EXCEPT ![c].stage = "broken"]

BotInsertDay(c) ==
  LET plan == PlanOf[c]
      i == group[c].saved
      d == Day(plan.start) + i
      start == IF i = 0 THEN plan.start ELSE DayStart(d)
  IN  /\ group[c].stage = "saving"
      /\ i < plan.days
      /\ \/ /\ InsertDay(plan.ring, c, d, start, 0)
            /\ group' = [group EXCEPT ![c].saved = i + 1]
            /\ UNCHANGED used
         \/ UNCHANGED jobs /\ BotGivesUp(c)
      /\ UNCHANGED <<account, admin, clock, loopVars, cooldown, handler, rb, rebuildMu>>

BotEnable(c) ==
  /\ group[c].stage = "saving"
  /\ group[c].saved = PlanOf[c].days
  /\ \/ group' = [group EXCEPT ![c].stage = "enabled"] /\ UNCHANGED used
     \/ BotGivesUp(c)
  /\ UNCHANGED <<jobs, account, admin, clock, loopVars, cooldown, handler, rb, rebuildMu>>

(* Complete and delete: first the jobs are cancelled in one database, then *)
(* the group is deleted in the other.                                      *)
BotCancel(c) ==
  /\ group[c].stage = "enabled"
  /\ jobs' = CancelPendingForComm(jobs, c)
  /\ group' = [group EXCEPT ![c].stage = "closing"]
  /\ UNCHANGED <<account, admin, clock, loopVars, cooldown, handler, rb,
                 rebuildMu, used>>

BotDelete(c) ==
  /\ group[c].stage = "closing"
  /\ group' = [group EXCEPT ![c].stage = "closed"]
  /\ UNCHANGED <<jobs, account, admin, clock, loopVars, cooldown, handler, rb,
                 rebuildMu, used>>

------------------------------------------------------------------------------
ClockTick ==
  /\ clock < MaxTime
  /\ clock' = clock + 1
  /\ UNCHANGED <<jobs, account, admin, group, loopVars, cooldown, handler, rb,
                 rebuildMu, used>>

(* The daemon dies and is started again: its memory is gone, the databases *)
(* are not.                                                                *)
Crash ==
  /\ used.crashes < MaxCrashes
  /\ used' = [used EXCEPT !.crashes = @ + 1]
  /\ dpc' = "boot" /\ batch' = << >> /\ tick' = 0 /\ rebuilt' = {} /\ victim' = NoProc
  /\ cooldown' = [a \in Account |-> NoCooldown]
  /\ handler' = [a \in Account |-> "idle"]
  /\ rb' = [p \in Proc |-> NoRebuild]
  /\ rebuildMu' = NoProc
  /\ UNCHANGED <<jobs, account, admin, group, clock>>

Dispatch ==
  \/ Boot
  \/ StartTick
  \/ ClaimJobs
  \/ SkipJob
  \/ LoadAccounts
  \/ RescheduleCooling
  \/ FailJob
  \/ SendSucceeds
  \/ SendFailsFatally
  \/ SendFailsSoftly
  \/ MarkAdminSessionLost
  \/ RecordSent

Events(a) ==
  \/ \E s \in {"ready", "disconnected", "blocked"} : Report(a, s)
  \/ Mirror(a)

Bot(c) ==
  \/ BotSaveGroup(c)
  \/ BotInsertDay(c)
  \/ BotEnable(c)
  \/ BotCancel(c)
  \/ BotDelete(c)

Next ==
  \/ Dispatch
  \/ \E p \in Proc : Rebuild(p)
  \/ \E a \in Account : Events(a)
  \/ \E c \in Comm : Bot(c)
  \/ ClockTick
  \/ Crash

Spec == Init /\ [][Next]_vars

(* What the daemon's runtime guarantees: time passes, a goroutine that can *)
(* run does, and the Go mutex hands itself over to every waiter. Nothing   *)
(* is assumed of WhatsApp's events, the administrators or failures.        *)
Fairness ==
  /\ WF_vars(ClockTick)
  /\ WF_vars(Dispatch)
  /\ \A a \in Account : WF_vars(Mirror(a))
  /\ \A p \in Proc : WF_vars(Rebuild(p)) /\ SF_vars(RbList(p))

FairSpec == Spec /\ Fairness

------------------------------------------------------------------------------
(* Types.                                                                  *)

Key == Comm \X Nat \X Nat

RebuildState ==
  [pc : {"idle", "enabled", "comm", "cancel", "insert"}, todo : SUBSET Comm,
   active : SUBSET Comm, affected : SUBSET Comm, ring : Seq(Account),
   dates : SUBSET Nat, now : Nat]

(* Every variable keeps the type its Go or Python counterpart has.         *)
TypeOK ==
  /\ DOMAIN jobs \subseteq Key
  /\ jobs \in [DOMAIN jobs -> Row(Account)]
  /\ account \in [Account -> AccountStatus]
  /\ admin \in [Account -> {"active", "revoked"}]
  /\ group \in [Comm -> [stage : {"none", "saving", "broken", "enabled", "closing", "closed"},
                          saved : Nat]]
  /\ clock \in Nat
  /\ dpc \in {"boot", "idle", "claim", "next", "resched", "fail", "send", "sent",
              "lost", "exclude"}
  /\ batch \in Seq(DOMAIN jobs)
  /\ tick \in Nat
  /\ rebuilt \subseteq Comm
  /\ victim \in Account \union {NoProc}
  /\ cooldown \in [Account -> [fails : Nat, until : Nat]]
  /\ handler \in [Account -> {"idle", "revoke", "activate", "exclude"}]
  /\ rb \in [Proc -> RebuildState]
  /\ rebuildMu \in Proc \union {NoProc}
  /\ used \in [reports : Nat, faults : Nat, errors : Nat, crashes : Nat]

------------------------------------------------------------------------------
(* Safety.                                                                 *)

IsOpen(k) == jobs[k].status \in OpenStatus

(* A message reaches WhatsApp once, and once more for every crash of the   *)
(* daemon at most, whatever administrators, rebuilds and failing           *)
(* statements do to its row: only ResetSendingJobs after a restart may     *)
(* repeat a delivery (that the repetition is its doing, KeepsLedger says). *)
AtMostOncePerRun ==
  \A k \in DOMAIN jobs : jobs[k].sends <= used.crashes + 1

(* The recorded outcome of a message is final: no cancellation, claim,     *)
(* reschedule or reset turns a sent or failed job into anything else.      *)
OutcomeIsFinal ==
  [][\A k \in DOMAIN jobs :
       jobs[k].status \in {"sent", "failed"} => jobs'[k].status = jobs[k].status]_vars

(* While no statement failed, a finished tick leaves no job in "sending":  *)
(* each claimed job was settled by the loop, by a ring rebuild or by the   *)
(* cancellation that made the loop skip it.                                *)
NothingStranded ==
  dpc = "idle" /\ used.faults = 0 =>
    \A k \in DOMAIN jobs : jobs[k].status # "sending"

(* Two rebuilds of one group never both leave their dialogue: the open     *)
(* jobs of a day stem from one insertion, but for a job the loop claimed   *)
(* before the rebuild and rescheduled after it.                            *)
OneRingPerDay ==
  \A k, l \in DOMAIN jobs :
    k[1] = l[1] /\ k[2] = l[2] /\ IsOpen(k) /\ IsOpen(l)
      /\ ~jobs[k].moved /\ ~jobs[l].moved
    => jobs[k].base = jobs[l].base

(* When a rebuild without failing statements lets go of rebuildMu, no open *)
(* job of the groups it rebuilt involves the dropped account, although the *)
(* account's own status may still say "ready"; again but for a job the     *)
(* loop rescheduled meanwhile.                                             *)
DropTakesEffect ==
  \A p \in Proc :
    rb[p].pc = "comm" /\ used.faults = 0 =>
      \A k \in Involving(jobs, Dropped(p)) :
        k[1] \in rb[p].affected \intersect rb[p].active /\ IsOpen(k) => jobs[k].moved

(* A message that was not rescheduled is planned in the send window of its *)
(* own run date, also when a rebuild starts before, in or after it.        *)
PlannedInWindow ==
  \A k \in DOMAIN jobs :
    ~jobs[k].moved => DayStart(k[2]) <= jobs[k].at /\ jobs[k].at < DayEnd(k[2])

(* An account that failed is left in peace: between two consecutive        *)
(* failures of an account its whole cooldown passes, although each job of  *)
(* a batch is checked against the time the tick began.                     *)
StrikesArePaced ==
  [][\A a \in Account :
       cooldown[a].fails > 0 /\ cooldown'[a].fails > cooldown[a].fails
         => clock >= cooldown[a].until]_vars

(* What is handed to WhatsApp was due, and planned for the day of the tick *)
(* before the end of its window, even when the cancellation that opens the *)
(* tick failed.                                                            *)
SentOnItsDay ==
  dpc = "send" =>
    /\ CurrentJob.at <= tick
    /\ Day(CurrentJob.at) = Day(tick)
    /\ tick < DayEnd(Day(tick))

(* A rebuild keeps the dialogue going: each message of the new ring whose  *)
(* latest possible time is inside the window is inserted, none lost to a   *)
(* step number that is already taken.                                      *)
DialogueResumes ==
  [][\A p \in Proc :
       rb[p].pc = "insert" /\ rb'[p] # rb[p] /\ used'.faults = used.faults
         /\ used'.crashes = used.crashes =>
         LET d == Smallest(rb[p].dates)
             start == RebuildStart(d, rb[p].now)
         IN  \A i \in 1..MessageCount(rb[p].ring) :
               start + (i - 1) * MaxGap < DayEnd(d) =>
                 \E k \in DOMAIN jobs' \ DOMAIN jobs :
                   /\ k[1] = RbComm(p) /\ k[2] = d
                   /\ jobs'[k].snd = Message(rb[p].ring, i).snd
                   /\ jobs'[k].rcv = Message(rb[p].ring, i).rcv
                   /\ jobs'[k].at \in (start + (i - 1) * MinGap)..(start + (i - 1) * MaxGap)]_vars

------------------------------------------------------------------------------
(* Refinement.                                                             *)

LedgerOfJobs ==
  [k \in DOMAIN jobs |-> [state |-> IF IsOpen(k) THEN "open" ELSE jobs[k].status,
                          sends |-> jobs[k].sends]]

JobsInHand == {batch[i] : i \in DOMAIN batch}

Promise == INSTANCE JobLedger WITH
  ledger <- LedgerOfJobs, hand <- JobsInHand, epoch <- used.crashes

(* The loop with its batches, the rebuilds, the bot and every failure of a *)
(* statement in between keep what JobLedger promises a message: none is    *)
(* taken again after it was delivered or withdrawn, none is called sent    *)
(* that was not delivered, no outcome is overwritten.                      *)
KeepsLedger == Promise!Spec

------------------------------------------------------------------------------
(* Liveness.                                                               *)

(* Every scheduled message is settled: sent, failed or cancelled for good  *)
(* at the latest when the days of its group are over.                      *)
EveryJobSettles ==
  <>[](\A k \in DOMAIN jobs : ~IsOpen(k))

(* A logged-out account is not waited for forever: its event goroutine     *)
(* gets rebuildMu and finishes, whatever the loop and the others do.       *)
LogoutHandled ==
  \A a \in Account : handler[a] = "exclude" ~> handler[a] = "idle"

------------------------------------------------------------------------------
(* What the code's texts promise and the code does not keep.               *)

(* "Waiting messages are cancelled, the accounts are free": after a group  *)
(* was completed none of its messages is still going to be sent.           *)
CompletedMeansCancelled ==
  \A k \in DOMAIN jobs : group[k[1]].stage = "closed" => ~IsOpen(k)

(* "Rebuilds the dialogue ring for remaining accounts": an account that    *)
(* was dropped because its session is lost, and has not come back since,   *)
(* gets no new messages of a rebuild (while no process is still about to   *)
(* drop it).                                                               *)
Remaining(a) ==
  admin[a] = "active" \/ \E p \in Proc : Excluding(p) /\ Dropped(p) = a

DroppedStaysOut ==
  [][\A p \in Proc :
       rb[p].pc = "insert" /\ rb'[p] # rb[p] =>
         \A k \in DOMAIN jobs' \ DOMAIN jobs :
           Remaining(jobs'[k].snd) /\ Remaining(jobs'[k].rcv)]_vars

==============================================================================
