-------------------------------- MODULE Groups --------------------------------
(***************************************************************************)
(* The warm-up groups of the Telegram bot (communications.py,              *)
(* group_repo.py): the dialogue that collects a plan, the handler that     *)
(* saves it, and the buttons that delete, complete and list groups.        *)
(*                                                                         *)
(* aiogram runs every update as a task of its own, so handlers interleave  *)
(* at their awaits; a task of this module is one handler at work. A        *)
(* message of the bot keeps its buttons, so any button that was ever shown *)
(* can be pressed at any time, whatever the dialogue is at. The FSM state  *)
(* only filters the texts an admin types; a text does what a button does   *)
(* (name: empty the selection, time: pick one, days: pick a number), and   *)
(* the button that asks for it can be pressed first. It is left out.       *)
(*                                                                         *)
(* The bot never learns what the daemon has sent: messages stay open here  *)
(* until the bot cancels them. Rebuilds and settling are in Dispatcher.    *)
(***************************************************************************)
EXTENDS Rings, JobStore

CONSTANTS
  Account,        \* accounts known when the model starts
  Admin,
  Task,           \* handlers that can be at work at once
  Instant,        \* the values of the clock
  StartTime,      \* times an admin picks for the first message
  MaxGroupSize,   \* MAX_GROUP_SIZE (6)
  MaxDays,        \* most days of a plan (90)
  MaxGroups,      \* bound: groups made
  MaxFaults       \* bound: failing statements, restarts and deleted accounts

ASSUME GroupsAssumption ==
  /\ Instant \subseteq Nat /\ 0 \in Instant /\ StartTime \subseteq Nat
  /\ IsFiniteSet(Task) /\ MaxGroups \in Nat
  /\ MaxGroupSize \in Nat \ {0, 1}
  /\ MaxDays \in Nat \ {0}

VARIABLES
  accounts,   \* rows of the table accounts
  groups,     \* account_groups with its members, by id
  jobs,       \* message_jobs: <<comm, date, step>> |-> [of, status]
  dialog,     \* FSM data of each admin
  task,       \* handlers at work
  clock,
  second,     \* the last comm_id, a Unix time
  made,       \* history: number of groups made; a group is known by its number
  finished,   \* history: ids whose detail has offered "complete"
  orphaned,   \* history: groups whose messages no row names (see Stoppable)
  faults

vars == <<accounts, groups, jobs, dialog, task, clock, second, made, finished,
          orphaned, faults>>

------------------------------------------------------------------------------
(* Plans.                                                                  *)

NoStart == -1
NoPlan == [members |-> {}, start |-> NoStart, days |-> 1]

NoTask == [pc |-> "idle", admin |-> CHOOSE a \in Admin : TRUE, plan |-> NoPlan,
           id |-> 0, of |-> 0, comm |-> 0, day |-> 0, todo |-> {}]

(* Messages of one day of a group of this many accounts.                   *)
DayMessages(size) == MessageCount([i \in 1..size |-> i])

LastDay(plan) == Day(plan.start) + plan.days - 1
StartOn(plan, d) == IF d = Day(plan.start) THEN plan.start ELSE DayStart(d)

Fits(start, size) == StartAllowed(start, DayMessages(size))

(* Mutant: the start was checked when it was picked.                       *)
TrustedPlan(plan) ==
  Cardinality(plan.members) \in 2..MaxGroupSize /\ plan.start # NoStart

(* The checks of "Всё верно". That the start is still ahead is not one.    *)
ValidPlan(plan) ==
  LET size == Cardinality(plan.members)
  IN  /\ size \in 2..MaxGroupSize
      /\ plan.start # NoStart
      /\ Fits(plan.start, size)
      /\ plan.days > 1 => Fits(DayStart(Day(plan.start) + 1), size)

Init ==
  /\ accounts = Account
  /\ groups = << >>
  /\ jobs = << >>
  /\ dialog = [a \in Admin |-> NoPlan]
  /\ task = [t \in Task |-> NoTask]
  /\ clock = 0
  /\ second = 0
  /\ made = 0
  /\ finished = {}
  /\ orphaned = {}
  /\ faults = 0

------------------------------------------------------------------------------
(* The dialogue. Every step reads and writes the data of one admin without *)
(* an await in between. When all groups are made it is of no use any more. *)

SetDialog(a, plan) ==
  /\ made < MaxGroups
  /\ dialog' = [dialog EXCEPT ![a] = plan]
  /\ UNCHANGED <<accounts, groups, jobs, task, clock, second, made, finished,
                 orphaned, faults>>

Taken == UNION {groups[id].members : id \in {i \in DOMAIN groups : groups[i].status = "enabled"}}

(* "Create group", then the name: the selection is emptied, a start and a  *)
(* number of days that were picked before stay.                            *)
OpenDialogue(a) ==
  /\ Cardinality(accounts \ Taken) >= 2
  /\ SetDialog(a, [dialog[a] EXCEPT !.members = {}])

Reset(a) == SetDialog(a, [dialog[a] EXCEPT !.members = {}])

(* A keyboard offers the accounts that were free when it was drawn: by now *)
(* they may be in a group, or gone.                                        *)
Toggle(a, x) ==
  \/ /\ x \in dialog[a].members
     /\ SetDialog(a, [dialog[a] EXCEPT !.members = @ \ {x}])
  \/ /\ x \notin dialog[a].members
     /\ Cardinality(dialog[a].members) < MaxGroupSize
     /\ SetDialog(a, [dialog[a] EXCEPT !.members = @ \union {x}])

(* "Now", in ten minutes, in an hour, tomorrow at 10:00 or a typed time    *)
(* that is not past.                                                       *)
PickTime(a, start) ==
  /\ start >= clock
  /\ Cardinality(dialog[a].members) >= 2
  /\ Fits(start, Cardinality(dialog[a].members))
  /\ SetDialog(a, [dialog[a] EXCEPT !.start = start])

PickDays(a, days) ==
  /\ dialog[a].start # NoStart
  /\ SetDialog(a, [dialog[a] EXCEPT !.days = days])

------------------------------------------------------------------------------
(* "Всё верно": the plan becomes a group.                                  *)

Idle(t) == task[t].pc = "idle"
Goto(t, pc) == task' = [task EXCEPT ![t].pc = pc]
Answer(t) == task' = [task EXCEPT ![t] = [NoTask EXCEPT !.pc = "clear", !.admin = task[t].admin]]
GotoMenu(t) == task' = [task EXCEPT ![t] = [NoTask EXCEPT !.pc = "menu"]]
Done(t) == task' = [task EXCEPT ![t] = NoTask]

(* The plan is read and checked; a bad one ends the dialogue.              *)
Confirm(t, a) ==
  /\ Idle(t)
  /\ IF ValidPlan(dialog[a])
       THEN /\ made + Cardinality({s \in Task : task[s].pc = "save"}) < MaxGroups
            /\ task' = [task EXCEPT ![t] = [NoTask EXCEPT !.pc = "save", !.admin = a,
                                                          !.plan = dialog[a]]]
            /\ UNCHANGED dialog
       ELSE dialog' = [dialog EXCEPT ![a] = NoPlan] /\ UNCHANGED task
  /\ UNCHANGED <<accounts, groups, jobs, clock, second, made, finished, orphaned, faults>>

(* SQLite gives a new row the highest id plus one.                         *)
NewId == IF DOMAIN groups = {} THEN 1
                               ELSE 1 + CHOOSE i \in DOMAIN groups : \A j \in DOMAIN groups : j <= i

(* The row, without comm_id, and then the comm_id: the second it is, that  *)
(* of the last group or a later one. An account that is gone violates the  *)
(* foreign key of its membership.                                          *)
SaveGroup(t) ==
  LET plan == task[t].plan
  IN  /\ task[t].pc = "save"
      /\ IF plan.members \subseteq accounts
           THEN /\ made' = made + 1
                /\ groups' = [i \in DOMAIN groups \union {NewId} |->
                                IF i \in DOMAIN groups THEN groups[i]
                                ELSE [of |-> made + 1, members |-> plan.members,
                                      plan |-> plan, comm |-> 0, status |-> "enabled"]]
                /\ second' \in {second, second + 1} \ {0}
                /\ task' = [task EXCEPT ![t].pc = "insert", ![t].id = NewId,
                                        ![t].of = made + 1, ![t].comm = second',
                                        ![t].day = Day(plan.start)]
           ELSE Answer(t) /\ UNCHANGED <<made, groups, second>>
      /\ UNCHANGED <<accounts, jobs, dialog, clock, finished, orphaned, faults>>

(* One transaction for each day: the messages that fit the window.         *)
InsertDay(t) ==
  LET plan == task[t].plan
      d == task[t].day
      n == DayMessages(Cardinality(plan.members))
  IN  /\ task[t].pc = "insert"
      /\ \E at \in Schedules(StartOn(plan, d), n) : \E m \in 0..n :
           /\ KeptInWindow(at, n, d, m)
           /\ jobs' = InsertOrIgnore(jobs,
                        [k \in {<<task[t].comm, d, i>> : i \in 1..m} |->
                           [of |-> task[t].of, status |-> "pending"]])
      /\ IF d < LastDay(plan) THEN task' = [task EXCEPT ![t].day = d + 1]
                              ELSE Goto(t, "comm")
      /\ UNCHANGED <<accounts, groups, dialog, clock, second, made, finished,
                     orphaned, faults>>

(* UPDATE .. WHERE id: the row may be gone, and its id may be another's.   *)
SetCommId(t) ==
  LET id == task[t].id
  IN  /\ task[t].pc = "comm"
      /\ IF id \in DOMAIN groups
           THEN /\ groups' = [groups EXCEPT ![id].comm = task[t].comm]
                /\ orphaned' = orphaned \union ({groups[id].of} \ {task[t].of})
           ELSE UNCHANGED <<groups, orphaned>>
      /\ Answer(t)
      /\ UNCHANGED <<accounts, jobs, dialog, clock, second, made, finished, faults>>

(* The answer is sent, the dialogue is over: whatever it holds by now.     *)
ClearDialog(t) ==
  /\ task[t].pc = "clear"
  /\ dialog' = [dialog EXCEPT ![task[t].admin] = NoPlan]
  /\ Done(t)
  /\ UNCHANGED <<accounts, groups, jobs, clock, second, made, finished, orphaned, faults>>

------------------------------------------------------------------------------
(* The buttons of a group.                                                 *)

(* Buttons that were shown: "complete" only for a group seen finished.     *)
Offered(id, button) == button = "delete" \/ id \in finished

(* "Delete", of a row that may be gone, and "complete", of one that is     *)
(* there.                                                                  *)
Press(t, id, button) ==
  /\ Idle(t)
  /\ Offered(id, button)
  /\ button = "complete" => id \in DOMAIN groups
  /\ LET found == id \in DOMAIN groups
         comm == IF found THEN groups[id].comm ELSE 0
     IN  task' = [task EXCEPT ![t] = [NoTask EXCEPT !.id = id, !.comm = comm,
                    !.of = IF found THEN groups[id].of ELSE 0,
                    !.pc = IF comm = 0 THEN "drop" ELSE "cancel",
                    !.day = IF button = "delete" THEN 1 ELSE 0]]
  /\ UNCHANGED <<accounts, groups, jobs, dialog, clock, second, made, finished,
                 orphaned, faults>>

(* Mutant: a group is dropped without its messages.                        *)
DropOnly(t) ==
  /\ task[t].pc = "cancel"
  /\ Goto(t, "drop")
  /\ UNCHANGED <<accounts, groups, jobs, dialog, clock, second, made, finished, orphaned, faults>>

CancelGroup(t) ==
  /\ task[t].pc = "cancel"
  /\ jobs' = CancelPendingForComm(jobs, task[t].comm)
  /\ Goto(t, "drop")
  /\ UNCHANGED <<accounts, groups, dialog, clock, second, made, finished, orphaned, faults>>

(* "Delete" ends in the menu, "complete" does not.                         *)
DropGroup(t) ==
  LET id == task[t].id
  IN  /\ task[t].pc = "drop"
      /\ groups' = [i \in DOMAIN groups \ {id} |-> groups[i]]
      /\ orphaned' = orphaned \union
           {groups[i].of : i \in {j \in DOMAIN groups \intersect {id} :
                                    groups[j].of # task[t].of \/ task[t].comm = 0}}
      /\ IF task[t].day = 1 THEN GotoMenu(t) ELSE Done(t)
      /\ UNCHANGED <<accounts, jobs, dialog, clock, second, made, finished, faults>>

------------------------------------------------------------------------------
(* The menu of groups.                                                     *)

OpenMenu(t, a) ==
  /\ Idle(t)
  /\ dialog' = [dialog EXCEPT ![a] = NoPlan]
  /\ GotoMenu(t)
  /\ UNCHANGED <<accounts, groups, jobs, clock, second, made, finished, orphaned, faults>>

(* Mutant: a group is finished on its last day.                            *)
ExpiredOnLastDay(g) == g.status = "enabled" /\ LastDay(g.plan) <= Day(clock)

Expired(g) == g.status = "enabled" /\ LastDay(g.plan) < Day(clock)

(* One transaction finishes the groups whose last day is over ...          *)
FinishExpired(t) ==
  LET over == {i \in DOMAIN groups : Expired(groups[i])}
  IN  /\ task[t].pc = "menu"
      /\ groups' = [i \in DOMAIN groups |->
                      IF i \in over THEN [groups[i] EXCEPT !.status = "finished"] ELSE groups[i]]
      /\ finished' = finished \union over
      /\ task' = [task EXCEPT ![t] = [NoTask EXCEPT !.pc = "stop",
                                        !.todo = {groups[i].comm : i \in over} \ {0}]]
      /\ UNCHANGED <<accounts, jobs, dialog, clock, second, made, orphaned, faults>>

(* ... and one statement each cancels their messages.                      *)
StopExpired(t) ==
  /\ task[t].pc = "stop"
  /\ IF task[t].todo = {}
       THEN Done(t) /\ UNCHANGED jobs
       ELSE \E c \in task[t].todo :
              /\ jobs' = CancelPendingForComm(jobs, c)
              /\ task' = [task EXCEPT ![t].todo = @ \ {c}]
  /\ UNCHANGED <<accounts, groups, dialog, clock, second, made, finished, orphaned, faults>>

------------------------------------------------------------------------------
(* What goes wrong, and the world.                                         *)

Saving(t) == task[t].pc \in {"insert", "comm"}

(* A statement fails: a save reports the error and ends the dialogue, any  *)
(* other handler just ends.                                                *)
Fault(t) ==
  /\ ~Idle(t) /\ task[t].pc # "clear"
  /\ faults < MaxFaults
  /\ faults' = faults + 1
  /\ orphaned' = IF Saving(t) THEN orphaned \union {task[t].of} ELSE orphaned
  /\ IF task[t].pc = "save" \/ Saving(t) THEN Answer(t) ELSE Done(t)
  /\ UNCHANGED <<accounts, groups, jobs, dialog, clock, second, made, finished>>

(* The bot restarts: handlers and dialogues are gone.                      *)
Restart ==
  /\ faults < MaxFaults
  /\ faults' = faults + 1
  /\ orphaned' = orphaned \union {task[t].of : t \in {s \in Task : Saving(s)}}
  /\ task' = [t \in Task |-> NoTask]
  /\ dialog' = [a \in Admin |-> NoPlan]
  /\ UNCHANGED <<accounts, groups, jobs, clock, second, made, finished>>

(* Deleting an account deletes its memberships (ON DELETE CASCADE).        *)
DeleteAccount(x) ==
  /\ x \in accounts
  /\ faults < MaxFaults
  /\ faults' = faults + 1
  /\ accounts' = accounts \ {x}
  /\ groups' = [i \in DOMAIN groups |-> [groups[i] EXCEPT !.members = @ \ {x}]]
  /\ UNCHANGED <<jobs, dialog, task, clock, second, made, finished, orphaned>>

Tick ==
  /\ \E i \in Instant :
       /\ i > clock
       /\ \A j \in Instant : j > clock => i <= j
       /\ clock' = i
  /\ UNCHANGED <<accounts, groups, jobs, dialog, task, second, made, finished, orphaned, faults>>

Next ==
  \/ \E a \in Admin :
       \/ OpenDialogue(a)
       \/ Reset(a)
       \/ \E x \in Account : Toggle(a, x)
       \/ \E i \in StartTime : PickTime(a, i)
       \/ \E n \in 1..MaxDays : PickDays(a, n)
  \/ \E t \in Task, a \in Admin : Confirm(t, a) \/ OpenMenu(t, a)
  \/ \E t \in Task : SaveGroup(t) \/ InsertDay(t) \/ SetCommId(t) \/ ClearDialog(t)
  \/ \E t \in Task, id \in 1..made, b \in {"delete", "complete"} : Press(t, id, b)
  \/ \E t \in Task : CancelGroup(t) \/ DropGroup(t) \/ FinishExpired(t) \/ StopExpired(t)
  \/ \E t \in Task : Fault(t)
  \/ Restart
  \/ \E x \in Account : DeleteAccount(x)
  \/ Tick

Spec == Init /\ [][Next]_vars

------------------------------------------------------------------------------
(* Types and shapes.                                                       *)

Plans == [members : SUBSET Account, start : StartTime \union {NoStart}, days : 1..MaxDays]

GroupsTypeOK ==
  /\ accounts \subseteq Account
  /\ \A id \in DOMAIN groups :
       /\ id \in 1..MaxGroups
       /\ groups[id] \in [of : 1..made, members : SUBSET Account, plan : Plans,
                          comm : 0..second, status : {"enabled", "finished"}]
  /\ \A k \in DOMAIN jobs : jobs[k] \in [of : 1..made, status : {"pending", "cancelled"}]
  /\ dialog \in [Admin -> Plans]
  /\ \A t \in Task :
       /\ task[t].pc \in {"idle", "save", "insert", "comm", "clear", "cancel", "drop",
                          "menu", "stop"}
       /\ task[t].plan \in Plans
       /\ task[t].of \in 0..made
  /\ made \in 0..MaxGroups
  /\ finished \subseteq 1..made
  /\ orphaned \subseteq 1..made

(* A group that got its comm_id has, on each of its days, all messages of  *)
(* its dialogue but at most the last, whatever buttons of older messages   *)
(* were pressed while the plan was made, and whatever failed - unless its  *)
(* comm_id is that of another group made in the same second.               *)
FullPlan ==
  \A id \in DOMAIN groups :
    LET g == groups[id]
    IN  g.comm # 0 /\ g.of \notin orphaned /\ (\A k \in OfComm(jobs, g.comm) : jobs[k].of = g.of) =>
          \A d \in Day(g.plan.start)..LastDay(g.plan) :
            Cardinality(OfDay(jobs, g.comm, d)) >= DayMessages(Cardinality(g.plan.members)) - 1

(* A message that still runs can be stopped: a group names it by comm_id,  *)
(* or its handler is about to see to that. The exceptions are the four     *)
(* ways to orphan the messages of a group: saving it fails midway; the     *)
(* delete that removes its row was pressed before comm_id was stored, or   *)
(* on a group that had the same id before; such a group, deleted while it  *)
(* was being saved, leaves its comm_id in the row.                         *)
Stoppable ==
  \A k \in OpenJobs(jobs) :
    \/ \E id \in DOMAIN groups : groups[id].of = jobs[k].of /\ groups[id].comm = k[1]
    \/ \E t \in Task : Saving(t) /\ task[t].of = jobs[k].of
    \/ jobs[k].of \in orphaned

(* The menu finishes a group, and then cancels what it left, only when no  *)
(* message of it is planned for today or a later day.                      *)
FinishedIsOver ==
  [][\A id \in DOMAIN groups \intersect DOMAIN groups' :
       groups[id].status = "enabled" /\ groups'[id].status = "finished" =>
         \A k \in OpenJobs(jobs) : jobs[k].of = groups[id].of => k[2] < Day(clock)]_vars

==============================================================================
