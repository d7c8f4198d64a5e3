----------------------------- MODULE GroupsProofs -----------------------------
(***************************************************************************)
(* Theorems about the groups of the bot, for every number of admins,       *)
(* handlers, accounts and groups: the types, that what still runs can be   *)
(* stopped (Stoppable), that the menu finishes a group only when its days  *)
(* are over (FinishedIsOver), and that a saved group has the messages of   *)
(* all its days (FullPlan).                                                *)
(***************************************************************************)
EXTENDS Groups, RingsProofs

(* Types. A group, a row id and a comm_id are counted from one, so the     *)
(* greatest row id is at most the number of groups made.                   *)

Owner == Admin \union {NoTask.admin}

Tasks == [pc : {"idle", "save", "insert", "comm", "clear", "cancel", "drop", "menu", "stop"},
          admin : Owner, plan : Plans, id : Nat, of : Nat, comm : Nat, day : Int,
          todo : SUBSET Nat]

Saved == [of : Nat, members : SUBSET Account, plan : Plans, comm : Nat,
          status : {"enabled", "finished"}]

GroupRowsOK ==
  /\ DOMAIN groups \subseteq 1..made
  /\ \A id \in DOMAIN groups :
       groups[id] \in Saved /\ groups[id].of \in 1..made /\ groups[id].comm <= second

JobRowsOK ==
  \A k \in DOMAIN jobs :
    k[2] \in Int /\ jobs[k] \in [of : 1..made, status : {"pending", "cancelled"}]

TasksOK ==
  /\ task \in [Task -> Tasks]
  /\ \A t \in Task : task[t].of <= made /\ task[t].comm <= second

About == {t \in Task : task[t].pc = "save"}

(* The bound on groups holds because the plans that are about to be saved  *)
(* are counted before they are.                                            *)
CountsOK ==
  /\ made \in Nat /\ second \in Nat
  /\ made + Cardinality(About) <= MaxGroups

TypeInv ==
  /\ GroupRowsOK /\ JobRowsOK /\ TasksOK /\ CountsOK
  /\ accounts \subseteq Account
  /\ dialog \in [Admin -> Plans]
  /\ finished \subseteq 1..made /\ orphaned \subseteq 1..made

------------------------------------------------------------------------------
LEMMA AboutIsFinite == IsFiniteSet(About) /\ Cardinality(About) \in Nat
  BY GroupsAssumption, FS_Subset, FS_CardinalityType DEF About

LEMMA TypeEnough == TypeInv => GroupsTypeOK
<1>. SUFFICES ASSUME TypeInv
              PROVE  GroupsTypeOK
  OBVIOUS
<1>1. made \in 0..MaxGroups
  BY AboutIsFinite, GroupsAssumption DEF TypeInv, CountsOK
<1>2. \A id \in DOMAIN groups :
        /\ id \in 1..MaxGroups
        /\ groups[id] \in [of : 1..made, members : SUBSET Account, plan : Plans,
                           comm : 0..second, status : {"enabled", "finished"}]
  <2>. SUFFICES ASSUME NEW id \in DOMAIN groups
                PROVE  /\ id \in 1..MaxGroups
                       /\ groups[id] \in [of : 1..made, members : SUBSET Account, plan : Plans,
                                          comm : 0..second, status : {"enabled", "finished"}]
    OBVIOUS
  <2>1. id \in 1..MaxGroups
    BY <1>1, GroupsAssumption DEF TypeInv, GroupRowsOK
  <2>2. groups[id] \in Saved /\ groups[id].of \in 1..made /\ groups[id].comm \in 0..second
    BY DEF TypeInv, GroupRowsOK, CountsOK, Saved
  <2>. QED BY <2>1, <2>2 DEF Saved
<1>3. \A t \in Task :
        /\ task[t].pc \in {"idle", "save", "insert", "comm", "clear", "cancel", "drop",
                           "menu", "stop"}
        /\ task[t].plan \in Plans
        /\ task[t].of \in 0..made
  BY <1>1 DEF TypeInv, TasksOK, Tasks
<1>. QED BY <1>1, <1>2, <1>3 DEF TypeInv, JobRowsOK, GroupsTypeOK

LEMMA NoPlanIsPlan == NoPlan \in Plans
  BY GroupsAssumption DEF NoPlan, Plans

LEMMA NoTaskIsTask ==
  NoTask \in Tasks /\ NoTask.pc = "idle" /\ NoTask.of = 0 /\ NoTask.comm = 0
<1>1. NoTask = [pc |-> "idle", admin |-> NoTask.admin, plan |-> NoPlan,
                id |-> 0, of |-> 0, comm |-> 0, day |-> 0, todo |-> {}]
  BY DEF NoTask
<1>. QED BY <1>1, NoPlanIsPlan DEF Tasks, Owner

(* Every definition with an integer of its own, for the arithmetic below.  *)
LEMMA DaysAreNumbers ==
  ASSUME NEW plan \in Plans
  PROVE  /\ Day(plan.start) \in Int /\ LastDay(plan) \in Int
         /\ Day(plan.start) <= LastDay(plan)
<1>1. plan.start \in Int /\ plan.days \in Nat /\ plan.days >= 1
  <2>1. plan.start \in StartTime \union {NoStart} /\ plan.days \in 1..MaxDays
    BY DEF Plans
  <2>2. StartTime \subseteq Nat /\ MaxDays \in Nat
    BY GroupsAssumption
  <2>3. NoStart \in Int
    BY DEF NoStart
  <2>. DEFINE start == plan.start
  <2>4. start \in StartTime \/ start = NoStart
    BY <2>1
  <2>. HIDE DEF start
  <2>5. start \in Int
    <3>1. CASE start \in StartTime
      BY <2>2, <3>1
    <3>2. CASE start = NoStart
      BY <2>3, <3>2, Zenon
    <3>. QED BY <2>4, <3>1, <3>2
  <2>6. plan.days \in Nat /\ plan.days >= 1
    BY <2>1, <2>2
  <2>. QED BY <2>5, <2>6 DEF start
<1>2. Day(plan.start) \in Int
  BY <1>1, RingsAssumption DEF Day
<1>. HIDE DEF Day
<1>. QED BY <1>1, <1>2 DEF LastDay

LEMMA NewIdIsNew ==
  TypeInv => NewId \in 1..(made + 1) /\ NewId \notin DOMAIN groups
<1>. SUFFICES ASSUME TypeInv
              PROVE  NewId \in 1..(made + 1) /\ NewId \notin DOMAIN groups
  OBVIOUS
<1>1. made \in Nat /\ DOMAIN groups \subseteq 1..made
  BY DEF TypeInv, CountsOK, GroupRowsOK
<1>2. CASE DOMAIN groups = {}
  BY <1>1, <1>2 DEF NewId
<1>3. CASE DOMAIN groups # {}
  <2>1. DOMAIN groups \in SUBSET Nat /\ \A i \in DOMAIN groups : i <= made
    BY <1>1
  <2>2. \E i \in DOMAIN groups : \A j \in DOMAIN groups : j <= i
    BY <1>1, <1>3, <2>1, BoundedMaximum
  <2>. DEFINE i == CHOOSE i \in DOMAIN groups : \A j \in DOMAIN groups : j <= i
  <2>3. i \in DOMAIN groups /\ \A j \in DOMAIN groups : j <= i
    BY <2>2
  <2>4. NewId = 1 + i
    BY <1>3 DEF NewId
  <2>. HIDE DEF i
  <2>. QED BY <1>1, <2>1, <2>3, <2>4
<1>. QED BY <1>2, <1>3

LEMMA TypeStarts == Init => TypeInv
<1>. SUFFICES ASSUME Init
              PROVE  TypeInv
  OBVIOUS
<1>1. TasksOK
  BY NoTaskIsTask DEF Init, TasksOK
<1>2. About = {}
  BY NoTaskIsTask DEF Init, About
<1>3. CountsOK
  BY <1>2, FS_EmptySet, GroupsAssumption DEF Init, CountsOK
<1>4. GroupRowsOK /\ JobRowsOK
  BY DEF Init, GroupRowsOK, JobRowsOK
<1>. QED BY <1>1, <1>3, <1>4, NoPlanIsPlan DEF Init, TypeInv

------------------------------------------------------------------------------
(* Steps of handlers: what a handler becomes is a task again, and only a   *)
(* confirmation makes one that is about to save.                           *)

LEMMA CountsKept ==
  ASSUME TypeInv, UNCHANGED <<made, second>>, About' \subseteq About
  PROVE  CountsOK'
<1>1. IsFiniteSet(About') /\ Cardinality(About') \in Nat /\ Cardinality(About') <= Cardinality(About)
  BY AboutIsFinite, FS_Subset, FS_CardinalityType
<1>. QED BY <1>1, AboutIsFinite, GroupsAssumption DEF TypeInv, CountsOK

LEMMA HandlerBecomes ==
  ASSUME TypeInv, NEW t \in Task, NEW r \in Tasks, task' = [task EXCEPT ![t] = r],
         r.of <= made, r.comm <= second, r.pc # "save", UNCHANGED <<made, second>>
  PROVE  TasksOK' /\ CountsOK'
<1>1. TasksOK'
  BY DEF TypeInv, TasksOK
<1>2. About' \subseteq About
  BY DEF TypeInv, TasksOK, About
<1>. QED BY <1>1, <1>2, CountsKept

LEMMA HandlerGoesTo ==
  ASSUME TypeInv, NEW t \in Task, NEW pc \in {"comm", "drop"}, Goto(t, pc),
         UNCHANGED <<made, second>>
  PROVE  TasksOK' /\ CountsOK'
<1>. DEFINE r == [task[t] EXCEPT !.pc = pc]
<1>1. task[t] \in Tasks /\ task[t].of <= made /\ task[t].comm <= second
  BY DEF TypeInv, TasksOK
<1>2. r \in Tasks /\ r.of = task[t].of /\ r.comm = task[t].comm /\ r.pc = pc
  BY <1>1 DEF Tasks
<1>3. task' = [task EXCEPT ![t] = r]
  BY DEF Goto, TypeInv, TasksOK
<1>. HIDE DEF r
<1>. QED BY <1>1, <1>2, <1>3, HandlerBecomes

LEMMA PlainTasks ==
  ASSUME NEW pc \in {"idle", "clear", "menu"}, NEW owner \in Owner
  PROVE  LET r == [NoTask EXCEPT !.pc = pc]
             s == [NoTask EXCEPT !.pc = pc, !.admin = owner]
         IN  /\ r \in Tasks /\ r.pc = pc /\ r.of = 0 /\ r.comm = 0
             /\ s \in Tasks /\ s.pc = pc /\ s.of = 0 /\ s.comm = 0
  BY NoTaskIsTask DEF Tasks

LEMMA HandlerEnds ==
  ASSUME TypeInv, NEW t \in Task, Answer(t) \/ GotoMenu(t) \/ Done(t),
         UNCHANGED <<made, second>>
  PROVE  /\ TasksOK' /\ CountsOK'
         /\ \A s \in Task \ {t} : task'[s] = task[s]
         /\ task'[t].pc \in {"idle", "clear", "menu"}
<1>1. made \in Nat /\ second \in Nat /\ task[t].admin \in Owner /\ task \in [Task -> Tasks]
  BY DEF TypeInv, CountsOK, TasksOK, Tasks
<1>2. PICK r \in Tasks : /\ task' = [task EXCEPT ![t] = r]
                         /\ r.of = 0 /\ r.comm = 0 /\ r.pc \in {"idle", "clear", "menu"}
  <2>1. CASE Answer(t)
    BY <1>1, <2>1, PlainTasks DEF Answer
  <2>2. CASE GotoMenu(t)
    BY <1>1, <2>2, PlainTasks DEF GotoMenu
  <2>3. CASE Done(t)
    BY <2>3, NoTaskIsTask DEF Done
  <2>. QED BY <2>1, <2>2, <2>3
<1>3. r.of <= made /\ r.comm <= second /\ r.pc # "save"
  BY <1>1, <1>2
<1>4. TasksOK' /\ CountsOK'
  BY <1>2, <1>3, HandlerBecomes
<1>. QED BY <1>1, <1>2, <1>4

------------------------------------------------------------------------------
(* Types, action by action.                                                *)

LEMMA DialoguesTyped ==
  ASSUME TypeInv,
         \E a \in Admin :
           \/ OpenDialogue(a) \/ Reset(a)
           \/ \E x \in Account : Toggle(a, x)
           \/ \E i \in StartTime : PickTime(a, i)
           \/ \E n \in 1..MaxDays : PickDays(a, n)
  PROVE  TypeInv'
<1>1. PICK a \in Admin, plan \in Plans : SetDialog(a, plan)
  <2>1. PICK a \in Admin :
           \/ OpenDialogue(a) \/ Reset(a)
           \/ \E x \in Account : Toggle(a, x)
           \/ \E i \in StartTime : PickTime(a, i)
           \/ \E n \in 1..MaxDays : PickDays(a, n)
    OBVIOUS
  <2>2. dialog[a] \in Plans
    BY DEF TypeInv
  <2>3. \A m \in SUBSET Account : [dialog[a] EXCEPT !.members = m] \in Plans
    BY <2>2 DEF Plans
  <2>4. dialog[a].members \in SUBSET Account
    BY <2>2 DEF Plans
  <2>5. CASE OpenDialogue(a) \/ Reset(a)
    BY <2>3, <2>5 DEF OpenDialogue, Reset
  <2>6. CASE \E x \in Account : Toggle(a, x)
    BY <2>3, <2>4, <2>6 DEF Toggle
  <2>7. CASE \E i \in StartTime : PickTime(a, i)
    BY <2>2, <2>7 DEF PickTime, Plans
  <2>8. CASE \E n \in 1..MaxDays : PickDays(a, n)
    BY <2>2, <2>8 DEF PickDays, Plans
  <2>. QED BY <2>1, <2>5, <2>6, <2>7, <2>8
<1>2. dialog' \in [Admin -> Plans]
  BY <1>1 DEF SetDialog, TypeInv
<1>3. UNCHANGED <<accounts, groups, jobs, task, made, second, finished, orphaned>>
  BY <1>1 DEF SetDialog
<1>. QED BY <1>2, <1>3 DEF TypeInv, GroupRowsOK, JobRowsOK, TasksOK, CountsOK, About

LEMMA ConfirmTyped ==
  ASSUME TypeInv, NEW t \in Task, NEW a \in Admin, Confirm(t, a)
  PROVE  TypeInv'
<1>1. CASE ~ValidPlan(dialog[a])
  <2>1. dialog' \in [Admin -> Plans]
    BY <1>1, NoPlanIsPlan DEF Confirm, TypeInv
  <2>. QED BY <1>1, <2>1 DEF Confirm, TypeInv, GroupRowsOK, JobRowsOK, TasksOK, CountsOK, About
<1>2. CASE ValidPlan(dialog[a])
  <2>. DEFINE r == [NoTask EXCEPT !.pc = "save", !.admin = a, !.plan = dialog[a]]
  <2>1. dialog[a] \in Plans /\ a \in Owner
    BY DEF TypeInv, Owner
  <2>2. r \in Tasks /\ r.of = 0 /\ r.comm = 0 /\ r.pc = "save"
    BY <2>1, NoTaskIsTask DEF Tasks
  <2>3. /\ task' = [task EXCEPT ![t] = r] /\ Idle(t)
        /\ made + Cardinality(About) < MaxGroups
    BY <1>2 DEF Confirm, About
  <2>. HIDE DEF r
  <2>4. TasksOK'
    BY <1>2, <2>2, <2>3 DEF Confirm, TypeInv, TasksOK, CountsOK
  <2>5. About' = About \union {t} /\ t \notin About
    BY <2>2, <2>3 DEF TypeInv, TasksOK, About, Idle
  <2>6. Cardinality(About') = Cardinality(About) + 1
    BY <2>5, AboutIsFinite, FS_AddElement
  <2>7. CountsOK'
    BY <1>2, <2>3, <2>6, AboutIsFinite, GroupsAssumption DEF Confirm, TypeInv, CountsOK
  <2>. QED BY <1>2, <2>4, <2>7 DEF Confirm, TypeInv, GroupRowsOK, JobRowsOK
<1>. QED BY <1>1, <1>2

(* What a task that saves a group has, and what the table gains.           *)
LEMMA SaveMakes ==
  ASSUME TypeInv, NEW t \in Task, SaveGroup(t), task[t].plan.members \subseteq accounts
  PROVE  /\ made' = made + 1 /\ second' \in Nat /\ second <= second' /\ second' >= 1
         /\ DOMAIN groups' = DOMAIN groups \union {NewId}
         /\ \A id \in DOMAIN groups : groups'[id] = groups[id]
         /\ groups'[NewId] = [of |-> made + 1, members |-> task[t].plan.members,
                              plan |-> task[t].plan, comm |-> 0, status |-> "enabled"]
         /\ \A s \in Task \ {t} : task'[s] = task[s]
         /\ task'[t] = [task[t] EXCEPT !.pc = "insert", !.id = NewId, !.of = made + 1,
                                      !.comm = second', !.day = Day(task[t].plan.start)]
<1>1. second' \in {second, second + 1} \ {0} /\ second \in Nat
  BY DEF SaveGroup, TypeInv, CountsOK
<1>2. /\ DOMAIN groups' = DOMAIN groups \union {NewId}
      /\ \A id \in DOMAIN groups : groups'[id] = groups[id]
      /\ groups'[NewId] = [of |-> made + 1, members |-> task[t].plan.members,
                           plan |-> task[t].plan, comm |-> 0, status |-> "enabled"]
  BY NewIdIsNew DEF SaveGroup
<1>3. task' = [task EXCEPT ![t].pc = "insert", ![t].id = NewId, ![t].of = made + 1,
                           ![t].comm = second', ![t].day = Day(task[t].plan.start)]
  BY DEF SaveGroup
<1>4. /\ \A s \in Task \ {t} : task'[s] = task[s]
      /\ task'[t] = [task[t] EXCEPT !.pc = "insert", !.id = NewId, !.of = made + 1,
                                   !.comm = second', !.day = Day(task[t].plan.start)]
  BY <1>3 DEF TypeInv, TasksOK
<1>5. made' = made + 1
  BY DEF SaveGroup
<1>. QED BY <1>1, <1>2, <1>4, <1>5

LEMMA SaveTyped ==
  ASSUME TypeInv, NEW t \in Task, SaveGroup(t)
  PROVE  TypeInv'
<1>1. CASE ~(task[t].plan.members \subseteq accounts)
  <2>1. Answer(t) /\ UNCHANGED <<made, second, groups, jobs, accounts, dialog, finished, orphaned>>
    BY <1>1 DEF SaveGroup
  <2>. QED BY <2>1, HandlerEnds DEF TypeInv, GroupRowsOK, JobRowsOK
<1>2. CASE task[t].plan.members \subseteq accounts
  <2>. DEFINE plan == task[t].plan
              row == [of |-> made + 1, members |-> plan.members, plan |-> plan,
                      comm |-> 0, status |-> "enabled"]
              r == [task[t] EXCEPT !.pc = "insert", !.id = NewId, !.of = made + 1,
                                   !.comm = second', !.day = Day(plan.start)]
  <2>1. /\ made' = made + 1 /\ second' \in Nat /\ second <= second' /\ second' >= 1
        /\ DOMAIN groups' = DOMAIN groups \union {NewId}
        /\ \A id \in DOMAIN groups : groups'[id] = groups[id]
        /\ groups'[NewId] = row
        /\ \A s \in Task \ {t} : task'[s] = task[s]
        /\ task'[t] = r
    BY <1>2, SaveMakes
  <2>2. made \in Nat /\ second \in Nat /\ task[t] \in Tasks /\ plan \in Plans
    BY DEF TypeInv, CountsOK, TasksOK, Tasks
  <2>3. NewId \in Nat /\ NewId \in 1..(made + 1) /\ Day(plan.start) \in Int
    BY <2>2, NewIdIsNew, DaysAreNumbers
  <2>4. r \in Tasks /\ r.of = made + 1 /\ r.comm = second' /\ r.pc = "insert"
    <3>. DEFINE of == made + 1
                comm == second'
                day == Day(plan.start)
    <3>1. of \in Nat /\ comm \in Nat /\ day \in Int /\ NewId \in Nat
      BY <2>1, <2>2, <2>3
    <3>2. r = [task[t] EXCEPT !.pc = "insert", !.id = NewId, !.of = of, !.comm = comm, !.day = day]
      OBVIOUS
    <3>. HIDE DEF plan, of, comm, day, r
    <3>3. r \in Tasks /\ r.of = of /\ r.comm = comm /\ r.pc = "insert"
      BY <2>2, <3>1, <3>2 DEF Tasks
    <3>. QED BY <3>3 DEF of, comm
  <2>5. row \in Saved /\ row.of = made + 1 /\ row.comm = 0
    BY <2>2 DEF Saved, Plans
  <2>6. DOMAIN task' = Task /\ task' = [s \in Task |-> task'[s]]
    BY <1>2 DEF SaveGroup, TypeInv, TasksOK
  <2>. HIDE DEF r, row, plan
  <2>7. TasksOK'
    <3>1. \A s \in Task : task'[s] \in Tasks /\ task'[s].of <= made' /\ task'[s].comm <= second'
      <4>1. \A s \in Task : task[s] \in Tasks /\ task[s].of <= made /\ task[s].comm <= second
                             /\ task[s].of \in Nat /\ task[s].comm \in Nat
        BY DEF TypeInv, TasksOK, Tasks
      <4>2. \A s \in Task \ {t} : task'[s] \in Tasks /\ task'[s].of <= made' /\ task'[s].comm <= second'
        BY <2>1, <2>2, <4>1
      <4>3. task'[t] \in Tasks /\ task'[t].of <= made' /\ task'[t].comm <= second'
        BY <2>1, <2>2, <2>4
      <4>. QED BY <4>2, <4>3
    <3>. QED BY <2>6, <3>1 DEF TasksOK
  <2>8. GroupRowsOK'
    <3>1. DOMAIN groups' \subseteq 1..made'
      BY <2>1, <2>2, <2>3 DEF TypeInv, GroupRowsOK
    <3>2. \A id \in DOMAIN groups :
            groups'[id] \in Saved /\ groups'[id].of \in 1..made' /\ groups'[id].comm <= second'
      <4>1. \A id \in DOMAIN groups :
              /\ groups[id] \in Saved /\ groups[id].of \in 1..made /\ groups[id].comm <= second
              /\ groups[id].comm \in Nat
        BY DEF TypeInv, GroupRowsOK, Saved
      <4>. QED BY <2>1, <2>2, <4>1
    <3>3. groups'[NewId] \in Saved /\ groups'[NewId].of \in 1..made' /\ groups'[NewId].comm <= second'
      BY <2>1, <2>2, <2>5
    <3>. QED BY <2>1, <3>1, <3>2, <3>3 DEF GroupRowsOK
  <2>9. t \in About /\ About' = About \ {t}
    BY <2>1, <2>4 DEF SaveGroup, About
  <2>10. Cardinality(About') = Cardinality(About) - 1
    BY <2>9, AboutIsFinite, FS_RemoveElement
  <2>11. CountsOK'
    BY <2>1, <2>2, <2>10, AboutIsFinite, GroupsAssumption DEF TypeInv, CountsOK
  <2>12. UNCHANGED <<accounts, jobs, dialog, finished, orphaned>>
    BY DEF SaveGroup
  <2>13. JobRowsOK'
    BY <2>1, <2>2, <2>12 DEF TypeInv, JobRowsOK
  <2>14. finished \subseteq 1..made' /\ orphaned \subseteq 1..made'
    BY <2>1, <2>2 DEF TypeInv
  <2>. QED BY <2>7, <2>8, <2>11, <2>12, <2>13, <2>14 DEF TypeInv
<1>. QED BY <1>1, <1>2

(* A day's transaction adds messages of this group on this day, under its  *)
(* comm_id, and leaves all others as they are.                             *)
LEMMA InsertAdds ==
  ASSUME TypeInv, NEW t \in Task, InsertDay(t)
  PROVE  /\ DOMAIN jobs \subseteq DOMAIN jobs'
         /\ \A k \in DOMAIN jobs : jobs'[k] = jobs[k]
         /\ \A k \in DOMAIN jobs' \ DOMAIN jobs :
              /\ k[1] = task[t].comm /\ k[2] = task[t].day
              /\ jobs'[k] = [of |-> task[t].of, status |-> "pending"]
<1>1. PICK m : jobs' = InsertOrIgnore(jobs,
                         [k \in {<<task[t].comm, task[t].day, i>> : i \in 1..m} |->
                            [of |-> task[t].of, status |-> "pending"]])
  BY DEF InsertDay
<1>. QED BY <1>1 DEF InsertOrIgnore

(* Where the handler goes on.                                              *)
LEMMA InsertMoves ==
  ASSUME TypeInv, NEW t \in Task, InsertDay(t)
  PROVE  /\ TasksOK' /\ CountsOK'
         /\ \A s \in Task \ {t} : task'[s] = task[s]
         /\ task[t].pc = "insert"
         /\ \A f \in {"of", "comm", "id", "plan"} : task'[t][f] = task[t][f]
         /\ \/ task'[t].pc = "comm"
            \/ /\ task'[t].pc = "insert" /\ task'[t].day = task[t].day + 1
               /\ task[t].day < LastDay(task[t].plan)
<1>1. task[t] \in Tasks /\ task[t].of <= made /\ task[t].comm <= second
  BY DEF TypeInv, TasksOK
<1>2. task[t].pc = "insert" /\ UNCHANGED <<made, second>>
  BY DEF InsertDay
<1>3. CASE Goto(t, "comm") /\ ~(task[t].day < LastDay(task[t].plan))
  BY <1>1, <1>2, <1>3, HandlerGoesTo DEF Goto, TypeInv, TasksOK, Tasks
<1>4. CASE task' = [task EXCEPT ![t].day = task[t].day + 1] /\ task[t].day < LastDay(task[t].plan)
  <2>. DEFINE r == [task[t] EXCEPT !.day = task[t].day + 1]
  <2>1. /\ r \in Tasks /\ r.of = task[t].of /\ r.comm = task[t].comm /\ r.pc = task[t].pc
        /\ r.id = task[t].id /\ r.plan = task[t].plan /\ r.day = task[t].day + 1
    BY <1>1 DEF Tasks
  <2>2. task' = [task EXCEPT ![t] = r]
    BY <1>4 DEF TypeInv, TasksOK
  <2>. HIDE DEF r
  <2>3. TasksOK' /\ CountsOK'
    BY <1>1, <1>2, <2>1, <2>2, HandlerBecomes
  <2>4. task'[t] = r /\ \A s \in Task \ {t} : task'[s] = task[s]
    BY <2>2 DEF TypeInv, TasksOK
  <2>. QED BY <1>2, <1>4, <2>1, <2>3, <2>4
<1>. QED BY <1>2, <1>3, <1>4 DEF InsertDay

LEMMA InsertTyped ==
  ASSUME TypeInv, NEW t \in Task, InsertDay(t), task[t].of \in 1..made
  PROVE  TypeInv'
<1>1. TasksOK' /\ CountsOK'
  BY InsertMoves
<1>2. UNCHANGED <<accounts, groups, dialog, made, second, finished, orphaned>>
  BY DEF InsertDay
<1>3. task[t].day \in Int
  BY DEF TypeInv, TasksOK, Tasks
<1>4. JobRowsOK'
  BY <1>2, <1>3, InsertAdds DEF TypeInv, JobRowsOK
<1>. QED BY <1>1, <1>2, <1>4 DEF TypeInv, GroupRowsOK

LEMMA SetCommTyped ==
  ASSUME TypeInv, NEW t \in Task, SetCommId(t), task[t].of \in 1..made
  PROVE  TypeInv'
<1>1. Answer(t) /\ UNCHANGED <<accounts, jobs, dialog, made, second, finished>>
  BY DEF SetCommId
<1>2. task[t].comm \in Nat /\ task[t].comm <= second
  BY DEF TypeInv, TasksOK, Tasks
<1>. DEFINE id == task[t].id
<1>3. CASE id \in DOMAIN groups
  <2>1. /\ groups' = [groups EXCEPT ![id].comm = task[t].comm]
        /\ orphaned' = orphaned \union ({groups[id].of} \ {task[t].of})
    BY <1>3 DEF SetCommId
  <2>2. groups[id] \in Saved /\ groups[id].of \in 1..made
    BY <1>3 DEF TypeInv, GroupRowsOK
  <2>3. [groups[id] EXCEPT !.comm = task[t].comm] \in Saved
        /\ [groups[id] EXCEPT !.comm = task[t].comm].of = groups[id].of
        /\ [groups[id] EXCEPT !.comm = task[t].comm].comm = task[t].comm
    BY <1>2, <2>2 DEF Saved
  <2>4. /\ DOMAIN groups' = DOMAIN groups
        /\ groups'[id] = [groups[id] EXCEPT !.comm = task[t].comm]
        /\ \A i \in DOMAIN groups \ {id} : groups'[i] = groups[i]
    BY <1>3, <2>1
  <2>5. GroupRowsOK'
    BY <1>1, <1>2, <2>2, <2>3, <2>4 DEF TypeInv, GroupRowsOK
  <2>. QED BY <1>1, <2>1, <2>2, <2>5, HandlerEnds DEF TypeInv, JobRowsOK
<1>4. CASE id \notin DOMAIN groups
  <2>1. UNCHANGED <<groups, orphaned>>
    BY <1>4 DEF SetCommId
  <2>. QED BY <1>1, <2>1, HandlerEnds DEF TypeInv, JobRowsOK, GroupRowsOK
<1>. QED BY <1>3, <1>4

(* Steps that leave groups and messages alone.                             *)
LEMMA LittleTyped ==
  ASSUME TypeInv, NEW t \in Task, ClearDialog(t) \/ \E a \in Admin : OpenMenu(t, a)
  PROVE  TypeInv'
<1>1. dialog' \in [Admin -> Plans]
  BY NoPlanIsPlan DEF ClearDialog, OpenMenu, TypeInv
<1>2. (Done(t) \/ GotoMenu(t)) /\ UNCHANGED <<accounts, groups, jobs, made, second, finished, orphaned>>
  BY DEF ClearDialog, OpenMenu
<1>. QED BY <1>1, <1>2, HandlerEnds DEF TypeInv, JobRowsOK, GroupRowsOK

(* What the handler of a button has read of the group.                     *)
LEMMA PressReads ==
  ASSUME TypeInv, NEW t \in Task, NEW id \in 1..made, NEW b \in {"delete", "complete"},
         Press(t, id, b)
  PROVE  /\ TasksOK' /\ CountsOK'
         /\ \A s \in Task \ {t} : task'[s] = task[s]
         /\ task[t].pc = "idle" /\ task'[t].pc \in {"cancel", "drop"}
         /\ task'[t].pc = "drop" => task'[t].comm = 0
         /\ task'[t].id = id
         /\ task'[t].comm # 0 =>
              /\ id \in DOMAIN groups
              /\ task'[t].of = groups[id].of /\ task'[t].comm = groups[id].comm
<1>. DEFINE found == id \in DOMAIN groups
            comm == IF found THEN groups[id].comm ELSE 0
            of == IF found THEN groups[id].of ELSE 0
            pc == IF comm = 0 THEN "drop" ELSE "cancel"
            day == IF b = "delete" THEN 1 ELSE 0
            r == [NoTask EXCEPT !.id = id, !.comm = comm, !.of = of, !.pc = pc, !.day = day]
<1>1. task' = [task EXCEPT ![t] = r] /\ task[t].pc = "idle" /\ UNCHANGED <<made, second>>
  BY DEF Press, Idle
<1>2. /\ of \in Nat /\ of <= made /\ comm \in Nat /\ comm <= second
      /\ id \in Nat /\ day \in Int /\ pc \in {"drop", "cancel"}
      /\ pc = "drop" => comm = 0
      /\ comm # 0 => id \in DOMAIN groups /\ of = groups[id].of /\ comm = groups[id].comm
  <2>1. made \in Nat /\ second \in Nat
    BY DEF TypeInv, CountsOK
  <2>2. found => groups[id].of \in 1..made /\ groups[id].comm \in Nat /\ groups[id].comm <= second
    BY DEF TypeInv, GroupRowsOK, Saved
  <2>. QED BY <2>1, <2>2
<1>. HIDE DEF comm, of, pc, day
<1>3. /\ r \in Tasks /\ r.id = id /\ r.comm = comm /\ r.of = of /\ r.pc = pc
  BY <1>2, NoTaskIsTask DEF Tasks
<1>. HIDE DEF r
<1>4. TasksOK' /\ CountsOK'
  BY <1>1, <1>2, <1>3, HandlerBecomes
<1>5. task'[t] = r /\ \A s \in Task \ {t} : task'[s] = task[s]
  BY <1>1 DEF TypeInv, TasksOK
<1>. QED BY <1>1, <1>2, <1>3, <1>4, <1>5

LEMMA PressTyped ==
  ASSUME TypeInv, NEW t \in Task, NEW id \in 1..made, NEW b \in {"delete", "complete"},
         Press(t, id, b)
  PROVE  TypeInv'
<1>1. UNCHANGED <<accounts, groups, jobs, dialog, made, second, finished, orphaned>>
  BY DEF Press
<1>. QED BY <1>1, PressReads DEF TypeInv, JobRowsOK, GroupRowsOK

(* A cancellation ends open messages of one comm_id.                       *)
LEMMA CancelEnds ==
  ASSUME JobRowsOK, NEW c, jobs' = CancelPendingForComm(jobs, c)
  PROVE  /\ DOMAIN jobs' = DOMAIN jobs
         /\ \A k \in DOMAIN jobs :
              /\ jobs'[k] \in [of : 1..made, status : {"pending", "cancelled"}]
              /\ jobs'[k].of = jobs[k].of
              /\ jobs'[k].status \in OpenStatus =>
                   jobs[k].status \in OpenStatus /\ k[1] # c
<1>1. DOMAIN jobs' = DOMAIN jobs
  BY DEF CancelPendingForComm, Cancel, SetStatus
<1>2. ASSUME NEW k \in DOMAIN jobs
      PROVE  /\ jobs'[k] \in [of : 1..made, status : {"pending", "cancelled"}]
             /\ jobs'[k].of = jobs[k].of
             /\ jobs'[k].status \in OpenStatus =>
                  jobs[k].status \in OpenStatus /\ k[1] # c
  <2>1. jobs[k] \in [of : 1..made, status : {"pending", "cancelled"}]
    BY DEF JobRowsOK
  <2>2. CASE k[1] = c /\ jobs[k].status \in OpenStatus
    <3>1. jobs'[k] = [jobs[k] EXCEPT !.status = "cancelled"]
      BY <2>2 DEF CancelPendingForComm, Cancel, SetStatus, OfComm, OpenJobs
    <3>. QED BY <2>1, <3>1 DEF OpenStatus
  <2>3. CASE ~(k[1] = c /\ jobs[k].status \in OpenStatus)
    <3>1. jobs'[k] = jobs[k]
      BY <2>3 DEF CancelPendingForComm, Cancel, SetStatus, OfComm, OpenJobs
    <3>. QED BY <2>1, <2>3, <3>1
  <2>. QED BY <2>2, <2>3
<1>. QED BY <1>1, <1>2

LEMMA CancelTyped ==
  ASSUME TypeInv, NEW t \in Task, CancelGroup(t)
  PROVE  TypeInv'
<1>1. /\ jobs' = CancelPendingForComm(jobs, task[t].comm) /\ Goto(t, "drop")
      /\ UNCHANGED <<accounts, groups, dialog, made, second, finished, orphaned>>
  BY DEF CancelGroup
<1>2. JobRowsOK'
  BY <1>1, CancelEnds DEF TypeInv, JobRowsOK
<1>. QED BY <1>1, <1>2, HandlerGoesTo DEF TypeInv, GroupRowsOK

LEMMA DropTyped ==
  ASSUME TypeInv, NEW t \in Task, DropGroup(t)
  PROVE  TypeInv'
<1>1. /\ GotoMenu(t) \/ Done(t)
      /\ UNCHANGED <<accounts, jobs, dialog, made, second, finished>>
      /\ groups' = [i \in DOMAIN groups \ {task[t].id} |-> groups[i]]
  BY DEF DropGroup
<1>2. \A o \in orphaned' : o \in orphaned \/ \E i \in DOMAIN groups : o = groups[i].of
  BY DEF DropGroup
<1>3. orphaned' \subseteq 1..made
  BY <1>2 DEF TypeInv, GroupRowsOK
<1>4. GroupRowsOK'
  BY <1>1 DEF TypeInv, GroupRowsOK
<1>. QED BY <1>1, <1>3, <1>4, HandlerEnds DEF TypeInv, JobRowsOK

(* Groups that keep their plan, and members and status that may change.    *)
LEMMA FinishFinishes ==
  ASSUME TypeInv, NEW t \in Task, FinishExpired(t)
  PROVE  /\ DOMAIN groups' = DOMAIN groups
         /\ \A i \in DOMAIN groups :
              /\ groups'[i] \in Saved
              /\ groups'[i].of = groups[i].of /\ groups'[i].comm = groups[i].comm
              /\ groups'[i].plan = groups[i].plan
              /\ groups'[i].status = groups[i].status \/ Expired(groups[i])
<1>1. groups' = [i \in DOMAIN groups |->
                   IF Expired(groups[i]) THEN [groups[i] EXCEPT !.status = "finished"]
                                         ELSE groups[i]]
  BY DEF FinishExpired
<1>2. \A i \in DOMAIN groups : groups[i] \in Saved
  BY DEF TypeInv, GroupRowsOK
<1>. QED BY <1>1, <1>2 DEF Saved

LEMMA FinishTyped ==
  ASSUME TypeInv, NEW t \in Task, FinishExpired(t)
  PROVE  /\ TypeInv'
         /\ \A s \in Task \ {t} : task'[s] = task[s]
         /\ task'[t].pc = "stop"
<1>. DEFINE over == {i \in DOMAIN groups : Expired(groups[i])}
            todo == {groups[i].comm : i \in over} \ {0}
            r == [NoTask EXCEPT !.pc = "stop", !.todo = todo]
<1>1. /\ task' = [task EXCEPT ![t] = r] /\ finished' = finished \union over
      /\ UNCHANGED <<accounts, jobs, dialog, made, second, orphaned>>
  BY DEF FinishExpired
<1>2. todo \in SUBSET Nat
  BY DEF TypeInv, GroupRowsOK, Saved
<1>3. finished' \subseteq 1..made
  BY <1>1 DEF TypeInv, GroupRowsOK
<1>. HIDE DEF todo
<1>4. r \in Tasks /\ r.of = 0 /\ r.comm = 0 /\ r.pc = "stop"
  BY <1>2, NoTaskIsTask DEF Tasks
<1>. HIDE DEF r
<1>5. r.of <= made /\ r.comm <= second
  BY <1>4 DEF TypeInv, CountsOK
<1>6. TasksOK' /\ CountsOK'
  BY <1>1, <1>4, <1>5, HandlerBecomes
<1>7. GroupRowsOK'
  BY <1>1, FinishFinishes DEF TypeInv, GroupRowsOK
<1>8. task'[t] = r /\ \A s \in Task \ {t} : task'[s] = task[s]
  BY <1>1 DEF TypeInv, TasksOK
<1>. QED BY <1>1, <1>3, <1>4, <1>6, <1>7, <1>8 DEF TypeInv, JobRowsOK

LEMMA StopTyped ==
  ASSUME TypeInv, NEW t \in Task, StopExpired(t)
  PROVE  /\ TypeInv'
         /\ \A s \in Task \ {t} : task'[s] = task[s]
         /\ task'[t].pc \in {"idle", "clear", "menu", "stop"}
         /\ UNCHANGED jobs \/ \E c : jobs' = CancelPendingForComm(jobs, c)
<1>1. UNCHANGED <<accounts, groups, dialog, made, second, finished, orphaned>>
  BY DEF StopExpired
<1>2. CASE Done(t) /\ UNCHANGED jobs
  BY <1>1, <1>2, HandlerEnds DEF TypeInv, GroupRowsOK, JobRowsOK
<1>3. ASSUME NEW c, jobs' = CancelPendingForComm(jobs, c),
             task' = [task EXCEPT ![t].todo = @ \ {c}]
      PROVE  /\ TypeInv'
             /\ \A s \in Task \ {t} : task'[s] = task[s]
             /\ task'[t].pc \in {"idle", "clear", "menu", "stop"}
  <2>. DEFINE r == [task[t] EXCEPT !.todo = @ \ {c}]
  <2>1. task[t] \in Tasks /\ task[t].pc = "stop" /\ task[t].of <= made /\ task[t].comm <= second
    BY DEF StopExpired, TypeInv, TasksOK
  <2>2. r \in Tasks /\ r.of = task[t].of /\ r.comm = task[t].comm /\ r.pc = "stop"
    BY <2>1 DEF Tasks
  <2>3. task' = [task EXCEPT ![t] = r]
    BY <1>3 DEF TypeInv, TasksOK
  <2>. HIDE DEF r
  <2>4. TasksOK' /\ CountsOK'
    BY <1>1, <2>1, <2>2, <2>3, HandlerBecomes
  <2>5. JobRowsOK'
    BY <1>1, <1>3, CancelEnds DEF TypeInv, JobRowsOK
  <2>6. task'[t] = r /\ \A s \in Task \ {t} : task'[s] = task[s]
    BY <2>3 DEF TypeInv, TasksOK
  <2>. QED BY <1>1, <2>2, <2>4, <2>5, <2>6 DEF TypeInv, GroupRowsOK
<1>4. (Done(t) /\ UNCHANGED jobs) \/ \E c : /\ jobs' = CancelPendingForComm(jobs, c)
                                         /\ task' = [task EXCEPT ![t].todo = @ \ {c}]
  BY DEF StopExpired
<1>5. CASE \E c : /\ jobs' = CancelPendingForComm(jobs, c)
                  /\ task' = [task EXCEPT ![t].todo = @ \ {c}]
  BY <1>3, <1>5
<1>6. CASE Done(t) /\ UNCHANGED jobs
  BY <1>2, <1>6, HandlerEnds
<1>. QED BY <1>2, <1>4, <1>5, <1>6

LEMMA FaultTyped ==
  ASSUME TypeInv, NEW t \in Task, Fault(t), Saving(t) => task[t].of \in 1..made
  PROVE  TypeInv'
<1>1. /\ Answer(t) \/ Done(t)
      /\ UNCHANGED <<accounts, groups, jobs, dialog, made, second, finished>>
      /\ orphaned' \subseteq 1..made
  BY DEF Fault, TypeInv
<1>. QED BY <1>1, HandlerEnds DEF TypeInv, GroupRowsOK, JobRowsOK

LEMMA RestartTyped ==
  ASSUME TypeInv, Restart, \A t \in Task : Saving(t) => task[t].of \in 1..made
  PROVE  TypeInv'
<1>1. /\ task' = [t \in Task |-> NoTask] /\ dialog' = [a \in Admin |-> NoPlan]
      /\ UNCHANGED <<accounts, groups, jobs, made, second, finished>>
      /\ orphaned' \subseteq 1..made
  BY DEF Restart, TypeInv
<1>2. TasksOK'
  BY <1>1, NoTaskIsTask DEF TypeInv, TasksOK, CountsOK
<1>3. About' \subseteq About
  BY <1>1, NoTaskIsTask DEF About
<1>4. CountsOK'
  BY <1>1, <1>3, CountsKept
<1>. QED BY <1>1, <1>2, <1>4, NoPlanIsPlan DEF TypeInv, GroupRowsOK, JobRowsOK

LEMMA DeleteKeeps ==
  ASSUME TypeInv, NEW x \in Account, DeleteAccount(x)
  PROVE  /\ DOMAIN groups' = DOMAIN groups
         /\ \A i \in DOMAIN groups :
              /\ groups'[i] \in Saved
              /\ groups'[i].of = groups[i].of /\ groups'[i].comm = groups[i].comm
              /\ groups'[i].plan = groups[i].plan
              /\ groups'[i].status = groups[i].status
<1>1. groups' = [i \in DOMAIN groups |-> [groups[i] EXCEPT !.members = @ \ {x}]]
  BY DEF DeleteAccount
<1>2. \A i \in DOMAIN groups : groups[i] \in Saved
  BY DEF TypeInv, GroupRowsOK
<1>. QED BY <1>1, <1>2 DEF Saved

LEMMA DeleteTyped ==
  ASSUME TypeInv, NEW x \in Account, DeleteAccount(x)
  PROVE  TypeInv'
<1>1. /\ UNCHANGED <<jobs, dialog, task, made, second, finished, orphaned>>
      /\ accounts' \subseteq accounts
  BY DEF DeleteAccount
<1>2. GroupRowsOK'
  BY <1>1, DeleteKeeps DEF TypeInv, GroupRowsOK
<1>. QED BY <1>1, <1>2 DEF TypeInv, JobRowsOK, TasksOK, CountsOK, About

LEMMA NothingTyped ==
  ASSUME TypeInv, UNCHANGED <<accounts, groups, jobs, dialog, task, made, second, finished, orphaned>>
  PROVE  TypeInv'
  BY DEF TypeInv, GroupRowsOK, JobRowsOK, TasksOK, CountsOK, About

------------------------------------------------------------------------------
(* What ties messages, handlers and rows together. A group that nothing    *)
(* orphaned is being saved, by one handler, whose row waits for its        *)
(* comm_id; or its messages are named by its row; or they are cancelled.   *)

OneRowEach ==
  \A i, j \in DOMAIN groups : groups[i].of = groups[j].of => i = j

SaverOK(t) ==
  /\ task[t].of \in 1..made
  /\ \A s \in Task : Saving(s) /\ task[s].of = task[t].of => s = t
  /\ \A k \in DOMAIN jobs : jobs[k].of = task[t].of => k[1] = task[t].comm
  /\ task[t].of \notin orphaned =>
       LET id == task[t].id
       IN  id \in DOMAIN groups /\ groups[id].of = task[t].of /\ groups[id].comm = 0

Stopping(t) ==
  /\ task[t].pc \in {"cancel", "drop"} /\ task[t].comm # 0
  /\ task[t].of \notin orphaned

(* Who stops a group found its comm_id: it was saved before, and after the *)
(* cancellation nothing of it is open.                                     *)
StopperOK(t) ==
  /\ task[t].of \in 1..made
  /\ \A s \in Task : Saving(s) => task[s].of # task[t].of
  /\ \A k \in OpenJobs(jobs) :
       jobs[k].of = task[t].of => task[t].pc = "cancel" /\ k[1] = task[t].comm

(* Messages are planned for the days of their group.                       *)
DaysOK ==
  /\ \A t \in Task : Saving(t) =>
       /\ \A id \in DOMAIN groups : groups[id].of = task[t].of => groups[id].plan = task[t].plan
       /\ task[t].pc = "insert" => task[t].day <= LastDay(task[t].plan)
  /\ \A id \in DOMAIN groups : \A k \in DOMAIN jobs :
       jobs[k].of = groups[id].of => k[2] <= LastDay(groups[id].plan)

Bond ==
  /\ OneRowEach
  /\ \A t \in Task : (Saving(t) => SaverOK(t)) /\ (Stopping(t) => StopperOK(t))
  /\ DaysOK
  /\ Stoppable

GroupsInv == TypeInv /\ Bond

LEMMA BondStarts == Init => Bond
  BY NoTaskIsTask DEF Init, Bond, OneRowEach, DaysOK, Stoppable, Saving, Stopping, OpenJobs

(* A step that saves nothing and removes no row: rows keep what ties them, *)
(* messages may be cancelled, and a handler that saves or stops a group    *)
(* goes on, or ends and orphans what it was saving.                        *)
LEMMA QuietStep ==
  ASSUME GroupsInv,
         DOMAIN groups' = DOMAIN groups,
         \A i \in DOMAIN groups : /\ groups'[i].of = groups[i].of
                                  /\ groups'[i].comm = groups[i].comm
                                  /\ groups'[i].plan = groups[i].plan,
         DOMAIN jobs' = DOMAIN jobs,
         \A k \in DOMAIN jobs : /\ jobs'[k].of = jobs[k].of
                                /\ jobs'[k].status \in OpenStatus => jobs[k].status \in OpenStatus,
         orphaned \subseteq orphaned',
         made' = made,
         \A t \in Task : \/ task'[t] = task[t]
                         \/ /\ task'[t].pc \notin {"insert", "comm", "cancel", "drop"}
                            /\ Saving(t) => task[t].of \in orphaned'
  PROVE  Bond'
<1>1. OneRowEach'
  BY DEF GroupsInv, Bond, OneRowEach
<1>2. \A t \in Task : Saving(t)' => Saving(t) /\ task'[t] = task[t]
  BY DEF Saving
<1>3. \A k \in OpenJobs(jobs') : k \in OpenJobs(jobs) /\ jobs'[k].of = jobs[k].of
  BY DEF OpenJobs
<1>4. ASSUME NEW t \in Task, Saving(t)'
      PROVE  SaverOK(t)'
  <2>1. SaverOK(t) /\ task'[t] = task[t]
    BY <1>2, <1>4 DEF GroupsInv, Bond
  <2>. QED BY <1>2, <2>1 DEF SaverOK
<1>5. ASSUME NEW t \in Task, Stopping(t)'
      PROVE  StopperOK(t)'
  <2>1. StopperOK(t) /\ task'[t] = task[t]
    BY <1>5 DEF GroupsInv, Bond, Stopping
  <2>. QED BY <1>2, <1>3, <2>1 DEF StopperOK
<1>6. DaysOK'
  <2>1. \A i \in DOMAIN groups : LastDay(groups'[i].plan) = LastDay(groups[i].plan)
    OBVIOUS
  <2>. QED BY <1>2, <2>1 DEF GroupsInv, Bond, DaysOK
<1>7. Stoppable'
  <2>. SUFFICES ASSUME NEW k \in OpenJobs(jobs')
                PROVE  \/ \E id \in DOMAIN groups' : groups'[id].of = jobs'[k].of /\ groups'[id].comm = k[1]
                       \/ \E t \in Task : Saving(t)' /\ task'[t].of = jobs'[k].of
                       \/ jobs'[k].of \in orphaned'
    BY DEF Stoppable
  <2>1. k \in OpenJobs(jobs) /\ jobs'[k].of = jobs[k].of
    BY <1>3
  <2>2. CASE \E id \in DOMAIN groups : groups[id].of = jobs[k].of /\ groups[id].comm = k[1]
    BY <2>1, <2>2
  <2>3. ASSUME NEW t \in Task, Saving(t), task[t].of = jobs[k].of
        PROVE  (Saving(t)' /\ task'[t].of = jobs'[k].of) \/ jobs'[k].of \in orphaned'
    BY <2>1, <2>3 DEF Saving
  <2>4. CASE jobs[k].of \in orphaned
    BY <2>1, <2>4
  <2>. QED BY <2>1, <2>2, <2>3, <2>4 DEF GroupsInv, Bond, Stoppable
<1>. QED BY <1>1, <1>4, <1>5, <1>6, <1>7 DEF Bond

LEMMA SaveBinds ==
  ASSUME GroupsInv, NEW t \in Task, SaveGroup(t), task[t].plan.members \subseteq accounts
  PROVE  Bond'
<1>. DEFINE o == made + 1
            plan == task[t].plan
            c == second'
<1>1. /\ made' = o /\ DOMAIN groups' = DOMAIN groups \union {NewId}
      /\ \A id \in DOMAIN groups : groups'[id] = groups[id]
      /\ groups'[NewId].of = o /\ groups'[NewId].comm = 0 /\ groups'[NewId].plan = plan
      /\ \A s \in Task \ {t} : task'[s] = task[s]
      /\ UNCHANGED <<jobs, orphaned>>
  <2>1. UNCHANGED <<jobs, orphaned>>
    BY DEF SaveGroup
  <2>. DEFINE row == [of |-> made + 1, members |-> plan.members, plan |-> plan,
                      comm |-> 0, status |-> "enabled"]
  <2>2. row.of = o /\ row.comm = 0 /\ row.plan = plan
    OBVIOUS
  <2>3. /\ made' = o /\ DOMAIN groups' = DOMAIN groups \union {NewId}
        /\ \A id \in DOMAIN groups : groups'[id] = groups[id]
        /\ groups'[NewId] = row
        /\ \A s \in Task \ {t} : task'[s] = task[s]
    BY SaveMakes DEF GroupsInv
  <2>. HIDE DEF row
  <2>. QED BY <2>1, <2>2, <2>3
<1>2. /\ task'[t].of = o /\ task'[t].comm = c /\ task'[t].id = NewId
      /\ task'[t].plan = plan /\ task'[t].pc = "insert" /\ task'[t].day = Day(plan.start)
  <2>. DEFINE day == Day(plan.start)
  <2>1. task'[t] = [task[t] EXCEPT !.pc = "insert", !.id = NewId, !.of = o, !.comm = c, !.day = day]
    BY SaveMakes DEF GroupsInv
  <2>2. task[t] \in Tasks
    BY DEF GroupsInv, TypeInv, TasksOK
  <2>. HIDE DEF o, c, day
  <2>3. /\ task'[t].of = o /\ task'[t].comm = c /\ task'[t].id = NewId
        /\ task'[t].plan = plan /\ task'[t].pc = "insert" /\ task'[t].day = day
    BY <2>1, <2>2 DEF Tasks
  <2>. QED BY <2>3 DEF day
<1>3. /\ made \in Nat /\ NewId \notin DOMAIN groups /\ task[t].pc = "save"
      /\ \A id \in DOMAIN groups : groups[id].of \in 1..made
      /\ \A k \in DOMAIN jobs : jobs[k].of \in 1..made
      /\ \A s \in Task : task[s].of <= made
      /\ orphaned \subseteq 1..made
  <2>1. NewId \notin DOMAIN groups
    BY NewIdIsNew DEF GroupsInv
  <2>. QED BY <2>1 DEF GroupsInv, TypeInv, CountsOK, GroupRowsOK, JobRowsOK, TasksOK, SaveGroup
<1>4. /\ o \in 1..o /\ o \notin orphaned /\ 1..made \subseteq 1..o
      /\ \A id \in DOMAIN groups : groups[id].of # o
      /\ \A k \in DOMAIN jobs : jobs[k].of # o
      /\ \A s \in Task : task[s].of # o
  BY <1>3
<1>5. plan \in Plans /\ Day(plan.start) <= LastDay(plan)
  <2>1. plan \in Plans
    BY DEF GroupsInv, TypeInv, TasksOK, Tasks
  <2>. QED BY <2>1, DaysAreNumbers
<1>. HIDE DEF o, c, plan
<1>6. OneRowEach'
  BY <1>1, <1>4 DEF GroupsInv, Bond, OneRowEach
<1>7. \A s \in Task : Saving(s)' => s = t \/ Saving(s)
  BY <1>1 DEF Saving
<1>8. ASSUME NEW s \in Task, Saving(s)'
      PROVE  SaverOK(s)'
  <2>1. CASE s = t
    BY <1>1, <1>2, <1>4, <1>7, <2>1 DEF SaverOK
  <2>2. CASE s # t
    <3>1. Saving(s) /\ SaverOK(s) /\ task'[s] = task[s]
      BY <1>1, <1>7, <1>8, <2>2 DEF GroupsInv, Bond
    <3>. QED BY <1>1, <1>2, <1>4, <1>7, <3>1 DEF SaverOK
  <2>. QED BY <2>1, <2>2
<1>9. ASSUME NEW s \in Task, Stopping(s)'
      PROVE  StopperOK(s)'
  <2>1. s # t /\ task'[s] = task[s]
    BY <1>1, <1>2, <1>9 DEF Stopping
  <2>2. StopperOK(s)
    BY <1>1, <1>9, <2>1 DEF Stopping, GroupsInv, Bond
  <2>. QED BY <1>1, <1>2, <1>4, <1>7, <2>1, <2>2 DEF StopperOK
<1>10. DaysOK'
  <2>1. ASSUME NEW s \in Task, Saving(s)'
        PROVE  /\ \A id \in DOMAIN groups' :
                    groups'[id].of = task'[s].of => groups'[id].plan = task'[s].plan
               /\ task'[s].pc = "insert" => task'[s].day <= LastDay(task'[s].plan)
    <3>1. CASE s = t
      BY <1>1, <1>2, <1>4, <1>5, <3>1
    <3>2. CASE s # t
      <4>1. Saving(s) /\ task'[s] = task[s]
        BY <1>1, <1>7, <2>1, <3>2
      <4>. QED BY <1>1, <1>4, <4>1 DEF GroupsInv, Bond, DaysOK
    <3>. QED BY <3>1, <3>2
  <2>2. \A id \in DOMAIN groups' : \A k \in DOMAIN jobs' :
          jobs'[k].of = groups'[id].of => k[2] <= LastDay(groups'[id].plan)
    BY <1>1, <1>4 DEF GroupsInv, Bond, DaysOK
  <2>. QED BY <2>1, <2>2 DEF DaysOK
<1>11. Stoppable'
  <2>1. \A s \in Task : Saving(s) => Saving(s)' /\ task'[s] = task[s]
    BY <1>1, <1>3 DEF Saving
  <2>. QED BY <1>1, <2>1 DEF GroupsInv, Bond, Stoppable
<1>. QED BY <1>6, <1>8, <1>9, <1>10, <1>11 DEF Bond

LEMMA InsertBinds ==
  ASSUME GroupsInv, NEW t \in Task, InsertDay(t)
  PROVE  Bond'
<1>. DEFINE o == task[t].of
            New == DOMAIN jobs' \ DOMAIN jobs
<1>1. /\ \A s \in Task \ {t} : task'[s] = task[s]
      /\ task[t].pc = "insert" /\ task'[t].pc \in {"insert", "comm"}
      /\ task'[t].of = o /\ task'[t].comm = task[t].comm
      /\ task'[t].id = task[t].id /\ task'[t].plan = task[t].plan
      /\ task'[t].pc = "insert" => task'[t].day = task[t].day + 1 /\ task[t].day < LastDay(task[t].plan)
  BY InsertMoves DEF GroupsInv
<1>2. /\ DOMAIN jobs \subseteq DOMAIN jobs'
      /\ \A k \in DOMAIN jobs : jobs'[k] = jobs[k]
      /\ \A k \in New : /\ k[1] = task[t].comm /\ k[2] = task[t].day
                        /\ jobs'[k].of = o /\ jobs'[k].status = "pending"
  BY InsertAdds DEF GroupsInv
<1>3. UNCHANGED <<groups, made, orphaned>>
  BY DEF InsertDay
<1>4. \A s \in Task : Saving(s)' <=> Saving(s)
  BY <1>1 DEF Saving
<1>5. Saving(t) /\ SaverOK(t)
  BY <1>1 DEF Saving, GroupsInv, Bond
<1>6. \A s \in Task : Saving(s) /\ s # t => task[s].of # o
  BY <1>5 DEF SaverOK
<1>7. \A s \in Task : /\ task'[s].of = task[s].of /\ task'[s].comm = task[s].comm
                      /\ task'[s].id = task[s].id /\ task'[s].plan = task[s].plan
  BY <1>1
<1>8. ASSUME NEW s \in Task, Saving(s)'
      PROVE  SaverOK(s)'
  <2>1. SaverOK(s)
    BY <1>4, <1>8 DEF GroupsInv, Bond
  <2>2. ASSUME NEW k \in DOMAIN jobs', jobs'[k].of = task[s].of
        PROVE  k[1] = task[s].comm
    BY <1>2, <1>4, <1>6, <1>8, <2>1, <2>2 DEF SaverOK
  <2>. QED BY <1>3, <1>4, <1>7, <2>1, <2>2 DEF SaverOK
<1>9. ASSUME NEW s \in Task, Stopping(s)'
      PROVE  StopperOK(s)'
  <2>1. s # t /\ task'[s] = task[s]
    BY <1>1, <1>9 DEF Stopping
  <2>2. StopperOK(s) /\ task[s].of # o
    BY <1>3, <1>5, <1>9, <2>1 DEF Stopping, StopperOK, GroupsInv, Bond
  <2>3. \A k \in OpenJobs(jobs') : jobs'[k].of = task[s].of => k \in OpenJobs(jobs) /\ jobs[k].of = task[s].of
    BY <1>2, <2>2 DEF OpenJobs
  <2>. QED BY <1>3, <1>4, <1>7, <2>1, <2>2, <2>3 DEF StopperOK
<1>10. DaysOK'
  <2>1. task[t].day <= LastDay(task[t].plan)
        /\ \A id \in DOMAIN groups : groups[id].of = o => groups[id].plan = task[t].plan
    BY <1>1, <1>5 DEF GroupsInv, Bond, DaysOK
  <2>2. task[t].day \in Int /\ LastDay(task[t].plan) \in Int
    BY DaysAreNumbers DEF GroupsInv, TypeInv, TasksOK, Tasks
  <2>3. task'[t].pc = "insert" => task'[t].day <= LastDay(task'[t].plan)
    BY <1>1, <2>2
  <2>4. ASSUME NEW s \in Task, Saving(s)'
        PROVE  /\ \A id \in DOMAIN groups' :
                    groups'[id].of = task'[s].of => groups'[id].plan = task'[s].plan
               /\ task'[s].pc = "insert" => task'[s].day <= LastDay(task'[s].plan)
    BY <1>1, <1>3, <1>4, <1>7, <2>3, <2>4 DEF GroupsInv, Bond, DaysOK
  <2>5. ASSUME NEW id \in DOMAIN groups', NEW k \in DOMAIN jobs', jobs'[k].of = groups'[id].of
        PROVE  k[2] <= LastDay(groups'[id].plan)
    <3>1. CASE k \in DOMAIN jobs
      BY <1>2, <1>3, <2>5, <3>1 DEF GroupsInv, Bond, DaysOK
    <3>2. CASE k \notin DOMAIN jobs
      BY <1>2, <1>3, <2>1, <2>5, <3>2
    <3>. QED BY <3>1, <3>2
  <2>. QED BY <2>4, <2>5 DEF DaysOK
<1>11. Stoppable'
  <2>. SUFFICES ASSUME NEW k \in OpenJobs(jobs')
                PROVE  \/ \E id \in DOMAIN groups' : groups'[id].of = jobs'[k].of /\ groups'[id].comm = k[1]
                       \/ \E s \in Task : Saving(s)' /\ task'[s].of = jobs'[k].of
                       \/ jobs'[k].of \in orphaned'
    BY DEF Stoppable
  <2>1. CASE k \in New
    BY <1>1, <1>2, <1>4, <1>5, <2>1
  <2>2. CASE k \notin New
    <3>1. k \in OpenJobs(jobs) /\ jobs'[k] = jobs[k]
      BY <1>2, <2>2 DEF OpenJobs
    <3>. QED BY <1>3, <1>4, <1>7, <3>1 DEF GroupsInv, Bond, Stoppable
  <2>. QED BY <2>1, <2>2
<1>12. OneRowEach'
  BY <1>3 DEF GroupsInv, Bond, OneRowEach
<1>. QED BY <1>8, <1>9, <1>10, <1>11, <1>12 DEF Bond

LEMMA SetCommBinds ==
  ASSUME GroupsInv, NEW t \in Task, SetCommId(t)
  PROVE  Bond'
<1>. DEFINE o == task[t].of
            at == task[t].id
<1>1. /\ \A s \in Task \ {t} : task'[s] = task[s]
      /\ task'[t].pc \in {"idle", "clear", "menu"}
      /\ UNCHANGED <<jobs, made>>
  <2>1. Answer(t) /\ UNCHANGED <<jobs, made, second>>
    BY DEF SetCommId
  <2>. QED BY <2>1, HandlerEnds DEF GroupsInv
<1>2. Saving(t) /\ SaverOK(t)
  BY DEF SetCommId, Saving, GroupsInv, Bond
<1>3. /\ DOMAIN groups' = DOMAIN groups /\ orphaned \subseteq orphaned'
      /\ \A i \in DOMAIN groups :
           /\ groups'[i].of = groups[i].of /\ groups'[i].plan = groups[i].plan
           /\ i # at => groups'[i].comm = groups[i].comm
           /\ i = at => /\ groups'[i].comm = task[t].comm
                        /\ groups[i].of # o => groups[i].of \in orphaned'
  <2>1. CASE at \notin DOMAIN groups
    BY <2>1 DEF SetCommId
  <2>2. CASE at \in DOMAIN groups
    <3>. DEFINE g == [groups[at] EXCEPT !.comm = task[t].comm]
    <3>1. groups[at] \in Saved
      BY <2>2 DEF GroupsInv, TypeInv, GroupRowsOK
    <3>2. g.of = groups[at].of /\ g.plan = groups[at].plan /\ g.comm = task[t].comm
      BY <3>1 DEF Saved
    <3>3. /\ DOMAIN groups' = DOMAIN groups /\ groups'[at] = g
          /\ \A i \in DOMAIN groups \ {at} : groups'[i] = groups[i]
          /\ orphaned' = orphaned \union ({groups[at].of} \ {o})
      BY <2>2 DEF SetCommId
    <3>. HIDE DEF g, at
    <3>. QED BY <3>2, <3>3
  <2>. QED BY <2>1, <2>2
<1>4. \A s \in Task : Saving(s)' <=> Saving(s) /\ s # t
  BY <1>1 DEF Saving
<1>5. OneRowEach'
  BY <1>3 DEF GroupsInv, Bond, OneRowEach
<1>6. ASSUME NEW s \in Task, Saving(s)'
      PROVE  SaverOK(s)'
  <2>1. s # t /\ SaverOK(s) /\ task'[s] = task[s] /\ task[s].of # o
    BY <1>1, <1>2, <1>4, <1>6 DEF SaverOK, GroupsInv, Bond
  <2>2. ASSUME task[s].of \notin orphaned'
        PROVE  /\ task[s].id \in DOMAIN groups'
               /\ groups'[task[s].id].of = task[s].of /\ groups'[task[s].id].comm = 0
    <3>1. /\ task[s].id \in DOMAIN groups
          /\ groups[task[s].id].of = task[s].of /\ groups[task[s].id].comm = 0
      BY <1>3, <2>1, <2>2 DEF SaverOK
    <3>2. task[s].id # at
      BY <1>3, <2>1, <2>2, <3>1
    <3>. QED BY <1>3, <3>1, <3>2
  <2>. QED BY <1>1, <1>4, <2>1, <2>2 DEF SaverOK
<1>7. ASSUME NEW s \in Task, Stopping(s)'
      PROVE  StopperOK(s)'
  <2>1. s # t /\ task'[s] = task[s]
    BY <1>1, <1>7 DEF Stopping
  <2>2. StopperOK(s)
    BY <1>3, <1>7, <2>1 DEF Stopping, GroupsInv, Bond
  <2>. QED BY <1>1, <1>4, <2>1, <2>2 DEF StopperOK
<1>8. DaysOK'
  <2>1. \A i \in DOMAIN groups : LastDay(groups'[i].plan) = LastDay(groups[i].plan)
    BY <1>3
  <2>. QED BY <1>1, <1>3, <1>4, <2>1 DEF GroupsInv, Bond, DaysOK
<1>9. Stoppable'
  <2>. SUFFICES ASSUME NEW k \in OpenJobs(jobs), jobs[k].of \notin orphaned'
                PROVE  \/ \E id \in DOMAIN groups' : groups'[id].of = jobs[k].of /\ groups'[id].comm = k[1]
                       \/ \E s \in Task : Saving(s)' /\ task'[s].of = jobs[k].of
    BY <1>1 DEF Stoppable
  <2>1. jobs[k].of = o => k[1] = task[t].comm
    BY <1>2 DEF SaverOK, OpenJobs
  <2>2. jobs[k].of = o => at \in DOMAIN groups /\ groups[at].of = o
    BY <1>2, <1>3 DEF SaverOK
  <2>3. CASE jobs[k].of = o
    BY <1>3, <2>1, <2>2, <2>3
  <2>4. CASE jobs[k].of # o
    <3>1. CASE \E s \in Task : Saving(s) /\ task[s].of = jobs[k].of
      BY <1>1, <1>4, <2>4, <3>1
    <3>2. CASE \E i \in DOMAIN groups : groups[i].of = jobs[k].of /\ groups[i].comm = k[1]
      BY <1>3, <2>4, <3>2
    <3>. QED BY <1>3, <3>1, <3>2 DEF GroupsInv, Bond, Stoppable
  <2>. QED BY <2>3, <2>4
<1>. QED BY <1>5, <1>6, <1>7, <1>8, <1>9 DEF Bond

LEMMA PressBinds ==
  ASSUME GroupsInv, NEW t \in Task, NEW id \in 1..made, NEW b \in {"delete", "complete"},
         Press(t, id, b)
  PROVE  Bond'
<1>1. UNCHANGED <<groups, jobs, made, orphaned>>
  BY DEF Press
<1>2. /\ \A s \in Task \ {t} : task'[s] = task[s]
      /\ task[t].pc = "idle" /\ task'[t].pc \in {"cancel", "drop"}
      /\ task'[t].pc = "drop" => task'[t].comm = 0
      /\ task'[t].comm # 0 => id \in DOMAIN groups /\ task'[t].of = groups[id].of
                                /\ task'[t].comm = groups[id].comm
  BY PressReads DEF GroupsInv
<1>3. \A s \in Task : Saving(s)' <=> Saving(s)
  BY <1>2 DEF Saving
<1>4. \A s \in Task : Saving(s) => task'[s] = task[s]
  BY <1>2 DEF Saving
<1>5. ASSUME NEW s \in Task, Saving(s)'
      PROVE  SaverOK(s)'
  <2>1. SaverOK(s)
    BY <1>3, <1>5 DEF GroupsInv, Bond
  <2>. QED BY <1>1, <1>3, <1>4, <1>5, <2>1 DEF SaverOK
<1>6. ASSUME NEW s \in Task, Stopping(s)'
      PROVE  StopperOK(s)'
  <2>1. CASE s # t
    <3>1. StopperOK(s) /\ task'[s] = task[s]
      BY <1>1, <1>2, <1>6, <2>1 DEF Stopping, GroupsInv, Bond
    <3>. QED BY <1>1, <1>3, <1>4, <3>1 DEF StopperOK
  <2>2. CASE s = t
    <3>. DEFINE o == groups[id].of
    <3>1. /\ id \in DOMAIN groups /\ task'[t].of = o /\ task'[t].comm = groups[id].comm
          /\ groups[id].comm # 0 /\ task'[t].pc = "cancel" /\ o \notin orphaned
      BY <1>1, <1>2, <1>6, <2>2 DEF Stopping
    <3>2. \A i \in DOMAIN groups : groups[i].of = o => i = id
      BY <3>1 DEF GroupsInv, Bond, OneRowEach
    <3>3. \A u \in Task : Saving(u) => task[u].of # o
      BY <3>1, <3>2 DEF GroupsInv, Bond, SaverOK
    <3>4. \A k \in OpenJobs(jobs) : jobs[k].of = o => k[1] = groups[id].comm
      BY <3>1, <3>2, <3>3 DEF GroupsInv, Bond, Stoppable
    <3>5. o \in 1..made
      BY <3>1 DEF GroupsInv, TypeInv, GroupRowsOK
    <3>. QED BY <1>1, <1>3, <1>4, <2>2, <3>1, <3>3, <3>4, <3>5 DEF StopperOK
  <2>. QED BY <2>1, <2>2
<1>7. DaysOK'
  BY <1>1, <1>3, <1>4 DEF GroupsInv, Bond, DaysOK
<1>8. Stoppable'
  BY <1>1, <1>3, <1>4 DEF GroupsInv, Bond, Stoppable
<1>9. OneRowEach'
  BY <1>1 DEF GroupsInv, Bond, OneRowEach
<1>. QED BY <1>5, <1>6, <1>7, <1>8, <1>9 DEF Bond

LEMMA CancelBinds ==
  ASSUME GroupsInv, NEW t \in Task, CancelGroup(t)
  PROVE  Bond'
<1>1. /\ jobs' = CancelPendingForComm(jobs, task[t].comm) /\ Goto(t, "drop")
      /\ task[t].pc = "cancel" /\ UNCHANGED <<groups, made, orphaned>>
  BY DEF CancelGroup
<1>2. /\ DOMAIN jobs' = DOMAIN jobs
      /\ \A k \in DOMAIN jobs :
           /\ jobs'[k].of = jobs[k].of
           /\ jobs'[k].status \in OpenStatus =>
                jobs[k].status \in OpenStatus /\ k[1] # task[t].comm
  BY <1>1, CancelEnds DEF GroupsInv, TypeInv
<1>3. /\ \A s \in Task \ {t} : task'[s] = task[s]
      /\ task'[t].pc = "drop" /\ task'[t].of = task[t].of /\ task'[t].comm = task[t].comm
  BY <1>1 DEF Goto, GroupsInv, TypeInv, TasksOK, Tasks
<1>4. \A s \in Task : Saving(s)' <=> Saving(s)
  BY <1>1, <1>3 DEF Saving
<1>5. \A s \in Task : Saving(s) => task'[s] = task[s]
  BY <1>1, <1>3 DEF Saving
<1>6. \A k \in OpenJobs(jobs') : k \in OpenJobs(jobs) /\ jobs'[k].of = jobs[k].of /\ k[1] # task[t].comm
  BY <1>2 DEF OpenJobs
<1>7. ASSUME NEW s \in Task, Saving(s)'
      PROVE  SaverOK(s)'
  <2>1. SaverOK(s)
    BY <1>4, <1>7 DEF GroupsInv, Bond
  <2>. QED BY <1>1, <1>2, <1>4, <1>5, <1>7, <2>1 DEF SaverOK
<1>8. ASSUME NEW s \in Task, Stopping(s)'
      PROVE  StopperOK(s)'
  <2>1. CASE s # t
    <3>1. StopperOK(s) /\ task'[s] = task[s]
      BY <1>1, <1>3, <1>8, <2>1 DEF Stopping, GroupsInv, Bond
    <3>. QED BY <1>1, <1>4, <1>5, <1>6, <3>1 DEF StopperOK
  <2>2. CASE s = t
    <3>1. StopperOK(t)
      BY <1>1, <1>3, <1>8, <2>2 DEF Stopping, GroupsInv, Bond
    <3>. QED BY <1>1, <1>3, <1>4, <1>5, <1>6, <2>2, <3>1 DEF StopperOK
  <2>. QED BY <2>1, <2>2
<1>9. DaysOK'
  BY <1>1, <1>2, <1>4, <1>5 DEF GroupsInv, Bond, DaysOK
<1>10. Stoppable'
  BY <1>1, <1>4, <1>5, <1>6 DEF GroupsInv, Bond, Stoppable
<1>11. OneRowEach'
  BY <1>1 DEF GroupsInv, Bond, OneRowEach
<1>. QED BY <1>7, <1>8, <1>9, <1>10, <1>11 DEF Bond

LEMMA DropBinds ==
  ASSUME GroupsInv, NEW t \in Task, DropGroup(t)
  PROVE  Bond'
<1>. DEFINE o == task[t].of
            at == task[t].id
<1>1. /\ \A s \in Task \ {t} : task'[s] = task[s]
      /\ task'[t].pc \in {"idle", "clear", "menu"} /\ task[t].pc = "drop"
      /\ UNCHANGED <<jobs, made>>
  <2>1. (GotoMenu(t) \/ Done(t)) /\ UNCHANGED <<jobs, made, second>> /\ task[t].pc = "drop"
    BY DEF DropGroup
  <2>. QED BY <2>1, HandlerEnds DEF GroupsInv
<1>2. /\ DOMAIN groups' = DOMAIN groups \ {at}
      /\ \A i \in DOMAIN groups' : groups'[i] = groups[i]
      /\ orphaned \subseteq orphaned'
      /\ at \in DOMAIN groups /\ (groups[at].of # o \/ task[t].comm = 0) =>
           groups[at].of \in orphaned'
  BY DEF DropGroup
<1>3. \A s \in Task : (Saving(s)' <=> Saving(s)) /\ (Saving(s) => task'[s] = task[s])
  BY <1>1 DEF Saving
(* A row that goes is the one the handler has stopped, or orphans a group. *)
<1>4. at \in DOMAIN groups /\ groups[at].of \notin orphaned' =>
        /\ groups[at].of = o /\ StopperOK(t)
  BY <1>1, <1>2 DEF GroupsInv, Bond, Stopping
<1>5. ASSUME NEW s \in Task, Saving(s)'
      PROVE  SaverOK(s)'
  <2>1. Saving(s) /\ SaverOK(s) /\ task'[s] = task[s]
    BY <1>3, <1>5 DEF GroupsInv, Bond
  <2>2. ASSUME task[s].of \notin orphaned'
        PROVE  /\ task[s].id \in DOMAIN groups'
               /\ groups'[task[s].id].of = task[s].of /\ groups'[task[s].id].comm = 0
    <3>1. /\ task[s].id \in DOMAIN groups
          /\ groups[task[s].id].of = task[s].of /\ groups[task[s].id].comm = 0
      BY <1>2, <2>1, <2>2 DEF SaverOK
    <3>2. task[s].id # at
      BY <1>4, <2>1, <2>2, <3>1 DEF StopperOK
    <3>. QED BY <1>2, <3>1, <3>2
  <2>. QED BY <1>1, <1>3, <2>1, <2>2 DEF SaverOK
<1>6. ASSUME NEW s \in Task, Stopping(s)'
      PROVE  StopperOK(s)'
  <2>1. s # t /\ task'[s] = task[s]
    BY <1>1, <1>6 DEF Stopping
  <2>2. StopperOK(s)
    BY <1>2, <1>6, <2>1 DEF Stopping, GroupsInv, Bond
  <2>. QED BY <1>1, <1>3, <2>1, <2>2 DEF StopperOK
<1>7. DaysOK'
  <2>1. \A i \in DOMAIN groups' : i \in DOMAIN groups /\ groups'[i] = groups[i]
    BY <1>2
  <2>. QED BY <1>1, <1>3, <2>1 DEF GroupsInv, Bond, DaysOK
<1>8. Stoppable'
  <2>. SUFFICES ASSUME NEW k \in OpenJobs(jobs), jobs[k].of \notin orphaned'
                PROVE  \/ \E id \in DOMAIN groups' : groups'[id].of = jobs[k].of /\ groups'[id].comm = k[1]
                       \/ \E s \in Task : Saving(s)' /\ task'[s].of = jobs[k].of
    BY <1>1 DEF Stoppable
  <2>1. at \in DOMAIN groups => groups[at].of # jobs[k].of
    BY <1>1, <1>4 DEF StopperOK
  <2>. QED BY <1>2, <1>3, <2>1 DEF GroupsInv, Bond, Stoppable
<1>9. OneRowEach'
  BY <1>2 DEF GroupsInv, Bond, OneRowEach
<1>. QED BY <1>5, <1>6, <1>7, <1>8, <1>9 DEF Bond

------------------------------------------------------------------------------
(* All steps together.                                                     *)

LEMMA NothingBinds ==
  ASSUME GroupsInv, UNCHANGED <<groups, jobs, task, made, orphaned>>
  PROVE  Bond'
  BY QuietStep DEF GroupsInv, TypeInv

LEMMA GroupsInvKept ==
  ASSUME GroupsInv, [Next]_vars
  PROVE  GroupsInv'
<1>1. \A t \in Task : Saving(t) => task[t].of \in 1..made
  BY DEF GroupsInv, Bond, SaverOK
<1>2. ASSUME NEW a \in Admin,
             \/ OpenDialogue(a) \/ Reset(a)
             \/ \E x \in Account : Toggle(a, x)
             \/ \E i \in StartTime : PickTime(a, i)
             \/ \E n \in 1..MaxDays : PickDays(a, n)
      PROVE  GroupsInv'
  <2>1. UNCHANGED <<groups, jobs, task, made, orphaned>>
    BY <1>2 DEF OpenDialogue, Reset, Toggle, PickTime, PickDays, SetDialog
  <2>. QED BY <1>2, <2>1, DialoguesTyped, NothingBinds DEF GroupsInv
<1>3. ASSUME NEW t \in Task, NEW a \in Admin, Confirm(t, a)
      PROVE  GroupsInv'
  <2>1. /\ UNCHANGED <<groups, jobs, made, orphaned>>
        /\ \A s \in Task : task'[s] = task[s] \/ (task'[s].pc = "save" /\ ~Saving(s))
    <3>1. CASE UNCHANGED task
      BY <1>3, <3>1 DEF Confirm
    <3>2. CASE task' = [task EXCEPT ![t] = [NoTask EXCEPT !.pc = "save", !.admin = a,
                                                         !.plan = dialog[a]]]
      <4>. DEFINE r == [NoTask EXCEPT !.pc = "save", !.admin = a, !.plan = dialog[a]]
      <4>1. r.pc = "save"
        BY NoTaskIsTask DEF Tasks
      <4>. HIDE DEF r
      <4>. QED BY <1>3, <3>2, <4>1 DEF Confirm, Idle, Saving, GroupsInv, TypeInv, TasksOK
    <3>. QED BY <1>3, <3>1, <3>2 DEF Confirm
  <2>. QED BY <1>3, <2>1, ConfirmTyped, QuietStep DEF GroupsInv
<1>4. ASSUME NEW t \in Task, ClearDialog(t) \/ \E a \in Admin : OpenMenu(t, a)
      PROVE  GroupsInv'
  <2>1. /\ UNCHANGED <<groups, jobs, made, second, orphaned>> /\ ~Saving(t)
        /\ Done(t) \/ GotoMenu(t)
    BY <1>4 DEF OpenMenu, ClearDialog, Idle, Saving
  <2>2. \A s \in Task : task'[s] = task[s] \/ (task'[s].pc \in {"idle", "clear", "menu"} /\ ~Saving(s))
    BY <2>1, HandlerEnds DEF GroupsInv
  <2>. QED BY <1>4, <2>1, <2>2, LittleTyped, QuietStep DEF GroupsInv
<1>5. ASSUME NEW t \in Task, SaveGroup(t)
      PROVE  GroupsInv'
  <2>1. CASE task[t].plan.members \subseteq accounts
    BY <1>5, <2>1, SaveTyped, SaveBinds DEF GroupsInv
  <2>2. CASE ~(task[t].plan.members \subseteq accounts)
    <3>1. /\ UNCHANGED <<groups, jobs, made, second, orphaned>> /\ Answer(t) /\ ~Saving(t)
      BY <1>5, <2>2 DEF SaveGroup, Saving
    <3>2. \A s \in Task : task'[s] = task[s] \/ (task'[s].pc \in {"idle", "clear", "menu"} /\ ~Saving(s))
      BY <3>1, HandlerEnds DEF GroupsInv
    <3>. QED BY <1>5, <3>1, <3>2, SaveTyped, QuietStep DEF GroupsInv
  <2>. QED BY <2>1, <2>2
<1>6. ASSUME NEW t \in Task, InsertDay(t)
      PROVE  GroupsInv'
  <2>1. task[t].of \in 1..made
    BY <1>1, <1>6 DEF InsertDay, Saving
  <2>. QED BY <1>6, <2>1, InsertTyped, InsertBinds DEF GroupsInv
<1>7. ASSUME NEW t \in Task, SetCommId(t)
      PROVE  GroupsInv'
  <2>1. task[t].of \in 1..made
    BY <1>1, <1>7 DEF SetCommId, Saving
  <2>. QED BY <1>7, <2>1, SetCommTyped, SetCommBinds DEF GroupsInv
<1>8. ASSUME NEW t \in Task, NEW id \in 1..made, NEW b \in {"delete", "complete"}, Press(t, id, b)
      PROVE  GroupsInv'
  BY <1>8, PressTyped, PressBinds DEF GroupsInv
<1>9. ASSUME NEW t \in Task, CancelGroup(t)
      PROVE  GroupsInv'
  BY <1>9, CancelTyped, CancelBinds DEF GroupsInv
<1>10. ASSUME NEW t \in Task, DropGroup(t)
       PROVE  GroupsInv'
  BY <1>10, DropTyped, DropBinds DEF GroupsInv
<1>11. ASSUME NEW t \in Task, FinishExpired(t)
       PROVE  GroupsInv'
  <2>1. UNCHANGED <<jobs, made, orphaned>> /\ ~Saving(t)
    BY <1>11 DEF FinishExpired, Saving
  <2>2. TypeInv' /\ \A s \in Task : task'[s] = task[s] \/ (task'[s].pc = "stop" /\ ~Saving(s))
    BY <1>11, <2>1, FinishTyped DEF GroupsInv
  <2>. QED BY <1>11, <2>1, <2>2, FinishFinishes, QuietStep DEF GroupsInv
<1>12. ASSUME NEW t \in Task, StopExpired(t)
       PROVE  GroupsInv'
  <2>1. UNCHANGED <<groups, made, orphaned>> /\ ~Saving(t)
    BY <1>12 DEF StopExpired, Saving
  <2>2. /\ TypeInv'
        /\ \A s \in Task : \/ task'[s] = task[s]
                          \/ (task'[s].pc \in {"idle", "clear", "menu", "stop"} /\ ~Saving(s))
    BY <1>12, <2>1, StopTyped DEF GroupsInv
  <2>3. /\ DOMAIN jobs' = DOMAIN jobs
        /\ \A k \in DOMAIN jobs : /\ jobs'[k].of = jobs[k].of
                                  /\ jobs'[k].status \in OpenStatus => jobs[k].status \in OpenStatus
    <3>1. UNCHANGED jobs \/ \E c : jobs' = CancelPendingForComm(jobs, c)
      BY <1>12, StopTyped DEF GroupsInv
    <3>. QED BY <3>1, CancelEnds DEF GroupsInv, TypeInv
  <2>. QED BY <2>1, <2>2, <2>3, QuietStep DEF GroupsInv
<1>13. ASSUME NEW t \in Task, Fault(t)
       PROVE  GroupsInv'
  <2>1. /\ UNCHANGED <<groups, jobs, made, second>> /\ orphaned \subseteq orphaned'
        /\ Answer(t) \/ Done(t)
        /\ Saving(t) => task[t].of \in orphaned'
    BY <1>13 DEF Fault
  <2>2. \A s \in Task : \/ task'[s] = task[s]
                        \/ /\ task'[s].pc \in {"idle", "clear", "menu"}
                           /\ Saving(s) => task[s].of \in orphaned'
    BY <2>1, HandlerEnds DEF GroupsInv
  <2>. QED BY <1>1, <1>13, <2>1, <2>2, FaultTyped, QuietStep DEF GroupsInv
<1>14. ASSUME Restart
       PROVE  GroupsInv'
  <2>1. /\ UNCHANGED <<groups, jobs, made>> /\ orphaned \subseteq orphaned'
        /\ \A s \in Task : task'[s].pc = "idle" /\ (Saving(s) => task[s].of \in orphaned')
    BY <1>14, NoTaskIsTask DEF Restart
  <2>. QED BY <1>1, <1>14, <2>1, RestartTyped, QuietStep DEF GroupsInv
<1>15. ASSUME NEW x \in Account, DeleteAccount(x)
       PROVE  GroupsInv'
  <2>1. UNCHANGED <<jobs, made, orphaned, task>>
    BY <1>15 DEF DeleteAccount
  <2>. QED BY <1>15, <2>1, DeleteTyped, DeleteKeeps, QuietStep DEF GroupsInv
<1>16. ASSUME Tick \/ UNCHANGED vars
       PROVE  GroupsInv'
  <2>1. UNCHANGED <<accounts, groups, jobs, dialog, task, made, second, finished, orphaned>>
    BY <1>16 DEF Tick, vars
  <2>. QED BY <2>1, NothingTyped, NothingBinds DEF GroupsInv
<1>17. \/ \E a \in Admin :
            \/ OpenDialogue(a) \/ Reset(a)
            \/ \E x \in Account : Toggle(a, x)
            \/ \E i \in StartTime : PickTime(a, i)
            \/ \E n \in 1..MaxDays : PickDays(a, n)
       \/ \E t \in Task, a \in Admin : Confirm(t, a) \/ OpenMenu(t, a)
       \/ \E t \in Task : SaveGroup(t) \/ InsertDay(t) \/ SetCommId(t) \/ CancelGroup(t)
       \/ \E t \in Task : DropGroup(t) \/ FinishExpired(t) \/ StopExpired(t) \/ Fault(t)
       \/ \E t \in Task : ClearDialog(t)
       \/ \E t \in Task, id \in 1..made, b \in {"delete", "complete"} : Press(t, id, b)
       \/ Restart
       \/ \E x \in Account : DeleteAccount(x)
       \/ Tick \/ UNCHANGED vars
  BY DEF Next
<1>18. CASE \E t \in Task : SaveGroup(t) \/ InsertDay(t) \/ SetCommId(t) \/ CancelGroup(t)
  BY <1>5, <1>6, <1>7, <1>9, <1>18
<1>19. CASE \E t \in Task : DropGroup(t) \/ FinishExpired(t) \/ StopExpired(t) \/ Fault(t)
  BY <1>10, <1>11, <1>12, <1>13, <1>19
<1>20. CASE \E t \in Task, a \in Admin : Confirm(t, a) \/ OpenMenu(t, a)
  BY <1>3, <1>4, <1>20
<1>. QED BY <1>2, <1>4, <1>8, <1>14, <1>15, <1>16, <1>17, <1>18, <1>19, <1>20

LEMMA GroupsInvHolds == Spec => []GroupsInv
<1>1. Init => GroupsInv
  BY TypeStarts, BondStarts DEF GroupsInv
<1>2. GroupsInv /\ [Next]_vars => GroupsInv'
  BY GroupsInvKept
<1>. QED BY <1>1, <1>2, PTL DEF Spec

(* Rows, messages, dialogues and handlers keep their types, and no more    *)
(* than MaxGroups groups are made, however many handlers there are.        *)
THEOREM GroupsTyped == Spec => []GroupsTypeOK
<1>1. GroupsInv => GroupsTypeOK
  BY TypeEnough DEF GroupsInv
<1>. QED BY <1>1, GroupsInvHolds, PTL

(* A message that still runs is named by the row of its group, or about to *)
(* be, or its group was orphaned in one of the four ways that the actions  *)
(* record: no interleaving of saving, stopping and finishing has a fifth.  *)
THEOREM EveryGroupStoppable == Spec => []Stoppable
<1>1. GroupsInv => Stoppable
  BY DEF GroupsInv, Bond
<1>. QED BY <1>1, GroupsInvHolds, PTL

(* Only the menu finishes a group, and only one that has expired.          *)
LEMMA OnlyExpiredFinish ==
  ASSUME GroupsInv, Next, NEW id \in DOMAIN groups \intersect DOMAIN groups'
  PROVE  groups'[id].status = groups[id].status \/ Expired(groups[id])
<1>1. CASE UNCHANGED groups
  BY <1>1
<1>2. ASSUME NEW t \in Task, SaveGroup(t), ~UNCHANGED groups
      PROVE  groups'[id] = groups[id]
  BY <1>2, SaveMakes DEF SaveGroup, GroupsInv
<1>3. ASSUME NEW t \in Task, SetCommId(t), ~UNCHANGED groups
      PROVE  groups'[id].status = groups[id].status
  <2>1. groups' = [groups EXCEPT ![task[t].id].comm = task[t].comm]
    BY <1>3 DEF SetCommId
  <2>2. groups[id] \in Saved
    BY DEF GroupsInv, TypeInv, GroupRowsOK
  <2>3. [groups[id] EXCEPT !.comm = task[t].comm].status = groups[id].status
    BY <2>2 DEF Saved
  <2>4. groups'[id] = groups[id] \/ groups'[id] = [groups[id] EXCEPT !.comm = task[t].comm]
    BY <2>1
  <2>. QED BY <2>3, <2>4
<1>4. ASSUME NEW t \in Task, DropGroup(t)
      PROVE  groups'[id] = groups[id]
  BY <1>4 DEF DropGroup
<1>5. ASSUME NEW t \in Task, FinishExpired(t)
      PROVE  groups'[id].status = groups[id].status \/ Expired(groups[id])
  BY <1>5, FinishFinishes DEF GroupsInv
<1>6. ASSUME NEW x \in Account, DeleteAccount(x)
      PROVE  groups'[id].status = groups[id].status
  BY <1>6, DeleteKeeps DEF GroupsInv
<1>7. \/ UNCHANGED groups
      \/ \E t \in Task : SaveGroup(t) \/ SetCommId(t) \/ DropGroup(t) \/ FinishExpired(t)
      \/ \E x \in Account : DeleteAccount(x)
  BY DEF Next, OpenDialogue, Reset, Toggle, PickTime, PickDays, SetDialog, Confirm, OpenMenu,
         InsertDay, ClearDialog, Press, CancelGroup, StopExpired, Fault, Restart, Tick
<1>. QED BY <1>1, <1>2, <1>3, <1>4, <1>5, <1>6, <1>7

ClockOK == clock \in Nat

LEMMA ClockIsTime == Spec => []ClockOK
<1>1. Init => ClockOK
  BY DEF Init, ClockOK
<1>2. ClockOK /\ [Next]_vars => ClockOK'
  <2>. SUFFICES ASSUME ClockOK, [Next]_vars
                PROVE  ClockOK'
    OBVIOUS
  <2>1. clock' = clock \/ Tick
    BY DEF Next, vars, OpenDialogue, Reset, Toggle, PickTime, PickDays, SetDialog, Confirm,
           OpenMenu, SaveGroup, InsertDay, SetCommId, ClearDialog, Press, CancelGroup, DropGroup,
           FinishExpired, StopExpired, Fault, Restart, DeleteAccount
  <2>. QED BY <2>1, GroupsAssumption DEF Tick, ClockOK
<1>. QED BY <1>1, <1>2, PTL DEF Spec

(* The menu never finishes a group that has a message for today or later.  *)
THEOREM OnlyOldGroupsFinish == Spec => FinishedIsOver
<1>. DEFINE Over ==
       \A id \in DOMAIN groups \intersect DOMAIN groups' :
         groups[id].status = "enabled" /\ groups'[id].status = "finished" =>
           \A k \in OpenJobs(jobs) : jobs[k].of = groups[id].of => k[2] < Day(clock)
<1>1. GroupsInv /\ ClockOK /\ [Next]_vars => [Over]_vars
  <2>. SUFFICES ASSUME GroupsInv, ClockOK, Next,
                       NEW id \in DOMAIN groups \intersect DOMAIN groups',
                       groups[id].status = "enabled", groups'[id].status = "finished",
                       NEW k \in OpenJobs(jobs), jobs[k].of = groups[id].of
                PROVE  k[2] < Day(clock)
    OBVIOUS
  <2>1. Expired(groups[id])
    BY OnlyExpiredFinish
  <2>2. LastDay(groups[id].plan) < Day(clock)
    BY <2>1 DEF Expired
  <2>3. k \in DOMAIN jobs /\ k[2] <= LastDay(groups[id].plan)
    BY DEF GroupsInv, Bond, DaysOK, OpenJobs
  <2>4. k[2] \in Int /\ groups[id].plan \in Plans
    BY <2>3 DEF GroupsInv, TypeInv, JobRowsOK, GroupRowsOK, Saved
  <2>5. LastDay(groups[id].plan) \in Int
    BY <2>4, DaysAreNumbers
  <2>6. Day(clock) \in Int
    BY RingsAssumption DEF Day, ClockOK
  <2>. QED BY <2>2, <2>3, <2>4, <2>5, <2>6
<1>. QED BY <1>1, GroupsInvHolds, ClockIsTime, PTL DEF Spec, FinishedIsOver

------------------------------------------------------------------------------
(* Complete plans. A day of a handler that saves a group is complete once  *)
(* its transaction is done, as the plan that was checked fits its window   *)
(* on every day; no later step removes a message, and the row gets the     *)
(* comm_id when the last day is done.                                      *)

DayFull(c, d, plan) ==
  Cardinality(OfDay(jobs, c, d)) >= DayMessages(Cardinality(plan.members)) - 1

(* The days whose transaction is done.                                     *)
Inserted(t) ==
  Day(task[t].plan.start)..(IF task[t].pc = "insert" THEN task[t].day - 1
                                                     ELSE LastDay(task[t].plan))

SaverFull(t) ==
  /\ ValidPlan(task[t].plan)
  /\ task[t].pc = "insert" => Day(task[t].plan.start) <= task[t].day
  /\ \A d \in Inserted(t) : DayFull(task[t].comm, d, task[t].plan)

RowFull(id) ==
  /\ ValidPlan(groups[id].plan)
  /\ groups[id].comm # 0 /\ groups[id].of \notin orphaned =>
       \A d \in Day(groups[id].plan.start)..LastDay(groups[id].plan) :
         DayFull(groups[id].comm, d, groups[id].plan)

FullInv ==
  /\ IsFiniteSet(DOMAIN jobs)
  /\ \A t \in Task : /\ task[t].pc = "save" => ValidPlan(task[t].plan)
                     /\ Saving(t) => SaverFull(t)
  /\ \A id \in DOMAIN groups : RowFull(id)

LEMMA FullEnough == FullInv => FullPlan
  BY DEF FullInv, RowFull, FullPlan, DayFull

LEMMA FullStarts == Init => FullInv
<1>1. Init => \A t \in Task : task[t].pc = "idle"
  BY NoTaskIsTask DEF Init
<1>. QED BY <1>1, FS_EmptySet DEF Init, FullInv, Saving

LEMMA DayMessagesType ==
  ASSUME NEW plan \in Plans, ValidPlan(plan)
  PROVE  DayMessages(Cardinality(plan.members)) \in Nat
<1>. DEFINE size == Cardinality(plan.members)
            ring == [i \in 1..size |-> i]
<1>1. size \in Nat
  BY GroupsAssumption DEF ValidPlan
<1>. HIDE DEF size
<1>2. ring \in Seq(Nat)
  BY <1>1
<1>. HIDE DEF ring
<1>3. MessageCount(ring) \in Nat
  BY <1>2, MessageType
<1>. QED BY <1>3 DEF DayMessages, size, ring

(* A plan that passed the checks fits the window on each of its days: the  *)
(* first by its start, the others because the second does.                 *)
LEMMA EveryDayFits ==
  ASSUME NEW plan \in Plans, ValidPlan(plan), NEW d \in Day(plan.start)..LastDay(plan)
  PROVE  /\ StartOn(plan, d) \in Nat /\ Day(StartOn(plan, d)) = d
         /\ StartAllowed(StartOn(plan, d), DayMessages(Cardinality(plan.members)))
<1>. DEFINE n == DayMessages(Cardinality(plan.members))
            first == Day(plan.start)
<1>1. plan.start \in Nat /\ plan.days \in Nat
  <2>1. plan.start \in StartTime \union {NoStart} /\ plan.days \in 1..MaxDays
    BY DEF Plans
  <2>2. plan.start # NoStart
    BY DEF ValidPlan
  <2>. DEFINE start == plan.start
              days == plan.days
  <2>. HIDE DEF start, days
  <2>3. start \in StartTime /\ days \in 1..MaxDays
    BY <2>1, <2>2 DEF start, days
  <2>4. start \in Nat /\ days \in Nat
    BY <2>3, GroupsAssumption
  <2>. QED BY <2>4 DEF start, days
<1>2. first \in Nat /\ first * DayLength <= plan.start
  BY <1>1, RingsAssumption DEF Day
<1>3. n \in Nat
  BY DayMessagesType
<1>4. StartAllowed(plan.start, n) /\ (plan.days > 1 => StartAllowed(DayStart(first + 1), n))
  BY DEF ValidPlan, Fits
<1>5. LastDay(plan) = first + plan.days - 1 /\ LastDay(plan) \in Int
  BY <1>1, <1>2, DaysAreNumbers DEF LastDay
<1>. HIDE DEF n, first
<1>6. CASE d = first
  BY <1>1, <1>4, <1>6 DEF StartOn, first, n
<1>7. CASE d # first
  <2>1. d \in Nat /\ plan.days > 1
    BY <1>1, <1>2, <1>5, <1>7 DEF first
  <2>2. StartAllowed(DayStart(d), n) /\ Day(DayStart(d)) = d
    <3>1. first + 1 \in Nat /\ StartAllowed(DayStart(first + 1), n)
      BY <1>2, <1>4, <2>1
    <3>. QED BY <1>3, <2>1, <3>1, OpeningOfAnyDay
  <2>3. DayStart(d) \in Nat
    BY <2>1, RingsAssumption DEF DayStart
  <2>4. StartOn(plan, d) = DayStart(d)
    BY <1>7 DEF StartOn, first
  <2>. QED BY <2>2, <2>3, <2>4 DEF n
<1>. QED BY <1>6, <1>7

(* The table only grows.                                                   *)
LEMMA DayStaysFull ==
  ASSUME IsFiniteSet(DOMAIN jobs), IsFiniteSet(DOMAIN jobs'), DOMAIN jobs \subseteq DOMAIN jobs',
         NEW c, NEW d, NEW plan \in Plans, ValidPlan(plan),
         Cardinality(OfDay(jobs, c, d)) >= DayMessages(Cardinality(plan.members)) - 1
  PROVE  Cardinality(OfDay(jobs', c, d)) >= DayMessages(Cardinality(plan.members)) - 1
<1>1. OfDay(jobs, c, d) \subseteq OfDay(jobs', c, d)
  BY DEF OfDay
<1>2. IsFiniteSet(OfDay(jobs, c, d)) /\ IsFiniteSet(OfDay(jobs', c, d))
  BY FS_Subset DEF OfDay
<1>3. Cardinality(OfDay(jobs, c, d)) <= Cardinality(OfDay(jobs', c, d))
  BY <1>1, <1>2, FS_Subset
<1>4. Cardinality(OfDay(jobs, c, d)) \in Nat /\ Cardinality(OfDay(jobs', c, d)) \in Nat
  BY <1>2, FS_CardinalityType
<1>. QED BY <1>3, <1>4, DayMessagesType

(* The transaction of a day: all messages but at most the last are in the  *)
(* table then, whoever inserted them.                                      *)
LEMMA InsertFillsDay ==
  ASSUME GroupsInv, FullInv, NEW t \in Task, InsertDay(t)
  PROVE  IsFiniteSet(DOMAIN jobs') /\ 
         Cardinality(OfDay(jobs', task[t].comm, task[t].day))
           >= DayMessages(Cardinality(task[t].plan.members)) - 1
<1>. DEFINE plan == task[t].plan
            d == task[t].day
            c == task[t].comm
            n == DayMessages(Cardinality(plan.members))
            start == StartOn(plan, d)
<1>1. task[t].pc = "insert" /\ Saving(t) /\ task'[t].plan = plan /\ task'[t].comm = c
  BY InsertMoves DEF GroupsInv, Saving
<1>2. plan \in Plans /\ d \in Int
  BY DEF GroupsInv, TypeInv, TasksOK, Tasks
<1>3. ValidPlan(plan) /\ d \in Day(plan.start)..LastDay(plan)
  <2>1. Day(plan.start) <= d /\ d <= LastDay(plan) /\ ValidPlan(plan)
    BY <1>1 DEF FullInv, SaverFull, GroupsInv, Bond, DaysOK
  <2>. QED BY <1>2, <2>1, DaysAreNumbers
<1>4. start \in Nat /\ Day(start) = d /\ StartAllowed(start, n) /\ n \in Nat
  BY <1>2, <1>3, EveryDayFits, DayMessagesType
<1>5. PICK at \in Schedules(start, n), m \in 0..n :
        /\ KeptInWindow(at, n, d, m)
        /\ jobs' = InsertOrIgnore(jobs, [k \in {<<c, d, i>> : i \in 1..m} |->
                                           [of |-> task[t].of, status |-> "pending"]])
  BY DEF InsertDay
<1>. DEFINE keys == {<<c, d, i>> : i \in 1..m}
<1>. HIDE DEF plan, c, d, n, start
<1>6. m \in Nat /\ m >= n - 1
  BY <1>4, <1>5, AcceptedDayKeeps
<1>7. IsFiniteSet(keys) /\ Cardinality(keys) = m
  <2>1. m \in Nat
    BY <1>6
  <2>2. ASSUME NEW x, NEW y, NEW rows, rows = {<<x, y, i>> : i \in 1..m}
        PROVE  IsFiniteSet(rows) /\ Cardinality(rows) = m
    <3>1. \A k : k \in rows <=> \E i \in 1..m : k = <<x, y, i>>
      BY <2>2
    <3>. QED BY <2>1, <3>1, StepsCounted
  <2>. QED BY <2>2
<1>9. DOMAIN jobs' = DOMAIN jobs \union keys
  BY <1>5 DEF InsertOrIgnore
<1>10. \A k \in keys : k[1] = c /\ k[2] = d
  OBVIOUS
<1>. HIDE DEF keys
<1>11. IsFiniteSet(DOMAIN jobs')
  BY <1>7, <1>9, FS_Union DEF FullInv
<1>12. keys \subseteq OfDay(jobs', c, d)
  BY <1>9, <1>10 DEF OfDay
<1>13. IsFiniteSet(OfDay(jobs', c, d))
  BY <1>11, FS_Subset DEF OfDay
<1>14. m <= Cardinality(OfDay(jobs', c, d)) /\ Cardinality(OfDay(jobs', c, d)) \in Nat
  BY <1>7, <1>12, <1>13, FS_Subset, FS_CardinalityType
<1>15. Cardinality(OfDay(jobs', c, d)) >= n - 1
  BY <1>4, <1>6, <1>14
<1>. QED BY <1>1, <1>11, <1>15 DEF DayFull, plan, c, d, n

(* A step after which every handler that saves is where it was, unless its *)
(* days are known to be complete, and every row names what it named.       *)
LEMMA FullKept ==
  ASSUME GroupsInv, FullInv, IsFiniteSet(DOMAIN jobs'), DOMAIN jobs \subseteq DOMAIN jobs',
         \A t \in Task :
           \/ task'[t] = task[t]
           \/ task'[t].pc = "save" /\ ValidPlan(task'[t].plan)
           \/ task'[t].pc \notin {"save", "insert", "comm"}
           \/ task'[t].pc # "save" /\ SaverFull(t)',
         orphaned \subseteq orphaned',
         \A id \in DOMAIN groups' :
           \/ /\ id \in DOMAIN groups
              /\ groups'[id].of = groups[id].of /\ groups'[id].comm = groups[id].comm
              /\ groups'[id].plan = groups[id].plan
           \/ RowFull(id)'
  PROVE  FullInv'
<1>1. ASSUME NEW t \in Task
      PROVE  /\ task'[t].pc = "save" => ValidPlan(task'[t].plan)
             /\ Saving(t)' => SaverFull(t)'
  <2>1. CASE task'[t] # task[t]
    BY <2>1 DEF Saving
  <2>2. CASE task'[t] = task[t]
    <3>1. CASE ~Saving(t)
      BY <2>2, <3>1 DEF Saving, FullInv
    <3>2. CASE Saving(t)
      <4>1. SaverFull(t) /\ task[t].plan \in Plans /\ ValidPlan(task[t].plan) /\ task[t].pc # "save"
        BY <3>2 DEF FullInv, SaverFull, GroupsInv, TypeInv, TasksOK, Tasks, Saving
      <4>2. Inserted(t)' = Inserted(t)
        BY <2>2 DEF Inserted
      <4>3. \A d \in Inserted(t) :
              Cardinality(OfDay(jobs', task[t].comm, d))
                >= DayMessages(Cardinality(task[t].plan.members)) - 1
        BY <4>1, DayStaysFull DEF FullInv, SaverFull, DayFull
      <4>. QED BY <2>2, <4>1, <4>2, <4>3 DEF SaverFull, DayFull
    <3>. QED BY <3>1, <3>2
  <2>. QED BY <2>1, <2>2
<1>2. ASSUME NEW id \in DOMAIN groups', id \in DOMAIN groups,
             groups'[id].of = groups[id].of, groups'[id].comm = groups[id].comm,
             groups'[id].plan = groups[id].plan
      PROVE  RowFull(id)'
  <2>1. groups[id].plan \in Plans /\ ValidPlan(groups[id].plan) /\ RowFull(id)
    BY <1>2 DEF GroupsInv, TypeInv, GroupRowsOK, Saved, FullInv, RowFull
  <2>2. ASSUME groups[id].comm # 0, groups[id].of \notin orphaned,
               NEW d \in Day(groups[id].plan.start)..LastDay(groups[id].plan)
        PROVE  Cardinality(OfDay(jobs', groups[id].comm, d))
                 >= DayMessages(Cardinality(groups[id].plan.members)) - 1
    BY <2>1, <2>2, DayStaysFull DEF FullInv, RowFull, DayFull
  <2>. QED BY <1>2, <2>1, <2>2 DEF RowFull, DayFull
<1>. QED BY <1>1, <1>2 DEF FullInv

LEMMA FullWhenSaved ==
  ASSUME GroupsInv, FullInv, NEW t \in Task, SaveGroup(t), task[t].plan.members \subseteq accounts
  PROVE  FullInv'
<1>. DEFINE plan == task[t].plan
            day == Day(plan.start)
            o == made + 1
            c == second'
<1>1. ValidPlan(plan) /\ plan \in Plans /\ task[t] \in Tasks /\ UNCHANGED <<jobs, orphaned>>
  BY DEF SaveGroup, FullInv, GroupsInv, TypeInv, TasksOK, Tasks
<1>2. day \in Int
  BY <1>1, DaysAreNumbers
<1>3. /\ DOMAIN groups' = DOMAIN groups \union {NewId}
      /\ \A id \in DOMAIN groups : groups'[id] = groups[id]
      /\ groups'[NewId] = [of |-> o, members |-> plan.members, plan |-> plan,
                           comm |-> 0, status |-> "enabled"]
      /\ \A s \in Task \ {t} : task'[s] = task[s]
      /\ task'[t] = [task[t] EXCEPT !.pc = "insert", !.id = NewId, !.of = o, !.comm = c, !.day = day]
  BY SaveMakes DEF GroupsInv
<1>. HIDE DEF plan, day, o, c
<1>4. /\ groups'[NewId].comm = 0 /\ groups'[NewId].plan = plan
      /\ task'[t].pc = "insert" /\ task'[t].day = day /\ task'[t].plan = plan
  BY <1>1, <1>3 DEF Tasks, plan
<1>5. ASSUME NEW id, id = NewId
      PROVE  RowFull(id)'
  BY <1>1, <1>4, <1>5 DEF RowFull
<1>6. SaverFull(t)'
  <2>1. Inserted(t)' = day..(day - 1)
    BY <1>4 DEF Inserted, day
  <2>2. Inserted(t)' = {}
    BY <1>2, <2>1
  <2>. QED BY <1>1, <1>2, <1>4, <2>2 DEF SaverFull, day
<1>. QED BY <1>1, <1>3, <1>4, <1>5, <1>6, FullKept DEF FullInv

LEMMA FullWhenInserted ==
  ASSUME GroupsInv, FullInv, NEW t \in Task, InsertDay(t)
  PROVE  FullInv'
<1>. DEFINE plan == task[t].plan
            d == task[t].day
            c == task[t].comm
            first == Day(plan.start)
            last == LastDay(plan)
<1>1. /\ \A s \in Task \ {t} : task'[s] = task[s]
      /\ task[t].pc = "insert" /\ task'[t].plan = plan /\ task'[t].comm = c
      /\ \/ task'[t].pc = "comm"
         \/ task'[t].pc = "insert" /\ task'[t].day = d + 1
  BY InsertMoves DEF GroupsInv
<1>2. task'[t].pc = "comm" => ~(d < last)
  <2>1. d < last => task' = [task EXCEPT ![t].day = d + 1]
    BY DEF InsertDay
  <2>2. d < last => task'[t].pc = "insert"
    BY <1>1, <2>1 DEF GroupsInv, TypeInv, TasksOK, Tasks
  <2>. QED BY <2>2
<1>3. /\ plan \in Plans /\ d \in Int /\ SaverFull(t) /\ ValidPlan(plan)
      /\ first \in Int /\ last \in Int /\ first <= d /\ d <= last
  <2>1. plan \in Plans /\ d \in Int /\ SaverFull(t) /\ d <= last /\ Saving(t)
    BY <1>1 DEF GroupsInv, TypeInv, TasksOK, Tasks, FullInv, Saving, Bond, DaysOK
  <2>. QED BY <1>1, <2>1, DaysAreNumbers DEF SaverFull
<1>4. /\ IsFiniteSet(DOMAIN jobs')
      /\ Cardinality(OfDay(jobs', c, d)) >= DayMessages(Cardinality(plan.members)) - 1
  BY InsertFillsDay
<1>5. DOMAIN jobs \subseteq DOMAIN jobs' /\ UNCHANGED <<groups, orphaned>>
  BY InsertAdds DEF GroupsInv, InsertDay
<1>6. \A e \in first..(d - 1) :
        Cardinality(OfDay(jobs', c, e)) >= DayMessages(Cardinality(plan.members)) - 1
  <2>1. Inserted(t) = first..(d - 1)
    BY <1>1 DEF Inserted
  <2>2. \A e \in first..(d - 1) :
          Cardinality(OfDay(jobs, c, e)) >= DayMessages(Cardinality(plan.members)) - 1
    BY <1>3, <2>1 DEF SaverFull, DayFull
  <2>. QED BY <1>3, <1>4, <1>5, <2>2, DayStaysFull DEF FullInv
<1>7. SaverFull(t)'
  <2>1. Inserted(t)' = first..d
    <3>1. CASE task'[t].pc = "comm"
      <4>1. last = d
        BY <1>2, <1>3, <3>1
      <4>. QED BY <1>1, <3>1, <4>1 DEF Inserted
    <3>2. CASE task'[t].pc = "insert" /\ task'[t].day = d + 1
      <4>1. (d + 1) - 1 = d
        BY <1>3
      <4>. QED BY <1>1, <3>2, <4>1 DEF Inserted
    <3>. QED BY <1>1, <3>1, <3>2
  <2>. HIDE DEF plan, d, c, first, last
  <2>2. \A e \in first..d : e = d \/ e \in first..(d - 1)
    BY <1>3
  <2>3. \A e \in first..d :
          Cardinality(OfDay(jobs', c, e)) >= DayMessages(Cardinality(plan.members)) - 1
    BY <1>4, <1>6, <2>2
  <2>4. task'[t].pc = "insert" => first <= task'[t].day
    BY <1>1, <1>3
  <2>. QED BY <1>1, <1>3, <2>1, <2>3, <2>4 DEF SaverFull, DayFull, first
<1>8. task'[t].pc # "save"
  BY <1>1
<1>. QED BY <1>1, <1>4, <1>5, <1>7, <1>8, FullKept

LEMMA FullWhenNamed ==
  ASSUME GroupsInv, FullInv, NEW t \in Task, SetCommId(t)
  PROVE  FullInv'
<1>. DEFINE at == task[t].id
            o == task[t].of
            c == task[t].comm
            plan == task[t].plan
<1>1. /\ \A s \in Task \ {t} : task'[s] = task[s]
      /\ task'[t].pc \in {"idle", "clear", "menu"}
      /\ UNCHANGED jobs /\ orphaned \subseteq orphaned'
  <2>1. Answer(t) /\ UNCHANGED <<jobs, made, second>> /\ orphaned \subseteq orphaned'
    BY DEF SetCommId
  <2>. QED BY <2>1, HandlerEnds DEF GroupsInv
<1>2. /\ DOMAIN groups' = DOMAIN groups
      /\ \A i \in DOMAIN groups \ {at} : groups'[i] = groups[i]
      /\ at \in DOMAIN groups =>
           /\ groups'[at].of = groups[at].of /\ groups'[at].plan = groups[at].plan
           /\ groups'[at].comm = c
           /\ groups[at].of # o => groups[at].of \in orphaned'
  <2>1. CASE at \notin DOMAIN groups
    BY <2>1 DEF SetCommId
  <2>2. CASE at \in DOMAIN groups
    <3>. DEFINE g == [groups[at] EXCEPT !.comm = c]
    <3>1. groups[at] \in Saved
      BY <2>2 DEF GroupsInv, TypeInv, GroupRowsOK
    <3>2. g.of = groups[at].of /\ g.plan = groups[at].plan /\ g.comm = c
      BY <3>1 DEF Saved
    <3>3. /\ DOMAIN groups' = DOMAIN groups /\ groups'[at] = g
          /\ \A i \in DOMAIN groups \ {at} : groups'[i] = groups[i]
          /\ orphaned' = orphaned \union ({groups[at].of} \ {o})
      BY <2>2 DEF SetCommId
    <3>. HIDE DEF g, at
    <3>. QED BY <3>2, <3>3
  <2>. QED BY <2>1, <2>2
<1>3. Saving(t) /\ task[t].pc = "comm" /\ SaverFull(t)
  BY DEF SetCommId, Saving, FullInv
<1>4. \A d \in Day(plan.start)..LastDay(plan) : DayFull(c, d, plan)
  BY <1>3 DEF SaverFull, Inserted
<1>5. ASSUME NEW id, id = at, id \in DOMAIN groups
      PROVE  RowFull(id)'
  <2>1. ValidPlan(groups[id].plan)
    BY <1>5 DEF FullInv, RowFull
  <2>2. CASE groups[id].of # o
    BY <1>2, <1>5, <2>1, <2>2 DEF RowFull
  <2>3. CASE groups[id].of = o
    <3>1. groups[id].plan = plan
      BY <1>3, <1>5, <2>3 DEF GroupsInv, Bond, DaysOK
    <3>. QED BY <1>1, <1>2, <1>4, <1>5, <2>1, <3>1 DEF RowFull, DayFull
  <2>. QED BY <2>2, <2>3
<1>6. \A id \in DOMAIN groups' :
        (id \in DOMAIN groups /\ groups'[id] = groups[id]) \/ RowFull(id)'
  BY <1>2, <1>5
<1>. QED BY <1>1, <1>6, FullKept DEF FullInv

(* Every other step: handlers that save go on or end, the table keeps its  *)
(* rows, and a row of a group what it names.                               *)
LEMMA FullInvKept ==
  ASSUME GroupsInv, FullInv, [Next]_vars
  PROVE  FullInv'
<1>1. ASSUME UNCHANGED <<groups, jobs, task, orphaned>>
      PROVE  FullInv'
  BY <1>1, FullKept DEF FullInv
<1>2. ASSUME NEW t \in Task, NEW a \in Admin, Confirm(t, a)
      PROVE  FullInv'
  <2>1. UNCHANGED <<groups, jobs, orphaned>>
    BY <1>2 DEF Confirm
  <2>2. CASE ValidPlan(dialog[a])
    <3>. DEFINE plan == dialog[a]
                r == [NoTask EXCEPT !.pc = "save", !.admin = a, !.plan = plan]
    <3>1. task' = [task EXCEPT ![t] = r] /\ ValidPlan(plan)
      BY <1>2, <2>2 DEF Confirm
    <3>. HIDE DEF plan
    <3>2. r.pc = "save" /\ r.plan = plan
      BY NoTaskIsTask DEF Tasks
    <3>. HIDE DEF r
    <3>3. \A s \in Task : task'[s] = task[s] \/ (task'[s].pc = "save" /\ ValidPlan(task'[s].plan))
      BY <3>1, <3>2 DEF GroupsInv, TypeInv, TasksOK
    <3>. QED BY <2>1, <3>3, FullKept DEF FullInv
  <2>3. CASE ~ValidPlan(dialog[a])
    BY <1>1, <1>2, <2>1, <2>3 DEF Confirm
  <2>. QED BY <2>2, <2>3
<1>3. ASSUME NEW t \in Task, Answer(t) \/ GotoMenu(t) \/ Done(t), UNCHANGED <<jobs, made, second>>,
             orphaned \subseteq orphaned',
             \A id \in DOMAIN groups' : id \in DOMAIN groups /\ groups'[id] = groups[id]
      PROVE  FullInv'
  <2>1. \A s \in Task : task'[s] = task[s] \/ task'[s].pc \in {"idle", "clear", "menu"}
    BY <1>3, HandlerEnds DEF GroupsInv
  <2>. QED BY <1>3, <2>1, FullKept DEF FullInv
<1>4. ASSUME NEW t \in Task, SaveGroup(t)
      PROVE  FullInv'
  <2>1. CASE task[t].plan.members \subseteq accounts
    BY <1>4, <2>1, FullWhenSaved
  <2>2. CASE ~(task[t].plan.members \subseteq accounts)
    <3>1. Answer(t) /\ UNCHANGED <<groups, jobs, made, second, orphaned>>
      BY <1>4, <2>2 DEF SaveGroup
    <3>. QED BY <1>3, <3>1
  <2>. QED BY <2>1, <2>2
<1>5. ASSUME NEW t \in Task,
             \/ ClearDialog(t) \/ DropGroup(t) \/ Fault(t)
             \/ \E a \in Admin : OpenMenu(t, a)
      PROVE  FullInv'
  <2>1. /\ Answer(t) \/ GotoMenu(t) \/ Done(t)
        /\ UNCHANGED <<jobs, made, second>> /\ orphaned \subseteq orphaned'
        /\ \A id \in DOMAIN groups' : id \in DOMAIN groups /\ groups'[id] = groups[id]
    BY <1>5 DEF ClearDialog, DropGroup, Fault, OpenMenu
  <2>. QED BY <1>3, <2>1
<1>6. ASSUME NEW t \in Task, NEW id \in 1..made, NEW b \in {"delete", "complete"}, Press(t, id, b)
      PROVE  FullInv'
  <2>1. UNCHANGED <<groups, jobs, orphaned>>
    BY <1>6 DEF Press
  <2>2. \A s \in Task : task'[s] = task[s] \/ task'[s].pc \in {"cancel", "drop"}
    BY <1>6, PressReads DEF GroupsInv
  <2>. QED BY <2>1, <2>2, FullKept DEF FullInv
<1>7. ASSUME NEW t \in Task, CancelGroup(t)
      PROVE  FullInv'
  <2>1. UNCHANGED <<groups, orphaned>> /\ jobs' = CancelPendingForComm(jobs, task[t].comm)
        /\ Goto(t, "drop")
    BY <1>7 DEF CancelGroup
  <2>2. DOMAIN jobs' = DOMAIN jobs
    BY <2>1, CancelEnds DEF GroupsInv, TypeInv
  <2>3. \A s \in Task : task'[s] = task[s] \/ task'[s].pc = "drop"
    BY <2>1 DEF Goto, GroupsInv, TypeInv, TasksOK, Tasks
  <2>. QED BY <2>1, <2>2, <2>3, FullKept DEF FullInv
<1>8. ASSUME NEW t \in Task, FinishExpired(t)
      PROVE  FullInv'
  <2>1. UNCHANGED <<jobs, orphaned>>
    BY <1>8 DEF FinishExpired
  <2>2. \A s \in Task : task'[s] = task[s] \/ task'[s].pc = "stop"
    BY <1>8, FinishTyped DEF GroupsInv
  <2>. QED BY <1>8, <2>1, <2>2, FinishFinishes, FullKept DEF FullInv, GroupsInv
<1>9. ASSUME NEW t \in Task, StopExpired(t)
      PROVE  FullInv'
  <2>1. UNCHANGED <<groups, orphaned>>
    BY <1>9 DEF StopExpired
  <2>2. /\ \A s \in Task : task'[s] = task[s] \/ task'[s].pc \in {"idle", "clear", "menu", "stop"}
        /\ UNCHANGED jobs \/ \E c : jobs' = CancelPendingForComm(jobs, c)
    BY <1>9, StopTyped DEF GroupsInv
  <2>3. DOMAIN jobs' = DOMAIN jobs
    BY <2>2, CancelEnds DEF GroupsInv, TypeInv
  <2>. QED BY <2>1, <2>2, <2>3, FullKept DEF FullInv
<1>10. ASSUME Restart
       PROVE  FullInv'
  <2>1. UNCHANGED <<groups, jobs>> /\ orphaned \subseteq orphaned'
        /\ \A s \in Task : task'[s].pc = "idle"
    BY <1>10, NoTaskIsTask DEF Restart
  <2>. QED BY <2>1, FullKept DEF FullInv
<1>11. ASSUME NEW x \in Account, DeleteAccount(x)
       PROVE  FullInv'
  <2>1. UNCHANGED <<jobs, orphaned, task>>
    BY <1>11 DEF DeleteAccount
  <2>. QED BY <1>11, <2>1, DeleteKeeps, FullKept DEF FullInv, GroupsInv
<1>12. \/ UNCHANGED <<groups, jobs, task, orphaned>>
       \/ \E t \in Task, a \in Admin : Confirm(t, a) \/ OpenMenu(t, a)
       \/ \E t \in Task : SaveGroup(t) \/ InsertDay(t) \/ SetCommId(t) \/ CancelGroup(t)
       \/ \E t \in Task : DropGroup(t) \/ FinishExpired(t) \/ StopExpired(t) \/ Fault(t)
       \/ \E t \in Task : ClearDialog(t)
       \/ \E t \in Task, id \in 1..made, b \in {"delete", "complete"} : Press(t, id, b)
       \/ Restart
       \/ \E x \in Account : DeleteAccount(x)
  BY DEF Next, vars, OpenDialogue, Reset, Toggle, PickTime, PickDays, SetDialog, Tick
<1>13. CASE \E t \in Task : SaveGroup(t) \/ InsertDay(t) \/ SetCommId(t) \/ CancelGroup(t)
  BY <1>4, <1>7, <1>13, FullWhenInserted, FullWhenNamed
<1>14. CASE \E t \in Task : DropGroup(t) \/ FinishExpired(t) \/ StopExpired(t) \/ Fault(t)
  BY <1>5, <1>8, <1>9, <1>14
<1>15. CASE \E t \in Task, a \in Admin : Confirm(t, a) \/ OpenMenu(t, a)
  BY <1>2, <1>5, <1>15
<1>. QED BY <1>1, <1>5, <1>6, <1>10, <1>11, <1>12, <1>13, <1>14, <1>15

(* A group that got its comm_id, and shares it with no other, has all      *)
(* messages but at most the last of each of its days: whatever buttons     *)
(* were pressed, and whatever failed, while it was being saved.            *)
THEOREM PlansAreComplete == Spec => []FullPlan
<1>1. Init => FullInv
  BY FullStarts
<1>2. GroupsInv /\ FullInv /\ [Next]_vars => FullInv'
  BY FullInvKept
<1>3. FullInv => FullPlan
  BY FullEnough
<1>. QED BY <1>1, <1>2, <1>3, GroupsInvHolds, PTL DEF Spec

==============================================================================
