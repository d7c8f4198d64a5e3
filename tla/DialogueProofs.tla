---------------------------- MODULE DialogueProofs ----------------------------
(***************************************************************************)
(* What Dispatcher promises about the dialogue of a group and the loop     *)
(* that sends it, for any accounts, groups, plans, bounds and times:       *)
(*                                                                         *)
(*   PlannedInTime      messages are planned in the window of their day;   *)
(*   OneDialogueADay    the open messages of a day stem from one insertion; *)
(*   DropsTakeEffect    a rebuild leaves no open job of the dropped account; *)
(*   SentInTime         what is sent is due, on its day, in its window;    *)
(*   PeaceAfterFailure  between two failures an account cools down;        *)
(*   NothingForgotten   a finished tick has settled what it claimed;       *)
(*   DialogueGoesOn     a rebuild inserts what the window is sure to hold. *)
(*                                                                         *)
(* and what alone makes it break two promises:                             *)
(*                                                                         *)
(*   OnlyTwoWritesRevive     a completed group gets open messages only by  *)
(*                           two writes that were under way;               *)
(*   OnlyStaleStatusReturns  a dropped account comes back into a ring only *)
(*                           if its status was stale when it was read.     *)
(*                                                                         *)
(* Aged and Inserted say what a step can do to the table: rows stay, only  *)
(* a reschedule moves one, and only two actions insert, each the rows of   *)
(* one day. With them an invariant of the rows is checked against these    *)
(* two insertions and the step that concerns it. The invariants added for  *)
(* the induction stand in front of the theorem that needs them.            *)
(***************************************************************************)
EXTENDS LedgerProofs

------------------------------------------------------------------------------
(* How a table ages.                                                       *)

(* Rows stay. Whom a row joins and the insertion it stems from never       *)
(* change; its time only if it is rescheduled, and a row that is not       *)
(* rescheduled does not open again.                                        *)
Aged(old, new) ==
  /\ DOMAIN old \subseteq DOMAIN new
  /\ \A k \in DOMAIN old :
       /\ new[k].snd = old[k].snd
       /\ new[k].rcv = old[k].rcv
       /\ new[k].base = old[k].base
       /\ \/ new[k].moved
          \/ /\ new[k].moved = old[k].moved
             /\ new[k].at = old[k].at
             /\ new[k].status \in OpenStatus => old[k].status \in OpenStatus

(* The change reschedules nothing.                                         *)
Steady(old, new) ==
  \A k \in DOMAIN old : /\ new[k].snd = old[k].snd
                        /\ new[k].rcv = old[k].rcv
                        /\ new[k].at = old[k].at
                        /\ new[k].status \in OpenStatus => old[k].status \in OpenStatus

(* No change is no ageing.                                                 *)
LEMMA AgedNothing ==
  ASSUME NEW j, GoodTable(j)
  PROVE  Aged(j, j) /\ Steady(j, j)
BY DEF Aged, Steady

(* A change of status that opens nothing ages the table.                   *)
LEMMA AgedSetStatus ==
  ASSUME NEW j, GoodTable(j), NEW keys, NEW s \in JobStatus,
         s \in OpenStatus => \A k \in DOMAIN j \intersect keys : j[k].status \in OpenStatus
  PROVE  /\ Aged(j, SetStatus(j, keys, s)) /\ DOMAIN SetStatus(j, keys, s) = DOMAIN j
         /\ Steady(j, SetStatus(j, keys, s))
<1> DEFINE new == SetStatus(j, keys, s)
<1>1. DOMAIN new = DOMAIN j
  BY DEF SetStatus
<1>2. ASSUME NEW k \in DOMAIN j
      PROVE  /\ new[k].snd = j[k].snd /\ new[k].rcv = j[k].rcv
             /\ new[k].base = j[k].base /\ new[k].moved = j[k].moved
             /\ new[k].at = j[k].at
             /\ new[k].status \in OpenStatus => j[k].status \in OpenStatus
  <2>1. j[k] \in Row(Account)
    BY DEF GoodTable, IsTable
  <2>2. CASE k \in keys
    <3>1. new[k] = [j[k] EXCEPT !.status = s]
      BY <2>2 DEF SetStatus
    <3> HIDE DEF new
    <3> QED
      BY <2>1, <2>2, <3>1 DEF Row
  <2>3. CASE k \notin keys
    <3>1. new[k] = j[k]
      BY <2>3 DEF SetStatus
    <3> HIDE DEF new
    <3> QED
      BY <3>1
  <2> QED
    BY <2>2, <2>3
<1> QED
  BY <1>1, <1>2 DEF Aged, Steady

(* Every cancellation does.                                                *)
LEMMA AgedCancel ==
  ASSUME NEW j, GoodTable(j), NEW keys
  PROVE  /\ Aged(j, Cancel(j, keys)) /\ DOMAIN Cancel(j, keys) = DOMAIN j
         /\ Steady(j, Cancel(j, keys))
<1>1. "cancelled" \in JobStatus /\ "cancelled" \notin OpenStatus
  BY DEF JobStatus, OpenStatus
<1> QED
  BY <1>1, AgedSetStatus DEF Cancel

(* A reschedule moves its row.                                             *)
LEMMA AgedReschedule ==
  ASSUME NEW j, GoodTable(j), NEW k \in DOMAIN j, NEW until \in Nat
  PROVE  Aged(j, Reschedule(j, k, until)) /\ DOMAIN Reschedule(j, k, until) = DOMAIN j
<1> DEFINE row == [j[k] EXCEPT !.status = "pending", !.at = until, !.moved = TRUE]
           new == Reschedule(j, k, until)
<1>1. new = [j EXCEPT ![k] = row]
  BY DEF Reschedule, GoodTable, IsTable
<1>2. j[k] \in Row(Account)
  BY DEF GoodTable, IsTable
<1>3. row.snd = j[k].snd /\ row.rcv = j[k].rcv /\ row.base = j[k].base /\ row.moved
  BY <1>2 DEF Row
<1> HIDE DEF row, new
<1>4. DOMAIN new = DOMAIN j
  BY <1>1 DEF GoodTable, IsTable
<1>5. new[k] = row /\ \A l \in DOMAIN j \ {k} : new[l] = j[l]
  BY <1>1 DEF GoodTable, IsTable
<1>6. Aged(j, new)
  BY <1>3, <1>4, <1>5 DEF Aged
<1> QED
  BY <1>4, <1>6 DEF new

(* A delivery only counts.                                                 *)
LEMMA AgedDelivery ==
  ASSUME NEW j, GoodTable(j), NEW k \in DOMAIN j, NEW n \in {0, 1},
         NEW new, new = [j EXCEPT ![k].sends = @ + n]
  PROVE  /\ Aged(j, new)
         /\ DOMAIN new = DOMAIN j
         /\ Steady(j, new)
<1> DEFINE row == [j[k] EXCEPT !.sends = @ + n]
<1>1. j[k] \in Row(Account)
  BY DEF GoodTable, IsTable
<1>2. /\ row.snd = j[k].snd /\ row.rcv = j[k].rcv /\ row.base = j[k].base
      /\ row.moved = j[k].moved /\ row.at = j[k].at /\ row.status = j[k].status
  BY <1>1 DEF Row
<1>3. new = [j EXCEPT ![k] = row]
  BY DEF GoodTable, IsTable
<1> HIDE DEF row
<1>4. DOMAIN new = DOMAIN j
  BY <1>3 DEF GoodTable, IsTable
<1>5. new[k] = row /\ \A l \in DOMAIN j \ {k} : new[l] = j[l]
  BY <1>3 DEF GoodTable, IsTable
<1> QED
  BY <1>2, <1>4, <1>5 DEF Aged, Steady

------------------------------------------------------------------------------
(* Insertions.                                                             *)

(* The change inserts rows of group c for day d after step base: unmoved,  *)
(* between accounts of B, from start on and inside the send window.        *)
Inserted(old, new, B, c, d, base, start) ==
  /\ DOMAIN old \subseteq DOMAIN new
  /\ \A k \in DOMAIN old : new[k] = old[k]
  /\ \A k \in DOMAIN new \ DOMAIN old :
       /\ k[1] = c /\ k[2] = d
       /\ new[k].snd \in B /\ new[k].rcv \in B
       /\ new[k].base = base /\ ~new[k].moved /\ new[k].status = "pending"
       /\ start <= new[k].at /\ new[k].at < DayEnd(d)

(* One transaction does.                                                   *)
LEMMA DayInserted ==
  ASSUME NEW j, GoodTable(j), NEW B, NEW ring \in Seq(B), NEW c \in Comm,
         NEW d \in Nat, NEW start \in Nat, NEW base \in Nat,
         NEW at \in Schedules(start, MessageCount(ring)),
         NEW m \in 0..MessageCount(ring),
         KeptInWindow(at, MessageCount(ring), d, m),
         NEW new, new = InsertOrIgnore(j, DayRows(ring, c, d, base, at, m))
  PROVE  Inserted(j, new, B, c, d, base, start)
<1> DEFINE n == MessageCount(ring)
           rows == DayRows(ring, c, d, base, at, m)
<1>1. n \in Nat
  BY MessageType
<1>2. at \in [1..n -> Nat] /\ \A i \in 1..n : start <= at[i]
  BY <1>1, ScheduleType, ScheduleBounds
<1>3. /\ DOMAIN new = DOMAIN j \union DOMAIN rows
      /\ \A k \in DOMAIN j : new[k] = j[k]
      /\ \A k \in DOMAIN new \ DOMAIN j : k \in DOMAIN rows /\ new[k] = rows[k]
  BY DEF InsertOrIgnore
<1>4. ASSUME NEW k \in DOMAIN rows
      PROVE  /\ k[1] = c /\ k[2] = d
             /\ rows[k].snd \in B /\ rows[k].rcv \in B
             /\ rows[k].base = base /\ ~rows[k].moved /\ rows[k].status = "pending"
             /\ start <= rows[k].at /\ rows[k].at < DayEnd(d)
  <2>1. PICK i \in 1..m : k = <<c, d, base + i>>
    BY DEF DayRows
  <2>2. k[3] - base = i /\ i \in 1..n /\ k[1] = c /\ k[2] = d
    BY <1>1, <2>1
  <2>3. rows[k] = [snd |-> Message(ring, i).snd, rcv |-> Message(ring, i).rcv,
                   at |-> at[i], status |-> "pending",
                   sends |-> 0, base |-> base, moved |-> FALSE]
    BY <1>4, <2>2 DEF DayRows
  <2>4. Message(ring, i).snd \in B /\ Message(ring, i).rcv \in B
    BY <2>2, MessageType
  <2>5. start <= at[i] /\ at[i] < DayEnd(d)
    BY <1>1, <1>2, <2>1, <2>2 DEF KeptInWindow
  <2> HIDE DEF rows
  <2> QED
    BY <2>2, <2>3, <2>4, <2>5
<1> HIDE DEF rows
<1> QED
  BY <1>3, <1>4 DEF Inserted

(* And ages the table.                                                     *)
LEMMA AgedInsertion ==
  ASSUME NEW old, GoodTable(old), NEW new, NEW B, NEW c, NEW d, NEW base, NEW start,
         Inserted(old, new, B, c, d, base, start)
  PROVE  Aged(old, new) /\ Steady(old, new)
BY DEF Inserted, Aged, Steady

------------------------------------------------------------------------------
(* What the actions do to the table.                                       *)

(* The loop inserts nothing.                                               *)
LEMMA LoopAges ==
  ASSUME TypeInv, Dispatch
  PROVE  /\ Aged(jobs, jobs') /\ DOMAIN jobs' = DOMAIN jobs
         /\ RescheduleCooling \/ Steady(jobs, jobs')
<1> USE DEF TypeInv
<1>0. {"pending", "sending", "sent", "failed"} \subseteq JobStatus
      /\ OpenStatus = {"pending", "sending"}
  BY DEF JobStatus, OpenStatus
<1>1. CASE UNCHANGED jobs
  BY <1>1, AgedNothing
<1>2. CASE Boot
  <2>1. CASE jobs' = ResetSending(jobs)
    BY <2>1, <1>0, AgedSetStatus DEF ResetSending
  <2> QED
    BY <1>1, <1>2, <2>1 DEF Boot
<1>3. CASE StartTick
  BY <1>1, <1>3, AgedCancel DEF StartTick
<1>4. CASE ClaimJobs
  <2>1. ASSUME NEW s \in DueOrders(jobs, tick, BatchSize), jobs' = Claim(jobs, s)
        PROVE  Aged(jobs, jobs') /\ DOMAIN jobs' = DOMAIN jobs /\ Steady(jobs, jobs')
    <3>1. \A i \in DOMAIN s : jobs[s[i]].status = "pending"
      BY DueOrdersFacts, DispatcherAssumption DEF GoodTable, LoopOK
    <3> QED
      BY <1>0, <2>1, <3>1, AgedSetStatus DEF Claim
  <2> QED
    BY <1>1, <1>4, <2>1 DEF ClaimJobs
<1>5. CASE SkipJob
  BY <1>1, <1>5, AgedCancel DEF SkipJob, MarkCancelled
<1>6. CASE LoadAccounts \/ MarkAdminSessionLost
  BY <1>1, <1>6 DEF LoadAccounts, MarkAdminSessionLost
<1>7. CASE RescheduleCooling
  <2>1. batch # << >>
    BY <1>7 DEF RescheduleCooling, LoopOK
  <2>2. Current \in DOMAIN jobs /\ CurrentJob.snd \in Account
    BY <2>1, CurrentType
  <2>3. cooldown[CurrentJob.snd].until \in Nat
    BY <2>2 DEF RestOK
  <2> QED
    BY <1>1, <1>7, <2>2, <2>3, AgedReschedule DEF RescheduleCooling
<1>8. CASE FailJob
  BY <1>0, <1>1, <1>8, AgedSetStatus DEF FailJob, MarkFailed
<1>9. CASE SendSucceeds \/ SendFailsFatally \/ SendFailsSoftly
  <2>1. batch # << >>
    BY <1>9 DEF SendSucceeds, SendFailsFatally, SendFailsSoftly, SendFails, LoopOK
  <2>2. Current \in DOMAIN jobs
    BY <2>1, CurrentType
  <2>3. PICK n \in {0, 1} : jobs' = [jobs EXCEPT ![Current].sends = @ + n]
    BY <1>9 DEF SendSucceeds, SendFailsFatally, SendFailsSoftly, SendFails, Delivered
  <2>4. GoodTable(jobs)
    OBVIOUS
  <2> HIDE DEF TypeInv
  <2> QED
    BY <2>2, <2>3, <2>4, AgedDelivery
<1>10. CASE RecordSent
  BY <1>0, <1>1, <1>10, AgedSetStatus DEF RecordSent, MarkSent
<1> QED
  BY <1>2, <1>3, <1>4, <1>5, <1>6, <1>7, <1>8, <1>9, <1>10 DEF Dispatch

(* A rebuild inserts the rows of one day, or none.                         *)
LEMMA RebuildAges ==
  ASSUME TypeInv, NEW p \in Proc, Rebuild(p), ~RbInsert(p)
  PROVE  Aged(jobs, jobs') /\ DOMAIN jobs' = DOMAIN jobs /\ Steady(jobs, jobs')
<1>1. CASE UNCHANGED jobs
  BY <1>1, AgedNothing DEF TypeInv
<1>2. CASE \E keys : jobs' = Cancel(jobs, keys)
  BY <1>2, AgedCancel DEF TypeInv
<1> QED
  BY <1>1, <1>2 DEF Rebuild, RbList, RbEnabled, RbStale, RbRead, RbCancel, RbUnlock,
     CancelInvolvingInComm, CancelPendingForComm

(* The group and the day a rebuild is at.                                  *)
LEMMA RebuildAt ==
  ASSUME TypeInv, NEW p \in Proc, rb[p].pc \in {"cancel", "insert"}
  PROVE  /\ RbComm(p) \in rb[p].todo /\ RbComm(p) \in Comm
         /\ rb[p].ring \in Seq(Account)
         /\ rb[p].pc = "insert" => /\ Smallest(rb[p].dates) \in rb[p].dates
                                   /\ Smallest(rb[p].dates) \in Nat
                                   /\ rb[p].now \in Nat
<1>1. rb[p] \in RebuildState /\ rb[p].todo # {}
  BY DEF TypeInv, RebuildOK
<1>2. /\ rb[p].todo \in SUBSET Nat /\ rb[p].todo \in SUBSET Comm
      /\ rb[p].dates \in SUBSET Nat /\ rb[p].ring \in Seq(Account) /\ rb[p].now \in Nat
  BY <1>1, DispatcherAssumption DEF RebuildState
<1>3. rb[p].pc = "insert" => rb[p].dates # {}
  BY DEF TypeInv, RebuildOK
<1> QED
  BY <1>1, <1>2, <1>3, SmallestType DEF RbComm

(* The days of a rebuild that inserts start inside their windows.          *)
LEMMA RebuildInserts ==
  ASSUME TypeInv, NEW p \in Proc, RbInsert(p), NEW STATE B, rb[p].ring \in Seq(B),
         ~UNCHANGED jobs
  PROVE  LET c == RbComm(p)
             d == Smallest(rb[p].dates)
         IN  Inserted(jobs, jobs', B, c, d, MaxStep(jobs, c, d), DayStart(d))
<1> DEFINE c == RbComm(p)
           d == Smallest(rb[p].dates)
           start == RebuildStart(d, rb[p].now)
           base == MaxStep(jobs, c, d)
<1>1. c \in Comm /\ d \in Nat /\ rb[p].now \in Nat
  BY RebuildAt DEF RbInsert
<1>2. start \in Nat /\ base \in Nat /\ DayStart(d) \in Nat /\ GoodTable(jobs)
  BY <1>1, RebuildStartType, MaxStepType DEF TypeInv
<1>3. start >= DayStart(d)
  BY <1>1, RebuildStartInDay
<1>4. InsertDay(rb[p].ring, c, d, start, base)
  BY DEF RbInsert
<1>5. Inserted(jobs, jobs', B, c, d, base, start)
  <2> HIDE DEF c, d, start, base
  <2> QED
    BY <1>1, <1>2, <1>4, DayInserted DEF InsertDay
<1>6. \A k \in DOMAIN jobs' \ DOMAIN jobs : jobs'[k].at \in Nat
  <2>1. GoodTable(jobs')
    BY RebuildType DEF Rebuild, TypeInv
  <2> QED
    BY <2>1 DEF GoodTable, IsTable, Row
<1> HIDE DEF c, d, start, base
<1>7. Inserted(jobs, jobs', B, c, d, base, DayStart(d))
  BY <1>2, <1>3, <1>5, <1>6 DEF Inserted
<1> QED
  BY <1>7 DEF c, d, base

(* The bot inserts the rows of one day, or none.                           *)
LEMMA BotAges ==
  ASSUME TypeInv, NEW c \in Comm, Bot(c), ~BotInsertDay(c)
  PROVE  Aged(jobs, jobs') /\ DOMAIN jobs' = DOMAIN jobs /\ Steady(jobs, jobs')
<1>1. CASE UNCHANGED jobs
  BY <1>1, AgedNothing DEF TypeInv
<1>2. CASE BotCancel(c)
  BY <1>2, AgedCancel DEF TypeInv, BotCancel, CancelPendingForComm
<1> QED
  BY <1>1, <1>2 DEF Bot, BotSaveGroup, BotEnable, BotDelete

(* When the first message of the bot's next day is due.                    *)
NextDay(c) == Day(PlanOf[c].start) + group[c].saved
NextStart(c) == IF group[c].saved = 0 THEN PlanOf[c].start ELSE DayStart(NextDay(c))

LEMMA BotInserts ==
  ASSUME TypeInv, NEW c \in Comm, BotInsertDay(c), ~UNCHANGED jobs
  PROVE  /\ NextDay(c) \in Nat /\ NextStart(c) \in Nat
         /\ Inserted(jobs, jobs', Account, c, NextDay(c), 0, NextStart(c))
         /\ group[c].stage = "saving"
         /\ group' = [group EXCEPT ![c].saved = group[c].saved + 1]
<1>1. group[c].saved \in Nat
  BY DEF TypeInv, RestOK
<1>2. NextDay(c) \in Nat /\ NextStart(c) \in Nat /\ PlanOf[c].ring \in Seq(Account)
  BY <1>1, PlanDayType DEF NextDay, NextStart
<1>3. InsertDay(PlanOf[c].ring, c, NextDay(c), NextStart(c), 0)
  BY DEF BotInsertDay, NextDay, NextStart
<1>4. Inserted(jobs, jobs', Account, c, NextDay(c), 0, NextStart(c))
  BY <1>2, <1>3, DayInserted DEF InsertDay, TypeInv
<1> QED
  BY <1>2, <1>4 DEF BotInsertDay

(* Every step ages the table, and only these two actions insert.           *)
LEMMA StepAges ==
  ASSUME TypeInv, [Next]_vars
  PROVE  /\ Aged(jobs, jobs')
         /\ RescheduleCooling \/ Steady(jobs, jobs')
         /\ \/ DOMAIN jobs' = DOMAIN jobs
            \/ (\E p \in Proc : RbInsert(p)) /\ ~UNCHANGED jobs
            \/ (\E c \in Comm : BotInsertDay(c)) /\ ~UNCHANGED jobs
<1>0. UNCHANGED jobs => /\ Aged(jobs, jobs') /\ Steady(jobs, jobs')
                        /\ DOMAIN jobs' = DOMAIN jobs
  BY AgedNothing DEF TypeInv
<1>1. CASE Dispatch
  BY <1>1, LoopAges
<1>2. ASSUME NEW p \in Proc, Rebuild(p)
      PROVE  /\ Aged(jobs, jobs') /\ Steady(jobs, jobs')
             /\ DOMAIN jobs' = DOMAIN jobs \/ RbInsert(p)
  <2>1. CASE RbInsert(p) /\ ~UNCHANGED jobs
    <3>1. rb[p].ring \in Seq(Account) /\ GoodTable(jobs)
      BY <2>1, RebuildAt DEF RbInsert, TypeInv
    <3> QED
      BY <2>1, <3>1, RebuildInserts, AgedInsertion, Zenon
  <2> QED
    BY <1>0, <1>2, <2>1, RebuildAges
<1>3. ASSUME NEW c \in Comm, Bot(c)
      PROVE  /\ Aged(jobs, jobs') /\ Steady(jobs, jobs')
             /\ DOMAIN jobs' = DOMAIN jobs \/ BotInsertDay(c)
  <2>1. CASE BotInsertDay(c) /\ ~UNCHANGED jobs
    <3>1. GoodTable(jobs)
      BY DEF TypeInv
    <3> QED
      BY <2>1, <3>1, BotInserts, AgedInsertion, Zenon
  <2> QED
    BY <1>0, <1>3, <2>1, BotAges
<1>4. CASE (\E a \in Account : Events(a)) \/ ClockTick \/ Crash \/ UNCHANGED vars
  BY <1>0, <1>4 DEF Events, Report, Mirror, ClockTick, Crash, vars
<1> QED
  BY <1>0, <1>1, <1>2, <1>3, <1>4 DEF Next

------------------------------------------------------------------------------
(* Messages are planned in the send window of their day.                   *)

(* What a step may do to a group: it begins, when its start was accepted,  *)
(* it gets a day, or it leaves its first stages for good.                  *)
GroupMoves(c) ==
  \/ group'[c] = group[c]
  \/ /\ group[c].stage = "none" /\ group'[c].stage = "saving"
     /\ group'[c].saved = group[c].saved
     /\ StartAllowed(PlanOf[c].start, MessageCount(PlanOf[c].ring))
  \/ /\ BotInsertDay(c)
     /\ group'[c].stage = "saving" /\ group'[c].saved = group[c].saved + 1
  \/ /\ group[c].stage # "none"
     /\ group'[c].stage \in {"broken", "enabled", "closing", "closed"}

LEMMA GroupStep ==
  ASSUME TypeInv, [Next]_vars, NEW c \in Comm
  PROVE  /\ GroupMoves(c)
         /\ group[c].stage \in {"enabled", "closing", "closed"} =>
              group'[c].stage \in {"enabled", "closing", "closed"}
<1>1. group \in [Comm -> [stage : {"none", "saving", "broken", "enabled", "closing",
                                   "closed"}, saved : Nat]]
  BY DEF TypeInv, RestOK
<1>2. CASE UNCHANGED group
  BY <1>2 DEF GroupMoves
<1>3. ASSUME NEW e \in Comm, Bot(e)
      PROVE  /\ GroupMoves(c)
             /\ group[c].stage \in {"enabled", "closing", "closed"} =>
                  group'[c].stage \in {"enabled", "closing", "closed"}
  <2>1. CASE e # c
    BY <1>1, <1>3, <2>1 DEF Bot, BotSaveGroup, BotInsertDay, BotEnable, BotCancel,
       BotDelete, BotGivesUp, GroupMoves
  <2>2. CASE e = c /\ ~BotInsertDay(c)
    BY <1>1, <1>3, <2>2 DEF Bot, BotSaveGroup, BotEnable, BotCancel,
       BotDelete, BotGivesUp, GroupMoves
  <2>3. CASE e = c /\ BotInsertDay(c)
    <3>1. group[c].stage = "saving"
      BY <2>3 DEF BotInsertDay
    <3>2. \/ group' = [group EXCEPT ![c].saved = group[c].saved + 1]
          \/ group' = [group EXCEPT ![c].stage = "broken"]
      BY <2>3 DEF BotInsertDay, BotGivesUp
    <3>3. \/ group'[c].stage = "saving" /\ group'[c].saved = group[c].saved + 1
          \/ group'[c].stage = "broken"
      BY <1>1, <3>1, <3>2
    <3> QED
      BY <2>3, <3>1, <3>3 DEF GroupMoves
  <2> QED
    BY <2>1, <2>2, <2>3
<1> QED
  BY <1>2, <1>3 DEF Next, Dispatch, Boot, StartTick, ClaimJobs, SkipJob, LoadAccounts,
     RescheduleCooling, FailJob, SendSucceeds, SendFailsFatally, SendFailsSoftly,
     SendFails, MarkAdminSessionLost, RecordSent, Rebuild, RbList, RbEnabled, RbStale,
     RbRead, RbCancel, RbInsert, RbUnlock, Events, Report, Mirror, ClockTick, Crash, vars

(* The bot has checked the start of every group it has begun to save.      *)
PlansFit ==
  \A c \in Comm :
    group[c].stage # "none" =>
      StartAllowed(PlanOf[c].start, MessageCount(PlanOf[c].ring))

WindowInv == TypeInv /\ PlansFit /\ PlannedInWindow

LEMMA WindowStep == WindowInv /\ [Next]_vars => WindowInv'
<1> SUFFICES ASSUME WindowInv, [Next]_vars PROVE WindowInv'
  OBVIOUS
<1> USE DEF WindowInv
<1>1. TypeInv'
  BY StepType
<1>2. PlansFit'
  BY GroupStep DEF PlansFit, GroupMoves, BotInsertDay
<1>3. Aged(jobs, jobs')
  BY StepAges
<1>4. ASSUME NEW k \in DOMAIN jobs', ~jobs'[k].moved
      PROVE  DayStart(k[2]) <= jobs'[k].at /\ jobs'[k].at < DayEnd(k[2])
  <2>1. CASE k \in DOMAIN jobs
    BY <1>3, <1>4, <2>1 DEF Aged, PlannedInWindow
  <2>2. ASSUME k \notin DOMAIN jobs, NEW p \in Proc, RbInsert(p), ~UNCHANGED jobs
        PROVE  DayStart(k[2]) <= jobs'[k].at /\ jobs'[k].at < DayEnd(k[2])
    <3>1. rb[p].ring \in Seq(Account)
      BY <2>2, RebuildAt DEF RbInsert
    <3> DEFINE c == RbComm(p)
               d == Smallest(rb[p].dates)
    <3>2. Inserted(jobs, jobs', Account, c, d, MaxStep(jobs, c, d), DayStart(d))
      BY <2>2, <3>1, RebuildInserts
    <3> HIDE DEF c, d
    <3> QED
      BY <2>2, <3>2 DEF Inserted
  <2>3. ASSUME k \notin DOMAIN jobs, NEW c \in Comm, BotInsertDay(c), ~UNCHANGED jobs
        PROVE  DayStart(k[2]) <= jobs'[k].at /\ jobs'[k].at < DayEnd(k[2])
    <3>1. /\ Inserted(jobs, jobs', Account, c, NextDay(c), 0, NextStart(c))
          /\ group[c].stage = "saving"
          /\ NextDay(c) \in Nat /\ NextStart(c) \in Nat
      BY <2>3, BotInserts
    <3>2. StartAllowed(PlanOf[c].start, MessageCount(PlanOf[c].ring))
      BY <3>1 DEF PlansFit
    <3>3. DayStart(NextDay(c)) \in Nat
      BY <3>1, RebuildStartType
    <3>4. NextStart(c) >= DayStart(NextDay(c))
      <4>1. CASE group[c].saved = 0
        <5>1. PlanOf[c] \in [ring : Seq(Account), start : Nat, days : Nat \ {0}]
          BY DispatcherAssumption
        <5>2. NextDay(c) = Day(PlanOf[c].start)
          <6>1. PlanOf[c].start \in Nat
            BY <5>1
          <6>2. Day(PlanOf[c].start) \in Nat
            BY <6>1, RingsAssumption DEF Day
          <6> QED
            BY <4>1, <6>2 DEF NextDay
        <5> QED
          BY <3>2, <4>1, <5>2 DEF StartAllowed, NextStart
      <4>2. CASE group[c].saved # 0
        BY <3>3, <4>2 DEF NextStart
      <4> QED
        BY <4>1, <4>2
    <3>5. jobs'[k].at \in Nat
      BY <1>1 DEF TypeInv, GoodTable, IsTable, Row
    <3>6. k[2] = NextDay(c) /\ NextStart(c) <= jobs'[k].at /\ jobs'[k].at < DayEnd(k[2])
      BY <2>3, <3>1 DEF Inserted
    <3> QED
      BY <3>1, <3>3, <3>4, <3>5, <3>6
  <2> QED
    BY <2>1, <2>2, <2>3, StepAges
<1> QED
  BY <1>1, <1>2, <1>4 DEF PlannedInWindow

(* A message that was not rescheduled is planned in the send window of its *)
(* own run date, whether the bot planned it or a rebuild before, in or     *)
(* after that window, with any pauses.                                     *)
THEOREM PlannedInTime == Spec => []PlannedInWindow
<1>1. Init => WindowInv
  BY InitType DEF Init, WindowInv, PlansFit, PlannedInWindow
<1>2. WindowInv => PlannedInWindow
  BY DEF WindowInv
<1> QED
  BY <1>1, <1>2, WindowStep, PTL DEF Spec

------------------------------------------------------------------------------
(* How a rebuild goes.                                                     *)

(* A group counted off.                                                    *)
CountedOff(p) ==
  /\ rb'[p].pc = "comm"
  /\ rb'[p].active = rb[p].active
  /\ rb'[p].affected = rb[p].affected \union {RbComm(p)}
  /\ rb'[p].todo = rb[p].todo \ {RbComm(p)}

(* A step within a group.                                                  *)
SameComm(p) ==
  /\ rb'[p].todo = rb[p].todo
  /\ rb'[p].active = rb[p].active
  /\ rb'[p].affected = rb[p].affected

LEMMA CountingOff ==
  ASSUME TypeInv, NEW p \in Proc, NextComm(p)
  PROVE  CountedOff(p)
BY DEF NextComm, CountedOff, AtComm, TypeInv, RebuildOK

(* The survivors are read.                                                 *)
LEMMA Reading ==
  ASSUME TypeInv, NEW p \in Proc, RbRead(p)
  PROVE  \/ CountedOff(p) /\ Fault
         \/ /\ rb'[p].pc = "cancel" /\ SameComm(p)
            /\ rb'[p].dates = PendingDates(jobs, RbComm(p))
            /\ RbComm(p) \in rb[p].active
            /\ rb'[p].ring \in Seq(Account \ {Dropped(p)})
            /\ rb'[p].ring \in Seq(Survivors(p))
<1>1. CASE NextComm(p) /\ Fault
  BY <1>1, CountingOff
<1>2. ASSUME NEW lost \in SUBSET Survivors(p),
             NEW ring \in RingOrders(jobs, RbComm(p), Survivors(p) \ lost),
             rb' = [rb EXCEPT ![p].pc = "cancel", ![p].ring = ring,
                              ![p].dates = PendingDates(jobs, RbComm(p))]
      PROVE  /\ rb'[p].pc = "cancel" /\ SameComm(p)
             /\ rb'[p].dates = PendingDates(jobs, RbComm(p))
             /\ rb'[p].ring \in Seq(Account \ {Dropped(p)})
             /\ rb'[p].ring \in Seq(Survivors(p))
  <2> DEFINE dates == PendingDates(jobs, RbComm(p))
             r3 == [rb[p] EXCEPT !.pc = "cancel", !.ring = ring, !.dates = dates]
             n == Cardinality(Survivors(p) \ lost)
  <2>1. Survivors(p) \ lost \subseteq Account \ {Dropped(p)}
    BY ReadTypes DEF Survivors, TypeInv
  <2>2. n \in Nat
    BY <2>1, DispatcherAssumption, FS_Subset, FS_CardinalityType
  <2>3. ring \in [1..n -> Account \ {Dropped(p)}] /\ ring \in [1..n -> Survivors(p)]
    BY <2>1 DEF RingOrders
  <2>4. ring \in Seq(Account \ {Dropped(p)}) /\ ring \in Seq(Survivors(p))
    <3> HIDE DEF n
    <3> QED
      BY <2>2, <2>3
  <2>5. rb[p] \in RebuildState /\ rb'[p] = r3
    BY <1>2 DEF TypeInv, RebuildOK
  <2> HIDE DEF dates
  <2>6. /\ r3.pc = "cancel" /\ r3.ring = ring /\ r3.dates = dates
        /\ r3.todo = rb[p].todo /\ r3.active = rb[p].active
        /\ r3.affected = rb[p].affected
    BY <2>5 DEF RebuildState
  <2> HIDE DEF r3
  <2> QED
    BY <2>4, <2>5, <2>6 DEF SameComm, dates
<1> QED
  BY <1>1, <1>2 DEF RbRead

(* The open jobs of a group are cancelled.                                 *)
LEMMA Cancelling ==
  ASSUME TypeInv, NEW p \in Proc, RbCancel(p)
  PROVE  \/ CountedOff(p) /\ Fault
         \/ /\ CountedOff(p) \/ /\ rb'[p].pc = "insert" /\ SameComm(p)
                                /\ rb'[p].ring = rb[p].ring
                                /\ rb'[p].dates = rb[p].dates
            /\ DOMAIN jobs' = DOMAIN jobs
            /\ \A k \in OfComm(jobs, RbComm(p)) : jobs'[k].status \notin OpenStatus
<1>1. CASE NextComm(p) /\ Fault
  BY <1>1, CountingOff
<1>2. CASE jobs' = CancelPendingForComm(jobs, RbComm(p))
  <2>1. DOMAIN jobs' = DOMAIN jobs
    BY <1>2, AgedCancel DEF CancelPendingForComm, TypeInv
  <2>2. ASSUME NEW k \in OfComm(jobs, RbComm(p))
        PROVE  jobs'[k].status \notin OpenStatus
    <3>1. k \in DOMAIN jobs /\ jobs[k] \in Row(Account)
      BY DEF OfComm, TypeInv, GoodTable, IsTable
    <3>2. CASE k \in OpenJobs(jobs)
      <4>1. jobs'[k] = [jobs[k] EXCEPT !.status = "cancelled"]
        BY <1>2, <3>1, <3>2 DEF CancelPendingForComm, Cancel, SetStatus
      <4>2. jobs'[k].status = "cancelled"
        BY <3>1, <4>1 DEF Row
      <4> QED
        BY <4>2 DEF OpenStatus
    <3>3. CASE k \notin OpenJobs(jobs)
      <4>1. jobs'[k] = jobs[k]
        BY <1>2, <3>1, <3>3 DEF CancelPendingForComm, Cancel, SetStatus
      <4> QED
        BY <3>1, <3>3, <4>1 DEF OpenJobs
    <3> QED
      BY <3>2, <3>3
  <2>3. CASE NextComm(p)
    BY <2>1, <2>2, <2>3, CountingOff
  <2>4. CASE rb' = [rb EXCEPT ![p].pc = "insert", ![p].now = clock]
    <3> DEFINE r2 == [rb[p] EXCEPT !.pc = "insert", !.now = clock]
    <3>1. rb[p] \in RebuildState /\ rb'[p] = r2
      BY <2>4 DEF TypeInv, RebuildOK
    <3>2. /\ r2.pc = "insert" /\ r2.ring = rb[p].ring /\ r2.dates = rb[p].dates
          /\ r2.todo = rb[p].todo /\ r2.active = rb[p].active
          /\ r2.affected = rb[p].affected
      BY <3>1 DEF RebuildState
    <3> HIDE DEF r2
    <3> QED
      BY <2>1, <2>2, <3>1, <3>2 DEF SameComm
  <2> QED
    BY <1>2, <2>3, <2>4 DEF RbCancel
<1> QED
  BY <1>1, <1>2 DEF RbCancel

(* A day is inserted, and is not inserted again.                           *)
LEMMA Inserting ==
  ASSUME TypeInv, NEW p \in Proc, RbInsert(p)
  PROVE  /\ rb'[p] # rb[p]
         /\ \/ CountedOff(p)
            \/ /\ rb'[p].pc = "insert" /\ SameComm(p)
               /\ rb'[p].ring = rb[p].ring
               /\ rb'[p].dates = rb[p].dates \ {Smallest(rb[p].dates)}
<1>1. rb[p] \in RebuildState /\ rb[p].pc = "insert"
  BY DEF TypeInv, RebuildOK, RbInsert
<1>2. CASE NextComm(p)
  <2>1. CountedOff(p)
    BY <1>2, CountingOff
  <2> QED
    BY <1>1, <2>1 DEF CountedOff
<1>3. CASE rb' = [rb EXCEPT ![p].dates = @ \ {Smallest(rb[p].dates)}]
  <2> DEFINE dates == rb[p].dates \ {Smallest(rb[p].dates)}
             r1 == [rb[p] EXCEPT !.dates = dates]
  <2>1. rb'[p] = r1
    BY <1>3 DEF TypeInv, RebuildOK
  <2>2. dates # rb[p].dates
    BY RebuildAt, <1>1
  <2> HIDE DEF dates
  <2>3. /\ r1.pc = "insert" /\ r1.ring = rb[p].ring /\ r1.dates = dates
        /\ r1.todo = rb[p].todo /\ r1.active = rb[p].active
        /\ r1.affected = rb[p].affected
    BY <1>1 DEF RebuildState
  <2> HIDE DEF r1
  <2> QED
    BY <2>1, <2>2, <2>3 DEF SameComm, dates
<1> QED
  BY <1>2, <1>3 DEF RbInsert

(* The other steps come before or after the work on a group.               *)
LEMMA AroundGroups ==
  ASSUME TypeInv, NEW p \in Proc
  PROVE  /\ RbList(p) => rb'[p] = rb[p] \/ rb'[p].pc = "enabled"
         /\ RbEnabled(p) => /\ rb'[p].pc = "comm" /\ rb'[p].affected = {}
                            /\ rb'[p].active = EnabledComms \/ Fault
         /\ RbStale(p) => CountedOff(p) /\ RbComm(p) \notin rb[p].active
         /\ RbUnlock(p) => rb'[p].pc = "idle"
<1>1. rb \in [Proc -> RebuildState]
  BY DEF TypeInv, RebuildOK
<1>2. RbList(p) => rb'[p] = rb[p] \/ rb'[p].pc = "enabled"
  <2> SUFFICES ASSUME RbList(p) PROVE rb'[p] = rb[p] \/ rb'[p].pc = "enabled"
    OBVIOUS
  <2> DEFINE comms == CommsInvolving(jobs, Dropped(p))
             new == [NoRebuild EXCEPT !.pc = "enabled", !.todo = comms]
  <2>1. rb' = rb \/ rb' = [rb EXCEPT ![p] = new]
    BY DEF RbList
  <2> HIDE DEF comms
  <2>2. new.pc = "enabled"
    BY DEF NoRebuild
  <2> HIDE DEF new
  <2> QED
    BY <1>1, <2>1, <2>2
<1>3. RbEnabled(p) => /\ rb'[p].pc = "comm" /\ rb'[p].affected = {}
                      /\ rb'[p].active = EnabledComms \/ Fault
  BY <1>1 DEF RbEnabled, AtComm
<1>4. RbStale(p) => CountedOff(p) /\ RbComm(p) \notin rb[p].active
  BY CountingOff DEF RbStale
<1>5. RbUnlock(p) => rb'[p].pc = "idle"
  BY <1>1 DEF RbUnlock, NoRebuild
<1> QED
  BY <1>2, <1>3, <1>4, <1>5

(* A step of one process leaves the rebuilds of the others alone.          *)
LEMMA RebuildStep ==
  ASSUME TypeInv, [Next]_vars
  PROVE  \/ UNCHANGED <<rb, rebuildMu>> /\ \A p \in Proc : ~RbInsert(p)
         \/ Crash /\ \A p \in Proc : rb'[p].pc = "idle"
         \/ \E p \in Proc : Rebuild(p) /\ \A q \in Proc \ {p} : rb'[q] = rb[q]
<1>1. rb \in [Proc -> RebuildState]
  BY DEF TypeInv, RebuildOK
<1>2. ASSUME NEW p \in Proc, Rebuild(p)
      PROVE  \A q \in Proc \ {p} : rb'[q] = rb[q]
  BY <1>1, <1>2 DEF Rebuild, RbList, RbEnabled, RbStale, RbRead, RbCancel, RbInsert,
     RbUnlock, NextComm
<1>3. CASE Crash
  BY <1>3 DEF Crash, NoRebuild
<1>4. CASE \E p \in Proc : Rebuild(p)
  BY <1>2, <1>4
<1>5. ASSUME UNCHANGED rb, NEW p \in Proc
      PROVE  ~RbInsert(p)
  BY <1>5, Inserting
<1> QED
  BY <1>3, <1>4, <1>5 DEF Next, Dispatch, Boot, StartTick, ClaimJobs, SkipJob,
     LoadAccounts, RescheduleCooling, FailJob, SendSucceeds, SendFailsFatally,
     SendFailsSoftly, SendFails, MarkAdminSessionLost, RecordSent, Events, Report,
     Mirror, ClockTick, Bot, BotSaveGroup, BotInsertDay, BotEnable, BotCancel,
     BotDelete, vars

------------------------------------------------------------------------------
(* Rebuilds exclude each other.                                            *)

Rebuilding(p) == rb[p].pc # "idle"

MuHeld == \A p \in Proc : Rebuilding(p) => rebuildMu = p

(* No two processes rebuild at once.                                       *)
LEMMA Alone ==
  ASSUME MuHeld, NEW p \in Proc, NEW q \in Proc, Rebuilding(p), Rebuilding(q)
  PROVE  p = q
BY DEF MuHeld

(* Whoever rebuilds holds rebuildMu.                                       *)
LEMMA MuStep == TypeInv /\ MuHeld /\ [Next]_vars => MuHeld'
<1> SUFFICES ASSUME TypeInv, MuHeld, [Next]_vars, NEW q \in Proc, Rebuilding(q)'
             PROVE  rebuildMu' = q
  BY DEF MuHeld
<1>1. CASE UNCHANGED <<rb, rebuildMu>>
  BY <1>1 DEF MuHeld, Rebuilding
<1>2. CASE \A p \in Proc : rb'[p].pc = "idle"
  BY <1>2 DEF Rebuilding
<1>3. ASSUME NEW p \in Proc, Rebuild(p), \A r \in Proc \ {p} : rb'[r] = rb[r]
      PROVE  rebuildMu' = q
  <2>1. NoProc \notin Proc
    BY DispatcherAssumption DEF Proc
  <2>2. CASE RbList(p) /\ ~UNCHANGED <<rb, rebuildMu>>
    <3>1. rebuildMu = NoProc /\ rebuildMu' = p
      BY <2>2 DEF RbList, MuFree
    <3> QED
      BY <1>3, <2>1, <3>1 DEF MuHeld, Rebuilding
  <2>3. CASE RbUnlock(p)
    <3>1. rb[p].pc # "idle" /\ rb'[p].pc = "idle"
      BY <2>3, AroundGroups DEF RbUnlock
    <3> QED
      BY <1>3, <3>1 DEF MuHeld, Rebuilding
  <2>4. CASE RbEnabled(p) \/ RbStale(p) \/ RbRead(p) \/ RbCancel(p) \/ RbInsert(p)
    <3>1. rb[p].pc # "idle" /\ UNCHANGED rebuildMu
      BY <2>4 DEF RbEnabled, RbStale, RbRead, RbCancel, RbInsert
    <3> QED
      BY <1>3, <3>1 DEF MuHeld, Rebuilding
  <2> QED
    BY <1>1, <1>3, <2>2, <2>3, <2>4 DEF Rebuild
<1> QED
  BY <1>1, <1>2, <1>3, RebuildStep

------------------------------------------------------------------------------
(* The days the bot still has to insert are empty.                         *)
FreshDays ==
  \A c \in Comm :
    /\ group[c].stage = "none" => group[c].saved = 0 /\ OfComm(jobs, c) = {}
    /\ group[c].stage = "saving" => \A k \in OfComm(jobs, c) : k[2] < NextDay(c)

(* A rebuild inserts rows on days that the group had rows on.              *)
RebuiltDays ==
  \A p \in Proc :
    rb[p].pc \in {"cancel", "insert"} =>
      \A d \in rb[p].dates : OfDay(jobs, RbComm(p), d) # {}

(* Before it inserts, it has closed the rows of those days.                *)
Cleared ==
  \A p \in Proc :
    rb[p].pc = "insert" =>
      \A d \in rb[p].dates : \A k \in OfDay(jobs, RbComm(p), d) :
        IsOpen(k) => jobs[k].moved

RingInv == TypeInv /\ MuHeld /\ FreshDays /\ RebuiltDays /\ Cleared /\ OneRingPerDay

(* The bot never inserts on a day that has rows.                           *)
LEMMA BotDayIsFresh ==
  ASSUME FreshDays, NEW c \in Comm, group[c].stage = "saving", NextDay(c) \in Nat,
         NEW k \in DOMAIN jobs, k[1] = c, k[2] = NextDay(c)
  PROVE  FALSE
BY DEF FreshDays, OfComm

(* Every day of a rebuild has a row, of a group that was saved so far.     *)
LEMMA RebuiltDayHasRow ==
  ASSUME TypeInv, FreshDays, RebuiltDays, NEW p \in Proc,
         rb[p].pc \in {"cancel", "insert"}, NEW d \in rb[p].dates
  PROVE  /\ \E k \in DOMAIN jobs : k[1] = RbComm(p) /\ k[2] = d
         /\ group[RbComm(p)].stage # "none"
         /\ group[RbComm(p)].stage = "saving" => d < NextDay(RbComm(p))
<1>1. PICK k \in DOMAIN jobs : k[1] = RbComm(p) /\ k[2] = d
  BY DEF RebuiltDays, OfDay
<1>2. RbComm(p) \in Comm
  BY RebuildAt
<1> QED
  BY <1>1, <1>2 DEF FreshDays, OfComm

(* The bot's part of a step.                                               *)
LEMMA FreshStep == RingInv /\ [Next]_vars => FreshDays'
<1> SUFFICES ASSUME RingInv, [Next]_vars, NEW c \in Comm
             PROVE  /\ group'[c].stage = "none" =>
                         group'[c].saved = 0 /\ OfComm(jobs', c) = {}
                    /\ group'[c].stage = "saving" =>
                         \A k \in OfComm(jobs', c) : k[2] < NextDay(c)'
  BY DEF FreshDays
<1> USE DEF RingInv
<1>1. GroupMoves(c)
  BY GroupStep
<1>2. group[c].saved \in Nat /\ group'[c].saved \in Nat
  <2>1. TypeInv'
    BY StepType
  <2> QED
    BY <2>1 DEF TypeInv, RestOK
<1>3. Day(PlanOf[c].start) \in Int
  <2>1. PlanOf[c] \in [ring : Seq(Account), start : Nat, days : Nat \ {0}]
    BY DispatcherAssumption
  <2>2. PlanOf[c].start \in Nat
    BY <2>1
  <2> QED
    BY <2>2, RingsAssumption DEF Day
<1>4. \A k \in DOMAIN jobs' : k[2] \in Nat
  <2>1. TypeInv'
    BY StepType
  <2> QED
    BY <2>1 DEF TypeInv, GoodTable, Key
<1>5. NextDay(c)' = Day(PlanOf[c].start) + group'[c].saved
  BY DEF NextDay
<1>6. ASSUME NEW k \in DOMAIN jobs', k \notin DOMAIN jobs, k[1] = c
      PROVE  /\ group[c].stage # "none"
             /\ group[c].stage = "saving" =>
                  \/ k[2] < NextDay(c)
                  \/ BotInsertDay(c) /\ k[2] = NextDay(c) /\ ~UNCHANGED jobs
  <2>1. ASSUME NEW p \in Proc, RbInsert(p), ~UNCHANGED jobs
        PROVE  /\ group[c].stage # "none"
               /\ group[c].stage = "saving" => k[2] < NextDay(c)
    <3>1. rb[p].pc = "insert" /\ rb[p].ring \in Seq(Account)
          /\ Smallest(rb[p].dates) \in rb[p].dates
      BY <2>1, RebuildAt DEF RbInsert
    <3> DEFINE d == Smallest(rb[p].dates)
    <3>2. Inserted(jobs, jobs', Account, RbComm(p), d, MaxStep(jobs, RbComm(p), d),
                   DayStart(d))
      BY <2>1, <3>1, RebuildInserts
    <3>3. k[1] = RbComm(p) /\ k[2] = d
      BY <1>6, <3>2 DEF Inserted
    <3> HIDE DEF d
    <3> QED
      BY <1>6, <3>1, <3>3, RebuiltDayHasRow DEF d
  <2>2. ASSUME NEW e \in Comm, BotInsertDay(e), ~UNCHANGED jobs
        PROVE  group[c].stage = "saving" /\ BotInsertDay(c) /\ k[2] = NextDay(c)
    <3>1. /\ Inserted(jobs, jobs', Account, e, NextDay(e), 0, NextStart(e))
          /\ group[e].stage = "saving"
      BY <2>2, BotInserts
    <3>2. k[1] = e /\ k[2] = NextDay(e)
      BY <1>6, <3>1 DEF Inserted
    <3> QED
      BY <1>6, <2>2, <3>1, <3>2
  <2> QED
    BY <1>6, <2>1, <2>2, StepAges
<1>7. \A k \in OfComm(jobs', c) : k \in OfComm(jobs, c) \/ k \in DOMAIN jobs' \ DOMAIN jobs
  BY DEF OfComm
<1>8. CASE group'[c].stage = "none"
  <2>1. group'[c] = group[c]
    BY <1>1, <1>8 DEF GroupMoves
  <2>2. OfComm(jobs, c) = {} /\ group[c].saved = 0
    BY <1>8, <2>1 DEF FreshDays
  <2> QED
    BY <1>6, <1>7, <1>8, <2>1, <2>2 DEF OfComm
<1>9. CASE group'[c].stage = "saving"
  <2>1. CASE group[c].stage = "none"
    <3>1. OfComm(jobs, c) = {}
      BY <2>1 DEF FreshDays
    <3>2. OfComm(jobs', c) = {}
      BY <1>6, <1>7, <2>1, <3>1 DEF OfComm
    <3> QED
      BY <1>9, <3>2
  <2>2. CASE group[c].stage = "saving"
    <3>1. /\ group'[c].saved = group[c].saved \/ group'[c].saved = group[c].saved + 1
          /\ BotInsertDay(c) /\ ~UNCHANGED jobs => group'[c].saved = group[c].saved + 1
      <4>1. BotInsertDay(c) /\ ~UNCHANGED jobs => group'[c].saved = group[c].saved + 1
        BY BotInserts DEF TypeInv, RestOK
      <4> QED
        BY <1>1, <1>9, <2>2, <4>1 DEF GroupMoves
    <3>2. ASSUME NEW k \in OfComm(jobs', c)
          PROVE  k[2] < NextDay(c)'
      <4>1. k \in DOMAIN jobs' /\ k[1] = c /\ k[2] \in Nat
        BY <1>4 DEF OfComm
      <4>2. NextDay(c) = Day(PlanOf[c].start) + group[c].saved
        BY DEF NextDay
      <4>3. CASE k \in OfComm(jobs, c)
        <5>1. k[2] < NextDay(c)
          BY <2>2, <4>3 DEF FreshDays
        <5> QED
          BY <1>2, <1>3, <1>5, <3>1, <4>1, <4>2, <5>1
      <4>4. CASE k \in DOMAIN jobs' \ DOMAIN jobs
        <5>1. k[2] < NextDay(c) \/ (BotInsertDay(c) /\ ~UNCHANGED jobs /\ k[2] = NextDay(c))
          BY <1>6, <2>2, <4>1, <4>4
        <5> QED
          BY <1>2, <1>3, <1>5, <3>1, <4>1, <4>2, <5>1
      <4> QED
        BY <1>7, <4>3, <4>4
    <3> QED
      BY <1>9, <3>2
  <2>3. group[c].stage \in {"none", "saving"}
    BY <1>1, <1>9 DEF GroupMoves, BotInsertDay
  <2> QED
    BY <2>1, <2>2, <2>3
<1> QED
  BY <1>8, <1>9

(* The days of a rebuild are read from the table, and rows stay.           *)
LEMMA RebuiltStep == RingInv /\ [Next]_vars => RebuiltDays'
<1> SUFFICES ASSUME RingInv, [Next]_vars, NEW p \in Proc,
                    rb'[p].pc \in {"cancel", "insert"}, NEW d \in rb'[p].dates
             PROVE  \E k \in DOMAIN jobs' : k[1] = RbComm(p)' /\ k[2] = d
  BY DEF RebuiltDays, OfDay
<1> USE DEF RingInv
<1>1. DOMAIN jobs \subseteq DOMAIN jobs'
  BY StepAges DEF Aged
<1>2. CASE rb'[p] = rb[p]
  <2>1. RbComm(p)' = RbComm(p) /\ d \in rb[p].dates /\ rb[p].pc \in {"cancel", "insert"}
    BY <1>2 DEF RbComm
  <2> QED
    BY <1>1, <2>1, RebuiltDayHasRow
<1>3. CASE Rebuild(p) /\ rb'[p] # rb[p]
  <2>1. ~CountedOff(p)
    BY DEF CountedOff
  <2>2. CASE RbRead(p)
    <3>1. rb'[p].todo = rb[p].todo /\ rb'[p].dates = PendingDates(jobs, RbComm(p))
      BY <2>1, <2>2, Reading DEF SameComm
    <3>2. RbComm(p)' = RbComm(p)
      BY <3>1 DEF RbComm
    <3>3. \E k \in DOMAIN jobs : k[1] = RbComm(p) /\ k[2] = d
      BY <3>1 DEF PendingDates, OpenJobs, OfComm
    <3> QED
      BY <1>1, <3>2, <3>3
  <2>3. CASE RbCancel(p) \/ RbInsert(p)
    <3>1. rb'[p].todo = rb[p].todo /\ d \in rb[p].dates /\ rb[p].pc \in {"cancel", "insert"}
      BY <2>1, <2>3, Cancelling, Inserting DEF SameComm, RbCancel, RbInsert
    <3>2. RbComm(p)' = RbComm(p)
      BY <3>1 DEF RbComm
    <3> QED
      BY <1>1, <3>1, <3>2, RebuiltDayHasRow
  <2>4. ~RbList(p) /\ ~RbEnabled(p) /\ ~RbStale(p) /\ ~RbUnlock(p)
    BY <1>3, <2>1, AroundGroups
  <2> QED
    BY <1>3, <2>2, <2>3, <2>4 DEF Rebuild
<1> QED
  BY <1>2, <1>3, RebuildStep

(* A row that is new in a step, and who inserted it.                       *)
LEMMA RowComesFrom ==
  ASSUME RingInv, [Next]_vars, NEW k \in DOMAIN jobs', k \notin DOMAIN jobs
  PROVE  \/ \E p \in Proc : /\ RbInsert(p)
                            /\ k[1] = RbComm(p) /\ k[2] = Smallest(rb[p].dates)
                            /\ jobs'[k].base = MaxStep(jobs, k[1], k[2])
         \/ /\ k[1] \in Comm /\ group[k[1]].stage = "saving"
            /\ k[2] = NextDay(k[1]) /\ k[2] \in Nat /\ jobs'[k].base = 0
<1> USE DEF RingInv
<1>1. ASSUME NEW p \in Proc, RbInsert(p), ~UNCHANGED jobs
      PROVE  /\ k[1] = RbComm(p) /\ k[2] = Smallest(rb[p].dates)
             /\ jobs'[k].base = MaxStep(jobs, k[1], k[2])
  <2>1. rb[p].ring \in Seq(Account)
    BY <1>1, RebuildAt DEF RbInsert
  <2> DEFINE d == Smallest(rb[p].dates)
  <2>2. Inserted(jobs, jobs', Account, RbComm(p), d, MaxStep(jobs, RbComm(p), d), DayStart(d))
    BY <1>1, <2>1, RebuildInserts
  <2> HIDE DEF d
  <2>3. k[1] = RbComm(p) /\ k[2] = d /\ jobs'[k].base = MaxStep(jobs, RbComm(p), d)
    BY <2>2 DEF Inserted
  <2> QED
    BY <2>3 DEF d
<1>2. ASSUME NEW c \in Comm, BotInsertDay(c), ~UNCHANGED jobs
      PROVE  /\ k[1] \in Comm /\ group[k[1]].stage = "saving"
             /\ k[2] = NextDay(k[1]) /\ k[2] \in Nat /\ jobs'[k].base = 0
  <2>1. /\ Inserted(jobs, jobs', Account, c, NextDay(c), 0, NextStart(c))
        /\ group[c].stage = "saving" /\ NextDay(c) \in Nat
    BY <1>2, BotInserts
  <2>2. k[1] = c /\ k[2] = NextDay(c) /\ jobs'[k].base = 0
    BY <2>1 DEF Inserted
  <2> QED
    BY <2>1, <2>2
<1> QED
  BY <1>1, <1>2, StepAges

(* What a rebuild has closed stays closed until it inserts.                *)
LEMMA ClearedStep == RingInv /\ [Next]_vars => Cleared'
<1> SUFFICES ASSUME RingInv, [Next]_vars, NEW p \in Proc, rb'[p].pc = "insert",
                    NEW d \in rb'[p].dates, NEW k \in DOMAIN jobs',
                    k[1] = RbComm(p)', k[2] = d, jobs'[k].status \in OpenStatus
             PROVE  jobs'[k].moved
  BY DEF Cleared, OfDay, IsOpen
<1> USE DEF RingInv
<1>1. Aged(jobs, jobs')
  BY StepAges
<1>2. CASE rb'[p] = rb[p]
  <2>1. RbComm(p)' = RbComm(p) /\ d \in rb[p].dates /\ rb[p].pc = "insert"
    BY <1>2 DEF RbComm
  <2>2. CASE k \in DOMAIN jobs
    <3>1. jobs'[k].moved \/ (jobs[k].status \in OpenStatus /\ jobs'[k].moved = jobs[k].moved)
      BY <1>1, <2>2 DEF Aged
    <3>2. jobs[k].status \in OpenStatus => jobs[k].moved
      BY <2>1, <2>2 DEF Cleared, OfDay, IsOpen
    <3> QED
      BY <3>1, <3>2
  <2>3. CASE k \notin DOMAIN jobs
    <3>1. ~RbInsert(p)
      BY <1>2, Inserting
    <3>2. ASSUME NEW q \in Proc, RbInsert(q)
          PROVE  FALSE
      <4>1. q = p
        BY <2>1, <3>2, Alone DEF RbInsert, Rebuilding
      <4> QED
        BY <3>1, <3>2, <4>1
    <3>3. group[RbComm(p)].stage = "saving" /\ d = NextDay(RbComm(p)) /\ d \in Nat
      BY <2>1, <2>3, <3>2, RowComesFrom
    <3>4. d < NextDay(RbComm(p))
      BY <2>1, <3>3, RebuiltDayHasRow
    <3> QED
      BY <3>3, <3>4
  <2> QED
    BY <2>2, <2>3
<1>3. CASE Rebuild(p) /\ rb'[p] # rb[p]
  <2>1. ~CountedOff(p)
    BY DEF CountedOff
  <2>2. ~RbRead(p)
    BY <2>1, Reading
  <2>3. CASE RbCancel(p)
    <3>1. /\ rb'[p].todo = rb[p].todo /\ DOMAIN jobs' = DOMAIN jobs
          /\ \A l \in OfComm(jobs, RbComm(p)) : jobs'[l].status \notin OpenStatus
      BY <2>1, <2>3, Cancelling DEF SameComm
    <3>2. RbComm(p)' = RbComm(p)
      BY <3>1 DEF RbComm
    <3> QED
      BY <3>1, <3>2 DEF OfComm
  <2>4. CASE RbInsert(p)
    <3>1. /\ rb'[p].todo = rb[p].todo /\ d \in rb[p].dates /\ d # Smallest(rb[p].dates)
          /\ rb[p].pc = "insert"
      BY <2>1, <2>4, Inserting DEF SameComm, RbInsert
    <3>2. RbComm(p)' = RbComm(p)
      BY <3>1 DEF RbComm
    <3>3. k \in DOMAIN jobs
      <4> SUFFICES ASSUME k \notin DOMAIN jobs PROVE FALSE
        OBVIOUS
      <4>1. ASSUME NEW q \in Proc, RbInsert(q)
            PROVE  q = p
        BY <3>1, <4>1, Alone DEF RbInsert, Rebuilding
      <4>2. group[RbComm(p)].stage = "saving" /\ d = NextDay(RbComm(p)) /\ d \in Nat
        BY <3>1, <3>2, <4>1, RowComesFrom
      <4>3. d < NextDay(RbComm(p))
        BY <3>1, <4>2, RebuiltDayHasRow
      <4> QED
        BY <4>2, <4>3
    <3>4. jobs'[k].moved \/ (jobs[k].status \in OpenStatus /\ jobs'[k].moved = jobs[k].moved)
      BY <1>1, <3>3 DEF Aged
    <3>5. jobs[k].status \in OpenStatus => jobs[k].moved
      BY <3>1, <3>2, <3>3 DEF Cleared, OfDay, IsOpen
    <3> QED
      BY <3>4, <3>5
  <2>5. ~RbList(p) /\ ~RbEnabled(p) /\ ~RbStale(p) /\ ~RbUnlock(p)
    BY <1>3, <2>1, AroundGroups
  <2> QED
    BY <1>3, <2>2, <2>3, <2>4, <2>5 DEF Rebuild
<1> QED
  BY <1>2, <1>3, RebuildStep

(* The open rows of a day have one base.                                   *)
LEMMA OneRingStep == RingInv /\ [Next]_vars => OneRingPerDay'
<1> SUFFICES ASSUME RingInv, [Next]_vars, NEW k \in DOMAIN jobs', NEW l \in DOMAIN jobs',
                    k[1] = l[1], k[2] = l[2],
                    jobs'[k].status \in OpenStatus, jobs'[l].status \in OpenStatus,
                    ~jobs'[k].moved, ~jobs'[l].moved
             PROVE  jobs'[k].base = jobs'[l].base
  BY DEF OneRingPerDay, IsOpen
<1> USE DEF RingInv
<1> DEFINE OpenUnmoved(n) == jobs[n].status \in OpenStatus /\ ~jobs[n].moved
<1>1. \A n \in DOMAIN jobs :
        jobs'[n].status \in OpenStatus /\ ~jobs'[n].moved =>
          OpenUnmoved(n) /\ jobs'[n].base = jobs[n].base
  BY StepAges DEF Aged
<1>2. CASE k \in DOMAIN jobs /\ l \in DOMAIN jobs
  <2>1. OpenUnmoved(k) /\ OpenUnmoved(l)
        /\ jobs'[k].base = jobs[k].base /\ jobs'[l].base = jobs[l].base
    BY <1>1, <1>2
  <2> QED
    BY <1>2, <2>1 DEF OneRingPerDay, IsOpen
<1>3. ASSUME NEW old \in DOMAIN jobs, NEW new \in DOMAIN jobs', new \notin DOMAIN jobs,
             old[1] = new[1], old[2] = new[2], OpenUnmoved(old)
      PROVE  FALSE
  <2>1. ASSUME NEW p \in Proc, RbInsert(p),
               new[1] = RbComm(p), new[2] = Smallest(rb[p].dates)
        PROVE  FALSE
    <3>1. rb[p].pc = "insert" /\ new[2] \in rb[p].dates
      BY <2>1, RebuildAt DEF RbInsert
    <3> QED
      BY <1>3, <2>1, <3>1 DEF Cleared, OfDay, IsOpen
  <2>2. CASE /\ new[1] \in Comm /\ group[new[1]].stage = "saving"
             /\ new[2] = NextDay(new[1]) /\ new[2] \in Nat
    BY <1>3, <2>2, BotDayIsFresh
  <2> QED
    BY <1>3, <2>1, <2>2, RowComesFrom
<1>4. CASE k \notin DOMAIN jobs /\ l \notin DOMAIN jobs
  <2>1. ASSUME NEW n \in DOMAIN jobs', n \notin DOMAIN jobs,
               NEW p \in Proc, RbInsert(p), n[1] = RbComm(p), n[2] = Smallest(rb[p].dates)
        PROVE  ~(group[n[1]].stage = "saving" /\ n[2] = NextDay(n[1]) /\ n[2] \in Nat)
    <3>1. rb[p].pc = "insert" /\ n[2] \in rb[p].dates
      BY <2>1, RebuildAt DEF RbInsert
    <3> QED
      BY <2>1, <3>1, RebuiltDayHasRow
  <2> QED
    BY <1>4, <2>1, RowComesFrom
<1> QED
  BY <1>1, <1>2, <1>3, <1>4

(* The invariant of the rings is inductive.                                *)
LEMMA RingStarts == Init => RingInv
BY InitType DEF Init, RingInv, MuHeld, Rebuilding, NoRebuild, FreshDays, OfComm,
   RebuiltDays, Cleared, OneRingPerDay, Proc

LEMMA RingStep == RingInv /\ [Next]_vars => RingInv'
BY StepType, MuStep, FreshStep, RebuiltStep, ClearedStep, OneRingStep DEF RingInv

(* Two rebuilds of one group never both leave their dialogue, whatever     *)
(* crashes, failing statements, reschedules and days of the bot fall       *)
(* between their writes: the open jobs of a day that were not rescheduled  *)
(* stem from one insertion.                                                *)
THEOREM OneDialogueADay == Spec => []OneRingPerDay
<1>1. RingInv => OneRingPerDay
  BY DEF RingInv
<1> QED
  BY <1>1, RingStarts, RingStep, PTL DEF Spec

------------------------------------------------------------------------------
(* A drop takes effect.                                                    *)

(* While the loop rebuilds, it does nothing else.                          *)
LEMMA LoopRests ==
  ASSUME TypeInv, [Next]_vars, Rebuilding(Loop), Rebuilding(Loop)'
  PROVE  UNCHANGED loopVars
<1>1. dpc = "exclude"
  BY DEF TypeInv, LoopWaits, Rebuilding
<1>2. ~Dispatch
  BY <1>1 DEF Dispatch, Boot, StartTick, ClaimJobs, SkipJob, LoadAccounts,
     RescheduleCooling, FailJob, SendSucceeds, SendFailsFatally, SendFailsSoftly,
     SendFails, MarkAdminSessionLost, RecordSent
<1>3. ~Crash
  BY DEF Crash, Rebuilding, NoRebuild, Proc
<1>4. ASSUME NEW p \in Proc, Rebuild(p)
      PROVE  UNCHANGED loopVars
  <2>1. CASE p = Loop
    <3>1. ~RbList(p) /\ ~RbUnlock(p)
      BY <2>1, AroundGroups DEF RbList, Rebuilding
    <3> QED
      BY <1>4, <3>1 DEF Rebuild, RbEnabled, RbStale, RbRead, RbCancel, RbInsert
  <2>2. CASE p # Loop
    BY <1>4, <2>2 DEF Rebuild, RbList, RbEnabled, RbStale, RbRead, RbCancel, RbInsert,
       RbUnlock, RbReturn
  <2> QED
    BY <2>1, <2>2
<1> QED
  BY <1>2, <1>3, <1>4 DEF Next, Events, Report, Mirror, Bot, BotSaveGroup, BotInsertDay,
     BotEnable, BotCancel, BotDelete, ClockTick, vars, loopVars

(* A rebuild is about one account from its beginning to its end.           *)
LEMMA DroppedKept ==
  ASSUME TypeInv, [Next]_vars, NEW p \in Proc, Rebuilding(p), Rebuilding(p)'
  PROVE  Dropped(p)' = Dropped(p)
BY LoopRests DEF Dropped, loopVars

(* Failures are counted.                                                   *)
LEMMA FaultsCount ==
  ASSUME TypeInv, [Next]_vars
  PROVE  /\ used'.faults = 0 => used.faults = 0
         /\ Fault => used'.faults # 0
<1>1. used \in [reports : Nat, faults : Nat, errors : Nat, crashes : Nat]
  BY DEF TypeInv, RestOK
<1>2. Fault => used'.faults = used.faults + 1
  BY <1>1 DEF Fault
<1>3. \/ UNCHANGED used
      \/ Fault
      \/ used' = [used EXCEPT !.errors = @ + 1]
      \/ used' = [used EXCEPT !.errors = @ + 1, !.faults = @ + 1]
      \/ used' = [used EXCEPT !.reports = @ + 1]
      \/ used' = [used EXCEPT !.reports = @ + 1, !.faults = @ + 1]
      \/ used' = [used EXCEPT !.crashes = @ + 1]
  <2>1. Dispatch => \/ UNCHANGED used \/ Fault
                    \/ used' = [used EXCEPT !.errors = @ + 1]
                    \/ used' = [used EXCEPT !.errors = @ + 1, !.faults = @ + 1]
    BY DEF Dispatch, Boot, StartTick, ClaimJobs, SkipJob, LoadAccounts, Decide,
       RescheduleCooling, FailJob, SendSucceeds, SendFailsFatally, SendFailsSoftly,
       MarkAdminSessionLost, RecordSent
  <2>2. \A p \in Proc : Rebuild(p) => UNCHANGED used \/ Fault
    BY DEF Rebuild, RbList, RbEnabled, RbStale, RbRead, RbCancel, RbInsert, RbUnlock
  <2>3. \A a \in Account : Events(a) =>
          \/ UNCHANGED used \/ Fault
          \/ used' = [used EXCEPT !.reports = @ + 1]
          \/ used' = [used EXCEPT !.reports = @ + 1, !.faults = @ + 1]
    BY DEF Events, Report, Mirror
  <2>4. \A c \in Comm : Bot(c) => UNCHANGED used \/ Fault
    BY DEF Bot, BotSaveGroup, BotInsertDay, BotEnable, BotCancel, BotDelete, BotGivesUp
  <2> QED
    BY <2>1, <2>2, <2>3, <2>4 DEF Next, ClockTick, Crash, vars
<1>4. [used EXCEPT !.errors = @ + 1].faults = used.faults
      /\ [used EXCEPT !.reports = @ + 1].faults = used.faults
      /\ [used EXCEPT !.crashes = @ + 1].faults = used.faults
  BY <1>1
<1>5. [used EXCEPT !.errors = @ + 1, !.faults = @ + 1].faults = used.faults + 1
      /\ [used EXCEPT !.reports = @ + 1, !.faults = @ + 1].faults = used.faults + 1
  BY <1>1
<1>6. used.faults \in Nat
  BY <1>1
<1>7. used'.faults \in {used.faults, used.faults + 1}
  <2>1. CASE UNCHANGED used \/ Fault
    BY <1>2, <2>1
  <2>2. CASE \/ used' = [used EXCEPT !.errors = @ + 1]
             \/ used' = [used EXCEPT !.reports = @ + 1]
             \/ used' = [used EXCEPT !.crashes = @ + 1]
    BY <1>4, <2>2, Zenon
  <2>3. CASE \/ used' = [used EXCEPT !.errors = @ + 1, !.faults = @ + 1]
             \/ used' = [used EXCEPT !.reports = @ + 1, !.faults = @ + 1]
    BY <1>5, <2>3, Zenon
  <2> QED
    BY <1>3, <2>1, <2>2, <2>3
<1> QED
  BY <1>2, <1>6, <1>7

(* A rebuild works on an enabled group with a ring without the account.    *)
RingKnown ==
  \A p \in Proc :
    rb[p].pc \in {"cancel", "insert"} =>
      /\ rb[p].ring \in Seq(Account \ {Dropped(p)})
      /\ RbComm(p) \in rb[p].active

(* What the rebuild of p has left of the dropped account is moved.         *)
Gone(p, k) ==
  /\ k[1] \in rb[p].affected \intersect rb[p].active /\ IsOpen(k) => jobs[k].moved
  /\ rb[p].pc = "insert" /\ k[1] = RbComm(p) /\ IsOpen(k) => jobs[k].moved

DropDone ==
  used.faults = 0 =>
    \A p \in Proc :
      rb[p].pc \in {"comm", "cancel", "insert"} =>
        /\ \A c \in rb[p].active : group[c].stage \in {"enabled", "closing", "closed"}
        /\ \A k \in Involving(jobs, Dropped(p)) : Gone(p, k)

DropInv == RingInv /\ RingKnown /\ DropDone

LEMMA RingKnownStep == DropInv /\ [Next]_vars => RingKnown'
<1> SUFFICES ASSUME DropInv, [Next]_vars, NEW p \in Proc,
                    rb'[p].pc \in {"cancel", "insert"}
             PROVE  /\ rb'[p].ring \in Seq(Account \ {Dropped(p)'})
                    /\ RbComm(p)' \in rb'[p].active
  BY DEF RingKnown
<1> USE DEF DropInv, RingInv
<1>1. CASE rb'[p] = rb[p]
  <2>1. RbComm(p)' = RbComm(p) /\ Dropped(p)' = Dropped(p)
    BY <1>1, DroppedKept DEF RbComm, Rebuilding
  <2> QED
    BY <1>1, <2>1 DEF RingKnown
<1>2. CASE Rebuild(p) /\ rb'[p] # rb[p]
  <2>1. ~CountedOff(p)
    BY DEF CountedOff
  <2>2. CASE RbRead(p)
    <3>1. /\ SameComm(p) /\ RbComm(p) \in rb[p].active
          /\ rb'[p].ring \in Seq(Account \ {Dropped(p)})
      BY <2>1, <2>2, Reading
    <3>2. RbComm(p)' = RbComm(p) /\ Dropped(p)' = Dropped(p)
      BY <2>2, <3>1, DroppedKept DEF RbComm, SameComm, Rebuilding, RbRead
    <3> QED
      BY <3>1, <3>2 DEF SameComm
  <2>3. CASE RbCancel(p) \/ RbInsert(p)
    <3>1. SameComm(p) /\ rb'[p].ring = rb[p].ring /\ rb[p].pc \in {"cancel", "insert"}
      BY <2>1, <2>3, Cancelling, Inserting DEF RbCancel, RbInsert
    <3>2. RbComm(p)' = RbComm(p) /\ Dropped(p)' = Dropped(p)
      BY <3>1, DroppedKept DEF RbComm, SameComm, Rebuilding
    <3> QED
      BY <3>1, <3>2 DEF SameComm, RingKnown
  <2>4. ~RbList(p) /\ ~RbEnabled(p) /\ ~RbStale(p) /\ ~RbUnlock(p)
    BY <1>2, <2>1, AroundGroups
  <2> QED
    BY <1>2, <2>2, <2>3, <2>4 DEF Rebuild
<1> QED
  BY <1>1, <1>2, RebuildStep

(* A row that is new while a rebuild goes on is not the dropped account's. *)
LEMMA NewRowOfSurvivors ==
  ASSUME DropInv, [Next]_vars, NEW p \in Proc,
         rb[p].pc \in {"comm", "cancel", "insert"}, used'.faults = 0,
         NEW k \in DOMAIN jobs', k \notin DOMAIN jobs
  PROVE  \/ k \notin Involving(jobs', Dropped(p))
         \/ /\ rb'[p] = rb[p]
            /\ k[1] \notin rb[p].active
<1> USE DEF DropInv, RingInv
<1>1. ASSUME NEW q \in Proc, RbInsert(q), ~UNCHANGED jobs
      PROVE  k \notin Involving(jobs', Dropped(p))
  <2>1. q = p
    BY <1>1, Alone DEF RbInsert, Rebuilding
  <2> DEFINE B == Account \ {Dropped(p)}
             d == Smallest(rb[p].dates)
  <2>2. rb[p].ring \in Seq(B)
    BY <1>1, <2>1 DEF RingKnown, RbInsert
  <2>3. Inserted(jobs, jobs', B, RbComm(p), d, MaxStep(jobs, RbComm(p), d), DayStart(d))
    <3> HIDE DEF B
    <3> QED
      BY <1>1, <2>1, <2>2, RebuildInserts
  <2>4. jobs'[k].snd \in B /\ jobs'[k].rcv \in B
    <3> HIDE DEF B, d
    <3> QED
      BY <2>3 DEF Inserted
  <2> QED
    BY <2>4 DEF Involving
<1>2. ASSUME NEW c \in Comm, BotInsertDay(c), ~UNCHANGED jobs
      PROVE  rb'[p] = rb[p] /\ k[1] \notin rb[p].active
  <2>1. /\ Inserted(jobs, jobs', Account, c, NextDay(c), 0, NextStart(c))
        /\ group[c].stage = "saving"
    BY <1>2, BotInserts
  <2>2. k[1] = c
    BY <2>1 DEF Inserted
  <2>3. used.faults = 0
    BY FaultsCount
  <2>4. c \notin rb[p].active
    BY <2>1, <2>3 DEF DropDone
  <2>5. rb'[p] = rb[p]
    BY <1>2 DEF BotInsertDay
  <2> QED
    BY <2>2, <2>4, <2>5
<1> QED
  BY <1>1, <1>2, StepAges

LEMMA DropStep == DropInv /\ [Next]_vars => DropDone'
<1> SUFFICES ASSUME DropInv, [Next]_vars, used'.faults = 0, NEW p \in Proc,
                    rb'[p].pc \in {"comm", "cancel", "insert"}
             PROVE  /\ \A c \in rb'[p].active :
                         group'[c].stage \in {"enabled", "closing", "closed"}
                    /\ \A k \in Involving(jobs', Dropped(p)') : Gone(p, k)'
  BY DEF DropDone
<1> USE DEF DropInv, RingInv
<1>1. used.faults = 0 /\ ~Fault
  BY FaultsCount
<1>2. Aged(jobs, jobs')
  BY StepAges
<1>3. rb[p] \in RebuildState
  BY DEF TypeInv, RebuildOK
<1>4. CASE RbEnabled(p)
  <2>1. rb'[p].active = EnabledComms /\ rb'[p].affected = {} /\ rb'[p].pc = "comm"
    BY <1>1, <1>4, AroundGroups
  <2>2. UNCHANGED group
    BY <1>4 DEF RbEnabled
  <2> QED
    BY <2>1, <2>2 DEF EnabledComms, Gone
<1>5. CASE ~RbEnabled(p)
  <2>1. rb[p].pc \in {"comm", "cancel", "insert"} /\ rb'[p].active = rb[p].active
    <3>1. CASE Rebuild(p) /\ rb'[p] # rb[p]
      <4>1. RbStale(p) \/ RbRead(p) \/ RbCancel(p) \/ RbInsert(p)
        BY <1>5, <3>1, AroundGroups DEF Rebuild
      <4>2. CountedOff(p) \/ SameComm(p)
        BY <4>1, AroundGroups, Reading, Cancelling, Inserting
      <4> QED
        BY <4>1, <4>2 DEF RbStale, RbRead, RbCancel, RbInsert, CountedOff, SameComm
    <3>2. CASE rb'[p] = rb[p]
      BY <3>2
    <3> QED
      BY <3>1, <3>2, RebuildStep
  <2>2. \A c \in rb'[p].active : group'[c].stage \in {"enabled", "closing", "closed"}
    <3>1. rb[p].active \subseteq Comm
      BY <1>3 DEF RebuildState
    <3>2. \A c \in rb[p].active : group[c].stage \in {"enabled", "closing", "closed"}
      BY <1>1, <2>1 DEF DropDone
    <3> QED
      BY <2>1, <3>1, <3>2, GroupStep
  <2>3. Dropped(p)' = Dropped(p)
    BY <2>1, DroppedKept DEF Rebuilding
  <2>4. ASSUME NEW k \in Involving(jobs', Dropped(p)), k \in DOMAIN jobs
        PROVE  Gone(p, k)'
    <3>1. k \in Involving(jobs, Dropped(p))
      BY <1>2, <2>4 DEF Involving, Aged
    <3>2. Gone(p, k)
      BY <1>1, <2>1, <3>1 DEF DropDone
    <3>3. \/ jobs'[k].moved
          \/ jobs'[k].moved = jobs[k].moved
             /\ (jobs'[k].status \in OpenStatus => jobs[k].status \in OpenStatus)
      BY <1>2, <2>4 DEF Aged
    <3>4. CASE rb'[p] = rb[p]
      <4>1. RbComm(p)' = RbComm(p)
        BY <3>4 DEF RbComm
      <4> QED
        BY <3>2, <3>3, <3>4, <4>1 DEF Gone, IsOpen
    <3>5. CASE RbStale(p)
      <4>1. CountedOff(p) /\ RbComm(p) \notin rb[p].active
        BY <3>5, AroundGroups
      <4> QED
        BY <3>2, <3>3, <4>1 DEF Gone, IsOpen, CountedOff
    <3>6. CASE RbRead(p)
      <4>1. SameComm(p) /\ rb'[p].pc = "cancel"
        BY <1>1, <3>6, Reading
      <4> QED
        BY <3>2, <3>3, <4>1 DEF Gone, IsOpen, SameComm
    <3>7. CASE RbCancel(p)
      <4>1. /\ CountedOff(p) \/ SameComm(p)
            /\ k[1] = RbComm(p) => jobs'[k].status \notin OpenStatus
        BY <1>1, <2>4, <3>7, Cancelling DEF OfComm
      <4>2. SameComm(p) => RbComm(p)' = RbComm(p)
        BY DEF SameComm, RbComm
      <4> QED
        BY <3>2, <3>3, <4>1, <4>2 DEF Gone, IsOpen, CountedOff, SameComm
    <3>8. CASE RbInsert(p)
      <4>1. (CountedOff(p) \/ SameComm(p)) /\ rb[p].pc = "insert"
        BY <3>8, Inserting DEF RbInsert
      <4>2. SameComm(p) => RbComm(p)' = RbComm(p)
        BY DEF SameComm, RbComm
      <4> QED
        BY <3>2, <3>3, <4>1, <4>2 DEF Gone, IsOpen, CountedOff, SameComm
    <3>9. \/ rb'[p] = rb[p] \/ RbStale(p) \/ RbRead(p) \/ RbCancel(p) \/ RbInsert(p)
      BY <1>5, AroundGroups, RebuildStep DEF Rebuild
    <3> QED
      BY <3>4, <3>5, <3>6, <3>7, <3>8, <3>9
  <2>5. ASSUME NEW k \in Involving(jobs', Dropped(p)), k \notin DOMAIN jobs
        PROVE  Gone(p, k)'
    <3>1. k \in DOMAIN jobs'
      BY DEF Involving
    <3>2. rb'[p] = rb[p] /\ k[1] \notin rb[p].active
      BY <2>1, <2>5, <3>1, NewRowOfSurvivors
    <3>3. RbComm(p)' = RbComm(p) /\ (rb[p].pc = "insert" => RbComm(p) \in rb[p].active)
      BY <3>2 DEF RbComm, RingKnown
    <3> QED
      BY <3>2, <3>3 DEF Gone
  <2> QED
    BY <2>2, <2>3, <2>4, <2>5
<1> QED
  BY <1>4, <1>5

(* When a rebuild without failing statements lets go of rebuildMu, no open *)
(* job of the groups it rebuilt involves the dropped account, but for jobs *)
(* the loop rescheduled: whatever the account's own status says, and       *)
(* whatever the loop, other processes and the bot did meanwhile.           *)
THEOREM DropsTakeEffect == Spec => []DropTakesEffect
<1>1. Init => DropInv
  BY RingStarts DEF Init, DropInv, RingKnown, DropDone, NoRebuild
<1>2. DropInv /\ [Next]_vars => DropInv'
  BY RingStep, RingKnownStep, DropStep DEF DropInv
<1>3. DropInv => DropTakesEffect
  BY DEF DropInv, DropDone, DropTakesEffect, Gone
<1> QED
  BY <1>1, <1>2, <1>3, PTL DEF Spec

------------------------------------------------------------------------------
(* What the loop sends is due, and no account is asked while it cools down. *)

(* The batch was due when the tick began, and what was checked of the job  *)
(* about to be sent still holds: the clock the checks were made against is *)
(* the tick's, and only the loop changes a cooldown or a planned time.     *)
LoopTimes ==
  /\ tick <= clock
  /\ \A i \in DOMAIN batch : jobs[batch[i]].at <= tick
  /\ dpc = "send" => SentOnItsDay /\ cooldown[CurrentJob.snd].until <= tick

TimesInv == LedgerInv /\ LoopTimes

(* Nothing beside the loop moves its jobs or its cooldowns.                *)
LEMMA TimesUntouched ==
  ASSUME TimesInv, Steady(jobs, jobs'), UNCHANGED <<loopVars, cooldown>>,
         clock' \in Nat, clock' >= clock
  PROVE  LoopTimes'
<1>1. /\ \A i \in DOMAIN batch : batch[i] \in DOMAIN jobs
      /\ tick \in Nat /\ clock \in Nat
  BY BatchInTable DEF TimesInv, LedgerInv, TypeInv, LoopOK, RestOK
<1>2. tick' <= clock'
  BY <1>1 DEF TimesInv, LoopTimes, loopVars
<1>3. \A i \in DOMAIN batch : jobs'[batch[i]].at = jobs[batch[i]].at
  BY <1>1 DEF Steady
<1>4. ASSUME dpc = "send"
      PROVE  SentOnItsDay' /\ cooldown[CurrentJob'.snd].until <= tick
  <2>1. batch # << >>
    BY <1>4 DEF TimesInv, LedgerInv, TypeInv, LoopOK
  <2>2. Current \in DOMAIN jobs /\ Current' = Current
    BY <2>1, BatchHead DEF TimesInv, loopVars, Current
  <2>3. CurrentJob'.at = CurrentJob.at /\ CurrentJob'.snd = CurrentJob.snd
    BY <2>2 DEF CurrentJob, Steady
  <2>4. SentOnItsDay /\ cooldown[CurrentJob.snd].until <= tick
    BY <1>4 DEF TimesInv, LoopTimes
  <2> QED
    BY <1>4, <2>3, <2>4 DEF SentOnItsDay, loopVars
<1> QED
  BY <1>2, <1>3, <1>4 DEF TimesInv, LoopTimes, loopVars

(* The loop goes on or returns: the jobs behind the one in hand are others. *)
LEMMA TimesGoOn ==
  ASSUME TimesInv, batch # << >>, UNCHANGED clock,
         \A k \in DOMAIN jobs \ {Current} : jobs'[k].at = jobs[k].at,
         NEW STATE affected, NextJob(affected) \/ Return
  PROVE  LoopTimes'
<1>1. /\ \A i \in DOMAIN batch : batch[i] \in DOMAIN jobs
      /\ tick \in Nat /\ clock \in Nat
      /\ batch \in Seq(DOMAIN jobs)
  BY BatchInTable DEF TimesInv, LedgerInv, TypeInv, LoopOK, RestOK
<1>2. Len(batch) \in Nat \ {0} /\ 1 \in DOMAIN batch /\ Current = batch[1]
  BY BatchHead DEF TimesInv
<1>3. CASE Return
  <2>1. batch' = << >> /\ DOMAIN batch' = {} /\ tick' = 0 /\ dpc' = "idle"
    BY <1>3 DEF Return
  <2> QED
    BY <1>1, <2>1 DEF LoopTimes
<1>4. CASE Len(batch) # 1 /\ NextJob(affected)
  <2>1. dpc' = "next" /\ batch' = Tail(batch) /\ tick' = tick
    BY <1>4 DEF NextJob
  <2>2. /\ DOMAIN batch' = 1..(Len(batch) - 1)
        /\ DOMAIN batch = 1..Len(batch)
        /\ \A i \in DOMAIN batch' : batch'[i] = batch[i + 1]
    BY <1>1, <1>2, <1>4, <2>1
  <2>3. ASSUME NEW i \in DOMAIN batch'
        PROVE  jobs'[batch'[i]].at <= tick'
    <3>1. i + 1 \in DOMAIN batch /\ i + 1 # 1 /\ batch'[i] = batch[i + 1]
      BY <1>2, <2>2
    <3>2. batch[i + 1] # batch[1]
      BY <1>2, <3>1 DEF TimesInv, LedgerInv, BatchClaimed
    <3>3. jobs'[batch[i + 1]].at = jobs[batch[i + 1]].at
      BY <1>1, <1>2, <3>1, <3>2
    <3> QED
      BY <2>1, <3>1, <3>3 DEF TimesInv, LoopTimes
  <2> QED
    BY <2>1, <2>3 DEF TimesInv, LoopTimes
<1> QED
  BY <1>3, <1>4 DEF NextJob

(* The loop steps within one job, not to sending it.                       *)
LEMMA TimesWithinJob ==
  ASSUME TimesInv, Steady(jobs, jobs'), UNCHANGED <<batch, tick, clock>>, dpc' # "send"
  PROVE  LoopTimes'
BY BatchInTable DEF TimesInv, LedgerInv, LoopTimes, Steady

(* The decision to send is made on the times it needs.                     *)
LEMMA TimesDecided ==
  ASSUME TimesInv, LoadAccounts, dpc' = "send"
  PROVE  LoopTimes'
<1>1. dpc = "next" /\ batch # << >> /\ ~Skipped(Current) /\ ~Cooling(CurrentJob.snd)
  BY DEF LoadAccounts, Decide, TimesInv, LedgerInv, TypeInv, LoopOK
<1>2. CurrentJob = jobs[Current] /\ CurrentJob.at \in Nat /\ CurrentJob.snd \in Account
      /\ tick \in Nat
  BY <1>1, CurrentType DEF TimesInv, LedgerInv, TypeInv, LoopOK, CurrentJob, Row
<1>3. cooldown[CurrentJob.snd].until \in Nat
  BY <1>2 DEF TimesInv, LedgerInv, TypeInv, RestOK
<1>4. CurrentJob.at <= tick
  BY <1>1, <1>2, BatchHead DEF TimesInv, LoopTimes
<1> DEFINE at == CurrentJob.at
<1>5. ~PastSendWindow(tick, at)
  BY <1>1, <1>2 DEF Skipped
<1>6. Day(at) \in Nat /\ Day(tick) \in Nat /\ Day(at) <= Day(tick)
  BY <1>2, <1>4, BlockOf, DaysInOrder, RingsAssumption DEF Day
<1>7. Day(at) = Day(tick)
  BY <1>5, <1>6 DEF PastSendWindow
<1>8. DayEnd(Day(tick)) \in Nat
  BY <1>6, RingsAssumption DEF DayEnd
<1>9. tick < DayEnd(Day(tick))
  BY <1>2, <1>5, <1>7, <1>8 DEF PastSendWindow
<1>10. SentOnItsDay'
  <2>1. UNCHANGED <<jobs, batch, tick>>
    BY DEF LoadAccounts
  <2> QED
    BY <1>4, <1>7, <1>9, <2>1 DEF SentOnItsDay, CurrentJob, Current
<1>11. cooldown[CurrentJob.snd].until <= tick
  BY <1>1, <1>2, <1>3 DEF Cooling
<1> QED
  BY <1>10, <1>11 DEF TimesInv, LoopTimes, LoadAccounts, CurrentJob, Current

LEMMA TimesStep == TimesInv /\ [Next]_vars => TimesInv'
<1> SUFFICES ASSUME TimesInv, [Next]_vars PROVE LoopTimes'
  BY StepLedger, StepType DEF TimesInv, LedgerInv
<1>0. /\ TypeInv /\ LoopOK /\ RestOK /\ GoodTable(jobs) /\ clock \in Nat /\ tick \in Nat
      /\ clock' \in Nat
  BY StepType DEF TimesInv, LedgerInv, TypeInv, LoopOK, RestOK
<1>1. RescheduleCooling \/ Steady(jobs, jobs')
  BY <1>0, StepAges
<1>2. CASE UNCHANGED <<loopVars, cooldown, clock>>
  <2>1. ~RescheduleCooling
    BY <1>2 DEF RescheduleCooling, NextJob, Return, loopVars
  <2> QED
    BY <1>0, <1>1, <1>2, <2>1, TimesUntouched
<1>3. CASE Boot \/ StartTick
  <2>1. Steady(jobs, jobs')
    BY <1>1, <1>3 DEF RescheduleCooling, Boot, StartTick
  <2>2. DOMAIN batch' = {} /\ dpc' # "send"
    BY <1>0, <1>3 DEF Boot, StartTick, LoopOK
  <2>3. tick' <= clock'
    BY <1>0, <1>3 DEF Boot, StartTick, TimesInv, LoopTimes
  <2> QED
    BY <2>2, <2>3 DEF LoopTimes
<1>4. CASE ClaimJobs
  <2>1. CASE Return
    BY <1>0, <1>4, <2>1 DEF Return, ClaimJobs, LoopTimes
  <2>2. ASSUME NEW s \in DueOrders(jobs, tick, BatchSize), jobs' = Claim(jobs, s),
               dpc' = "next", batch' = s, UNCHANGED tick
        PROVE  LoopTimes'
    <3>1. s \in Seq(DOMAIN jobs) /\ \A i \in DOMAIN s : s[i] \in DOMAIN jobs
      BY <1>0, DueOrdersFacts, DispatcherAssumption DEF GoodTable
    <3>2. \A i \in DOMAIN s : jobs[s[i]].at <= tick
      BY <2>2 DEF DueOrders, Due
    <3>3. Steady(jobs, jobs')
      BY <1>1, <1>4 DEF RescheduleCooling, ClaimJobs
    <3>4. \A i \in DOMAIN s : jobs'[s[i]].at <= tick
      BY <3>1, <3>2, <3>3 DEF Steady
    <3> QED
      BY <1>4, <2>2, <3>4 DEF ClaimJobs, TimesInv, LoopTimes
  <2> QED
    BY <1>4, <2>1, <2>2 DEF ClaimJobs
<1>5. CASE LoadAccounts
  <2>1. Steady(jobs, jobs')
    BY <1>1, <1>5 DEF RescheduleCooling, LoadAccounts
  <2>2. UNCHANGED <<batch, tick, clock>>
    BY <1>5 DEF LoadAccounts
  <2> QED
    BY <1>5, <2>1, <2>2, TimesDecided, TimesWithinJob
<1>6. CASE SendSucceeds \/ SendFailsFatally \/ SendFailsSoftly \/ MarkAdminSessionLost
  <2>1. Steady(jobs, jobs')
    BY <1>1, <1>6 DEF RescheduleCooling, SendSucceeds, SendFailsFatally, SendFailsSoftly,
       SendFails, MarkAdminSessionLost
  <2>2. UNCHANGED <<batch, tick, clock>> /\ dpc' # "send"
    BY <1>6 DEF SendSucceeds, SendFailsFatally, SendFailsSoftly, SendFails,
       MarkAdminSessionLost
  <2> QED
    BY <2>1, <2>2, TimesWithinJob
<1>7. CASE SkipJob \/ RescheduleCooling \/ FailJob \/ RecordSent
  <2>1. batch # << >> /\ UNCHANGED clock /\ (NextJob({}) \/ Return)
    BY <1>0, <1>7 DEF SkipJob, RescheduleCooling, FailJob, RecordSent, LoopOK
  <2>2. Current \in DOMAIN jobs /\ CurrentJob.snd \in Account
    BY <1>0, <2>1, CurrentType
  <2>3. \A k \in DOMAIN jobs \ {Current} : jobs'[k].at = jobs[k].at
    <3>1. CASE Steady(jobs, jobs')
      BY <3>1 DEF Steady
    <3>2. CASE RescheduleCooling /\ ~UNCHANGED jobs
      <4>1. cooldown[CurrentJob.snd].until \in Nat
        BY <1>0, <2>2 DEF RestOK
      <4> QED
        BY <1>0, <2>2, <3>2, <4>1, RescheduleFacts DEF RescheduleCooling, GoodTable
    <3>3. CASE UNCHANGED jobs
      BY <3>3
    <3> QED
      BY <1>1, <3>1, <3>2, <3>3
  <2> QED
    BY <2>1, <2>3, TimesGoOn
<1>8. ASSUME NEW p \in Proc, Rebuild(p), ~UNCHANGED <<loopVars, cooldown, clock>>
      PROVE  LoopTimes'
  <2>1. UNCHANGED jobs /\ UNCHANGED clock /\ p = Loop
    BY <1>8 DEF Rebuild, RbList, RbEnabled, RbStale, RbRead, RbCancel, RbInsert,
       RbUnlock, RbReturn
  <2>2. \E affected : NextJob(affected)
    BY <1>8 DEF Rebuild, RbList, RbEnabled, RbStale, RbRead, RbCancel, RbInsert,
       RbUnlock, RbReturn
  <2>3. PICK affected : NextJob(affected)
    BY <2>2
  <2>4. dpc = "exclude"
    BY <1>0, <1>8, <2>1 DEF Rebuild, RbList, RbEnabled, RbStale, RbRead, RbCancel,
       RbInsert, RbUnlock, RbReturn, Excluding, TypeInv, LoopWaits
  <2>5. batch # << >>
    BY <1>0, <2>4 DEF LoopOK
  <2> QED
    BY <2>1, <2>3, <2>5, TimesGoOn
<1>9. CASE ClockTick
  <2>1. clock' >= clock /\ UNCHANGED <<loopVars, cooldown>> /\ Steady(jobs, jobs')
    BY <1>0, <1>1, <1>9 DEF ClockTick, RescheduleCooling
  <2> QED
    BY <1>0, <2>1, TimesUntouched
<1>10. CASE Crash
  BY <1>0, <1>10 DEF Crash, LoopTimes
<1>11. CASE \E a \in Account : Events(a)
  BY <1>2, <1>11 DEF Events, Report, Mirror
<1>12. CASE \E c \in Comm : Bot(c)
  BY <1>2, <1>12 DEF Bot, BotSaveGroup, BotInsertDay, BotEnable, BotCancel, BotDelete
<1>13. CASE UNCHANGED vars
  BY <1>2, <1>13 DEF vars
<1> QED
  BY <1>2, <1>3, <1>4, <1>5, <1>6, <1>7, <1>8, <1>9, <1>10, <1>11, <1>12, <1>13
     DEF Next, Dispatch

LEMMA TimesInvariant == Spec => []TimesInv
<1>1. Init => TimesInv
  <2> SUFFICES ASSUME Init PROVE TimesInv
    OBVIOUS
  <2>1. jobs = << >> /\ batch = << >> /\ DOMAIN jobs = {} /\ DOMAIN batch = {}
    BY DEF Init
  <2> QED
    BY <2>1, InitType DEF Init, TimesInv, LedgerInv, BatchClaimed, Ledger, LoopTimes
<1> QED
  BY <1>1, TimesStep, PTL DEF Spec

(* What is handed to WhatsApp was due and is sent on its own day, before   *)
(* the window of that day closes (by the clock of the tick), whatever is   *)
(* rescheduled, rebuilt, or left over by a failing cancellation.           *)
THEOREM SentInTime == Spec => []SentOnItsDay
<1>1. TimesInv => SentOnItsDay
  BY DEF TimesInv, LoopTimes, SentOnItsDay
<1> QED
  BY <1>1, TimesInvariant, PTL

(* Only a failing send adds a strike, to the account that was asked to send. *)
LEMMA StrikeStep ==
  ASSUME TimesInv, [Next]_vars, NEW a \in Account,
         cooldown[a].fails > 0, cooldown'[a].fails > cooldown[a].fails
  PROVE  clock >= cooldown[a].until
<1>0. /\ cooldown \in [Account -> [fails : Nat, until : Nat]]
      /\ clock \in Nat /\ tick \in Nat
  BY DEF TimesInv, LedgerInv, TypeInv, RestOK, LoopOK
<1>1. cooldown'[a] # cooldown[a] /\ cooldown'[a] # NoCooldown
  <2>1. cooldown[a].fails \in Nat
    BY <1>0
  <2> QED
    BY <2>1 DEF NoCooldown
<1>2. SendFailsSoftly
  <2>1. CASE SendSucceeds
    BY <1>0, <1>1, <2>1 DEF SendSucceeds
  <2>2. CASE Crash
    BY <1>0, <1>1, <2>2 DEF Crash
  <2>3. CASE UNCHANGED cooldown
    BY <1>1, <2>3
  <2> QED
    BY <2>1, <2>2, <2>3 DEF Next, Dispatch, Boot, StartTick, ClaimJobs, SkipJob,
       LoadAccounts, RescheduleCooling, FailJob, SendFailsFatally, MarkAdminSessionLost,
       RecordSent, Rebuild, RbList, RbEnabled, RbStale, RbRead, RbCancel, RbInsert,
       RbUnlock, Events, Report, Mirror, Bot, BotSaveGroup, BotInsertDay, BotEnable,
       BotCancel, BotDelete, ClockTick, vars
<1>3. a = CurrentJob.snd /\ dpc = "send"
  BY <1>0, <1>1, <1>2 DEF SendFailsSoftly, SendFails
<1>4. cooldown[a].until \in Nat /\ cooldown[a].until <= tick /\ tick <= clock
  BY <1>0, <1>3 DEF TimesInv, LoopTimes
<1> QED
  BY <1>0, <1>4

(* An account that failed is left in peace until its cooldown is over,     *)
(* although the cooldown is read against the time the tick began and other *)
(* jobs of the batch come in between.                                      *)
THEOREM PeaceAfterFailure == Spec => StrikesArePaced
<1>1. TimesInv /\ [Next]_vars =>
        [\A a \in Account :
           cooldown[a].fails > 0 /\ cooldown'[a].fails > cooldown[a].fails
             => clock >= cooldown[a].until]_vars
  BY StrikeStep
<1> QED
  BY <1>1, TimesInvariant, PTL DEF Spec, StrikesArePaced

------------------------------------------------------------------------------
(* No claimed job is forgotten.                                            *)

(* The account being dropped takes part in the job in hand.                *)
VictimKnown ==
  dpc \in {"lost", "exclude"} => victim \in {CurrentJob.snd, CurrentJob.rcv}

(* A claimed job is in the loop's hands. While the loop rebuilds rings for *)
(* the job in hand, either that job is settled or its group's turn is      *)
(* still to come.                                                          *)
Taken ==
  used.faults = 0 /\ dpc # "boot" =>
    /\ \A k \in DOMAIN jobs :
         jobs[k].status = "sending" => \E i \in DOMAIN batch : batch[i] = k
    /\ Rebuilding(Loop) /\ CurrentJob.status = "sending" =>
         /\ Current[1] \in rb[Loop].todo
         /\ rb[Loop].pc = "insert" => Current[1] # RbComm(Loop)

TakenInv == LedgerInv /\ VictimKnown /\ Taken

(* Only a claim makes a job "sending".                                     *)
LEMMA OnlyClaimed ==
  ASSUME TypeInv, [Next]_vars, ~ClaimJobs,
         NEW k \in DOMAIN jobs', jobs'[k].status = "sending"
  PROVE  k \in DOMAIN jobs /\ jobs[k].status = "sending"
<1>0. /\ GoodTable(jobs) /\ IsTable(jobs, Account) /\ LoopOK /\ RestOK
      /\ {"pending", "sent", "failed", "cancelled"} \subseteq JobStatus
  BY DEF TypeInv, GoodTable, JobStatus, OpenStatus
<1>1. CASE Quiet(jobs, jobs')
  BY <1>1 DEF Quiet
<1>2. ASSUME NEW STATE keys, NEW s \in {"pending", "sent", "failed", "cancelled"},
             jobs' = SetStatus(jobs, keys, s)
      PROVE  k \in DOMAIN jobs /\ jobs[k].status = "sending"
  <2>1. s \in JobStatus /\ s # "sending"
    BY <1>0
  <2> QED
    BY <1>0, <1>2, <2>1, SetStatusFacts
<1>3. CASE UNCHANGED jobs
  BY <1>3
<1>4. CASE RescheduleCooling /\ ~UNCHANGED jobs
  <2>1. batch # << >>
    BY <1>0, <1>4 DEF RescheduleCooling, LoopOK
  <2>2. Current \in DOMAIN jobs /\ cooldown[CurrentJob.snd].until \in Nat
    BY <1>0, <2>1, CurrentType DEF RestOK
  <2> QED
    BY <1>0, <1>4, <2>2, RescheduleFacts DEF RescheduleCooling
<1>5. CASE SendSucceeds \/ SendFailsFatally \/ SendFailsSoftly
  <2>1. batch # << >>
    BY <1>0, <1>5 DEF SendSucceeds, SendFailsFatally, SendFailsSoftly, SendFails, LoopOK
  <2>2. Current \in DOMAIN jobs
    BY <1>0, <2>1, CurrentType
  <2>3. PICK n \in {0, 1} : jobs' = [jobs EXCEPT ![Current].sends = @ + n]
    BY <1>5 DEF SendSucceeds, SendFailsFatally, SendFailsSoftly, SendFails, Delivered
  <2>4. DOMAIN jobs' = DOMAIN jobs /\ \A l \in DOMAIN jobs : jobs'[l].status = jobs[l].status
    BY <1>0, <2>2, <2>3, GoodDelivery
  <2> QED
    BY <2>4
<1>6. CASE Dispatch
  <2>1. CASE StartTick
    BY <1>0, <1>1, <2>1, QuietCancel, QuietNothing DEF StartTick
  <2>2. CASE SkipJob
    BY <1>0, <1>1, <2>2, QuietCancel, QuietNothing DEF SkipJob, MarkCancelled
  <2>3. CASE Boot
    BY <1>2, <1>3, <2>3 DEF Boot, ResetSending
  <2>4. CASE FailJob
    BY <1>2, <1>3, <2>4 DEF FailJob, MarkFailed
  <2>5. CASE RecordSent
    BY <1>2, <1>3, <2>5 DEF RecordSent, MarkSent
  <2>6. CASE LoadAccounts \/ MarkAdminSessionLost \/ RescheduleCooling
    BY <1>3, <1>4, <2>6 DEF LoadAccounts, MarkAdminSessionLost
  <2> QED
    BY <1>5, <1>6, <2>1, <2>2, <2>3, <2>4, <2>5, <2>6 DEF Dispatch
<1>7. CASE \/ \E p \in Proc : Rebuild(p)
           \/ \E c \in Comm : Bot(c)
  BY <1>1, <1>7, RebuildType, BotType
<1>8. CASE (\E a \in Account : Events(a)) \/ ClockTick \/ Crash \/ UNCHANGED vars
  BY <1>3, <1>8 DEF Events, Report, Mirror, ClockTick, Crash, vars
<1> QED
  BY <1>6, <1>7, <1>8 DEF Next

(* The job in hand is settled, and the loop goes on or returns.            *)
LEMMA TakenGoOn ==
  ASSUME TakenInv, batch # << >>, dpc # "boot", used.faults = 0,
         \A k \in DOMAIN jobs' : jobs'[k].status = "sending" =>
           k \in DOMAIN jobs /\ k # Current /\ jobs[k].status = "sending",
         NEW STATE affected, NextJob(affected),
         NEW k \in DOMAIN jobs', jobs'[k].status = "sending"
  PROVE  \E i \in DOMAIN batch' : batch'[i] = k
<1>1. batch \in Seq(DOMAIN jobs)
  BY DEF TakenInv, LedgerInv, TypeInv, LoopOK
<1>2. Len(batch) \in Nat \ {0} /\ Current = batch[1]
  BY BatchHead DEF TakenInv
<1>3. PICK i \in DOMAIN batch : batch[i] = k
  BY DEF TakenInv, Taken
<1>4. i # 1 /\ i \in 1..Len(batch)
  BY <1>1, <1>2, <1>3
<1>5. batch' = Tail(batch)
  BY <1>2, <1>4 DEF NextJob
<1>6. i - 1 \in DOMAIN batch' /\ batch'[i - 1] = batch[i]
  BY <1>1, <1>2, <1>4, <1>5
<1> QED
  BY <1>3, <1>6

(* The row in hand stays the one it is while the loop's batch does.        *)
LEMMA InHandKept ==
  ASSUME TypeInv, [Next]_vars, batch # << >>, UNCHANGED batch
  PROVE  /\ Current \in DOMAIN jobs /\ Current' = Current
         /\ CurrentJob'.snd = CurrentJob.snd /\ CurrentJob'.rcv = CurrentJob.rcv
<1>1. Current \in DOMAIN jobs /\ Current' = Current
  BY CurrentType DEF TypeInv, Current
<1>2. Aged(jobs, jobs')
  BY StepAges
<1> QED
  BY <1>1, <1>2 DEF Aged, CurrentJob

LEMMA VictimStep == TakenInv /\ [Next]_vars => VictimKnown'
<1> SUFFICES ASSUME TakenInv, [Next]_vars, dpc' \in {"lost", "exclude"}
             PROVE  victim' \in {CurrentJob'.snd, CurrentJob'.rcv}
  BY DEF VictimKnown
<1>0. TypeInv /\ LoopOK
  BY DEF TakenInv, LedgerInv, TypeInv
<1>1. CASE UNCHANGED loopVars
  <2>1. dpc \in {"lost", "exclude"} /\ batch # << >> /\ victim' = victim /\ UNCHANGED batch
    BY <1>0, <1>1 DEF loopVars, LoopOK
  <2> QED
    BY <1>0, <2>1, InHandKept DEF TakenInv, VictimKnown
<1>2. CASE LoadAccounts \/ SendFailsFatally \/ SendFailsSoftly \/ MarkAdminSessionLost
  <2>1. batch # << >> /\ UNCHANGED batch
    BY <1>0, <1>2 DEF LoadAccounts, SendFailsFatally, SendFailsSoftly, SendFails,
       MarkAdminSessionLost, LoopOK
  <2>2. victim' \in {CurrentJob.snd, CurrentJob.rcv}
    BY <1>2 DEF LoadAccounts, Decide, SendFailsFatally, SendFailsSoftly,
       MarkAdminSessionLost, TakenInv, VictimKnown
  <2> QED
    BY <1>0, <2>1, <2>2, InHandKept
<1>3. ASSUME NEW p \in Proc, Rebuild(p), ~UNCHANGED loopVars
      PROVE  FALSE
  <2>1. \E affected : NextJob(affected)
    BY <1>3 DEF Rebuild, RbList, RbEnabled, RbStale, RbRead, RbCancel, RbInsert,
       RbUnlock, RbReturn
  <2> QED
    BY <2>1 DEF NextJob, Return
<1>4. CASE Boot \/ StartTick \/ ClaimJobs \/ SkipJob \/ RescheduleCooling \/ FailJob
           \/ SendSucceeds \/ RecordSent \/ Crash
  BY <1>0, <1>4 DEF Boot, StartTick, ClaimJobs, SkipJob, RescheduleCooling, FailJob,
     SendSucceeds, RecordSent, Crash, NextJob, Return
<1>5. CASE (\E a \in Account : Events(a)) \/ (\E c \in Comm : Bot(c)) \/ ClockTick
           \/ UNCHANGED vars
  BY <1>1, <1>5 DEF Events, Report, Mirror, Bot, BotSaveGroup, BotInsertDay, BotEnable,
     BotCancel, BotDelete, ClockTick, vars, loopVars
<1> QED
  BY <1>1, <1>2, <1>3, <1>4, <1>5 DEF Next, Dispatch

(* The job in hand is one the dropped account takes part in, so that the   *)
(* rebuild begins with its group on the list.                              *)
LEMMA GroupListed ==
  ASSUME TakenInv, Excluding(Loop), CurrentJob.status = "sending"
  PROVE  Current[1] \in CommsInvolving(jobs, Dropped(Loop))
<1>1. dpc = "exclude" /\ batch # << >>
  BY DEF Excluding, TakenInv, LedgerInv, TypeInv, LoopOK
<1>2. Current \in DOMAIN jobs /\ jobs[Current] = CurrentJob
  BY <1>1, BatchHead DEF TakenInv, CurrentJob
<1>3. victim \in {CurrentJob.snd, CurrentJob.rcv}
  BY <1>1 DEF TakenInv, VictimKnown
<1>4. Current \in OpenJobs(jobs) \intersect Involving(jobs, victim)
  BY <1>2, <1>3 DEF OpenJobs, OpenStatus, Involving
<1> QED
  BY <1>4 DEF CommsInvolving, Dropped

(* A stale group's jobs of the account are cancelled.                      *)
LEMMA StaleCancelled ==
  ASSUME TypeInv, NEW p \in Proc, jobs' = CancelInvolvingInComm(jobs, RbComm(p), Dropped(p)),
         NEW k \in OfComm(jobs, RbComm(p)) \intersect Involving(jobs, Dropped(p))
  PROVE  jobs'[k].status \notin OpenStatus
<1>1. k \in DOMAIN jobs /\ jobs[k] \in Row(Account)
  BY DEF OfComm, TypeInv, GoodTable, IsTable
<1>2. CASE k \in OpenJobs(jobs)
  <2>1. jobs'[k] = [jobs[k] EXCEPT !.status = "cancelled"]
    BY <1>1, <1>2 DEF CancelInvolvingInComm, Cancel, SetStatus
  <2>2. jobs'[k].status = "cancelled"
    BY <1>1, <2>1 DEF Row
  <2> QED
    BY <2>2 DEF OpenStatus
<1>3. CASE k \notin OpenJobs(jobs)
  <2>1. jobs'[k] = jobs[k]
    BY <1>1, <1>3 DEF CancelInvolvingInComm, Cancel, SetStatus
  <2> QED
    BY <1>1, <1>3, <2>1 DEF OpenJobs
<1> QED
  BY <1>2, <1>3

(* The loop's rebuild settles the job in hand at its group's turn.         *)
LEMMA TurnStep ==
  ASSUME TakenInv, [Next]_vars, used'.faults = 0, dpc' # "boot",
         Rebuilding(Loop)', CurrentJob'.status = "sending"
  PROVE  /\ Current'[1] \in rb'[Loop].todo
         /\ rb'[Loop].pc = "insert" => Current'[1] # RbComm(Loop)'
<1>0. TypeInv /\ Loop \in Proc /\ rb[Loop] \in RebuildState
  BY DEF TakenInv, LedgerInv, TypeInv, RebuildOK, Proc
<1>1. used.faults = 0 /\ ~Fault
  BY <1>0, FaultsCount
<1>2. CASE Rebuilding(Loop)
  <2>1. UNCHANGED loopVars /\ dpc = "exclude" /\ batch # << >>
    BY <1>0, <1>2, LoopRests DEF TypeInv, LoopWaits, LoopOK, Rebuilding
  <2>2. ~ClaimJobs
    BY <2>1 DEF ClaimJobs
  <2>3. Current \in DOMAIN jobs /\ Current' = Current /\ Current \in DOMAIN jobs'
    BY <1>0, <2>1, InHandKept, StepAges DEF Aged, loopVars
  <2>4. CurrentJob.status = "sending"
    BY <1>0, <2>2, <2>3, OnlyClaimed DEF CurrentJob
  <2>5. /\ Current[1] \in rb[Loop].todo
        /\ rb[Loop].pc = "insert" => Current[1] # RbComm(Loop)
    BY <1>1, <1>2, <2>1, <2>4 DEF TakenInv, Taken
  <2>6. CASE rb'[Loop] = rb[Loop]
    BY <2>3, <2>5, <2>6 DEF RbComm
  <2>7. CASE Rebuild(Loop)
    <3>1. ~RbList(Loop) /\ ~RbUnlock(Loop)
      BY <1>0, <1>2, AroundGroups DEF RbList, Rebuilding
    <3>2. CASE RbEnabled(Loop)
      BY <1>0, <2>3, <2>5, <3>2 DEF RbEnabled, AtComm, TypeInv, RebuildOK
    <3>3. CASE RbStale(Loop)
      <4>1. CountedOff(Loop) /\ jobs' = CancelInvolvingInComm(jobs, RbComm(Loop), Dropped(Loop))
        BY <1>0, <1>1, <3>3, AroundGroups DEF RbStale
      <4>2. Current \in Involving(jobs, Dropped(Loop))
        BY <2>1, <2>3 DEF TakenInv, VictimKnown, Dropped, Involving, CurrentJob
      <4>3. Current[1] # RbComm(Loop)
        BY <1>0, <2>3, <4>1, <4>2, StaleCancelled DEF OfComm, OpenStatus, CurrentJob
      <4> QED
        BY <2>3, <2>5, <4>1, <4>3 DEF CountedOff
    <3>4. CASE RbRead(Loop)
      <4>1. SameComm(Loop) /\ rb'[Loop].pc = "cancel"
        BY <1>0, <1>1, <3>4, Reading
      <4> QED
        BY <2>3, <2>5, <4>1 DEF SameComm
    <3>5. CASE RbCancel(Loop)
      <4>1. /\ CountedOff(Loop) \/ SameComm(Loop)
            /\ \A k \in OfComm(jobs, RbComm(Loop)) : jobs'[k].status \notin OpenStatus
        BY <1>0, <1>1, <3>5, Cancelling
      <4>2. Current[1] # RbComm(Loop)
        BY <2>3, <4>1 DEF OfComm, OpenStatus, CurrentJob
      <4> QED
        BY <2>3, <2>5, <4>1, <4>2 DEF CountedOff, SameComm, RbComm
    <3>6. CASE RbInsert(Loop)
      <4>1. CountedOff(Loop) \/ SameComm(Loop)
        BY <1>0, <3>6, Inserting
      <4>2. Current[1] # RbComm(Loop)
        BY <2>5, <3>6 DEF RbInsert
      <4> QED
        BY <2>3, <2>5, <4>1, <4>2 DEF CountedOff, SameComm, RbComm
    <3> QED
      BY <2>7, <3>1, <3>2, <3>3, <3>4, <3>5, <3>6 DEF Rebuild
  <2> QED
    BY <1>0, <2>6, <2>7, RebuildStep DEF Crash, Rebuilding
<1>3. CASE ~Rebuilding(Loop)
  <2>1. RbList(Loop) /\ rb'[Loop] # rb[Loop]
    <3>1. Rebuild(Loop) /\ rb'[Loop] # rb[Loop]
      BY <1>0, <1>3, RebuildStep DEF Crash, Rebuilding
    <3> QED
      BY <1>3, <3>1 DEF Rebuild, Rebuilding, RbEnabled, RbStale, RbRead, RbCancel,
         RbInsert, RbUnlock
  <2> DEFINE comms == CommsInvolving(jobs, Dropped(Loop))
             new == [NoRebuild EXCEPT !.pc = "enabled", !.todo = comms]
  <2>2. /\ Excluding(Loop) /\ rb' = [rb EXCEPT ![Loop] = new]
        /\ UNCHANGED <<jobs, loopVars>>
    BY <2>1 DEF RbList
  <2>3. Current[1] \in comms /\ Current' = Current
    BY <2>2, GroupListed DEF CurrentJob, Current, loopVars
  <2>4. rb'[Loop] = new
    BY <1>0, <2>2 DEF TypeInv, RebuildOK
  <2> HIDE DEF comms
  <2>5. new.pc = "enabled" /\ new.todo = comms
    BY DEF NoRebuild
  <2> HIDE DEF new
  <2> QED
    BY <2>3, <2>4, <2>5
<1> QED
  BY <1>2, <1>3

(* The loop settles the job in hand before it turns to the next one.       *)
LEMMA SettledFirst ==
  ASSUME TakenInv, [Next]_vars, used'.faults = 0, ~UNCHANGED batch, dpc' # "boot",
         ~ClaimJobs, NEW k \in DOMAIN jobs', jobs'[k].status = "sending"
  PROVE  /\ dpc # "boot" /\ batch # << >> /\ k # Current
         /\ \E affected : NextJob(affected)
<1>0. /\ TypeInv /\ GoodTable(jobs) /\ IsTable(jobs, Account) /\ LoopOK
      /\ {"pending", "sent", "failed", "cancelled"} \subseteq JobStatus
  BY DEF TakenInv, LedgerInv, TypeInv, GoodTable, JobStatus, OpenStatus
<1>1. used.faults = 0 /\ ~Fault
  BY <1>0, FaultsCount
<1>2. CASE SkipJob \/ RescheduleCooling \/ FailJob \/ RecordSent
  <2>1. dpc # "boot" /\ batch # << >> /\ NextJob({})
    BY <1>0, <1>1, <1>2 DEF SkipJob, RescheduleCooling, FailJob, RecordSent, LoopOK
  <2>2. Current \in DOMAIN jobs /\ CurrentJob.snd \in Account
        /\ jobs[Current].status \in InHand
    BY <1>0, <2>1, CurrentType, BatchHead DEF TakenInv
  <2>3. jobs'[Current].status # "sending"
    <3>1. CASE SkipJob
      <4>1. jobs' = SetStatus(jobs, {Current} \intersect OpenJobs(jobs), "cancelled")
        BY <1>1, <3>1 DEF SkipJob, MarkCancelled, Cancel
      <4>2. jobs'[Current].status = IF Current \in {Current} \intersect OpenJobs(jobs)
                                      THEN "cancelled" ELSE jobs[Current].status
        BY <1>0, <2>2, <4>1, SetStatusFacts
      <4> QED
        BY <2>2, <4>2 DEF OpenJobs, OpenStatus
    <3>2. CASE RescheduleCooling
      <4>1. cooldown[CurrentJob.snd].until \in Nat
        BY <1>0, <2>2 DEF TypeInv, RestOK
      <4> QED
        BY <1>0, <1>1, <2>2, <3>2, <4>1, RescheduleFacts DEF RescheduleCooling
    <3>3. CASE FailJob
      <4>1. jobs' = SetStatus(jobs, {Current}, "failed")
        BY <1>1, <3>3 DEF FailJob, MarkFailed
      <4> QED
        BY <1>0, <2>2, <4>1, SetStatusFacts
    <3>4. CASE RecordSent
      <4>1. jobs' = SetStatus(jobs, {Current}, "sent")
        BY <1>1, <3>4 DEF RecordSent, MarkSent
      <4> QED
        BY <1>0, <2>2, <4>1, SetStatusFacts
    <3> QED
      BY <1>2, <3>1, <3>2, <3>3, <3>4
  <2> QED
    BY <2>1, <2>3
<1>3. ASSUME NEW p \in Proc, Rebuild(p)
      PROVE  /\ dpc # "boot" /\ batch # << >> /\ k # Current
             /\ \E affected : NextJob(affected)
  <2>1. /\ p = Loop /\ UNCHANGED jobs
        /\ RbUnlock(p) \/ (RbList(p) /\ CommsInvolving(jobs, Dropped(p)) = {})
        /\ \E affected : NextJob(affected)
    BY <1>1, <1>3 DEF Rebuild, RbList, RbEnabled, RbStale, RbRead, RbCancel, RbInsert,
       RbUnlock, RbReturn, loopVars
  <2>2. dpc = "exclude" /\ batch # << >>
    BY <1>0, <2>1 DEF RbUnlock, RbList, Excluding, TypeInv, LoopWaits, LoopOK
  <2>3. CurrentJob.status # "sending"
    <3>1. CASE RbUnlock(Loop)
      BY <1>1, <2>2, <3>1 DEF RbUnlock, TakenInv, Taken, Rebuilding
    <3>2. CASE RbList(Loop) /\ CommsInvolving(jobs, Dropped(Loop)) = {}
      BY <3>2, GroupListed DEF RbList
    <3> QED
      BY <2>1, <3>1, <3>2
  <2> QED
    BY <2>1, <2>2, <2>3 DEF CurrentJob
<1>4. ~Crash
  BY DEF Crash
<1> QED
  BY <1>2, <1>3, <1>4 DEF Next, Dispatch, Boot, StartTick, LoadAccounts, SendSucceeds,
     SendFailsFatally, SendFailsSoftly, SendFails, MarkAdminSessionLost, Events, Report,
     Mirror, Bot, BotSaveGroup, BotInsertDay, BotEnable, BotCancel, BotDelete, ClockTick,
     loopVars, vars

(* A claimed job stays in the loop's hands until it is settled.            *)
LEMMA HandStep ==
  ASSUME TakenInv, [Next]_vars, used'.faults = 0, dpc' # "boot",
         NEW k \in DOMAIN jobs', jobs'[k].status = "sending"
  PROVE  \E i \in DOMAIN batch' : batch'[i] = k
<1>0. /\ TypeInv /\ GoodTable(jobs) /\ IsTable(jobs, Account) /\ LoopOK
      /\ {"pending", "sending"} \subseteq JobStatus
  BY DEF TakenInv, LedgerInv, TypeInv, GoodTable, JobStatus, OpenStatus
<1>1. used.faults = 0 /\ ~Fault
  BY <1>0, FaultsCount
<1>2. CASE ClaimJobs
  <2>1. \A l \in DOMAIN jobs : jobs[l].status # "sending"
    <3>1. DOMAIN batch = {} /\ dpc # "boot"
      BY <1>0, <1>2 DEF ClaimJobs, LoopOK
    <3> QED
      BY <1>1, <3>1 DEF TakenInv, Taken
  <2>2. PICK s \in DueOrders(jobs, tick, BatchSize) :
          /\ jobs' = Claim(jobs, s)
          /\ IF s = << >> THEN Return
                          ELSE /\ dpc' = "next"
                               /\ batch' = s
                               /\ UNCHANGED <<tick, rebuilt, victim>>
    BY <1>1, <1>2 DEF ClaimJobs
  <2>3. batch' = s
    BY <2>2 DEF Return
  <2>4. k \in DOMAIN jobs /\ k \in {s[i] : i \in DOMAIN s}
    <3> DEFINE keys == {s[i] : i \in DOMAIN s}
    <3>1. jobs' = SetStatus(jobs, keys, "sending")
      BY <2>2 DEF Claim
    <3> HIDE DEF keys
    <3>2. /\ DOMAIN jobs' = DOMAIN jobs
          /\ \A l \in DOMAIN jobs :
               jobs'[l].status = IF l \in keys THEN "sending" ELSE jobs[l].status
      BY <1>0, <3>1, SetStatusFacts
    <3>3. k \in DOMAIN jobs /\ k \in keys
      BY <2>1, <3>2
    <3> QED
      BY <3>3 DEF keys
  <2> QED
    BY <2>3, <2>4
<1>3. CASE ~ClaimJobs /\ dpc = "boot"
  <2>1. Boot
    <3>1. ASSUME NEW p \in Proc, Rebuild(p)
          PROVE  UNCHANGED dpc
      BY <1>0, <1>3, <3>1 DEF Rebuild, RbList, RbEnabled, RbStale, RbRead, RbCancel,
         RbInsert, RbUnlock, RbReturn, Excluding, TypeInv, LoopWaits, loopVars
    <3> QED
      BY <1>3, <3>1 DEF Next, Dispatch, StartTick, ClaimJobs, SkipJob, LoadAccounts,
         RescheduleCooling, FailJob, SendSucceeds, SendFailsFatally, SendFailsSoftly,
         SendFails, MarkAdminSessionLost, RecordSent, Events, Report, Mirror, Bot,
         BotSaveGroup, BotInsertDay, BotEnable, BotCancel, BotDelete, ClockTick, Crash,
         loopVars, vars
  <2> DEFINE keys == {l \in DOMAIN jobs : jobs[l].status = "sending"}
  <2>2. jobs' = SetStatus(jobs, keys, "pending")
    BY <1>1, <2>1 DEF Boot, ResetSending
  <2>3. /\ DOMAIN jobs' = DOMAIN jobs
        /\ \A l \in DOMAIN jobs :
             jobs'[l].status = IF l \in keys THEN "pending" ELSE jobs[l].status
    <3> HIDE DEF keys
    <3> QED
      BY <1>0, <2>2, SetStatusFacts
  <2> QED
    BY <2>3
<1>4. CASE ~ClaimJobs /\ dpc # "boot" /\ UNCHANGED batch
  BY <1>0, <1>1, <1>4, OnlyClaimed DEF TakenInv, Taken
<1>5. CASE ~ClaimJobs /\ dpc # "boot" /\ ~UNCHANGED batch
  <2>1. \A l \in DOMAIN jobs' : jobs'[l].status = "sending" =>
          l \in DOMAIN jobs /\ l # Current /\ jobs[l].status = "sending"
    BY <1>0, <1>5, OnlyClaimed, SettledFirst
  <2>2. batch # << >>
    BY <1>5, SettledFirst
  <2>3. PICK affected : NextJob(affected)
    BY <1>5, SettledFirst
  <2> QED
    BY <1>1, <1>5, <2>1, <2>2, <2>3, TakenGoOn
<1> QED
  BY <1>2, <1>3, <1>4, <1>5

LEMMA TakenInvariant == Spec => []TakenInv
<1>1. Init => TakenInv
  <2> SUFFICES ASSUME Init PROVE TakenInv
    OBVIOUS
  <2>1. jobs = << >> /\ batch = << >> /\ DOMAIN jobs = {} /\ DOMAIN batch = {}
        /\ dpc = "boot"
    BY DEF Init
  <2> QED
    BY <2>1, InitType DEF TakenInv, LedgerInv, BatchClaimed, Ledger, VictimKnown, Taken
<1>2. TakenInv /\ [Next]_vars => TakenInv'
  <2> SUFFICES ASSUME TakenInv, [Next]_vars PROVE TakenInv'
    OBVIOUS
  <2>1. LedgerInv'
    BY StepLedger, StepType DEF TakenInv, LedgerInv
  <2>2. Taken'
    BY HandStep, TurnStep DEF Taken
  <2> QED
    BY <2>1, <2>2, VictimStep DEF TakenInv
<1> QED
  BY <1>1, <1>2, PTL DEF Spec

(* While no statement failed, a finished tick leaves no job in "sending":  *)
(* each job it claimed was settled by the loop, by the rebuild the loop    *)
(* made because of it, or behind the loop's back.                          *)
THEOREM NothingForgotten == Spec => []NothingStranded
<1>1. TakenInv => NothingStranded
  <2> SUFFICES ASSUME TakenInv, dpc = "idle", used.faults = 0,
                      NEW k \in DOMAIN jobs, jobs[k].status = "sending"
               PROVE  FALSE
    BY DEF NothingStranded
  <2>1. DOMAIN batch = {}
    BY DEF TakenInv, LedgerInv, TypeInv, LoopOK
  <2> QED
    BY <2>1 DEF TakenInv, Taken
<1> QED
  BY <1>1, TakenInvariant, PTL

------------------------------------------------------------------------------
(* A rebuild keeps the dialogue going.                                     *)

(* The step after the last one is free.                                    *)
LEMMA MaxStepIsLast ==
  ASSUME NEW j, GoodTable(j), NEW c, NEW d, NEW i \in Nat \ {0}
  PROVE  <<c, d, MaxStep(j, c, d) + i>> \notin DOMAIN j
<1> DEFINE S == Steps(j, c, d)
           m == MaxStep(j, c, d)
           key == <<c, d, m + i>>
<1>1. m \in Nat
  BY MaxStepType
<1>2. S \in SUBSET Nat
  BY DEF Steps, OfDay, GoodTable, Key
<1>3. \A s \in S : s <= m
  <2>1. CASE S = {}
    BY <2>1
  <2>2. CASE S # {}
    <3>1. PICK b \in Nat : \A k \in DOMAIN j : k[3] <= b
      BY DEF GoodTable
    <3>2. \A s \in S : s <= b
      BY <3>1 DEF Steps, OfDay
    <3>3. \E n \in S : \A s \in S : s <= n
      <4> HIDE DEF S
      <4> QED
        BY <1>2, <2>2, <3>1, <3>2, BoundedMaximum
    <3> QED
      BY <2>2, <3>3 DEF MaxStep
  <2> QED
    BY <2>1, <2>2
<1>4. ~(m + i <= m)
  <2> HIDE DEF m
  <2> QED
    BY <1>1
<1>5. SUFFICES ASSUME key \in DOMAIN j PROVE FALSE
  OBVIOUS
<1> HIDE DEF m
<1>6. key[1] = c /\ key[2] = d /\ key[3] = m + i
  OBVIOUS
<1>7. m + i \in S
  BY <1>5, <1>6 DEF Steps, OfDay
<1> QED
  BY <1>3, <1>4, <1>7

(* The message i of a day that the window is sure to hold is inserted.     *)
LEMMA MessageInserted ==
  ASSUME NEW j, GoodTable(j), NEW ring \in Seq(Account), NEW c \in Comm,
         NEW d \in Nat, NEW start \in Nat,
         NEW at \in Schedules(start, MessageCount(ring)),
         NEW m \in 0..MessageCount(ring),
         KeptInWindow(at, MessageCount(ring), d, m),
         NEW new,
         new = InsertOrIgnore(j, DayRows(ring, c, d, MaxStep(j, c, d), at, m)),
         NEW i \in 1..MessageCount(ring), start + (i - 1) * MaxGap < DayEnd(d)
  PROVE  \E k \in DOMAIN new \ DOMAIN j :
           /\ k[1] = c /\ k[2] = d
           /\ new[k].snd = Message(ring, i).snd
           /\ new[k].rcv = Message(ring, i).rcv
           /\ new[k].at \in (start + (i - 1) * MinGap)..(start + (i - 1) * MaxGap)
<1> DEFINE n == MessageCount(ring)
           base == MaxStep(j, c, d)
           rows == DayRows(ring, c, d, base, at, m)
           key == <<c, d, base + i>>
<1>1. n \in Nat /\ base \in Nat
  BY MessageType, MaxStepType
<1>2. at[i] \in Nat
  BY <1>1, ScheduleType
<1>3. /\ at[i] >= start + (i - 1) * MinGap
      /\ at[i] <= start + (i - 1) * MaxGap
  BY <1>1, ScheduleBounds
<1>4. (i - 1) * MinGap \in Int /\ (i - 1) * MaxGap \in Int /\ DayEnd(d) \in Int
      /\ i \in Nat \ {0}
  BY <1>1, RingsAssumption DEF DayEnd
<1>5. at[i] < DayEnd(d)
  BY <1>2, <1>3, <1>4
<1>6. i <= m
  BY <1>5 DEF KeptInWindow
<1>7. key \notin DOMAIN j
  BY <1>4, MaxStepIsLast
<1> HIDE DEF base
<1>8. key[1] = c /\ key[2] = d /\ key[3] - base = i
  BY <1>1, <1>4
<1>9. key \in DOMAIN rows
  BY <1>1, <1>4, <1>6 DEF DayRows
<1>10. rows[key] = [snd |-> Message(ring, i).snd, rcv |-> Message(ring, i).rcv,
                    at |-> at[i], status |-> "pending",
                    sends |-> 0, base |-> base, moved |-> FALSE]
  BY <1>8, <1>9 DEF DayRows
<1> HIDE DEF rows, key
<1>11. key \in DOMAIN new \ DOMAIN j /\ new[key] = rows[key]
  BY <1>7, <1>9 DEF InsertOrIgnore, rows, base
<1>12. new[key].at \in (start + (i - 1) * MinGap)..(start + (i - 1) * MaxGap)
  BY <1>2, <1>3, <1>4, <1>10, <1>11
<1> QED
  BY <1>8, <1>10, <1>11, <1>12

(* What DialogueResumes asks of a process that inserts.                    *)
Resumes(p) ==
  LET d == Smallest(rb[p].dates)
      start == RebuildStart(d, rb[p].now)
  IN  \A i \in 1..MessageCount(rb[p].ring) :
        start + (i - 1) * MaxGap < DayEnd(d) =>
          \E k \in DOMAIN jobs' \ DOMAIN jobs :
            /\ k[1] = RbComm(p) /\ k[2] = d
            /\ jobs'[k].snd = Message(rb[p].ring, i).snd
            /\ jobs'[k].rcv = Message(rb[p].ring, i).rcv
            /\ jobs'[k].at \in (start + (i - 1) * MinGap)..(start + (i - 1) * MaxGap)

LEMMA ResumeStep ==
  ASSUME TypeInv, [Next]_vars, NEW p \in Proc, rb[p].pc = "insert", rb'[p] # rb[p],
         used'.faults = used.faults, used'.crashes = used.crashes
  PROVE  Resumes(p)
<1>0. used \in [reports : Nat, faults : Nat, errors : Nat, crashes : Nat]
  BY DEF TypeInv, RestOK
<1>1. ~Crash
  <2> SUFFICES ASSUME Crash PROVE FALSE
    OBVIOUS
  <2>1. used'.crashes = used.crashes + 1 /\ used.crashes \in Nat
    BY <1>0, CountOne DEF Crash
  <2> QED
    BY <2>1
<1>2. ~Fault
  <2> SUFFICES ASSUME Fault PROVE FALSE
    OBVIOUS
  <2>1. used'.faults = used.faults + 1 /\ used.faults \in Nat
    BY <1>0 DEF Fault
  <2> QED
    BY <2>1
<1>3. Rebuild(p)
  BY <1>1, RebuildStep
<1>4. RbInsert(p)
  BY <1>3 DEF Rebuild, RbList, RbEnabled, RbStale, RbRead, RbCancel, RbUnlock
<1> DEFINE c == RbComm(p)
           d == Smallest(rb[p].dates)
           ring == rb[p].ring
           start == RebuildStart(d, rb[p].now)
<1>5. InsertDay(ring, c, d, start, MaxStep(jobs, c, d))
  BY <1>2, <1>4 DEF RbInsert
<1>6. c \in Comm /\ ring \in Seq(Account) /\ d \in Nat /\ rb[p].now \in Nat
  BY RebuildAt
<1>7. start \in Nat /\ GoodTable(jobs)
  BY <1>6, RebuildStartType DEF TypeInv
<1> HIDE DEF c, d, ring, start
<1>8. ASSUME NEW i \in 1..MessageCount(ring), start + (i - 1) * MaxGap < DayEnd(d)
      PROVE  \E k \in DOMAIN jobs' \ DOMAIN jobs :
               /\ k[1] = c /\ k[2] = d
               /\ jobs'[k].snd = Message(ring, i).snd
               /\ jobs'[k].rcv = Message(ring, i).rcv
               /\ jobs'[k].at \in (start + (i - 1) * MinGap)..(start + (i - 1) * MaxGap)
  <2>1. PICK at \in Schedules(start, MessageCount(ring)), m \in 0..MessageCount(ring) :
          /\ KeptInWindow(at, MessageCount(ring), d, m)
          /\ jobs' = InsertOrIgnore(jobs, DayRows(ring, c, d, MaxStep(jobs, c, d), at, m))
    BY <1>5 DEF InsertDay
  <2> QED
    BY <1>6, <1>7, <1>8, <2>1, MessageInserted
<1> QED
  BY <1>8 DEF Resumes, c, d, ring, start

(* A rebuild whose statements succeed keeps the dialogue going: each       *)
(* message of the new ring that the window is sure to hold is inserted,    *)
(* none is lost to a step number that is already taken.                    *)
THEOREM DialogueGoesOn == Spec => DialogueResumes
<1>1. TypeInv /\ [Next]_vars =>
        [\A p \in Proc :
           rb[p].pc = "insert" /\ rb'[p] # rb[p] /\ used'.faults = used.faults
             /\ used'.crashes = used.crashes => Resumes(p)]_vars
  BY ResumeStep
<1>2. Init => TypeInv
  BY InitType
<1>3. TypeInv /\ [Next]_vars => TypeInv'
  BY StepType
<1> QED
  BY <1>1, <1>2, <1>3, PTL DEF Spec, DialogueResumes, Resumes

------------------------------------------------------------------------------
(* What completing a group cancels stays cancelled, but for two writes     *)
(* that may be under way: the insertion of a rebuild that has cancelled    *)
(* before, and the reschedule of a job in the loop's hand.                 *)

Ended(c) == group[c].stage \in {"closing", "closed"}

(* Neither of the two is about to hit a group that was ended.              *)
NoWriteUnderWay ==
  \A c \in Comm :
    Ended(c) => /\ \A p \in Proc : rb[p].pc = "insert" => RbComm(p) # c
                /\ dpc = "resched" => Current[1] # c

EndedIsCancelled == \A k \in DOMAIN jobs : Ended(k[1]) => ~IsOpen(k)

EndedInv == RingInv /\ EndedIsCancelled

(* Nothing opens again but the job that the loop reschedules.              *)
LEMMA OnlyRescheduleOpens ==
  ASSUME TypeInv, [Next]_vars, NEW k \in DOMAIN jobs, ~IsOpen(k), IsOpen(k)'
  PROVE  dpc = "resched" /\ k = Current
<1>1. RescheduleCooling
  BY StepAges DEF Steady, IsOpen
<1>2. dpc = "resched" /\ batch # << >>
  BY <1>1 DEF RescheduleCooling, TypeInv, LoopOK
<1>3. Current \in DOMAIN jobs
  BY <1>2, CurrentType DEF TypeInv
<1>4. \/ UNCHANGED jobs
      \/ jobs' = Reschedule(jobs, Current, cooldown[CurrentJob.snd].until)
  BY <1>1 DEF RescheduleCooling
<1> DEFINE row == [jobs[Current] EXCEPT !.status = "pending",
                                        !.at = cooldown[CurrentJob.snd].until, !.moved = TRUE]
<1>5. UNCHANGED jobs \/ jobs' = [jobs EXCEPT ![Current] = row]
  BY <1>3, <1>4 DEF Reschedule, TypeInv, GoodTable, IsTable
<1> HIDE DEF row
<1>6. k # Current => jobs'[k] = jobs[k]
  BY <1>5
<1>7. UNCHANGED jobs => jobs'[k] = jobs[k]
  OBVIOUS
<1> QED
  BY <1>2, <1>6 DEF IsOpen

LEMMA EndedStep == EndedInv /\ NoWriteUnderWay /\ [Next]_vars => EndedInv'
<1> SUFFICES ASSUME EndedInv, NoWriteUnderWay, [Next]_vars,
                    NEW k \in DOMAIN jobs', Ended(k[1])'
             PROVE  ~IsOpen(k)'
  BY RingStep DEF EndedInv, EndedIsCancelled
<1> USE DEF EndedInv, RingInv
<1>0. k[1] \in Comm /\ TypeInv'
  BY StepType DEF TypeInv, GoodTable, Key
<1>1. CASE Ended(k[1])
  <2>1. k \in DOMAIN jobs
    <3>1. ~(\E p \in Proc : RbInsert(p) /\ k[1] = RbComm(p))
      BY <1>0, <1>1 DEF NoWriteUnderWay, RbInsert
    <3>2. group[k[1]].stage # "saving"
      BY <1>1 DEF Ended
    <3> QED
      BY <3>1, <3>2, RowComesFrom
  <2>2. ~(dpc = "resched" /\ k = Current)
    BY <1>0, <1>1 DEF NoWriteUnderWay
  <2> QED
    BY <1>1, <2>1, <2>2, OnlyRescheduleOpens DEF EndedIsCancelled
<1>2. CASE ~Ended(k[1])
  <2>1. BotCancel(k[1])
    <3>1. group \in [Comm -> [stage : {"none", "saving", "broken", "enabled", "closing",
                                       "closed"}, saved : Nat]]
      BY DEF TypeInv, RestOK
    <3>2. PICK e \in Comm : Bot(e)
      BY <1>2 DEF Next, Dispatch, Boot, StartTick, ClaimJobs, SkipJob, LoadAccounts,
         RescheduleCooling, FailJob, SendSucceeds, SendFailsFatally, SendFailsSoftly,
         SendFails, MarkAdminSessionLost, RecordSent, Rebuild, RbList, RbEnabled, RbStale,
         RbRead, RbCancel, RbInsert, RbUnlock, Events, Report, Mirror, ClockTick, Crash,
         vars, Ended
    <3>3. e = k[1]
      BY <1>0, <1>2, <3>1, <3>2 DEF Bot, BotSaveGroup, BotInsertDay, BotEnable, BotCancel,
         BotDelete, BotGivesUp, Ended
    <3> QED
      BY <1>0, <1>2, <3>1, <3>2, <3>3 DEF Bot, BotSaveGroup, BotInsertDay, BotEnable,
         BotDelete, BotGivesUp, Ended
  <2>2. jobs' = CancelPendingForComm(jobs, k[1]) /\ GoodTable(jobs)
    BY <2>1 DEF BotCancel, TypeInv
  <2>3. k \in DOMAIN jobs /\ jobs[k] \in Row(Account)
    BY <2>2, AgedCancel DEF CancelPendingForComm, GoodTable, IsTable
  <2>4. CASE k \in OpenJobs(jobs)
    <3>1. jobs'[k] = [jobs[k] EXCEPT !.status = "cancelled"]
      BY <2>2, <2>3, <2>4 DEF CancelPendingForComm, Cancel, SetStatus, OfComm
    <3>2. jobs'[k].status = "cancelled"
      BY <2>3, <3>1 DEF Row
    <3> QED
      BY <3>2 DEF OpenStatus, IsOpen
  <2>5. CASE k \notin OpenJobs(jobs)
    <3>1. jobs'[k] = jobs[k]
      BY <2>2, <2>3, <2>5 DEF CancelPendingForComm, Cancel, SetStatus
    <3> QED
      BY <2>3, <2>5, <3>1 DEF OpenJobs, IsOpen
  <2> QED
    BY <2>4, <2>5
<1> QED
  BY <1>1, <1>2

(* After a group was completed, none of its messages is still going to be  *)
(* sent, unless one of the two writes was under way.                       *)
THEOREM OnlyTwoWritesRevive == Spec /\ []NoWriteUnderWay => []CompletedMeansCancelled
<1>1. Init => EndedInv
  BY RingStarts DEF Init, EndedInv, EndedIsCancelled
<1>2. EndedInv => CompletedMeansCancelled
  BY DEF EndedInv, EndedIsCancelled, CompletedMeansCancelled, Ended
<1> QED
  BY <1>1, <1>2, EndedStep, PTL DEF Spec

------------------------------------------------------------------------------
(* A rebuild inserts messages of remaining accounts, if it read them.      *)

(* Whenever a rebuild may read its survivors, the runtime database calls   *)
(* no account available that was lost and that nobody is about to drop.    *)
ReadsTheTruth ==
  \A p \in Proc :
    rb[p].pc = "comm" =>
      \A a \in Account : account[a] \notin Unavailable => Remaining(a)

(* The ring a rebuild works with.                                          *)
RingRemains ==
  \A p \in Proc :
    rb[p].pc \in {"cancel", "insert"} =>
      rb[p].ring \in Seq({a \in Account : Remaining(a)})

RemainInv == TypeInv /\ MuHeld /\ RingRemains

(* Who is being dropped is being dropped while another's rebuild goes on:  *)
(* his own needs rebuildMu.                                                *)
LEMMA DropWaits ==
  ASSUME TypeInv, MuHeld, [Next]_vars, NEW p \in Proc, Rebuilding(p), Rebuilding(p)',
         NEW q \in Proc, Excluding(q)
  PROVE  Excluding(q)' /\ Dropped(q)' = Dropped(q)
<1>0. /\ rebuildMu = p /\ NoProc \notin Proc /\ Loop \notin Account
      /\ handler \in [Account -> {"idle", "revoke", "activate", "exclude"}]
  BY DispatcherAssumption DEF MuHeld, Proc, TypeInv, RestOK
<1>1. \A r \in Proc : ~RbList(r)
  BY <1>0 DEF RbList, MuFree
<1>2. \A r \in Proc : ~RbUnlock(r)
  <2> SUFFICES ASSUME NEW r \in Proc, RbUnlock(r) PROVE FALSE
    OBVIOUS
  <2>1. rb'[r].pc = "idle" /\ Rebuilding(r)
    BY AroundGroups DEF Rebuilding, RbUnlock
  <2> QED
    BY <2>1, Alone DEF Rebuilding
<1>3. ~Crash
  BY DEF Crash, Rebuilding, NoRebuild
<1>4. CASE q = Loop
  <2>1. dpc = "exclude"
    BY <1>4 DEF Excluding
  <2>2. ~Dispatch
    BY <2>1 DEF Dispatch, Boot, StartTick, ClaimJobs, SkipJob, LoadAccounts,
       RescheduleCooling, FailJob, SendSucceeds, SendFailsFatally, SendFailsSoftly,
       SendFails, MarkAdminSessionLost, RecordSent
  <2>3. UNCHANGED loopVars
    BY <1>1, <1>2, <1>3, <2>2 DEF Next, Events, Report, Mirror, Bot, BotSaveGroup,
       BotInsertDay, BotEnable, BotCancel, BotDelete, ClockTick, vars, loopVars, Rebuild,
       RbEnabled, RbStale, RbRead, RbCancel, RbInsert
  <2> QED
    BY <1>4, <2>3 DEF Excluding, Dropped, loopVars
<1>5. CASE q # Loop
  <2>1. q \in Account /\ handler[q] = "exclude"
    BY <1>5 DEF Excluding, Proc
  <2>2. handler'[q] = "exclude"
    <3>1. CASE UNCHANGED handler
      BY <2>1, <3>1
    <3>2. ASSUME NEW a \in Account, Events(a) PROVE handler'[q] = "exclude"
      BY <1>0, <2>1, <3>2 DEF Events, Report, Mirror
    <3> QED
      BY <1>1, <1>2, <1>3, <3>1, <3>2 DEF Next, Dispatch, Boot, StartTick, ClaimJobs,
         SkipJob, LoadAccounts, RescheduleCooling, FailJob, SendSucceeds,
         SendFailsFatally, SendFailsSoftly, SendFails, MarkAdminSessionLost, RecordSent,
         Bot, BotSaveGroup, BotInsertDay, BotEnable, BotCancel, BotDelete, ClockTick,
         vars, Rebuild, RbEnabled, RbStale, RbRead, RbCancel, RbInsert
  <2> QED
    BY <1>5, <2>2 DEF Excluding, Dropped
<1> QED
  BY <1>4, <1>5

(* While a rebuild goes on, no account stops remaining: who is lost is     *)
(* being dropped, until the rebuild is over.                               *)
LEMMA RemainingStays ==
  ASSUME TypeInv, MuHeld, [Next]_vars, NEW p \in Proc, Rebuilding(p), Rebuilding(p)',
         NEW a \in Account, Remaining(a)
  PROVE  Remaining(a)'
<1>0. /\ admin \in [Account -> {"active", "revoked"}]
      /\ handler \in [Account -> {"idle", "revoke", "activate", "exclude"}]
      /\ Account \subseteq Proc /\ Loop \in Proc /\ Loop \notin Account
  BY DispatcherAssumption DEF TypeInv, RestOK, Proc
<1>1. CASE \E q \in Proc : Excluding(q) /\ Dropped(q) = a
  <2>1. PICK q \in Proc : Excluding(q) /\ Dropped(q) = a
    BY <1>1
  <2>2. Excluding(q)' /\ Dropped(q)' = a
    BY <2>1, DropWaits
  <2> QED
    BY <2>2 DEF Remaining
<1>2. CASE admin[a] = "active" /\ admin'[a] # "active"
  <2>1. CASE MarkAdminSessionLost
    <3>1. a = victim /\ dpc' = "exclude" /\ victim' = victim
      BY <1>0, <1>2, <2>1 DEF MarkAdminSessionLost
    <3>2. Excluding(Loop)' /\ Dropped(Loop)' = a
      BY <3>1 DEF Excluding, Dropped
    <3> QED
      BY <1>0, <3>2 DEF Remaining
  <2>2. ASSUME NEW b \in Account, Mirror(b) PROVE Remaining(a)'
    <3>1. a = b /\ handler'[a] = "exclude"
      BY <1>0, <1>2, <2>2 DEF Mirror
    <3>2. Excluding(a)' /\ Dropped(a)' = a
      BY <1>0, <3>1 DEF Excluding, Dropped
    <3> QED
      BY <1>0, <3>2 DEF Remaining
  <2> QED
    BY <1>2, <2>1, <2>2 DEF Next, Dispatch, Boot, StartTick, ClaimJobs, SkipJob,
       LoadAccounts, RescheduleCooling, FailJob, SendSucceeds, SendFailsFatally,
       SendFailsSoftly, SendFails, RecordSent, Events, Report, Rebuild, RbList,
       RbEnabled, RbStale, RbRead, RbCancel, RbInsert, RbUnlock, Bot, BotSaveGroup,
       BotInsertDay, BotEnable, BotCancel, BotDelete, ClockTick, Crash, vars
<1> QED
  BY <1>1, <1>2 DEF Remaining

LEMMA RemainStep == RemainInv /\ ReadsTheTruth /\ [Next]_vars => RemainInv'
<1> SUFFICES ASSUME RemainInv, ReadsTheTruth, [Next]_vars, NEW p \in Proc,
                    rb'[p].pc \in {"cancel", "insert"}
             PROVE  rb'[p].ring \in Seq({a \in Account : Remaining(a)'})
  BY StepType, MuStep DEF RemainInv, RingRemains
<1> USE DEF RemainInv
<1> DEFINE R == {a \in Account : Remaining(a)}
           N == {a \in Account : Remaining(a)'}
<1>1. Rebuilding(p) => R \subseteq N
  BY RemainingStays DEF Rebuilding
<1>2. CASE rb'[p] = rb[p]
  <2>1. rb[p].ring \in Seq(R) /\ R \subseteq N
    BY <1>1, <1>2 DEF RingRemains, Rebuilding
  <2>2. rb'[p].ring \in Seq(N)
    <3> HIDE DEF R, N
    <3> QED
      BY <1>2, <2>1
  <2> QED
    BY <2>2
<1>3. CASE Rebuild(p) /\ rb'[p] # rb[p]
  <2>1. ~CountedOff(p)
    BY DEF CountedOff
  <2>2. CASE RbRead(p)
    <3>1. rb'[p].ring \in Seq(Survivors(p))
      BY <2>1, <2>2, Reading
    <3>2. Survivors(p) \subseteq R /\ R \subseteq N
      BY <1>1, <2>2, ReadTypes DEF ReadsTheTruth, Survivors, RbRead, Rebuilding, TypeInv
    <3>3. rb'[p].ring \in Seq(N)
      <4> HIDE DEF R, N
      <4> QED
        BY <3>1, <3>2
    <3> QED
      BY <3>3
  <2>3. CASE RbCancel(p) \/ RbInsert(p)
    <3>1. rb'[p].ring = rb[p].ring /\ rb[p].pc \in {"cancel", "insert"}
      BY <2>1, <2>3, Cancelling, Inserting DEF RbCancel, RbInsert
    <3>2. rb[p].ring \in Seq(R) /\ R \subseteq N
      BY <1>1, <3>1 DEF RingRemains, Rebuilding
    <3>3. rb'[p].ring \in Seq(N)
      <4> HIDE DEF R, N
      <4> QED
        BY <3>1, <3>2
    <3> QED
      BY <3>3
  <2>4. ~RbList(p) /\ ~RbEnabled(p) /\ ~RbStale(p) /\ ~RbUnlock(p)
    BY <1>3, <2>1, AroundGroups
  <2> QED
    BY <1>3, <2>2, <2>3, <2>4 DEF Rebuild
<1> QED
  BY <1>2, <1>3, RebuildStep

(* The rows a rebuild inserts.                                             *)
StaysOut(p) ==
  \A k \in DOMAIN jobs' \ DOMAIN jobs :
    Remaining(jobs'[k].snd) /\ Remaining(jobs'[k].rcv)

LEMMA RemainingInserted ==
  ASSUME RemainInv, [Next]_vars, NEW p \in Proc, rb[p].pc = "insert", rb'[p] # rb[p]
  PROVE  StaysOut(p)
<1> USE DEF RemainInv
<1>1. CASE UNCHANGED jobs
  BY <1>1 DEF StaysOut
<1>2. CASE ~UNCHANGED jobs
  <2>1. Rebuild(p)
    BY <1>2, RebuildStep DEF Crash
  <2>2. RbInsert(p)
    BY <2>1 DEF Rebuild, RbList, RbEnabled, RbStale, RbRead, RbCancel, RbUnlock
  <2> DEFINE B == {a \in Account : Remaining(a)}
             d == Smallest(rb[p].dates)
  <2>3. rb[p].ring \in Seq(B)
    BY DEF RingRemains
  <2>4. Inserted(jobs, jobs', B, RbComm(p), d, MaxStep(jobs, RbComm(p), d), DayStart(d))
    <3> HIDE DEF B
    <3> QED
      BY <1>2, <2>2, <2>3, RebuildInserts
  <2>5. \A k \in DOMAIN jobs' \ DOMAIN jobs : jobs'[k].snd \in B /\ jobs'[k].rcv \in B
    <3> HIDE DEF B, d
    <3> QED
      BY <2>4 DEF Inserted
  <2> QED
    BY <2>5 DEF StaysOut
<1> QED
  BY <1>1, <1>2

(* A rebuild inserts no message of an account that was dropped, unless the *)
(* runtime database called the account available when the rebuild read it: *)
(* between the reading and the last insertion nothing goes wrong, whoever  *)
(* is lost or dropped meanwhile.                                           *)
THEOREM OnlyStaleStatusReturns == Spec /\ []ReadsTheTruth => DroppedStaysOut
<1>1. Init => RemainInv
  BY RingStarts DEF Init, RingInv, RemainInv, RingRemains, NoRebuild
<1>2. RemainInv /\ [Next]_vars =>
        [\A p \in Proc : rb[p].pc = "insert" /\ rb'[p] # rb[p] => StaysOut(p)]_vars
  BY RemainingInserted
<1> QED
  BY <1>1, <1>2, RemainStep, PTL DEF Spec, DroppedStaysOut, StaysOut


==============================================================================
