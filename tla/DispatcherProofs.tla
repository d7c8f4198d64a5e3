--------------------------- MODULE DispatcherProofs ---------------------------
(***************************************************************************)
(* TypeCorrect: every variable of Dispatcher keeps its type, for any       *)
(* accounts, groups, plans, bounds and times.                              *)
(*                                                                         *)
(* TypeInv strengthens the types to an inductive invariant: the loop has   *)
(* jobs in hand exactly while it is inside its for statement, and a        *)
(* rebuild that cancels or inserts has a group and days to do it for.      *)
(* The lemmas on the way also say that every action but the loop's changes *)
(* the table quietly, which LedgerProofs builds on.                        *)
(***************************************************************************)
EXTENDS Dispatcher, RingsProofs

------------------------------------------------------------------------------
(* The types, by the parts of the state.                                   *)

(* Step numbers have a bound (so that MAX(step_no) exists).                *)
GoodTable(j) ==
  /\ DOMAIN j \subseteq Key
  /\ IsTable(j, Account)
  /\ \E b \in Nat : \A k \in DOMAIN j : k[3] <= b

(* The loop has jobs in hand exactly while it is inside the for statement. *)
LoopOK ==
  /\ dpc \in {"boot", "idle", "claim", "next", "resched", "fail", "send", "sent",
              "lost", "exclude"}
  /\ batch \in Seq(DOMAIN jobs)
  /\ tick \in Nat
  /\ rebuilt \subseteq Comm
  /\ victim \in Account \union {NoProc}
  /\ batch = << >> <=> dpc \in {"boot", "idle", "claim"}

(* A rebuild that cancels or inserts has a group, and days to insert.      *)
RebuildOK ==
  /\ rb \in [Proc -> RebuildState]
  /\ rebuildMu \in Proc \union {NoProc}
  /\ \A p \in Proc :
       /\ rb[p].pc \in {"cancel", "insert"} => rb[p].todo # {}
       /\ rb[p].pc = "insert" => rb[p].dates # {}

RestOK ==
  /\ account \in [Account -> AccountStatus]
  /\ admin \in [Account -> {"active", "revoked"}]
  /\ group \in [Comm -> [stage : {"none", "saving", "broken", "enabled", "closing",
                                  "closed"}, saved : Nat]]
  /\ clock \in Nat
  /\ cooldown \in [Account -> [fails : Nat, until : Nat]]
  /\ handler \in [Account -> {"idle", "revoke", "activate", "exclude"}]
  /\ used \in [reports : Nat, faults : Nat, errors : Nat, crashes : Nat]

(* While the loop rebuilds, it waits for the rebuild.                      *)
LoopWaits == rb[Loop].pc # "idle" => dpc = "exclude"

TypeInv == GoodTable(jobs) /\ LoopOK /\ RebuildOK /\ LoopWaits /\ RestOK

------------------------------------------------------------------------------
(* Tables.                                                                 *)

(* A change that settles no outcome: either rows are cancelled while they  *)
(* are open, or new rows come, pending and unsent.                         *)
Quiet(old, new) ==
  /\ DOMAIN old \subseteq DOMAIN new
  /\ \A k \in DOMAIN old :
       /\ new[k].sends = old[k].sends
       /\ \/ new[k].status = old[k].status
          \/ old[k].status \in OpenStatus /\ new[k].status = "cancelled"
  /\ \A k \in DOMAIN new \ DOMAIN old : new[k].sends = 0 /\ new[k].status = "pending"
  /\ \/ DOMAIN new = DOMAIN old
     \/ \A k \in DOMAIN old : new[k].status = old[k].status

(* No change is quiet.                                                     *)
LEMMA QuietNothing ==
  ASSUME NEW j, GoodTable(j)
  PROVE  Quiet(j, j)
BY DEF Quiet

(* Every cancellation is quiet.                                            *)
LEMMA QuietCancel ==
  ASSUME NEW j, GoodTable(j), NEW keys
  PROVE  GoodTable(Cancel(j, keys)) /\ Quiet(j, Cancel(j, keys))
<1>1. IsTable(j, Account)
  BY DEF GoodTable
<1> QED
  BY <1>1, CancelFacts DEF GoodTable, Quiet

(* A status that is set keeps the table good.                              *)
LEMMA GoodSetStatus ==
  ASSUME NEW j, GoodTable(j), NEW keys, NEW s \in JobStatus
  PROVE  GoodTable(SetStatus(j, keys, s))
<1>1. IsTable(j, Account)
  BY DEF GoodTable
<1> QED
  BY <1>1, SetStatusFacts DEF GoodTable

(* So does a reschedule.                                                   *)
LEMMA GoodReschedule ==
  ASSUME NEW j, GoodTable(j), NEW k \in DOMAIN j, NEW until \in Nat
  PROVE  /\ GoodTable(Reschedule(j, k, until))
         /\ DOMAIN Reschedule(j, k, until) = DOMAIN j
<1>1. IsTable(j, Account)
  BY DEF GoodTable
<1> QED
  BY <1>1, RescheduleFacts DEF GoodTable

(* And a delivery, which counts and changes nothing else.                  *)
LEMMA GoodDelivery ==
  ASSUME NEW j, GoodTable(j), NEW k \in DOMAIN j, NEW n \in {0, 1},
         NEW new, new = [j EXCEPT ![k].sends = @ + n]
  PROVE  /\ GoodTable(new)
         /\ DOMAIN new = DOMAIN j
         /\ new[k].sends = j[k].sends + n
         /\ \A l \in DOMAIN j : new[l].status = j[l].status
         /\ \A l \in DOMAIN j \ {k} : new[l] = j[l]
<1> DEFINE row == [j[k] EXCEPT !.sends = @ + n]
<1>1. j[k] \in Row(Account)
  BY DEF GoodTable, IsTable
<1>2. row \in Row(Account) /\ row.sends = j[k].sends + n /\ row.status = j[k].status
  BY <1>1 DEF Row
<1>3. new = [j EXCEPT ![k] = row]
  BY DEF GoodTable, IsTable
<1> HIDE DEF row
<1>4. IsTable(new, Account) /\ DOMAIN new = DOMAIN j
  BY <1>2, <1>3 DEF GoodTable, IsTable
<1> QED
  BY <1>2, <1>3, <1>4 DEF GoodTable

(* MAX(step_no) of a day is a number.                                      *)
LEMMA MaxStepType ==
  ASSUME NEW j, GoodTable(j), NEW c, NEW d
  PROVE  MaxStep(j, c, d) \in Nat
<1> DEFINE S == Steps(j, c, d)
<1>1. CASE S = {}
  BY <1>1 DEF MaxStep
<1>2. CASE S # {}
  <2>1. PICK b \in Nat : \A k \in DOMAIN j : k[3] <= b
    BY DEF GoodTable
  <2>2. S \in SUBSET Nat /\ \A s \in S : s <= b
    BY <2>1 DEF Steps, OfDay, GoodTable, Key
  <2>3. \E m \in S : \A s \in S : s <= m
    <3> HIDE DEF S
    <3> QED
      BY <1>2, <2>2, BoundedMaximum
  <2> QED
    BY <1>2, <2>2, <2>3 DEF MaxStep
<1> QED
  BY <1>1, <1>2

(* A new row is a row.                                                     *)
LEMMA NewRowIsRow ==
  ASSUME NEW A, NEW base \in Nat, NEW row \in NewRow(A, base)
  PROVE  row \in Row(A) /\ row.sends = 0 /\ row.status = "pending"
<1>1. row = [snd |-> row.snd, rcv |-> row.rcv, at |-> row.at, status |-> row.status,
             sends |-> row.sends, base |-> row.base, moved |-> row.moved]
  BY DEF NewRow
<1>2. /\ row.snd \in A /\ row.rcv \in A /\ row.at \in Nat
      /\ row.status = "pending" /\ row.sends = 0 /\ row.base = base /\ row.moved = FALSE
  BY DEF NewRow
<1>3. row.status \in JobStatus /\ row.moved \in BOOLEAN
  BY <1>2 DEF JobStatus, OpenStatus
<1>4. row.sends \in Nat /\ row.base \in Nat
  BY <1>2
<1> QED
  BY <1>1, <1>2, <1>3, <1>4 DEF Row

(* New rows are inserted quietly.                                          *)
LEMMA QuietInsertion ==
  ASSUME NEW j, GoodTable(j), NEW rows, IsTable(rows, Account),
         NEW n \in Nat,
         \A k \in DOMAIN rows :
           k \in Key /\ k[3] <= n /\ rows[k].sends = 0 /\ rows[k].status = "pending",
         NEW new, new = InsertOrIgnore(j, rows)
  PROVE  GoodTable(new) /\ Quiet(j, new)
<1>1. IsTable(j, Account)
  BY DEF GoodTable
<1>2. /\ DOMAIN new = DOMAIN j \union DOMAIN rows
      /\ IsTable(new, Account)
      /\ \A k \in DOMAIN j : new[k] = j[k]
      /\ \A k \in DOMAIN new \ DOMAIN j : new[k] = rows[k]
  BY <1>1 DEF IsTable, InsertOrIgnore
<1>3. PICK b \in Nat : \A k \in DOMAIN j : k[3] <= b
  BY DEF GoodTable
<1>4. b + n \in Nat
  OBVIOUS
<1>5. \A k \in DOMAIN new : k \in Key /\ k[3] <= b + n
  BY <1>2, <1>3 DEF GoodTable, Key
<1>6. GoodTable(new)
  BY <1>2, <1>4, <1>5 DEF GoodTable
<1>7. Quiet(j, new)
  BY <1>2 DEF Quiet
<1> QED
  BY <1>6, <1>7

(* The rows of a day are inserted quietly.                                 *)
LEMMA QuietInsertDay ==
  ASSUME NEW j, GoodTable(j), NEW ring \in Seq(Account), NEW c \in Comm,
         NEW d \in Nat, NEW start \in Nat, NEW base \in Nat,
         NEW at \in Schedules(start, MessageCount(ring)),
         NEW m \in 0..MessageCount(ring),
         NEW new, new = InsertOrIgnore(j, DayRows(ring, c, d, base, at, m))
  PROVE  GoodTable(new) /\ Quiet(j, new)
<1> DEFINE rows == DayRows(ring, c, d, base, at, m)
<1>1. \A k \in DOMAIN rows :
        k \in Key /\ k[3] <= base + m /\ rows[k] \in NewRow(Account, base)
  BY DayRowsType DEF Key
<1>2. rows = [k \in DOMAIN rows |-> rows[k]]
  BY DEF DayRows
<1>3. base + m \in Nat
  BY MessageType
<1> HIDE DEF rows
<1>4. \A k \in DOMAIN rows :
        rows[k] \in Row(Account) /\ rows[k].sends = 0 /\ rows[k].status = "pending"
  BY <1>1, NewRowIsRow
<1>5. IsTable(rows, Account)
  BY <1>2, <1>4 DEF IsTable
<1>6. new = InsertOrIgnore(j, rows)
  BY DEF rows
<1> QED
  BY <1>1, <1>3, <1>4, <1>5, <1>6, QuietInsertion

------------------------------------------------------------------------------
(* Every action keeps the types.                                           *)

(* The loop's part survives a step that only touches the table.            *)
LEMMA LoopUntouched ==
  ASSUME LoopOK, UNCHANGED loopVars, DOMAIN jobs \subseteq DOMAIN jobs'
  PROVE  LoopOK'
<1>1. batch \in Seq(DOMAIN jobs')
  BY SeqMonotonic DEF LoopOK
<1> QED
  BY <1>1 DEF LoopOK, loopVars

(* So do the three other parts.                                            *)
LEMMA OthersUntouched ==
  /\ RestOK /\ UNCHANGED <<account, admin, group, clock, cooldown, handler, used>> => RestOK'
  /\ RebuildOK /\ UNCHANGED <<rb, rebuildMu>> => RebuildOK'
  /\ GoodTable(jobs) /\ UNCHANGED jobs => GoodTable(jobs') /\ Quiet(jobs, jobs')
BY QuietNothing DEF RestOK, RebuildOK

(* The loop goes on to the next job or leaves DispatchDue.                 *)
LEMMA NextJobType ==
  ASSUME LoopOK, batch # << >>, NEW STATE affected, affected \subseteq Comm,
         NextJob(affected), DOMAIN jobs \subseteq DOMAIN jobs'
  PROVE  LoopOK'
<1>1. CASE Len(batch) = 1
  <2>1. Return
    BY <1>1 DEF NextJob
  <2> QED
    BY <2>1 DEF Return, LoopOK
<1>2. CASE Len(batch) # 1
  <2>1. /\ dpc' = "next" /\ batch' = Tail(batch) /\ tick' = tick
        /\ rebuilt' = rebuilt \union affected /\ victim' = NoProc
    BY <1>2 DEF NextJob
  <2>2. batch \in Seq(DOMAIN jobs') /\ Len(batch) \in Nat
    BY SeqMonotonic DEF LoopOK
  <2>3. Tail(batch) \in Seq(DOMAIN jobs') /\ Len(Tail(batch)) = Len(batch) - 1
    BY <2>2, HeadTailProperties
  <2>4. Len(batch) \in Nat \ {0}
    <3> DEFINE D == DOMAIN jobs'
    <3>1. batch \in Seq(D)
      BY <2>2
    <3> HIDE DEF D
    <3> QED
      BY <3>1, EmptySeq
  <2>5. Tail(batch) # << >>
    <3>1. Len(Tail(batch)) # 0
      BY <1>2, <2>3, <2>4
    <3>2. Len(<< >>) = 0
      OBVIOUS
    <3> QED
      BY <3>1, <3>2, Zenon
  <2> QED
    BY <2>1, <2>3, <2>5 DEF LoopOK
<1> QED
  BY <1>1, <1>2

(* The job in hand is in the table.                                        *)
LEMMA CurrentType ==
  ASSUME GoodTable(jobs), LoopOK, batch # << >>
  PROVE  /\ Current \in DOMAIN jobs
         /\ CurrentJob \in Row(Account)
         /\ CurrentJob.snd \in Account /\ CurrentJob.rcv \in Account
<1>1. Current \in DOMAIN jobs
  BY HeadTailProperties DEF LoopOK, Current
<1>2. CurrentJob \in Row(Account)
  BY <1>1 DEF GoodTable, IsTable, CurrentJob
<1> QED
  BY <1>1, <1>2 DEF Row

(* A failing statement uses up one of the faults.                          *)
LEMMA FaultType ==
  ASSUME RestOK, Fault
  PROVE  used' \in [reports : Nat, faults : Nat, errors : Nat, crashes : Nat]
                 /\ used'.crashes = used.crashes
BY DEF RestOK, Fault

(* Counting reports and crashes.                                           *)
LEMMA CountOne ==
  ASSUME NEW u \in [reports : Nat, faults : Nat, errors : Nat, crashes : Nat]
  PROVE  /\ [u EXCEPT !.reports = @ + 1] \in
              [reports : Nat, faults : Nat, errors : Nat, crashes : Nat]
         /\ [u EXCEPT !.reports = @ + 1].crashes = u.crashes
         /\ [u EXCEPT !.crashes = @ + 1] \in
              [reports : Nat, faults : Nat, errors : Nat, crashes : Nat]
         /\ [u EXCEPT !.crashes = @ + 1].crashes = u.crashes + 1
OBVIOUS

(* Counting two at once.                                                   *)
LEMMA CountTwo ==
  ASSUME NEW u \in [reports : Nat, faults : Nat, errors : Nat, crashes : Nat]
  PROVE  /\ [u EXCEPT !.reports = @ + 1, !.faults = @ + 1] \in
              [reports : Nat, faults : Nat, errors : Nat, crashes : Nat]
         /\ [u EXCEPT !.reports = @ + 1, !.faults = @ + 1].crashes = u.crashes
<1> DEFINE r == [u EXCEPT !.reports = @ + 1]
<1>1. r \in [reports : Nat, faults : Nat, errors : Nat, crashes : Nat]
      /\ r.crashes = u.crashes
  BY CountOne
<1>2. [u EXCEPT !.reports = @ + 1, !.faults = @ + 1] = [r EXCEPT !.faults = @ + 1]
  OBVIOUS
<1> HIDE DEF r
<1>3. [r EXCEPT !.faults = @ + 1] \in
        [reports : Nat, faults : Nat, errors : Nat, crashes : Nat]
      /\ [r EXCEPT !.faults = @ + 1].crashes = r.crashes
  BY <1>1
<1> QED
  BY <1>1, <1>2, <1>3 DEF r

(* Counting errors and faults.                                             *)
LEMMA CountUp ==
  ASSUME NEW u \in [reports : Nat, faults : Nat, errors : Nat, crashes : Nat]
  PROVE  /\ [u EXCEPT !.errors = @ + 1] \in
              [reports : Nat, faults : Nat, errors : Nat, crashes : Nat]
         /\ [u EXCEPT !.errors = @ + 1, !.faults = @ + 1] \in
              [reports : Nat, faults : Nat, errors : Nat, crashes : Nat]
<1> DEFINE e == [u EXCEPT !.errors = @ + 1]
<1>1. e \in [reports : Nat, faults : Nat, errors : Nat, crashes : Nat]
  OBVIOUS
<1>2. [u EXCEPT !.errors = @ + 1, !.faults = @ + 1] = [e EXCEPT !.faults = @ + 1]
  OBVIOUS
<1> HIDE DEF e
<1>3. [e EXCEPT !.faults = @ + 1] \in
        [reports : Nat, faults : Nat, errors : Nat, crashes : Nat]
  BY <1>1
<1> QED
  BY <1>1, <1>2, <1>3 DEF e

(* The actions of the loop.                                                *)
LEMMA DispatchType ==
  ASSUME TypeInv, Dispatch
  PROVE  TypeInv'
<1> USE DEF TypeInv
<1>0. LoopWaits'
  BY DEF LoopWaits, Dispatch, Boot, StartTick, ClaimJobs, SkipJob, LoadAccounts,
     RescheduleCooling, FailJob, SendSucceeds, SendFailsFatally, SendFailsSoftly,
     SendFails, MarkAdminSessionLost, RecordSent
<1>1. CASE Boot
  <2>1. GoodTable(jobs') /\ DOMAIN jobs \subseteq DOMAIN jobs'
    <3>1. "pending" \in JobStatus
      BY DEF JobStatus, OpenStatus
    <3>2. GoodTable(ResetSending(jobs)) /\ DOMAIN ResetSending(jobs) = DOMAIN jobs
      BY <3>1, GoodSetStatus DEF ResetSending, SetStatus
    <3> QED
      BY <1>1, <3>2 DEF Boot
  <2>2. LoopOK'
    <3>1. batch \in Seq(DOMAIN jobs')
      BY <2>1, SeqMonotonic DEF LoopOK
    <3> QED
      BY <1>1, <3>1 DEF Boot, LoopOK
  <2>3. RestOK'
    BY <1>1, FaultType DEF Boot, RestOK
  <2> QED
    BY <1>1, <2>1, <2>2, <2>3, OthersUntouched, <1>0 DEF Boot
<1>2. CASE StartTick
  <2>1. GoodTable(jobs') /\ DOMAIN jobs \subseteq DOMAIN jobs'
    BY <1>2, QuietCancel DEF StartTick, Quiet
  <2>2. LoopOK'
    <3>1. batch \in Seq(DOMAIN jobs')
      BY <2>1, SeqMonotonic DEF LoopOK
    <3> QED
      BY <1>2, <3>1 DEF StartTick, LoopOK, RestOK
  <2>3. RestOK'
    BY <1>2, FaultType DEF StartTick, RestOK
  <2> QED
    BY <1>2, <2>1, <2>2, <2>3, OthersUntouched, <1>0 DEF StartTick
<1>3. CASE ClaimJobs
  <2>1. CASE Return /\ UNCHANGED jobs /\ Fault
    <3>1. LoopOK'
      BY <2>1 DEF Return, LoopOK
    <3>2. RestOK'
      BY <1>3, <2>1, FaultType DEF ClaimJobs, RestOK
    <3> QED
      BY <1>3, <2>1, <3>1, <3>2, OthersUntouched, <1>0 DEF ClaimJobs
  <2>2. ASSUME NEW s \in DueOrders(jobs, tick, BatchSize),
               jobs' = Claim(jobs, s), UNCHANGED used,
               IF s = << >> THEN Return
                            ELSE /\ dpc' = "next"
                                 /\ batch' = s
                                 /\ UNCHANGED <<tick, rebuilt, victim>>
        PROVE  TypeInv'
    <3>1. s \in Seq(DOMAIN jobs)
      BY DueOrdersFacts, DispatcherAssumption DEF GoodTable, LoopOK
    <3>2. "sending" \in JobStatus
      BY DEF JobStatus, OpenStatus
    <3>3. GoodTable(jobs') /\ DOMAIN jobs' = DOMAIN jobs
      BY <2>2, <3>2, GoodSetStatus DEF Claim, SetStatus
    <3>4. LoopOK'
      BY <2>2, <3>1, <3>3 DEF Return, LoopOK
    <3> QED
      BY <1>3, <2>2, <3>3, <3>4, OthersUntouched, <1>0 DEF ClaimJobs
  <2> QED
    BY <1>3, <2>1, <2>2 DEF ClaimJobs
<1>4. CASE SkipJob
  <2>1. GoodTable(jobs') /\ DOMAIN jobs \subseteq DOMAIN jobs'
    BY <1>4, QuietCancel DEF SkipJob, MarkCancelled, Quiet
  <2>2. LoopOK'
    BY <1>4, <2>1, NextJobType DEF SkipJob, LoopOK
  <2>3. RestOK'
    BY <1>4, FaultType DEF SkipJob, RestOK
  <2> QED
    BY <1>4, <2>1, <2>2, <2>3, OthersUntouched, <1>0 DEF SkipJob
<1>5. CASE LoadAccounts
  <2>1. CurrentJob.snd \in Account /\ CurrentJob.rcv \in Account
    BY <1>5, CurrentType DEF LoadAccounts, LoopOK
  <2>2. LoopOK'
    BY <1>5, <2>1 DEF LoadAccounts, Decide, LoopOK
  <2>3. RestOK'
    BY <1>5, FaultType DEF LoadAccounts, Decide, RestOK
  <2> QED
    BY <1>5, <2>2, <2>3, OthersUntouched, <1>0 DEF LoadAccounts
<1>6. CASE RescheduleCooling
  <2>1. Current \in DOMAIN jobs /\ CurrentJob.snd \in Account
    BY <1>6, CurrentType DEF RescheduleCooling, LoopOK
  <2>2. cooldown[CurrentJob.snd].until \in Nat
    BY <2>1 DEF RestOK
  <2>3. GoodTable(jobs') /\ DOMAIN jobs \subseteq DOMAIN jobs'
    BY <1>6, <2>1, <2>2, GoodReschedule DEF RescheduleCooling
  <2>4. LoopOK'
    BY <1>6, <2>3, NextJobType DEF RescheduleCooling, LoopOK
  <2>5. RestOK'
    BY <1>6, FaultType DEF RescheduleCooling, RestOK
  <2> QED
    BY <1>6, <2>3, <2>4, <2>5, OthersUntouched, <1>0 DEF RescheduleCooling
<1>7. CASE FailJob
  <2>1. GoodTable(jobs') /\ DOMAIN jobs \subseteq DOMAIN jobs'
    <3>1. "failed" \in JobStatus
      BY DEF JobStatus
    <3>2. GoodTable(MarkFailed(jobs, Current)) /\ DOMAIN MarkFailed(jobs, Current) = DOMAIN jobs
      BY <3>1, GoodSetStatus DEF MarkFailed, SetStatus
    <3> QED
      BY <1>7, <3>2 DEF FailJob
  <2>2. LoopOK'
    BY <1>7, <2>1, NextJobType DEF FailJob, LoopOK
  <2>3. RestOK'
    BY <1>7, FaultType DEF FailJob, RestOK
  <2> QED
    BY <1>7, <2>1, <2>2, <2>3, OthersUntouched, <1>0 DEF FailJob
<1>8. CASE RecordSent
  <2>1. GoodTable(jobs') /\ DOMAIN jobs \subseteq DOMAIN jobs'
    <3>1. "sent" \in JobStatus
      BY DEF JobStatus
    <3>2. GoodTable(MarkSent(jobs, Current)) /\ DOMAIN MarkSent(jobs, Current) = DOMAIN jobs
      BY <3>1, GoodSetStatus DEF MarkSent, SetStatus
    <3> QED
      BY <1>8, <3>2 DEF RecordSent
  <2>2. LoopOK'
    <3>1. NextJob({}) \/ Return
      BY <1>8 DEF RecordSent
    <3>2. CASE NextJob({})
      BY <1>8, <2>1, <3>2, NextJobType DEF RecordSent, LoopOK
    <3>3. CASE Return
      BY <3>3 DEF Return, LoopOK
    <3> QED
      BY <3>1, <3>2, <3>3
  <2>3. RestOK'
    BY <1>8, FaultType DEF RecordSent, RestOK
  <2> QED
    BY <1>8, <2>1, <2>2, <2>3, OthersUntouched, <1>0 DEF RecordSent
<1>9. CASE MarkAdminSessionLost
  <2>1. LoopOK'
    BY <1>9 DEF MarkAdminSessionLost, LoopOK
  <2>2. RestOK'
    BY <1>9, FaultType DEF MarkAdminSessionLost, RestOK, AdminStatusOfLost
  <2> QED
    BY <1>9, <2>1, <2>2, OthersUntouched, <1>0 DEF MarkAdminSessionLost
<1>10. ASSUME NEW n \in {0, 1}, Delivered(n), dpc = "send"
       PROVE  GoodTable(jobs') /\ DOMAIN jobs' = DOMAIN jobs
              /\ CurrentJob.snd \in Account
  BY <1>10, CurrentType, GoodDelivery DEF Delivered, LoopOK
<1>11. CASE SendSucceeds
  <2>1. GoodTable(jobs') /\ DOMAIN jobs' = DOMAIN jobs /\ CurrentJob.snd \in Account
    BY <1>10, <1>11 DEF SendSucceeds
  <2>2. LoopOK'
    BY <1>11, <2>1 DEF SendSucceeds, LoopOK
  <2>3. RestOK'
    BY <1>11, <2>1 DEF SendSucceeds, RestOK, NoCooldown
  <2> QED
    BY <1>11, <2>1, <2>2, <2>3, OthersUntouched, <1>0 DEF SendSucceeds
<1>12. CASE SendFailsFatally
  <2>1. GoodTable(jobs') /\ DOMAIN jobs' = DOMAIN jobs /\ CurrentJob.snd \in Account
    BY <1>10, <1>12 DEF SendFailsFatally, SendFails
  <2>2. LoopOK'
    BY <1>12, <2>1 DEF SendFailsFatally, SendFails, LoopOK
  <2>3. RestOK'
    BY <1>12 DEF SendFailsFatally, SendFails, RestOK
  <2> QED
    BY <1>12, <2>1, <2>2, <2>3, OthersUntouched, <1>0 DEF SendFailsFatally, SendFails
<1>13. CASE SendFailsSoftly
  <2>1. GoodTable(jobs') /\ DOMAIN jobs' = DOMAIN jobs /\ CurrentJob.snd \in Account
    BY <1>10, <1>13 DEF SendFailsSoftly, SendFails
  <2>2. LoopOK'
    BY <1>13, <2>1 DEF SendFailsSoftly, SendFails, LoopOK
  <2> DEFINE fails == cooldown[CurrentJob.snd].fails + 1
             strike == IF fails < Len(Cooldowns) THEN fails ELSE Len(Cooldowns)
  <2>3. fails \in Nat \ {0}
    BY <2>1 DEF RestOK
  <2>4. clock + Cooldowns[strike] \in Nat
    <3> HIDE DEF fails
    <3>1. strike \in 1..Len(Cooldowns)
      BY <2>3, DispatcherAssumption
    <3>2. Cooldowns[strike] \in Nat
      <4> HIDE DEF strike
      <4> QED
        BY <3>1, DispatcherAssumption, ElementOfSeq
    <3> HIDE DEF strike
    <3> QED
      BY <3>2 DEF RestOK
  <2>5. cooldown' = [cooldown EXCEPT ![CurrentJob.snd] =
                       [fails |-> fails, until |-> clock + Cooldowns[strike]]]
    BY <1>13 DEF SendFailsSoftly
  <2>6. cooldown' \in [Account -> [fails : Nat, until : Nat]]
    <3> HIDE DEF fails, strike
    <3> QED
      BY <2>1, <2>3, <2>4, <2>5 DEF RestOK
  <2>7. account' \in [Account -> AccountStatus]
    BY <1>13, <2>1 DEF SendFailsSoftly, RestOK, AccountStatus
  <2>8. used' \in [reports : Nat, faults : Nat, errors : Nat, crashes : Nat]
    <3>1. \/ used' = [used EXCEPT !.errors = @ + 1]
          \/ used' = [used EXCEPT !.errors = @ + 1, !.faults = @ + 1]
      BY <1>13 DEF SendFailsSoftly
    <3>2. used \in [reports : Nat, faults : Nat, errors : Nat, crashes : Nat]
      BY DEF RestOK
    <3> QED
      BY <3>1, <3>2, CountUp, Zenon
  <2>9. UNCHANGED <<admin, group, clock, handler, rb, rebuildMu>>
    BY <1>13 DEF SendFailsSoftly, SendFails
  <2>10. RestOK'
    <3> HIDE DEF fails, strike
    <3> QED
      BY <2>6, <2>7, <2>8, <2>9 DEF RestOK
  <2> QED
    BY <1>0, <2>1, <2>2, <2>9, <2>10, OthersUntouched
<1> QED
  BY <1>1, <1>2, <1>3, <1>4, <1>5, <1>6, <1>7, <1>8, <1>9, <1>11, <1>12, <1>13
  DEF Dispatch

(* The least element of a set of numbers is in the set.                    *)
LEMMA SmallestType ==
  ASSUME NEW S \in SUBSET Nat, S # {}
  PROVE  Smallest(S) \in S
BY NatMinimum DEF Smallest

(* A rebuild in front of the loop over the comm_ids.                       *)
LEMMA AtCommType ==
  ASSUME NEW todo \in SUBSET Comm, NEW active \in SUBSET Comm,
         NEW affected \in SUBSET Comm
  PROVE  AtComm(todo, active, affected) \in RebuildState
         /\ AtComm(todo, active, affected).pc = "comm"
<1>1. << >> \in Seq(Account)
  OBVIOUS
<1> QED
  BY <1>1 DEF AtComm, RebuildState

(* A group counted off leaves a rebuild in order.                          *)
LEMMA NextCommType ==
  ASSUME RebuildOK, NEW p \in Proc, rb[p].todo # {}, NextComm(p), UNCHANGED rebuildMu
  PROVE  RebuildOK'
<1>1. rb[p] \in RebuildState
  BY DEF RebuildOK
<1>2. RbComm(p) \in Comm
  <2>1. rb[p].todo \in SUBSET Comm /\ rb[p].todo \in SUBSET Nat
    BY <1>1, DispatcherAssumption DEF RebuildState
  <2> QED
    BY <2>1, SmallestType DEF RbComm
<1>3. /\ rb[p].todo \ {RbComm(p)} \in SUBSET Comm
      /\ rb[p].active \in SUBSET Comm
      /\ rb[p].affected \union {RbComm(p)} \in SUBSET Comm
  BY <1>1, <1>2 DEF RebuildState
<1> QED
  BY <1>3, AtCommType DEF NextComm, RebuildOK

(* A step of a rebuild, by whatever process, keeps the loop waiting.       *)
LEMMA LoopWaitsKept ==
  ASSUME LoopWaits, RebuildOK, NEW p \in Proc, rb[p].pc # "idle",
         \E new : rb' = [rb EXCEPT ![p] = new], UNCHANGED loopVars
  PROVE  LoopWaits'
<1>1. PICK new : rb' = [rb EXCEPT ![p] = new]
  OBVIOUS
<1>2. p = Loop \/ rb'[Loop] = rb[Loop]
  BY <1>1 DEF RebuildOK, Proc
<1>3. dpc' = dpc
  BY DEF loopVars
<1> QED
  BY <1>2, <1>3 DEF LoopWaits

(* A caller that gets the result of its rebuild.                           *)
LEMMA RbReturnType ==
  ASSUME TypeInv, NEW p \in Proc, p = Loop => dpc = "exclude",
         NEW STATE affected, affected \subseteq Comm,
         RbReturn(p, affected), UNCHANGED jobs
  PROVE  /\ LoopOK'
         /\ handler' \in [Account -> {"idle", "revoke", "activate", "exclude"}]
         /\ p # Loop => dpc' = dpc
<1>1. CASE p = Loop
  <2>1. NextJob(affected) /\ UNCHANGED handler /\ batch # << >>
    BY <1>1 DEF RbReturn, TypeInv, LoopOK
  <2> QED
    BY <1>1, <2>1, NextJobType DEF TypeInv, RestOK
<1>2. CASE p # Loop
  <2>1. handler' = [handler EXCEPT ![p] = "idle"] /\ UNCHANGED loopVars
    BY <1>2 DEF RbReturn
  <2> QED
    BY <1>2, <2>1, LoopUntouched DEF TypeInv, RestOK, loopVars
<1> QED
  BY <1>1, <1>2

(* The survivors of a drop, in ring order.                                 *)
LEMMA RingOrdersType ==
  ASSUME NEW j, NEW c, NEW accounts \in SUBSET Account,
         NEW ring \in RingOrders(j, c, accounts)
  PROVE  ring \in Seq(Account)
<1> DEFINE n == Cardinality(accounts)
<1>1. n \in Nat
  BY DispatcherAssumption, FS_Subset, FS_CardinalityType
<1>2. ring \in [1..n -> accounts]
  BY DEF RingOrders
<1>3. ring \in [1..n -> Account]
  BY <1>2
<1> HIDE DEF n
<1> QED
  BY <1>1, <1>3

(* What a rebuild reads from the table.                                    *)
LEMMA ReadTypes ==
  ASSUME NEW j, GoodTable(j), NEW a, NEW c
  PROVE  /\ CommsInvolving(j, a) \subseteq Comm
         /\ PendingDates(j, c) \subseteq Nat
         /\ Members(j, c) \subseteq Account
<1>1. \A k \in DOMAIN j : k[1] \in Comm /\ k[2] \in Nat
  BY DEF GoodTable, Key
<1>2. \A k \in DOMAIN j : j[k].snd \in Account /\ j[k].rcv \in Account
  BY DEF GoodTable, IsTable, Row
<1> QED
  BY <1>1, <1>2 DEF CommsInvolving, PendingDates, Members, OpenJobs, Involving, OfComm

(* A rebuild starts a ring no earlier than time begins.                    *)
LEMMA RebuildStartType ==
  ASSUME NEW d \in Nat, NEW now \in Nat
  PROVE  RebuildStart(d, now) \in Nat /\ DayStart(d) \in Nat
<1>1. d * DayLength \in Nat
  BY RingsAssumption
<1>2. DayStart(d) \in Nat
  BY <1>1, RingsAssumption DEF DayStart
<1> QED
  BY <1>2 DEF RebuildStart

(* The actions of a ring rebuild: they change the table quietly.           *)
LEMMA RebuildType ==
  ASSUME TypeInv, NEW p \in Proc, Rebuild(p)
  PROVE  TypeInv' /\ Quiet(jobs, jobs')
<1> USE DEF TypeInv
<1>0. rb[p] \in RebuildState
  BY DEF RebuildOK
<1>1. CASE RbList(p)
  <2> DEFINE comms == CommsInvolving(jobs, Dropped(p))
  <2>0. p = Loop => dpc = "exclude"
    BY <1>1 DEF RbList, Excluding
  <2>1. CASE RbReturn(p, {}) /\ UNCHANGED <<rb, rebuildMu>> /\ (UNCHANGED used \/ Fault)
    <3>1. /\ LoopOK' /\ (p # Loop => dpc' = dpc)
          /\ handler' \in [Account -> {"idle", "revoke", "activate", "exclude"}]
      BY <1>1, <2>0, <2>1, RbReturnType DEF RbList
    <3>2. RestOK'
      BY <1>1, <2>1, <3>1, FaultType DEF RbList, RestOK
    <3>3. LoopWaits'
      BY <1>1, <2>1, <3>1 DEF RbList, LoopWaits
    <3> QED
      BY <1>1, <2>1, <3>1, <3>2, <3>3, OthersUntouched DEF RbList
  <2>2. CASE /\ rebuildMu' = p
             /\ rb' = [rb EXCEPT ![p] = [NoRebuild EXCEPT !.pc = "enabled", !.todo = comms]]
             /\ UNCHANGED <<loopVars, handler, used>>
    <3>1. comms \in SUBSET Comm
      BY ReadTypes
    <3>2. [NoRebuild EXCEPT !.pc = "enabled", !.todo = comms] \in RebuildState
          /\ [NoRebuild EXCEPT !.pc = "enabled", !.todo = comms].pc = "enabled"
      <4> HIDE DEF comms
      <4>1. << >> \in Seq(Account)
        OBVIOUS
      <4> QED
        BY <3>1, <4>1 DEF NoRebuild, RebuildState
    <3>3. RebuildOK'
      <4> DEFINE new == [NoRebuild EXCEPT !.pc = "enabled", !.todo = comms]
      <4>1. rb' = [rb EXCEPT ![p] = new] /\ new \in RebuildState /\ new.pc = "enabled"
        BY <2>2, <3>2
      <4> HIDE DEF new
      <4> QED
        BY <2>2, <4>1 DEF RebuildOK
    <3>4. LoopWaits'
      BY <2>0, <2>2 DEF LoopWaits, RebuildOK, loopVars
    <3> QED
      BY <1>1, <2>2, <3>3, <3>4, OthersUntouched, LoopUntouched DEF RbList
  <2> QED
    BY <1>1, <2>1, <2>2 DEF RbList
<1>2. CASE RbEnabled(p)
  <2>1. PICK active \in SUBSET Comm : rb' = [rb EXCEPT ![p] = AtComm(rb[p].todo, active, {})]
    BY <1>2 DEF RbEnabled
  <2>2. AtComm(rb[p].todo, active, {}) \in RebuildState
        /\ AtComm(rb[p].todo, active, {}).pc = "comm"
    <3>1. rb[p].todo \in SUBSET Comm /\ {} \in SUBSET Comm
      BY <1>0 DEF RebuildState
    <3> QED
      BY <3>1, AtCommType
  <2>3. RebuildOK' /\ LoopWaits'
    BY <1>2, <2>1, <2>2 DEF RbEnabled, RebuildOK, LoopWaits, loopVars
  <2>4. RestOK'
    BY <1>2, FaultType DEF RbEnabled, RestOK
  <2> QED
    BY <1>2, <2>3, <2>4, OthersUntouched, LoopUntouched DEF RbEnabled
<1>3. CASE RbStale(p)
  <2>1. GoodTable(jobs') /\ Quiet(jobs, jobs') /\ DOMAIN jobs \subseteq DOMAIN jobs'
    BY <1>3, QuietCancel, OthersUntouched DEF RbStale, CancelInvolvingInComm, Quiet
  <2>2. RebuildOK'
    BY <1>3, NextCommType DEF RbStale
  <2>3. LoopWaits'
    BY <1>3 DEF RbStale, NextComm, LoopWaits, loopVars, RebuildOK
  <2>4. RestOK'
    BY <1>3, FaultType DEF RbStale, RestOK
  <2> QED
    BY <1>3, <2>1, <2>2, <2>3, <2>4, LoopUntouched DEF RbStale
<1>4. CASE RbRead(p)
  <2>1. CASE NextComm(p) /\ Fault
    <3>1. RebuildOK'
      BY <1>4, <2>1, NextCommType DEF RbRead
    <3>2. LoopWaits'
      BY <1>4, <2>1, LoopWaitsKept DEF RbRead, NextComm
    <3>3. RestOK'
      BY <1>4, <2>1, FaultType DEF RbRead, RestOK
    <3> QED
      BY <1>4, <3>1, <3>2, <3>3, OthersUntouched, LoopUntouched DEF RbRead
  <2>2. ASSUME NEW lost \in SUBSET Survivors(p),
               NEW ring \in RingOrders(jobs, RbComm(p), Survivors(p) \ lost),
               rb' = [rb EXCEPT ![p].pc = "cancel", ![p].ring = ring,
                                ![p].dates = PendingDates(jobs, RbComm(p))],
               UNCHANGED used \/ Fault
        PROVE  TypeInv' /\ Quiet(jobs, jobs')
    <3>1. Survivors(p) \ lost \in SUBSET Account
      BY ReadTypes DEF Survivors
    <3>2. ring \in Seq(Account)
      BY <3>1, RingOrdersType
    <3>3. PendingDates(jobs, RbComm(p)) \in SUBSET Nat
      BY ReadTypes
    <3> DEFINE dates == PendingDates(jobs, RbComm(p))
               r1 == [rb[p] EXCEPT !.pc = "cancel"]
               r2 == [r1 EXCEPT !.ring = ring]
               r3 == [r2 EXCEPT !.dates = dates]
    <3>4. rb' = [rb EXCEPT ![p] = r3]
      BY <2>2 DEF RebuildOK
    <3>5. r1 \in RebuildState /\ r1.pc = "cancel" /\ r1.todo = rb[p].todo
      BY <1>0 DEF RebuildState
    <3> HIDE DEF r1
    <3>6. r2 \in RebuildState /\ r2.pc = "cancel" /\ r2.todo = rb[p].todo
      BY <3>2, <3>5 DEF RebuildState
    <3> HIDE DEF r2, dates
    <3>7. r3 \in RebuildState /\ r3.pc = "cancel" /\ r3.todo = rb[p].todo
      BY <3>3, <3>6 DEF RebuildState, dates
    <3> HIDE DEF r3
    <3>8. RebuildOK'
      BY <1>4, <3>4, <3>7 DEF RbRead, RebuildOK
    <3>9. LoopWaits'
      BY <1>4, <3>4, LoopWaitsKept DEF RbRead
    <3>10. RestOK'
      BY <1>4, <2>2, FaultType DEF RbRead, RestOK
    <3> QED
      BY <1>4, <3>8, <3>9, <3>10, OthersUntouched, LoopUntouched DEF RbRead
  <2> QED
    BY <1>4, <2>1, <2>2 DEF RbRead
<1>5. CASE RbCancel(p)
  <2>1. GoodTable(jobs') /\ Quiet(jobs, jobs') /\ DOMAIN jobs \subseteq DOMAIN jobs'
    BY <1>5, QuietCancel, OthersUntouched DEF RbCancel, CancelPendingForComm, Quiet
  <2>2. rb[p].todo # {}
    BY <1>5 DEF RbCancel, RebuildOK
  <2>3. RebuildOK' /\ LoopWaits'
    <3>1. CASE NextComm(p)
      <4>1. RebuildOK'
        BY <1>5, <2>2, <3>1, NextCommType DEF RbCancel
      <4> QED
        BY <1>5, <3>1, <4>1, LoopWaitsKept DEF RbCancel, NextComm
    <3>2. CASE rb[p].dates # {} /\ rb' = [rb EXCEPT ![p].pc = "insert", ![p].now = clock]
      <4> DEFINE r1 == [rb[p] EXCEPT !.pc = "insert"]
                 r2 == [r1 EXCEPT !.now = clock]
      <4>1. rb' = [rb EXCEPT ![p] = r2]
        BY <3>2 DEF RebuildOK
      <4>2. r1 \in RebuildState /\ r1.todo = rb[p].todo /\ r1.dates = rb[p].dates
        BY <1>0 DEF RebuildState
      <4> HIDE DEF r1
      <4>3. r2 \in RebuildState /\ r2.todo = rb[p].todo /\ r2.dates = rb[p].dates
        BY <4>2 DEF RebuildState, RestOK
      <4> HIDE DEF r2
      <4>4. RebuildOK'
        BY <1>5, <2>2, <3>2, <4>1, <4>3 DEF RbCancel, RebuildOK
      <4> QED
        BY <1>5, <4>1, <4>4, LoopWaitsKept DEF RbCancel
    <3> QED
      BY <1>5, <3>1, <3>2 DEF RbCancel
  <2>4. RestOK'
    BY <1>5, FaultType DEF RbCancel, RestOK
  <2> QED
    BY <1>5, <2>1, <2>3, <2>4, LoopUntouched DEF RbCancel
<1>6. CASE RbInsert(p)
  <2> DEFINE c == RbComm(p)
             d == Smallest(rb[p].dates)
  <2>1. rb[p].todo # {} /\ rb[p].dates # {}
    BY <1>6 DEF RbInsert, RebuildOK
  <2>2. rb[p].todo \in SUBSET Nat /\ rb[p].todo \in SUBSET Comm
        /\ rb[p].dates \in SUBSET Nat /\ rb[p].ring \in Seq(Account) /\ rb[p].now \in Nat
    BY <1>0, DispatcherAssumption DEF RebuildState
  <2>3. c \in Comm /\ d \in Nat
    BY <2>1, <2>2, SmallestType DEF RbComm
  <2>4. RebuildStart(d, rb[p].now) \in Nat /\ MaxStep(jobs, c, d) \in Nat
    BY <2>2, <2>3, RebuildStartType, MaxStepType
  <2>5. GoodTable(jobs') /\ Quiet(jobs, jobs') /\ DOMAIN jobs \subseteq DOMAIN jobs'
    <3>1. CASE UNCHANGED jobs
      BY <3>1, OthersUntouched
    <3>2. CASE InsertDay(rb[p].ring, c, d, RebuildStart(d, rb[p].now), MaxStep(jobs, c, d))
      <4>1. GoodTable(jobs') /\ Quiet(jobs, jobs')
        BY <2>2, <2>3, <2>4, <3>2, QuietInsertDay DEF InsertDay
      <4> QED
        BY <4>1 DEF Quiet
    <3> QED
      BY <1>6, <3>1, <3>2 DEF RbInsert
  <2>6. RebuildOK' /\ LoopWaits'
    <3>1. CASE NextComm(p)
      <4>1. RebuildOK'
        BY <1>6, <2>1, <3>1, NextCommType DEF RbInsert
      <4> QED
        BY <1>6, <3>1, <4>1, LoopWaitsKept DEF RbInsert, NextComm
    <3>2. CASE rb[p].dates # {d} /\ rb' = [rb EXCEPT ![p].dates = @ \ {d}]
      <4> DEFINE r1 == [rb[p] EXCEPT !.dates = @ \ {d}]
      <4>1. rb' = [rb EXCEPT ![p] = r1]
        BY <3>2 DEF RebuildOK
      <4>2. r1 \in RebuildState /\ r1.todo = rb[p].todo /\ r1.dates # {}
            /\ r1.pc = rb[p].pc
        BY <1>0, <2>1, <2>3, <3>2 DEF RebuildState
      <4> HIDE DEF r1, d
      <4>3. RebuildOK'
        BY <1>6, <2>1, <4>1, <4>2 DEF RbInsert, RebuildOK
      <4> QED
        BY <1>6, <4>1, <4>3, LoopWaitsKept DEF RbInsert
    <3> QED
      BY <1>6, <3>1, <3>2 DEF RbInsert
  <2>7. RestOK'
    BY <1>6, FaultType DEF RbInsert, RestOK
  <2> QED
    BY <1>6, <2>5, <2>6, <2>7, LoopUntouched DEF RbInsert
<1>7. CASE RbUnlock(p)
  <2>1. rb[p].affected \subseteq Comm
    BY <1>0 DEF RebuildState
  <2>2. p = Loop => dpc = "exclude"
    BY <1>7 DEF RbUnlock, LoopWaits
  <2>3. /\ LoopOK' /\ (p # Loop => dpc' = dpc)
        /\ handler' \in [Account -> {"idle", "revoke", "activate", "exclude"}]
    BY <1>7, <2>1, <2>2, RbReturnType DEF RbUnlock
  <2>4. NoRebuild \in RebuildState /\ NoRebuild.pc = "idle"
    <3>1. << >> \in Seq(Account)
      OBVIOUS
    <3> QED
      BY <3>1 DEF NoRebuild, RebuildState
  <2>5. RebuildOK' /\ LoopWaits'
    BY <1>7, <2>3, <2>4 DEF RbUnlock, RebuildOK, LoopWaits
  <2>6. RestOK'
    BY <1>7, <2>3 DEF RbUnlock, RestOK
  <2> QED
    BY <1>7, <2>3, <2>5, <2>6, OthersUntouched DEF RbUnlock
<1> QED
  BY <1>1, <1>2, <1>3, <1>4, <1>5, <1>6, <1>7 DEF Rebuild

(* The actions of an account's event goroutine.                            *)
LEMMA EventsType ==
  ASSUME TypeInv, NEW a \in Account, Events(a)
  PROVE  TypeInv' /\ UNCHANGED jobs
<1> USE DEF TypeInv
<1>1. CASE \E s \in {"ready", "disconnected", "blocked"} : Report(a, s)
  <2>1. PICK s \in {"ready", "disconnected", "blocked"} : Report(a, s)
    BY <1>1
  <2>2. s \in AccountStatus /\ AfterReport(s) \in {"idle", "revoke", "activate"}
    BY DEF AccountStatus, AfterReport
  <2>3. used' \in [reports : Nat, faults : Nat, errors : Nat, crashes : Nat]
    <3>1. \/ used' = [used EXCEPT !.reports = @ + 1]
          \/ used' = [used EXCEPT !.reports = @ + 1, !.faults = @ + 1]
      BY <2>1 DEF Report
    <3>2. used \in [reports : Nat, faults : Nat, errors : Nat, crashes : Nat]
      BY DEF RestOK
    <3> QED
      BY <3>1, <3>2, CountOne, CountTwo, Zenon
  <2>4. RestOK'
    BY <2>1, <2>2, <2>3 DEF Report, RestOK
  <2>5. UNCHANGED <<jobs, loopVars, rb, rebuildMu>>
    BY <2>1 DEF Report
  <2>6. LoopWaits'
    BY <2>5 DEF LoopWaits, loopVars
  <2> QED
    BY <2>4, <2>5, <2>6, OthersUntouched, LoopUntouched
<1>2. CASE Mirror(a)
  <2>1. UNCHANGED <<jobs, account, group, clock, loopVars, cooldown, rb, rebuildMu>>
    BY <1>2 DEF Mirror
  <2>2. handler' \in [Account -> {"idle", "revoke", "activate", "exclude"}]
        /\ admin' \in [Account -> {"active", "revoked"}]
    BY <1>2 DEF Mirror, RestOK
  <2>3. used' \in [reports : Nat, faults : Nat, errors : Nat, crashes : Nat]
    BY <1>2, FaultType DEF Mirror, RestOK
  <2>4. RestOK' /\ LoopWaits'
    BY <2>1, <2>2, <2>3 DEF RestOK, LoopWaits, loopVars
  <2> QED
    BY <2>1, <2>4, OthersUntouched, LoopUntouched
<1> QED
  BY <1>1, <1>2 DEF Events

(* A day of a plan, and when its first message is due.                     *)
LEMMA PlanDayType ==
  ASSUME NEW c \in Comm, NEW i \in Nat
  PROVE  LET d == Day(PlanOf[c].start) + i
         IN  /\ PlanOf[c].ring \in Seq(Account)
             /\ d \in Nat
             /\ (IF i = 0 THEN PlanOf[c].start ELSE DayStart(d)) \in Nat
<1> DEFINE d == Day(PlanOf[c].start) + i
<1>1. PlanOf[c] \in [ring : Seq(Account), start : Nat, days : Nat \ {0}]
  BY DispatcherAssumption
<1>2. PlanOf[c].ring \in Seq(Account) /\ PlanOf[c].start \in Nat
  BY <1>1
<1>3. Day(PlanOf[c].start) \in Nat
  BY <1>2, RingsAssumption DEF Day
<1>4. d \in Nat
  BY <1>3
<1>5. DayStart(d) \in Nat
  <2> HIDE DEF d
  <2> QED
    BY <1>4, RebuildStartType
<1> QED
  BY <1>2, <1>4, <1>5

(* The actions of the bot: they change the table quietly.                  *)
LEMMA BotType ==
  ASSUME TypeInv, NEW c \in Comm, Bot(c)
  PROVE  TypeInv' /\ Quiet(jobs, jobs')
<1> USE DEF TypeInv
<1>1. UNCHANGED <<account, admin, clock, loopVars, cooldown, handler, rb, rebuildMu>>
  BY DEF Bot, BotSaveGroup, BotInsertDay, BotEnable, BotCancel, BotDelete
<1>2. used' \in [reports : Nat, faults : Nat, errors : Nat, crashes : Nat]
  BY FaultType DEF Bot, BotSaveGroup, BotInsertDay, BotEnable, BotCancel, BotDelete,
     BotGivesUp, RestOK
<1>3. group' \in [Comm -> [stage : {"none", "saving", "broken", "enabled", "closing",
                                    "closed"}, saved : Nat]]
  <2>1. /\ group \in [Comm -> [stage : {"none", "saving", "broken", "enabled", "closing",
                                        "closed"}, saved : Nat]]
        /\ group[c].saved + 1 \in Nat
    BY DEF RestOK
  <2>2. \/ \E s \in {"saving", "broken", "enabled", "closing", "closed"} :
             group' = [group EXCEPT ![c].stage = s]
        \/ group' = [group EXCEPT ![c].saved = group[c].saved + 1]
    BY DEF Bot, BotSaveGroup, BotInsertDay, BotEnable, BotCancel, BotDelete, BotGivesUp
  <2> QED
    BY <2>1, <2>2
<1>4. GoodTable(jobs') /\ Quiet(jobs, jobs')
  <2>1. CASE UNCHANGED jobs
    BY <2>1, OthersUntouched
  <2>2. CASE BotCancel(c)
    BY <2>2, QuietCancel DEF BotCancel, CancelPendingForComm
  <2>3. CASE BotInsertDay(c) /\ ~UNCHANGED jobs
    <3> DEFINE i == group[c].saved
               d == Day(PlanOf[c].start) + i
               start == IF i = 0 THEN PlanOf[c].start ELSE DayStart(d)
    <3>1. InsertDay(PlanOf[c].ring, c, d, start, 0)
      BY <2>3 DEF BotInsertDay
    <3>2. i \in Nat
      BY DEF RestOK
    <3>3. PlanOf[c].ring \in Seq(Account) /\ d \in Nat /\ start \in Nat
      <4> HIDE DEF i
      <4> QED
        BY <3>2, PlanDayType
    <3> HIDE DEF d, start
    <3> QED
      BY <3>1, <3>3, QuietInsertDay DEF InsertDay
  <2> QED
    BY <2>1, <2>2, <2>3 DEF Bot, BotSaveGroup, BotEnable, BotDelete
<1>5. RestOK' /\ LoopWaits'
  BY <1>1, <1>2, <1>3 DEF RestOK, LoopWaits, loopVars
<1>6. DOMAIN jobs \subseteq DOMAIN jobs'
  BY <1>4 DEF Quiet
<1> QED
  BY <1>1, <1>4, <1>5, <1>6, OthersUntouched, LoopUntouched

(* Initially the types are right.                                          *)
LEMMA InitType == Init => TypeInv
<1> SUFFICES ASSUME Init PROVE TypeInv
  OBVIOUS
<1>1. GoodTable(jobs)
  <2>1. jobs = << >> /\ DOMAIN jobs = {}
    BY DEF Init
  <2>2. 0 \in Nat
    OBVIOUS
  <2> QED
    BY <2>1, <2>2 DEF GoodTable, IsTable
<1>2. LoopOK
  BY DEF Init, LoopOK
<1>3. NoRebuild \in RebuildState /\ NoRebuild.pc = "idle"
  <2>1. << >> \in Seq(Account)
    OBVIOUS
  <2> QED
    BY <2>1 DEF NoRebuild, RebuildState
<1>4. RebuildOK /\ LoopWaits
  BY <1>3 DEF Init, RebuildOK, LoopWaits, Proc
<1>5. RestOK
  BY DEF Init, RestOK, AccountStatus, NoCooldown
<1> QED
  BY <1>1, <1>2, <1>4, <1>5 DEF TypeInv

(* A crash forgets what the daemon had in memory.                          *)
LEMMA CrashType ==
  ASSUME TypeInv, Crash
  PROVE  TypeInv'
<1> USE DEF TypeInv
<1>1. GoodTable(jobs')
  BY OthersUntouched DEF Crash
<1>2. LoopOK'
  BY DEF Crash, LoopOK
<1>3. NoRebuild \in RebuildState /\ NoRebuild.pc = "idle"
  <2>1. << >> \in Seq(Account)
    OBVIOUS
  <2> QED
    BY <2>1 DEF NoRebuild, RebuildState
<1>4. RebuildOK' /\ LoopWaits'
  BY <1>3 DEF Crash, RebuildOK, LoopWaits, Proc
<1>5. NoCooldown \in [fails : Nat, until : Nat]
  BY DEF NoCooldown
<1>6. used' \in [reports : Nat, faults : Nat, errors : Nat, crashes : Nat]
  BY CountOne DEF Crash, RestOK
<1>7. RestOK'
  BY <1>5, <1>6 DEF Crash, RestOK
<1> QED
  BY <1>1, <1>2, <1>4, <1>7

(* Every step keeps the inductive invariant of the types.                  *)
LEMMA StepType == TypeInv /\ [Next]_vars => TypeInv'
<1> SUFFICES ASSUME TypeInv, [Next]_vars PROVE TypeInv'
  OBVIOUS
<1>1. CASE ClockTick
  <2>1. clock' \in Nat /\ UNCHANGED <<jobs, account, admin, group, loopVars, cooldown,
                                      handler, rb, rebuildMu, used>>
    BY <1>1 DEF ClockTick, TypeInv, RestOK
  <2>2. RestOK' /\ LoopWaits'
    BY <2>1 DEF TypeInv, RestOK, LoopWaits, loopVars
  <2> QED
    BY <2>1, <2>2, OthersUntouched, LoopUntouched DEF TypeInv
<1>2. CASE UNCHANGED vars
  <2>1. UNCHANGED <<jobs, account, admin, group, clock, loopVars, cooldown,
                    handler, rb, rebuildMu, used>>
    BY <1>2 DEF vars
  <2>2. LoopWaits'
    BY <2>1 DEF TypeInv, LoopWaits, loopVars
  <2> QED
    BY <2>1, <2>2, OthersUntouched, LoopUntouched DEF TypeInv
<1> QED
  BY <1>1, <1>2, DispatchType, RebuildType, EventsType, BotType, CrashType DEF Next

(* Every variable keeps the type its Go or Python counterpart has, however *)
(* many accounts, groups, jobs, failures and crashes there are.            *)
THEOREM TypeCorrect == Spec => []TypeOK
<1>1. TypeInv => TypeOK
  BY DEF TypeInv, TypeOK, GoodTable, IsTable, LoopOK, RebuildOK, RestOK
<1> QED
  BY <1>1, InitType, StepType, PTL DEF Spec

==============================================================================
