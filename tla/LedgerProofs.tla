----------------------------- MODULE LedgerProofs -----------------------------
(***************************************************************************)
(* What Dispatcher promises about the fate of one message, for any         *)
(* accounts, groups, plans, bounds and times:                              *)
(*                                                                         *)
(*   DeliveredOncePerRun    it is delivered once, and once more per crash;  *)
(*   OutcomesAreFinal       once sent or failed it stays so;               *)
(*   LedgerKept             Dispatcher implements JobLedger.               *)
(*                                                                         *)
(* They rest on where a job is that may still be sent: BatchClaimed says   *)
(* that the jobs in the loop's hands can have been cancelled behind its    *)
(* back and nothing else; Ledger says how often a job can have been        *)
(* delivered by the time it is pending, in hand, or settled. The mapping   *)
(* to JobLedger reads a row's state off its status, and what is in hand    *)
(* off the batch; SentIsDelivered adds that the job whose success is to be *)
(* recorded was delivered.                                                 *)
(***************************************************************************)
EXTENDS DispatcherProofs

InHand == {"sending", "cancelled"}

BatchClaimed ==
  \A i \in DOMAIN batch :
    /\ jobs[batch[i]].status \in InHand
    /\ \A j \in DOMAIN batch : i # j => batch[i] # batch[j]

(* A pending job, and after a crash every job, has one delivery to spare;  *)
(* so has a job of the batch until it is handed to WhatsApp.               *)
Ledger ==
  /\ \A k \in DOMAIN jobs :
       /\ jobs[k].sends <= used.crashes + 1
       /\ jobs[k].status = "pending" \/ dpc = "boot" => jobs[k].sends <= used.crashes
  /\ \A i \in DOMAIN batch :
       i > 1 \/ dpc \in {"next", "resched", "send"} => jobs[batch[i]].sends <= used.crashes

LedgerInv == TypeInv /\ BatchClaimed /\ Ledger

(* What OutcomeIsFinal asks of a step.                                     *)
Final ==
  \A k \in DOMAIN jobs :
    jobs[k].status \in {"sent", "failed"} => jobs'[k].status = jobs[k].status

------------------------------------------------------------------------------
(* Kinds of steps.                                                         *)

(* The jobs of a batch are jobs of the table.                              *)
LEMMA BatchInTable ==
  ASSUME TypeInv
  PROVE  /\ \A i \in DOMAIN batch : batch[i] \in DOMAIN jobs /\ i \in Nat
         /\ \A k \in DOMAIN jobs : jobs[k].sends \in Nat /\ jobs[k].status \in JobStatus
         /\ used.crashes \in Nat
<1>1. batch \in Seq(DOMAIN jobs) /\ used.crashes \in Nat
  BY DEF TypeInv, LoopOK, RestOK
<1>2. \A i \in DOMAIN batch : batch[i] \in DOMAIN jobs /\ i \in Nat
  BY <1>1
<1>3. \A k \in DOMAIN jobs : jobs[k] \in Row(Account)
  BY DEF TypeInv, GoodTable, IsTable
<1> QED
  BY <1>1, <1>2, <1>3 DEF Row

(* The job in hand was claimed; before it is sent it has a delivery to     *)
(* spare.                                                                  *)
LEMMA BatchHead ==
  ASSUME LedgerInv, batch # << >>
  PROVE  /\ Len(batch) \in Nat \ {0} /\ 1 \in DOMAIN batch
         /\ Current = batch[1]
         /\ Current \in DOMAIN jobs
         /\ jobs[Current].status \in InHand
         /\ jobs[Current].status # "pending"
         /\ dpc \in {"next", "resched", "send"} => jobs[Current].sends <= used.crashes
<1>1. batch \in Seq(DOMAIN jobs)
  BY DEF LedgerInv, TypeInv, LoopOK
<1>2. Len(batch) \in Nat \ {0} /\ 1 \in DOMAIN batch
  <2> DEFINE D == DOMAIN jobs
  <2>1. batch \in Seq(D)
    BY <1>1
  <2> HIDE DEF D
  <2> QED
    BY <2>1, EmptySeq
<1>3. Current = batch[1] /\ Current \in DOMAIN jobs
  BY <1>1, <1>2 DEF Current
<1> QED
  BY <1>2, <1>3 DEF LedgerInv, BatchClaimed, Ledger, InHand

(* A quiet change beside the loop.                                         *)
LEMMA QuietStep ==
  ASSUME LedgerInv, Quiet(jobs, jobs'), UNCHANGED batch,
         used'.crashes = used.crashes,
         dpc' = dpc \/ (batch = << >> /\ dpc' # "boot")
  PROVE  BatchClaimed' /\ Ledger' /\ Final
<1>1. /\ \A i \in DOMAIN batch : batch[i] \in DOMAIN jobs /\ i \in Nat
      /\ \A k \in DOMAIN jobs : jobs[k].sends \in Nat /\ jobs[k].status \in JobStatus
      /\ used.crashes \in Nat
  BY BatchInTable DEF LedgerInv
<1>2. Final
  BY DEF Quiet, Final, OpenStatus
<1>3. BatchClaimed'
  BY <1>1 DEF LedgerInv, BatchClaimed, Quiet, InHand
<1>4. ASSUME NEW k \in DOMAIN jobs'
      PROVE  /\ jobs'[k].sends <= used.crashes + 1
             /\ jobs'[k].status = "pending" \/ dpc' = "boot" => jobs'[k].sends <= used.crashes
  <2>1. CASE k \in DOMAIN jobs
    <3>1. jobs'[k].sends = jobs[k].sends
          /\ (jobs'[k].status = "pending" => jobs[k].status = "pending")
      BY <2>1 DEF Quiet
    <3>2. dpc' = "boot" => dpc = "boot"
      OBVIOUS
    <3> QED
      BY <2>1, <3>1, <3>2 DEF LedgerInv, Ledger
  <2>2. CASE k \notin DOMAIN jobs
    <3>1. jobs'[k].sends = 0
      BY <2>2, <1>4 DEF Quiet
    <3> QED
      BY <1>1, <3>1
  <2> QED
    BY <2>1, <2>2
<1>5. ASSUME NEW i \in DOMAIN batch',
             i > 1 \/ dpc' \in {"next", "resched", "send"}
      PROVE  jobs'[batch'[i]].sends <= used.crashes
  <2>1. i \in DOMAIN batch /\ dpc' = dpc
    BY <1>5
  <2>2. jobs'[batch[i]].sends = jobs[batch[i]].sends
    BY <1>1, <2>1 DEF Quiet
  <2> QED
    BY <1>5, <2>1, <2>2 DEF LedgerInv, Ledger
<1> QED
  BY <1>2, <1>3, <1>4, <1>5 DEF Ledger

(* The loop changes the status of the job in hand, perhaps, and goes on to *)
(* the next one or returns.                                                *)
LEMMA SettlingStep ==
  ASSUME LedgerInv, batch # << >>,
         DOMAIN jobs' = DOMAIN jobs,
         \A k \in DOMAIN jobs \ {Current} : jobs'[k] = jobs[k],
         jobs'[Current].sends = jobs[Current].sends,
         jobs'[Current].status = "pending" => jobs[Current].sends <= used.crashes,
         used'.crashes = used.crashes,
         NEW STATE affected, NextJob(affected) \/ Return
  PROVE  BatchClaimed' /\ Ledger' /\ Final
<1>1. /\ \A i \in DOMAIN batch : batch[i] \in DOMAIN jobs /\ i \in Nat
      /\ \A k \in DOMAIN jobs : jobs[k].sends \in Nat /\ jobs[k].status \in JobStatus
      /\ used.crashes \in Nat
  BY BatchInTable DEF LedgerInv
<1>2. batch \in Seq(DOMAIN jobs) /\ Len(batch) \in Nat \ {0} /\ 1 \in DOMAIN batch
  BY BatchHead DEF LedgerInv, TypeInv, LoopOK
<1>3. Current = batch[1] /\ Current \in DOMAIN jobs /\ jobs[Current].status \in InHand
  BY BatchHead
<1>4. Final
  BY <1>3 DEF Final, InHand
<1>5. \A k \in DOMAIN jobs' :
        /\ jobs'[k].sends <= used.crashes + 1
        /\ jobs'[k].status = "pending" => jobs'[k].sends <= used.crashes
  BY <1>1 DEF LedgerInv, Ledger
<1>6. dpc' # "boot"
  BY DEF NextJob, Return
<1>7. CASE batch' = << >>
  <2>1. DOMAIN batch' = {}
    BY <1>7
  <2> QED
    BY <1>4, <1>5, <1>6, <2>1 DEF BatchClaimed, Ledger
<1>8. CASE Len(batch) # 1 /\ batch' = Tail(batch)
  <2>1. /\ DOMAIN batch' = 1..(Len(batch) - 1)
        /\ DOMAIN batch = 1..Len(batch)
        /\ \A i \in DOMAIN batch' : batch'[i] = batch[i + 1]
    BY <1>2, <1>8
  <2>2. ASSUME NEW i \in DOMAIN batch'
        PROVE  /\ i + 1 \in DOMAIN batch /\ i + 1 > 1
               /\ batch'[i] = batch[i + 1]
               /\ batch[i + 1] # Current
               /\ jobs'[batch'[i]] = jobs[batch[i + 1]]
    <3>1. i + 1 \in DOMAIN batch /\ i + 1 > 1 /\ batch'[i] = batch[i + 1]
      BY <1>2, <2>1
    <3>2. batch[i + 1] # batch[1]
      BY <1>2, <3>1 DEF LedgerInv, BatchClaimed
    <3> QED
      BY <1>1, <1>3, <3>1, <3>2
  <2>3. BatchClaimed'
    <3>1. ASSUME NEW i \in DOMAIN batch'
          PROVE  jobs'[batch'[i]].status \in InHand
      BY <2>2 DEF LedgerInv, BatchClaimed
    <3>2. ASSUME NEW i \in DOMAIN batch', NEW j \in DOMAIN batch', i # j
          PROVE  batch'[i] # batch'[j]
      <4>1. i + 1 # j + 1
        BY <1>2, <2>1, <3>2
      <4> QED
        BY <2>2, <4>1 DEF LedgerInv, BatchClaimed
    <3> QED
      BY <3>1, <3>2 DEF BatchClaimed
  <2>4. \A i \in DOMAIN batch' : jobs'[batch'[i]].sends <= used.crashes
    BY <2>2 DEF LedgerInv, Ledger
  <2> QED
    BY <1>4, <1>5, <1>6, <2>3, <2>4 DEF Ledger
<1> QED
  BY <1>7, <1>8 DEF NextJob, Return

(* A message is handed over: the job in hand had a delivery to spare.      *)
LEMMA DeliveryStep ==
  ASSUME LedgerInv, dpc = "send", NEW n \in {0, 1}, Delivered(n), UNCHANGED batch,
         dpc' \in {"sent", "fail", "lost"}, used'.crashes = used.crashes
  PROVE  BatchClaimed' /\ Ledger' /\ Final
<1>1. /\ \A i \in DOMAIN batch : batch[i] \in DOMAIN jobs /\ i \in Nat
      /\ \A k \in DOMAIN jobs : jobs[k].sends \in Nat /\ jobs[k].status \in JobStatus
      /\ used.crashes \in Nat
  BY BatchInTable DEF LedgerInv
<1>2. batch # << >> /\ batch \in Seq(DOMAIN jobs)
  BY DEF LedgerInv, TypeInv, LoopOK
<1>3. 1 \in DOMAIN batch /\ Current = batch[1]
  BY <1>2, BatchHead
<1>4. Current \in DOMAIN jobs /\ jobs[Current].status \in InHand
      /\ jobs[Current].sends <= used.crashes
  BY <1>2, BatchHead
<1>5. /\ DOMAIN jobs' = DOMAIN jobs
      /\ jobs'[Current].sends = jobs[Current].sends + n
      /\ \A k \in DOMAIN jobs : jobs'[k].status = jobs[k].status
      /\ \A k \in DOMAIN jobs \ {Current} : jobs'[k] = jobs[k]
  BY <1>4, GoodDelivery DEF Delivered, LedgerInv, TypeInv
<1>6. Final
  BY <1>5 DEF Final
<1>7. BatchClaimed'
  BY <1>1, <1>5 DEF LedgerInv, BatchClaimed
<1>8. ASSUME NEW k \in DOMAIN jobs'
      PROVE  /\ jobs'[k].sends <= used.crashes + 1
             /\ jobs'[k].status = "pending" => jobs'[k].sends <= used.crashes
  <2>1. CASE k = Current
    BY <1>1, <1>4, <1>5, <2>1 DEF InHand
  <2>2. CASE k # Current
    BY <1>5, <2>2 DEF LedgerInv, Ledger
  <2> QED
    BY <2>1, <2>2
<1>9. ASSUME NEW i \in DOMAIN batch, i > 1
      PROVE  jobs'[batch[i]].sends <= used.crashes
  <2>1. batch[i] # Current /\ batch[i] \in DOMAIN jobs
    BY <1>1, <1>3, <1>9 DEF LedgerInv, BatchClaimed
  <2> QED
    BY <1>5, <1>9, <2>1 DEF LedgerInv, Ledger
<1> QED
  BY <1>6, <1>7, <1>8, <1>9 DEF Ledger

(* Different pending jobs are claimed.                                     *)
LEMMA ClaimStep ==
  ASSUME LedgerInv, dpc = "claim", NEW s \in DueOrders(jobs, tick, BatchSize),
         jobs' = Claim(jobs, s), dpc' # "boot", batch' = s,
         used'.crashes = used.crashes
  PROVE  BatchClaimed' /\ Ledger' /\ Final
<1>1. \A k \in DOMAIN jobs : jobs[k].sends \in Nat /\ jobs[k].status \in JobStatus
  BY BatchInTable DEF LedgerInv
<1>2. IsTable(jobs, Account) /\ tick \in Nat /\ BatchSize \in Nat
  BY DispatcherAssumption DEF LedgerInv, TypeInv, GoodTable, LoopOK
<1>3. /\ s \in Seq(DOMAIN jobs)
      /\ \A i \in DOMAIN s : jobs[s[i]].status = "pending"
      /\ \A i, j \in DOMAIN s : i # j => s[i] # s[j]
  BY <1>2, DueOrdersFacts
<1>4. \A i \in DOMAIN s : s[i] \in DOMAIN jobs
  BY <1>3
<1> DEFINE claimed == {s[i] : i \in DOMAIN s}
<1>5. /\ DOMAIN jobs' = DOMAIN jobs
      /\ \A k \in DOMAIN jobs :
           /\ jobs'[k].sends = jobs[k].sends
           /\ jobs'[k].status = IF k \in claimed THEN "sending" ELSE jobs[k].status
  <2>1. "sending" \in JobStatus
    BY DEF JobStatus, OpenStatus
  <2> QED
    BY <1>2, <2>1, SetStatusFacts DEF Claim
<1>6. \A k \in claimed : jobs[k].status = "pending"
  BY <1>3
<1>7. \A i \in DOMAIN s : s[i] \in claimed
  OBVIOUS
<1> HIDE DEF claimed
<1>8. Final
  BY <1>5, <1>6 DEF Final
<1>9. BatchClaimed'
  BY <1>3, <1>4, <1>5, <1>7 DEF BatchClaimed, InHand
<1>10. \A k \in DOMAIN jobs' :
         /\ jobs'[k].sends <= used.crashes + 1
         /\ jobs'[k].status = "pending" => jobs'[k].sends <= used.crashes
  BY <1>1, <1>5 DEF LedgerInv, Ledger
<1>11. \A i \in DOMAIN s : jobs'[s[i]].sends <= used.crashes
  BY <1>3, <1>4, <1>5 DEF LedgerInv, Ledger
<1> QED
  BY <1>8, <1>9, <1>10, <1>11 DEF Ledger

(* A step that changes neither the table nor the batch.                    *)
LEMMA DecidingStep ==
  ASSUME LedgerInv, UNCHANGED <<jobs, batch>>, used'.crashes = used.crashes,
         dpc' # "boot",
         dpc = "next" \/ dpc' \notin {"next", "resched", "send"}
  PROVE  BatchClaimed' /\ Ledger' /\ Final
BY DEF LedgerInv, BatchClaimed, Ledger, Final

------------------------------------------------------------------------------
(* Every action keeps the ledger.                                          *)

(* The actions of the loop.                                                *)
LEMMA DispatchLedger ==
  ASSUME LedgerInv, Dispatch
  PROVE  BatchClaimed' /\ Ledger' /\ Final
<1>0. /\ TypeInv /\ GoodTable(jobs) /\ IsTable(jobs, Account) /\ LoopOK /\ RestOK
      /\ used.crashes \in Nat
      /\ Fault => used'.crashes = used.crashes
  BY FaultType DEF LedgerInv, TypeInv, GoodTable, RestOK
<1>1. CASE Boot
  <2>1. batch' = << >> /\ DOMAIN batch' = {} /\ dpc' = "idle" /\ used'.crashes = used.crashes
    BY <1>0, <1>1 DEF Boot, LoopOK
  <2>2. /\ DOMAIN jobs' = DOMAIN jobs
        /\ \A k \in DOMAIN jobs : jobs'[k].sends = jobs[k].sends
        /\ Final
    <3>1. CASE UNCHANGED jobs
      BY <3>1 DEF Final
    <3>2. CASE jobs' = ResetSending(jobs)
      <4>1. "pending" \in JobStatus
        BY DEF JobStatus, OpenStatus
      <4> QED
        BY <1>0, <3>2, <4>1, SetStatusFacts DEF ResetSending, Final
    <3> QED
      BY <1>1, <3>1, <3>2 DEF Boot
  <2>3. \A k \in DOMAIN jobs : jobs[k].sends <= used.crashes
    BY <1>1 DEF Boot, LedgerInv, Ledger
  <2>4. \A k \in DOMAIN jobs : jobs[k].sends \in Nat
    BY <1>0, BatchInTable
  <2> QED
    BY <1>0, <2>1, <2>2, <2>3, <2>4 DEF BatchClaimed, Ledger
<1>2. CASE StartTick
  <2>1. Quiet(jobs, jobs')
    BY <1>0, <1>2, QuietCancel, QuietNothing DEF StartTick
  <2> QED
    BY <1>0, <1>2, <2>1, QuietStep DEF StartTick, LoopOK
<1>3. CASE ClaimJobs
  <2>1. CASE UNCHANGED jobs /\ Return /\ Fault
    <3>1. batch = << >>
      BY <1>0, <1>3 DEF ClaimJobs, LoopOK
    <3>2. batch' = batch /\ dpc' = "idle"
      BY <2>1, <3>1 DEF Return
    <3> QED
      BY <1>0, <1>3, <2>1, <3>1, <3>2, QuietStep, QuietNothing DEF ClaimJobs
  <2>2. ASSUME NEW s \in DueOrders(jobs, tick, BatchSize),
               jobs' = Claim(jobs, s), UNCHANGED used,
               IF s = << >> THEN Return
                            ELSE /\ dpc' = "next"
                                 /\ batch' = s
                                 /\ UNCHANGED <<tick, rebuilt, victim>>
        PROVE  BatchClaimed' /\ Ledger' /\ Final
    <3>1. batch' = s /\ dpc' # "boot"
      BY <2>2 DEF Return
    <3> QED
      BY <1>3, <2>2, <3>1, ClaimStep DEF ClaimJobs
  <2> QED
    BY <1>3, <2>1, <2>2 DEF ClaimJobs
<1>4. CASE LoadAccounts
  <2>1. used'.crashes = used.crashes
    BY <1>0, <1>4 DEF LoadAccounts, Decide
  <2> QED
    BY <1>4, <2>1, DecidingStep DEF LoadAccounts, Decide
<1>5. CASE MarkAdminSessionLost
  <2>1. used'.crashes = used.crashes
    BY <1>0, <1>5 DEF MarkAdminSessionLost
  <2> QED
    BY <1>5, <2>1, DecidingStep DEF MarkAdminSessionLost
<1>6. CASE SendSucceeds
  BY <1>6, DeliveryStep DEF SendSucceeds
<1>7. CASE SendFailsFatally
  <2>1. used'.crashes = used.crashes
    BY <1>0, <1>7 DEF SendFailsFatally, RestOK
  <2> QED
    BY <1>7, <2>1, DeliveryStep DEF SendFailsFatally, SendFails
<1>8. CASE SendFailsSoftly
  <2>1. \/ used' = [used EXCEPT !.errors = @ + 1]
        \/ used' = [used EXCEPT !.errors = @ + 1, !.faults = @ + 1]
    BY <1>8 DEF SendFailsSoftly
  <2>2. used'.crashes = used.crashes
    <3>1. used \in [reports : Nat, faults : Nat, errors : Nat, crashes : Nat]
      BY <1>0 DEF RestOK
    <3> QED
      BY <2>1, <3>1
  <2>3. SendFails /\ dpc' \in {"fail", "lost"}
    BY <1>8 DEF SendFailsSoftly
  <2> QED
    BY <2>2, <2>3, DeliveryStep DEF SendFails
<1>9. ASSUME batch # << >>, SkipJob \/ RescheduleCooling \/ FailJob \/ RecordSent
      PROVE  BatchClaimed' /\ Ledger' /\ Final
  <2>1. Current \in DOMAIN jobs /\ CurrentJob.snd \in Account
    BY <1>0, <1>9, CurrentType
  <2>2. NextJob({}) \/ Return
    BY <1>9 DEF SkipJob, RescheduleCooling, FailJob, RecordSent
  <2>3. used'.crashes = used.crashes
    BY <1>0, <1>9 DEF SkipJob, RescheduleCooling, FailJob, RecordSent
  <2>4. /\ DOMAIN jobs' = DOMAIN jobs
        /\ \A k \in DOMAIN jobs \ {Current} : jobs'[k] = jobs[k]
        /\ jobs'[Current].sends = jobs[Current].sends
        /\ \/ jobs'[Current].status # "pending"
           \/ jobs'[Current].status = jobs[Current].status
           \/ dpc = "resched"
    <3>1. CASE UNCHANGED jobs
      BY <3>1
    <3>2. CASE \E keys \in SUBSET {Current}, s \in {"sent", "failed", "cancelled"} :
                 jobs' = SetStatus(jobs, keys, s)
      <4>1. PICK keys \in SUBSET {Current}, s \in {"sent", "failed", "cancelled"} :
              jobs' = SetStatus(jobs, keys, s)
        BY <3>2
      <4>2. s \in JobStatus /\ s # "pending"
        BY DEF JobStatus
      <4>3. \A k \in DOMAIN jobs \ {Current} : jobs'[k] = jobs[k]
        BY <4>1 DEF SetStatus
      <4> QED
        BY <1>0, <2>1, <4>1, <4>2, <4>3, SetStatusFacts
    <3>3. CASE RescheduleCooling /\ ~UNCHANGED jobs
      <4>1. cooldown[CurrentJob.snd].until \in Nat
        BY <1>0, <2>1 DEF RestOK
      <4> QED
        BY <1>0, <2>1, <3>3, <4>1, RescheduleFacts DEF RescheduleCooling
    <3> QED
      BY <1>9, <3>1, <3>2, <3>3 DEF SkipJob, FailJob, RecordSent, MarkCancelled, Cancel,
         MarkFailed, MarkSent
  <2>5. jobs'[Current].status = "pending" => jobs[Current].sends <= used.crashes
    BY <1>9, <2>4, BatchHead
  <2> QED
    BY <1>9, <2>2, <2>3, <2>4, <2>5, SettlingStep
<1>10. SkipJob \/ RescheduleCooling \/ FailJob \/ RecordSent => batch # << >>
  BY <1>0 DEF SkipJob, RescheduleCooling, FailJob, RecordSent, LoopOK
<1> QED
  BY <1>1, <1>2, <1>3, <1>4, <1>5, <1>6, <1>7, <1>8, <1>9, <1>10 DEF Dispatch

(* Every step keeps the ledger and lets outcomes stand.                    *)
LEMMA StepLedger ==
  ASSUME LedgerInv, [Next]_vars
  PROVE  BatchClaimed' /\ Ledger' /\ Final
<1>0. /\ TypeInv /\ GoodTable(jobs) /\ Quiet(jobs, jobs) /\ RestOK
      /\ Fault => used'.crashes = used.crashes
  BY QuietNothing, FaultType DEF LedgerInv, TypeInv
<1>1. CASE Dispatch
  BY <1>1, DispatchLedger
<1>2. ASSUME NEW p \in Proc, Rebuild(p)
      PROVE  BatchClaimed' /\ Ledger' /\ Final
  <2>1. Quiet(jobs, jobs')
    BY <1>0, <1>2, RebuildType
  <2>2. used'.crashes = used.crashes
    BY <1>0, <1>2 DEF Rebuild, RbList, RbEnabled, RbStale, RbRead, RbCancel, RbInsert,
       RbUnlock
  <2>3. CASE UNCHANGED loopVars
    BY <2>1, <2>2, <2>3, QuietStep DEF loopVars
  <2>4. CASE p = Loop /\ (RbList(p) \/ RbUnlock(p)) /\ ~UNCHANGED loopVars
    <3>1. UNCHANGED jobs /\ \E affected : NextJob(affected)
      BY <2>4 DEF RbList, RbUnlock, RbReturn
    <3>2. PICK affected : NextJob(affected)
      BY <3>1
    <3>3. dpc = "exclude"
      BY <1>0, <2>4 DEF RbList, RbUnlock, Excluding, TypeInv, LoopWaits
    <3>4. batch # << >>
      BY <1>0, <3>3 DEF TypeInv, LoopOK
    <3> QED
      BY <2>2, <3>1, <3>2, <3>4, BatchHead, SettlingStep
  <2> QED
    BY <1>2, <2>3, <2>4 DEF Rebuild, RbList, RbEnabled, RbStale, RbRead, RbCancel,
       RbInsert, RbUnlock, RbReturn
<1>3. ASSUME NEW a \in Account, Events(a)
      PROVE  BatchClaimed' /\ Ledger' /\ Final
  <2>1. UNCHANGED jobs
    BY <1>0, <1>3, EventsType
  <2>2. used'.crashes = used.crashes
    <3>1. \/ used' = [used EXCEPT !.reports = @ + 1]
          \/ used' = [used EXCEPT !.reports = @ + 1, !.faults = @ + 1]
          \/ UNCHANGED used
          \/ Fault
      BY <1>3 DEF Events, Report, Mirror
    <3>2. used \in [reports : Nat, faults : Nat, errors : Nat, crashes : Nat]
      BY <1>0 DEF RestOK
    <3> QED
      BY <1>0, <3>1, <3>2, CountOne, CountTwo
  <2>3. UNCHANGED loopVars
    BY <1>3 DEF Events, Report, Mirror
  <2> QED
    BY <1>0, <2>1, <2>2, <2>3, QuietStep DEF loopVars
<1>4. ASSUME NEW c \in Comm, Bot(c)
      PROVE  BatchClaimed' /\ Ledger' /\ Final
  <2>1. Quiet(jobs, jobs')
    BY <1>0, <1>4, BotType
  <2>2. used'.crashes = used.crashes /\ UNCHANGED loopVars
    BY <1>0, <1>4 DEF Bot, BotSaveGroup, BotInsertDay, BotEnable, BotCancel, BotDelete,
       BotGivesUp
  <2> QED
    BY <2>1, <2>2, QuietStep DEF loopVars
<1>5. CASE ClockTick \/ UNCHANGED vars
  BY <1>0, <1>5, QuietStep DEF ClockTick, vars, loopVars
<1>6. CASE Crash
  <2>1. UNCHANGED jobs /\ batch' = << >> /\ DOMAIN batch' = {}
    BY <1>6 DEF Crash
  <2>2. used'.crashes = used.crashes + 1 /\ used.crashes \in Nat
    BY <1>0, <1>6, CountOne DEF Crash, RestOK
  <2>3. \A k \in DOMAIN jobs : jobs[k].sends \in Nat
    BY <1>0, BatchInTable
  <2> QED
    BY <2>1, <2>2, <2>3 DEF LedgerInv, BatchClaimed, Ledger, Final
<1> QED
  BY <1>1, <1>2, <1>3, <1>4, <1>5, <1>6 DEF Next

(* The ledger is an invariant.                                             *)
LEMMA LedgerInvariant == Spec => []LedgerInv
<1>1. Init => LedgerInv
  <2> SUFFICES ASSUME Init PROVE LedgerInv
    OBVIOUS
  <2>1. jobs = << >> /\ batch = << >> /\ DOMAIN jobs = {} /\ DOMAIN batch = {}
    BY DEF Init
  <2> QED
    BY <2>1, InitType DEF LedgerInv, BatchClaimed, Ledger
<1>2. LedgerInv /\ [Next]_vars => LedgerInv'
  BY StepLedger, StepType DEF LedgerInv
<1> QED
  BY <1>1, <1>2, PTL DEF Spec

(* A message reaches WhatsApp at most once more than the daemon has        *)
(* crashed, however many groups, accounts, failures and rebuilds there are.*)
THEOREM DeliveredOncePerRun == Spec => []AtMostOncePerRun
<1>1. LedgerInv => AtMostOncePerRun
  BY DEF LedgerInv, Ledger, AtMostOncePerRun
<1> QED
  BY <1>1, LedgerInvariant, PTL

(* A sent or failed message keeps its outcome, whatever the loop, the      *)
(* event goroutines, the bot and a restart do.                             *)
THEOREM OutcomesAreFinal == Spec => OutcomeIsFinal
<1>1. LedgerInv /\ [Next]_vars =>
        [\A k \in DOMAIN jobs :
           jobs[k].status \in {"sent", "failed"} => jobs'[k].status = jobs[k].status]_vars
  BY StepLedger DEF Final
<1> QED
  BY <1>1, LedgerInvariant, PTL DEF Spec, OutcomeIsFinal

------------------------------------------------------------------------------
(* Dispatcher implements JobLedger.                                        *)

SentIsDelivered == dpc = "sent" => jobs[Current].sends > 0

RefInv == LedgerInv /\ SentIsDelivered

LedgerStep == [Promise!Next]_(Promise!ledgerVars)

------------------------------------------------------------------------------
(* What the mapping makes of a table.                                      *)

(* An entry of the ledger.                                                 *)
LEMMA Entry ==
  ASSUME LedgerInv
  PROVE  /\ DOMAIN LedgerOfJobs = DOMAIN jobs
         /\ \A k \in DOMAIN jobs :
              /\ LedgerOfJobs[k].state = IF jobs[k].status \in OpenStatus
                                           THEN "open" ELSE jobs[k].status
              /\ LedgerOfJobs[k].sends = jobs[k].sends
              /\ jobs[k].sends \in Nat
              /\ jobs[k].status \in JobStatus
         /\ JobsInHand \subseteq DOMAIN jobs
         /\ used.crashes \in Nat
BY BatchInTable DEF LedgerInv, LedgerOfJobs, JobsInHand, IsOpen

(* Equal states and counts make equal ledgers.                             *)
LEMMA SameLedger ==
  ASSUME DOMAIN jobs' = DOMAIN jobs,
         \A k \in DOMAIN jobs :
           /\ jobs'[k].sends = jobs[k].sends
           /\ \/ jobs'[k].status = jobs[k].status
              \/ jobs'[k].status \in OpenStatus /\ jobs[k].status \in OpenStatus
  PROVE  LedgerOfJobs' = LedgerOfJobs
BY DEF LedgerOfJobs, IsOpen

(* A quiet change plans messages or withdraws some.                        *)
LEMMA QuietLedger ==
  ASSUME LedgerInv, Quiet(jobs, jobs'), UNCHANGED batch, used'.crashes = used.crashes
  PROVE  Promise!Plan \/ Promise!Withdraw
<1>0. JobsInHand' = JobsInHand
  BY DEF JobsInHand
<1>1. CASE DOMAIN jobs' = DOMAIN jobs
  <2> DEFINE gone == {k \in DOMAIN jobs : jobs[k].status \in OpenStatus
                                           /\ jobs'[k].status = "cancelled"}
  <2>1. gone \in SUBSET {k \in DOMAIN LedgerOfJobs : LedgerOfJobs[k].state = "open"}
    BY Entry
  <2>2. LedgerOfJobs' = [k \in DOMAIN LedgerOfJobs |->
                           IF k \in gone THEN [LedgerOfJobs[k] EXCEPT !.state = "cancelled"]
                                         ELSE LedgerOfJobs[k]]
    BY <1>1 DEF LedgerOfJobs, IsOpen, Quiet, OpenStatus
  <2> QED
    BY <1>0, <2>1, <2>2 DEF Promise!Withdraw
<1>2. CASE \A k \in DOMAIN jobs : jobs'[k].status = jobs[k].status
  <2>1. DOMAIN LedgerOfJobs = DOMAIN jobs /\ DOMAIN LedgerOfJobs' = DOMAIN jobs'
    BY DEF LedgerOfJobs
  <2>2. \A k \in DOMAIN jobs' :
          LedgerOfJobs'[k] = IF k \in DOMAIN jobs THEN LedgerOfJobs[k] ELSE Promise!Planned
    BY <1>2 DEF LedgerOfJobs, IsOpen, Quiet, OpenStatus, Promise!Planned
  <2>3. LedgerOfJobs' = [k \in DOMAIN jobs' |-> LedgerOfJobs'[k]]
    BY DEF LedgerOfJobs
  <2>4. DOMAIN jobs \subseteq DOMAIN jobs'
    BY DEF Quiet
  <2> QED
    BY <1>0, <2>1, <2>2, <2>3, <2>4 DEF Promise!Plan
<1> QED
  BY <1>1, <1>2 DEF Quiet

(* The rest of a batch is in hand once the loop has gone on.               *)
LEMMA HandAfter ==
  ASSUME LedgerInv, batch # << >>, NEW STATE affected, NextJob(affected) \/ Return
  PROVE  /\ JobsInHand' \subseteq JobsInHand
         /\ NextJob(affected) => JobsInHand' = JobsInHand \ {Current}
<1>1. /\ batch \in Seq(DOMAIN jobs) /\ Len(batch) \in Nat \ {0} /\ 1 \in DOMAIN batch
      /\ Current = batch[1]
  BY BatchHead DEF LedgerInv, TypeInv, LoopOK
<1>2. CASE Return
  <2>1. JobsInHand' = {}
    BY <1>2 DEF Return, JobsInHand
  <2>2. ASSUME NextJob(affected), Len(batch) = 1
        PROVE  JobsInHand = {Current}
    BY <1>1, <2>2 DEF JobsInHand
  <2>3. ASSUME NextJob(affected), Len(batch) # 1
        PROVE  FALSE
    BY <1>2, <2>3 DEF NextJob, Return
  <2> QED
    BY <2>1, <2>2, <2>3
<1>3. CASE Len(batch) # 1 /\ batch' = Tail(batch)
  <2>1. /\ DOMAIN batch = 1..Len(batch)
        /\ DOMAIN batch' = 1..(Len(batch) - 1)
        /\ \A i \in DOMAIN batch' : batch'[i] = batch[i + 1]
    BY <1>1, <1>3
  <2>2. \A i \in DOMAIN batch' : i + 1 \in DOMAIN batch /\ i + 1 # 1
    BY <1>1, <2>1
  <2>3. \A i \in DOMAIN batch : i # 1 => i - 1 \in DOMAIN batch' /\ batch'[i - 1] = batch[i]
    BY <1>1, <2>1
  <2>4. \A i, j \in DOMAIN batch : i # j => batch[i] # batch[j]
    BY DEF LedgerInv, BatchClaimed
  <2>5. JobsInHand' \subseteq JobsInHand \ {Current}
    BY <1>1, <2>1, <2>2, <2>4 DEF JobsInHand
  <2>6. JobsInHand \ {Current} \subseteq JobsInHand'
    BY <1>1, <2>3 DEF JobsInHand
  <2> QED
    BY <2>5, <2>6
<1> QED
  BY <1>2, <1>3 DEF NextJob

------------------------------------------------------------------------------
(* The steps of the loop that touch the job in hand.                       *)

(* A hand-over is a delivery, or nothing when the message got lost.        *)
LEMMA DeliveryLedger ==
  ASSUME LedgerInv, dpc = "send", NEW n \in {0, 1}, Delivered(n), UNCHANGED batch,
         used'.crashes = used.crashes
  PROVE  /\ LedgerStep
         /\ n = 1 => jobs'[Current].sends > 0
<1>1. batch # << >>
  BY DEF LedgerInv, TypeInv, LoopOK
<1>2. /\ Current = batch[1] /\ 1 \in DOMAIN batch /\ Current \in DOMAIN jobs
      /\ jobs[Current].status \in InHand /\ jobs[Current].sends <= used.crashes
  BY <1>1, BatchHead
<1>3. /\ DOMAIN jobs' = DOMAIN jobs
      /\ jobs'[Current].sends = jobs[Current].sends + n
      /\ \A k \in DOMAIN jobs : jobs'[k].status = jobs[k].status
      /\ \A k \in DOMAIN jobs \ {Current} : jobs'[k] = jobs[k]
  BY <1>2, GoodDelivery DEF Delivered, LedgerInv, TypeInv
<1>4. jobs[Current].sends \in Nat
  BY <1>2, Entry
<1>5. Current \in JobsInHand /\ JobsInHand' = JobsInHand
  BY <1>2 DEF JobsInHand
<1>6. CASE n = 0
  <2>1. LedgerOfJobs' = LedgerOfJobs
    BY <1>2, <1>3, <1>4, <1>6, SameLedger
  <2> QED
    BY <1>5, <1>6, <2>1 DEF LedgerStep, Promise!ledgerVars
<1>7. CASE n = 1
  <2>1. LedgerOfJobs' = [LedgerOfJobs EXCEPT ![Current].sends = @ + 1]
    <3> DEFINE entry == [LedgerOfJobs[Current] EXCEPT !.sends = @ + 1]
    <3>1. DOMAIN LedgerOfJobs' = DOMAIN LedgerOfJobs
      BY <1>3 DEF LedgerOfJobs
    <3>2. \A k \in DOMAIN jobs \ {Current} : LedgerOfJobs'[k] = LedgerOfJobs[k]
      BY <1>3 DEF LedgerOfJobs, IsOpen
    <3>3. LedgerOfJobs'[Current] = entry
      BY <1>2, <1>3, <1>7 DEF LedgerOfJobs, IsOpen
    <3>4. LedgerOfJobs' = [k \in DOMAIN jobs |-> LedgerOfJobs'[k]]
      BY <1>3 DEF LedgerOfJobs
    <3>5. LedgerOfJobs = [k \in DOMAIN jobs |-> LedgerOfJobs[k]]
      BY DEF LedgerOfJobs
    <3> HIDE DEF entry
    <3>6. LedgerOfJobs' = [LedgerOfJobs EXCEPT ![Current] = entry]
      BY <3>2, <3>3, <3>4, <3>5
    <3> QED
      BY <3>6 DEF entry
  <2>2. LedgerOfJobs[Current].state \in {"open", "cancelled"}
        /\ LedgerOfJobs[Current].sends <= used.crashes
    BY <1>2, Entry DEF InHand, OpenStatus
  <2>3. Promise!Deliver
    BY <1>5, <2>1, <2>2 DEF Promise!Deliver
  <2>4. jobs'[Current].sends > 0
    BY <1>3, <1>4, <1>7
  <2> QED
    BY <2>3, <2>4 DEF LedgerStep, Promise!Next
<1> QED
  BY <1>6, <1>7

(* The job in hand gets an outcome and the loop goes on.                   *)
LEMMA OutcomeLedger ==
  ASSUME LedgerInv, batch # << >>, NEW s \in {"sent", "failed", "open", "cancelled"},
         DOMAIN jobs' = DOMAIN jobs,
         \A k \in DOMAIN jobs \ {Current} : jobs'[k] = jobs[k],
         jobs'[Current].sends = jobs[Current].sends,
         s = IF jobs'[Current].status \in OpenStatus THEN "open" ELSE jobs'[Current].status,
         s = "sent" => jobs[Current].sends > 0,
         s = "open" => jobs[Current].sends <= used.crashes,
         s = "cancelled" => jobs[Current].status \in OpenStatus,
         NextJob({}), used'.crashes = used.crashes
  PROVE  Promise!Settle
<1>1. /\ Current = batch[1] /\ 1 \in DOMAIN batch /\ Current \in DOMAIN jobs
      /\ jobs[Current].status \in InHand
  BY BatchHead
<1>2. Current \in JobsInHand
  BY <1>1 DEF JobsInHand
<1>3. JobsInHand' = JobsInHand \ {Current}
  BY HandAfter
<1>4. LedgerOfJobs[Current].state \in {"open", "cancelled"}
  BY <1>1, Entry DEF InHand, OpenStatus
<1>5. LedgerOfJobs' = [LedgerOfJobs EXCEPT ![Current].state = s]
  BY <1>1 DEF LedgerOfJobs, IsOpen
<1>6. /\ s = "sent" => LedgerOfJobs[Current].sends > 0
      /\ s = "open" => LedgerOfJobs[Current].sends <= used.crashes
      /\ s = "cancelled" => LedgerOfJobs[Current].state = "open"
  BY <1>1, Entry
<1>7. Promise!Outcome(Current, s)
  <2>1. CASE s = "sent"
    BY <1>6, <2>1 DEF Promise!Outcome
  <2>2. CASE s = "failed"
    BY <2>2 DEF Promise!Outcome
  <2>3. CASE s = "open"
    BY <1>6, <2>3 DEF Promise!Outcome
  <2>4. CASE s = "cancelled"
    BY <1>6, <2>4 DEF Promise!Outcome
  <2> QED
    BY <2>1, <2>2, <2>3, <2>4
<1> QED
  BY <1>2, <1>3, <1>4, <1>5, <1>7 DEF Promise!Settle

(* The loop goes on without an outcome.                                    *)
LEMMA PutDownLedger ==
  ASSUME LedgerInv, batch # << >>, UNCHANGED jobs, NEW STATE affected,
         NextJob(affected) \/ Return, used'.crashes = used.crashes
  PROVE  Promise!PutDown
<1>1. JobsInHand' \subseteq JobsInHand
  BY HandAfter
<1>2. LedgerOfJobs' = LedgerOfJobs
  BY DEF LedgerOfJobs, IsOpen
<1> QED
  BY <1>1, <1>2 DEF Promise!PutDown

(* Different pending jobs are taken in hand.                               *)
LEMMA TakeLedger ==
  ASSUME LedgerInv, dpc = "claim", NEW s \in DueOrders(jobs, tick, BatchSize),
         jobs' = Claim(jobs, s), batch' = s, used'.crashes = used.crashes
  PROVE  Promise!Take
<1>1. IsTable(jobs, Account) /\ tick \in Nat /\ BatchSize \in Nat
  BY DispatcherAssumption DEF LedgerInv, TypeInv, GoodTable, LoopOK
<1>2. s \in Seq(DOMAIN jobs) /\ \A i \in DOMAIN s : jobs[s[i]].status = "pending"
  BY <1>1, DueOrdersFacts
<1> DEFINE claimed == {s[i] : i \in DOMAIN s}
<1>3. /\ DOMAIN jobs' = DOMAIN jobs
      /\ \A k \in DOMAIN jobs :
           /\ jobs'[k].sends = jobs[k].sends
           /\ jobs'[k].status = IF k \in claimed THEN "sending" ELSE jobs[k].status
  <2>1. "sending" \in JobStatus
    BY DEF JobStatus, OpenStatus
  <2> QED
    BY <1>1, <2>1, SetStatusFacts DEF Claim
<1>4. \A k \in claimed : k \in DOMAIN jobs /\ jobs[k].status = "pending"
  BY <1>2
<1>5. LedgerOfJobs' = LedgerOfJobs
  <2> HIDE DEF claimed
  <2> QED
    BY <1>3, <1>4, SameLedger DEF OpenStatus
<1>6. JobsInHand' = claimed
  BY DEF JobsInHand
<1>7. JobsInHand = {}
  <2>1. batch = << >>
    BY DEF LedgerInv, TypeInv, LoopOK
  <2>2. DOMAIN batch = {}
    BY <2>1
  <2> QED
    BY <2>2 DEF JobsInHand
<1> HIDE DEF claimed
<1>8. \A k \in claimed : /\ LedgerOfJobs[k].state = "open"
                         /\ LedgerOfJobs[k].sends <= used.crashes
                         /\ k \in DOMAIN LedgerOfJobs
  BY <1>4, Entry DEF LedgerInv, Ledger, OpenStatus
<1> QED
  BY <1>5, <1>6, <1>7, <1>8 DEF Promise!Take, Promise!Sendable

------------------------------------------------------------------------------
(* Every step is a step of the ledger, or none.                            *)

(* The actions of the loop.                                                *)
LEMMA DispatchRefines ==
  ASSUME RefInv, Dispatch
  PROVE  LedgerStep /\ SentIsDelivered'
<1>0. /\ LedgerInv /\ TypeInv /\ GoodTable(jobs) /\ IsTable(jobs, Account) /\ LoopOK /\ RestOK
      /\ Fault => used'.crashes = used.crashes
      /\ Quiet(jobs, jobs)
  BY FaultType, QuietNothing DEF RefInv, LedgerInv, TypeInv, GoodTable
<1>a. ASSUME LedgerOfJobs' = LedgerOfJobs, UNCHANGED batch, used'.crashes = used.crashes
      PROVE  LedgerStep
  BY <1>a DEF LedgerStep, Promise!ledgerVars, JobsInHand
<1>1. CASE Boot
  <2>1. used'.crashes = used.crashes /\ UNCHANGED batch /\ dpc' = "idle"
    BY <1>0, <1>1 DEF Boot
  <2>2. LedgerOfJobs' = LedgerOfJobs
    <3>1. CASE UNCHANGED jobs
      BY <3>1 DEF LedgerOfJobs, IsOpen
    <3>2. CASE jobs' = ResetSending(jobs)
      <4>1. "pending" \in JobStatus
        BY DEF JobStatus, OpenStatus
      <4> QED
        BY <1>0, <3>2, <4>1, SetStatusFacts, SameLedger DEF ResetSending, OpenStatus
    <3> QED
      BY <1>1, <3>1, <3>2 DEF Boot
  <2> QED
    BY <1>a, <2>1, <2>2 DEF SentIsDelivered
<1>2. CASE StartTick
  <2>1. Quiet(jobs, jobs')
    BY <1>0, <1>2, QuietCancel DEF StartTick
  <2> QED
    BY <1>0, <1>2, <2>1, QuietLedger DEF StartTick, LedgerStep, Promise!Next, SentIsDelivered
<1>3. CASE ClaimJobs
  <2>1. dpc' # "sent"
    BY <1>3 DEF ClaimJobs, Return
  <2>2. CASE UNCHANGED jobs /\ Return /\ Fault
    <3>1. UNCHANGED batch
      BY <1>0, <1>3, <2>2 DEF ClaimJobs, Return, LoopOK
    <3>2. LedgerOfJobs' = LedgerOfJobs
      BY <2>2 DEF LedgerOfJobs, IsOpen
    <3> QED
      BY <1>0, <1>a, <2>1, <2>2, <3>1, <3>2 DEF SentIsDelivered
  <2>3. ASSUME NEW s \in DueOrders(jobs, tick, BatchSize),
               jobs' = Claim(jobs, s), UNCHANGED used,
               IF s = << >> THEN Return
                            ELSE /\ dpc' = "next"
                                 /\ batch' = s
                                 /\ UNCHANGED <<tick, rebuilt, victim>>
        PROVE  LedgerStep
    <3>1. batch' = s
      BY <2>3 DEF Return
    <3> QED
      BY <1>0, <1>3, <2>3, <3>1, TakeLedger DEF ClaimJobs, LedgerStep, Promise!Next
  <2> QED
    BY <1>3, <2>1, <2>2, <2>3 DEF ClaimJobs, SentIsDelivered
<1>4. CASE LoadAccounts \/ MarkAdminSessionLost
  <2>1. used'.crashes = used.crashes /\ UNCHANGED <<jobs, batch>> /\ dpc' # "sent"
    BY <1>0, <1>4 DEF LoadAccounts, Decide, MarkAdminSessionLost
  <2>2. LedgerOfJobs' = LedgerOfJobs
    BY <2>1 DEF LedgerOfJobs, IsOpen
  <2> QED
    BY <1>a, <2>1, <2>2 DEF SentIsDelivered
<1>5. CASE SendSucceeds
  <2>1. LedgerStep /\ jobs'[Current].sends > 0
    BY <1>0, <1>5, DeliveryLedger DEF SendSucceeds
  <2> QED
    BY <1>5, <2>1 DEF SendSucceeds, SentIsDelivered, Current
<1>6. CASE SendFailsFatally \/ SendFailsSoftly
  <2>1. \/ used' = [used EXCEPT !.errors = @ + 1]
        \/ used' = [used EXCEPT !.errors = @ + 1, !.faults = @ + 1]
    BY <1>6 DEF SendFailsFatally, SendFailsSoftly
  <2>2. used'.crashes = used.crashes
    <3>1. used \in [reports : Nat, faults : Nat, errors : Nat, crashes : Nat]
      BY <1>0 DEF RestOK
    <3> QED
      BY <2>1, <3>1
  <2>3. SendFails /\ dpc' # "sent"
    BY <1>6 DEF SendFailsFatally, SendFailsSoftly
  <2> QED
    BY <1>0, <2>2, <2>3, DeliveryLedger DEF SendFails, SentIsDelivered
<1>7. ASSUME SkipJob \/ RescheduleCooling \/ FailJob \/ RecordSent
      PROVE  LedgerStep /\ SentIsDelivered'
  <2>0. batch # << >>
    BY <1>0, <1>7 DEF SkipJob, RescheduleCooling, FailJob, RecordSent, LoopOK
  <2>1. /\ Current \in DOMAIN jobs /\ CurrentJob.snd \in Account
        /\ jobs[Current].status \in InHand
        /\ dpc \in {"next", "resched", "send"} => jobs[Current].sends <= used.crashes
    BY <1>0, <2>0, CurrentType, BatchHead
  <2>2. /\ NextJob({}) \/ Return
        /\ used'.crashes = used.crashes
    BY <1>0, <1>7 DEF SkipJob, RescheduleCooling, FailJob, RecordSent
  <2>3. dpc' # "sent"
    BY <2>2 DEF NextJob, Return
  <2>4. CASE UNCHANGED jobs
    BY <1>0, <2>0, <2>2, <2>3, <2>4, PutDownLedger DEF LedgerStep, Promise!Next, SentIsDelivered
  <2>5. ASSUME NEW s \in {"sent", "failed", "cancelled"}, jobs' = SetStatus(jobs, {Current}, s)
        PROVE  /\ DOMAIN jobs' = DOMAIN jobs
               /\ \A k \in DOMAIN jobs \ {Current} : jobs'[k] = jobs[k]
               /\ jobs'[Current].sends = jobs[Current].sends
               /\ jobs'[Current].status = s
               /\ s \notin OpenStatus
    <3>1. s \in JobStatus /\ s \notin OpenStatus
      BY <2>5 DEF JobStatus, OpenStatus
    <3>2. \A k \in DOMAIN jobs \ {Current} : jobs'[k] = jobs[k]
      BY <2>5 DEF SetStatus
    <3>3. /\ DOMAIN jobs' = DOMAIN jobs
          /\ jobs'[Current].sends = jobs[Current].sends
          /\ jobs'[Current].status = s
      BY <1>0, <2>1, <2>5, <3>1, SetStatusFacts
    <3> QED
      BY <3>1, <3>2, <3>3
  <2>6. CASE SkipJob /\ jobs' = MarkCancelled(jobs, Current)
    <3>1. CASE Current \notin OpenJobs(jobs)
      <4>1. \A k \in DOMAIN jobs : jobs'[k] = jobs[k]
        BY <2>6, <3>1 DEF MarkCancelled, Cancel, SetStatus
      <4>2. DOMAIN jobs' = DOMAIN jobs /\ jobs' = [k \in DOMAIN jobs |-> jobs'[k]]
        BY <2>6 DEF MarkCancelled, Cancel, SetStatus
      <4>3. jobs = [k \in DOMAIN jobs |-> jobs[k]]
        BY <1>0 DEF IsTable
      <4>4. UNCHANGED jobs
        BY <4>1, <4>2, <4>3
      <4> QED
        BY <2>4, <4>4
    <3>2. CASE Current \in OpenJobs(jobs)
      <4>1. {Current} \intersect OpenJobs(jobs) = {Current}
        BY <3>2
      <4>2. jobs' = SetStatus(jobs, {Current}, "cancelled")
        BY <2>6, <4>1 DEF MarkCancelled, Cancel
      <4>3. jobs[Current].status \in OpenStatus
        BY <3>2 DEF OpenJobs
      <4> QED
        BY <1>0, <2>0, <2>2, <2>3, <2>5, <2>6, <4>2, <4>3, OutcomeLedger
        DEF SkipJob, LedgerStep, Promise!Next, SentIsDelivered
    <3> QED
      BY <3>1, <3>2
  <2>7. CASE FailJob /\ jobs' = MarkFailed(jobs, Current)
    BY <1>0, <2>0, <2>2, <2>3, <2>5, <2>7, OutcomeLedger
    DEF FailJob, MarkFailed, LedgerStep, Promise!Next, SentIsDelivered
  <2>8. CASE RecordSent /\ jobs' = MarkSent(jobs, Current) /\ NextJob({})
    <3>1. jobs[Current].sends > 0
      BY <2>8 DEF RefInv, SentIsDelivered, RecordSent
    <3> QED
      BY <1>0, <2>0, <2>2, <2>3, <2>5, <2>8, <3>1, OutcomeLedger
      DEF MarkSent, LedgerStep, Promise!Next, SentIsDelivered
  <2>9. CASE /\ RescheduleCooling
             /\ jobs' = Reschedule(jobs, Current, cooldown[CurrentJob.snd].until)
    <3>1. cooldown[CurrentJob.snd].until \in Nat
      BY <1>0, <2>1 DEF RestOK
    <3>2. /\ DOMAIN jobs' = DOMAIN jobs
          /\ jobs'[Current].status = "pending" /\ jobs'[Current].sends = jobs[Current].sends
          /\ \A k \in DOMAIN jobs \ {Current} : jobs'[k] = jobs[k]
      BY <1>0, <2>1, <2>9, <3>1, RescheduleFacts
    <3>3. jobs[Current].sends <= used.crashes
      BY <2>1, <2>9 DEF RescheduleCooling
    <3> QED
      BY <1>0, <2>0, <2>2, <2>3, <2>9, <3>2, <3>3, OutcomeLedger
      DEF RescheduleCooling, LedgerStep, Promise!Next, SentIsDelivered, OpenStatus
  <2> QED
    BY <1>7, <2>4, <2>6, <2>7, <2>8, <2>9 DEF SkipJob, RescheduleCooling, FailJob, RecordSent
<1> QED
  BY <1>1, <1>2, <1>3, <1>4, <1>5, <1>6, <1>7 DEF Dispatch

(* Every step of Dispatcher.                                               *)
LEMMA StepRefines ==
  ASSUME RefInv, [Next]_vars
  PROVE  LedgerStep /\ SentIsDelivered'
<1>0. /\ LedgerInv /\ TypeInv /\ Quiet(jobs, jobs) /\ RestOK /\ LoopOK
      /\ Fault => used'.crashes = used.crashes
  BY QuietNothing, FaultType DEF RefInv, LedgerInv, TypeInv
<1>a. ASSUME Quiet(jobs, jobs'), UNCHANGED loopVars, used'.crashes = used.crashes
      PROVE  LedgerStep /\ SentIsDelivered'
  <2>1. LedgerStep
    BY <1>0, <1>a, QuietLedger DEF loopVars, LedgerStep, Promise!Next
  <2>2. ASSUME dpc = "sent" PROVE Current \in DOMAIN jobs
    BY <1>0, <2>2, BatchHead DEF LoopOK
  <2>3. dpc' = dpc /\ Current' = Current
    BY <1>a DEF loopVars, Current
  <2>4. SentIsDelivered'
    BY <1>a, <2>2, <2>3 DEF SentIsDelivered, RefInv, Quiet
  <2> QED
    BY <2>1, <2>4
<1>1. CASE Dispatch
  BY <1>1, DispatchRefines
<1>2. ASSUME NEW p \in Proc, Rebuild(p)
      PROVE  LedgerStep /\ SentIsDelivered'
  <2>1. Quiet(jobs, jobs')
    BY <1>0, <1>2, RebuildType
  <2>2. used'.crashes = used.crashes
    BY <1>0, <1>2 DEF Rebuild, RbList, RbEnabled, RbStale, RbRead, RbCancel, RbInsert,
       RbUnlock
  <2>3. CASE p = Loop /\ (RbList(p) \/ RbUnlock(p)) /\ ~UNCHANGED loopVars
    <3>1. UNCHANGED jobs /\ \E affected : NextJob(affected)
      BY <2>3 DEF RbList, RbUnlock, RbReturn
    <3>2. PICK affected : NextJob(affected)
      BY <3>1
    <3>3. dpc = "exclude" /\ batch # << >>
      BY <1>0, <2>3 DEF RbList, RbUnlock, Excluding, TypeInv, LoopWaits, LoopOK
    <3>4. dpc' # "sent"
      BY <3>2 DEF NextJob, Return
    <3> QED
      BY <1>0, <2>2, <3>1, <3>2, <3>3, <3>4, PutDownLedger
      DEF LedgerStep, Promise!Next, SentIsDelivered
  <2> QED
    BY <1>2, <1>a, <2>1, <2>2, <2>3 DEF Rebuild, RbList, RbEnabled, RbStale, RbRead,
       RbCancel, RbInsert, RbUnlock, RbReturn
<1>3. ASSUME NEW a \in Account, Events(a)
      PROVE  LedgerStep /\ SentIsDelivered'
  <2>1. UNCHANGED jobs /\ UNCHANGED loopVars
    BY <1>0, <1>3, EventsType DEF Events, Report, Mirror
  <2>2. used'.crashes = used.crashes
    <3>1. \/ used' = [used EXCEPT !.reports = @ + 1]
          \/ used' = [used EXCEPT !.reports = @ + 1, !.faults = @ + 1]
          \/ UNCHANGED used
          \/ Fault
      BY <1>3 DEF Events, Report, Mirror
    <3>2. used \in [reports : Nat, faults : Nat, errors : Nat, crashes : Nat]
      BY <1>0 DEF RestOK
    <3> QED
      BY <1>0, <3>1, <3>2, CountOne, CountTwo
  <2> QED
    BY <1>0, <1>a, <2>1, <2>2
<1>4. ASSUME NEW c \in Comm, Bot(c)
      PROVE  LedgerStep /\ SentIsDelivered'
  <2>1. Quiet(jobs, jobs')
    BY <1>0, <1>4, BotType
  <2>2. used'.crashes = used.crashes /\ UNCHANGED loopVars
    BY <1>0, <1>4 DEF Bot, BotSaveGroup, BotInsertDay, BotEnable, BotCancel, BotDelete,
       BotGivesUp
  <2> QED
    BY <1>a, <2>1, <2>2
<1>5. CASE ClockTick \/ UNCHANGED vars
  BY <1>0, <1>5, <1>a DEF ClockTick, vars, loopVars
<1>6. CASE Crash
  <2>1. UNCHANGED jobs /\ DOMAIN batch' = {} /\ dpc' = "boot"
    BY <1>6 DEF Crash
  <2>2. used'.crashes = used.crashes + 1
    BY <1>0, <1>6, CountOne DEF Crash, RestOK
  <2>3. LedgerOfJobs' = LedgerOfJobs /\ JobsInHand' = {}
    BY <2>1 DEF LedgerOfJobs, IsOpen, JobsInHand
  <2> QED
    BY <2>1, <2>2, <2>3 DEF LedgerStep, Promise!Next, Promise!Restart, SentIsDelivered
<1> QED
  BY <1>1, <1>2, <1>3, <1>4, <1>5, <1>6 DEF Next

(* Dispatcher implements JobLedger: whatever the loop, the rebuilds, the   *)
(* bot, crashes and failing statements do, no message is taken again after *)
(* it was delivered or withdrawn, none is called sent that was not         *)
(* delivered, and no outcome is overwritten.                               *)
THEOREM LedgerKept == Spec => KeepsLedger
<1>1. Init => RefInv /\ Promise!Init
  <2> SUFFICES ASSUME Init PROVE RefInv /\ Promise!Init
    OBVIOUS
  <2>1. jobs = << >> /\ batch = << >> /\ DOMAIN jobs = {} /\ DOMAIN batch = {}
        /\ used.crashes = 0 /\ dpc = "boot"
    BY DEF Init
  <2>2. LedgerInv
    BY <2>1, InitType DEF LedgerInv, BatchClaimed, Ledger
  <2>3. LedgerOfJobs = << >> /\ JobsInHand = {}
    BY <2>1 DEF LedgerOfJobs, JobsInHand
  <2> QED
    BY <2>1, <2>2, <2>3 DEF RefInv, SentIsDelivered, Promise!Init
<1>2. RefInv /\ [Next]_vars => RefInv' /\ LedgerStep
  BY StepRefines, StepLedger, StepType DEF RefInv, LedgerInv
<1>3. RefInv /\ [Next]_vars => [Promise!Next]_(Promise!ledgerVars)
  BY <1>2 DEF LedgerStep
<1> QED
  BY <1>1, <1>2, <1>3, PTL DEF Spec, KeepsLedger, Promise!Spec

==============================================================================
