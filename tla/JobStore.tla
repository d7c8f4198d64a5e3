------------------------------- MODULE JobStore -------------------------------
(***************************************************************************)
(* The statements that jobs_repo.go and communications.py run against the  *)
(* message_jobs table, as operators from a table to a table or to an       *)
(* answer. Each is one SQL statement or one transaction: atomic.           *)
(*                                                                         *)
(* A table is a function from the UNIQUE key <<comm, date, step>> to a row.*)
(* Rows are never deleted, and only status and planned_at (at) change.     *)
(* The rowid is left out: it only breaks ties of planned_at in the order   *)
(* of a claim, and DueOrders allows every order of a tie.                  *)
(*                                                                         *)
(* Three fields are history, read by properties only: sends counts the     *)
(* times WhatsApp delivered the message, base is the last step number that *)
(* was taken when the row was inserted (equal for all rows of a day that   *)
(* one transaction inserted), moved says that RescheduleJob touched it.    *)
(***************************************************************************)
EXTENDS Integers, FiniteSets, Sequences

OpenStatus == {"pending", "sending"}
JobStatus == OpenStatus \union {"sent", "failed", "cancelled"}

Row(accounts) ==
  [snd : accounts, rcv : accounts, at : Nat, status : JobStatus,
   sends : Nat, base : Nat, moved : BOOLEAN]

(* The rows a WHERE clause selects.                                        *)
OfComm(jobs, c) == {k \in DOMAIN jobs : k[1] = c}
OfDay(jobs, c, d) == {k \in DOMAIN jobs : k[1] = c /\ k[2] = d}
Involving(jobs, a) == {k \in DOMAIN jobs : jobs[k].snd = a \/ jobs[k].rcv = a}
OpenJobs(jobs) == {k \in DOMAIN jobs : jobs[k].status \in OpenStatus}

------------------------------------------------------------------------------
(* Changes of status.                                                      *)

(* UPDATE .. SET status WHERE the key is one of keys, with no test of the  *)
(* status the row has.                                                     *)
SetStatus(jobs, keys, s) ==
  [k \in DOMAIN jobs |-> IF k \in keys THEN [jobs[k] EXCEPT !.status = s]
                                       ELSE jobs[k]]

(* Mutant: a cancellation without its test of the status.                  *)
CancelAny(jobs, keys) == SetStatus(jobs, keys, "cancelled")

(* Every cancelling statement touches pending and sending rows only.       *)
Cancel(jobs, keys) == SetStatus(jobs, keys \intersect OpenJobs(jobs), "cancelled")

MarkSent(jobs, k) == SetStatus(jobs, {k}, "sent")
MarkFailed(jobs, k) == SetStatus(jobs, {k}, "failed")
MarkCancelled(jobs, k) == Cancel(jobs, {k})

(* Mutant: a rebuild leaves the jobs the loop has claimed alone.           *)
CancelUnclaimedForComm(jobs, c) ==
  Cancel(jobs, OfComm(jobs, c) \ {k \in DOMAIN jobs : jobs[k].status = "sending"})

(* Mutant: a cancellation that marks the rows as failed.                   *)
FailPendingForComm(jobs, c) ==
  SetStatus(jobs, OfComm(jobs, c) \intersect OpenJobs(jobs), "failed")

CancelPendingForComm(jobs, c) == Cancel(jobs, OfComm(jobs, c))
CancelInvolvingInComm(jobs, c, a) == Cancel(jobs, OfComm(jobs, c) \intersect Involving(jobs, a))

(* Mutant: every unsettled job is reset, the cancelled ones too.           *)
ResetUnsettled(jobs) ==
  SetStatus(jobs, {k \in DOMAIN jobs : jobs[k].status \in {"sending", "cancelled"}}, "pending")

ResetSending(jobs) ==
  SetStatus(jobs, {k \in DOMAIN jobs : jobs[k].status = "sending"}, "pending")

Reschedule(jobs, k, until) ==
  [jobs EXCEPT ![k].status = "pending", ![k].at = until, ![k].moved = TRUE]

------------------------------------------------------------------------------
(* The claim of due jobs: at most limit pending rows planned up to now,    *)
(* earliest first.                                                         *)

(* Mutant: jobs that are stuck in "sending" are claimed again.             *)
DueOrStuck(jobs, now) ==
  {k \in DOMAIN jobs : jobs[k].status \in OpenStatus /\ jobs[k].at <= now}

Due(jobs, now) == {k \in DOMAIN jobs : jobs[k].status = "pending" /\ jobs[k].at <= now}

DueOrders(jobs, now, limit) ==
  LET due == Due(jobs, now)
  IN  {s \in UNION {[1..n -> due] : n \in 0..limit} :
         /\ \A i, j \in DOMAIN s :
              i < j => s[i] # s[j] /\ jobs[s[i]].at <= jobs[s[j]].at
         /\ \A k \in due \ {s[i] : i \in DOMAIN s} :
              /\ Len(s) = limit
              /\ \A i \in DOMAIN s : jobs[s[i]].at <= jobs[k].at}

Claim(jobs, s) == SetStatus(jobs, {s[i] : i \in DOMAIN s}, "sending")

------------------------------------------------------------------------------
(* Insertion of the rows of one day.                                       *)

Steps(jobs, c, d) == {k[3] : k \in OfDay(jobs, c, d)}

(* Mutant: the last step of the jobs that are still open.                  *)
MaxOpenStep(jobs, c, d) ==
  LET open == {k[3] : k \in OfDay(jobs, c, d) \intersect OpenJobs(jobs)}
  IN  IF open = {} THEN 0 ELSE CHOOSE m \in open : \A s \in open : s <= m

MaxStep(jobs, c, d) ==
  IF Steps(jobs, c, d) = {}
    THEN 0
    ELSE CHOOSE m \in Steps(jobs, c, d) : \A s \in Steps(jobs, c, d) : s <= m

(* INSERT OR IGNORE: a row whose key is taken is dropped in silence.       *)
InsertOrIgnore(jobs, rows) ==
  [k \in DOMAIN jobs \union DOMAIN rows |-> IF k \in DOMAIN jobs THEN jobs[k] ELSE rows[k]]

------------------------------------------------------------------------------
(* What a ring rebuild reads.                                              *)

CommsInvolving(jobs, a) == {k[1] : k \in OpenJobs(jobs) \intersect Involving(jobs, a)}
PendingDates(jobs, c) == {k[2] : k \in OpenJobs(jobs) \intersect OfComm(jobs, c)}

Members(jobs, c) == {jobs[k].snd : k \in OfComm(jobs, c)}
                      \union {jobs[k].rcv : k \in OfComm(jobs, c)}

Earlier(k, l) == k[2] < l[2] \/ (k[2] = l[2] /\ k[3] < l[3])

(* In the rows of c, by date and step and the sender before the receiver,  *)
(* account a appears before account b does.                                *)
SeenBefore(jobs, c, a, b) ==
  \E k \in OfComm(jobs, c) \intersect Involving(jobs, a) :
    \A l \in OfComm(jobs, c) \intersect Involving(jobs, b) :
      Earlier(k, l) \/ (k = l /\ jobs[k].snd = a)

(* Mutant: the members in any order.                                       *)
UnsortedRings(jobs, c, accounts) ==
  {s \in [1..Cardinality(accounts) -> accounts] :
     \A i, j \in DOMAIN s : i < j => s[i] # s[j]}

(* The accounts of a set in the order of their first appearance: the one   *)
(* sequence of this set (GetAccountOrderForComm, restricted to accounts).  *)
RingOrders(jobs, c, accounts) ==
  LET n == Cardinality(accounts)
  IN  {s \in [1..n -> accounts] :
         \A i, j \in 1..n : i < j => s[i] # s[j] /\ SeenBefore(jobs, c, s[i], s[j])}

==============================================================================
