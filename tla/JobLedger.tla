------------------------------ MODULE JobLedger ------------------------------
(***************************************************************************)
(* What the dispatcher owes a scheduled message, without its table, its    *)
(* batches, its rebuilds and its clock: a planned message is open until it *)
(* is withdrawn or settled; only a message the daemon has taken in hand    *)
(* reaches WhatsApp, in each run of the daemon at most once more than the  *)
(* daemon was restarted; what was withdrawn is never taken again; what is  *)
(* called sent was delivered; sent and failed are final.                   *)
(***************************************************************************)
EXTENDS Integers

VARIABLES
  ledger,   \* message -> [state, sends]
  hand,     \* messages the daemon has taken to send
  epoch     \* restarts of the daemon

ledgerVars == <<ledger, hand, epoch>>

Planned == [state |-> "open", sends |-> 0]

Init ==
  /\ ledger = << >>
  /\ hand = {}
  /\ epoch = 0

(* New messages; nobody touches the old ones.                              *)
Plan ==
  /\ DOMAIN ledger \subseteq DOMAIN ledger'
  /\ ledger' = [k \in DOMAIN ledger' |-> IF k \in DOMAIN ledger THEN ledger[k] ELSE Planned]
  /\ UNCHANGED <<hand, epoch>>

(* Any open messages are cancelled, in hand or not.                        *)
Withdraw ==
  /\ \E gone \in SUBSET {k \in DOMAIN ledger : ledger[k].state = "open"} :
       ledger' = [k \in DOMAIN ledger |->
                    IF k \in gone THEN [ledger[k] EXCEPT !.state = "cancelled"] ELSE ledger[k]]
  /\ UNCHANGED <<hand, epoch>>

Sendable(k) == ledger[k].state = "open" /\ ledger[k].sends <= epoch

Take ==
  /\ hand = {}
  /\ hand' \subseteq {k \in DOMAIN ledger : Sendable(k)}
  /\ UNCHANGED <<ledger, epoch>>

(* A message in hand reaches WhatsApp, perhaps without the daemon's        *)
(* knowledge, and perhaps after it was withdrawn.                          *)
Deliver ==
  /\ \E k \in hand :
       /\ ledger[k].state \in {"open", "cancelled"}
       /\ ledger[k].sends <= epoch
       /\ ledger' = [ledger EXCEPT ![k].sends = @ + 1]
  /\ UNCHANGED <<hand, epoch>>

(* A message leaves the hand with an outcome; it is open again only when   *)
(* this run has not delivered it.                                          *)
Outcome(k, s) ==
  CASE s = "sent" -> ledger[k].sends > 0
    [] s = "open" -> ledger[k].sends <= epoch
    [] s = "cancelled" -> ledger[k].state = "open"
    [] OTHER -> TRUE

Settle ==
  /\ \E k \in hand : \E s \in {"sent", "failed", "open", "cancelled"} :
       /\ ledger[k].state \in {"open", "cancelled"}
       /\ Outcome(k, s)
       /\ ledger' = [ledger EXCEPT ![k].state = s]
       /\ hand' = hand \ {k}
  /\ UNCHANGED epoch

(* Messages are put down without an outcome: an open one stays open.       *)
PutDown ==
  /\ hand' \subseteq hand
  /\ UNCHANGED <<ledger, epoch>>

Restart ==
  /\ epoch' = epoch + 1
  /\ hand' = {}
  /\ UNCHANGED ledger

Next ==
  \/ Plan
  \/ Withdraw
  \/ Take
  \/ Deliver
  \/ Settle
  \/ PutDown
  \/ Restart

Spec == Init /\ [][Next]_ledgerVars

==============================================================================
