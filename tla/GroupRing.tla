------------------------------ MODULE GroupRing ------------------------------
(***************************************************************************)
(* One warm-up group from the choice of its accounts to the last account   *)
(* it loses: the bot's account picker and start time (communications.py),  *)
(* the first day's messages, and the ring that remains after each drop, in *)
(* the order the daemon recovers from the rows (jobs_repo.go,              *)
(* ring_rebuild.go).                                                       *)
(***************************************************************************)
EXTENDS Rings, JobStore

CONSTANTS
  Account,        \* accounts the picker offers
  MaxGroupSize    \* most accounts in a group (6)

ASSUME GroupRingAssumption ==
  /\ Account # {}
  /\ MaxGroupSize \in Nat \ {0, 1}

VARIABLES
  ring,     \* selected_ids, then the accounts still in the dialogue
  stage,    \* "picking", "timing" or "talking"
  start,    \* accepted start of the first day
  rows      \* message_jobs of the group, all of them on one day

vars == <<ring, stage, start, rows>>

comm == 1

Init ==
  /\ ring = << >>
  /\ stage = "picking"
  /\ start = 0
  /\ rows = << >>

InRing(a) == \E i \in DOMAIN ring : ring[i] = a

(* The sequence without its i-th element.                                  *)
Without(s, i) == SubSeq(s, 1, i - 1) \o SubSeq(s, i + 1, Len(s))

Toggle(a) ==
  /\ stage = "picking"
  /\ \/ \E i \in DOMAIN ring : ring[i] = a /\ ring' = Without(ring, i)
     \/ ~InRing(a) /\ Len(ring) < MaxGroupSize /\ ring' = Append(ring, a)
  /\ UNCHANGED <<stage, start, rows>>

Reset ==
  /\ stage = "picking"
  /\ ring' = << >>
  /\ UNCHANGED <<stage, start, rows>>

AccountsDone ==
  /\ stage = "picking"
  /\ Len(ring) \in 2..MaxGroupSize
  /\ stage' = "timing"
  /\ UNCHANGED <<ring, start, rows>>

(* An accepted start; the day's messages that fit the window are inserted. *)
Confirm ==
  LET n == MessageCount(ring)
  IN  /\ stage = "timing"
      /\ \E t \in 0..(DayLength - 1) :
           /\ StartAllowed(t, n)
           /\ start' = t
           /\ \E at \in Schedules(t, n) : \E m \in 0..n :
                /\ KeptInWindow(at, n, 0, m)
                /\ rows' = DayRows(ring, comm, 0, 0, at, m)
      /\ stage' = "talking"
      /\ UNCHANGED ring

(* An account drops out: the rows tell the order of the members, the ring  *)
(* keeps the survivors in this order.                                      *)
Drop(a) ==
  /\ stage = "talking"
  /\ InRing(a)
  /\ \E survivors \in RingOrders(rows, comm, {b \in Members(rows, comm) : InRing(b)} \ {a}) :
       ring' = survivors
  /\ UNCHANGED <<stage, start, rows>>

Next ==
  \/ \E a \in Account : Toggle(a)
  \/ Reset
  \/ AccountsDone
  \/ Confirm
  \/ \E a \in Account : Drop(a)

Spec == Init /\ [][Next]_vars

------------------------------------------------------------------------------
Neighbours(s) == {{DialoguePairs(s)[i][1], DialoguePairs(s)[i][2]} :
                    i \in DOMAIN DialoguePairs(s)}

(* A dropped account leaves a gap that exactly one new pair bridges, that  *)
(* of its former neighbours; the other pairs talk on (two survivors keep   *)
(* the pair they already were).                                            *)
DropBridges ==
  [][stage = "talking" /\ ring' # ring =>
       \E i \in DOMAIN ring :
         LET n == Len(ring)
             before == ring[IF i = 1 THEN n ELSE i - 1]
             after == ring[IF i = n THEN 1 ELSE i + 1]
             others == {p \in Neighbours(ring) : ring[i] \notin p}
         IN  Neighbours(ring') = IF n <= 2 THEN {} ELSE others \union {{before, after}}]_vars

(* Every account of a ring writes as often as it is written to, and no two *)
(* accounts talk in more than one pair.                                    *)
BalancedDialogue ==
  LET n == MessageCount(ring)
      Sent(a) == {k \in 1..n : Message(ring, k).snd = a}
      Received(a) == {k \in 1..n : Message(ring, k).rcv = a}
  IN  Len(ring) >= 2 =>
        /\ Cardinality(Neighbours(ring)) = Len(DialoguePairs(ring))
        /\ \A i \in DOMAIN ring :
             /\ Sent(ring[i]) # {}
             /\ Cardinality(Sent(ring[i])) = Cardinality(Received(ring[i]))

(* An accepted start loses at most the last message of the day to the      *)
(* window, whatever pauses are drawn (while nobody has dropped out, the    *)
(* ring is the one the messages were made for).                            *)
AcceptedStartFits ==
  stage = "talking" /\ (\A a \in Members(rows, comm) : InRing(a)) =>
    Cardinality(DOMAIN rows) >= MessageCount(ring) - 1

==============================================================================
