-------------------------------- MODULE Rings --------------------------------
(***************************************************************************)
(* The dialogue ring of a warm-up group and its daily schedule.            *)
(*                                                                         *)
(* The Telegram bot (communications.py) schedules a new group and the Go   *)
(* daemon (ring_rebuild.go) reschedules a group that lost an account with  *)
(* the same algorithm: neighbours of a ring talk in turn, CyclesPerPair    *)
(* times there and back, a random pause between two messages, and whatever *)
(* falls at or after the end of the daily send window is dropped.          *)
(*                                                                         *)
(* Time is counted in ticks (one tick stands for the code's minute); day d *)
(* is the interval [d*DayLength, (d+1)*DayLength) of local time.           *)
(***************************************************************************)
EXTENDS Integers, Sequences

CONSTANTS
  CyclesPerPair,  \* there-and-back exchanges of one pair (3 in the code)
  DayLength,      \* ticks in a day
  WindowStart,    \* first tick of the send window in a day (10:00)
  WindowEnd,      \* first tick after the send window in a day (22:00)
  MinGap, MaxGap  \* bounds of the pause between two messages (12..20 min)

ASSUME RingsAssumption ==
  /\ CyclesPerPair \in Nat \ {0}
  /\ DayLength \in Nat \ {0}
  /\ WindowStart \in Nat
  /\ WindowEnd \in Nat
  /\ WindowStart < WindowEnd
  /\ WindowEnd <= DayLength
  /\ MinGap \in Nat \ {0}
  /\ MaxGap \in Nat
  /\ MinGap <= MaxGap

------------------------------------------------------------------------------
(* The calendar.                                                           *)

Day(t) == t \div DayLength
DayStart(d) == d * DayLength + WindowStart
DayEnd(d) == d * DayLength + WindowEnd

------------------------------------------------------------------------------
(* Pairs and messages.                                                     *)

(* Mutant: two accounts are treated like a longer ring.                    *)
WrappedPairs(ring) ==
  IF Len(ring) < 2 THEN << >>
                   ELSE [i \in 1..Len(ring) |-> <<ring[i], ring[(i % Len(ring)) + 1]>>]

(* Neighbours of the ring; two accounts have one pair, fewer have none.    *)
DialoguePairs(ring) ==
  LET n == Len(ring)
  IN  CASE n < 2 -> << >>
        [] n = 2 -> << <<ring[1], ring[2]>> >>
        [] OTHER -> [i \in 1..n |-> <<ring[i], ring[(i % n) + 1]>>]

(* Messages of one day.                                                    *)
MessageCount(ring) == Len(DialoguePairs(ring)) * CyclesPerPair * 2

(* Sender and receiver of the k-th message: pair after pair, each pair     *)
(* alternating, its first member opening.                                  *)
Message(ring, k) ==
  LET pair == DialoguePairs(ring)[((k - 1) \div (2 * CyclesPerPair)) + 1]
  IN  IF k % 2 = 1 THEN [snd |-> pair[1], rcv |-> pair[2]]
                   ELSE [snd |-> pair[2], rcv |-> pair[1]]

(* Every schedule of n messages from startAt that the random pauses allow: *)
(* message 1 at startAt, any two messages j < k at least (k-j)*MinGap and  *)
(* at most (k-j)*MaxGap apart. slack[k] is what the pauses before message  *)
(* k add to the shortest schedule.                                         *)
Schedules(startAt, n) ==
  LET spread == MaxGap - MinGap
      slacks == {s \in [1..n -> 0..((n - 1) * spread)] :
                   /\ n > 0 => s[1] = 0
                   /\ \A k \in 1..n : \A j \in 1..(k - 1) :
                        /\ s[j] <= s[k]
                        /\ s[k] - s[j] <= (k - j) * spread}
  IN  {[k \in 1..n |-> startAt + (k - 1) * MinGap + s[k]] : s \in slacks}

(* The messages that survive the window filter. A schedule increases, so   *)
(* they are its first m messages.                                          *)
KeptInWindow(at, n, d, m) ==
  \A k \in 1..n : at[k] < DayEnd(d) <=> k <= m

(* The rows of one day, by their key <<comm, date, step>>: the first m      *)
(* messages of schedule at, numbered after base (fields: see JobStore).    *)
DayRows(ring, c, d, base, at, m) ==
  [k \in {<<c, d, base + i>> : i \in 1..m} |->
     [snd |-> Message(ring, k[3] - base).snd,
      rcv |-> Message(ring, k[3] - base).rcv,
      at |-> at[k[3] - base], status |-> "pending",
      sends |-> 0, base |-> base, moved |-> FALSE]]

------------------------------------------------------------------------------
(* When a schedule may start.                                              *)

(* Mutant: only the messages of a pair's first speaker are counted.        *)
StartAllowedForOpeners(start, n) ==
  /\ start >= DayStart(Day(start))
  /\ start <= DayEnd(Day(start)) - (n \div 2 - 1) * MaxGap
  /\ start < DayEnd(Day(start))

(* The bot accepts a start only if the slowest schedule ends in the window. *)
StartAllowed(start, n) ==
  /\ start >= DayStart(Day(start))
  /\ start <= DayEnd(Day(start)) - (n - 1) * MaxGap
  /\ start < DayEnd(Day(start))

(* Mutant: a rebuilt ring continues at once, also before the window opens. *)
RebuildStartAtOnce(d, now) == IF d > Day(now) THEN DayStart(d) ELSE now + 1

(* A rebuilt ring continues today, starts with the window on a later day,  *)
(* and on a past day is pushed behind "now", where the filter drops it.    *)
RebuildStart(d, now) ==
  IF (d = Day(now) /\ now + 1 < DayStart(d)) \/ d > Day(now)
    THEN DayStart(d)
    ELSE now + 1

==============================================================================
