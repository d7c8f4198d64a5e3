----------------------------- MODULE RingsProofs -----------------------------
(***************************************************************************)
(* Facts about the operators that the modules above share: those of Rings  *)
(* (which accounts a message joins, that schedules are times and what      *)
(* bounds them, what the rows of a day look like) and those of JobStore    *)
(* (what the statements on message_jobs leave alone, for every table); and *)
(* the minimum and maximum of sets of numbers.                             *)
(***************************************************************************)
EXTENDS Rings, JobStore, SequenceTheorems, FiniteSetTheorems, WellFoundedInduction, TLAPS

------------------------------------------------------------------------------
(* Numbers.                                                                *)

(* Every set of numbers with an element has a least one.                   *)
LEMMA NatMinimum ==
  ASSUME NEW S \in SUBSET Nat, S # {}
  PROVE  \E m \in S : \A x \in S : m <= x
<1> DEFINE R == {ss \in Nat \X Nat : ss[1] < ss[2]}
<1>1. IsWellFoundedOn(R, Nat)
  BY NatLessThanWellFounded DEF OpToRel
<1>2. PICK m \in S : \A x \in S : ~ (<<x, m>> \in R)
  <2> HIDE DEF R
  <2> QED
    BY <1>1, WFMin
<1>3. \A x, y \in Nat : x < y => <<x, y>> \in R
  OBVIOUS
<1>4. \A x \in S : m <= x
  <2> SUFFICES ASSUME NEW x \in S
               PROVE  ~ (x < m)
    OBVIOUS
  <2> HIDE DEF R
  <2> QED
    BY <1>2, <1>3
<1> QED
  BY <1>4

(* Every bounded one also has a greatest.                                  *)
LEMMA BoundedMaximum ==
  ASSUME NEW S \in SUBSET Nat, S # {},
         NEW b \in Nat, \A s \in S : s <= b
  PROVE  \E m \in S : \A s \in S : s <= m
<1> DEFINE U == {u \in Nat : \A s \in S : s <= u}
<1>1. PICK m \in U : \A u \in U : m <= u
  <2>1. b \in U
    OBVIOUS
  <2> QED
    BY <2>1, NatMinimum
<1>2. CASE m \in S
  BY <1>2
<1>3. CASE m \notin S
  <2>1. \A s \in S : s <= m - 1
    BY <1>3
  <2>2. PICK s \in S : TRUE
    OBVIOUS
  <2>3. m - 1 \in Nat
    BY <2>1, <2>2
  <2>4. m - 1 \in U
    BY <2>1, <2>3
  <2> QED
    BY <1>1, <2>4
<1> QED
  BY <1>2, <1>3

(* A number below l*d falls into one of the first l blocks of d numbers.   *)
LEMMA BlockOf ==
  ASSUME NEW l \in Nat, NEW d \in Nat \ {0}, NEW x \in Nat, x < l * d
  PROVE  (x \div d) + 1 \in 1..l
<1> DEFINE q == x \div d
<1>1. q \in Int /\ q * d <= x
  OBVIOUS
<1>2. q >= 0
  OBVIOUS
<1>3. q < l
  <2> SUFFICES ASSUME l <= q
               PROVE  FALSE
    BY <1>1
  <2>1. l * d <= q * d
    BY <1>1
  <2> QED
    BY <1>1, <2>1
<1> QED
  BY <1>1, <1>2, <1>3

(* The pairs of a ring are pairs of its accounts.                          *)
LEMMA PairsType ==
  ASSUME NEW A, NEW ring \in Seq(A)
  PROVE  DialoguePairs(ring) \in Seq(A \X A)
<1>1. CASE Len(ring) < 2
  BY <1>1, EmptySeq DEF DialoguePairs
<1>2. CASE Len(ring) = 2
  BY <1>2 DEF DialoguePairs
<1>3. CASE Len(ring) > 2
  <2> DEFINE n == Len(ring)
             pairs == [i \in 1..n |-> <<ring[i], ring[(i % n) + 1]>>]
  <2>1. DialoguePairs(ring) = pairs
    BY <1>3 DEF DialoguePairs
  <2>2. \A i \in 1..n : (i % n) + 1 \in 1..n
    BY <1>3
  <2>3. \A i \in 1..n : <<ring[i], ring[(i % n) + 1]>> \in A \X A
    <3>1. \A j \in 1..n : ring[j] \in A
      BY ElementOfSeq
    <3> HIDE DEF n
    <3> QED
      BY <2>2, <3>1
  <2>4. pairs \in [1..n -> A \X A]
    BY <2>3
  <2> QED
    BY <2>1, <2>4, SeqDef
<1>4. Len(ring) \in Nat
  BY LenProperties
<1>5. \A n \in Nat : n < 2 \/ n = 2 \/ n > 2
  OBVIOUS
<1> QED
  BY <1>1, <1>2, <1>3, <1>4, <1>5, Zenon

(* Every message of a day joins two accounts of the ring.                  *)
LEMMA MessageType ==
  ASSUME NEW A, NEW ring \in Seq(A)
  PROVE  /\ MessageCount(ring) \in Nat
         /\ \A k \in 1..MessageCount(ring) :
              Message(ring, k).snd \in A /\ Message(ring, k).rcv \in A
<1> DEFINE pairs == DialoguePairs(ring)
           l == Len(pairs)
           d == 2 * CyclesPerPair
<1>1. pairs \in Seq(A \X A) /\ l \in Nat
  BY PairsType
<1>2. d \in Nat \ {0}
  BY RingsAssumption
<1>3. MessageCount(ring) = l * d
  BY <1>1, RingsAssumption DEF MessageCount
<1>4. l * d \in Nat
  BY <1>1, <1>2
<1>5. ASSUME NEW k \in 1..MessageCount(ring)
      PROVE  Message(ring, k).snd \in A /\ Message(ring, k).rcv \in A
  <2>1. k - 1 \in Nat /\ k - 1 < l * d
    BY <1>3, <1>4
  <2>2. ((k - 1) \div d) + 1 \in 1..l
    BY <1>1, <1>2, <2>1, BlockOf
  <2> DEFINE i == ((k - 1) \div d) + 1
  <2>3. pairs[i] \in A \X A
    BY <1>1, <2>2, ElementOfSeq
  <2>4. \/ Message(ring, k) = [snd |-> pairs[i][1], rcv |-> pairs[i][2]]
        \/ Message(ring, k) = [snd |-> pairs[i][2], rcv |-> pairs[i][1]]
    BY DEF Message
  <2> HIDE DEF i
  <2> QED
    BY <2>3, <2>4
<1> QED
  BY <1>3, <1>4, <1>5

(* The messages of a schedule have times.                                  *)
LEMMA ScheduleType ==
  ASSUME NEW startAt \in Nat, NEW n \in Nat, NEW at \in Schedules(startAt, n)
  PROVE  at \in [1..n -> Nat]
<1> DEFINE top == (n - 1) * (MaxGap - MinGap)
<1>1. PICK s \in [1..n -> 0..top] :
        at = [k \in 1..n |-> startAt + (k - 1) * MinGap + s[k]]
  BY DEF Schedules
<1>2. \A k \in 1..n : (k - 1) * MinGap \in Nat
  BY RingsAssumption
<1>3. \A k \in 1..n : s[k] \in Nat
  <2> HIDE DEF top
  <2>1. top \in Int
    BY RingsAssumption DEF top
  <2> QED
    BY <2>1
<1>4. \A k \in 1..n : startAt + (k - 1) * MinGap + s[k] \in Nat
  BY <1>2, <1>3
<1> QED
  BY <1>1, <1>4

(* Each pause before message k takes between MinGap and MaxGap.            *)
LEMMA ScheduleBounds ==
  ASSUME NEW startAt \in Nat, NEW n \in Nat, NEW at \in Schedules(startAt, n)
  PROVE  \A k \in 1..n : /\ at[k] >= startAt + (k - 1) * MinGap
                         /\ at[k] <= startAt + (k - 1) * MaxGap
                         /\ at[k] >= startAt
<1> DEFINE spread == MaxGap - MinGap
           top == (n - 1) * spread
<1>1. PICK s \in [1..n -> 0..top] :
        /\ n > 0 => s[1] = 0
        /\ \A k \in 1..n : \A j \in 1..(k - 1) :
             s[j] <= s[k] /\ s[k] - s[j] <= (k - j) * spread
        /\ at = [k \in 1..n |-> startAt + (k - 1) * MinGap + s[k]]
  BY DEF Schedules
<1>2. top \in Int
  BY RingsAssumption
<1> SUFFICES ASSUME NEW k \in 1..n
             PROVE  /\ at[k] >= startAt + (k - 1) * MinGap
                    /\ at[k] <= startAt + (k - 1) * MaxGap
                    /\ at[k] >= startAt
  OBVIOUS
<1>3. s[k] \in Int /\ s[k] >= 0
  <2> HIDE DEF top
  <2> QED
    BY <1>2
<1>4. s[k] <= (k - 1) * spread
  <2>1. CASE k = 1
    <3>1. s[k] = 0 /\ (k - 1) * spread = 0
      BY <1>1, <2>1, RingsAssumption
    <3> QED
      BY <3>1
  <2>2. CASE k > 1
    <3>1. 1 \in 1..(k - 1) /\ n > 0
      BY <2>2
    <3>2. s[k] - s[1] <= (k - 1) * spread /\ s[1] = 0
      BY <1>1, <3>1
    <3> QED
      BY <1>3, <3>2, RingsAssumption
  <2> QED
    BY <2>1, <2>2
<1>5. at[k] = startAt + (k - 1) * MinGap + s[k]
  BY <1>1
<1>6. (k - 1) * MinGap >= 0 /\ (k - 1) * MinGap + (k - 1) * spread = (k - 1) * MaxGap
  BY RingsAssumption
<1>7. (k - 1) * MinGap \in Int /\ (k - 1) * spread \in Int
  BY RingsAssumption
<1> QED
  BY <1>3, <1>4, <1>5, <1>6, <1>7

(* Days come one after the other.                                          *)
LEMMA DaysInOrder ==
  ASSUME NEW s \in Nat, NEW t \in Nat, s <= t
  PROVE  Day(s) \in Nat /\ Day(t) \in Nat /\ Day(s) <= Day(t)
<1>1. /\ Day(s) \in Nat /\ Day(s) * DayLength <= s
      /\ Day(t) \in Nat /\ t < (Day(t) + 1) * DayLength
  BY RingsAssumption DEF Day
<1>2. SUFFICES ASSUME Day(t) + 1 <= Day(s) PROVE FALSE
  BY <1>1
<1>3. (Day(t) + 1) * DayLength <= Day(s) * DayLength
  BY <1>1, <1>2, RingsAssumption
<1> QED
  BY <1>1, <1>3, RingsAssumption

(* A rebuilt ring never starts before the window of its day opens.         *)
LEMMA RebuildStartInDay ==
  ASSUME NEW d \in Nat, NEW now \in Nat
  PROVE  RebuildStart(d, now) >= DayStart(d)
<1>1. d * DayLength \in Nat /\ DayStart(d) = d * DayLength + WindowStart
  BY RingsAssumption DEF DayStart
<1>2. Day(now) \in Nat /\ Day(now) * DayLength <= now
  BY RingsAssumption DEF Day
<1>3. CASE d < Day(now)
  <2>1. (d + 1) * DayLength <= Day(now) * DayLength
    BY <1>2, <1>3, RingsAssumption
  <2>2. (d + 1) * DayLength = d * DayLength + DayLength
    BY RingsAssumption
  <2>3. now + 1 >= DayStart(d)
    BY <1>1, <1>2, <2>1, <2>2, RingsAssumption
  <2> QED
    BY <1>1, <1>2, <1>3, <2>3, RingsAssumption DEF RebuildStart
<1>4. CASE d >= Day(now)
  <2>1. d = Day(now) \/ d > Day(now)
    BY <1>2, <1>4
  <2> QED
    BY <1>1, <2>1, RingsAssumption DEF RebuildStart
<1> QED
  BY <1>2, <1>3, <1>4

(* A row that is inserted: pending and unsent.                             *)
NewRow(A, base) ==
  [snd : A, rcv : A, at : Nat, status : {"pending"}, sends : {0}, base : {base},
   moved : {FALSE}]

(* The rows of a day: their keys, and rows that are pending and unsent.    *)
LEMMA DayRowsType ==
  ASSUME NEW A, NEW ring \in Seq(A), NEW C, NEW c \in C, NEW d \in Nat,
         NEW start \in Nat, NEW base \in Nat,
         NEW at \in Schedules(start, MessageCount(ring)),
         NEW m \in 0..MessageCount(ring)
  PROVE  LET rows == DayRows(ring, c, d, base, at, m)
         IN  \A k \in DOMAIN rows :
               /\ k \in C \X Nat \X Nat
               /\ k[3] <= base + m
               /\ rows[k] \in NewRow(A, base)
<1> DEFINE n == MessageCount(ring)
           rows == DayRows(ring, c, d, base, at, m)
<1>1. n \in Nat /\ at \in [1..n -> Nat]
  BY MessageType, ScheduleType
<1>2. SUFFICES ASSUME NEW i \in 1..m
               PROVE  LET k == <<c, d, base + i>>
                      IN  /\ k \in C \X Nat \X Nat
                          /\ k[3] <= base + m
                          /\ rows[k] \in NewRow(A, base)
  BY DEF DayRows
<1> DEFINE k == <<c, d, base + i>>
<1>3. k[3] - base = i /\ i \in 1..n
  BY <1>1
<1>4. rows[k] = [snd |-> Message(ring, i).snd, rcv |-> Message(ring, i).rcv,
                 at |-> at[i], status |-> "pending",
                 sends |-> 0, base |-> base, moved |-> FALSE]
  BY <1>3 DEF DayRows
<1>5. Message(ring, i).snd \in A /\ Message(ring, i).rcv \in A
  BY <1>3, MessageType
<1>6. k \in C \X Nat \X Nat /\ k[3] <= base + m
  BY <1>1
<1>7. at[i] \in Nat
  BY <1>1, <1>3
<1> HIDE DEF k, rows, n
<1> QED
  BY <1>4, <1>5, <1>6, <1>7 DEF k, NewRow

(* A start that is accepted on one day is accepted on every day at the     *)
(* same hour: here, at the opening of the window.                          *)
LEMMA OpeningOfAnyDay ==
  ASSUME NEW d \in Nat, NEW e \in Nat, NEW n \in Nat, StartAllowed(DayStart(e), n)
  PROVE  StartAllowed(DayStart(d), n) /\ Day(DayStart(d)) = d
<1>1. ASSUME NEW f \in Nat
      PROVE  /\ f * DayLength \in Nat /\ DayStart(f) = f * DayLength + WindowStart
             /\ Day(DayStart(f)) = f
             /\ DayEnd(f) = f * DayLength + WindowEnd
  BY RingsAssumption DEF Day, DayStart, DayEnd
<1>2. (n - 1) * MaxGap \in Int
  BY RingsAssumption
<1>3. e * DayLength + WindowStart <= e * DayLength + WindowEnd - (n - 1) * MaxGap
  <2>1. Day(DayStart(e)) = e
    BY <1>1
  <2>2. DayStart(e) <= DayEnd(e) - (n - 1) * MaxGap
    BY <2>1, Zenon DEF StartAllowed
  <2>3. /\ DayStart(e) = e * DayLength + WindowStart
        /\ DayEnd(e) = e * DayLength + WindowEnd
    BY <1>1
  <2> QED
    BY <1>1, <1>2, <2>2, <2>3, RingsAssumption
<1>4. WindowStart <= WindowEnd - (n - 1) * MaxGap
  BY <1>1, <1>2, <1>3, RingsAssumption
<1> QED
  BY <1>1, <1>2, <1>4, RingsAssumption DEF StartAllowed

(* The window of an accepted start loses at most the last message.         *)
LEMMA AcceptedDayKeeps ==
  ASSUME NEW start \in Nat, NEW n \in Nat, StartAllowed(start, n),
         NEW at \in Schedules(start, n), NEW m \in 0..n,
         KeptInWindow(at, n, Day(start), m)
  PROVE  m >= n - 1
<1> DEFINE d == Day(start)
           l == n - 1
<1>1. SUFFICES ASSUME m < l PROVE FALSE
  OBVIOUS
<1>2. l \in 1..n /\ l \in Nat
  BY <1>1
<1>3. at[l] \in Nat /\ at[l] <= start + (l - 1) * MaxGap
  BY <1>2, ScheduleType, ScheduleBounds
<1>4. ~(at[l] < DayEnd(d))
  BY <1>1, <1>2 DEF KeptInWindow
<1>5. DayEnd(d) \in Int
  BY RingsAssumption DEF Day, DayEnd
<1>6. start + l * MaxGap <= DayEnd(d)
  <2>1. l * MaxGap \in Int
    BY <1>2, RingsAssumption
  <2> QED
    BY <1>5, <2>1 DEF StartAllowed
<1>7. l * MaxGap = (l - 1) * MaxGap + MaxGap /\ (l - 1) * MaxGap \in Int /\ MaxGap > 0
  BY <1>2, RingsAssumption
<1> QED
  BY <1>3, <1>4, <1>5, <1>6, <1>7, RingsAssumption

(* So many messages, so many keys.                                         *)
LEMMA StepsCounted ==
  ASSUME NEW c, NEW d, NEW m \in Nat, NEW keys,
         \A k : k \in keys <=> \E i \in 1..m : k = <<c, d, i>>
  PROVE  IsFiniteSet(keys) /\ Cardinality(keys) = m
<1> DEFINE f == [i \in 1..m |-> <<c, d, i>>]
<1>1. f \in [1..m -> keys]
  OBVIOUS
<1>2. ASSUME NEW i \in 1..m, NEW j \in 1..m, f[i] = f[j]
      PROVE  i = j
  BY <1>2
<1>3. \A k \in keys : \E i \in 1..m : f[i] = k
  OBVIOUS
<1> HIDE DEF f
<1>4. f \in Bijection(1..m, keys)
  BY <1>1, <1>2, <1>3 DEF Bijection, Injection, Surjection, IsInjective
<1>5. IsFiniteSet(1..m) /\ Cardinality(1..m) = m
  BY FS_Interval
<1> QED
  BY <1>4, <1>5, FS_Bijection DEF ExistsBijection

------------------------------------------------------------------------------
(* Tables. A is a set of accounts; a table of A is a function to Row(A).   *)

IsTable(jobs, A) == jobs \in [DOMAIN jobs -> Row(A)]

(* A change of status changes nothing else.                                *)
LEMMA SetStatusFacts ==
  ASSUME NEW A, NEW jobs, IsTable(jobs, A), NEW keys, NEW s \in JobStatus
  PROVE  LET j == SetStatus(jobs, keys, s)
         IN  /\ DOMAIN j = DOMAIN jobs
             /\ IsTable(j, A)
             /\ \A k \in DOMAIN jobs :
                  /\ j[k].sends = jobs[k].sends
                  /\ j[k].status = IF k \in keys THEN s ELSE jobs[k].status
<1> DEFINE j == SetStatus(jobs, keys, s)
<1>1. DOMAIN j = DOMAIN jobs
  BY DEF SetStatus
<1>2. ASSUME NEW k \in DOMAIN jobs
      PROVE  /\ j[k] \in Row(A)
             /\ j[k].sends = jobs[k].sends
             /\ j[k].status = IF k \in keys THEN s ELSE jobs[k].status
  <2>1. jobs[k] \in Row(A)
    BY DEF IsTable
  <2>2. CASE k \in keys
    <3>1. j[k] = [jobs[k] EXCEPT !.status = s]
      BY <2>2 DEF SetStatus
    <3> HIDE DEF j
    <3> QED
      BY <2>1, <2>2, <3>1 DEF Row
  <2>3. CASE k \notin keys
    <3>1. j[k] = jobs[k]
      BY <2>3 DEF SetStatus
    <3> HIDE DEF j
    <3> QED
      BY <2>1, <2>3, <3>1
  <2> QED
    BY <2>2, <2>3
<1>3. IsTable(j, A)
  BY <1>1, <1>2 DEF IsTable, SetStatus
<1> QED
  BY <1>1, <1>2, <1>3

(* A cancellation touches open jobs only and cancels them.                 *)
LEMMA CancelFacts ==
  ASSUME NEW A, NEW jobs, IsTable(jobs, A), NEW keys
  PROVE  LET j == Cancel(jobs, keys)
         IN  /\ DOMAIN j = DOMAIN jobs
             /\ IsTable(j, A)
             /\ \A k \in DOMAIN jobs :
                  /\ j[k].sends = jobs[k].sends
                  /\ \/ j[k].status = jobs[k].status
                     \/ jobs[k].status \in OpenStatus /\ j[k].status = "cancelled"
<1>1. "cancelled" \in JobStatus
  BY DEF JobStatus
<1>2. \A k \in DOMAIN jobs : k \in keys \intersect OpenJobs(jobs) =>
        jobs[k].status \in OpenStatus
  BY DEF OpenJobs
<1> QED
  BY <1>1, <1>2, SetStatusFacts DEF Cancel

(* A reschedule makes one job pending and moves it.                        *)
LEMMA RescheduleFacts ==
  ASSUME NEW A, NEW jobs, IsTable(jobs, A), NEW k \in DOMAIN jobs, NEW until \in Nat
  PROVE  LET j == Reschedule(jobs, k, until)
         IN  /\ DOMAIN j = DOMAIN jobs
             /\ IsTable(j, A)
             /\ j[k].status = "pending" /\ j[k].sends = jobs[k].sends
             /\ \A l \in DOMAIN jobs \ {k} : j[l] = jobs[l]
<1> DEFINE j == Reschedule(jobs, k, until)
           row == [jobs[k] EXCEPT !.status = "pending", !.at = until, !.moved = TRUE]
<1>1. j = [jobs EXCEPT ![k] = row]
  BY DEF Reschedule, IsTable
<1>2. jobs[k] \in Row(A)
  BY DEF IsTable
<1>3. row \in Row(A) /\ row.status = "pending" /\ row.sends = jobs[k].sends
  BY <1>2 DEF Row, JobStatus, OpenStatus
<1> HIDE DEF j, row
<1> QED
  BY <1>1, <1>3 DEF IsTable, j

(* A claim is a sequence of different pending jobs.                        *)
LEMMA DueOrdersFacts ==
  ASSUME NEW A, NEW jobs, IsTable(jobs, A), NEW now \in Nat, NEW limit \in Nat,
         NEW s \in DueOrders(jobs, now, limit)
  PROVE  /\ s \in Seq(DOMAIN jobs)
         /\ \A i \in DOMAIN s : jobs[s[i]].status = "pending"
         /\ \A i, j \in DOMAIN s : i # j => s[i] # s[j]
<1>1. PICK n \in 0..limit : s \in [1..n -> Due(jobs, now)]
  BY DEF DueOrders
<1>2. \A k \in Due(jobs, now) : k \in DOMAIN jobs /\ jobs[k].status = "pending"
  BY DEF Due
<1>3. \A i, j \in DOMAIN s : i < j => s[i] # s[j]
  BY DEF DueOrders
<1>4. n \in Nat /\ s \in [1..n -> DOMAIN jobs]
  BY <1>1, <1>2
<1>5. s \in Seq(DOMAIN jobs)
  BY <1>4
<1>6. \A i, j \in DOMAIN s : i < j \/ j < i \/ i = j
  BY <1>4
<1> QED
  BY <1>1, <1>2, <1>3, <1>5, <1>6

==============================================================================
