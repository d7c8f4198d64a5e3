--------------------------- MODULE GroupRingProofs ---------------------------
(***************************************************************************)
(* Theorems about one warm-up group, for every number of accounts, every   *)
(* window and every bound of the pauses:                                   *)
(*                                                                         *)
(*   DialogueIsBalanced  everybody writes as often as he is written to;    *)
(*   AcceptedStartsFit   an accepted start loses at most one message a day; *)
(*   GapsAreBridged      a drop leaves one gap, which one pair bridges.    *)
(*                                                                         *)
(* The last needs that the order read back from the rows is the ring: that *)
(* order is strict, so a set of accounts has one enumeration in it, and    *)
(* the ring, which keeps that order when an account is taken out, is one.  *)
(***************************************************************************)
EXTENDS GroupRing, RingsProofs

(* The pairs of a ring of n, and the messages of a pair: an even number.   *)

PairCount(n) == IF n < 2 THEN 0 ELSE IF n = 2 THEN 1 ELSE n
Turns == 2 * CyclesPerPair
After(n, i) == IF i = n THEN 1 ELSE i + 1

Distinct(s) == \A i, j \in DOMAIN s : s[i] = s[j] => i = j

LEMMA PairCounts ==
  ASSUME NEW n \in Nat
  PROVE  /\ PairCount(n) \in Nat
         /\ n < 2 => PairCount(n) = 0
         /\ n = 2 => PairCount(n) = 1
         /\ n > 2 => PairCount(n) = n
  BY DEF PairCount

LEMMA NextPlace ==
  ASSUME NEW n \in Nat \ {0}, NEW i \in 1..n
  PROVE  (i % n) + 1 = After(n, i) /\ After(n, i) \in 1..n
<1>1. CASE i = n
  <2>1. n % n = 0
    OBVIOUS
  <2>. QED BY <1>1, <2>1 DEF After
<1>2. CASE i < n
  <2>1. i % n = i
    BY <1>2
  <2>. QED BY <1>2, <2>1 DEF After
<1>. QED BY <1>1, <1>2

LEMMA PairsOf ==
  ASSUME NEW A, NEW s \in Seq(A)
  PROVE  /\ Len(s) \in Nat /\ DOMAIN s = 1..Len(s)
         /\ Len(DialoguePairs(s)) = PairCount(Len(s))
         /\ DOMAIN DialoguePairs(s) = 1..PairCount(Len(s))
         /\ MessageCount(s) = PairCount(Len(s)) * Turns
         /\ Len(s) = 2 => DialoguePairs(s)[1] = <<s[1], s[2]>>
         /\ Len(s) > 2 => \A i \in 1..Len(s) :
                            DialoguePairs(s)[i] = <<s[i], s[After(Len(s), i)]>>
<1>. DEFINE n == Len(s)
<1>1. n \in Nat /\ DOMAIN s = 1..n
  OBVIOUS
<1>2. ASSUME n < 2
      PROVE  Len(DialoguePairs(s)) = 0 /\ DOMAIN DialoguePairs(s) = 1..0
  BY <1>2 DEF DialoguePairs
<1>3. ASSUME n = 2
      PROVE  /\ DialoguePairs(s)[1] = <<s[1], s[2]>>
             /\ Len(DialoguePairs(s)) = 1 /\ DOMAIN DialoguePairs(s) = 1..1
  BY <1>3 DEF DialoguePairs
<1>4. ASSUME n > 2
      PROVE  /\ \A i \in 1..n : DialoguePairs(s)[i] = <<s[i], s[After(n, i)]>>
             /\ Len(DialoguePairs(s)) = n /\ DOMAIN DialoguePairs(s) = 1..n
  <2>. DEFINE pairs == [i \in 1..n |-> <<s[i], s[(i % n) + 1]>>]
  <2>1. DialoguePairs(s) = pairs
    BY <1>4 DEF DialoguePairs
  <2>2. \A i \in 1..n : (i % n) + 1 = After(n, i)
    BY <1>1, <1>4, NextPlace
  <2>3. Len(pairs) = n /\ DOMAIN pairs = 1..n
    BY <1>1
  <2>. HIDE DEF n
  <2>. QED BY <2>1, <2>2, <2>3
<1>5. Len(DialoguePairs(s)) = PairCount(n) /\ DOMAIN DialoguePairs(s) = 1..PairCount(n)
  <2>. DEFINE l == Len(DialoguePairs(s))
              d == DOMAIN DialoguePairs(s)
  <2>1. (n < 2 => l = 0 /\ d = 1..0) /\ (n = 2 => l = 1 /\ d = 1..1) /\ (n > 2 => l = n /\ d = 1..n)
    BY <1>2, <1>3, <1>4
  <2>. HIDE DEF l, d, n
  <2>2. n < 2 \/ n = 2 \/ n > 2
    BY <1>1
  <2>3. l = PairCount(n) /\ d = 1..PairCount(n)
    BY <1>1, <2>1, <2>2 DEF PairCount
  <2>. QED BY <2>3 DEF l, d
<1>6. MessageCount(s) = PairCount(n) * Turns
  <2>. DEFINE p == PairCount(n)
  <2>1. p \in Nat
    BY <1>1 DEF PairCount
  <2>2. MessageCount(s) = p * CyclesPerPair * 2
    BY <1>5 DEF MessageCount
  <2>. HIDE DEF p
  <2>3. p * CyclesPerPair * 2 = p * (2 * CyclesPerPair)
    BY <2>1, RingsAssumption
  <2>. QED BY <2>2, <2>3 DEF p, Turns
<1>. QED BY <1>1, <1>3, <1>4, <1>5, <1>6

(* Shorter rings have fewer messages.                                      *)
LEMMA FewerMessages ==
  ASSUME NEW A, NEW B, NEW s \in Seq(A), NEW r \in Seq(B), Len(r) <= Len(s)
  PROVE  MessageCount(r) <= MessageCount(s)
<1>1. PairCount(Len(r)) \in Nat /\ PairCount(Len(s)) \in Nat /\ PairCount(Len(r)) <= PairCount(Len(s))
  BY PairsOf DEF PairCount
<1>2. \A p, q \in Nat : p <= q => p * Turns <= q * Turns
  BY RingsAssumption DEF Turns
<1>. QED BY <1>1, <1>2, PairsOf

------------------------------------------------------------------------------
(* The messages of a pair follow each other; Other(k) is the message that  *)
(* answers message k, or that it answers.                                  *)

Place(k) == ((k - 1) \div Turns) + 1
Other(k) == IF k % 2 = 1 THEN k + 1 ELSE k - 1

LEMMA PlaceOfMessage ==
  ASSUME NEW k \in Nat \ {0}
  PROVE  /\ Place(k) \in Nat \ {0}
         /\ (Place(k) - 1) * Turns < k /\ k <= Place(k) * Turns
         /\ \A p \in Nat \ {0} : (p - 1) * Turns < k /\ k <= p * Turns => p = Place(k)
<1>. DEFINE t == Turns
            q == (k - 1) \div t
<1>1. t \in Nat \ {0}
  BY RingsAssumption DEF Turns
<1>. HIDE DEF t
<1>2. q \in Int /\ q * t <= k - 1 /\ k - 1 < (q + 1) * t
  BY <1>1
<1>3. q >= 0
  BY <1>1
<1>4. ASSUME NEW p \in Nat \ {0}, (p - 1) * t < k, k <= p * t
      PROVE  p = q + 1
  <2>. HIDE DEF q
  <2>1. CASE p <= q
    <3>1. p * t <= q * t
      BY <1>1, <1>2, <2>1
    <3>2. p * t \in Int /\ q * t \in Int
      BY <1>1, <1>2
    <3>. QED BY <1>2, <1>4, <3>1, <3>2
  <2>2. CASE p >= q + 2
    <3>1. (q + 1) * t <= (p - 1) * t
      BY <1>1, <1>2, <2>2
    <3>2. (q + 1) * t \in Int /\ (p - 1) * t \in Int
      BY <1>1, <1>2
    <3>. QED BY <1>2, <1>4, <3>1, <3>2
  <2>. QED BY <1>2, <2>1, <2>2
<1>5. Place(k) = q + 1
  BY DEF Place, t
<1>. HIDE DEF q
<1>6. (q + 1) - 1 = q /\ q + 1 \in Nat \ {0}
  BY <1>2, <1>3
<1>7. k <= (q + 1) * t /\ q * t < k
  <2>1. (q + 1) * t \in Int /\ q * t \in Int
    BY <1>1, <1>2
  <2>. QED BY <1>2, <2>1
<1>. QED BY <1>4, <1>5, <1>6, <1>7 DEF t

LEMMA OtherOfPair ==
  ASSUME NEW k \in Nat \ {0}, NEW n \in Nat, k <= n * Turns
  PROVE  /\ Other(k) \in 1..(n * Turns) /\ Other(k) # k
         /\ Place(Other(k)) = Place(k)
         /\ Other(k) % 2 = 1 <=> k % 2 # 1
         /\ Other(Other(k)) = k
<1>. DEFINE p == Place(k)
            low == (p - 1) * CyclesPerPair
            high == p * CyclesPerPair
            top == n * CyclesPerPair
<1>1. p \in Nat \ {0} /\ (p - 1) * Turns < k /\ k <= p * Turns
  BY PlaceOfMessage
<1>. HIDE DEF p
<1>2. low \in Nat /\ high \in Nat /\ top \in Nat
  BY <1>1, RingsAssumption
<1>3. (p - 1) * Turns = 2 * low /\ p * Turns = 2 * high /\ n * Turns = 2 * top
  BY <1>1, RingsAssumption DEF Turns
<1>. HIDE DEF low, high, top
<1>4. 2 * low < k /\ k <= 2 * high /\ k <= 2 * top
  BY <1>1, <1>3
<1>5. CASE k % 2 = 1
  <2>1. Other(k) = k + 1 /\ k + 1 <= 2 * high /\ k + 1 <= 2 * top /\ (k + 1) % 2 = 0
    BY <1>2, <1>4, <1>5 DEF Other
  <2>2. k + 1 \in Nat \ {0} /\ (p - 1) * Turns < k + 1 /\ k + 1 <= p * Turns
    BY <1>2, <1>3, <1>4, <2>1
  <2>3. Place(k + 1) = p
    BY <1>1, <2>2, PlaceOfMessage
  <2>4. Other(k + 1) = k
    BY <2>1 DEF Other
  <2>. QED BY <1>2, <1>3, <1>5, <2>1, <2>3, <2>4 DEF p
<1>6. CASE k % 2 # 1
  <2>1. Other(k) = k - 1 /\ 2 * low < k - 1 /\ (k - 1) % 2 = 1 /\ k - 1 >= 1
    BY <1>2, <1>4, <1>6 DEF Other
  <2>2. k - 1 \in Nat \ {0} /\ (p - 1) * Turns < k - 1 /\ k - 1 <= p * Turns
    BY <1>2, <1>3, <1>4, <2>1
  <2>3. Place(k - 1) = p
    BY <1>1, <2>2, PlaceOfMessage
  <2>4. Other(k - 1) = k
    BY <2>1 DEF Other
  <2>. QED BY <1>2, <1>3, <1>4, <1>6, <2>1, <2>3, <2>4 DEF p
<1>. QED BY <1>5, <1>6

LEMMA MessageOf ==
  ASSUME NEW A, NEW s \in Seq(A), NEW k \in 1..MessageCount(s)
  PROVE  LET pair == DialoguePairs(s)[Place(k)]
         IN  /\ k \in Nat \ {0} /\ k <= PairCount(Len(s)) * Turns
             /\ Place(k) \in 1..PairCount(Len(s))
             /\ k % 2 = 1 => Message(s, k) = [snd |-> pair[1], rcv |-> pair[2]]
             /\ k % 2 # 1 => Message(s, k) = [snd |-> pair[2], rcv |-> pair[1]]
<1>. DEFINE l == PairCount(Len(s))
<1>1. l \in Nat /\ MessageCount(s) = l * Turns
  BY PairsOf DEF PairCount
<1>2. Turns \in Nat \ {0}
  BY RingsAssumption DEF Turns
<1>. HIDE DEF l
<1>3. l * Turns \in Nat
  BY <1>1, <1>2
<1>4. k \in Nat \ {0} /\ k <= l * Turns
  BY <1>1, <1>3
<1>5. k - 1 \in Nat /\ k - 1 < l * Turns
  BY <1>3, <1>4
<1>6. Place(k) \in 1..l
  BY <1>1, <1>2, <1>5, BlockOf DEF Place
<1>. QED BY <1>4, <1>6 DEF Message, Place, Turns, l

------------------------------------------------------------------------------
(* A balanced dialogue.                                                    *)

(* To answer is to swap sender and receiver.                               *)
LEMMA AnswersSwap ==
  ASSUME NEW A, NEW s \in Seq(A), NEW k \in 1..MessageCount(s)
  PROVE  /\ Other(k) \in 1..MessageCount(s)
         /\ Message(s, Other(k)).snd = Message(s, k).rcv
         /\ Message(s, Other(k)).rcv = Message(s, k).snd
         /\ Other(Other(k)) = k
<1>. DEFINE l == PairCount(Len(s))
            j == Other(k)
            pair == DialoguePairs(s)[Place(k)]
<1>1. l \in Nat /\ MessageCount(s) = l * Turns
  BY PairsOf DEF PairCount
<1>2. k \in Nat \ {0} /\ k <= l * Turns
  BY MessageOf
<1>. HIDE DEF l
<1>3. /\ j \in 1..MessageCount(s) /\ Place(j) = Place(k) /\ Other(j) = k
      /\ j % 2 = 1 <=> k % 2 # 1
  BY <1>1, <1>2, OtherOfPair
<1>. HIDE DEF j
<1>4. /\ k % 2 = 1 => Message(s, k) = [snd |-> pair[1], rcv |-> pair[2]]
      /\ k % 2 # 1 => Message(s, k) = [snd |-> pair[2], rcv |-> pair[1]]
  BY MessageOf
<1>5. /\ j % 2 = 1 => Message(s, j) = [snd |-> pair[1], rcv |-> pair[2]]
      /\ j % 2 # 1 => Message(s, j) = [snd |-> pair[2], rcv |-> pair[1]]
  BY <1>3, MessageOf
<1>. HIDE DEF pair
<1>6. Message(s, j).snd = Message(s, k).rcv /\ Message(s, j).rcv = Message(s, k).snd
  <2>1. CASE k % 2 = 1
    BY <1>3, <1>4, <1>5, <2>1
  <2>2. CASE k % 2 # 1
    BY <1>3, <1>4, <1>5, <2>2
  <2>. QED BY <2>1, <2>2
<1>. QED BY <1>3, <1>6 DEF j

LEMMA AsManyAnswers ==
  ASSUME NEW A, NEW s \in Seq(A), NEW a
  PROVE  Cardinality({k \in 1..MessageCount(s) : Message(s, k).snd = a})
           = Cardinality({k \in 1..MessageCount(s) : Message(s, k).rcv = a})
<1>. DEFINE n == MessageCount(s)
            Sent == {k \in 1..n : Message(s, k).snd = a}
            Received == {k \in 1..n : Message(s, k).rcv = a}
            f == [k \in Sent |-> Other(k)]
<1>1. n \in Nat
  BY MessageType
<1>2. \A k \in 1..n : /\ Other(k) \in 1..n /\ Other(Other(k)) = k
                      /\ Message(s, Other(k)).snd = Message(s, k).rcv
                      /\ Message(s, Other(k)).rcv = Message(s, k).snd
  BY AnswersSwap
<1>. HIDE DEF n
<1>3. f \in [Sent -> Received] /\ \A k \in Sent : f[k] = Other(k)
  BY <1>2
<1>4. \A k, j \in Sent : f[k] = f[j] => k = j
  BY <1>2, <1>3
<1>5. \A k \in Received : Other(k) \in Sent /\ f[Other(k)] = k
  BY <1>2, <1>3
<1>6. IsFiniteSet(Sent)
  <2>1. IsFiniteSet(1..n)
    BY <1>1, FS_Interval
  <2>. QED BY <2>1, FS_Subset
<1>. HIDE DEF Sent, Received, f
<1>7. f \in Bijection(Sent, Received)
  BY <1>3, <1>4, <1>5 DEF Bijection, Injection, Surjection, IsInjective
<1>8. Cardinality(Received) = Cardinality(Sent)
  BY <1>6, <1>7, FS_Bijection DEF ExistsBijection
<1>. QED BY <1>8 DEF Sent, Received, n

(* The message that opens a pair, and the one that follows.                *)
LEMMA PairOpens ==
  ASSUME NEW A, NEW s \in Seq(A), NEW p \in 1..PairCount(Len(s))
  PROVE  LET k == (p - 1) * Turns + 1
         IN  /\ k \in 1..MessageCount(s) /\ k + 1 \in 1..MessageCount(s)
             /\ Place(k) = p /\ Place(k + 1) = p
             /\ k % 2 = 1 /\ (k + 1) % 2 # 1
<1>. DEFINE l == PairCount(Len(s))
            low == (p - 1) * CyclesPerPair
            high == p * CyclesPerPair
            top == l * CyclesPerPair
<1>1. l \in Nat /\ MessageCount(s) = l * Turns
  BY PairsOf DEF PairCount
<1>2. p \in 1..l
  OBVIOUS
<1>. HIDE DEF l
<1>3. low \in Nat /\ high \in Nat /\ top \in Nat /\ high <= top /\ low + 1 <= high
  <2>1. high <= top
    BY <1>1, <1>2, RingsAssumption
  <2>2. high = low + CyclesPerPair
    BY <1>1, <1>2, RingsAssumption
  <2>3. low \in Nat /\ high \in Nat /\ top \in Nat
    BY <1>1, <1>2, RingsAssumption
  <2>. HIDE DEF low, high, top
  <2>. QED BY <2>1, <2>2, <2>3, RingsAssumption
<1>4. (p - 1) * Turns = 2 * low /\ p * Turns = 2 * high /\ l * Turns = 2 * top
  BY <1>1, <1>2, RingsAssumption DEF Turns
<1>. HIDE DEF low, high, top
<1>5. p \in Nat \ {0}
  BY <1>1, <1>2
<1>. DEFINE k == (p - 1) * Turns + 1
<1>6. k = 2 * low + 1 /\ k + 1 = 2 * low + 2
  BY <1>3, <1>4
<1>. HIDE DEF k
<1>7. k \in 1..(2 * top) /\ k + 1 \in 1..(2 * top) /\ k % 2 = 1 /\ (k + 1) % 2 # 1
  BY <1>3, <1>6
<1>8. 2 * low < k /\ k <= 2 * high /\ 2 * low < k + 1 /\ k + 1 <= 2 * high
      /\ k \in Nat \ {0} /\ k + 1 \in Nat \ {0}
  BY <1>3, <1>6
<1>9. Place(k) = p /\ Place(k + 1) = p
  BY <1>4, <1>5, <1>8, PlaceOfMessage
<1>. QED BY <1>1, <1>4, <1>7, <1>9 DEF k

LEMMA EveryoneOpens ==
  ASSUME NEW A, NEW s \in Seq(A), Len(s) >= 2, NEW i \in 1..Len(s)
  PROVE  \E k \in 1..MessageCount(s) : Message(s, k).snd = s[i]
<1>. DEFINE n == Len(s)
<1>1. n \in Nat
  OBVIOUS
<1>2. CASE n > 2
  <2>. DEFINE k == (i - 1) * Turns + 1
  <2>1. PairCount(n) = n
    BY <1>1, <1>2, PairCounts
  <2>2. k \in 1..MessageCount(s) /\ Place(k) = i /\ k % 2 = 1
    BY <2>1, PairOpens
  <2>. HIDE DEF k
  <2>3. Message(s, k) = [snd |-> DialoguePairs(s)[i][1], rcv |-> DialoguePairs(s)[i][2]]
    BY <2>2, MessageOf
  <2>4. DialoguePairs(s)[i] = <<s[i], s[After(n, i)]>>
    BY <1>2, PairsOf
  <2>5. Message(s, k).snd = s[i]
    BY <2>3, <2>4
  <2>. QED BY <2>2, <2>5
<1>3. CASE n = 2
  <2>1. PairCount(n) = 1 /\ DialoguePairs(s)[1] = <<s[1], s[2]>>
    BY <1>3, PairsOf DEF PairCount
  <2>2. /\ (1 - 1) * Turns + 1 = 1 /\ (1 - 1) * Turns + 1 + 1 = 2
    BY RingsAssumption DEF Turns
  <2>3. /\ 1 \in 1..MessageCount(s) /\ 2 \in 1..MessageCount(s)
        /\ Place(1) = 1 /\ Place(2) = 1 /\ 1 % 2 = 1 /\ 2 % 2 # 1
    BY <2>1, <2>2, PairOpens
  <2>4. Message(s, 1) = [snd |-> s[1], rcv |-> s[2]] /\ Message(s, 2) = [snd |-> s[2], rcv |-> s[1]]
    BY <2>1, <2>3, MessageOf
  <2>5. Message(s, 1).snd = s[1] /\ Message(s, 2).snd = s[2]
    BY <2>4
  <2>6. i = 1 \/ i = 2
    BY <1>3
  <2>. QED BY <2>3, <2>5, <2>6
<1>4. n >= 2
  OBVIOUS
<1>. HIDE DEF n
<1>5. n > 2 \/ n = 2
  BY <1>1, <1>4
<1>. QED BY <1>2, <1>3, <1>5

(* No two pairs of a ring join the same two accounts.                      *)
LEMMA PairsDiffer ==
  ASSUME NEW A, NEW s \in Seq(A), Distinct(s), Len(s) >= 2
  PROVE  Cardinality(Neighbours(s)) = Len(DialoguePairs(s))
<1>. DEFINE n == Len(s)
            l == PairCount(n)
            P(i) == {DialoguePairs(s)[i][1], DialoguePairs(s)[i][2]}
            f == [i \in 1..l |-> P(i)]
<1>1. n \in Nat /\ l \in Nat /\ Len(DialoguePairs(s)) = l /\ DOMAIN DialoguePairs(s) = 1..l
  BY PairsOf DEF PairCount
<1>2. Neighbours(s) = {P(i) : i \in 1..l}
  BY <1>1 DEF Neighbours
<1>3. n = 2 \/ (n > 2 /\ l = n)
  <2>1. n >= 2 /\ (n > 2 => l = n)
    BY <1>1, PairCounts
  <2>. HIDE DEF n, l
  <2>. QED BY <1>1, <2>1
<1>4. ASSUME NEW i \in 1..l, NEW j \in 1..l, P(i) = P(j)
      PROVE  i = j
  <2>1. CASE n = 2
    <3>1. l = 1
      BY <1>1, <2>1, PairCounts
    <3>. HIDE DEF l
    <3>. QED BY <3>1
  <2>2. CASE n > 2 /\ l = n
    <3>1. i \in 1..n /\ j \in 1..n /\ n \in Nat \ {0}
      BY <1>1, <2>2
    <3>2. DialoguePairs(s)[i] = <<s[i], s[After(n, i)]>> /\ DialoguePairs(s)[j] = <<s[j], s[After(n, j)]>>
      BY <2>2, <3>1, PairsOf
    <3>. DEFINE ni == After(n, i)
                nj == After(n, j)
    <3>3. ni \in 1..n /\ nj \in 1..n
      BY <3>1, NextPlace
    <3>4. DOMAIN s = 1..n
      BY PairsOf
    <3>5. P(i) = {s[i], s[ni]} /\ P(j) = {s[j], s[nj]}
      BY <3>2
    <3>. HIDE DEF n, l, P, ni, nj
    <3>6. {s[i], s[ni]} = {s[j], s[nj]}
      BY <1>4, <3>5
    <3>7. i = j \/ (i = nj /\ ni = j)
      BY <3>1, <3>3, <3>4, <3>6 DEF Distinct
    <3>. QED BY <2>2, <3>1, <3>7 DEF After, ni, nj
  <2>. QED BY <1>3, <2>1, <2>2
<1>. HIDE DEF n, l, P
<1>5. f \in [1..l -> Neighbours(s)] /\ \A i \in 1..l : f[i] = P(i)
  BY <1>2
<1>6. (\A i, j \in 1..l : f[i] = f[j] => i = j) /\ \A q \in Neighbours(s) : \E i \in 1..l : f[i] = q
  BY <1>2, <1>4, <1>5
<1>. HIDE DEF f
<1>7. f \in Bijection(1..l, Neighbours(s))
  BY <1>5, <1>6 DEF Bijection, Injection, Surjection, IsInjective
<1>8. IsFiniteSet(1..l) /\ Cardinality(1..l) = l
  BY <1>1, FS_Interval
<1>. QED BY <1>1, <1>7, <1>8, FS_Bijection DEF ExistsBijection

------------------------------------------------------------------------------
(* A gap in a ring.                                                        *)

Skip(i, j) == IF j < i THEN j ELSE j + 1

LEMMA NeighboursOf ==
  ASSUME NEW A, NEW s \in Seq(A), NEW n, n = Len(s)
  PROVE  /\ n < 2 => Neighbours(s) = {}
         /\ n >= 2 => Neighbours(s) = {{s[j], s[After(n, j)]} : j \in 1..n}
<1>1. n \in Nat /\ DOMAIN DialoguePairs(s) = 1..PairCount(n)
  BY PairsOf
<1>2. CASE n < 2
  <2>1. PairCount(n) = 0
    BY <1>1, <1>2, PairCounts
  <2>. QED BY <1>1, <1>2, <2>1 DEF Neighbours
<1>3. CASE n = 2
  <2>1. PairCount(n) = 1 /\ DialoguePairs(s)[1] = <<s[1], s[2]>>
    BY <1>1, <1>3, PairCounts, PairsOf
  <2>2. Neighbours(s) = {{s[1], s[2]}}
    BY <1>1, <2>1 DEF Neighbours
  <2>3. {{s[j], s[After(n, j)]} : j \in 1..n} = {{s[1], s[2]}}
    <3>1. 1..n = {1, 2} /\ After(n, 1) = 2 /\ After(n, 2) = 1
      BY <1>3 DEF After
    <3>. QED BY <3>1
  <2>. QED BY <1>3, <2>2, <2>3
<1>4. CASE n > 2
  <2>1. PairCount(n) = n
    BY <1>1, <1>4, PairCounts
  <2>2. \A j \in 1..n : DialoguePairs(s)[j] = <<s[j], s[After(n, j)]>>
    BY <1>4, PairsOf
  <2>3. Neighbours(s) = {{s[j], s[After(n, j)]} : j \in 1..n}
    BY <1>1, <2>1, <2>2 DEF Neighbours
  <2>. QED BY <1>1, <1>4, <2>3
<1>. QED BY <1>1, <1>2, <1>3, <1>4

(* r is s without its i-th account, whose two neighbours now talk.         *)
Bridged(s, i, r) ==
  LET n == Len(s)
      before == s[IF i = 1 THEN n ELSE i - 1]
      after == s[IF i = n THEN 1 ELSE i + 1]
      others == {p \in Neighbours(s) : s[i] \notin p}
  IN  Neighbours(r) = IF n <= 2 THEN {} ELSE others \union {{before, after}}

LEMMA GapIsBridged ==
  ASSUME NEW A, NEW s \in Seq(A), Distinct(s), NEW i \in 1..Len(s),
         NEW r \in Seq(A), Len(r) = Len(s) - 1,
         \A j \in 1..Len(r) : r[j] = s[Skip(i, j)]
  PROVE  Bridged(s, i, r)
<1>. DEFINE n == Len(s)
            m == Len(r)
            b == IF i = 1 THEN n ELSE i - 1
            a == IF i = n THEN 1 ELSE i + 1
            others == {p \in Neighbours(s) : s[i] \notin p}
<1>1. n \in Nat /\ m \in Nat /\ m = n - 1 /\ i \in 1..n /\ DOMAIN s = 1..n
  OBVIOUS
<1>2. /\ m < 2 => Neighbours(r) = {}
      /\ m >= 2 => Neighbours(r) = {{r[j], r[After(m, j)]} : j \in 1..m}
      /\ n >= 2 => Neighbours(s) = {{s[j], s[After(n, j)]} : j \in 1..n}
  BY NeighboursOf
<1>3. (\A j \in 1..m : r[j] = s[Skip(i, j)]) /\ \A j, k \in 1..n : s[j] = s[k] => j = k
  BY <1>1 DEF Distinct
<1>. HIDE DEF n, m
<1>4. CASE n <= 2
  <2>1. Neighbours(r) = {}
    BY <1>1, <1>2, <1>4
  <2>. QED BY <1>4, <2>1 DEF n, Bridged
<1>5. CASE n > 2
  <2>1. m >= 2 /\ n >= 2 /\ n - 1 \in 1..n
    BY <1>1, <1>5
(* A pair of r is the bridge or a pair of s without s[i].                  *)
  <2>2. ASSUME NEW j \in 1..m
        PROVE  {r[j], r[After(m, j)]} \in others \union {{s[b], s[a]}}
    <3>. DEFINE x == Skip(i, j)
                y == Skip(i, After(m, j))
    <3>1. After(m, j) \in 1..m
      BY <1>1, <2>1 DEF After
    <3>2. r[j] = s[x] /\ r[After(m, j)] = s[y] /\ x \in 1..n /\ y \in 1..n /\ x # i /\ y # i
      BY <1>1, <1>3, <3>1 DEF Skip
    <3>3. (x = b /\ y = a) \/ y = After(n, x)
      BY <1>1, <1>5, <2>1 DEF Skip, After
    <3>. HIDE DEF x, y, a, b
    <3>4. CASE x = b /\ y = a
      BY <3>2, <3>4
    <3>5. CASE y = After(n, x)
      <4>1. {s[x], s[y]} \in Neighbours(s)
        BY <1>2, <2>1, <3>2, <3>5
      <4>2. s[i] \notin {s[x], s[y]}
        BY <1>1, <1>3, <3>2
      <4>. QED BY <3>2, <4>1, <4>2
    <3>. QED BY <3>3, <3>4, <3>5
(* The bridge is a pair of r.                                              *)
  <2>3. {s[b], s[a]} \in Neighbours(r)
    <3>. DEFINE j == IF i = 1 THEN m ELSE i - 1
    <3>1. j \in 1..m /\ After(m, j) \in 1..m /\ Skip(i, j) = b /\ Skip(i, After(m, j)) = a
      BY <1>1, <1>5, <2>1 DEF Skip, After
    <3>. HIDE DEF j, a, b
    <3>2. r[j] = s[b] /\ r[After(m, j)] = s[a]
      BY <1>3, <3>1
    <3>. QED BY <1>2, <2>1, <3>1, <3>2
(* So is every pair of s without s[i].                                     *)
  <2>4. ASSUME NEW x \in 1..n, s[i] \notin {s[x], s[After(n, x)]}
        PROVE  {s[x], s[After(n, x)]} \in Neighbours(r)
    <3>. DEFINE j == IF x < i THEN x ELSE x - 1
    <3>1. x # i /\ After(n, x) # i
      BY <2>4
    <3>2. /\ j \in 1..m /\ After(m, j) \in 1..m
          /\ Skip(i, j) = x /\ Skip(i, After(m, j)) = After(n, x)
      BY <1>1, <1>5, <2>1, <3>1 DEF Skip, After
    <3>. HIDE DEF j
    <3>3. r[j] = s[x] /\ r[After(m, j)] = s[After(n, x)]
      BY <1>3, <3>2
    <3>. QED BY <1>2, <2>1, <3>2, <3>3
  <2>5. Neighbours(r) = others \union {{s[b], s[a]}}
    <3>1. ASSUME NEW p \in Neighbours(r)
          PROVE  p \in others \union {{s[b], s[a]}}
      <4>1. PICK j \in 1..m : p = {r[j], r[After(m, j)]}
        BY <1>2, <2>1
      <4>. HIDE DEF others, a, b
      <4>. QED BY <2>2, <4>1
    <3>2. others \subseteq Neighbours(r)
      BY <1>2, <2>1, <2>4
    <3>. QED BY <2>3, <3>1, <3>2
  <2>6. ~(n <= 2)
    BY <1>1, <1>5
  <2>. QED BY <2>5, <2>6 DEF n, Bridged
<1>. QED BY <1>1, <1>4, <1>5

------------------------------------------------------------------------------
(* The order of the members. SeenBefore orders the members of a table with *)
(* numbered keys strictly, so they have one enumeration.                   *)

KeysOK(t) == \A k \in DOMAIN t : k[2] \in Int /\ k[3] \in Int

LEMMA SeenOnce ==
  ASSUME NEW t, KeysOK(t), NEW c, NEW a, NEW b, a # b,
         SeenBefore(t, c, a, b)
  PROVE  ~SeenBefore(t, c, b, a)
<1>. SUFFICES ASSUME SeenBefore(t, c, b, a)
              PROVE  FALSE
  OBVIOUS
<1>1. PICK k \in OfComm(t, c) \intersect Involving(t, a) :
        \A l \in OfComm(t, c) \intersect Involving(t, b) :
          Earlier(k, l) \/ (k = l /\ t[k].snd = a)
  BY DEF SeenBefore
<1>2. PICK l \in OfComm(t, c) \intersect Involving(t, b) :
        \A j \in OfComm(t, c) \intersect Involving(t, a) :
          Earlier(l, j) \/ (l = j /\ t[l].snd = b)
  BY DEF SeenBefore
<1>3. Earlier(k, l) \/ (k = l /\ t[k].snd = a)
  BY <1>1
<1>4. Earlier(l, k) \/ (l = k /\ t[l].snd = b)
  BY <1>2
<1>5. k[2] \in Int /\ k[3] \in Int /\ l[2] \in Int /\ l[3] \in Int
  BY DEF KeysOK, OfComm
<1>. QED BY <1>3, <1>4, <1>5 DEF Earlier

Ordered(t, c, s) == \A i, j \in DOMAIN s : i < j => s[i] # s[j] /\ SeenBefore(t, c, s[i], s[j])

(* Two ordered sequences of the same accounts are one.                     *)
LEMMA OneOrder ==
  ASSUME NEW t, KeysOK(t), NEW c, NEW S, IsFiniteSet(S), NEW n \in Nat, Cardinality(S) = n,
         NEW r \in [1..n -> S], NEW s \in [1..n -> S], Ordered(t, c, r), Ordered(t, c, s)
  PROVE  r = s
<1>1. ASSUME NEW q \in [1..n -> S], Ordered(t, c, q)
      PROVE  \A a \in S : \E i \in 1..n : q[i] = a
  <2>1. \A i, j \in 1..n : q[i] = q[j] => i = j
    <3>1. \A i, j \in 1..n : i < j \/ i = j \/ j < i
      OBVIOUS
    <3>. QED BY <1>1, <3>1 DEF Ordered
  <2>2. q \in Injection(1..n, S)
    BY <2>1 DEF Injection, IsInjective
  <2>3. Cardinality(1..n) = n
    BY FS_Interval
  <2>4. q \in Surjection(1..n, S)
    BY <2>2, <2>3, FS_Injection
  <2>. QED BY <2>4 DEF Surjection
<1>. SUFFICES ASSUME r # s
              PROVE  FALSE
  OBVIOUS
<1>. DEFINE D == {k \in 1..n : r[k] # s[k]}
<1>2. D # {} /\ D \in SUBSET Nat
  OBVIOUS
<1>. HIDE DEF D
<1>3. PICK k \in D : \A j \in D : k <= j
  BY <1>2, NatMinimum
<1>4. k \in 1..n /\ r[k] # s[k] /\ \A j \in 1..n : j < k => r[j] = s[j]
  BY <1>2, <1>3 DEF D
<1>5. PICK p \in 1..n : s[p] = r[k]
  BY <1>1, <1>4
<1>6. PICK q \in 1..n : r[q] = s[k]
  <2>1. s[k] \in S /\ \A a \in S : \E i \in 1..n : r[i] = a
    BY <1>1, <1>4
  <2>. QED BY <2>1
<1>7. k < p /\ k < q
  <2>1. \A i, j \in 1..n : i < j => r[i] # r[j] /\ s[i] # s[j]
    BY DEF Ordered
  <2>2. ~(p < k) /\ ~(q < k) /\ p # k /\ q # k
    BY <1>4, <1>5, <1>6, <2>1
  <2>. QED BY <1>4, <2>2
<1>8. SeenBefore(t, c, s[k], r[k]) /\ SeenBefore(t, c, r[k], s[k])
  BY <1>4, <1>5, <1>6, <1>7 DEF Ordered
<1>. QED BY <1>4, <1>8, SeenOnce

------------------------------------------------------------------------------
(* The rows of a day show the ring: its first account writes message 1,    *)
(* the others are first written to by the one before them.                 *)

First(i) == IF i = 1 THEN 1 ELSE (i - 2) * Turns + 1

LEMMA FirstsGrow ==
  ASSUME NEW i \in Nat, NEW j \in Nat, 1 <= i, i < j
  PROVE  /\ First(i) \in Nat \ {0} /\ First(j) \in Nat \ {0} /\ First(i) <= First(j)
         /\ i # 1 => First(i) < First(j)
<1>1. Turns \in Nat \ {0}
  BY RingsAssumption DEF Turns
<1>2. (j - 2) * Turns \in Nat
  BY <1>1
<1>3. CASE i = 1
  BY <1>2, <1>3 DEF First
<1>4. CASE i # 1
  <2>1. (i - 2) * Turns \in Nat /\ (i - 2) * Turns + Turns <= (j - 2) * Turns
    <3>1. (i - 2) * Turns + Turns = (i - 1) * Turns /\ (i - 2) * Turns \in Nat
      BY <1>1, <1>4
    <3>2. (i - 1) * Turns <= (j - 2) * Turns
      BY <1>1, <1>4
    <3>. QED BY <3>1, <3>2
  <2>2. First(i) = (i - 2) * Turns + 1 /\ First(j) = (j - 2) * Turns + 1
    BY <1>4 DEF First
  <2>. QED BY <1>1, <1>2, <2>1, <2>2
<1>. QED BY <1>3, <1>4

LEMMA FirstMessage ==
  ASSUME NEW A, NEW s \in Seq(A), Len(s) >= 2, NEW i \in 1..Len(s)
  PROVE  /\ First(i) \in 1..(MessageCount(s) - 1)
         /\ IF i = 1 THEN Message(s, First(i)).snd = s[i] ELSE Message(s, First(i)).rcv = s[i]
<1>. DEFINE n == Len(s)
            l == PairCount(n)
            p == IF i = 1 THEN 1 ELSE i - 1
            k == (p - 1) * Turns + 1
            pair == DialoguePairs(s)[p]
<1>1. n \in Nat /\ i \in 1..n /\ n >= 2
  OBVIOUS
<1>2. l \in Nat /\ MessageCount(s) = l * Turns /\ (n = 2 => l = 1) /\ (n > 2 => l = n)
  BY <1>1, PairCounts, PairsOf
<1>3. (n = 2 => pair = <<s[1], s[2]>>) /\ (n > 2 => pair = <<s[p], s[After(n, p)]>>)
  <2>1. n = 2 => p = 1
    BY <1>1
  <2>2. p \in 1..n
    BY <1>1
  <2>. HIDE DEF p
  <2>. QED BY <2>1, <2>2, PairsOf
<1>. HIDE DEF n, l, pair
<1>4. p \in 1..l /\ First(i) = k
  <2>1. p \in 1..l
    BY <1>1, <1>2
  <2>2. CASE i = 1
    <3>1. (1 - 1) * Turns + 1 = 1
      BY RingsAssumption DEF Turns
    <3>. QED BY <2>1, <2>2, <3>1 DEF First
  <2>3. CASE i # 1
    <3>1. (i - 1) - 1 = i - 2
      BY <1>1
    <3>. QED BY <2>1, <2>3, <3>1 DEF First
  <2>. QED BY <2>2, <2>3
<1>5. /\ k \in 1..MessageCount(s) /\ k + 1 \in 1..MessageCount(s)
      /\ Place(k) = p /\ k % 2 = 1
  BY <1>4, PairOpens DEF l, n
<1>6. Message(s, k) = [snd |-> pair[1], rcv |-> pair[2]]
  BY <1>5, MessageOf DEF pair
<1>7. IF i = 1 THEN pair[1] = s[i] ELSE pair[2] = s[i]
  <2>1. CASE n = 2
    BY <1>1, <1>3, <2>1
  <2>2. CASE n > 2
    <3>1. i # 1 => After(n, p) = i
      BY <1>1 DEF After
    <3>2. i = 1 => p = i
      OBVIOUS
    <3>. QED BY <1>3, <2>2, <3>1, <3>2
  <2>. QED BY <1>1, <2>1, <2>2
<1>8. MessageCount(s) \in Nat
  BY MessageType
<1>. HIDE DEF k
<1>. QED BY <1>4, <1>5, <1>6, <1>7, <1>8

LEMMA NotBeforeFirst ==
  ASSUME NEW A, NEW s \in Seq(A), Distinct(s), Len(s) >= 2, NEW j \in 1..Len(s),
         NEW k \in 1..MessageCount(s), Message(s, k).snd = s[j] \/ Message(s, k).rcv = s[j]
  PROVE  First(j) <= k
<1>. DEFINE n == Len(s)
            q == Place(k)
            pair == DialoguePairs(s)[q]
<1>1. n \in Nat /\ j \in 1..n /\ n >= 2 /\ DOMAIN s = 1..n
  OBVIOUS
<1>2. k \in Nat \ {0} /\ q \in 1..PairCount(n) /\ (pair[1] = s[j] \/ pair[2] = s[j])
  BY MessageOf
<1>3. (q - 1) * Turns < k /\ q \in Nat \ {0}
  BY <1>2, PlaceOfMessage
<1>4. CASE j = 1 \/ n = 2
  <2>1. First(j) = 1
    <3>1. (2 - 2) * Turns + 1 = 1
      BY RingsAssumption DEF Turns
    <3>2. j = 1 \/ j = 2
      BY <1>1, <1>4
    <3>. QED BY <3>1, <3>2 DEF First
  <2>. QED BY <1>2, <2>1
<1>5. CASE j # 1 /\ n # 2
  <2>1. n > 2 /\ PairCount(n) = n
    <3>1. n \in Nat /\ n >= 2 /\ n # 2
      BY <1>1, <1>5
    <3>. HIDE DEF n
    <3>. QED BY <3>1, PairCounts
  <2>2. pair = <<s[q], s[After(n, q)]>> /\ q \in 1..n
    BY <1>2, <2>1, PairsOf
  <2>. HIDE DEF n, q, pair
  <2>3. After(n, q) \in 1..n
    BY <1>1, <2>2 DEF After
  <2>4. j = q \/ j = After(n, q)
    BY <1>1, <1>2, <2>2, <2>3 DEF Distinct
  <2>5. j - 2 <= q - 1 /\ j - 2 \in Nat
    BY <1>1, <1>5, <2>2, <2>4 DEF After
  <2>6. Turns \in Nat
    BY RingsAssumption DEF Turns
  <2>7. (j - 2) * Turns <= (q - 1) * Turns /\ (j - 2) * Turns \in Nat /\ (q - 1) * Turns \in Nat
    BY <1>3, <2>5, <2>6
  <2>8. First(j) = (j - 2) * Turns + 1
    BY <1>5 DEF First
  <2>. QED BY <1>2, <1>3, <2>7, <2>8
<1>. QED BY <1>4, <1>5

(* The rows of a day, when all messages but at most the last are kept.     *)
LEMMA RowsShowRing ==
  ASSUME NEW A, NEW s \in Seq(A), Distinct(s), Len(s) >= 2, NEW c, NEW d \in Int, NEW at,
         NEW m \in Nat, m <= MessageCount(s), m >= MessageCount(s) - 1,
         NEW t, t = DayRows(s, c, d, 0, at, m)
  PROVE  /\ KeysOK(t) /\ IsFiniteSet(DOMAIN t) /\ Cardinality(DOMAIN t) = m
         /\ Ordered(t, c, s)
         /\ \A i \in DOMAIN s : s[i] \in Members(t, c)
<1>. DEFINE n == Len(s)
            M == MessageCount(s)
            K(i) == <<c, d, i>>
<1>1. n \in Nat /\ M \in Nat /\ DOMAIN s = 1..n /\ 1..m \subseteq 1..M
  <2>1. M \in Nat
    BY MessageType
  <2>. QED BY <2>1
<1>2. /\ DOMAIN t = {K(i) : i \in 1..m}
      /\ \A i \in 1..m : t[K(i)].snd = Message(s, i).snd /\ t[K(i)].rcv = Message(s, i).rcv
  <2>. DEFINE keys == {<<c, d, 0 + i>> : i \in 1..m}
              row(k) == [snd |-> Message(s, k[3] - 0).snd, rcv |-> Message(s, k[3] - 0).rcv,
                         at |-> at[k[3] - 0], status |-> "pending",
                         sends |-> 0, base |-> 0, moved |-> FALSE]
  <2>1. t = [k \in keys |-> row(k)]
    BY DEF DayRows
  <2>2. \A i \in 1..m : 0 + i = i /\ i - 0 = i
    OBVIOUS
  <2>3. keys = {K(i) : i \in 1..m}
    BY <2>2
  <2>4. \A k : row(k).snd = Message(s, k[3] - 0).snd /\ row(k).rcv = Message(s, k[3] - 0).rcv
    OBVIOUS
  <2>. HIDE DEF keys, row
  <2>5. \A i \in 1..m : t[K(i)] = row(K(i)) /\ K(i)[3] - 0 = i
    BY <2>1, <2>2, <2>3
  <2>. QED BY <2>1, <2>3, <2>4, <2>5
<1>3. KeysOK(t)
  <2>1. \A i \in 1..m : K(i)[2] \in Int /\ K(i)[3] \in Int
    OBVIOUS
  <2>. QED BY <1>2, <2>1 DEF KeysOK
<1>4. IsFiniteSet(DOMAIN t) /\ Cardinality(DOMAIN t) = m
  <2>1. \A k : k \in DOMAIN t <=> \E i \in 1..m : k = <<c, d, i>>
    BY <1>2
  <2>. QED BY <2>1, StepsCounted
<1>5. OfComm(t, c) = {K(i) : i \in 1..m}
  <2>1. \A i \in 1..m : K(i)[1] = c
    OBVIOUS
  <2>. HIDE DEF K
  <2>. QED BY <1>2, <2>1 DEF OfComm
<1>6. \A i \in 1..n : /\ First(i) \in 1..m
                      /\ IF i = 1 THEN t[K(First(i))].snd = s[i] ELSE t[K(First(i))].rcv = s[i]
  <2>. SUFFICES ASSUME NEW i \in 1..n
                PROVE  /\ First(i) \in 1..m
                       /\ IF i = 1 THEN t[K(First(i))].snd = s[i] ELSE t[K(First(i))].rcv = s[i]
    OBVIOUS
  <2>1. /\ First(i) \in 1..(M - 1)
        /\ IF i = 1 THEN Message(s, First(i)).snd = s[i] ELSE Message(s, First(i)).rcv = s[i]
    BY FirstMessage
  <2>2. First(i) \in 1..m
    <3>. DEFINE f == First(i)
    <3>1. f \in 1..(M - 1) /\ M - 1 <= m
      BY <2>1
    <3>. HIDE DEF f, M
    <3>2. f \in 1..m
      BY <1>1, <3>1
    <3>. QED BY <3>2 DEF f
  <2>. HIDE DEF K, M, n
  <2>. QED BY <1>2, <2>1, <2>2
<1>7. ASSUME NEW i \in 1..n
      PROVE  /\ K(First(i)) \in OfComm(t, c) \intersect Involving(t, s[i])
             /\ s[i] \in Members(t, c)
  <2>1. K(First(i)) \in OfComm(t, c) /\ K(First(i)) \in DOMAIN t
    BY <1>2, <1>5, <1>6
  <2>2. t[K(First(i))].snd = s[i] \/ t[K(First(i))].rcv = s[i]
    BY <1>6
  <2>. HIDE DEF K
  <2>. QED BY <2>1, <2>2 DEF Members, Involving
<1>8. ASSUME NEW i \in 1..n, NEW j \in 1..n, i < j
      PROVE  SeenBefore(t, c, s[i], s[j])
  <2>. DEFINE k == K(First(i))
  <2>1. k \in OfComm(t, c) \intersect Involving(t, s[i])
    BY <1>7
  <2>2. ASSUME NEW l \in OfComm(t, c) \intersect Involving(t, s[j])
        PROVE  Earlier(k, l) \/ (k = l /\ t[k].snd = s[i])
    <3>1. PICK x \in 1..m : l = K(x)
      BY <1>5
    <3>2. Message(s, x).snd = s[j] \/ Message(s, x).rcv = s[j]
      <4>1. t[K(x)].snd = s[j] \/ t[K(x)].rcv = s[j]
        BY <3>1 DEF Involving
      <4>. QED BY <1>2, <4>1
    <3>3. First(j) <= x
      <4>1. x \in 1..M
        BY <1>1
      <4>. QED BY <3>2, <4>1, NotBeforeFirst
    <3>4. /\ First(i) \in Nat \ {0} /\ First(j) \in Nat \ {0} /\ First(i) <= First(j)
          /\ i # 1 => First(i) < First(j)
      <4>1. i \in Nat /\ j \in Nat /\ 1 <= i
        BY <1>1
      <4>. QED BY <1>8, <4>1, FirstsGrow
    <3>5. x \in Nat /\ First(i) <= x /\ (First(i) < x \/ (First(i) = x /\ i = 1))
      <4>1. x \in Nat
        OBVIOUS
      <4>. QED BY <3>3, <3>4, <4>1
    <3>6. First(i) < x => Earlier(k, l)
      BY <3>1 DEF Earlier
    <3>7. i = 1 => t[k].snd = s[i]
      BY <1>6
    <3>. QED BY <3>1, <3>5, <3>6, <3>7
  <2>. HIDE DEF k
  <2>. QED BY <2>1, <2>2 DEF SeenBefore
<1>. HIDE DEF n
<1>9. Ordered(t, c, s)
  <2>1. \A i, j \in 1..n : i < j => s[i] # s[j]
    BY <1>1 DEF Distinct
  <2>. QED BY <1>1, <1>8, <2>1 DEF Ordered
<1>. QED BY <1>1, <1>3, <1>4, <1>7, <1>9

------------------------------------------------------------------------------
(* Steps of the group.                                                     *)

LEMMA WithoutPlace ==
  ASSUME NEW A, NEW s \in Seq(A), NEW i \in 1..Len(s)
  PROVE  /\ Without(s, i) \in Seq(A) /\ Len(Without(s, i)) = Len(s) - 1
         /\ \A j \in 1..(Len(s) - 1) : Without(s, i)[j] = s[Skip(i, j)]
<1>. DEFINE n == Len(s)
            l == SubSeq(s, 1, i - 1)
            r == SubSeq(s, i + 1, n)
<1>1. n \in Nat /\ i \in 1..n /\ \A j \in 1..n : s[j] \in A
  OBVIOUS
<1>. HIDE DEF n
<1>2. /\ l \in Seq(A) /\ Len(l) = i - 1
      /\ \A j \in 1..(i - 1) : l[j] = s[j]
  <2>1. /\ 1 \in Int /\ i - 1 \in Int /\ (i - 1) - 1 + 1 = i - 1 /\ (1 <= i - 1 \/ i - 1 = 0)
        /\ \A j \in 1..(i - 1) : s[j] \in A /\ 1 + j - 1 = j
    BY <1>1
  <2>2. /\ l \in Seq(A) /\ Len(l) = (IF 1 <= i - 1 THEN (i - 1) - 1 + 1 ELSE 0)
        /\ \A j \in 1..((i - 1) - 1 + 1) : l[j] = s[1 + j - 1]
    BY <2>1, SubSeqProperties
  <2>. HIDE DEF l
  <2>. QED BY <2>1, <2>2
<1>3. /\ r \in Seq(A) /\ Len(r) = n - i
      /\ \A j \in 1..(n - i) : r[j] = s[i + j]
  <2>1. /\ i + 1 \in Int /\ n \in Int /\ n - (i + 1) + 1 = n - i /\ (i + 1 <= n \/ n - i = 0)
        /\ \A j \in (i + 1)..n : s[j] \in A
        /\ \A j \in 1..(n - i) : (i + 1) + j - 1 = i + j
    BY <1>1
  <2>2. /\ r \in Seq(A) /\ Len(r) = (IF i + 1 <= n THEN n - (i + 1) + 1 ELSE 0)
        /\ \A j \in 1..(n - (i + 1) + 1) : r[j] = s[(i + 1) + j - 1]
    BY <2>1, SubSeqProperties
  <2>. HIDE DEF r
  <2>. QED BY <2>1, <2>2
<1>4. Without(s, i) = l \o r
  BY DEF Without, n
<1>. HIDE DEF l, r
<1>5. /\ l \o r \in Seq(A) /\ Len(l \o r) = Len(l) + Len(r)
      /\ \A j \in 1..(Len(l) + Len(r)) :
           (l \o r)[j] = IF j <= Len(l) THEN l[j] ELSE r[j - Len(l)]
  BY <1>2, <1>3, ConcatProperties
<1>6. Len(l) + Len(r) = n - 1
  BY <1>1, <1>2, <1>3
<1>7. ASSUME NEW j \in 1..(n - 1)
      PROVE  (l \o r)[j] = s[Skip(i, j)]
  <2>1. (l \o r)[j] = IF j <= i - 1 THEN l[j] ELSE r[j - (i - 1)]
    BY <1>2, <1>5, <1>6
  <2>2. CASE j < i
    BY <1>1, <1>2, <2>1, <2>2 DEF Skip
  <2>3. CASE ~(j < i)
    <3>1. j - (i - 1) \in 1..(n - i) /\ i + (j - (i - 1)) = j + 1 /\ ~(j <= i - 1)
      BY <1>1, <2>3
    <3>2. r[j - (i - 1)] = s[j + 1]
      BY <1>3, <3>1
    <3>. QED BY <2>1, <2>3, <3>1, <3>2 DEF Skip
  <2>. QED BY <2>2, <2>3
<1>. QED BY <1>4, <1>5, <1>6, <1>7 DEF n

(* What is left when one account goes is distinct and ordered again.       *)
LEMMA GapKeepsOrder ==
  ASSUME NEW A, NEW s \in Seq(A), Distinct(s), NEW i \in 1..Len(s), NEW r, DOMAIN r = 1..(Len(s) - 1),
         \A j \in 1..(Len(s) - 1) : r[j] = s[Skip(i, j)]
  PROVE  /\ \A j \in DOMAIN r : Skip(i, j) \in DOMAIN s /\ r[j] # s[i]
         /\ Distinct(r)
         /\ \A x \in DOMAIN s \ {i} : \E j \in DOMAIN r : r[j] = s[x]
         /\ \A t, c : Ordered(t, c, s) => Ordered(t, c, r)
<1>. DEFINE n == Len(s)
<1>1. n \in Nat /\ i \in 1..n /\ DOMAIN s = 1..n /\ DOMAIN r = 1..(n - 1)
      /\ \A j \in 1..(n - 1) : r[j] = s[Skip(i, j)]
  OBVIOUS
<1>. HIDE DEF n
<1>2. \A j \in 1..(n - 1) : Skip(i, j) \in 1..n /\ Skip(i, j) # i
  BY <1>1 DEF Skip
<1>3. \A j, k \in 1..(n - 1) : (j < k => Skip(i, j) < Skip(i, k)) /\ (Skip(i, j) = Skip(i, k) => j = k)
  BY <1>1 DEF Skip
<1>4. \A j \in DOMAIN r : Skip(i, j) \in DOMAIN s /\ r[j] # s[i]
  BY <1>1, <1>2 DEF Distinct
<1>5. Distinct(r)
  BY <1>1, <1>2, <1>3 DEF Distinct
<1>6. ASSUME NEW x \in DOMAIN s \ {i}
      PROVE  \E j \in DOMAIN r : r[j] = s[x]
  <2>. DEFINE j == IF x < i THEN x ELSE x - 1
  <2>1. j \in 1..(n - 1) /\ Skip(i, j) = x
    BY <1>1 DEF Skip
  <2>. HIDE DEF j
  <2>. QED BY <1>1, <2>1
<1>7. ASSUME NEW t, NEW c, Ordered(t, c, s)
      PROVE  Ordered(t, c, r)
  BY <1>1, <1>2, <1>3, <1>7 DEF Ordered
<1>. QED BY <1>4, <1>5, <1>6, <1>7

(* The rows hold a day of the ring that started, and show the accounts     *)
(* that are left in the order of the ring.                                 *)
RowsOK ==
  /\ KeysOK(rows)
  /\ IsFiniteSet(DOMAIN rows) /\ Cardinality(DOMAIN rows) >= MessageCount(ring) - 1
  /\ Ordered(rows, comm, ring)
  /\ \A i \in DOMAIN ring : ring[i] \in Members(rows, comm)

RingInv ==
  /\ ring \in Seq(Account) /\ Distinct(ring)
  /\ stage = "timing" => Len(ring) >= 2
  /\ stage = "talking" => RowsOK

LEMMA RingStarts == Init => RingInv
  BY DEF Init, RingInv, Distinct

LEMMA ToggleKeeps ==
  ASSUME RingInv, NEW a \in Account, Toggle(a)
  PROVE  RingInv'
<1>1. stage = "picking" /\ UNCHANGED stage /\ ring \in Seq(Account) /\ Distinct(ring)
  BY DEF Toggle, RingInv
<1>2. ASSUME NEW i \in DOMAIN ring, ring' = Without(ring, i)
      PROVE  RingInv'
  <2>1. i \in 1..Len(ring) /\ Len(ring) \in Nat
    BY <1>1
  <2>2. /\ ring' \in Seq(Account) /\ Len(ring') = Len(ring) - 1
        /\ \A j \in 1..(Len(ring) - 1) : ring'[j] = ring[Skip(i, j)]
    BY <1>1, <1>2, <2>1, WithoutPlace
  <2>3. DOMAIN ring' = 1..(Len(ring) - 1)
    BY <2>2
  <2>4. Distinct(ring')
    BY <1>1, <2>1, <2>2, <2>3, GapKeepsOrder
  <2>. QED BY <1>1, <2>2, <2>4 DEF RingInv
<1>3. ASSUME ~InRing(a), ring' = Append(ring, a)
      PROVE  RingInv'
  <2>. DEFINE n == Len(ring)
  <2>1. n \in Nat /\ DOMAIN ring = 1..n
    BY <1>1
  <2>2. /\ ring' \in Seq(Account) /\ Len(ring') = n + 1
        /\ \A i \in 1..n : ring'[i] = ring[i]
        /\ ring'[n + 1] = a
    BY <1>1, <1>3, AppendProperties
  <2>3. DOMAIN ring' = 1..(n + 1)
    BY <2>2
  <2>. HIDE DEF n
  <2>4. \A i \in 1..(n + 1) : i \in 1..n \/ i = n + 1
    BY <2>1
  <2>5. \A i \in 1..n : ring[i] # a
    BY <1>3, <2>1 DEF InRing
  <2>6. Distinct(ring')
    BY <1>1, <2>1, <2>2, <2>3, <2>4, <2>5 DEF Distinct
  <2>. QED BY <1>1, <2>2, <2>6 DEF RingInv
<1>. QED BY <1>2, <1>3 DEF Toggle

LEMMA ConfirmKeeps ==
  ASSUME RingInv, Confirm
  PROVE  RingInv'
<1>. DEFINE n == MessageCount(ring)
<1>1. /\ stage = "timing" /\ stage' = "talking" /\ ring' = ring
      /\ ring \in Seq(Account) /\ Distinct(ring) /\ Len(ring) >= 2
  BY DEF Confirm, RingInv
<1>2. n \in Nat
  BY <1>1, MessageType
<1>3. PICK t \in 0..(DayLength - 1) :
        /\ StartAllowed(t, n)
        /\ \E at \in Schedules(t, n) : \E m \in 0..n :
             KeptInWindow(at, n, 0, m) /\ rows' = DayRows(ring, comm, 0, 0, at, m)
  BY DEF Confirm
<1>4. PICK at \in Schedules(t, n), m \in 0..n :
        KeptInWindow(at, n, 0, m) /\ rows' = DayRows(ring, comm, 0, 0, at, m)
  BY <1>3
<1>5. t \in Nat /\ Day(t) = 0
  BY RingsAssumption DEF Day
<1>. HIDE DEF n
<1>6. m >= n - 1 /\ m \in Nat /\ m <= n
  <2>1. KeptInWindow(at, n, Day(t), m)
    BY <1>4, <1>5
  <2>2. m >= n - 1
    BY <1>2, <1>3, <1>5, <2>1, AcceptedDayKeeps
  <2>. QED BY <1>2, <2>2
<1>7. 0 \in Int
  OBVIOUS
<1>8. /\ KeysOK(rows') /\ IsFiniteSet(DOMAIN rows') /\ Cardinality(DOMAIN rows') = m
      /\ Ordered(rows', comm, ring)
      /\ \A i \in DOMAIN ring : ring[i] \in Members(rows', comm)
  BY <1>1, <1>4, <1>6, <1>7, RowsShowRing DEF n
<1>. QED BY <1>1, <1>6, <1>8 DEF RingInv, RowsOK, n, comm

(* The survivors are the ring without the account that drops out.          *)
LEMMA DropTakesOut ==
  ASSUME RingInv, NEW a, Drop(a)
  PROVE  \E i \in 1..Len(ring) :
           /\ ring' \in Seq(Account) /\ Len(ring') = Len(ring) - 1
           /\ \A j \in 1..(Len(ring) - 1) : ring'[j] = ring[Skip(i, j)]
<1>. DEFINE S == {b \in Members(rows, comm) : InRing(b)} \ {a}
            n == Len(ring)
<1>1. ring \in Seq(Account) /\ Distinct(ring) /\ RowsOK /\ n \in Nat /\ DOMAIN ring = 1..n
  BY DEF RingInv, Drop
<1>2. PICK i \in 1..n : ring[i] = a
  BY <1>1 DEF Drop, InRing
<1>3. ring' \in [1..Cardinality(S) -> S] /\ Ordered(rows, comm, ring')
  BY DEF Drop, RingOrders, Ordered
<1>. DEFINE w == Without(ring, i)
<1>4. /\ w \in Seq(Account) /\ Len(w) = n - 1
      /\ \A j \in 1..(n - 1) : w[j] = ring[Skip(i, j)]
  BY <1>1, WithoutPlace
<1>5. DOMAIN w = 1..(n - 1)
  BY <1>4
<1>6. /\ \A j \in DOMAIN w : Skip(i, j) \in DOMAIN ring /\ w[j] # ring[i]
      /\ Distinct(w)
      /\ \A x \in DOMAIN ring \ {i} : \E j \in DOMAIN w : w[j] = ring[x]
      /\ Ordered(rows, comm, w)
  BY <1>1, <1>4, <1>5, GapKeepsOrder DEF RowsOK
<1>7. \A b : b \in S <=> \E x \in 1..n \ {i} : ring[x] = b
  BY <1>1, <1>2 DEF InRing, RowsOK, Distinct
<1>. HIDE DEF S, w, n
<1>8. w \in [1..(n - 1) -> S]
  <2>1. \A j \in 1..(n - 1) : w[j] \in S
    BY <1>1, <1>2, <1>4, <1>5, <1>6, <1>7
  <2>2. w \in [1..(n - 1) -> Account]
    BY <1>4
  <2>. QED BY <2>1, <2>2
<1>9. IsFiniteSet(S) /\ Cardinality(S) = n - 1
  <2>1. w \in Bijection(1..(n - 1), S)
    <3>. DEFINE I == 1..(n - 1)
    <3>1. \A b \in S : \E j \in I : w[j] = b
      BY <1>1, <1>5, <1>6, <1>7
    <3>2. \A j, k \in I : w[j] = w[k] => j = k
      BY <1>5, <1>6 DEF Distinct
    <3>3. w \in [I -> S]
      BY <1>8
    <3>. HIDE DEF I
    <3>4. w \in Bijection(I, S)
      BY <3>1, <3>2, <3>3 DEF Bijection, Injection, Surjection, IsInjective
    <3>. QED BY <3>4 DEF I
  <2>2. IsFiniteSet(1..(n - 1)) /\ Cardinality(1..(n - 1)) = n - 1
    <3>1. n - 1 \in Nat /\ 1 \in Int
      BY <1>1, <1>2
    <3>. DEFINE h == n - 1
    <3>. HIDE DEF h
    <3>2. h \in Nat
      BY <3>1 DEF h
    <3>3. IsFiniteSet(1..h) /\ Cardinality(1..h) = h
      BY <3>2, FS_Interval
    <3>. QED BY <3>3 DEF h
  <2>. QED BY <2>1, <2>2, FS_Bijection DEF ExistsBijection
<1>10. ring' = w
  BY <1>1, <1>2, <1>3, <1>6, <1>8, <1>9, OneOrder DEF RowsOK
<1>. QED BY <1>2, <1>4, <1>10 DEF n

LEMMA DropKeeps ==
  ASSUME RingInv, NEW a, Drop(a)
  PROVE  RingInv'
<1>1. /\ stage = "talking" /\ UNCHANGED <<stage, rows>>
      /\ ring \in Seq(Account) /\ Distinct(ring) /\ RowsOK /\ Len(ring) \in Nat
  BY DEF RingInv, Drop
<1>2. PICK i \in 1..Len(ring) :
        /\ ring' \in Seq(Account) /\ Len(ring') = Len(ring) - 1
        /\ \A j \in 1..(Len(ring) - 1) : ring'[j] = ring[Skip(i, j)]
  BY DropTakesOut
<1>3. DOMAIN ring' = 1..(Len(ring) - 1)
  BY <1>2
<1>4. /\ \A j \in DOMAIN ring' : Skip(i, j) \in DOMAIN ring
      /\ Distinct(ring')
      /\ Ordered(rows, comm, ring')
  <2>1. ASSUME NEW s, NEW r, s = ring, r = ring'
        PROVE  /\ \A j \in DOMAIN r : Skip(i, j) \in DOMAIN s
               /\ Distinct(r)
               /\ \A t, c : Ordered(t, c, s) => Ordered(t, c, r)
    <3>1. /\ s \in Seq(Account) /\ Distinct(s) /\ i \in 1..Len(s)
          /\ DOMAIN r = 1..(Len(s) - 1)
          /\ \A j \in 1..(Len(s) - 1) : r[j] = s[Skip(i, j)]
      BY <1>1, <1>2, <1>3, <2>1
    <3>2. Distinct(r)
      BY <3>1, GapKeepsOrder
    <3>3. \A j \in DOMAIN r : Skip(i, j) \in DOMAIN s
      BY <3>1, GapKeepsOrder
    <3>4. ASSUME NEW t, NEW c, Ordered(t, c, s)
          PROVE  Ordered(t, c, r)
      BY <3>1, <3>4, GapKeepsOrder
    <3>. QED BY <3>2, <3>3, <3>4
  <2>. QED BY <1>1, <2>1 DEF RowsOK
<1>5. MessageCount(ring') <= MessageCount(ring)
  <2>1. Len(ring') <= Len(ring)
    BY <1>1, <1>2
  <2>. QED BY <1>1, <1>2, <2>1, FewerMessages
<1>6. MessageCount(ring) \in Nat /\ MessageCount(ring') \in Nat
  BY <1>1, <1>2, MessageType
<1>7. Cardinality(DOMAIN rows) >= MessageCount(ring') - 1
  <2>1. Cardinality(DOMAIN rows) \in Nat /\ Cardinality(DOMAIN rows) >= MessageCount(ring) - 1
    BY <1>1, FS_CardinalityType DEF RowsOK
  <2>. QED BY <1>5, <1>6, <2>1
<1>8. \A j \in DOMAIN ring' : ring'[j] \in Members(rows, comm)
  BY <1>1, <1>2, <1>3, <1>4 DEF RowsOK
<1>9. RowsOK'
  BY <1>1, <1>4, <1>7, <1>8 DEF RowsOK, comm
<1>. QED BY <1>1, <1>2, <1>4, <1>9 DEF RingInv

LEMMA RingInvKept ==
  ASSUME RingInv, [Next]_vars
  PROVE  RingInv'
<1>1. CASE \E a \in Account : Toggle(a)
  BY <1>1, ToggleKeeps
<1>2. CASE Reset
  BY <1>2 DEF Reset, RingInv, Distinct
<1>3. CASE AccountsDone
  <2>1. Len(ring) >= 2
    BY <1>3, GroupRingAssumption DEF AccountsDone
  <2>. QED BY <1>3, <2>1 DEF AccountsDone, RingInv
<1>4. CASE Confirm
  BY <1>4, ConfirmKeeps
<1>5. CASE \E a \in Account : Drop(a)
  BY <1>5, DropKeeps
<1>6. CASE UNCHANGED vars
  BY <1>6 DEF vars, RingInv, RowsOK, comm
<1>. QED BY <1>1, <1>2, <1>3, <1>4, <1>5, <1>6 DEF Next

LEMMA RingInvHolds == Spec => []RingInv
  BY RingStarts, RingInvKept, PTL DEF Spec

(* Whatever accounts are picked, everybody in the ring writes, and as      *)
(* often as he is written to, and no two accounts share two pairs.         *)
THEOREM DialogueIsBalanced == Spec => []BalancedDialogue
<1>1. RingInv => BalancedDialogue
  <2>. SUFFICES ASSUME RingInv, Len(ring) >= 2
                PROVE  /\ Cardinality(Neighbours(ring)) = Len(DialoguePairs(ring))
                       /\ \A i \in DOMAIN ring :
                            /\ {k \in 1..MessageCount(ring) : Message(ring, k).snd = ring[i]} # {}
                            /\ Cardinality({k \in 1..MessageCount(ring) : Message(ring, k).snd = ring[i]})
                                 = Cardinality({k \in 1..MessageCount(ring) : Message(ring, k).rcv = ring[i]})
    BY DEF BalancedDialogue
  <2>1. ring \in Seq(Account) /\ Distinct(ring)
    BY DEF RingInv
  <2>2. \A i \in DOMAIN ring : \E k \in 1..MessageCount(ring) : Message(ring, k).snd = ring[i]
    BY <2>1, EveryoneOpens
  <2>3. Cardinality(Neighbours(ring)) = Len(DialoguePairs(ring))
    BY <2>1, PairsDiffer
  <2>4. \A a : Cardinality({k \in 1..MessageCount(ring) : Message(ring, k).snd = a})
                = Cardinality({k \in 1..MessageCount(ring) : Message(ring, k).rcv = a})
    BY <2>1, AsManyAnswers
  <2>5. \A i \in DOMAIN ring : {k \in 1..MessageCount(ring) : Message(ring, k).snd = ring[i]} # {}
    BY <2>2
  <2>. QED BY <2>3, <2>4, <2>5
<1>. QED BY <1>1, RingInvHolds, PTL

(* A start that the bot accepts loses at most the last message of the day, *)
(* whatever pauses are drawn, and no drop makes the rows too few for the   *)
(* ring that is left.                                                      *)
THEOREM AcceptedStartsFit == Spec => []AcceptedStartFits
<1>1. RingInv => AcceptedStartFits
  BY DEF RingInv, RowsOK, AcceptedStartFits
<1>. QED BY <1>1, RingInvHolds, PTL

(* A drop leaves one gap in the dialogue, and one new pair bridges it.     *)
THEOREM GapsAreBridged == Spec => DropBridges
<1>1. RingInv /\ [Next]_vars =>
        [stage = "talking" /\ ring' # ring => \E i \in DOMAIN ring : Bridged(ring, i, ring')]_vars
  <2>. SUFFICES ASSUME RingInv, Next, stage = "talking", ring' # ring
                PROVE  \E i \in DOMAIN ring : Bridged(ring, i, ring')
    OBVIOUS
  <2>1. PICK a \in Account : Drop(a)
    BY DEF Next, Toggle, Reset, AccountsDone, Confirm
  <2>2. PICK i \in 1..Len(ring) :
          /\ ring' \in Seq(Account) /\ Len(ring') = Len(ring) - 1
          /\ \A j \in 1..(Len(ring) - 1) : ring'[j] = ring[Skip(i, j)]
    BY <2>1, DropTakesOut
  <2>3. ring \in Seq(Account) /\ Distinct(ring) /\ DOMAIN ring = 1..Len(ring)
    BY DEF RingInv
  <2>4. \A j \in 1..Len(ring') : ring'[j] = ring[Skip(i, j)]
    BY <2>2
  <2>5. Bridged(ring, i, ring')
    <3>1. ring \in Seq(Account) /\ Distinct(ring) /\ i \in 1..Len(ring)
          /\ ring' \in Seq(Account) /\ Len(ring') = Len(ring) - 1
          /\ \A j \in 1..Len(ring') : ring'[j] = ring[Skip(i, j)]
      BY <2>2, <2>3, <2>4
    <3>. QED BY <3>1, GapIsBridged
  <2>. QED BY <2>2, <2>3, <2>5, Zenon
<1>. QED BY <1>1, RingInvHolds, PTL DEF Spec, DropBridges, Bridged

==============================================================================
