----------------------------- MODULE QueueLemmas -----------------------------
(* What the operations on task queues do to their members. *)
EXTENDS Queues, SequenceTheorems, WellFoundedInduction, TLAPS

(* A set of numbers has a least one. *)
LEMMA LeastOf ==
    ASSUME NEW T, T \subseteq Nat, T # {}
    PROVE  \E x \in T : \A y \in T : x <= y
<1>1. PICK x \in T : \A y \in T : ~ (<<y, x>> \in OpToRel(<,Nat))
    BY NatLessThanWellFounded, WFMin
<1>2. \A y \in T : ~ (y < x)
    BY <1>1 DEF OpToRel
<1> QED
    BY <1>2

(* Taking out the i-th element: type, length and what is left where. *)
LEMMA RemoveAtProperties ==
    ASSUME NEW S, NEW q \in Seq(S), NEW i \in 1..Len(q)
    PROVE  /\ RemoveAt(q, i) \in Seq(S)
           /\ Len(RemoveAt(q, i)) = Len(q) - 1
           /\ \A j \in 1..Len(q) - 1 :
                RemoveAt(q, i)[j] = IF j < i THEN q[j] ELSE q[j + 1]
<1> DEFINE l == SubSeq(q, 1, i - 1)
           r == SubSeq(q, i + 1, Len(q))
<1>1. l \in Seq(S) /\ Len(l) = i - 1 /\ \A j \in 1..i - 1 : l[j] = q[j]
    BY SubSeqProperties, LenProperties
<1>2. /\ r \in Seq(S) /\ Len(r) = Len(q) - i
      /\ \A j \in 1..Len(q) - i : r[j] = q[i + j]
    BY SubSeqProperties, LenProperties
<1>3. Len(q) \in Nat
    BY LenProperties
<1> HIDE DEF l, r
<1>4. /\ l \o r \in Seq(S) /\ Len(l \o r) = Len(l) + Len(r)
      /\ \A j \in 1..Len(l) + Len(r) :
            (l \o r)[j] = IF j <= Len(l) THEN l[j] ELSE r[j - Len(l)]
    BY <1>1, <1>2, ConcatProperties
<1>5. ASSUME NEW j \in 1..Len(q) - 1
      PROVE  (l \o r)[j] = IF j < i THEN q[j] ELSE q[j + 1]
  <2>1. CASE j < i
    BY <1>1, <1>2, <1>3, <1>4, <2>1
  <2>2. CASE ~(j < i)
    <3>1. r[j - (i - 1)] = q[i + (j - (i - 1))]
      BY <1>2, <1>3, <2>2
    <3> QED
      BY <1>1, <1>2, <1>3, <1>4, <2>2, <3>1
  <2> QED
    BY <2>1, <2>2
<1>6. Len(l) + Len(r) = Len(q) - 1
    BY <1>1, <1>2, <1>3
<1>7. RemoveAt(q, i) = l \o r
    BY DEF RemoveAt, l, r
<1> QED
    BY <1>4, <1>5, <1>6, <1>7

(* A task that joins a queue it is not in. *)
LEMMA QueueAppend ==
    ASSUME NEW S, NEW q \in Seq(S), NEW p \in S
    PROVE  /\ Append(q, p) \in Seq(S)
           /\ \A x : Contains(Append(q, p), x) <=> Contains(q, x) \/ x = p
           /\ Distinct(q) /\ ~Contains(q, p) => Distinct(Append(q, p))
<1>1. /\ Append(q, p) \in Seq(S)
      /\ Len(Append(q, p)) = Len(q) + 1
      /\ \A i \in 1..Len(q) : Append(q, p)[i] = q[i]
      /\ Append(q, p)[Len(q) + 1] = p
    BY AppendProperties
<1>2. Len(q) \in Nat
    BY LenProperties
<1> QED
    BY <1>1, <1>2 DEF Contains, Distinct

(* The first task leaves. *)
LEMMA QueueTail ==
    ASSUME NEW S, NEW q \in Seq(S), q # <<>>
    PROVE  /\ Tail(q) \in Seq(S)
           /\ Head(q) \in S
           /\ Contains(q, Head(q))
           /\ \A x : Contains(Tail(q), x) => Contains(q, x)
           /\ Distinct(q) => Distinct(Tail(q)) /\ ~Contains(Tail(q), Head(q))
<1>1. /\ Head(q) \in S
      /\ Tail(q) \in Seq(S)
      /\ Len(Tail(q)) = Len(q) - 1
      /\ \A i \in 1..Len(Tail(q)) : Tail(q)[i] = q[i + 1]
    BY HeadTailProperties
<1>2. Len(q) \in Nat \ {0}
    BY EmptySeq, LenProperties
<1>3. Head(q) = q[1]
    OBVIOUS
<1> QED
    BY <1>1, <1>2, <1>3 DEF Contains, Distinct

(* Everyone else stays when the first one leaves. *)
LEMMA QueueTailKeeps ==
    ASSUME NEW S, NEW q \in Seq(S), q # <<>>, NEW x, Contains(q, x), x # Head(q)
    PROVE  Contains(Tail(q), x)
<1>1. /\ Len(Tail(q)) = Len(q) - 1
      /\ \A i \in 1..Len(Tail(q)) : Tail(q)[i] = q[i + 1]
    BY HeadTailProperties
<1>2. Len(q) \in Nat \ {0} /\ Head(q) = q[1]
    BY EmptySeq, LenProperties
<1>3. PICK i \in 1..Len(q) : q[i] = x
    BY DEF Contains
<1>4. i - 1 \in 1..Len(Tail(q)) /\ Tail(q)[i - 1] = x
    BY <1>1, <1>2, <1>3
<1> QED
    BY <1>4 DEF Contains

(* A member leaves, wherever it is. *)
LEMMA QueueRemoveAt ==
    ASSUME NEW S, NEW q \in Seq(S), NEW i \in 1..Len(q)
    PROVE  /\ RemoveAt(q, i) \in Seq(S)
           /\ \A x : Contains(RemoveAt(q, i), x) => Contains(q, x)
           /\ Distinct(q) => Distinct(RemoveAt(q, i)) /\ ~Contains(RemoveAt(q, i), q[i])
<1>1. /\ RemoveAt(q, i) \in Seq(S)
      /\ Len(RemoveAt(q, i)) = Len(q) - 1
      /\ \A j \in 1..Len(q) - 1 :
           RemoveAt(q, i)[j] = IF j < i THEN q[j] ELSE q[j + 1]
    BY RemoveAtProperties
<1>2. Len(q) \in Nat
    BY LenProperties
<1>3. \A x : Contains(RemoveAt(q, i), x) => Contains(q, x)
    BY <1>1, <1>2 DEF Contains
<1>4. ASSUME Distinct(q)
      PROVE  Distinct(RemoveAt(q, i)) /\ ~Contains(RemoveAt(q, i), q[i])
    BY <1>1, <1>2, <1>4 DEF Contains, Distinct
<1> QED
    BY <1>1, <1>3, <1>4

(* A cancelled task leaves. *)
LEMMA QueueWithout ==
    ASSUME NEW S, NEW q \in Seq(S), NEW p
    PROVE  /\ Without(q, p) \in Seq(S)
           /\ \A x : Contains(Without(q, p), x) => Contains(q, x)
           /\ Distinct(q) => Distinct(Without(q, p)) /\ ~Contains(Without(q, p), p)
<1>1. CASE ~Contains(q, p)
    BY <1>1 DEF Without
<1>2. CASE Contains(q, p)
  <2> DEFINE i == CHOOSE k \in 1..Len(q) : q[k] = p
  <2>1. i \in 1..Len(q) /\ q[i] = p
    BY <1>2 DEF Contains
  <2>2. Without(q, p) = RemoveAt(q, i)
    BY <1>2 DEF Without
  <2> HIDE DEF i
  <2> QED
    BY <2>1, <2>2, QueueRemoveAt
<1> QED
    BY <1>1, <1>2

(* Everyone else stays when a task is cancelled. *)
LEMMA QueueWithoutKeeps ==
    ASSUME NEW S, NEW q \in Seq(S), NEW p, NEW x, Contains(q, x), x # p
    PROVE  Contains(Without(q, p), x)
<1>1. CASE ~Contains(q, p)
    BY <1>1 DEF Without
<1>2. CASE Contains(q, p)
  <2> DEFINE k == CHOOSE n \in 1..Len(q) : q[n] = p
  <2>1. k \in 1..Len(q) /\ q[k] = p /\ Without(q, p) = RemoveAt(q, k)
    BY <1>2 DEF Contains, Without
  <2> HIDE DEF k
  <2>2. /\ Len(RemoveAt(q, k)) = Len(q) - 1
        /\ \A j \in 1..Len(q) - 1 :
             RemoveAt(q, k)[j] = IF j < k THEN q[j] ELSE q[j + 1]
    BY <2>1, RemoveAtProperties
  <2>3. Len(q) \in Nat
    BY LenProperties
  <2>4. PICK n \in 1..Len(q) : q[n] = x
    BY DEF Contains
  <2>5. CASE n < k
    <3>1. n \in 1..Len(q) - 1 /\ RemoveAt(q, k)[n] = x
      BY <2>1, <2>2, <2>3, <2>4, <2>5
    <3> QED
      BY <2>1, <2>2, <3>1 DEF Contains
  <2>6. CASE n > k
    <3>1. n - 1 \in 1..Len(q) - 1 /\ RemoveAt(q, k)[n - 1] = x
      BY <2>1, <2>2, <2>3, <2>4, <2>6
    <3> QED
      BY <2>1, <2>2, <3>1 DEF Contains
  <2> QED
    BY <2>1, <2>3, <2>4, <2>5, <2>6
<1> QED
    BY <1>1, <1>2

(* The first members leave. *)
LEMMA QueueSuffix ==
    ASSUME NEW S, NEW q \in Seq(S), NEW n \in Nat, n <= Len(q)
    PROVE  /\ SubSeq(q, n + 1, Len(q)) \in Seq(S)
           /\ \A x : Contains(SubSeq(q, n + 1, Len(q)), x) => Contains(q, x)
           /\ Distinct(q) => Distinct(SubSeq(q, n + 1, Len(q)))
<1> DEFINE r == SubSeq(q, n + 1, Len(q))
<1>1. Len(q) \in Nat
    BY LenProperties
<1>2. /\ r \in Seq(S)
      /\ Len(r) = Len(q) - n
      /\ \A j \in 1..Len(q) - n : r[j] = q[n + j]
    BY <1>1, SubSeqProperties
<1> HIDE DEF r
<1>3. \A j \in 1..Len(r) : n + j \in 1..Len(q) /\ r[j] = q[n + j]
    BY <1>1, <1>2
<1>4. \A x : Contains(r, x) => Contains(q, x)
    BY <1>3 DEF Contains
<1>5. ASSUME Distinct(q), NEW j \in 1..Len(r), NEW k \in 1..Len(r), r[j] = r[k]
      PROVE  j = k
  <2>1. n + j = n + k
    BY <1>3, <1>5 DEF Distinct
  <2> QED
    BY <1>1, <1>2, <2>1
<1> QED
    BY <1>2, <1>4, <1>5 DEF r, Distinct

(* In the queue q, x comes before y. *)
Before(q, x, y) == \A i, j \in 1..Len(q) : q[i] = x /\ q[j] = y => i < j

(* Joining at the end and leaving, from anywhere, keep the order. *)
LEMMA BeforeAppend ==
    ASSUME NEW S, NEW q \in Seq(S), NEW p \in S, NEW x, NEW y
    PROVE  /\ Before(q, x, y) /\ p # x => Before(Append(q, p), x, y)
           /\ p = y /\ ~Contains(q, p) /\ x # p => Before(Append(q, p), x, y)
<1>1. /\ Len(Append(q, p)) = Len(q) + 1
      /\ \A i \in 1..Len(q) : Append(q, p)[i] = q[i]
      /\ Append(q, p)[Len(q) + 1] = p
    BY AppendProperties
<1>2. Len(q) \in Nat
    BY LenProperties
<1> QED
    BY <1>1, <1>2 DEF Before, Contains

LEMMA BeforeTail ==
    ASSUME NEW S, NEW q \in Seq(S), q # <<>>, NEW x, NEW y, Before(q, x, y)
    PROVE  Before(Tail(q), x, y)
<1>1. /\ Len(Tail(q)) = Len(q) - 1
      /\ \A i \in 1..Len(Tail(q)) : Tail(q)[i] = q[i + 1]
    BY HeadTailProperties
<1>2. Len(q) \in Nat \ {0}
    BY EmptySeq, LenProperties
<1> QED
    BY <1>1, <1>2 DEF Before

(* The first in a queue has no one before it. *)
LEMMA BeforeHead ==
    ASSUME NEW S, NEW q \in Seq(S), q # <<>>, NEW x, Contains(q, x)
    PROVE  ~Before(q, x, Head(q))
<1>1. Len(q) \in Nat \ {0} /\ Head(q) = q[1]
    BY EmptySeq, LenProperties
<1> QED
    BY <1>1 DEF Before, Contains

LEMMA BeforeWithout ==
    ASSUME NEW S, NEW q \in Seq(S), NEW p, NEW x, NEW y, Before(q, x, y)
    PROVE  Before(Without(q, p), x, y)
<1>1. CASE ~Contains(q, p)
    BY <1>1 DEF Without
<1>2. CASE Contains(q, p)
  <2> DEFINE k == CHOOSE n \in 1..Len(q) : q[n] = p
  <2>1. k \in 1..Len(q) /\ Without(q, p) = RemoveAt(q, k)
    BY <1>2 DEF Contains, Without
  <2> HIDE DEF k
  <2>2. /\ Len(RemoveAt(q, k)) = Len(q) - 1
        /\ \A j \in 1..Len(q) - 1 :
             RemoveAt(q, k)[j] = IF j < k THEN q[j] ELSE q[j + 1]
    BY <2>1, RemoveAtProperties
  <2>3. Len(q) \in Nat
    BY LenProperties
  <2>4. Before(RemoveAt(q, k), x, y)
    <3>1. k \in 1..Len(q)
      BY <2>1
    <3> QED
      BY <2>2, <2>3, <3>1 DEF Before
  <2> QED
    BY <2>1, <2>4
<1> QED
    BY <1>1, <1>2

(* In the queue q, x is there with y behind it. *)
Precedes(q, x, y) == \E i, j \in 1..Len(q) : i < j /\ q[i] = x /\ q[j] = y

LEMMA PrecedesContains ==
    ASSUME NEW q, NEW x, NEW y, Precedes(q, x, y)
    PROVE  Contains(q, x) /\ Contains(q, y)
BY DEF Precedes, Contains

(* Whoever joins is behind everyone, and whoever leaves puts no one behind. *)
LEMMA PrecedesAppend ==
    ASSUME NEW S, NEW q \in Seq(S), NEW p \in S, NEW x, NEW y, Precedes(Append(q, p), x, y)
    PROVE  Precedes(q, x, y) \/ (y = p /\ Contains(q, x))
<1>1. /\ Len(Append(q, p)) = Len(q) + 1
      /\ \A i \in 1..Len(q) : Append(q, p)[i] = q[i]
      /\ Append(q, p)[Len(q) + 1] = p
    BY AppendProperties
<1>2. Len(q) \in Nat
    BY LenProperties
<1>3. PICK i, j \in 1..Len(q) + 1 : i < j /\ Append(q, p)[i] = x /\ Append(q, p)[j] = y
    BY <1>1 DEF Precedes
<1>4. i \in 1..Len(q) /\ q[i] = x
    BY <1>1, <1>2, <1>3
<1>5. CASE j = Len(q) + 1
    BY <1>1, <1>3, <1>4, <1>5 DEF Contains
<1>6. CASE j # Len(q) + 1
  <2>1. j \in 1..Len(q) /\ q[j] = y
    BY <1>1, <1>2, <1>3, <1>6
  <2> QED
    BY <1>3, <1>4, <2>1 DEF Precedes
<1> QED
    BY <1>5, <1>6

LEMMA PrecedesTail ==
    ASSUME NEW S, NEW q \in Seq(S), q # <<>>, NEW x, NEW y
    PROVE  /\ Precedes(Tail(q), x, y) => Precedes(q, x, y)
           /\ Contains(Tail(q), y) => Precedes(q, Head(q), y)
<1>1. /\ Len(Tail(q)) = Len(q) - 1
      /\ \A i \in 1..Len(Tail(q)) : Tail(q)[i] = q[i + 1]
    BY HeadTailProperties
<1>2. Len(q) \in Nat \ {0} /\ Head(q) = q[1]
    BY EmptySeq, LenProperties
<1>3. \A i \in 1..Len(Tail(q)) : i + 1 \in 1..Len(q) /\ 1 < i + 1 /\ Tail(q)[i] = q[i + 1]
    BY <1>1, <1>2
<1>4. ASSUME NEW i \in 1..Len(Tail(q)), NEW j \in 1..Len(Tail(q)), i < j,
             Tail(q)[i] = x, Tail(q)[j] = y
      PROVE  Precedes(q, x, y)
  <2>1. i + 1 < j + 1
    BY <1>1, <1>2, <1>4
  <2> QED
    BY <1>3, <1>4, <2>1 DEF Precedes
<1>5. ASSUME NEW i \in 1..Len(Tail(q)), Tail(q)[i] = y
      PROVE  Precedes(q, Head(q), y)
  <2>1. 1 \in 1..Len(q)
    BY <1>2
  <2> QED
    BY <1>2, <1>3, <1>5, <2>1 DEF Precedes
<1> QED
    BY <1>4, <1>5 DEF Precedes, Contains

LEMMA PrecedesRemoveAt ==
    ASSUME NEW S, NEW q \in Seq(S), NEW k \in 1..Len(q), NEW x, NEW y, Precedes(RemoveAt(q, k), x, y)
    PROVE  Precedes(q, x, y)
<1>1. /\ Len(RemoveAt(q, k)) = Len(q) - 1
      /\ \A j \in 1..Len(q) - 1 :
            RemoveAt(q, k)[j] = IF j < k THEN q[j] ELSE q[j + 1]
    BY RemoveAtProperties
<1>2. Len(q) \in Nat
    BY LenProperties
<1>3. PICK i, j \in 1..Len(q) - 1 : i < j /\ RemoveAt(q, k)[i] = x /\ RemoveAt(q, k)[j] = y
    BY <1>1 DEF Precedes
<1> DEFINE m == IF i < k THEN i ELSE i + 1
           n == IF j < k THEN j ELSE j + 1
<1>4. m \in 1..Len(q) /\ n \in 1..Len(q) /\ m < n
    BY <1>2, <1>3
<1>5. q[m] = x /\ q[n] = y
    BY <1>1, <1>3
<1> QED
    BY <1>4, <1>5 DEF Precedes

LEMMA PrecedesSuffix ==
    ASSUME NEW S, NEW q \in Seq(S), NEW n \in Nat, n <= Len(q), NEW x, NEW y,
           Precedes(SubSeq(q, n + 1, Len(q)), x, y)
    PROVE  Precedes(q, x, y)
<1> DEFINE r == SubSeq(q, n + 1, Len(q))
<1>1. Len(q) \in Nat
    BY LenProperties
<1>2. Len(r) = Len(q) - n /\ \A j \in 1..Len(q) - n : r[j] = q[n + j]
    BY <1>1, SubSeqProperties
<1>3. Precedes(r, x, y)
    OBVIOUS
<1> HIDE DEF r
<1>4. PICK i, j \in 1..Len(r) : i < j /\ r[i] = x /\ r[j] = y
    BY <1>3 DEF Precedes
<1>5. /\ n + i \in 1..Len(q) /\ n + j \in 1..Len(q) /\ n + i < n + j
      /\ q[n + i] = x /\ q[n + j] = y
    BY <1>1, <1>2, <1>4
<1> QED
    BY <1>5 DEF Precedes
=============================================================================
