-------------------------- MODULE EventIfaceProofs --------------------------
(***************************************************************************)
(* Proofs about EventIface, for any finite set of sources, length of their *)
(* queues, size of the first set and bounds.                               *)
(*                                                                         *)
(* IInv counts: the set lists each source in it as often as its queue has  *)
(* events (Counted), and each queue ends with the last event accepted from *)
(* its source (Accounted).  That the set never is full when a queue is not *)
(* is the pigeon hole principle: it has QueueLen places for each source    *)
(* that can be in it (Ordered).  Calm adds what holds of a change during   *)
(* which nobody sends.                                                     *)
(***************************************************************************)
EXTENDS EventIface, FiniteSetTheorems, SequenceTheorems, TLAPS

(* Counting an element of a sequence.                                      *)
Slots(q, s) == {i \in 1 .. Len(q) : q[i] = s}
Count(q, s) == Cardinality(Slots(q, s))

\* The numbers up to n are n.
LEMMA UpTo ==
  ASSUME NEW n \in Nat
  PROVE  IsFiniteSet(1 .. n) /\ Cardinality(1 .. n) = n
  BY FS_Interval

\* A number at most another and not that one is less.
LEMMA NatLess == \A a, b \in Nat : a <= b /\ a # b => a < b
  OBVIOUS

\* Counting gives a number.
LEMMA CountType ==
  ASSUME NEW S, NEW q \in Seq(S), NEW s
  PROVE  IsFiniteSet(Slots(q, s)) /\ Count(q, s) \in Nat
<1>1. Len(q) \in Nat /\ IsFiniteSet(1 .. Len(q))
  BY FS_Interval
<1>2. Slots(q, s) \in SUBSET (1 .. Len(q))
  BY DEF Slots
<1>3. QED  BY <1>1, <1>2, FS_Subset, FS_CardinalityType DEF Count

\* What is counted zero times does not occur.
LEMMA CountZero ==
  ASSUME NEW S, NEW q \in Seq(S), NEW s
  PROVE  Count(q, s) = 0 <=> \A i \in 1 .. Len(q) : q[i] # s
<1>1. Count(q, s) = 0 <=> Slots(q, s) = {}
  BY CountType, FS_EmptySet DEF Count
<1>2. QED  BY <1>1 DEF Slots

\* Appending counts one more of what is appended,
LEMMA CountAppend ==
  ASSUME NEW S, NEW q \in Seq(S), NEW x \in S, NEW s
  PROVE  Count(Append(q, x), s) = IF x = s THEN Count(q, s) + 1 ELSE Count(q, s)
<1> DEFINE n == Len(q) + 1
<1>1. Len(q) \in Nat /\ Len(Append(q, x)) = n /\ Append(q, x)[n] = x
      /\ \A i \in 1 .. Len(q) : Append(q, x)[i] = q[i]
  OBVIOUS
<1>2. IsFiniteSet(Slots(q, s)) /\ n \notin Slots(q, s)
  <2>1. n \notin 1 .. Len(q)
    BY <1>1
  <2>2. QED  BY <2>1, CountType DEF Slots
<1>3. CASE x = s
  <2>1. Slots(Append(q, x), s) = Slots(q, s) \cup {n}
    BY <1>1, <1>3 DEF Slots
  <2>2. QED  BY <1>2, <1>3, <2>1, FS_AddElement DEF Count
<1>4. CASE x # s
  <2>1. Slots(Append(q, x), s) = Slots(q, s)
    BY <1>1, <1>4 DEF Slots
  <2>2. QED  BY <1>4, <2>1 DEF Count
<1>5. QED  BY <1>3, <1>4

\* And taking the head one less of it.
LEMMA CountTail ==
  ASSUME NEW S, NEW q \in Seq(S), q # <<>>, NEW s
  PROVE  Count(q, s) = IF Head(q) = s THEN Count(Tail(q), s) + 1 ELSE Count(Tail(q), s)
<1> DEFINE t == Tail(q)
           T == Slots(t, s)
           U == Slots(q, s) \ {1}
           f == [i \in T |-> i + 1]
<1>1. /\ Len(q) \in Nat /\ Len(q) > 0 /\ t \in Seq(S) /\ Len(t) = Len(q) - 1
      /\ \A i \in 1 .. Len(t) : t[i] = q[i + 1]
      /\ Head(q) = q[1]
  OBVIOUS
<1> HIDE DEF t
<1>2. f \in Bijection(T, U)
  <2>1. ASSUME NEW i \in T PROVE f[i] \in U
    BY <1>1 DEF Slots
  <2>2. \A i, j \in T : f[i] = f[j] => i = j
    BY <1>1 DEF Slots
  <2>3. ASSUME NEW j \in U PROVE \E i \in T : f[i] = j
    <3>1. j \in 1 .. Len(q) /\ q[j] = s /\ j # 1
      BY DEF Slots
    <3>2. j - 1 \in 1 .. Len(t) /\ t[j - 1] = s
      BY <1>1, <3>1
    <3>3. j - 1 \in T
      BY <3>2 DEF Slots
    <3>4. f[j - 1] = j
      BY <3>1, <3>3
    <3>5. QED  BY <3>3, <3>4
  <2>4. f \in [T -> U]
    BY <2>1
  <2> HIDE DEF f, T, U
  <2>5. QED  BY <2>2, <2>3, <2>4 DEF Bijection, Injection, Surjection, IsInjective
<1>3. IsFiniteSet(T) /\ IsFiniteSet(Slots(q, s))
  BY <1>1, CountType
<1>4. Cardinality(U) = Cardinality(T)
  <2>1. ExistsBijection(T, U)
    BY <1>2 DEF ExistsBijection
  <2>2. QED  BY <1>3, <2>1, FS_Bijection
<1>5. 1 \in Slots(q, s) <=> Head(q) = s
  BY <1>1 DEF Slots
<1>6. Cardinality(U) = IF 1 \in Slots(q, s) THEN Count(q, s) - 1 ELSE Count(q, s)
  BY <1>3, FS_RemoveElement DEF Count
<1>7. Count(q, s) \in Nat /\ Count(t, s) = Cardinality(T)
  BY CountType DEF Count
<1>8. QED  BY <1>4, <1>5, <1>6, <1>7 DEF t

(* Pigeon holes: a sequence over M, in which nothing occurs more often     *)
(* than n times, is not full while one element of M occurs less often.     *)
Rank(q, i) == Cardinality({j \in 1 .. i : q[j] = q[i]})

\* The occurrences of an element are numbered in order.
LEMMA RankOrder ==
  ASSUME NEW M, NEW q \in Seq(M), NEW i \in 1 .. Len(q)
  PROVE  /\ Rank(q, i) \in 1 .. Count(q, q[i])
         /\ \A j \in 1 .. Len(q) : j < i /\ q[j] = q[i] => Rank(q, j) < Rank(q, i)
<1> DEFINE R(k) == {j \in 1 .. k : q[j] = q[k]}
<1>1. Len(q) \in Nat /\ IsFiniteSet(Slots(q, q[i])) /\ Count(q, q[i]) \in Nat
  BY CountType
<1>2. \A k \in 1 .. Len(q) : IsFiniteSet(R(k)) /\ Cardinality(R(k)) \in Nat
  <2> SUFFICES ASSUME NEW k \in 1 .. Len(q)
               PROVE  IsFiniteSet(R(k)) /\ Cardinality(R(k)) \in Nat
    OBVIOUS
  <2>1. IsFiniteSet(1 .. k) /\ R(k) \in SUBSET (1 .. k)
    BY <1>1, FS_Interval
  <2>2. QED  BY <2>1, FS_Subset, FS_CardinalityType
<1>3. Cardinality(R(i)) <= Count(q, q[i])
  <2>1. R(i) \in SUBSET Slots(q, q[i])
    BY <1>1 DEF Slots
  <2>2. QED  BY <1>1, <2>1, FS_Subset DEF Count
<1>4. Cardinality(R(i)) # 0
  <2>1. i \in R(i)
    BY <1>1
  <2>2. QED  BY <1>2, <2>1, FS_EmptySet
<1>5. ASSUME NEW j \in 1 .. Len(q), j < i, q[j] = q[i]
      PROVE  Cardinality(R(j)) < Cardinality(R(i))
  <2>1. R(j) \in SUBSET R(i) /\ i \in R(i) /\ i \notin R(j)
    BY <1>1, <1>5
  <2>2. Cardinality(R(j)) <= Cardinality(R(i)) /\ Cardinality(R(j)) # Cardinality(R(i))
    BY <1>2, <2>1, FS_Subset
  <2>3. Cardinality(R(j)) \in Nat /\ Cardinality(R(i)) \in Nat
    BY <1>2
  <2>4. QED  BY <2>2, <2>3, NatLess
<1>6. \A k \in 1 .. Len(q) : Rank(q, k) = Cardinality(R(k))
  BY DEF Rank
<1> HIDE DEF R
<1>7. QED  BY <1>1, <1>2, <1>3, <1>4, <1>5, <1>6

\* A sequence in which no element of M occurs more than n times, and one less than n
\* times, is shorter than n times the size of M.
LEMMA PigeonHoles ==
  ASSUME NEW M, IsFiniteSet(M), NEW n \in Nat, NEW q \in Seq(M),
         \A s \in M : Count(q, s) <= n, NEW m \in M, Count(q, m) < n
  PROVE  Len(q) < Cardinality(M) * n
<1> DEFINE D == 1 .. Len(q)
           P == M \X (1 .. n)
           f == [i \in D |-> <<q[i], Rank(q, i)>>]
<1>1. Len(q) \in Nat /\ IsFiniteSet(D) /\ Cardinality(D) = Len(q)
  <2>1. Len(q) \in Nat
    OBVIOUS
  <2>2. QED  BY <2>1, UpTo
<1>2. IsFiniteSet(P) /\ Cardinality(P) = Cardinality(M) * n
  <2>1. IsFiniteSet(1 .. n) /\ Cardinality(1 .. n) = n
    BY UpTo
  <2>2. QED  BY <2>1, FS_Product
<1>3. f \in [D -> P]
  <2> SUFFICES ASSUME NEW i \in D PROVE <<q[i], Rank(q, i)>> \in P
    OBVIOUS
  <2>1. q[i] \in M /\ Count(q, q[i]) \in Nat
    BY CountType
  <2>2. Rank(q, i) \in 1 .. Count(q, q[i]) /\ Count(q, q[i]) <= n
    BY <2>1, RankOrder
  <2>3. QED  BY <2>1, <2>2
<1>4. ASSUME NEW i \in D, NEW j \in D, f[i] = f[j] PROVE i = j
  <2>1. q[i] = q[j] /\ Rank(q, i) = Rank(q, j)
    BY <1>4
  <2>2. ~(i < j) /\ ~(j < i)
    <3>1. Rank(q, i) \in Int /\ Rank(q, j) \in Int
      BY RankOrder, CountType
    <3>2. QED  BY <2>1, <3>1, RankOrder
  <2>3. QED  BY <1>1, <2>2
<1>5. <<m, n>> \in P /\ \A i \in D : f[i] # <<m, n>>
  <2>1. Count(q, m) \in Nat
    BY CountType
  <2>2. ASSUME NEW i \in D, q[i] = m PROVE Rank(q, i) < n
    BY <2>1, <2>2, RankOrder
  <2>3. QED  BY <2>1, <2>2
<1> HIDE DEF D, P, f
<1>6. f \in Injection(D, P) /\ f \notin Surjection(D, P)
  BY <1>3, <1>4, <1>5 DEF Injection, Surjection, IsInjective
<1>7. Cardinality(D) <= Cardinality(P) /\ Cardinality(D) # Cardinality(P)
  BY <1>2, <1>6, FS_Injection
<1>8. Cardinality(P) \in Nat
  BY <1>2, FS_CardinalityType
<1>9. QED  BY <1>1, <1>2, <1>7, <1>8

-----------------------------------------------------------------------------
(* The invariant.                                                          *)

\* Nothing is in q twice.
Once(q) == \A i, j \in 1 .. Len(q) : q[i] = q[j] => i = j

TaskType ==
  [pc : {"listens", "drain", "detach", "empty", "add"}, ret : {"OK", "FAIL"},
   left : Seq(Sources), next : Seq(Sources), failed : BOOLEAN, raced : BOOLEAN,
   changes : Nat]

Typed == TypeOK /\ task \in TaskType

\* Who can be in the set, and what is left to take out or put in.
Ordered ==
  /\ Once(list) /\ Once(task.next) /\ Once(task.left)
  /\ member \subseteq Range(list)
  /\ list # <<>> => cap = QueueLen * Len(list)
  /\ task.pc = "detach" =>
       member \subseteq Range(task.left) /\ Range(task.left) \subseteq Range(list)
  /\ task.pc \in {"empty", "add"} =>
       /\ Range(list) = member \cup Range(task.left)
       /\ member \cap Range(task.left) = {}
  /\ task.pc = "add" => task.left # <<>>
  /\ task.pc \in {"listens", "drain"} /\ ~task.failed => member = Range(list)

\* The set lists a source in it once for each event in its queue.
Counted ==
  \A s \in Sources : Count(set, s) = IF s \in member THEN Len(queue[s]) ELSE 0

\* q is the last events of those up to n.
Ends(q, n) == Len(q) <= n /\ \A i \in 1 .. Len(q) : q[i] = n - Len(q) + i

\* Every event of s since it was added has been heard, in order, or waits.
Kept(s) ==
  /\ \A i \in 1 .. Len(heard[s]) : heard[s][i] = since[s] + i
  /\ since[s] + Len(heard[s]) + Len(queue[s]) = sent[s]

\* No change has drained what waits.
Keeping == task.pc \in {"listens", "empty", "add"} /\ ~task.failed

\* The queues, and what has been heard of the sources listened to.
Accounted ==
  \A s \in Sources : Ends(queue[s], sent[s]) /\ (s \in member /\ Keeping => Kept(s))

IInv == Typed /\ Ordered /\ Counted /\ Accounted

-----------------------------------------------------------------------------
(* Sequences.                                                              *)

\* What occurs in a sequence.
LEMMA RangeIs ==
  ASSUME NEW S, NEW q \in Seq(S)
  PROVE  /\ Range(q) = {q[i] : i \in 1 .. Len(q)} /\ Range(q) \subseteq S
         /\ q = <<>> <=> Range(q) = {}
<1>1. DOMAIN q = 1 .. Len(q) /\ \A i \in 1 .. Len(q) : q[i] \in S
  OBVIOUS
<1>2. Range(q) = {q[i] : i \in 1 .. Len(q)}
  BY <1>1 DEF Range
<1>3. CASE q = <<>>
  <2>1. 1 .. Len(q) = {}
    BY <1>3
  <2>2. QED  BY <1>2, <1>3, <2>1
<1>4. CASE q # <<>>
  <2>1. 1 \in 1 .. Len(q)
    BY <1>4
  <2>2. q[1] \in Range(q)
    BY <1>2, <2>1
  <2>3. QED  BY <1>1, <1>2, <1>4, <2>2
<1>5. QED  BY <1>3, <1>4

\* Taking the head of a sequence without repetitions.
LEMMA RangeTail ==
  ASSUME NEW S, NEW q \in Seq(S), q # <<>>, Once(q)
  PROVE  /\ Head(q) \in S /\ Tail(q) \in Seq(S) /\ Once(Tail(q))
         /\ Head(q) \notin Range(Tail(q))
         /\ Range(q) = {Head(q)} \cup Range(Tail(q))
<1> DEFINE t == Tail(q)
<1>1. /\ Len(q) \in Nat /\ Len(q) > 0 /\ t \in Seq(S) /\ Len(t) = Len(q) - 1
      /\ \A i \in 1 .. Len(t) : t[i] = q[i + 1]
      /\ Head(q) = q[1] /\ q[1] \in S
  OBVIOUS
<1>2. Range(t) = {t[i] : i \in 1 .. Len(t)} /\ Range(q) = {q[i] : i \in 1 .. Len(q)}
  BY <1>1, RangeIs
<1> HIDE DEF t
<1>3. Once(t) /\ \A i \in 1 .. Len(t) : t[i] # q[1]
  BY <1>1 DEF Once
<1>4. \A i \in 1 .. Len(q) : i = 1 \/ (i - 1 \in 1 .. Len(t) /\ q[i] = t[i - 1])
  BY <1>1
<1>5. \A i \in 1 .. Len(t) : i + 1 \in 1 .. Len(q) /\ t[i] = q[i + 1]
  BY <1>1
<1>6. 1 \in 1 .. Len(q)
  BY <1>1
<1>7. Range(q) = {q[1]} \cup Range(t)
  BY <1>2, <1>4, <1>5, <1>6
<1>8. q[1] \notin Range(t)
  BY <1>2, <1>3
<1>9. QED  BY <1>1, <1>3, <1>7, <1>8 DEF t

\* Appending what is not in a sequence repeats nothing,
LEMMA OnceAppend ==
  ASSUME NEW S, NEW q \in Seq(S), Once(q), NEW s \in S, ~Contains(q, s)
  PROVE  Append(q, s) \in Seq(S) /\ Once(Append(q, s))
<1>1. /\ Append(q, s) \in Seq(S) /\ Len(q) \in Nat /\ Len(Append(q, s)) = Len(q) + 1
      /\ Append(q, s)[Len(q) + 1] = s /\ \A i \in 1 .. Len(q) : Append(q, s)[i] = q[i]
  OBVIOUS
<1>2. \A i \in 1 .. Len(q) + 1 : i \in 1 .. Len(q) \/ i = Len(q) + 1
  BY <1>1
<1>3. QED  BY <1>1, <1>2 DEF Once, Contains

\* And neither does removing from it.
LEMMA OnceRemove ==
  ASSUME NEW S, NEW q \in Seq(S), Once(q), NEW k \in 1 .. Len(q)
  PROVE  RemoveAt(q, k) \in Seq(S) /\ Once(RemoveAt(q, k))
<1> DEFINE a == SubSeq(q, 1, k - 1)
           b == SubSeq(q, k + 1, Len(q))
           r == a \o b
<1>1. Len(q) \in Nat /\ k \in Nat /\ k <= Len(q) /\ \A i \in 1 .. Len(q) : q[i] \in S
  OBVIOUS
<1>2. a \in Seq(S) /\ Len(a) = k - 1 /\ \A i \in 1 .. k - 1 : a[i] = q[i]
  <2>1. 1 \in Int /\ k - 1 \in Int /\ \A i \in 1 .. k - 1 : q[i] \in S
    BY <1>1
  <2>2. /\ a \in Seq(S) /\ Len(a) = IF 1 <= k - 1 THEN k - 1 - 1 + 1 ELSE 0
        /\ \A i \in 1 .. k - 1 - 1 + 1 : a[i] = q[1 + i - 1]
    BY <2>1, SubSeqProperties
  <2> HIDE DEF a
  <2>3. QED  BY <1>1, <2>2
<1>3. b \in Seq(S) /\ Len(b) = Len(q) - k /\ \A i \in 1 .. Len(q) - k : b[i] = q[k + i]
  <2>1. k + 1 \in Int /\ Len(q) \in Int /\ \A i \in k + 1 .. Len(q) : q[i] \in S
    BY <1>1
  <2>2. /\ b \in Seq(S) /\ Len(b) = IF k + 1 <= Len(q) THEN Len(q) - (k + 1) + 1 ELSE 0
        /\ \A i \in 1 .. Len(q) - (k + 1) + 1 : b[i] = q[k + 1 + i - 1]
    BY <2>1, SubSeqProperties
  <2> HIDE DEF b
  <2>3. QED  BY <1>1, <2>2
<1> HIDE DEF a, b
<1>4. /\ r \in Seq(S) /\ Len(r) = Len(q) - 1
      /\ \A i \in 1 .. Len(r) : r[i] = IF i < k THEN q[i] ELSE q[i + 1]
  <2>1. /\ r \in Seq(S) /\ Len(r) = Len(a) + Len(b)
        /\ \A i \in 1 .. Len(a) + Len(b) : r[i] = IF i <= Len(a) THEN a[i] ELSE b[i - Len(a)]
    BY <1>2, <1>3, ConcatProperties
  <2> HIDE DEF r
  <2>2. ASSUME NEW i \in 1 .. Len(r), i < k PROVE r[i] = q[i]
    BY <1>1, <1>2, <1>3, <2>1, <2>2
  <2>3. ASSUME NEW i \in 1 .. Len(r), ~(i < k) PROVE r[i] = q[i + 1]
    <3>1. /\ i - (k - 1) \in 1 .. Len(q) - k /\ k + (i - (k - 1)) = i + 1
          /\ ~(i <= k - 1) /\ i \in 1 .. Len(a) + Len(b)
      BY <1>1, <1>2, <1>3, <2>1, <2>3
    <3>2. r[i] = b[i - (k - 1)]
      BY <1>2, <2>1, <3>1
    <3>3. b[i - (k - 1)] = q[k + (i - (k - 1))]
      BY <1>3, <3>1
    <3>4. QED  BY <3>1, <3>2, <3>3
  <2>4. QED  BY <1>1, <1>2, <1>3, <2>1, <2>2, <2>3
<1> HIDE DEF r
<1>5. ASSUME NEW i \in 1 .. Len(r), NEW j \in 1 .. Len(r), r[i] = r[j]
      PROVE  i = j
  <2> DEFINE m == IF i < k THEN i ELSE i + 1
             n == IF j < k THEN j ELSE j + 1
  <2>1. m \in 1 .. Len(q) /\ n \in 1 .. Len(q) /\ (m = n => i = j)
    BY <1>1, <1>4
  <2>2. r[i] = q[m] /\ r[j] = q[n]
    BY <1>4
  <2> HIDE DEF m, n
  <2>3. QED  BY <1>5, <2>1, <2>2 DEF Once
<1>6. QED  BY <1>4, <1>5 DEF RemoveAt, r, a, b, Once

\* A queue that ends with event n, and gets the next, ends with that,
LEMMA EndsAppend ==
  ASSUME NEW S, NEW q \in Seq(S), NEW n \in Nat, Ends(q, n), n + 1 \in S
  PROVE  Ends(Append(q, n + 1), n + 1)
<1> DEFINE k == Append(q, n + 1)
<1>1. /\ Len(q) \in Nat /\ Len(k) = Len(q) + 1 /\ k[Len(q) + 1] = n + 1
      /\ \A i \in 1 .. Len(q) : k[i] = q[i]
  OBVIOUS
<1> HIDE DEF k
<1>2. ASSUME NEW i \in 1 .. Len(k) PROVE k[i] = n + 1 - Len(k) + i
  <2>1. CASE i = Len(q) + 1
    BY <1>1, <2>1
  <2>2. CASE i # Len(q) + 1
    <3>1. i \in 1 .. Len(q)
      BY <1>1, <2>2
    <3>2. QED  BY <1>1, <3>1 DEF Ends
  <2>3. QED  BY <2>1, <2>2
<1>3. QED  BY <1>1, <1>2 DEF Ends, k

\* And gives its oldest event first.
LEMMA EndsTail ==
  ASSUME NEW S, NEW q \in Seq(S), q # <<>>, NEW n \in Nat, Ends(q, n)
  PROVE  /\ Ends(Tail(q), n) /\ Head(q) = n - Len(q) + 1
         /\ Head(q) \in S /\ Tail(q) \in Seq(S) /\ Len(Tail(q)) = Len(q) - 1
<1> DEFINE k == Tail(q)
<1>1. /\ Len(q) \in Nat /\ Len(q) > 0 /\ k \in Seq(S) /\ Len(k) = Len(q) - 1 /\ Head(q) = q[1]
      /\ \A i \in 1 .. Len(k) : k[i] = q[i + 1]
      /\ Head(q) \in S
  OBVIOUS
<1> HIDE DEF k
<1>2. Ends(k, n) /\ q[1] = n - Len(q) + 1
  BY <1>1 DEF Ends
<1>3. QED  BY <1>1, <1>2 DEF k

\* A sequence has no more elements than places.
LEMMA RangeSize ==
  ASSUME NEW S, NEW q \in Seq(S)
  PROVE  IsFiniteSet(Range(q)) /\ Cardinality(Range(q)) <= Len(q)
<1>1. Len(q) \in Nat /\ DOMAIN q = 1 .. Len(q)
  OBVIOUS
<1>2. q \in Surjection(1 .. Len(q), Range(q))
  <2>1. q \in [1 .. Len(q) -> Range(q)]
    BY <1>1 DEF Range
  <2>2. \A r \in Range(q) : \E i \in 1 .. Len(q) : q[i] = r
    BY <1>1 DEF Range
  <2>3. QED  BY <2>1, <2>2 DEF Surjection
<1>3. IsFiniteSet(1 .. Len(q)) /\ Cardinality(1 .. Len(q)) = Len(q)
  BY <1>1, UpTo
<1>4. QED  BY <1>2, <1>3, FS_Surjection

\* Multiplication by a number keeps the order.
LEMMA Times == \A a, b, n \in Nat : a <= b => a * n <= n * b
<1> SUFFICES ASSUME NEW a \in Nat, NEW b \in Nat, NEW n \in Nat, a <= b
             PROVE  a * n <= n * b
  OBVIOUS
<1>1. PICK d \in Nat : b = a + d
  <2>1. b - a \in Nat /\ b = a + (b - a)
    OBVIOUS
  <2>2. QED  BY <2>1
<1>2. n * b = a * n + n * d /\ n * d \in Nat /\ a * n \in Nat
  BY <1>1
<1>3. QED  BY <1>2

-----------------------------------------------------------------------------
(* The set has room: with QueueLen places for each of its sources, of     *)
(* which s needs fewer, it cannot be full.                                 *)
LEMMA RoomInSet == IInv => SetHasRoom
<1> SUFFICES ASSUME IInv, NEW s \in member, Room(s) PROVE Len(set) < cap
  BY DEF SetHasRoom
<1>1. /\ member \subseteq Sources /\ set \in Seq(Sources) /\ list \in Seq(Sources)
      /\ QueueLen \in Nat /\ s \in Sources
  BY LengthsAssumption DEF IInv, Typed, TypeOK
<1>2. IsFiniteSet(Range(list)) /\ Cardinality(Range(list)) <= Len(list)
  BY <1>1, RangeSize
<1>3. /\ IsFiniteSet(member) /\ Cardinality(member) \in Nat
      /\ Cardinality(member) <= Len(list) /\ Len(list) \in Nat
  <2>1. member \in SUBSET Range(list) /\ Len(list) \in Nat
    BY <1>1 DEF IInv, Ordered
  <2>2. IsFiniteSet(member) /\ Cardinality(member) <= Cardinality(Range(list))
    BY <1>2, <2>1, FS_Subset
  <2>3. Cardinality(member) \in Nat /\ Cardinality(Range(list)) \in Nat
    BY <1>2, <2>2, FS_CardinalityType
  <2>4. QED  BY <1>2, <2>1, <2>2, <2>3
<1>4. set \in Seq(member)
  <2>1. ASSUME NEW i \in 1 .. Len(set) PROVE set[i] \in member
    <3>1. set[i] \in Sources
      BY <1>1
    <3>2. Count(set, set[i]) # 0
      BY <1>1, CountZero
    <3>3. QED  BY <3>1, <3>2 DEF IInv, Counted
  <2>2. set \in [1 .. Len(set) -> member] /\ Len(set) \in Nat
    BY <1>1, <2>1
  <2>3. QED  BY <2>2
<1>5. \A x \in member : Count(set, x) <= QueueLen
  BY <1>1 DEF IInv, Counted, Typed, TypeOK
<1>6. Count(set, s) < QueueLen
  BY <1>1 DEF IInv, Counted, Room
<1>7. Len(set) < Cardinality(member) * QueueLen
  BY <1>1, <1>3, <1>4, <1>5, <1>6, PigeonHoles
<1>8. Cardinality(member) * QueueLen <= QueueLen * Len(list)
  BY <1>1, <1>3, Times
<1>9. cap = QueueLen * Len(list)
  <2>1. list # <<>>
    BY <1>1, RangeIs DEF IInv, Ordered
  <2>2. QED  BY <2>1 DEF IInv, Ordered
<1>10. Cardinality(member) * QueueLen \in Nat /\ Len(set) \in Nat /\ QueueLen * Len(list) \in Nat
  BY <1>1, <1>3
<1>11. QED  BY <1>7, <1>8, <1>9, <1>10

\* The queue at the head of the set is a listened one, and has an event.
LEMMA HeadListed ==
  ASSUME IInv, set # <<>>
  PROVE  /\ Head(set) \in member /\ Head(set) \in Sources /\ queue[Head(set)] # <<>>
         /\ Tail(set) \in Seq(Sources) /\ Len(Tail(set)) <= cap
<1>1. set \in Seq(Sources) /\ Head(set) = set[1] /\ 1 \in 1 .. Len(set) /\ set[1] \in Sources
      /\ Len(set) <= cap /\ cap \in Nat
  BY DEF IInv, Typed, TypeOK
<1>2. Count(set, set[1]) # 0
  BY <1>1, CountZero
<1>3. QED  BY <1>1, <1>2 DEF IInv, Counted

-----------------------------------------------------------------------------
(* The steps.                                                              *)

\* The types the steps rest on.
LEMMA InvTypes ==
  ASSUME IInv
  PROVE  /\ queue \in [Sources -> Seq(1 .. MaxEvents)] /\ member \subseteq Sources
         /\ set \in Seq(Sources) /\ list \in Seq(Sources) /\ task \in TaskType
         /\ task.left \in Seq(Sources) /\ task.next \in Seq(Sources)
         /\ sent \in [Sources -> 0 .. MaxEvents] /\ since \in [Sources -> 0 .. MaxEvents]
         /\ heard \in [Sources -> Seq(1 .. MaxEvents)]
         /\ MaxEvents \in Nat /\ QueueLen \in Nat /\ cap \in Nat
         /\ \A s \in Sources : /\ Len(queue[s]) \in Nat /\ Len(heard[s]) \in Nat
                               /\ sent[s] \in Nat /\ since[s] \in Nat
  BY BoundsAssumption, LengthsAssumption DEF IInv, Typed, TypeOK

\* Nothing occurs in the empty sequence.
LEMMA NoRange == Range(<<>>) = {} /\ Len(<<>>) = 0 /\ 1 .. 0 = {}
  BY EmptySeq DEF Range

\* A queue keeps its bound with one event less.
LEMMA Fewer == \A n, m \in Nat : n <= m => n - 1 <= m
  OBVIOUS

\* The invariant holds at first; below, one lemma per action keeps it.
LEMMA InitIInv == Init => IInv
<1> SUFFICES ASSUME Init PROVE IInv
  OBVIOUS
<1>1. Range(<<>>) = {} /\ Len(<<>>) = 0
  BY EmptySeq DEF Range
<1>2. \A s \in Sources : Count(<<>>, s) = 0
  <2> SUFFICES ASSUME NEW s \in Sources PROVE Count(<<>>, s) = 0
    OBVIOUS
  <2>1. <<>> \in Seq(Sources)
    OBVIOUS
  <2>2. 1 .. Len(<<>>) = {}
    BY <1>1
  <2>3. QED  BY <2>1, <2>2, CountZero
<1>3. Typed
  BY BoundsAssumption, LengthsAssumption DEF Init, Typed, TypeOK, TaskType
<1>4. Ordered
  BY <1>1 DEF Init, Ordered, Once
<1>5. Counted
  BY <1>2 DEF Init, Counted
<1>6. Accounted
  BY <1>1 DEF Init, Accounted, Ends
<1>7. QED  BY <1>3, <1>4, <1>5, <1>6 DEF IInv

LEMMA SendoutStep ==
  ASSUME IInv, NEW s \in Sources, Sendout(s)
  PROVE  IInv'
<1> DEFINE q == queue[s]
           n == sent[s] + 1
           k == Append(q, n)
<1>1. /\ sent[s] \in Nat /\ sent[s] < MaxEvents /\ MaxEvents \in Nat /\ Len(q) < QueueLen
      /\ queue' = [queue EXCEPT ![s] = k] /\ sent' = [sent EXCEPT ![s] = n]
      /\ set' = Entered(s) /\ task' = [task EXCEPT !.raced = @ \/ Changing]
      /\ UNCHANGED <<member, cap, list, since, heard>>
  BY InvTypes DEF Sendout, Room, history
<1>2. /\ q \in Seq(1 .. MaxEvents) /\ n \in 1 .. MaxEvents /\ Len(q) \in Nat
  BY <1>1, InvTypes
<1>3. /\ k \in Seq(1 .. MaxEvents) /\ Len(k) = Len(q) + 1 /\ k[Len(q) + 1] = n
      /\ \A i \in 1 .. Len(q) : k[i] = q[i]
  BY <1>2
<1>4. /\ task' \in TaskType /\ task'.pc = task.pc /\ task'.left = task.left
      /\ task'.next = task.next /\ task'.failed = task.failed
  <2>1. \A b \in BOOLEAN : [task EXCEPT !.raced = b] \in TaskType
    BY InvTypes DEF TaskType
  <2>2. (task.raced \/ Changing) \in BOOLEAN
    OBVIOUS
  <2>3. QED  BY <1>1, <2>1, <2>2, InvTypes DEF TaskType
<1>5. s \in member => Len(set) < cap
  BY <1>1, RoomInSet DEF SetHasRoom, Room
<1>6. /\ set' \in Seq(Sources) /\ Len(set') <= cap
      /\ \A x \in Sources :
           Count(set', x) = IF x = s /\ s \in member THEN Count(set, x) + 1 ELSE Count(set, x)
  <2>1. CASE s \in member
    <3>1. set' = Append(set, s)
      BY <1>1, <1>5, <2>1 DEF Entered
    <3>2. set' \in Seq(Sources) /\ Len(set') = Len(set) + 1 /\ Len(set) \in Nat
      BY <3>1, InvTypes
    <3>3. Len(set') <= cap
      BY <1>5, <2>1, <3>2, InvTypes
    <3>4. QED  BY <2>1, <3>1, <3>2, <3>3, CountAppend, InvTypes
  <2>2. CASE s \notin member
    BY <1>1, <2>2, InvTypes DEF Entered, IInv, Typed, TypeOK
  <2>3. QED  BY <2>1, <2>2
<1> HIDE DEF k
<1>7. /\ queue'[s] = k /\ sent'[s] = n
      /\ \A x \in Sources : x # s => queue'[x] = queue[x] /\ sent'[x] = sent[x]
  BY <1>1, InvTypes
<1>8. Typed'
  <2>1. queue' \in [Sources -> Seq(1 .. MaxEvents)] /\ sent' \in [Sources -> 0 .. MaxEvents]
    BY <1>1, <1>2, <1>3, InvTypes
  <2>2. \A x \in Sources : Len(queue'[x]) <= QueueLen
    BY <1>1, <1>2, <1>3, <1>7, InvTypes DEF IInv, Typed, TypeOK
  <2>3. QED  BY <1>1, <1>4, <1>6, <2>1, <2>2, InvTypes DEF Typed, TypeOK, TaskType
<1>9. Ordered'
  BY <1>1, <1>4 DEF IInv, Ordered
<1>10. Counted'
  <2> SUFFICES ASSUME NEW x \in Sources
               PROVE  Count(set', x) = IF x \in member THEN Len(queue'[x]) ELSE 0
    BY <1>1 DEF Counted
  <2>1. Count(set, x) = IF x \in member THEN Len(queue[x]) ELSE 0
    BY DEF IInv, Counted
  <2>2. CASE x = s
    BY <1>3, <1>6, <1>7, <2>1, <2>2
  <2>3. CASE x # s
    BY <1>6, <1>7, <2>1, <2>3
  <2>4. QED  BY <2>2, <2>3
<1>11. Accounted'
  <2> SUFFICES ASSUME NEW x \in Sources
               PROVE  Ends(queue[x], sent[x])' /\ (x \in member /\ Keeping' => Kept(x)')
    BY <1>1 DEF Accounted
  <2>1. Ends(queue[x], sent[x]) /\ (x \in member /\ Keeping => Kept(x)) /\ (Keeping' <=> Keeping)
    BY <1>4 DEF IInv, Accounted, Keeping
  <2>2. CASE x # s
    BY <1>1, <1>7, <2>1, <2>2 DEF Kept
  <2>3. CASE x = s
    <3>1. Ends(k, n)
      BY <1>1, <1>2, <2>1, <2>3, EndsAppend DEF k
    <3>2. Kept(s) => Kept(s)'
      <4>1. since' = since /\ heard' = heard /\ since[s] \in Nat /\ Len(heard[s]) \in Nat
        BY <1>1, InvTypes
      <4>2. Len(queue'[s]) = Len(q) + 1 /\ sent'[s] = sent[s] + 1
        BY <1>3, <1>7
      <4> HIDE DEF q
      <4>3. since[s] \in Nat /\ Len(heard[s]) \in Nat /\ Len(q) \in Nat /\ sent[s] \in Nat
        BY <1>1, <1>2, <4>1
      <4>4. since[s] + Len(heard[s]) + Len(q) = sent[s]
              => since[s] + Len(heard[s]) + (Len(q) + 1) = sent[s] + 1
        BY ONLY <4>3
      <4>5. QED  BY <4>1, <4>2, <4>4 DEF Kept, q
    <3>3. QED  BY <1>7, <2>1, <2>3, <3>1, <3>2
  <2>4. QED  BY <2>2, <2>3
<1>12. QED  BY <1>8, <1>9, <1>10, <1>11 DEF IInv

(* The oldest event of the queue that heads the set is taken from both.    *)
LEMMA TakeStep ==
  ASSUME IInv, set # <<>>, NEW s, s = Head(set)
  PROVE  /\ s \in member /\ s \in Sources
         /\ queue[s] # <<>> /\ Tail(queue[s]) \in Seq(1 .. MaxEvents)
         /\ Len(Tail(queue[s])) = Len(queue[s]) - 1
         /\ Head(queue[s]) \in 1 .. MaxEvents
         /\ Head(queue[s]) = sent[s] - Len(queue[s]) + 1
         /\ Ends(Tail(queue[s]), sent[s])
         /\ Tail(set) \in Seq(Sources) /\ Len(Tail(set)) <= cap
         /\ \A x \in Sources :
              Count(Tail(set), x) = IF x = s THEN Count(set, x) - 1 ELSE Count(set, x)
<1>1. /\ s \in member /\ s \in Sources /\ queue[s] # <<>>
      /\ Tail(set) \in Seq(Sources) /\ Len(Tail(set)) <= cap
  BY HeadListed
<1>2. queue[s] \in Seq(1 .. MaxEvents) /\ sent[s] \in Nat
  BY <1>1, InvTypes
<1>3. Ends(queue[s], sent[s])
  BY <1>1 DEF IInv, Accounted
<1>4. ASSUME NEW x \in Sources
      PROVE  Count(Tail(set), x) = IF x = s THEN Count(set, x) - 1 ELSE Count(set, x)
  <2>1. set \in Seq(Sources) /\ Count(Tail(set), x) \in Nat
    BY <1>1, InvTypes, CountType
  <2>2. Count(set, x) = IF s = x THEN Count(Tail(set), x) + 1 ELSE Count(Tail(set), x)
    BY <2>1, CountTail
  <2>3. QED  BY <2>1, <2>2
<1>5. QED  BY <1>1, <1>2, <1>3, <1>4, EndsTail

LEMMA ListenStep == ASSUME IInv, Listen PROVE IInv'
<1> DEFINE s == Head(set)
           q == queue[s]
<1>1. /\ s \in member /\ s \in Sources /\ q # <<>> /\ Tail(q) \in Seq(1 .. MaxEvents)
      /\ Len(Tail(q)) = Len(q) - 1 /\ Head(q) \in 1 .. MaxEvents
      /\ Head(q) = sent[s] - Len(q) + 1 /\ Ends(Tail(q), sent[s])
      /\ Tail(set) \in Seq(Sources) /\ Len(Tail(set)) <= cap
      /\ \A x \in Sources :
           Count(Tail(set), x) = IF x = s THEN Count(set, x) - 1 ELSE Count(set, x)
  BY TakeStep DEF Listen
<1>2. /\ set' = Tail(set) /\ queue' = [queue EXCEPT ![s] = Tail(q)]
      /\ heard' = [heard EXCEPT ![s] = Append(@, Head(q))]
      /\ task' = [task EXCEPT !.ret = "OK"] /\ task.pc = "listens"
      /\ UNCHANGED <<member, cap, list, sent, since>>
  BY <1>1 DEF Listen, Receive, Changing
<1>3. /\ task' \in TaskType /\ task'.pc = task.pc /\ task'.left = task.left
      /\ task'.next = task.next /\ task'.failed = task.failed
  BY <1>2, InvTypes DEF TaskType
<1>4. /\ heard[s] \in Seq(1 .. MaxEvents) /\ Len(heard[s]) \in Nat
      /\ since[s] \in Nat /\ sent[s] \in Nat /\ Len(q) \in Nat
  BY <1>1, InvTypes
<1> DEFINE h == Append(heard[s], Head(q))
<1>5. /\ h \in Seq(1 .. MaxEvents) /\ Len(h) = Len(heard[s]) + 1 /\ h[Len(heard[s]) + 1] = Head(q)
      /\ \A i \in 1 .. Len(heard[s]) : h[i] = heard[s][i]
  BY <1>1, <1>4
<1>6. /\ queue'[s] = Tail(q) /\ heard'[s] = h
      /\ \A x \in Sources : x # s => queue'[x] = queue[x] /\ heard'[x] = heard[x]
  BY <1>1, <1>2, InvTypes
<1> HIDE DEF h, s, q
<1>7. Typed'
  <2>1. queue' \in [Sources -> Seq(1 .. MaxEvents)] /\ heard' \in [Sources -> Seq(1 .. MaxEvents)]
    BY <1>1, <1>2, <1>5, InvTypes DEF h
  <2>2. ASSUME NEW x \in Sources PROVE Len(queue'[x]) <= QueueLen
    <3>1. Len(queue[x]) <= QueueLen /\ Len(queue[x]) \in Nat /\ QueueLen \in Nat
      BY InvTypes DEF IInv, Typed, TypeOK
    <3>2. CASE x = s
      <4>1. Len(queue'[x]) = Len(queue[x]) - 1
        BY <1>1, <1>6, <3>2 DEF q
      <4>2. QED  BY <3>1, <4>1, Fewer
    <3>3. CASE x # s
      BY <1>6, <3>1, <3>3
    <3>4. QED  BY <3>2, <3>3
  <2>3. QED  BY <1>1, <1>2, <1>3, <2>1, <2>2, InvTypes DEF Typed, TypeOK, TaskType
<1>8. Ordered'
  BY <1>2, <1>3 DEF IInv, Ordered
<1>9. Counted'
  <2> SUFFICES ASSUME NEW x \in Sources
               PROVE  Count(set', x) = IF x \in member THEN Len(queue'[x]) ELSE 0
    BY <1>2 DEF Counted
  <2>1. Count(set, x) = IF x \in member THEN Len(queue[x]) ELSE 0
    BY DEF IInv, Counted
  <2>2. CASE x = s
    BY <1>1, <1>2, <1>6, <2>1, <2>2 DEF q
  <2>3. CASE x # s
    BY <1>1, <1>2, <1>6, <2>1, <2>3
  <2>4. QED  BY <2>2, <2>3
<1>10. Accounted'
  <2> SUFFICES ASSUME NEW x \in Sources
               PROVE  Ends(queue[x], sent[x])' /\ (x \in member /\ Keeping' => Kept(x)')
    BY <1>2 DEF Accounted
  <2>1. Ends(queue[x], sent[x]) /\ (x \in member /\ Keeping => Kept(x)) /\ (Keeping' <=> Keeping)
    BY <1>3 DEF IInv, Accounted, Keeping
  <2>2. CASE x # s
    BY <1>2, <1>6, <2>1, <2>2 DEF Kept
  <2>3. CASE x = s
    <3>1. Ends(queue'[s], sent'[s])
      <4>1. queue'[s] = Tail(q) /\ sent'[s] = sent[s]
        BY <1>2, <1>6
      <4>2. QED  BY <1>1, <4>1
    <3>2. ASSUME Kept(s) PROVE Kept(x)'
      <4>1. Head(q) = since[s] + Len(h) /\ since[s] + Len(h) + Len(Tail(q)) = sent[s]
        <5>1. since[s] + Len(heard[s]) + Len(q) = sent[s]
          BY <3>2 DEF Kept, q
        <5>2. Len(q) # 0
          BY <1>1, InvTypes DEF q
        <5>3. /\ sent[s] - Len(q) + 1 = since[s] + (Len(heard[s]) + 1)
              /\ since[s] + (Len(heard[s]) + 1) + (Len(q) - 1) = sent[s]
          <6>1. /\ since[s] \in Nat /\ Len(heard[s]) \in Nat
                /\ Len(q) \in Nat /\ sent[s] \in Nat
            BY <1>4
          <6>2. QED  BY ONLY <5>1, <6>1
        <5>4. QED  BY <1>1, <1>5, <5>3
      <4>2. ASSUME NEW i \in 1 .. Len(h) PROVE h[i] = since[s] + i
        <5>1. CASE i = Len(h)
          BY <1>5, <4>1, <5>1
        <5>2. CASE i # Len(h)
          <6>1. i \in 1 .. Len(heard[s])
            BY <1>4, <1>5, <5>2
          <6>2. QED  BY <1>5, <3>2, <6>1 DEF Kept
        <5>3. QED  BY <5>1, <5>2
      <4>3. /\ queue'[s] = Tail(q) /\ heard'[s] = h /\ since'[s] = since[s] /\ sent'[s] = sent[s]
        BY <1>2, <1>6
      <4>4. /\ \A i \in 1 .. Len(heard'[s]) : heard'[s][i] = since'[s] + i
            /\ since'[s] + Len(heard'[s]) + Len(queue'[s]) = sent'[s]
        BY <4>1, <4>2, <4>3
      <4>5. QED  BY <2>3, <4>4 DEF Kept
    <3>3. QED  BY <1>2, <2>1, <2>3, <3>1, <3>2
  <2>4. QED  BY <2>2, <2>3
<1>11. QED  BY <1>7, <1>8, <1>9, <1>10 DEF IInv

LEMMA ChangeStep == ASSUME IInv, NEW s \in Sources, Change(s) PROVE IInv'
<1> DEFINE n == IF Contains(list, s) THEN Without(s) ELSE Append(list, s)
<1>1. /\ task' = [task EXCEPT !.pc = "drain", !.changes = @ + 1, !.raced = FALSE, !.next = n]
      /\ task.pc = "listens"
      /\ UNCHANGED <<queue, member, set, cap, list, sent, since, heard>>
  BY DEF Change, Changing, history
<1>2. n \in Seq(Sources) /\ Once(n)
  <2>1. list \in Seq(Sources) /\ Once(list) /\ DOMAIN list = 1 .. Len(list)
    BY InvTypes DEF IInv, Ordered
  <2>2. CASE Contains(list, s)
    <3>1. (CHOOSE i \in DOMAIN list : list[i] = s) \in 1 .. Len(list)
      BY <2>1, <2>2 DEF Contains
    <3>2. QED  BY <2>1, <2>2, <3>1, OnceRemove DEF Without
  <2>3. CASE ~Contains(list, s)
    BY <2>1, <2>3, OnceAppend
  <2>4. QED  BY <2>2, <2>3
<1> HIDE DEF n
<1>3. /\ task' \in TaskType /\ task'.pc = "drain" /\ task'.left = task.left
      /\ task'.next = n /\ task'.failed = task.failed
  <2>1. task \in TaskType /\ task.changes \in Nat
    BY InvTypes DEF TaskType
  <2>2. task.changes + 1 \in Nat
    BY <2>1
  <2>3. QED  BY <1>1, <1>2, <2>1, <2>2 DEF TaskType
<1>4. Typed'
  BY <1>1, <1>3, InvTypes DEF IInv, Typed, TypeOK, TaskType
<1>5. Ordered'
  BY <1>1, <1>2, <1>3 DEF IInv, Ordered
<1>6. Counted'
  BY <1>1 DEF IInv, Counted
<1>7. Accounted'
  BY <1>1, <1>3 DEF IInv, Accounted, Keeping
<1>8. QED  BY <1>4, <1>5, <1>6, <1>7 DEF IInv

\* A listed queue has an event: the drain ends when the set is empty.
LEMMA DrainEnds ==
  ASSUME IInv, Drain
  PROVE  /\ task.pc = "drain" /\ UNCHANGED <<member, cap, list, sent, since, heard>>
         /\ \/ /\ FirstSet # 0 /\ set # <<>> /\ queue[Head(set)] # <<>>
               /\ set' = Tail(set) /\ Receive(Head(set)) /\ UNCHANGED task
            \/ /\ FirstSet = 0 \/ set = <<>>
               /\ UNCHANGED <<set, queue>>
               /\ task' = [task EXCEPT !.pc = "detach", !.left = list]
  BY HeadListed DEF Drain, history

LEMMA DrainStep == ASSUME IInv, Drain PROVE IInv'
<1>1. CASE UNCHANGED task
  <2> DEFINE s == Head(set)
             q == queue[s]
  <2>1. task.pc = "drain" /\ UNCHANGED <<member, cap, list, sent, since, heard, task>>
    BY <1>1, DrainEnds
  <2>2. set # <<>> /\ set' = Tail(set) /\ queue' = [queue EXCEPT ![s] = Tail(q)]
    <3>1. "drain" # "detach"
      OBVIOUS
    <3>2. task' # [task EXCEPT !.pc = "detach", !.left = list]
      BY <2>1, <3>1, InvTypes DEF TaskType
    <3>3. QED  BY <3>2, DrainEnds DEF Receive
  <2>3. /\ s \in member /\ s \in Sources /\ q # <<>> /\ Tail(q) \in Seq(1 .. MaxEvents)
        /\ Len(Tail(q)) = Len(q) - 1 /\ Ends(Tail(q), sent[s])
        /\ Tail(set) \in Seq(Sources) /\ Len(Tail(set)) <= cap
        /\ \A x \in Sources :
             Count(Tail(set), x) = IF x = s THEN Count(set, x) - 1 ELSE Count(set, x)
    BY <2>2, TakeStep
  <2>4. queue'[s] = Tail(q) /\ \A x \in Sources : x # s => queue'[x] = queue[x]
    BY <2>2, <2>3, InvTypes
  <2> HIDE DEF s, q
  <2>5. Typed'
    <3>1. queue' \in [Sources -> Seq(1 .. MaxEvents)]
      BY <2>2, <2>3, InvTypes
    <3>2. ASSUME NEW x \in Sources PROVE Len(queue'[x]) <= QueueLen
      <4>1. Len(queue[x]) <= QueueLen /\ Len(queue[x]) \in Nat /\ QueueLen \in Nat
        BY InvTypes DEF IInv, Typed, TypeOK
      <4>2. CASE x = s
        <5>1. Len(queue'[x]) = Len(queue[x]) - 1
          BY <2>3, <2>4, <4>2 DEF q
        <5>2. QED  BY <4>1, <5>1, Fewer
      <4>3. CASE x # s
        BY <2>4, <4>1, <4>3
      <4>4. QED  BY <4>2, <4>3
    <3>3. QED  BY <2>1, <2>2, <2>3, <3>1, <3>2, InvTypes DEF IInv, Typed, TypeOK, TaskType
  <2>6. Ordered'
    BY <2>1 DEF IInv, Ordered
  <2>7. Counted'
    <3> SUFFICES ASSUME NEW x \in Sources
                 PROVE  Count(set', x) = IF x \in member THEN Len(queue'[x]) ELSE 0
      BY <2>1 DEF Counted
    <3>1. Count(set, x) = IF x \in member THEN Len(queue[x]) ELSE 0
      BY DEF IInv, Counted
    <3>2. CASE x = s
      BY <2>2, <2>3, <2>4, <3>1, <3>2 DEF q
    <3>3. CASE x # s
      BY <2>2, <2>3, <2>4, <3>1, <3>3
    <3>4. QED  BY <3>2, <3>3
  <2>8. Accounted'
    <3> SUFFICES ASSUME NEW x \in Sources PROVE Ends(queue'[x], sent[x])
      BY <2>1 DEF Accounted, Keeping
    <3>1. Ends(queue[x], sent[x])
      BY DEF IInv, Accounted
    <3>2. QED  BY <2>3, <2>4, <3>1
  <2>9. QED  BY <2>5, <2>6, <2>7, <2>8 DEF IInv
<1>2. CASE task' = [task EXCEPT !.pc = "detach", !.left = list]
  <2>1. /\ task.pc = "drain" /\ UNCHANGED <<queue, member, set, cap, list, sent, since, heard>>
    <3>1. task' # task
      <4>1. task'.pc = "detach" /\ task.pc = "drain"
        BY <1>2, InvTypes, DrainEnds DEF TaskType
      <4>2. QED  BY <4>1
    <3>2. QED  BY <3>1, DrainEnds
  <2>2. /\ task' \in TaskType /\ task'.pc = "detach" /\ task'.left = list
        /\ task'.next = task.next /\ task'.failed = task.failed
    BY <1>2, InvTypes DEF TaskType
  <2>3. Typed'
    BY <2>1, <2>2, InvTypes DEF IInv, Typed, TypeOK, TaskType
  <2>4. Ordered'
    BY <2>1, <2>2 DEF IInv, Ordered
  <2>5. Counted'
    BY <2>1 DEF IInv, Counted
  <2>6. Accounted'
    BY <2>1, <2>2 DEF IInv, Accounted, Keeping
  <2>7. QED  BY <2>3, <2>4, <2>5, <2>6 DEF IInv
<1>3. QED  BY <1>1, <1>2, DrainEnds

\* The change ends with an error.
LEMMA FailStep ==
  ASSUME IInv, task' = Fails, UNCHANGED <<queue, member, set, cap, list, sent, since, heard>>
  PROVE  IInv'
<1>1. /\ task' \in TaskType /\ task'.pc = "listens" /\ task'.left = task.left
      /\ task'.next = task.next /\ task'.failed
  BY InvTypes DEF TaskType, Fails
<1>2. Typed'
  BY <1>1, InvTypes DEF IInv, Typed, TypeOK, TaskType
<1>3. Ordered'
  BY <1>1 DEF IInv, Ordered
<1>4. Counted'
  BY DEF IInv, Counted
<1>5. Accounted'
  BY <1>1 DEF IInv, Accounted, Keeping
<1>6. QED  BY <1>2, <1>3, <1>4, <1>5 DEF IInv

\* A listener with a list has a set of its size.
LEMMA HasSet ==
  ASSUME IInv, list # <<>>
  PROVE  cap # 0
<1>1. Len(list) \in Nat /\ Len(list) > 0 /\ QueueLen \in Nat /\ QueueLen > 0
  BY InvTypes, LengthsAssumption
<1>2. \A a, b \in Nat : a > 0 /\ b > 0 => a * b # 0
  OBVIOUS
<1>3. QED  BY <1>1, <1>2 DEF IInv, Ordered

LEMMA DetachStep == ASSUME IInv, Detach PROVE IInv'
<1> DEFINE s == Head(task.left)
           t == Tail(task.left)
<1>1. task.pc = "detach" /\ task.left # <<>> /\ UNCHANGED <<queue, set, cap, list, sent, since, heard>>
  BY DEF Detach, history
<1>2. /\ s \in Sources /\ t \in Seq(Sources) /\ Once(t) /\ s \notin Range(t)
      /\ Range(task.left) = {s} \cup Range(t)
  BY <1>1, InvTypes, RangeTail DEF IInv, Ordered
<1>3. member \subseteq Range(task.left) /\ Range(task.left) \subseteq Range(list)
  BY <1>1 DEF IInv, Ordered
<1>4. cap # 0
  <2>1. list # <<>>
    BY <1>2, <1>3, InvTypes, RangeIs
  <2>2. QED  BY <2>1, HasSet
<1>5. CASE s \in member /\ queue[s] = <<>>
  <2>1. member' = member \ {s} /\ task' = [task EXCEPT !.left = t]
    BY <1>4, <1>5 DEF Detach
  <2> HIDE DEF s, t
  <2>2. /\ task' \in TaskType /\ task'.pc = "detach" /\ task'.left = t
        /\ task'.next = task.next /\ task'.failed = task.failed
    BY <1>1, <1>2, <2>1, InvTypes DEF TaskType
  <2>3. Typed'
    BY <1>1, <2>1, <2>2, InvTypes DEF IInv, Typed, TypeOK, TaskType
  <2>4. Ordered'
    BY <1>1, <1>2, <1>3, <2>1, <2>2 DEF IInv, Ordered
  <2>5. Counted'
    <3>1. Count(set, s) = 0
      <4>1. Len(queue[s]) = 0
        BY <1>5
      <4>2. QED  BY <1>2, <1>5, <4>1 DEF IInv, Counted
    <3>2. QED  BY <1>1, <2>1, <3>1 DEF IInv, Counted
  <2>6. Accounted'
    BY <1>1, <2>1, <2>2 DEF IInv, Accounted, Keeping
  <2>7. QED  BY <2>3, <2>4, <2>5, <2>6 DEF IInv
<1>6. CASE ~(s \in member /\ queue[s] = <<>>)
  <2>1. task' = Fails /\ member' = member
    BY <1>4, <1>6 DEF Detach
  <2>2. QED  BY <1>1, <2>1, FailStep
<1>7. QED  BY <1>5, <1>6

LEMMA RebuildStep == ASSUME IInv, Rebuild PROVE IInv'
<1>1. /\ task.pc = "detach" /\ task.left = <<>> /\ set' = <<>> /\ cap' = QueueLen * Len(task.next)
      /\ list' = task.next /\ task' = [task EXCEPT !.pc = "empty", !.left = task.next]
      /\ UNCHANGED <<queue, member, sent, since, heard>>
  BY DEF Rebuild, NewSet, history
<1>2. /\ task' \in TaskType /\ task'.pc = "empty" /\ task'.left = task.next
      /\ task'.next = task.next /\ task'.failed = task.failed
  BY <1>1, InvTypes DEF TaskType
<1>3. member = {}
  <2>1. Range(task.left) = {}
    BY <1>1, NoRange
  <2>2. QED  BY <1>1, <2>1 DEF IInv, Ordered
<1>4. <<>> \in Seq(Sources) /\ Len(<<>>) = 0 /\ 1 .. 0 = {}
  OBVIOUS
<1>5. cap' \in Nat /\ Len(set') <= cap'
  <2>1. Len(task.next) \in Nat /\ QueueLen \in Nat
    BY InvTypes
  <2>2. \A a, b \in Nat : a * b \in Nat /\ 0 <= a * b
    OBVIOUS
  <2>3. QED  BY <1>1, <1>4, <2>1, <2>2
<1>6. Typed'
  BY <1>1, <1>2, <1>4, <1>5, InvTypes DEF IInv, Typed, TypeOK, TaskType
<1>7. Ordered'
  BY <1>1, <1>2, <1>3 DEF IInv, Ordered
<1>8. Counted'
  <2>1. \A x \in Sources : Count(set', x) = 0
    BY <1>1, <1>4, CountZero
  <2>2. QED  BY <1>1, <1>3, <2>1 DEF Counted
<1>9. Accounted'
  BY <1>1, <1>3 DEF IInv, Accounted
<1>10. QED  BY <1>6, <1>7, <1>8, <1>9 DEF IInv

LEMMA EmptyStep == ASSUME IInv, Empty PROVE IInv'
<1> DEFINE s == Head(task.left)
<1>1. /\ task.pc = "empty" /\ task.left # <<>> /\ queue' = [queue EXCEPT ![s] = <<>>]
      /\ task' = [task EXCEPT !.pc = "add"]
      /\ UNCHANGED <<member, set, cap, list, sent, since, heard>>
  BY DEF Empty, history
<1>2. /\ task' \in TaskType /\ task'.pc = "add" /\ task'.left = task.left
      /\ task'.next = task.next /\ task'.failed = task.failed
  BY <1>1, InvTypes DEF TaskType
<1>3. s \in Sources /\ s \notin member
  <2>1. Once(task.left) /\ task.left \in Seq(Sources)
    BY InvTypes DEF IInv, Ordered
  <2>2. s \in Sources /\ Range(task.left) = {s} \cup Range(Tail(task.left))
    BY <1>1, <2>1, RangeTail
  <2>3. member \cap Range(task.left) = {}
    BY <1>1 DEF IInv, Ordered
  <2>4. QED  BY <2>2, <2>3
<1> HIDE DEF s
<1>4. queue'[s] = <<>> /\ \A x \in Sources : x # s => queue'[x] = queue[x]
  BY <1>1, <1>3, InvTypes
<1>5. <<>> \in Seq(1 .. MaxEvents) /\ Len(<<>>) = 0 /\ 1 .. 0 = {}
  OBVIOUS
<1>6. Typed'
  <2>1. queue' \in [Sources -> Seq(1 .. MaxEvents)]
    BY <1>1, <1>5, InvTypes
  <2>2. ASSUME NEW x \in Sources PROVE Len(queue'[x]) <= QueueLen
    <3>1. Len(queue[x]) <= QueueLen /\ QueueLen \in Nat /\ Len(<<>>) = 0
      BY <1>5, InvTypes DEF IInv, Typed, TypeOK
    <3>2. queue'[x] = queue[x] \/ queue'[x] = <<>>
      BY <1>4
    <3>3. QED  BY <3>1, <3>2
  <2>3. QED  BY <1>1, <1>2, <2>1, <2>2, InvTypes DEF IInv, Typed, TypeOK, TaskType
<1>7. Ordered'
  BY <1>1, <1>2 DEF IInv, Ordered
<1>8. Counted'
  BY <1>1, <1>3, <1>4 DEF IInv, Counted
<1>9. Accounted'
  <2> SUFFICES ASSUME NEW x \in Sources
               PROVE  Ends(queue[x], sent[x])' /\ (x \in member /\ Keeping' => Kept(x)')
    BY <1>1 DEF Accounted
  <2>1. Ends(queue[x], sent[x]) /\ (x \in member /\ Keeping => Kept(x)) /\ (Keeping' <=> Keeping)
    BY <1>1, <1>2 DEF IInv, Accounted, Keeping
  <2>2. CASE x # s
    BY <1>1, <1>4, <2>1, <2>2 DEF Kept
  <2>3. CASE x = s
    <3>1. sent'[s] \in Nat
      BY <1>1, <1>3, InvTypes
    <3>2. Ends(<<>>, sent'[s])
      BY <1>5, <3>1 DEF Ends
    <3>3. QED  BY <1>3, <1>4, <2>3, <3>2
  <2>4. QED  BY <2>2, <2>3
<1>10. QED  BY <1>6, <1>7, <1>8, <1>9 DEF IInv

LEMMA AddStep == ASSUME IInv, Add PROVE IInv'
<1> DEFINE s == Head(task.left)
           t == Tail(task.left)
<1>1. task.pc = "add" /\ task.left # <<>> /\ UNCHANGED <<queue, set, cap, list, sent>>
  BY DEF Add, IInv, Ordered
<1>2. /\ s \in Sources /\ t \in Seq(Sources) /\ Once(t) /\ s \notin Range(t)
      /\ Range(task.left) = {s} \cup Range(t)
  BY <1>1, InvTypes, RangeTail DEF IInv, Ordered
<1>3. /\ Range(list) = member \cup Range(task.left) /\ member \cap Range(task.left) = {}
  BY <1>1 DEF IInv, Ordered
<1>4. CASE queue[s] = <<>>
  <2>1. /\ member' = member \cup {s} /\ task' = [task EXCEPT !.pc = "empty", !.left = t]
        /\ since' = [since EXCEPT ![s] = sent[s] - Len(queue[s])]
        /\ heard' = [heard EXCEPT ![s] = <<>>]
    BY <1>4 DEF Add, Adds
  <2> HIDE DEF s, t
  <2>2. /\ task' \in TaskType /\ task'.pc = "empty" /\ task'.left = t
        /\ task'.next = task.next /\ task'.failed = task.failed
    BY <1>1, <1>2, <2>1, InvTypes DEF TaskType
  <2>3. sent[s] \in 0 .. MaxEvents /\ sent[s] \in Nat /\ Len(queue[s]) = 0
        /\ sent[s] - Len(queue[s]) = sent[s]
    BY <1>2, <1>4, InvTypes
  <2>4. since'[s] = sent[s] /\ heard'[s] = <<>>
        /\ \A x \in Sources : x # s => since'[x] = since[x] /\ heard'[x] = heard[x]
    BY <1>2, <2>1, <2>3, InvTypes
  <2>5. Typed'
    <3>1. since' \in [Sources -> 0 .. MaxEvents] /\ heard' \in [Sources -> Seq(1 .. MaxEvents)]
      <4>1. <<>> \in Seq(1 .. MaxEvents)
        OBVIOUS
      <4>2. QED  BY <2>1, <2>3, <4>1, InvTypes
    <3>2. QED  BY <1>1, <1>2, <2>1, <2>2, <3>1, InvTypes DEF IInv, Typed, TypeOK, TaskType
  <2>6. Ordered'
    BY <1>1, <1>2, <1>3, <2>1, <2>2 DEF IInv, Ordered
  <2>7. Counted'
    <3>1. s \notin member
      BY <1>2, <1>3
    <3>2. Count(set, s) = 0
      BY <1>2, <3>1 DEF IInv, Counted
    <3>3. QED  BY <1>1, <2>1, <2>3, <3>2 DEF IInv, Counted
  <2>8. Accounted'
    <3> SUFFICES ASSUME NEW x \in Sources
                 PROVE  Ends(queue[x], sent[x])' /\ (x \in member' /\ Keeping' => Kept(x)')
      BY DEF Accounted
    <3>1. Ends(queue[x], sent[x]) /\ (x \in member /\ Keeping => Kept(x)) /\ (Keeping' <=> Keeping)
      BY <1>1, <2>2 DEF IInv, Accounted, Keeping
    <3>2. CASE x # s
      BY <1>1, <2>1, <2>4, <3>1, <3>2 DEF Kept
    <3>3. CASE x = s
      <4>1. Len(heard'[s]) = 0 /\ Len(queue'[s]) = 0 /\ since'[s] = sent'[s] /\ sent'[s] \in Nat
        BY <1>1, <2>3, <2>4
      <4>2. 1 .. 0 = {}
        OBVIOUS
      <4>3. /\ \A i \in 1 .. Len(heard'[s]) : heard'[s][i] = since'[s] + i
            /\ since'[s] + Len(heard'[s]) + Len(queue'[s]) = sent'[s]
        BY <4>1, <4>2
      <4>4. Ends(queue[x], sent[x])'
        BY <1>1, <3>1
      <4>5. Kept(x)'
        BY <3>3, <4>3 DEF Kept
      <4>6. QED  BY <4>4, <4>5
    <3>4. QED  BY <3>2, <3>3
  <2>9. QED  BY <2>5, <2>6, <2>7, <2>8 DEF IInv
<1>5. CASE queue[s] # <<>>
  <2>1. task' = Fails /\ UNCHANGED <<member, since, heard>>
    BY <1>5 DEF Add, history
  <2>2. QED  BY <1>1, <2>1, FailStep
<1>6. QED  BY <1>4, <1>5

LEMMA ChangedStep == ASSUME IInv, Changed PROVE IInv'
<1>1. /\ task.pc = "empty" /\ task.left = <<>> /\ task' = [task EXCEPT !.pc = "listens", !.ret = "OK"]
      /\ UNCHANGED <<queue, member, set, cap, list, sent, since, heard>>
  BY DEF Changed, history
<1>2. /\ task' \in TaskType /\ task'.pc = "listens" /\ task'.left = task.left
      /\ task'.next = task.next /\ task'.failed = task.failed
  BY <1>1, InvTypes DEF TaskType
<1>3. member = Range(list)
  <2>1. Range(task.left) = {}
    BY <1>1, NoRange
  <2>2. QED  BY <1>1, <2>1 DEF IInv, Ordered
<1>4. Typed'
  BY <1>1, <1>2, InvTypes DEF IInv, Typed, TypeOK, TaskType
<1>5. Ordered'
  BY <1>1, <1>2, <1>3 DEF IInv, Ordered
<1>6. Counted'
  BY <1>1 DEF IInv, Counted
<1>7. Accounted'
  BY <1>1, <1>2 DEF IInv, Accounted, Keeping, Kept
<1>8. QED  BY <1>4, <1>5, <1>6, <1>7 DEF IInv

LEMMA IdleStep == ASSUME IInv, UNCHANGED vars PROVE IInv'
<1>1. UNCHANGED <<queue, member, set, cap, list, task, sent, since, heard>>
  BY DEF vars
<1>2. Typed' /\ Ordered' /\ Counted'
  BY <1>1 DEF IInv, Typed, TypeOK, Ordered, Counted
<1>3. Accounted'
  BY <1>1 DEF IInv, Accounted, Keeping, Kept
<1>4. QED  BY <1>2, <1>3 DEF IInv

\* So every step keeps it,
LEMMA NextIInv == IInv /\ [Next]_vars => IInv'
<1> SUFFICES ASSUME IInv, [Next]_vars PROVE IInv'
  OBVIOUS
<1>1. ASSUME NEW s \in Sources, Sendout(s) PROVE IInv'
  BY <1>1, SendoutStep
<1>2. ASSUME NEW s \in Sources, Change(s) PROVE IInv'
  BY <1>2, ChangeStep
<1>3. CASE Listen
  BY <1>3, ListenStep
<1>4. CASE Drain
  BY <1>4, DrainStep
<1>5. CASE Detach
  BY <1>5, DetachStep
<1>6. CASE Rebuild
  BY <1>6, RebuildStep
<1>7. CASE Empty
  BY <1>7, EmptyStep
<1>8. CASE Add
  BY <1>8, AddStep
<1>9. CASE Changed
  BY <1>9, ChangedStep
<1>10. CASE UNCHANGED vars
  BY <1>10, IdleStep
<1>11. QED
  BY <1>1, <1>2, <1>3, <1>4, <1>5, <1>6, <1>7, <1>8, <1>9, <1>10 DEF Next, Goes

\* And it holds in every reachable state,
LEMMA Invariant == Spec => []IInv
<1>1. Init => IInv
  BY InitIInv
<1>2. IInv /\ [Next]_vars => IInv'
  BY NextIInv
<1>3. QED  BY <1>1, <1>2, PTL DEF Spec

\* Where it says what is checked.
LEMMA InStepHolds == IInv => InStep
<1> SUFFICES ASSUME IInv PROVE InStep
  OBVIOUS
<1>1. TypeOK
  BY DEF IInv, Typed
<1>2. Listed
  <2> SUFFICES ASSUME NEW s \in member PROVE Entries(s) = Len(queue[s])
    BY DEF Listed
  <2>1. DOMAIN set = 1 .. Len(set) /\ s \in Sources
    BY InvTypes
  <2>2. Entries(s) = Count(set, s)
    BY <2>1 DEF Entries, Count, Slots
  <2>3. QED  BY <2>1, <2>2 DEF IInv, Counted
<1>3. SetHasRoom
  BY RoomInSet
<1>4. Attached
  BY DEF IInv, Ordered, Attached, Changing
<1>5. Complete
  <2> SUFFICES ASSUME task.pc = "listens", ~task.failed, NEW s \in Range(list)
               PROVE  heard[s] \o queue[s] = [i \in 1 .. sent[s] - since[s] |-> since[s] + i]
    BY DEF Complete, Changing
  <2>1. s \in member /\ s \in Sources /\ Keeping
    BY <1>4, InvTypes DEF Attached, Changing, Keeping
  <2>2. Ends(queue[s], sent[s]) /\ Kept(s)
    BY <2>1 DEF IInv, Accounted
  <2>3. /\ heard[s] \in Seq(1 .. MaxEvents) /\ queue[s] \in Seq(1 .. MaxEvents)
        /\ since[s] \in Nat /\ sent[s] \in Nat
    BY <2>1, InvTypes
  <2>4. /\ \A i \in 1 .. Len(heard[s]) : heard[s][i] = since[s] + i
        /\ since[s] + Len(heard[s]) + Len(queue[s]) = sent[s]
    BY <2>2 DEF Kept
  <2> DEFINE h == heard[s]
             q == queue[s]
             a == since[s]
             n == sent[s]
             c == h \o q
  <2>5. /\ h \in Seq(1 .. MaxEvents) /\ q \in Seq(1 .. MaxEvents) /\ a \in Nat /\ n \in Nat
        /\ Ends(q, n) /\ a + Len(h) + Len(q) = n /\ \A i \in 1 .. Len(h) : h[i] = a + i
    BY <2>2, <2>3, <2>4
  <2> HIDE DEF h, q, a, n
  \* What has been heard and what is still queued make up all that was sent.
  <2>6. c \in Seq(1 .. MaxEvents) /\ Len(c) = n - a /\ \A i \in 1 .. n - a : c[i] = a + i
    <3>1. Len(h) \in Nat /\ Len(q) \in Nat /\ n - a = Len(h) + Len(q) /\ n - a \in Nat
      BY <2>5
    <3>2. /\ c \in Seq(1 .. MaxEvents) /\ Len(c) = Len(h) + Len(q)
          /\ \A i \in 1 .. Len(h) + Len(q) : c[i] = IF i <= Len(h) THEN h[i] ELSE q[i - Len(h)]
      BY <2>5, ConcatProperties
    <3> HIDE DEF c
    <3>3. ASSUME NEW i \in 1 .. Len(c) PROVE c[i] = a + i
      <4>1. CASE i <= Len(h)
        <5>1. i \in 1 .. Len(h) /\ c[i] = h[i]
          BY <3>1, <3>2, <4>1
        <5>2. QED  BY <2>5, <5>1
      <4>2. CASE ~(i <= Len(h))
        <5>1. i - Len(h) \in 1 .. Len(q) /\ c[i] = q[i - Len(h)]
          BY <3>1, <3>2, <4>2
        <5>2. q[i - Len(h)] = n - Len(q) + (i - Len(h))
          BY <2>5, <5>1 DEF Ends
        <5>3. n - Len(q) + (i - Len(h)) = a + i
          <6>1. n = a + Len(h) + Len(q) /\ a \in Nat
            BY <2>5
          <6>2. i \in Int
            OBVIOUS
          <6>3. QED  BY <3>1, <6>1, <6>2
        <5>4. QED  BY <5>1, <5>2, <5>3
      <4>3. QED  BY <4>1, <4>2
    <3>4. QED  BY <2>5, <3>1, <3>2, <3>3
  <2> HIDE DEF c
  <2>7. c = [i \in 1 .. n - a |-> a + i]
    BY <2>6
  <2>8. QED  BY <2>7 DEF c, h, q, a, n
<1>6. QED  BY <1>1, <1>2, <1>3, <1>4, <1>5 DEF InStep

\* In every state the set lists exactly the events that wait in the queues of
\* its sources and has room for the next one; and whenever
\* audio_event_iface_set_listener or _remove_listener has returned without an
\* error, every source in the list is in the set and the listener has heard all
\* the events accepted since the source was added, in order, but for those
\* that wait.
THEOREM InStepKept == Spec => []InStep
<1>1. Spec => []IInv
  BY Invariant
<1>2. IInv => InStep
  BY InStepHolds
<1>3. QED  BY <1>1, <1>2, PTL

-----------------------------------------------------------------------------
(* Changes that fail.                                                      *)

\* While no source sends, a change finds the queues it has drained or
\* emptied as it left them.
Calm ==
  ~task.raced /\ ~task.failed =>
    /\ task.pc = "detach" =>
         \A s \in Range(task.left) : s \in member /\ queue[s] = <<>>
    /\ task.pc = "add" => queue[Head(task.left)] = <<>>

\* Every step keeps what a change finds calm, and none fails that found it so.
LEMMA CalmStep ==
  ASSUME FirstSet # 0, IInv, Calm, [Next]_vars
  PROVE  Calm' /\ (~task.failed /\ task'.failed => task.raced)
<1> USE DEF Calm
<1>1. ASSUME NEW s \in Sources, Sendout(s) PROVE Calm' /\ task'.failed = task.failed
  <2>1. task' = [task EXCEPT !.raced = @ \/ Changing]
    BY <1>1 DEF Sendout
  <2>2. task'.failed = task.failed /\ task'.pc = task.pc /\ (task'.raced <=> task.raced \/ Changing)
    BY <2>1, InvTypes DEF TaskType
  <2>3. QED  BY <2>2 DEF Changing
<1>2. ASSUME NEW s \in Sources, Change(s) PROVE Calm' /\ task'.failed = task.failed
  <2>1. task' = [task EXCEPT !.pc = "drain", !.changes = @ + 1, !.raced = FALSE,
                  !.next = IF Contains(list, s) THEN Without(s) ELSE Append(list, s)]
    BY <1>2 DEF Change
  <2>2. task'.failed = task.failed /\ task'.pc = "drain"
    BY <2>1, InvTypes DEF TaskType
  <2>3. QED  BY <2>2
<1>3. CASE Listen
  <2>1. \E r \in {"OK", "FAIL"} : task' = [task EXCEPT !.ret = r]
    BY <1>3 DEF Listen
  <2>2. task'.failed = task.failed /\ task'.pc = task.pc /\ task.pc = "listens"
    BY <1>3, <2>1, InvTypes DEF TaskType, Listen, Changing
  <2>3. QED  BY <2>2
<1>4. CASE Drain
  <2>1. CASE UNCHANGED task
    <3>1. task.pc = "drain"
      BY <1>4 DEF Drain
    <3>2. QED  BY <2>1, <3>1
  <2>2. CASE UNCHANGED <<set, queue>> /\ set = <<>> /\ task' = [task EXCEPT !.pc = "detach", !.left = list]
    <3>1. /\ task'.pc = "detach" /\ task'.left = list /\ task'.failed = task.failed
          /\ task.pc = "drain" /\ UNCHANGED <<member, queue>>
      BY <1>4, <2>2, InvTypes DEF TaskType, Drain
    <3>2. ASSUME ~task.failed, NEW s \in Range(list) PROVE s \in member /\ queue[s] = <<>>
      <4>1. s \in member /\ s \in Sources
        BY <3>1, <3>2, InvTypes DEF IInv, Ordered
      <4>2. Len(queue[s]) = 0
        <5>1. \A i \in 1 .. Len(set) : set[i] # s
          BY <2>2, NoRange
        <5>2. Count(set, s) = 0
          BY <5>1, CountZero, InvTypes
        <5>3. QED  BY <4>1, <5>2 DEF IInv, Counted
      <4>3. queue[s] \in Seq(1 .. MaxEvents)
        BY <4>1, InvTypes
      <4>4. QED  BY <4>1, <4>2, <4>3
    <3>3. QED  BY <3>1, <3>2
  <2>3. QED  BY <1>4, <2>1, <2>2, DrainEnds
<1>5. CASE Detach
  <2> DEFINE s == Head(task.left)
             t == Tail(task.left)
  <2>1. task.pc = "detach" /\ task.left # <<>> /\ queue' = queue
    BY <1>5 DEF Detach
  <2>2. /\ Range(task.left) = {s} \cup Range(t) /\ s \notin Range(t)
    BY <2>1, InvTypes, RangeTail DEF IInv, Ordered
  <2>3. CASE cap # 0 => s \in member /\ queue[s] = <<>>
    <3>1. member' = member \ {s} /\ task' = [task EXCEPT !.left = t]
      BY <1>5, <2>3 DEF Detach
    <3> HIDE DEF s, t
    <3>2. /\ task'.pc = "detach" /\ task'.left = t /\ task'.failed = task.failed
          /\ task'.raced = task.raced
      BY <2>1, <3>1, InvTypes DEF TaskType
    <3>3. QED  BY <2>1, <2>2, <3>1, <3>2
  <2>4. CASE ~(cap # 0 => s \in member /\ queue[s] = <<>>)
    <3>1. task' = Fails
      BY <1>5, <2>4 DEF Detach
    <3>2. task'.failed /\ task'.pc = "listens"
      BY <3>1, InvTypes DEF TaskType, Fails
    <3>3. task.raced \/ task.failed
      BY <2>1, <2>2, <2>4
    <3>4. QED  BY <3>2, <3>3
  <2>5. QED  BY <2>3, <2>4
<1>6. CASE Rebuild
  <2>1. task' = [task EXCEPT !.pc = "empty", !.left = task.next]
    BY <1>6 DEF Rebuild
  <2>2. task'.failed = task.failed /\ task'.pc = "empty"
    BY <2>1, InvTypes DEF TaskType
  <2>3. QED  BY <2>2
<1>7. CASE Empty
  <2> DEFINE s == Head(task.left)
  <2>1. /\ task' = [task EXCEPT !.pc = "add"] /\ queue' = [queue EXCEPT ![s] = <<>>]
        /\ task.left # <<>>
    BY <1>7 DEF Empty
  <2>2. s \in Sources
    BY <2>1, InvTypes
  <2>3. queue'[s] = <<>>
    BY <2>1, <2>2, InvTypes
  <2>4. task'.failed = task.failed /\ task'.pc = "add" /\ task'.left = task.left
    BY <2>1, InvTypes DEF TaskType
  <2>5. QED  BY <2>3, <2>4
<1>8. CASE Add
  <2> DEFINE s == Head(task.left)
  <2>1. CASE queue[s] = <<>>
    <3>1. task' = [task EXCEPT !.pc = "empty", !.left = Tail(task.left)]
      BY <1>8, <2>1 DEF Add, Adds
    <3>2. task'.failed = task.failed /\ task'.pc = "empty"
      BY <3>1, InvTypes DEF TaskType
    <3>3. QED  BY <3>2
  <2>2. CASE queue[s] # <<>>
    <3>1. task' = Fails /\ task.pc = "add"
      BY <1>8, <2>2 DEF Add
    <3>2. task'.failed /\ task'.pc = "listens"
      BY <3>1, InvTypes DEF TaskType, Fails
    <3>3. task.raced \/ task.failed
      BY <2>2, <3>1
    <3>4. QED  BY <3>2, <3>3
  <2>3. QED  BY <2>1, <2>2
<1>9. CASE Changed
  <2>1. task' = [task EXCEPT !.pc = "listens", !.ret = "OK"]
    BY <1>9 DEF Changed
  <2>2. task'.failed = task.failed /\ task'.pc = "listens"
    BY <2>1, InvTypes DEF TaskType
  <2>3. QED  BY <2>2
<1>10. CASE UNCHANGED vars
  <2>1. task' = task /\ queue' = queue /\ member' = member
    BY <1>10 DEF vars
  <2>2. QED  BY <2>1
<1>11. QED
  BY <1>1, <1>2, <1>3, <1>4, <1>5, <1>6, <1>7, <1>8, <1>9, <1>10 DEF Next, Goes

\* A listener created with a set (audio_event_iface_init with a queue_set_size)
\* fails to add or remove a source only when a source sends an event meanwhile,
\* or after such a failure: audio_event_iface_discard has drained the queues
\* that xQueueRemoveFromSet wants empty.
THEOREM OnlyRacesFail == ASSUME FirstSet # 0 PROVE Spec => FailsInRace
<1>1. Spec => []IInv
  BY Invariant
<1>2. Init => Calm
  BY DEF Init, Calm
<1>3. IInv /\ Calm /\ [Next]_vars => Calm'
  BY CalmStep
<1>4. IInv /\ Calm /\ [Next]_vars => [~task.failed /\ task'.failed => task.raced]_vars
  BY CalmStep
<1>5. QED  BY <1>1, <1>2, <1>3, <1>4, PTL DEF Spec, FailsInRace
=============================================================================
