-------------------------- MODULE SchedulerProofs --------------------------
(***************************************************************************)
(* The process manager, for any number of processes and semaphores: every  *)
(* process is on the queues its state asks for, the processor is given to  *)
(* the highest priority, a delay lasts as long as it was asked for, and    *)
(* prcount counts the processes.                                           *)
(***************************************************************************)
EXTENDS Kernel, SequenceTheorems, FiniteSetTheorems, WellFoundedInduction, TLAPS

-----------------------------------------------------------------------------
(* Sequences. *)

\* A sequence without repetitions.
One(q) == \A i, j \in 1 .. Len(q) : q[i] = q[j] => i = j

\* Every nonempty set of naturals has a least element.
LEMMA LeastNatural ==
  ASSUME NEW S \in SUBSET Nat, S # {}
  PROVE  \E m \in S : \A n \in S : m <= n
<1> DEFINE R == {ss \in Nat \X Nat : ss[1] < ss[2]}
<1>1. IsWellFoundedOn(R, Nat)
  BY NatLessThanWellFounded, Zenon DEF OpToRel
<1>2. PICK m \in S : \A n \in S : ~(<<n, m>> \in R)
  <2> HIDE DEF R
  <2> QED BY <1>1, WFMin
<1>3. ASSUME NEW n \in S PROVE m <= n
  <2>1. n \in Nat /\ m \in Nat /\ <<n, m>> \in Nat \X Nat
    OBVIOUS
  <2>2. n < m => <<n, m>>[1] < <<n, m>>[2]
    BY <2>1
  <2>3. n < m => <<n, m>> \in R
    BY <2>1, <2>2, Zenon
  <2>4. ~(n < m)
    BY <1>2, <2>3
  <2> QED BY <2>1, <2>4
<1> QED BY <1>3

\* A set of positions that holds everything before its elements is an initial segment,
\* and its size is its last element.
LEMMA Initial ==
  ASSUME NEW n \in Nat, NEW D \in SUBSET (1 .. n), \A i \in D : \A j \in 1 .. i : j \in D
  PROVE  D = 1 .. Cardinality(D) /\ Cardinality(D) \in 0 .. n
<1> DEFINE out == {i \in 1 .. n + 1 : i \notin D}
<1>1. n + 1 \in out /\ out \in SUBSET Nat
  OBVIOUS
<1>2. PICK m \in out : \A i \in out : m <= i
  <2> HIDE DEF out
  <2> QED BY <1>1, LeastNatural
<1>3. m \in 1 .. n + 1 /\ m \notin D /\ \A i \in 1 .. n + 1 : i < m => i \in D
  BY <1>2
<1>4. D = 1 .. m - 1
  <2>1. ASSUME NEW i \in D PROVE i \in 1 .. m - 1
    <3>1. i \in 1 .. n /\ ~(m \in 1 .. i)
      BY <1>3
    <3> QED BY <1>3, <3>1
  <2>2. ASSUME NEW i \in 1 .. m - 1 PROVE i \in D
    BY <1>3
  <2> QED BY <2>1, <2>2
<1>5. Cardinality(1 .. m - 1) = m - 1
  <2>1. 1 \in Int /\ m - 1 \in Int
    BY <1>3
  <2>2. Cardinality(1 .. m - 1) = IF 1 > m - 1 THEN 0 ELSE (m - 1) - 1 + 1
    BY <2>1, FS_Interval
  <2> QED BY <1>3, <2>2
<1> HIDE DEF out
<1>6. Cardinality(D) = m - 1
  BY <1>4, <1>5
<1> QED BY <1>3, <1>4, <1>6

\* The size of a set of positions.
LEMMA Positions ==
  ASSUME NEW n \in Nat, NEW D \in SUBSET (1 .. n)
  PROVE  Cardinality(D) \in 0 .. n
<1>1. IsFiniteSet(1 .. n) /\ Cardinality(1 .. n) = n
  <2>1. 1 \in Int /\ n \in Int
    OBVIOUS
  <2>2. IsFiniteSet(1 .. n) /\ Cardinality(1 .. n) = IF 1 > n THEN 0 ELSE n - 1 + 1
    BY <2>1, FS_Interval
  <2> QED BY <2>2
<1>2. IsFiniteSet(D) /\ Cardinality(D) <= n
  BY <1>1, FS_Subset
<1>3. Cardinality(D) \in Nat
  BY <1>2, FS_CardinalityType
<1> QED BY <1>2, <1>3

\* InsertAt shifts what is behind the new element.
LEMMA Inserted ==
  ASSUME NEW S, NEW q \in Seq(S), NEW i \in Nat \ {0}, i <= Len(q) + 1, NEW e \in S
  PROVE  LET r == InsertAt(q, i, e)
         IN  /\ r \in Seq(S) /\ Len(r) = Len(q) + 1 /\ r[i] = e
             /\ \A j \in 1 .. i - 1 : r[j] = q[j]
             /\ \A j \in i + 1 .. Len(q) + 1 : r[j] = q[j - 1]
<1> DEFINE n == Len(q)
           s1 == SubSeq(q, 1, i - 1)
           s2 == SubSeq(q, i, n)
           r1 == s1 \o <<e>>
           r == r1 \o s2
<1>1. n \in Nat /\ i \in Int /\ 1 <= i /\ i <= n + 1 /\ \A j \in 1 .. n : q[j] \in S
  BY LenProperties
<1>2. s1 \in Seq(S) /\ Len(s1) = i - 1 /\ \A j \in 1 .. i - 1 : s1[j] = q[j]
  <2>1. \A j \in 1 .. i - 1 : q[j] \in S
    BY <1>1
  <2>2. /\ s1 \in Seq(S) /\ Len(s1) = IF 1 <= i - 1 THEN (i - 1) - 1 + 1 ELSE 0
        /\ \A j \in 1 .. (i - 1) - 1 + 1 : s1[j] = q[1 + j - 1]
    BY <1>1, <2>1, SubSeqProperties
  <2> HIDE DEF s1
  <2>3. \A j \in 1 .. i - 1 : j \in 1 .. (i - 1) - 1 + 1 /\ 1 + j - 1 = j
    BY <1>1
  <2>4. Len(s1) = i - 1
    BY <1>1, <2>2
  <2> QED BY <2>2, <2>3, <2>4
<1>3. s2 \in Seq(S) /\ Len(s2) = n - i + 1 /\ \A j \in 1 .. n - i + 1 : s2[j] = q[i + j - 1]
  <2>1. \A j \in i .. n : q[j] \in S
    BY <1>1
  <2>2. /\ s2 \in Seq(S) /\ Len(s2) = IF i <= n THEN n - i + 1 ELSE 0
        /\ \A j \in 1 .. n - i + 1 : s2[j] = q[i + j - 1]
    BY <1>1, <2>1, SubSeqProperties
  <2> HIDE DEF s2
  <2> QED BY <1>1, <2>2
<1> HIDE DEF s1, s2
<1>4. <<e>> \in Seq(S) /\ Len(<<e>>) = 1 /\ <<e>>[1] = e
  OBVIOUS
<1>5. /\ r1 \in Seq(S) /\ Len(r1) = i /\ r1[i] = e
      /\ \A j \in 1 .. i - 1 : r1[j] = q[j]
  <2>1. /\ r1 \in Seq(S) /\ Len(r1) = Len(s1) + Len(<<e>>)
        /\ \A j \in 1 .. Len(s1) + Len(<<e>>) : r1[j] = IF j <= Len(s1) THEN s1[j] ELSE <<e>>[j - Len(s1)]
    BY <1>2, <1>4, ConcatProperties
  <2> HIDE DEF r1
  <2>2. Len(r1) = i /\ \A j \in 1 .. i : r1[j] = IF j <= i - 1 THEN s1[j] ELSE <<e>>[j - (i - 1)]
    <3>1. Len(s1) + Len(<<e>>) = i
      BY ONLY <1>1, <1>2, <1>4
    <3>2. Len(s1) = i - 1
      BY <1>2
    <3> QED BY ONLY <2>1, <3>1, <3>2, Zenon
  <2>3. i \in 1 .. i /\ ~(i <= i - 1) /\ i - (i - 1) = 1 /\ \A j \in 1 .. i - 1 : j \in 1 .. i /\ j <= i - 1
    BY ONLY <1>1
  <2>4. r1[i] = e
    BY ONLY <1>4, <2>2, <2>3
  <2>5. \A j \in 1 .. i - 1 : r1[j] = q[j]
    BY ONLY <1>2, <2>2, <2>3
  <2> QED BY ONLY <2>1, <2>2, <2>4, <2>5
<1> HIDE DEF r1
<1>6. /\ r \in Seq(S) /\ Len(r) = Len(r1) + Len(s2)
      /\ \A j \in 1 .. Len(r1) + Len(s2) : r[j] = IF j <= Len(r1) THEN r1[j] ELSE s2[j - Len(r1)]
  BY <1>3, <1>5, ConcatProperties
<1> HIDE DEF r
<1>7. Len(r) = n + 1 /\ \A j \in 1 .. n + 1 : r[j] = IF j <= i THEN r1[j] ELSE s2[j - i]
  BY <1>1, <1>3, <1>5, <1>6
<1>8. \A j \in i + 1 .. n + 1 : /\ j \in 1 .. n + 1 /\ ~(j <= i) /\ j - i \in 1 .. n - i + 1
                                /\ i + (j - i) - 1 = j - 1
  BY <1>1
<1>9. i \in 1 .. n + 1 /\ i <= i /\ \A j \in 1 .. i - 1 : j \in 1 .. n + 1 /\ j <= i
  BY <1>1
<1>10. r = InsertAt(q, i, e)
  BY DEF InsertAt, r, r1, s1, s2
<1> HIDE DEF n
<1>11. /\ r \in Seq(S) /\ Len(r) = n + 1 /\ r[i] = e
       /\ \A j \in 1 .. i - 1 : r[j] = q[j]
       /\ \A j \in i + 1 .. n + 1 : r[j] = q[j - 1]
  BY <1>3, <1>5, <1>6, <1>7, <1>8, <1>9
<1> QED BY <1>10, <1>11 DEF n

\* It adds one element to a sequence without repetitions.
LEMMA InsertedOne ==
  ASSUME NEW S, NEW q \in Seq(S), NEW i \in Nat \ {0}, i <= Len(q) + 1, NEW e \in S, One(q), ~Contains(q, e)
  PROVE  LET r == InsertAt(q, i, e)
         IN  One(r) /\ \A x : Contains(r, x) <=> Contains(q, x) \/ x = e
<1> DEFINE r == InsertAt(q, i, e)
           From(j) == IF j < i THEN j ELSE j - 1
<1>1. /\ r \in Seq(S) /\ Len(r) = Len(q) + 1 /\ r[i] = e
      /\ \A j \in 1 .. i - 1 : r[j] = q[j]
      /\ \A j \in i + 1 .. Len(q) + 1 : r[j] = q[j - 1]
  BY Inserted
<1> HIDE DEF r
<1>2. Len(q) \in Nat /\ i \in Int
  BY LenProperties
<1>3. ASSUME NEW j \in 1 .. Len(r), j # i
      PROVE  From(j) \in 1 .. Len(q) /\ r[j] = q[From(j)]
  <2>1. CASE j < i
    <3>1. j \in 1 .. i - 1 /\ j \in 1 .. Len(q)
      BY <1>1, <1>2, <2>1
    <3> QED BY <1>1, <2>1, <3>1
  <2>2. CASE ~(j < i)
    <3>1. j \in i + 1 .. Len(q) + 1 /\ j - 1 \in 1 .. Len(q)
      BY <1>1, <1>2, <1>3, <2>2
    <3> QED BY <1>1, <2>2, <3>1
  <2> QED BY <2>1, <2>2
<1>4. \A j, l \in 1 .. Len(r) : j # i /\ l # i /\ From(j) = From(l) => j = l
  BY <1>1, <1>2
<1>5. \A j \in 1 .. Len(r) : j # i => r[j] # e
  BY <1>3 DEF Contains
<1>6. One(r)
  <2> SUFFICES ASSUME NEW j \in 1 .. Len(r), NEW l \in 1 .. Len(r), r[j] = r[l] PROVE j = l
    BY DEF One
  <2>1. CASE j # i /\ l # i
    <3>1. From(j) \in 1 .. Len(q) /\ From(l) \in 1 .. Len(q) /\ q[From(j)] = q[From(l)]
      BY <1>3, <2>1
    <3>2. From(j) = From(l)
      <4> HIDE DEF From
      <4> QED BY <3>1 DEF One
    <3> QED BY <1>4, <2>1, <3>2
  <2>2. CASE j = i \/ l = i
    BY <1>1, <1>5, <2>2
  <2> QED BY <2>1, <2>2
<1>7. ASSUME NEW x, Contains(r, x) PROVE Contains(q, x) \/ x = e
  <2>1. PICK j \in 1 .. Len(r) : r[j] = x
    BY <1>7 DEF Contains
  <2>2. CASE j = i
    BY <1>1, <2>1, <2>2
  <2>3. CASE j # i
    <3> HIDE DEF From
    <3> QED BY <1>3, <2>1, <2>3 DEF Contains
  <2> QED BY <2>2, <2>3
<1>8. ASSUME NEW x, Contains(q, x) PROVE Contains(r, x)
  <2>1. PICK j \in 1 .. Len(q) : q[j] = x
    BY <1>8 DEF Contains
  <2>2. CASE j < i
    <3>1. j \in 1 .. i - 1 /\ j \in 1 .. Len(r)
      BY <1>1, <1>2, <2>2
    <3> QED BY <1>1, <2>1, <3>1 DEF Contains
  <2>3. CASE ~(j < i)
    <3>1. j + 1 \in i + 1 .. Len(q) + 1 /\ (j + 1) - 1 = j /\ j + 1 \in 1 .. Len(r)
      BY <1>1, <1>2, <2>3
    <3>2. r[j + 1] = x
      BY <1>1, <2>1, <3>1
    <3> QED BY <3>1, <3>2 DEF Contains
  <2> QED BY <2>2, <2>3
<1>9. Contains(r, e)
  <2>1. i \in 1 .. Len(r)
    BY <1>1, <1>2
  <2> QED BY <1>1, <2>1 DEF Contains
<1>10. One(r) /\ \A x : Contains(r, x) <=> Contains(q, x) \/ x = e
  BY <1>6, <1>7, <1>8, <1>9
<1> QED BY <1>10 DEF r

\* RemoveAt closes the gap.
LEMMA Removed ==
  ASSUME NEW S, NEW q \in Seq(S), NEW i \in 1 .. Len(q)
  PROVE  LET r == RemoveAt(q, i)
         IN  /\ r \in Seq(S) /\ Len(r) = Len(q) - 1
             /\ \A j \in 1 .. i - 1 : r[j] = q[j]
             /\ \A j \in i .. Len(q) - 1 : r[j] = q[j + 1]
<1> DEFINE n == Len(q)
           s1 == SubSeq(q, 1, i - 1)
           s2 == SubSeq(q, i + 1, n)
           r == s1 \o s2
<1>1. n \in Nat /\ i \in Int /\ 1 <= i /\ i <= n /\ \A j \in 1 .. n : q[j] \in S
  BY LenProperties
<1>2. s1 \in Seq(S) /\ Len(s1) = i - 1 /\ \A j \in 1 .. i - 1 : s1[j] = q[j]
  <2>1. \A j \in 1 .. i - 1 : q[j] \in S
    BY <1>1
  <2>2. /\ s1 \in Seq(S) /\ Len(s1) = IF 1 <= i - 1 THEN (i - 1) - 1 + 1 ELSE 0
        /\ \A j \in 1 .. (i - 1) - 1 + 1 : s1[j] = q[1 + j - 1]
    BY <1>1, <2>1, SubSeqProperties
  <2> HIDE DEF s1
  <2>3. \A j \in 1 .. i - 1 : j \in 1 .. (i - 1) - 1 + 1 /\ 1 + j - 1 = j
    BY <1>1
  <2>4. Len(s1) = i - 1
    BY <1>1, <2>2
  <2> QED BY <2>2, <2>3, <2>4
<1>3. s2 \in Seq(S) /\ Len(s2) = n - i /\ \A j \in 1 .. n - i : s2[j] = q[i + j]
  <2>1. \A j \in i + 1 .. n : q[j] \in S
    BY <1>1
  <2>2. /\ s2 \in Seq(S) /\ Len(s2) = IF i + 1 <= n THEN n - (i + 1) + 1 ELSE 0
        /\ \A j \in 1 .. n - (i + 1) + 1 : s2[j] = q[(i + 1) + j - 1]
    BY <1>1, <2>1, SubSeqProperties
  <2> HIDE DEF s2
  <2>3. \A j \in 1 .. n - i : j \in 1 .. n - (i + 1) + 1 /\ (i + 1) + j - 1 = i + j
    BY <1>1
  <2>4. Len(s2) = n - i
    BY <1>1, <2>2
  <2> QED BY <2>2, <2>3, <2>4
<1> HIDE DEF s1, s2
<1>4. /\ r \in Seq(S) /\ Len(r) = Len(s1) + Len(s2)
      /\ \A j \in 1 .. Len(s1) + Len(s2) : r[j] = IF j <= Len(s1) THEN s1[j] ELSE s2[j - Len(s1)]
  BY <1>2, <1>3, ConcatProperties
<1> HIDE DEF r
<1>5. Len(r) = n - 1 /\ \A j \in 1 .. n - 1 : r[j] = IF j <= i - 1 THEN s1[j] ELSE s2[j - (i - 1)]
  BY <1>1, <1>2, <1>3, <1>4
<1>6. \A j \in i .. n - 1 : /\ j \in 1 .. n - 1 /\ ~(j <= i - 1) /\ j - (i - 1) \in 1 .. n - i
                            /\ i + (j - (i - 1)) = j + 1
  BY <1>1
<1>7. \A j \in 1 .. i - 1 : j \in 1 .. n - 1 /\ j <= i - 1
  BY <1>1
<1>8. r = RemoveAt(q, i)
  BY DEF RemoveAt, r, s1, s2
<1> HIDE DEF n
<1>9. /\ r \in Seq(S) /\ Len(r) = n - 1
      /\ \A j \in 1 .. i - 1 : r[j] = q[j]
      /\ \A j \in i .. n - 1 : r[j] = q[j + 1]
  BY <1>2, <1>3, <1>4, <1>5, <1>6, <1>7
<1> QED BY <1>8, <1>9 DEF n

\* RemovePid takes a process out of a queue without repetitions.
LEMMA RemovedOne ==
  ASSUME NEW S, NEW q \in Seq(S), One(q), NEW e
  PROVE  LET r == RemovePid(q, e)
         IN  /\ r \in Seq(S) /\ One(r)
             /\ Len(r) = IF Contains(q, e) THEN Len(q) - 1 ELSE Len(q)
             /\ \A x : Contains(r, x) <=> Contains(q, x) /\ x # e
<1>1. CASE ~Contains(q, e)
  BY <1>1 DEF RemovePid
<1>2. CASE Contains(q, e)
  <2>1. DOMAIN q = 1 .. Len(q) /\ Len(q) \in Nat
    BY LenProperties
  <2>2. PICK i \in 1 .. Len(q) : i = CHOOSE l \in DOMAIN q : q[l] = e
    <3>1. \E l \in DOMAIN q : q[l] = e
      BY <1>2, <2>1 DEF Contains
    <3> QED BY <2>1, <3>1
  <2>3. q[i] = e
    <3>1. \E l \in DOMAIN q : q[l] = e
      BY <1>2, <2>1 DEF Contains
    <3> QED BY <2>2, <3>1
  <2> DEFINE r == RemoveAt(q, i)
             To(j) == IF j < i THEN j ELSE j + 1
  <2>4. RemovePid(q, e) = r
    BY <1>2, <2>2 DEF RemovePid
  <2>5. /\ r \in Seq(S) /\ Len(r) = Len(q) - 1
        /\ \A j \in 1 .. i - 1 : r[j] = q[j]
        /\ \A j \in i .. Len(q) - 1 : r[j] = q[j + 1]
    BY Removed
  <2> HIDE DEF r
  <2>6. ASSUME NEW j \in 1 .. Len(r) PROVE To(j) \in 1 .. Len(q) /\ r[j] = q[To(j)] /\ To(j) # i
    <3>1. CASE j < i
      <4>1. j \in 1 .. i - 1 /\ j \in 1 .. Len(q)
        BY <2>1, <2>5, <3>1
      <4> QED BY <2>5, <3>1, <4>1
    <3>2. CASE ~(j < i)
      <4>1. j \in i .. Len(q) - 1 /\ j + 1 \in 1 .. Len(q) /\ j + 1 # i
        BY <2>1, <2>5, <3>2
      <4> QED BY <2>5, <3>2, <4>1
    <3> QED BY <3>1, <3>2
  <2>7. \A j, l \in 1 .. Len(r) : To(j) = To(l) => j = l
    BY <2>1, <2>5
  <2>8. \A j \in 1 .. Len(q) : j # i => \E l \in 1 .. Len(r) : To(l) = j
    <3> SUFFICES ASSUME NEW j \in 1 .. Len(q), j # i PROVE \E l \in 1 .. Len(r) : To(l) = j
      OBVIOUS
    <3>1. CASE j < i
      <4>1. j \in 1 .. Len(r) /\ To(j) = j
        BY <2>1, <2>5, <3>1
      <4> QED BY <4>1
    <3>2. CASE ~(j < i)
      <4>1. j - 1 \in 1 .. Len(r) /\ To(j - 1) = j
        BY <2>1, <2>5, <3>2
      <4> QED BY <4>1
    <3> QED BY <3>1, <3>2
  <2> HIDE DEF To
  <2>9. One(r)
    <3> SUFFICES ASSUME NEW j \in 1 .. Len(r), NEW l \in 1 .. Len(r), r[j] = r[l] PROVE j = l
      BY DEF One
    <3>1. To(j) \in 1 .. Len(q) /\ To(l) \in 1 .. Len(q) /\ q[To(j)] = q[To(l)]
      BY <2>6
    <3> QED BY <2>7, <3>1 DEF One
  <2>10. \A x : Contains(r, x) <=> Contains(q, x) /\ x # e
    <3>1. ASSUME NEW x, Contains(r, x) PROVE Contains(q, x) /\ x # e
      <4>1. PICK j \in 1 .. Len(r) : r[j] = x
        BY <3>1 DEF Contains
      <4>2. To(j) \in 1 .. Len(q) /\ q[To(j)] = x /\ To(j) # i
        BY <2>6, <4>1
      <4> QED BY <2>3, <4>2 DEF Contains, One
    <3>2. ASSUME NEW x, Contains(q, x), x # e PROVE Contains(r, x)
      <4>1. PICK j \in 1 .. Len(q) : q[j] = x /\ j # i
        BY <2>3, <3>2 DEF Contains
      <4>2. PICK l \in 1 .. Len(r) : To(l) = j
        BY <2>8, <4>1
      <4> QED BY <2>6, <4>1, <4>2 DEF Contains
    <3> QED BY <3>1, <3>2
  <2>11. /\ r \in Seq(S) /\ One(r) /\ Len(r) = (IF Contains(q, e) THEN Len(q) - 1 ELSE Len(q))
         /\ \A x : Contains(r, x) <=> Contains(q, x) /\ x # e
    BY <1>2, <2>5, <2>9, <2>10
  <2> QED BY <2>4, <2>11
<1> QED BY <1>1, <1>2

\* y is q with p put at position l.
Spliced(q, l, p, y) ==
  /\ y \in Seq(Pids) /\ Len(y) = Len(q) + 1 /\ y[l] = p
  /\ \A j \in 1 .. l - 1 : y[j] = q[j]
  /\ \A j \in l + 1 .. Len(q) + 1 : y[j] = q[j - 1]
  /\ One(q) /\ ~Contains(q, p) => One(y) /\ \A z : Contains(y, z) <=> Contains(q, z) \/ z = p
LEMMA InsertedPid ==
  ASSUME NEW q, NEW l, NEW p, q \in Seq(Pids), l \in Nat \ {0}, l <= Len(q) + 1, p \in Pids
  PROVE  Spliced(q, l, p, InsertAt(q, l, p))
<1>2. LET y == InsertAt(q, l, p)
      IN  /\ y \in Seq(Pids) /\ Len(y) = Len(q) + 1 /\ y[l] = p
          /\ \A j \in 1 .. l - 1 : y[j] = q[j]
          /\ \A j \in l + 1 .. Len(q) + 1 : y[j] = q[j - 1]
  BY Inserted
<1>3. ASSUME One(q), ~Contains(q, p)
      PROVE  LET y == InsertAt(q, l, p)
             IN  One(y) /\ \A z : Contains(y, z) <=> Contains(q, z) \/ z = p
  BY <1>3, InsertedOne
<1> QED BY <1>2, <1>3 DEF Spliced

-----------------------------------------------------------------------------
(* Schedulers. *)

States == {"FREE", "CURR", "READY", "SUSP", "WAIT", "SLEEP", "RECV", "RECTIM"}
Delayed == {"SLEEP", "RECTIM"}
Runnable == {"READY", "CURR"}
Schedulers == [st : [Pids -> States], prio : [Pids -> Nat], key : [Pids -> Int], rdy : Seq(Pids),
               slp : Seq(Pids), cur : Pids, ndefers : Nat, attempt : BOOLEAN]

\* The ready list and the delta list of s hold the processes in the states that belong
\* there, except the processes of P, which a call has taken from the queue of their state.
Loose(s, P) ==
  /\ s \in Schedulers /\ P \in SUBSET Pids
  /\ One(s.rdy) /\ One(s.slp)
  /\ \A p \in Pids : Contains(s.rdy, p) <=> p \notin P /\ s.st[p] = "READY"
  /\ \A p \in Pids : Contains(s.slp, p) <=> p \notin P /\ s.st[p] \in Delayed
  /\ \A p \in Pids : s.st[p] = "CURR" => p = s.cur /\ p \notin P
  /\ 0 \notin P /\ s.st[0] \in Runnable
Sched(s) == Loose(s, {})
Good(s) == Sched(s) /\ s.ndefers = 0 /\ s.st[s.cur] = "CURR"

\* The ready list is in the order of the priorities.
Ranked(s) ==
  /\ \A i, j \in 1 .. Len(s.rdy) : i <= j => s.key[s.rdy[i]] >= s.key[s.rdy[j]]
  /\ \A p \in Pids : Contains(s.rdy, p) => s.key[p] = s.prio[p]
Highest(s) == \A p \in Pids : s.st[p] = "READY" => s.prio[p] <= s.prio[s.cur]

\* From s to t the processes of W have become runnable, and no other state has changed
\* but for the processor having gone from one process to another.
Runs(s, t, W) ==
  /\ t.slp = s.slp /\ t.prio = s.prio
  /\ \A p \in Pids : IF p \in W \/ s.st[p] \in Runnable THEN t.st[p] \in Runnable
                     ELSE t.st[p] = s.st[p] /\ t.key[p] = s.key[p]

\* insert, of a process that has become ready.
Enqueue(s, p) == insert([s EXCEPT !.st[p] = "READY"], p)
LEMMA EnqueueEffect ==
  ASSUME NEW s, NEW P, Loose(s, P), NEW p \in Pids, ~Contains(s.rdy, p), ~Contains(s.slp, p)
  PROVE  LET u == Enqueue(s, p)
         IN  /\ Loose(u, P \ {p})
             /\ u.st = [s.st EXCEPT ![p] = "READY"] /\ u.key = [s.key EXCEPT ![p] = s.prio[p]]
             /\ u.prio = s.prio /\ u.slp = s.slp /\ u.cur = s.cur
             /\ u.ndefers = s.ndefers /\ u.attempt = s.attempt
             /\ Ranked(s) => Ranked(u)
<1> DEFINE u == Enqueue(s, p)
           n == Len(s.rdy)
           D == {j \in 1 .. n : s.key[s.rdy[j]] >= s.prio[p]}
           i == Cardinality(D)
           r == InsertAt(s.rdy, i + 1, p)
<1>1. /\ s \in Schedulers /\ n \in Nat /\ s.rdy \in Seq(Pids) /\ DOMAIN s.rdy = 1 .. n
      /\ \A j \in 1 .. n : s.rdy[j] \in Pids
      /\ s.st \in [Pids -> States] /\ s.key \in [Pids -> Int] /\ s.prio \in [Pids -> Nat]
  <2>1. s \in Schedulers /\ s.rdy \in Seq(Pids)
    BY DEF Loose, Schedulers
  <2> QED BY <2>1, LenProperties DEF Schedulers
<1>2. i \in 0 .. n
  <2>1. D \in SUBSET (1 .. n)
    OBVIOUS
  <2> HIDE DEF D, n
  <2> QED BY <1>1, <2>1, Positions
<1>3. /\ u.st = [s.st EXCEPT ![p] = "READY"] /\ u.key = [s.key EXCEPT ![p] = s.prio[p]]
      /\ u.prio = s.prio /\ u.slp = s.slp /\ u.cur = s.cur
      /\ u.ndefers = s.ndefers /\ u.attempt = s.attempt
      /\ u.rdy = r /\ u \in [st : [Pids -> States], prio : [Pids -> Nat], key : [Pids -> Int], rdy : {r},
               slp : Seq(Pids), cur : Pids, ndefers : Nat, attempt : BOOLEAN]
  <2>1. u = [[s EXCEPT !.st[p] = "READY"] EXCEPT !.key[p] = s.prio[p], !.rdy = r]
    <3> DEFINE v == [s EXCEPT !.st[p] = "READY"]
    <3>1. v.rdy = s.rdy /\ v.key = s.key /\ v.prio = s.prio
      BY <1>1 DEF Schedulers
    <3>2. {j \in DOMAIN v.rdy : v.key[v.rdy[j]] >= v.prio[p]} = D
      BY <1>1, <3>1
    <3> HIDE DEF v, D
    <3>3. insert(v, p) = [v EXCEPT !.key[p] = s.prio[p], !.rdy = r]
      BY <3>1, <3>2 DEF insert
    <3> QED BY <3>3 DEF Enqueue, v
  <2> HIDE DEF r, u, D, i, n
  <2>2. "READY" \in States
    BY DEF States
  <2>3. u = [s EXCEPT !.st = [s.st EXCEPT ![p] = "READY"], !.key = [s.key EXCEPT ![p] = s.prio[p]], !.rdy = r]
    BY <1>1, <2>1 DEF Schedulers
  <2>4. [s.st EXCEPT ![p] = "READY"] \in [Pids -> States] /\ [s.key EXCEPT ![p] = s.prio[p]] \in [Pids -> Int]
    BY <1>1, <2>2
  <2> QED BY <1>1, <2>3, <2>4 DEF Schedulers
<1>4. /\ r \in Seq(Pids) /\ Len(r) = n + 1 /\ r[i + 1] = p
      /\ \A j \in 1 .. i : r[j] = s.rdy[j]
      /\ \A j \in i + 2 .. n + 1 : r[j] = s.rdy[j - 1]
      /\ One(r) /\ \A x : Contains(r, x) <=> Contains(s.rdy, x) \/ x = p
  <2>1. PICK m \in Nat : m = n
    BY <1>1
  <2>2. PICK c \in Nat : c = i /\ c <= m
    <3> HIDE DEF i, n
    <3> QED BY <1>1, <1>2, <2>1
  <2>3. PICK l \in Nat \ {0} : l = c + 1
    OBVIOUS
  <2>4. r = InsertAt(s.rdy, l, p)
    BY <2>2, <2>3
  <2>5. PICK q \in Seq(Pids) : q = s.rdy /\ Len(q) = m
    BY <1>1, <2>1
  <2> HIDE DEF r, n, i
  <2>6. l <= Len(q) + 1
    BY <2>2, <2>3, <2>5
  <2>7. Spliced(q, l, p, r)
    BY <2>4, <2>5, <2>6, InsertedPid
  <2>8. One(q) /\ ~Contains(q, p)
    BY <2>5 DEF Loose
  <2>9. /\ r \in Seq(Pids) /\ Len(r) = m + 1 /\ r[l] = p
        /\ \A j \in 1 .. l - 1 : r[j] = q[j]
        /\ \A j \in l + 1 .. m + 1 : r[j] = q[j - 1]
        /\ One(r) /\ \A x : Contains(r, x) <=> Contains(q, x) \/ x = p
    BY ONLY <2>5, <2>7, <2>8 DEF Spliced
  <2>10. l - 1 = c /\ l + 1 = c + 2
    BY <2>3
  <2> QED BY <2>1, <2>2, <2>3, <2>5, <2>9, <2>10
<1> HIDE DEF u, r
<1>5. Loose(u, P \ {p})
  <2>1. u \in Schedulers
    BY <1>3, <1>4 DEF Schedulers
  <2>2. s.st \in [Pids -> States]
    BY <1>1 DEF Schedulers
  <2> HIDE DEF i, D, n
  <2>3. \A q \in Pids : Contains(u.rdy, q) <=> q \notin P \ {p} /\ u.st[q] = "READY"
    BY <1>3, <1>4, <2>2 DEF Loose
  <2>4. \A q \in Pids : Contains(u.slp, q) <=> q \notin P \ {p} /\ u.st[q] \in Delayed
    BY <1>3, <2>2 DEF Loose, Delayed
  <2>5. \A q \in Pids : u.st[q] = "CURR" => q = u.cur /\ q \notin P \ {p}
    BY <1>3, <2>2 DEF Loose
  <2>6. 0 \notin P \ {p} /\ u.st[0] \in Runnable /\ P \ {p} \in SUBSET Pids
    BY <1>3, <2>2 DEF Loose, Runnable, Pids
  <2>7. One(u.rdy) /\ One(u.slp)
    BY <1>3, <1>4 DEF Loose
  <2> QED BY <2>1, <2>3, <2>4, <2>5, <2>6, <2>7 DEF Loose
<1>6. ASSUME Ranked(s) PROVE Ranked(u)
  <2>1. D = 1 .. i
    <3>1. ASSUME NEW j \in D, NEW l \in 1 .. j PROVE l \in D
      <4>1. j \in 1 .. n /\ l \in 1 .. n /\ l <= j
        BY <1>1
      <4>2. s.key[s.rdy[l]] >= s.key[s.rdy[j]] /\ s.key[s.rdy[j]] >= s.prio[p]
        BY <1>6, <4>1 DEF Ranked
      <4>3. s.key[s.rdy[l]] \in Int /\ s.key[s.rdy[j]] \in Int /\ s.prio[p] \in Int
        <5>1. s.rdy[l] \in Pids /\ s.rdy[j] \in Pids
          BY <1>1, <4>1
        <5>2. s.key \in [Pids -> Int] /\ s.prio \in [Pids -> Nat]
          BY <1>1
        <5> HIDE DEF D, i, n, u, r
        <5> QED BY <5>1, <5>2
      <4>4. s.key[s.rdy[l]] >= s.prio[p]
        BY <4>2, <4>3
      <4> QED BY <4>1, <4>4
    <3>2. D \in SUBSET (1 .. n) /\ \A j \in D : \A l \in 1 .. j : l \in D
      BY <3>1
    <3> HIDE DEF D, n
    <3> QED BY <1>1, <3>2, Initial
  <2>2. \A j \in 1 .. n : (j \in 1 .. i <=> s.key[s.rdy[j]] >= s.prio[p])
    <3>1. \A j \in 1 .. n : (j \in D <=> s.key[s.rdy[j]] >= s.prio[p])
      OBVIOUS
    <3> HIDE DEF D, i
    <3> QED BY <2>1, <3>1
  <2> HIDE DEF D, i, n
  <2>3. /\ \A q \in Pids : q # p => u.key[q] = s.key[q]
        /\ u.key[p] = s.prio[p]
        /\ s.prio[p] \in Int /\ \A j \in 1 .. n : s.key[s.rdy[j]] \in Int /\ s.rdy[j] # p
    <3>1. s.key \in [Pids -> Int] /\ s.prio[p] \in Nat /\ \A j \in 1 .. n : s.rdy[j] \in Pids
      BY <1>1
    <3>2. u.key[p] = s.prio[p] /\ \A q \in Pids : q # p => u.key[q] = s.key[q]
      BY <1>3, <3>1
    <3>3. \A j \in 1 .. n : s.rdy[j] # p
      BY DEF Contains, n
    <3> QED BY <3>1, <3>2, <3>3
  <2> DEFINE x(j) == u.key[u.rdy[j]]
  <2>4. \A j \in 1 .. i : j \in 1 .. n /\ x(j) = s.key[s.rdy[j]] /\ x(j) >= s.prio[p] /\ x(j) \in Int
    <3>1. \A j \in 1 .. i : j \in 1 .. n /\ u.rdy[j] = s.rdy[j]
      BY <1>1, <1>2, <1>3, <1>4
    <3>2. \A j \in 1 .. i : s.rdy[j] \in Pids /\ s.rdy[j] # p /\ s.key[s.rdy[j]] \in Int /\ s.key[s.rdy[j]] >= s.prio[p]
      BY <1>1, <2>2, <2>3, <3>1
    <3> QED BY <2>3, <3>1, <3>2
  <2>5. x(i + 1) = s.prio[p]
    BY <1>3, <1>4, <2>3
  <2>6. \A j \in i + 2 .. n + 1 : /\ j - 1 \in 1 .. n /\ x(j) = s.key[s.rdy[j - 1]]
                                  /\ ~(x(j) >= s.prio[p]) /\ x(j) \in Int
    <3>1. \A j \in i + 2 .. n + 1 : j - 1 \in 1 .. n /\ j - 1 \notin 1 .. i
      BY <1>1, <1>2
    <3>2. \A j \in i + 2 .. n + 1 : u.rdy[j] = s.rdy[j - 1]
      BY <1>3, <1>4
    <3>3. \A j \in i + 2 .. n + 1 : /\ s.rdy[j - 1] \in Pids /\ s.rdy[j - 1] # p /\ s.key[s.rdy[j - 1]] \in Int
                                   /\ ~(s.key[s.rdy[j - 1]] >= s.prio[p])
      BY <1>1, <2>2, <2>3, <3>1
    <3> QED BY <2>3, <3>1, <3>2, <3>3
  <2>7. \A j, l \in 1 .. n : j <= l => s.key[s.rdy[j]] >= s.key[s.rdy[l]]
    BY <1>6 DEF Ranked, n
  <2> HIDE DEF x
  <2>8. ASSUME NEW j \in 1 .. n + 1, NEW l \in 1 .. n + 1, j <= l PROVE x(j) >= x(l)
    <3>1. \/ j \in 1 .. i /\ l \in 1 .. i
          \/ j \in 1 .. i /\ l = i + 1
          \/ j \in 1 .. i /\ l \in i + 2 .. n + 1
          \/ j = i + 1 /\ l = i + 1
          \/ j = i + 1 /\ l \in i + 2 .. n + 1
          \/ j \in i + 2 .. n + 1 /\ l \in i + 2 .. n + 1 /\ j - 1 <= l - 1
      BY <1>1, <1>2, <2>8
    <3>2. CASE j \in 1 .. i /\ l \in 1 .. i
      BY <2>4, <2>7, <2>8, <3>2
    <3>3. CASE j \in i + 2 .. n + 1 /\ l \in i + 2 .. n + 1 /\ j - 1 <= l - 1
      BY <2>6, <2>7, <3>3
    <3>4. CASE j \in 1 .. i /\ l \in i + 2 .. n + 1
      BY <2>3, <2>4, <2>6, <3>4
    <3> QED BY <2>3, <2>4, <2>5, <2>6, <3>1, <3>2, <3>3, <3>4
  <2>9. \A q \in Pids : Contains(u.rdy, q) => u.key[q] = u.prio[q]
    BY <1>3, <1>4, <1>6, <2>3 DEF Ranked
  <2>10. Len(u.rdy) = n + 1
    BY <1>3, <1>4
  <2> QED BY <2>8, <2>9, <2>10 DEF Ranked, x
<1> HIDE DEF i, D, n
<1>7. /\ Loose(u, P \ {p})
      /\ u.st = [s.st EXCEPT ![p] = "READY"] /\ u.key = [s.key EXCEPT ![p] = s.prio[p]]
      /\ u.prio = s.prio /\ u.slp = s.slp /\ u.cur = s.cur
      /\ u.ndefers = s.ndefers /\ u.attempt = s.attempt
      /\ Ranked(s) => Ranked(u)
  BY <1>3, <1>5, <1>6
<1> QED BY <1>7 DEF u

\* The processor goes to the first process of the ready list.
LEMMA DispatchEffect ==
  ASSUME NEW s, Sched(s), s.ndefers = 0, s.st[s.cur] # "CURR"
  PROVE  LET t == Dispatch(s)
         IN  /\ Good(t) /\ Runs(s, t, {})
             /\ Ranked(s) => Ranked(t) /\ Highest(t)
<1> DEFINE t == Dispatch(s)
           n == Len(s.rdy)
           h == s.rdy[1]
<1>1. /\ s \in Schedulers /\ n \in Nat /\ s.rdy \in Seq(Pids)
      /\ \A j \in 1 .. n : s.rdy[j] \in Pids
      /\ s.st \in [Pids -> States]
  <2>1. s \in Schedulers /\ s.rdy \in Seq(Pids)
    BY DEF Sched, Loose, Schedulers
  <2> QED BY <2>1, LenProperties DEF Schedulers
<1>2. 0 \in Pids
  BY KernelAssumption DEF Pids
<1>3. n >= 1 /\ s.rdy # <<>>
  <2>1. Contains(s.rdy, 0)
    BY <1>2 DEF Sched, Loose, Runnable
  <2>2. PICK j \in 1 .. n : s.rdy[j] = 0
    BY <2>1 DEF Contains
  <2>3. n # 0 /\ n >= 1
    BY <1>1, <2>2
  <2> QED BY <2>3
<1>4. /\ Head(s.rdy) = h /\ Tail(s.rdy) \in Seq(Pids) /\ Len(Tail(s.rdy)) = n - 1
      /\ \A j \in 1 .. n - 1 : Tail(s.rdy)[j] = s.rdy[j + 1]
  BY <1>1, <1>3, HeadTailProperties
<1>5. PICK r \in Seq(Pids) : r = Tail(s.rdy)
  BY <1>4
<1>6. h \in Pids /\ Contains(s.rdy, h) /\ s.st[h] = "READY"
  BY <1>1, <1>3 DEF Contains, Sched, Loose
<1>7. /\ t.st = [s.st EXCEPT ![h] = "CURR"] /\ t.cur = h /\ t.rdy = r
      /\ t.prio = s.prio /\ t.slp = s.slp /\ t.key = s.key /\ t.ndefers = 0 /\ t.attempt = s.attempt
      /\ t \in Schedulers
  <2>1. t = [s EXCEPT !.cur = h, !.rdy = r, !.st[h] = "CURR"]
    BY <1>4, <1>5 DEF Dispatch
  <2> HIDE DEF t, h
  <2> QED BY <1>1, <1>6, <2>1 DEF Schedulers, States
<1> HIDE DEF t
<1>8. \A j \in 1 .. Len(r) : j + 1 \in 1 .. n /\ r[j] = s.rdy[j + 1] /\ r[j] # h
  <2>1. \A j \in 1 .. Len(r) : j + 1 \in 1 .. n /\ 1 \in 1 .. n /\ j + 1 # 1
    BY <1>1, <1>4, <1>5
  <2> QED BY <1>4, <1>5, <2>1 DEF Sched, Loose, One
<1>9. One(r)
  <2> SUFFICES ASSUME NEW j \in 1 .. Len(r), NEW l \in 1 .. Len(r), r[j] = r[l] PROVE j = l
    BY DEF One
  <2>1. j + 1 = l + 1
    BY <1>8 DEF Sched, Loose, One
  <2> QED BY <2>1
<1>10. \A x : Contains(r, x) <=> Contains(s.rdy, x) /\ x # h
  <2>1. ASSUME NEW x, Contains(r, x) PROVE Contains(s.rdy, x) /\ x # h
    BY <1>8, <2>1 DEF Contains
  <2>2. ASSUME NEW x, Contains(s.rdy, x), x # h PROVE Contains(r, x)
    <3>1. PICK j \in 1 .. n : s.rdy[j] = x
      BY <2>2 DEF Contains
    <3>2. j - 1 \in 1 .. Len(r) /\ (j - 1) + 1 = j
      BY <1>1, <1>4, <1>5, <2>2, <3>1
    <3>3. r[j - 1] = x
      BY <1>8, <3>1, <3>2
    <3> QED BY <3>2, <3>3 DEF Contains
  <2> QED BY <2>1, <2>2
<1> HIDE DEF n, h
<1>11. Sched(t)
  <2>1. \A q \in Pids : Contains(t.rdy, q) <=> q \notin {} /\ t.st[q] = "READY"
    BY <1>1, <1>6, <1>7, <1>10 DEF Sched, Loose
  <2>2. \A q \in Pids : Contains(t.slp, q) <=> q \notin {} /\ t.st[q] \in Delayed
    BY <1>1, <1>6, <1>7 DEF Sched, Loose, Delayed
  <2>3. \A q \in Pids : t.st[q] = "CURR" => q = t.cur /\ q \notin {}
    BY <1>1, <1>7 DEF Sched, Loose
  <2>4. t.st[0] \in Runnable
    BY <1>1, <1>2, <1>7 DEF Sched, Loose, Runnable
  <2> QED BY <1>7, <1>9, <2>1, <2>2, <2>3, <2>4 DEF Sched, Loose
<1>12. Good(t)
  BY <1>1, <1>6, <1>7, <1>11 DEF Good
<1>13. Runs(s, t, {})
  BY <1>1, <1>6, <1>7 DEF Runs, Runnable
<1>14. ASSUME Ranked(s) PROVE Ranked(t) /\ Highest(t)
  <2>1. \A i, j \in 1 .. Len(r) : i <= j => s.key[r[i]] >= s.key[r[j]]
    <3> SUFFICES ASSUME NEW i \in 1 .. Len(r), NEW j \in 1 .. Len(r), i <= j
                 PROVE  s.key[r[i]] >= s.key[r[j]]
      OBVIOUS
    <3>1. i + 1 <= j + 1
      OBVIOUS
    <3>2. r[i] = s.rdy[i + 1] /\ r[j] = s.rdy[j + 1] /\ i + 1 \in 1 .. n /\ j + 1 \in 1 .. n
      BY <1>8
    <3>3. s.key[s.rdy[i + 1]] >= s.key[s.rdy[j + 1]]
      BY <1>14, <3>1, <3>2 DEF Ranked, n
    <3> QED BY <3>2, <3>3
  <2>2. Ranked(t)
    BY <1>7, <1>10, <1>14, <2>1 DEF Ranked
  <2>3. Highest(t)
    <3> SUFFICES ASSUME NEW p \in Pids, t.st[p] = "READY" PROVE s.prio[p] <= s.prio[h]
      BY <1>7 DEF Highest
    <3>1. Contains(s.rdy, p)
      BY <1>1, <1>6, <1>7 DEF Sched, Loose
    <3>2. PICK j \in 1 .. Len(s.rdy) : s.rdy[j] = p
      BY <3>1 DEF Contains
    <3>3. 1 \in 1 .. Len(s.rdy) /\ 1 <= j
      BY <1>1, <1>3 DEF n
    <3>4. s.key[h] >= s.key[p] /\ s.key[h] = s.prio[h] /\ s.key[p] = s.prio[p]
      BY <1>6, <1>14, <3>1, <3>2, <3>3 DEF Ranked, h
    <3>5. s.prio[h] \in Int /\ s.prio[p] \in Int
      BY <1>1, <1>6 DEF Schedulers
    <3> QED BY <3>4, <3>5
  <2> QED BY <2>2, <2>3
<1>15. Good(t) /\ Runs(s, t, {}) /\ (Ranked(s) => Ranked(t) /\ Highest(t))
  BY <1>12, <1>13, <1>14
<1> QED BY <1>15 DEF t

\* resched, outside the calls that defer it.
LEMMA ReschedEffect ==
  ASSUME NEW s, Sched(s), s.ndefers = 0
  PROVE  LET t == resched(s)
         IN  /\ Good(t) /\ Runs(s, t, {})
             /\ Ranked(s) => Ranked(t) /\ Highest(t)
<1>1. /\ s \in Schedulers /\ s.cur \in Pids /\ s.st \in [Pids -> States] /\ s.prio \in [Pids -> Nat]
      /\ s.key \in [Pids -> Int] /\ s.rdy \in Seq(Pids)
  BY DEF Sched, Loose, Schedulers
<1>2. CASE s.st[s.cur] # "CURR"
  <2>1. resched(s) = Dispatch(s)
    BY <1>2 DEF resched
  <2> QED BY <1>2, <2>1, DispatchEffect
<1>3. CASE s.st[s.cur] = "CURR" /\ s.prio[s.cur] > FirstKey(s)
  <2>1. resched(s) = s
    BY <1>3 DEF resched
  <2>2. Good(s) /\ Runs(s, s, {})
    BY <1>3 DEF Good, Runs
  <2>3. ASSUME Ranked(s) PROVE Highest(s)
    <3> SUFFICES ASSUME NEW p \in Pids, s.st[p] = "READY" PROVE s.prio[p] <= s.prio[s.cur]
      BY DEF Highest
    <3>1. Contains(s.rdy, p)
      BY DEF Sched, Loose
    <3>2. PICK j \in 1 .. Len(s.rdy) : s.rdy[j] = p
      BY <3>1 DEF Contains
    <3>3. Len(s.rdy) \in Nat /\ s.rdy # <<>> /\ 1 \in 1 .. Len(s.rdy) /\ 1 <= j
      <4>1. Len(s.rdy) \in Nat /\ \A i \in 1 .. Len(s.rdy) : s.rdy[i] \in Pids
        BY <1>1, LenProperties
      <4>2. Len(s.rdy) # 0
        BY <3>2, <4>1
      <4> QED BY <3>2, <4>1, <4>2
    <3>4. FirstKey(s) = s.key[s.rdy[1]]
      BY <1>1, <3>3, HeadTailProperties DEF FirstKey
    <3>5. s.key[s.rdy[1]] >= s.key[p] /\ s.key[p] = s.prio[p] /\ s.rdy[1] \in Pids
      <4>1. s.rdy[1] \in Pids
        BY <1>1, <3>3, LenProperties
      <4> QED BY <2>3, <3>1, <3>2, <3>3, <4>1 DEF Ranked
    <3>6. s.key[s.rdy[1]] \in Int /\ s.prio[p] \in Int /\ s.prio[s.cur] \in Int
      <4>1. s.key \in [Pids -> Int] /\ s.prio \in [Pids -> Nat] /\ s.cur \in Pids
        BY <1>1
      <4> QED BY <3>5, <4>1
    <3> QED BY <1>3, <3>4, <3>5, <3>6
  <2> QED BY <2>1, <2>2, <2>3
<1>4. CASE s.st[s.cur] = "CURR" /\ ~(s.prio[s.cur] > FirstKey(s))
  <2> DEFINE u == Enqueue(s, s.cur)
             t == Dispatch(u)
  <2>1. resched(s) = t
    BY <1>4 DEF resched, Enqueue
  <2>2. ~Contains(s.rdy, s.cur) /\ ~Contains(s.slp, s.cur)
    BY <1>1, <1>4 DEF Sched, Loose, Delayed
  <2>3. /\ Loose(u, {} \ {s.cur})
        /\ u.st = [s.st EXCEPT ![s.cur] = "READY"] /\ u.key = [s.key EXCEPT ![s.cur] = s.prio[s.cur]]
        /\ u.prio = s.prio /\ u.slp = s.slp /\ u.cur = s.cur
        /\ u.ndefers = s.ndefers
        /\ Ranked(s) => Ranked(u)
    <3>1. PICK c \in Pids : c = s.cur
      BY <1>1
    <3>2. Loose(s, {}) /\ ~Contains(s.rdy, c) /\ ~Contains(s.slp, c) /\ u = Enqueue(s, c)
      BY <2>2, <3>1 DEF Sched
    <3> HIDE DEF u
    <3>3. /\ Loose(u, {} \ {c})
          /\ u.st = [s.st EXCEPT ![c] = "READY"] /\ u.key = [s.key EXCEPT ![c] = s.prio[c]]
          /\ u.prio = s.prio /\ u.slp = s.slp /\ u.cur = s.cur
          /\ u.ndefers = s.ndefers
          /\ Ranked(s) => Ranked(u)
      BY <3>2, EnqueueEffect
    <3> QED BY <3>1, <3>3
  <2> HIDE DEF u
  <2>4. Sched(u) /\ u.ndefers = 0 /\ u.st[u.cur] # "CURR"
    <3>1. {} \ {s.cur} = {}
      OBVIOUS
    <3> QED BY <1>1, <2>3, <3>1 DEF Sched
  <2>5. Good(t) /\ Runs(u, t, {}) /\ (Ranked(u) => Ranked(t) /\ Highest(t))
    BY <2>4, DispatchEffect
  <2> HIDE DEF t
  <2>6. Runs(s, t, {})
    BY <1>1, <1>4, <2>3, <2>5 DEF Runs, Runnable
  <2> QED BY <2>1, <2>3, <2>5, <2>6
<1> QED BY <1>2, <1>3, <1>4

\* ready, outside the calls that defer rescheduling.
LEMMA ReadyEffect ==
  ASSUME NEW s, NEW p \in Pids, NEW P \in SUBSET {p}, Loose(s, P), s.ndefers = 0,
         ~Contains(s.rdy, p), ~Contains(s.slp, p)
  PROVE  LET t == ready(s, p)
         IN  /\ Good(t) /\ Runs(s, t, {p})
             /\ Ranked(s) => Ranked(t) /\ Highest(t)
<1> DEFINE u == Enqueue(s, p)
           t == resched(u)
<1>1. ready(s, p) = t
  BY DEF ready, Enqueue
<1>2. s.st \in [Pids -> States] /\ s.key \in [Pids -> Int]
  BY DEF Loose, Schedulers
<1>3. /\ Loose(u, P \ {p})
      /\ u.st = [s.st EXCEPT ![p] = "READY"] /\ u.key = [s.key EXCEPT ![p] = s.prio[p]]
      /\ u.prio = s.prio /\ u.slp = s.slp /\ u.ndefers = s.ndefers
      /\ Ranked(s) => Ranked(u)
  BY EnqueueEffect
<1> HIDE DEF u
<1>4. Sched(u) /\ u.ndefers = 0
  <2>1. P \ {p} = {}
    OBVIOUS
  <2> QED BY <1>3, <2>1 DEF Sched
<1>5. Good(t) /\ Runs(u, t, {}) /\ (Ranked(u) => Ranked(t) /\ Highest(t))
  BY <1>4, ReschedEffect
<1> HIDE DEF t
<1>6. Runs(s, t, {p})
  BY <1>2, <1>3, <1>5 DEF Runs, Runnable
<1> QED BY <1>1, <1>3, <1>5, <1>6

\* A process is taken off the ready list and its state is changed at once: what it takes,
\* and what it gives.
TakesOff(s, p, x, t) ==
  /\ Good(s) /\ p \in Pids /\ p # 0 /\ s.st[p] = "READY" /\ x \in {"SUSP", "FREE"}
  /\ t = [s EXCEPT !.st[p] = x, !.rdy = RemovePid(@, p)]

TakenOff(s, p, x, t) ==
  /\ Good(t) /\ t.st = [s.st EXCEPT ![p] = x]
  /\ t.key = s.key /\ t.prio = s.prio /\ t.slp = s.slp /\ t.cur = s.cur
  /\ Ranked(s) /\ Highest(s) => Ranked(t) /\ Highest(t)

\* A process is taken off the ready list.
LEMMA LeaveReady ==
  ASSUME NEW s, NEW p, NEW x, NEW t, TakesOff(s, p, x, t)
  PROVE  TakenOff(s, p, x, t)
<1> USE DEF TakesOff
<1> DEFINE n == Len(s.rdy)
<1>1. /\ s \in Schedulers /\ s.st \in [Pids -> States] /\ s.rdy \in Seq(Pids) /\ s.cur \in Pids
      /\ One(s.rdy) /\ One(s.slp) /\ Contains(s.rdy, p)
  BY DEF Good, Sched, Loose, Schedulers
<1>2. PICK r \in Seq(Pids) : r = RemovePid(s.rdy, p)
  BY <1>1, RemovedOne
<1>3. One(r) /\ \A y : Contains(r, y) <=> Contains(s.rdy, y) /\ y # p
  BY <1>1, <1>2, RemovedOne
<1>4. /\ t.st = [s.st EXCEPT ![p] = x] /\ t.rdy = r /\ t.key = s.key /\ t.prio = s.prio
      /\ t.slp = s.slp /\ t.cur = s.cur /\ t.ndefers = s.ndefers /\ t.attempt = s.attempt
      /\ t \in Schedulers
  <2>1. [s.st EXCEPT ![p] = x] \in [Pids -> States]
    BY <1>1 DEF States
  <2>2. t = [s EXCEPT !.st = [s.st EXCEPT ![p] = x], !.rdy = r]
    BY <1>1, <1>2 DEF Schedulers
  <2> QED BY ONLY <1>1, <2>1, <2>2 DEF Schedulers
<1>5. Good(t)
  <2>1. \A q \in Pids : Contains(t.rdy, q) <=> q \notin {} /\ t.st[q] = "READY"
    BY <1>1, <1>3, <1>4 DEF Good, Sched, Loose
  <2>2. \A q \in Pids : Contains(t.slp, q) <=> q \notin {} /\ t.st[q] \in Delayed
    BY <1>1, <1>4 DEF Good, Sched, Loose, Delayed
  <2>3. \A q \in Pids : t.st[q] = "CURR" => q = t.cur /\ q \notin {}
    BY <1>1, <1>4 DEF Good, Sched, Loose
  <2>4. t.st[0] \in Runnable
    BY <1>1, <1>4, KernelAssumption DEF Good, Sched, Loose, Runnable, Pids
  <2>5. Sched(t)
    BY <1>1, <1>3, <1>4, <2>1, <2>2, <2>3, <2>4 DEF Sched, Loose
  <2> QED BY <1>1, <1>4, <2>5 DEF Good
<1>6. ASSUME Ranked(s), Highest(s) PROVE Ranked(t) /\ Highest(t)
  <2>1. Highest(t)
    BY <1>1, <1>4, <1>6 DEF Highest, Good
  <2>2. PICK i \in 1 .. n : i = (CHOOSE j \in DOMAIN s.rdy : s.rdy[j] = p) /\ n \in Nat
    <3>1. DOMAIN s.rdy = 1 .. n /\ n \in Nat
      BY <1>1, LenProperties
    <3>2. \E j \in DOMAIN s.rdy : s.rdy[j] = p
      BY <1>1, <3>1 DEF Contains
    <3> QED BY <3>1, <3>2
  <2>3. r = RemoveAt(s.rdy, i)
    BY <1>1, <1>2, <2>2 DEF RemovePid
  <2>4. /\ Len(r) = Len(s.rdy) - 1
        /\ \A j \in 1 .. i - 1 : r[j] = s.rdy[j]
        /\ \A j \in i .. Len(s.rdy) - 1 : r[j] = s.rdy[j + 1]
    BY <1>1, <2>3, Removed
  <2> DEFINE To(j) == IF j < i THEN j ELSE j + 1
  <2>5. \A j \in 1 .. Len(r) : To(j) \in 1 .. n /\ r[j] = s.rdy[To(j)]
    <3>1. \A j \in 1 .. Len(r) : j < i => j \in 1 .. i - 1 /\ j \in 1 .. n
      BY <2>2, <2>4
    <3>2. \A j \in 1 .. Len(r) : ~(j < i) => j \in i .. n - 1 /\ j + 1 \in 1 .. n
      BY <2>2, <2>4
    <3> QED BY <2>4, <3>1, <3>2
  <2>6. \A j, l \in 1 .. Len(r) : j <= l => To(j) <= To(l)
    BY <2>2, <2>4
  <2> HIDE DEF To
  <2>7. \A j, l \in 1 .. Len(r) : j <= l => s.key[r[j]] >= s.key[r[l]]
    BY <1>6, <2>5, <2>6 DEF Ranked
  <2>8. Ranked(t)
    BY <1>3, <1>4, <1>6, <2>7 DEF Ranked
  <2> QED BY <2>1, <2>8
<1> QED BY <1>4, <1>5, <1>6 DEF TakenOff

\* A process on no queue changes to a state without a queue: what it takes, and what it gives.
Changes(s, p, x, t) ==
  /\ p \in Pids /\ p # 0 /\ Loose(s, {}) /\ ~Contains(s.rdy, p) /\ ~Contains(s.slp, p)
  /\ x \in {"FREE", "SUSP", "WAIT", "RECV"} /\ t = [s EXCEPT !.st[p] = x]

Changed(s, p, x, t) ==
  /\ Sched(t) /\ t.st = [s.st EXCEPT ![p] = x] /\ t.rdy = s.rdy
  /\ t.key = s.key /\ t.prio = s.prio /\ t.slp = s.slp /\ t.cur = s.cur /\ t.ndefers = s.ndefers
  /\ Ranked(s) => Ranked(t)
  /\ Highest(s) => Highest(t)

\* A process on no queue changes to a state without a queue.
LEMMA StateChange ==
  ASSUME NEW s, NEW p, NEW x, NEW t, Changes(s, p, x, t)
  PROVE  Changed(s, p, x, t)
<1> USE DEF Changes
<1>1. /\ s \in Schedulers /\ s.st \in [Pids -> States]
  BY DEF Loose, Schedulers
<1>2. /\ t.st = [s.st EXCEPT ![p] = x] /\ t.rdy = s.rdy /\ t.key = s.key /\ t.prio = s.prio
      /\ t.slp = s.slp /\ t.cur = s.cur /\ t.ndefers = s.ndefers /\ t \in Schedulers
  <2>1. [s.st EXCEPT ![p] = x] \in [Pids -> States]
    BY <1>1 DEF States
  <2>2. t = [s EXCEPT !.st = [s.st EXCEPT ![p] = x]]
    BY <1>1 DEF Schedulers
  <2> QED BY ONLY <1>1, <2>1, <2>2 DEF Schedulers
<1>3. Sched(t)
  <2>1. \A q \in Pids : Contains(t.rdy, q) <=> q \notin {} /\ t.st[q] = "READY"
    BY <1>1, <1>2 DEF Loose
  <2>2. \A q \in Pids : Contains(t.slp, q) <=> q \notin {} /\ t.st[q] \in Delayed
    BY <1>1, <1>2 DEF Loose, Delayed
  <2>3. \A q \in Pids : t.st[q] = "CURR" => q = t.cur /\ q \notin {}
    BY <1>1, <1>2 DEF Loose
  <2>4. t.st[0] \in Runnable
    BY <1>1, <1>2, KernelAssumption DEF Loose, Runnable, Pids
  <2> QED BY <1>2, <2>1, <2>2, <2>3, <2>4 DEF Loose, Sched
<1>4. (Ranked(s) => Ranked(t)) /\ (Highest(s) => Highest(t))
  BY <1>1, <1>2 DEF Ranked, Highest
<1> QED BY <1>2, <1>3, <1>4 DEF Changed

-----------------------------------------------------------------------------
(* ready, of several processes with rescheduling deferred. *)

\* The processes of q are off their queues and may be made ready.
Batch(s, q) ==
  /\ q \in Seq(Pids) /\ One(q) /\ Loose(s, {q[j] : j \in 1 .. Len(q)})
  /\ s.ndefers = 0 /\ s.st[s.cur] = "CURR"
  /\ \A j \in 1 .. Len(q) : s.st[q[j]] \notin Runnable

\* The first i of them are ready in u.
Partway(s, q, i, u) ==
  /\ Loose(u, {q[j] : j \in i + 1 .. Len(q)})
  /\ u.ndefers = 1 /\ u.cur = s.cur /\ u.st[u.cur] = "CURR"
  /\ u.slp = s.slp /\ u.prio = s.prio
  /\ \A p \in Pids : IF \E j \in 1 .. i : q[j] = p THEN u.st[p] = "READY"
                     ELSE u.st[p] = s.st[p] /\ u.key[p] = s.key[p]
  /\ i > 0 => u.attempt
  /\ i = 0 => ~u.attempt /\ u.rdy = s.rdy
  /\ Ranked(s) => Ranked(u)

\* Only the fields that Loose and Ranked read matter to them.
LEMMA SameQueues ==
  ASSUME NEW s, NEW P, Loose(s, P), NEW t \in Schedulers,
         t.st = s.st, t.prio = s.prio, t.key = s.key, t.rdy = s.rdy, t.slp = s.slp, t.cur = s.cur
  PROVE  /\ Loose(t, P)
         /\ Ranked(s) => Ranked(t)
         /\ Highest(s) => Highest(t)
BY DEF Loose, Ranked, Highest

LEMMA PartwayStart ==
  ASSUME NEW s, NEW q, Batch(s, q)
  PROVE  Partway(s, q, 0, DeferStart(s))
<1> DEFINE u == DeferStart(s)
           P == {q[j] : j \in 1 .. Len(q)}
<1>1. s \in Schedulers /\ Loose(s, P) /\ s.ndefers = 0
  BY DEF Batch, Loose
<1>2. /\ u.st = s.st /\ u.prio = s.prio /\ u.key = s.key /\ u.rdy = s.rdy /\ u.slp = s.slp /\ u.cur = s.cur
      /\ u.ndefers = 1 /\ u.attempt = FALSE /\ u \in Schedulers
  <2>1. u = [s EXCEPT !.ndefers = 1, !.attempt = FALSE]
    BY <1>1 DEF DeferStart, Schedulers
  <2> HIDE DEF u
  <2> QED BY <1>1, <2>1 DEF Schedulers
<1> HIDE DEF u
<1>3. Loose(u, P) /\ (Ranked(s) => Ranked(u))
  BY <1>1, <1>2, SameQueues
<1>4. P = {q[j] : j \in 0 + 1 .. Len(q)}
  OBVIOUS
<1>5. \A j : j \notin 1 .. 0
  OBVIOUS
<1> HIDE DEF P
<1>6. u.st[u.cur] = "CURR"
  BY <1>2 DEF Batch
<1> QED BY <1>2, <1>3, <1>4, <1>5, <1>6 DEF Partway, u

LEMMA PartwayStep ==
  ASSUME NEW s, NEW q, Batch(s, q), NEW i \in Nat, i < Len(q), NEW u, Partway(s, q, i, u)
  PROVE  Partway(s, q, i + 1, ready(u, q[i + 1]))
<1> DEFINE P == {q[j] : j \in i + 1 .. Len(q)}
           p == q[i + 1]
           w == Enqueue(u, p)
           t == [w EXCEPT !.attempt = TRUE]
<1>1. /\ Len(q) \in Nat /\ \A j \in 1 .. Len(q) : q[j] \in Pids
      /\ i + 1 \in 1 .. Len(q) /\ i + 1 \in i + 1 .. Len(q)
  <2>1. Len(q) \in Nat /\ \A j \in 1 .. Len(q) : q[j] \in Pids
    BY LenProperties DEF Batch
  <2> QED BY <2>1
<1>2. p \in Pids /\ p \in P /\ Loose(u, P)
  BY <1>1 DEF Partway
<1>3. ~Contains(u.rdy, p) /\ ~Contains(u.slp, p) /\ u \in Schedulers /\ u.st \in [Pids -> States]
      /\ u.key \in [Pids -> Int] /\ u.prio \in [Pids -> Nat]
  BY <1>2 DEF Loose, Schedulers
<1>4. P \ {p} = {q[j] : j \in (i + 1) + 1 .. Len(q)}
  <2>1. \A j \in i + 1 .. Len(q) : j # i + 1 => j \in (i + 1) + 1 .. Len(q)
    OBVIOUS
  <2>2. \A j \in (i + 1) + 1 .. Len(q) : j \in i + 1 .. Len(q) /\ j \in 1 .. Len(q) /\ j # i + 1
    BY <1>1
  <2>3. \A j \in (i + 1) + 1 .. Len(q) : q[j] # p
    BY <1>1, <2>2 DEF Batch, One
  <2> QED BY <2>1, <2>2, <2>3
<1> HIDE DEF P
<1>5. /\ Loose(w, P \ {p})
      /\ w.st = [u.st EXCEPT ![p] = "READY"] /\ w.key = [u.key EXCEPT ![p] = u.prio[p]]
      /\ w.prio = u.prio /\ w.slp = u.slp /\ w.cur = u.cur /\ w.ndefers = u.ndefers
      /\ Ranked(u) => Ranked(w)
  <2> HIDE DEF p, t
  <2> QED BY <1>2, <1>3, EnqueueEffect
<1>6. u.ndefers = 1
  BY DEF Partway
<1>7. ready(u, p) = t
  <2>1. ready(u, p) = resched(w)
    BY DEF ready, Enqueue
  <2>2. w.ndefers > 0
    BY <1>5, <1>6
  <2> HIDE DEF w
  <2> QED BY <2>1, <2>2 DEF resched
<1> HIDE DEF w
<1>8. /\ t.st = w.st /\ t.prio = w.prio /\ t.key = w.key /\ t.rdy = w.rdy /\ t.slp = w.slp /\ t.cur = w.cur
      /\ t.ndefers = w.ndefers /\ t.attempt = TRUE /\ t \in Schedulers
  <2>1. w \in Schedulers
    BY <1>5 DEF Loose
  <2> QED BY <2>1 DEF Schedulers
<1> HIDE DEF t
<1>9. Loose(t, P \ {p}) /\ (Ranked(w) => Ranked(t))
  BY <1>5, <1>8, SameQueues
<1>10. u.st[p] # "CURR"
  BY <1>2 DEF Loose
<1>11. t.st[t.cur] = "CURR" /\ t.cur = s.cur
  <2>1. u.cur \in Pids /\ u.st[u.cur] = "CURR" /\ u.cur = s.cur
    BY <1>3 DEF Partway, Schedulers
  <2> QED BY <1>3, <1>5, <1>8, <1>10, <2>1
<1>12. ASSUME NEW x \in Pids
       PROVE  IF \E j \in 1 .. i + 1 : q[j] = x THEN t.st[x] = "READY"
              ELSE t.st[x] = s.st[x] /\ t.key[x] = s.key[x]
  <2>1. IF \E j \in 1 .. i : q[j] = x THEN u.st[x] = "READY" ELSE u.st[x] = s.st[x] /\ u.key[x] = s.key[x]
    BY DEF Partway
  <2>2. (\E j \in 1 .. i + 1 : q[j] = x) <=> (\E j \in 1 .. i : q[j] = x) \/ x = p
    <3>1. \A j : j \in 1 .. i + 1 <=> j \in 1 .. i \/ j = i + 1
      OBVIOUS
    <3> QED BY <3>1
  <2>3. /\ t.st[x] = IF x = p THEN "READY" ELSE u.st[x]
        /\ x # p => t.key[x] = u.key[x]
    BY <1>2, <1>3, <1>5, <1>8
  <2> HIDE DEF p
  <2> QED BY <2>1, <2>2, <2>3
<1>13. /\ t.slp = s.slp /\ t.prio = s.prio /\ t.ndefers = 1
       /\ Ranked(s) => Ranked(t)
  BY <1>5, <1>6, <1>8, <1>9 DEF Partway
<1>14. i + 1 > 0 /\ i + 1 # 0
  OBVIOUS
<1> HIDE DEF p
<1>15. Partway(s, q, i + 1, t)
  BY <1>4, <1>8, <1>9, <1>11, <1>12, <1>13, <1>14 DEF Partway
<1> QED BY <1>7, <1>15 DEF p

\* The recursive function in ReadyAll exists, and is what its equation says.
Readied(s, q, m, f) == f = [i \in 0 .. m |-> IF i = 0 THEN DeferStart(s) ELSE ready(f[i - 1], q[i])]
LEMMA ReadiedExists ==
  ASSUME NEW s, NEW q, NEW n \in Nat
  PROVE  \E f : Readied(s, q, n, f)
<1> DEFINE bad == {m \in Nat : ~\E f : Readied(s, q, m, f)}
<1> SUFFICES ASSUME bad # {} PROVE FALSE
  OBVIOUS
<1>1. PICK m \in bad : \A i \in bad : m <= i
  <2>1. bad \in SUBSET Nat
    OBVIOUS
  <2> HIDE DEF bad
  <2> QED BY <2>1, LeastNatural
<1>2. CASE m = 0
  <2> DEFINE f == [i \in 0 .. 0 |-> DeferStart(s)]
  <2>1. f = [i \in 0 .. 0 |-> IF i = 0 THEN DeferStart(s) ELSE ready(f[i - 1], q[i])]
    <3>1. \A i \in 0 .. 0 : i = 0
      OBVIOUS
    <3> QED BY <3>1
  <2>2. Readied(s, q, 0, f)
    BY <2>1 DEF Readied
  <2> QED BY <1>1, <1>2, <2>2
<1>3. CASE m # 0
  <2>1. m \in Nat /\ m - 1 \in Nat /\ ~(m <= m - 1)
    BY <1>3
  <2>2. PICK f : Readied(s, q, m - 1, f)
    BY <1>1, <2>1
  <2> DEFINE g == [i \in 0 .. m |-> IF i = m THEN ready(f[m - 1], q[m]) ELSE f[i]]
  <2>3. ASSUME NEW i \in 0 .. m
        PROVE  g[i] = IF i = 0 THEN DeferStart(s) ELSE ready(g[i - 1], q[i])
    <3>1. CASE i = m
      <4>1. m - 1 \in 0 .. m /\ m - 1 # m
        BY <2>1
      <4> QED BY <1>3, <3>1, <4>1
    <3>2. CASE i # m
      <4>1. i \in 0 .. m - 1
        BY <2>1, <3>2
      <4>2. f[i] = IF i = 0 THEN DeferStart(s) ELSE ready(f[i - 1], q[i])
        <5>1. f = [j \in 0 .. m - 1 |-> IF j = 0 THEN DeferStart(s) ELSE ready(f[j - 1], q[j])]
          BY <2>2 DEF Readied
        <5> QED BY <4>1, <5>1
      <4>3. i # 0 => i - 1 \in 0 .. m /\ i - 1 # m
        BY <2>1, <4>1
      <4>4. g[i] = f[i] /\ (i # 0 => g[i - 1] = f[i - 1])
        BY <3>2, <4>3
      <4> HIDE DEF g
      <4> QED BY <4>2, <4>4
    <3> QED BY <3>1, <3>2
  <2>4. g = [i \in 0 .. m |-> g[i]]
    OBVIOUS
  <2> HIDE DEF g
  <2>5. g = [i \in 0 .. m |-> IF i = 0 THEN DeferStart(s) ELSE ready(g[i - 1], q[i])]
    BY <2>3, <2>4
  <2>6. Readied(s, q, m, g)
    BY <2>5 DEF Readied
  <2> QED BY <1>1, <2>6
<1> QED BY <1>2, <1>3

\* All of them are ready when rescheduling is no longer deferred.
LEMMA ReadyAllPartway ==
  ASSUME NEW s, NEW q, Batch(s, q)
  PROVE  \E u : Partway(s, q, Len(q), u) /\ ReadyAll(s, q) = DeferStop(u)
<1>1. Len(q) \in Nat
  BY LenProperties DEF Batch
<1> DEFINE n == Len(q)
           Body(h) == [i \in 0 .. n |-> IF i = 0 THEN DeferStart(s) ELSE ready(h[i - 1], q[i])]
           f == CHOOSE h : h = Body(h)
<1>2. ReadyAll(s, q) = DeferStop(f[n])
  BY DEF ReadyAll
<1>3. \E h : h = Body(h)
  <2>1. PICK h : Readied(s, q, n, h)
    BY <1>1, ReadiedExists
  <2> QED BY <2>1 DEF Readied
<1>4. f = Body(f)
  <2> HIDE DEF Body
  <2> QED BY <1>3
<1> HIDE DEF f
<1>5. /\ f[0] = DeferStart(s)
      /\ \A i \in 0 .. n : i # 0 => f[i] = ready(f[i - 1], q[i])
  <2>1. 0 \in 0 .. n
    BY <1>1
  <2> QED BY <1>4, <2>1
<1> HIDE DEF Body
<1> DEFINE bad == {i \in 0 .. n : ~Partway(s, q, i, f[i])}
<1>6. bad = {}
  <2> SUFFICES ASSUME bad # {} PROVE FALSE
    OBVIOUS
  <2>1. PICK m \in bad : \A i \in bad : m <= i
    <3>1. bad \in SUBSET Nat
      OBVIOUS
    <3> HIDE DEF bad
    <3> QED BY <3>1, LeastNatural
  <2>2. m \in 0 .. n /\ ~Partway(s, q, m, f[m])
    BY <2>1
  <2>3. m # 0
    BY <1>5, <2>2, PartwayStart
  <2>4. PICK l \in Nat : l = m - 1 /\ l \in 0 .. n /\ l < n /\ ~(m <= l) /\ l + 1 = m
    BY <1>1, <2>2, <2>3
  <2>5. Partway(s, q, l, f[l])
    BY <2>1, <2>4
  <2>6. Partway(s, q, l + 1, ready(f[l], q[l + 1]))
    BY <2>4, <2>5, PartwayStep
  <2> QED BY <1>5, <2>2, <2>3, <2>4, <2>6
<1>7. Partway(s, q, n, f[n])
  <2>1. n \in 0 .. n
    BY <1>1
  <2> QED BY <1>6, <2>1
<1> QED BY <1>2, <1>7

\* The processes of q run, or are ready, and the highest priority runs.
LEMMA ReadyAllEffect ==
  ASSUME NEW s, NEW q, Batch(s, q)
  PROVE  LET t == ReadyAll(s, q)
         IN  /\ Good(t) /\ Runs(s, t, {q[j] : j \in 1 .. Len(q)})
             /\ Ranked(s) /\ Highest(s) => Ranked(t) /\ Highest(t)
<1>1. PICK u : Partway(s, q, Len(q), u) /\ ReadyAll(s, q) = DeferStop(u)
  BY ReadyAllPartway
<1> DEFINE v == [u EXCEPT !.ndefers = 0]
           P == {q[j] : j \in 1 .. Len(q)}
           t == DeferStop(u)
<1>2. Len(q) \in Nat /\ \A j \in 1 .. Len(q) : q[j] \in Pids
  BY LenProperties DEF Batch
<1>3. {q[j] : j \in Len(q) + 1 .. Len(q)} = {}
  BY <1>2
<1>4. Sched(u) /\ u \in Schedulers /\ u.ndefers = 1
  BY <1>1, <1>3 DEF Partway, Sched, Loose
<1>5. /\ v.st = u.st /\ v.prio = u.prio /\ v.key = u.key /\ v.rdy = u.rdy /\ v.slp = u.slp /\ v.cur = u.cur
      /\ v.ndefers = 0 /\ v.attempt = u.attempt /\ v \in Schedulers
  BY <1>4 DEF Schedulers
<1>6. t = IF u.attempt THEN resched(v) ELSE v
  <2>1. u.ndefers - 1 = 0
    BY <1>4
  <2>2. [u EXCEPT !.ndefers = @ - 1] = v
    BY <1>4, <2>1 DEF Schedulers
  <2>3. DeferStop(u) = IF v.ndefers = 0 /\ v.attempt THEN resched(v) ELSE v
    BY <2>2 DEF DeferStop
  <2> HIDE DEF v
  <2> QED BY <1>5, <2>3
<1> HIDE DEF v, t
<1>7. Sched(v) /\ (Ranked(u) => Ranked(v))
  BY <1>4, <1>5, SameQueues DEF Sched
<1>8. /\ u.st[u.cur] = "CURR" /\ u.cur = s.cur /\ u.slp = s.slp /\ u.prio = s.prio
      /\ \A p \in Pids : IF p \in P THEN u.st[p] = "READY" ELSE u.st[p] = s.st[p] /\ u.key[p] = s.key[p]
      /\ Ranked(s) => Ranked(u)
  BY <1>1 DEF Partway
<1>9. Runs(s, v, P)
  <2>1. \A p \in Pids : p \in P => s.st[p] \notin Runnable
    BY DEF Batch
  <2> HIDE DEF P
  <2> QED BY <1>5, <1>8, <2>1 DEF Runs, Runnable
<1>10. CASE u.attempt
  <2>1. Good(t) /\ Runs(v, t, {}) /\ (Ranked(v) => Ranked(t) /\ Highest(t))
    BY <1>5, <1>6, <1>7, <1>10, ReschedEffect
  <2>2. Runs(s, t, P)
    <3> HIDE DEF P
    <3> QED BY <1>9, <2>1 DEF Runs
  <2> QED BY <1>1, <1>7, <1>8, <2>1, <2>2 DEF t
<1>11. CASE ~u.attempt
  <2>1. Len(q) = 0
    <3>1. ~(Len(q) > 0)
      BY <1>1, <1>11 DEF Partway
    <3> QED BY <1>2, <3>1
  <2>2. t = v
    BY <1>6, <1>11
  <2>3. Good(t)
    BY <1>5, <1>7, <1>8, <2>2 DEF Good
  <2>4. P = {}
    BY <2>1
  <2>5. Highest(s) => Highest(t)
    <3> HIDE DEF P
    <3> QED BY <1>5, <1>8, <2>2, <2>4 DEF Highest
  <2> QED BY <1>1, <1>7, <1>8, <1>9, <2>2, <2>3, <2>5 DEF t
<1> QED BY <1>10, <1>11

\* Waiting processes may be taken off the queue of their semaphore and made ready.
LEMMA BatchOfWaiting ==
  ASSUME NEW s, Good(s), NEW q \in Seq(Pids), One(q), \A j \in 1 .. Len(q) : s.st[q[j]] = "WAIT"
  PROVE  Batch(s, q)
<1> DEFINE P == {q[j] : j \in 1 .. Len(q)}
<1>1. P \in SUBSET Pids /\ \A p \in P : s.st[p] = "WAIT"
  BY LenProperties
<1> HIDE DEF P
<1>2. 0 \in Pids
  BY KernelAssumption DEF Pids
<1>3. Loose(s, P)
  BY <1>1, <1>2 DEF Good, Sched, Loose, Delayed, Runnable
<1> QED BY <1>3 DEF Batch, Good, Runnable, P

-----------------------------------------------------------------------------
(* The delta list. *)

\* The keys of q are the differences of the times d at which its processes are due.
Delta(q, key, d) ==
  /\ \A i \in 1 .. Len(q) : key[q[i]] = d[q[i]] - (IF i = 1 THEN 0 ELSE d[q[i - 1]])
  /\ \A i, j \in 1 .. Len(q) : i <= j => d[q[i]] <= d[q[j]]

\* The sums of the keys are then the times.
Sums(q, key, m) == CHOOSE h : h = [i \in 0 .. m |-> IF i = 0 THEN 0 ELSE h[i - 1] + key[q[i]]]
Differences(q, key, d, m) ==
  /\ q \in Seq(Pids) /\ key \in [Pids -> Int] /\ d \in [Pids -> Int] /\ m \in Nat /\ m <= Len(q)
  /\ \A i \in 1 .. Len(q) : key[q[i]] = d[q[i]] - (IF i = 1 THEN 0 ELSE d[q[i - 1]])
LEMMA SumOfKeys ==
  ASSUME NEW q, NEW key, NEW d, NEW m, Differences(q, key, d, m)
  PROVE  Sums(q, key, m) = [i \in 0 .. m |-> IF i = 0 THEN 0 ELSE d[q[i]]]
<1> DEFINE g == [i \in 0 .. m |-> IF i = 0 THEN 0 ELSE d[q[i]]]
           Body(h) == [i \in 0 .. m |-> IF i = 0 THEN 0 ELSE h[i - 1] + key[q[i]]]
           f == CHOOSE h : h = Body(h)
<1>0. /\ q \in Seq(Pids) /\ key \in [Pids -> Int] /\ d \in [Pids -> Int] /\ m \in Nat /\ m <= Len(q)
      /\ \A i \in 1 .. Len(q) : key[q[i]] = d[q[i]] - (IF i = 1 THEN 0 ELSE d[q[i - 1]])
  BY DEF Differences
<1>1. Len(q) \in Nat /\ \A i \in 1 .. Len(q) : q[i] \in Pids
  BY <1>0, LenProperties
<1>2. m \in Nat /\ m <= Len(q)
  BY <1>0
<1> USE <1>0
<1>3. \A i \in 1 .. m : d[q[i]] \in Int /\ key[q[i]] \in Int
  <2>1. \A i \in 1 .. m : i \in 1 .. Len(q)
    BY <1>1
  <2> QED BY <1>1, <2>1
<1>4. \A i \in 0 .. m : g[i] = IF i = 0 THEN 0 ELSE g[i - 1] + key[q[i]]
  <2> SUFFICES ASSUME NEW i \in 0 .. m, i # 0 PROVE g[i] = g[i - 1] + key[q[i]]
    BY <1>2
  <2>1. i \in 1 .. Len(q) /\ i \in 1 .. m
    BY <1>1
  <2>2. CASE i = 1
    <3>1. g[1] = d[q[1]] /\ g[1 - 1] = 0 /\ key[q[1]] = d[q[1]] - 0
      BY <1>2, <2>1, <2>2
    <3> HIDE DEF g
    <3> QED BY <1>3, <2>1, <2>2, <3>1
  <2>3. CASE i # 1
    <3>1. i - 1 \in 1 .. m /\ i - 1 \in 0 .. m /\ i - 1 # 0
      BY <2>1, <2>3
    <3>2. g[i] = d[q[i]] /\ g[i - 1] = d[q[i - 1]] /\ key[q[i]] = d[q[i]] - d[q[i - 1]]
      BY <2>1, <2>3, <3>1
    <3>3. d[q[i]] \in Int /\ d[q[i - 1]] \in Int
      BY <1>3, <2>1, <3>1
    <3> HIDE DEF g
    <3>4. PICK a \in Int, b \in Int : a = d[q[i]] /\ b = d[q[i - 1]]
      BY <3>3
    <3>5. g[i] = a /\ g[i - 1] = b /\ key[q[i]] = a - b
      BY ONLY <3>2, <3>4
    <3>6. a = b + (a - b)
      OBVIOUS
    <3> QED BY ONLY <3>5, <3>6
  <2> QED BY <2>2, <2>3
<1>5. g = Body(g)
  <2>1. g = [i \in 0 .. m |-> g[i]]
    OBVIOUS
  <2> HIDE DEF g
  <2> QED BY <1>4, <2>1
<1>6. f = Body(f)
  <2> HIDE DEF Body, g
  <2> QED BY <1>5
<1>7. DOMAIN f = 0 .. m /\ \A i \in 0 .. m : f[i] = IF i = 0 THEN 0 ELSE f[i - 1] + key[q[i]]
  <2> HIDE DEF f
  <2> QED BY <1>6
<1>8. f = [i \in 0 .. m |-> f[i]]
  <2> HIDE DEF f
  <2> QED BY <1>6
<1>9. DOMAIN g = 0 .. m /\ g = [i \in 0 .. m |-> g[i]]
  OBVIOUS
<1> HIDE DEF f, g
<1> DEFINE bad == {i \in 0 .. m : f[i] # g[i]}
<1>10. bad = {}
  <2> SUFFICES ASSUME bad # {} PROVE FALSE
    OBVIOUS
  <2>1. PICK l \in bad : \A i \in bad : l <= i
    <3>1. bad \in SUBSET Nat
      OBVIOUS
    <3> HIDE DEF bad
    <3> QED BY <3>1, LeastNatural
  <2>2. l \in 0 .. m /\ f[l] # g[l]
    BY <2>1
  <2>3. l # 0
    BY <1>2, <1>4, <1>7, <2>2
  <2>4. l - 1 \in 0 .. m /\ ~(l <= l - 1)
    BY <1>2, <2>2, <2>3
  <2>5. f[l - 1] = g[l - 1]
    BY <2>1, <2>4
  <2> QED BY <1>4, <1>7, <2>2, <2>3, <2>5
<1>11. \A i \in 0 .. m : f[i] = g[i]
  BY <1>10
<1>12. f = g
  BY <1>8, <1>9, <1>11
<1> QED BY <1>12 DEF f, g, Sums

\* A process with delay x is put at position i + 1, behind those that are due no later.
Inserting(q, key, d, p, x, n, i, sum, r, key2) ==
  /\ q \in Seq(Pids) /\ One(q) /\ key \in [Pids -> Int] /\ d \in [Pids -> Nat] /\ Delta(q, key, d)
  /\ p \in Pids /\ ~Contains(q, p) /\ x \in Nat \ {0}
  /\ n \in Nat /\ n = Len(q) /\ i \in Nat /\ i <= n /\ \A j \in 1 .. n : j <= i <=> d[q[j]] <= x
  /\ sum = IF i = 0 THEN 0 ELSE d[q[i]]
  /\ r \in Seq(Pids) /\ Len(r) = n + 1 /\ r[i + 1] = p
  /\ \A j \in 1 .. i : r[j] = q[j]
  /\ \A j \in i + 2 .. n + 1 : r[j] = q[j - 1]
  /\ key2 \in [Pids -> Int] /\ key2[p] = x - sum
  /\ i # n => key2[q[i + 1]] = key[q[i + 1]] - (x - sum)
  /\ \A y \in Pids : y # p /\ (i # n => y # q[i + 1]) => key2[y] = key[y]
LEMMA DeltaInserted ==
  \A q, key, d, p, x, n, i, sum, r, key2 :
     Inserting(q, key, d, p, x, n, i, sum, r, key2) => Delta(r, key2, [d EXCEPT ![p] = x])
<1> SUFFICES ASSUME NEW q, NEW key, NEW d, NEW p, NEW x, NEW n, NEW i, NEW sum, NEW r, NEW key2,
                    Inserting(q, key, d, p, x, n, i, sum, r, key2)
             PROVE  Delta(r, key2, [d EXCEPT ![p] = x])
  OBVIOUS
<1>0. /\ q \in Seq(Pids) /\ One(q) /\ key \in [Pids -> Int] /\ d \in [Pids -> Nat] /\ Delta(q, key, d)
      /\ p \in Pids /\ ~Contains(q, p) /\ x \in Nat \ {0}
      /\ n \in Nat /\ n = Len(q) /\ i \in Nat /\ i <= n /\ \A j \in 1 .. n : j <= i <=> d[q[j]] <= x
      /\ sum = (IF i = 0 THEN 0 ELSE d[q[i]])
      /\ r \in Seq(Pids) /\ Len(r) = n + 1 /\ r[i + 1] = p
      /\ \A j \in 1 .. i : r[j] = q[j]
      /\ \A j \in i + 2 .. n + 1 : r[j] = q[j - 1]
      /\ key2 \in [Pids -> Int] /\ key2[p] = x - sum
      /\ i # n => key2[q[i + 1]] = key[q[i + 1]] - (x - sum)
      /\ \A y \in Pids : y # p /\ (i # n => y # q[i + 1]) => key2[y] = key[y]
  BY Zenon DEF Inserting
<1> USE <1>0
<1> DEFINE e == [d EXCEPT ![p] = x]
           due1(j) == e[r[j]]
<1>1. \A j \in 1 .. n : q[j] \in Pids /\ d[q[j]] \in Nat /\ q[j] # p
  <2>1. \A j \in 1 .. n : q[j] \in Pids
    BY LenProperties
  <2> QED BY <2>1 DEF Contains
<1>2. /\ \A j \in 1 .. n : key[q[j]] = d[q[j]] - (IF j = 1 THEN 0 ELSE d[q[j - 1]])
      /\ \A j, l \in 1 .. n : j <= l => d[q[j]] <= d[q[l]]
  BY DEF Delta
<1>3. i # 0 => i \in 1 .. n
  OBVIOUS
<1>4. sum \in Nat
  BY <1>1, <1>3
<1>5. i # n => i + 1 \in 1 .. n
  OBVIOUS
<1>6. e[p] = x /\ \A j \in 1 .. n : e[q[j]] = d[q[j]]
  BY <1>1
<1> HIDE DEF e
<1>7. ASSUME NEW j \in 1 .. i
      PROVE  j \in 1 .. n /\ r[j] = q[j] /\ due1(j) = d[q[j]] /\ due1(j) <= x /\ due1(j) \in Nat
  <2>1. j \in 1 .. n /\ j <= i
    OBVIOUS
  <2>2. r[j] = q[j] /\ e[q[j]] = d[q[j]] /\ d[q[j]] \in Nat /\ (j <= i <=> d[q[j]] <= x)
    BY <1>1, <1>6, <2>1
  <2> QED BY <2>1, <2>2
<1>8. due1(i + 1) = x
  BY <1>6
<1>9. ASSUME NEW j \in i + 2 .. n + 1
      PROVE  /\ j - 1 \in 1 .. n /\ r[j] = q[j - 1] /\ due1(j) = d[q[j - 1]]
             /\ due1(j) > x /\ due1(j) \in Nat
  <2>1. j - 1 \in 1 .. n /\ ~(j - 1 <= i)
    BY ONLY n \in Nat, i \in Nat, j \in i + 2 .. n + 1
  <2>2. d[q[j - 1]] \in Nat /\ ~(d[q[j - 1]] <= x)
    BY <1>1, <2>1
  <2>3. d[q[j - 1]] > x
    BY ONLY <2>2, x \in Nat \ {0}
  <2> QED BY <1>6, <2>1, <2>2, <2>3
<1> HIDE DEF due1
<1>10. \A j, l \in 1 .. n + 1 : j <= l => due1(j) <= due1(l)
  <2> SUFFICES ASSUME NEW j \in 1 .. n + 1, NEW l \in 1 .. n + 1, j <= l PROVE due1(j) <= due1(l)
    OBVIOUS
  <2>1. \/ j \in 1 .. i /\ l \in 1 .. i
        \/ j \in 1 .. i /\ l = i + 1
        \/ j \in 1 .. i /\ l \in i + 2 .. n + 1
        \/ j = i + 1 /\ l = i + 1
        \/ j = i + 1 /\ l \in i + 2 .. n + 1
        \/ j \in i + 2 .. n + 1 /\ l \in i + 2 .. n + 1 /\ j - 1 <= l - 1
    BY ONLY j \in 1 .. n + 1, l \in 1 .. n + 1, j <= l, n \in Nat, i \in Nat, i <= n
  <2>2. CASE j \in 1 .. i /\ l \in 1 .. i
    <3>1. j \in 1 .. n /\ l \in 1 .. n /\ due1(j) = d[q[j]] /\ due1(l) = d[q[l]]
      BY <1>7, <2>2
    <3> QED BY <1>2, <3>1
  <2>3. CASE j \in i + 2 .. n + 1 /\ l \in i + 2 .. n + 1 /\ j - 1 <= l - 1
    <3>1. j - 1 \in 1 .. n /\ l - 1 \in 1 .. n /\ due1(j) = d[q[j - 1]] /\ due1(l) = d[q[l - 1]]
      BY <1>9, <2>3
    <3>2. d[q[j - 1]] <= d[q[l - 1]]
      BY <1>2, <2>3, <3>1
    <3> QED BY <3>1, <3>2
  <2>4. CASE j \in 1 .. i /\ l \in i + 2 .. n + 1
    <3>1. due1(j) <= x /\ due1(l) > x /\ due1(j) \in Nat /\ due1(l) \in Nat
      BY <1>7, <1>9, <2>4
    <3> QED BY <3>1
  <2>5. CASE j \in 1 .. i /\ l = i + 1
    BY <1>7, <1>8, <2>5
  <2>6. CASE j = i + 1 /\ l \in i + 2 .. n + 1
    <3>1. due1(j) = x /\ due1(l) > x /\ due1(l) \in Nat
      BY <1>8, <1>9, <2>6
    <3> QED BY <3>1
  <2>7. CASE j = i + 1 /\ l = i + 1
    BY <1>8, <2>7
  <2> QED BY <2>1, <2>2, <2>3, <2>4, <2>5, <2>6, <2>7
<1>11. \A j \in 1 .. n + 1 : key2[r[j]] = due1(j) - (IF j = 1 THEN 0 ELSE due1(j - 1))
  <2> SUFFICES ASSUME NEW j \in 1 .. n + 1 PROVE key2[r[j]] = due1(j) - (IF j = 1 THEN 0 ELSE due1(j - 1))
    OBVIOUS
  <2>0. j \in 1 .. i \/ j = i + 1 \/ j = i + 2 \/ j \in i + 3 .. n + 1
    BY ONLY j \in 1 .. n + 1, n \in Nat, i \in Nat, i <= n
  <2>1. CASE j \in 1 .. i
    <3>1. r[j] = q[j] /\ j \in 1 .. n /\ due1(j) = d[q[j]]
      BY <1>7, <2>1
    <3>2. j # 1 => due1(j - 1) = d[q[j - 1]]
      <4>1. j # 1 => j - 1 \in 1 .. i
        BY ONLY j \in 1 .. i, i \in Nat, <2>1
      <4> QED BY <1>7, <4>1
    <3>3. key2[r[j]] = key[q[j]]
      <4>1. i # n => q[j] # q[i + 1]
        <5>1. j # i + 1
          BY ONLY <2>1, i \in Nat
        <5>2. \A a, b \in 1 .. n : q[a] = q[b] => a = b
          BY DEF One
        <5> QED BY <1>5, <3>1, <5>1, <5>2
      <4>2. q[j] \in Pids /\ q[j] # p
        BY <1>1, <3>1
      <4> QED BY <3>1, <4>1, <4>2
    <3>4. key[q[j]] = d[q[j]] - (IF j = 1 THEN 0 ELSE d[q[j - 1]])
      BY <1>2, <3>1
    <3>5. CASE j = 1
      BY <3>1, <3>3, <3>4, <3>5
    <3>6. CASE j # 1
      BY <3>1, <3>2, <3>3, <3>4, <3>6
    <3> QED BY <3>5, <3>6
  <2>2. CASE j = i + 1
    <3>1. r[j] = p /\ due1(j) = x /\ key2[r[j]] = x - sum
      BY <1>8, <2>2
    <3>2. CASE i = 0
      <4>1. j = 1 /\ sum = 0
        BY <2>2, <3>2
      <4> QED BY <3>1, <4>1
    <3>3. CASE i # 0
      <4>1. i \in 1 .. i /\ j # 1 /\ j - 1 = i
        BY <2>2, <3>3
      <4>2. due1(j - 1) = sum
        BY <1>7, <3>3, <4>1
      <4> QED BY <3>1, <4>1, <4>2
    <3> QED BY <3>2, <3>3
  <2>3. CASE j = i + 2
    <3>1. j \in i + 2 .. n + 1 /\ j - 1 = i + 1 /\ j # 1 /\ i # n
      BY ONLY j \in 1 .. n + 1, n \in Nat, i \in Nat, i <= n, <2>3
    <3>2. due1(j) = d[q[i + 1]] /\ r[j] = q[i + 1]
      <4>1. due1(j) = d[q[j - 1]] /\ r[j] = q[j - 1]
        BY <1>9, <3>1
      <4> QED BY <3>1, <4>1
    <3>3. due1(j - 1) = x
      BY <1>8, <3>1
    <3>4. i + 1 \in 1 .. n /\ (i + 1 = 1 <=> i = 0) /\ (i + 1) - 1 = i
      BY <1>5, <3>1
    <3>5. key[q[i + 1]] = d[q[i + 1]] - sum
      <4>1. key[q[i + 1]] = d[q[i + 1]] - (IF i + 1 = 1 THEN 0 ELSE d[q[(i + 1) - 1]])
        BY <1>2, <3>4
      <4>2. (IF i + 1 = 1 THEN 0 ELSE d[q[(i + 1) - 1]]) = sum
        BY <3>4
      <4> QED BY <4>1, <4>2
    <3>6. key2[q[i + 1]] = key[q[i + 1]] - (x - sum) /\ d[q[i + 1]] \in Nat
      BY <1>1, <3>1, <3>4
    <3>7. key2[r[j]] = d[q[i + 1]] - x
      <4>1. key2[r[j]] = (d[q[i + 1]] - sum) - (x - sum)
        BY <3>2, <3>5, <3>6
      <4> QED BY ONLY <1>4, <3>6, <4>1, x \in Nat \ {0}
    <3> QED BY <3>1, <3>2, <3>3, <3>7
  <2>4. CASE j \in i + 3 .. n + 1
    <3>1. /\ j \in i + 2 .. n + 1 /\ j - 1 \in i + 2 .. n + 1 /\ j # 1 /\ j - 1 # 1 /\ j - 1 # i + 1
          /\ j - 1 \in 1 .. n /\ i # n
      BY ONLY n \in Nat, i \in Nat, <2>4
    <3>2. r[j] = q[j - 1] /\ due1(j) = d[q[j - 1]] /\ due1(j - 1) = d[q[(j - 1) - 1]]
      BY <1>9, <3>1
    <3>3. key2[r[j]] = key[q[j - 1]]
      <4>1. q[j - 1] # q[i + 1]
        BY <1>5, <3>1 DEF One
      <4> QED BY <1>1, <3>1, <3>2, <4>1
    <3>4. key[q[j - 1]] = d[q[j - 1]] - d[q[(j - 1) - 1]]
      BY <1>2, <3>1
    <3> QED BY <3>1, <3>2, <3>3, <3>4
  <2> QED BY <2>0, <2>1, <2>2, <2>3, <2>4
<1>12. Delta(r, key2, e)
  BY <1>10, <1>11 DEF Delta, due1
<1> QED BY <1>12 DEF e

\* insertd puts the process where it belongs, and every key still counts from its
\* predecessor.
Inserted1(s, p, x, d, u) ==
  /\ u \in Schedulers
  /\ u.st = s.st /\ u.prio = s.prio /\ u.rdy = s.rdy /\ u.cur = s.cur
  /\ u.ndefers = s.ndefers /\ u.attempt = s.attempt
  /\ \A y \in Pids : y # p /\ ~Contains(s.slp, y) => u.key[y] = s.key[y]
  /\ One(u.slp) /\ \A y : Contains(u.slp, y) <=> Contains(s.slp, y) \/ y = p
  /\ Delta(u.slp, u.key, [d EXCEPT ![p] = x])
LEMMA InsertdEffect ==
  ASSUME NEW s, s \in Schedulers, One(s.slp), NEW p, p \in Pids, ~Contains(s.slp, p), NEW x, x \in Nat \ {0},
         NEW d, d \in [Pids -> Nat], Delta(s.slp, s.key, d)
  PROVE  Inserted1(s, p, x, d, insertd(s, p, x))
<1> DEFINE u == insertd(s, p, x)
           e == [d EXCEPT ![p] = x]
<1>1. s.slp \in Seq(Pids) /\ s.key \in [Pids -> Int]
  BY DEF Schedulers
<1>2. PICK q \in Seq(Pids) : q = s.slp
  BY <1>1
<1>3. PICK key \in [Pids -> Int] : key = s.key
  BY <1>1
<1>4. Len(q) \in Nat /\ DOMAIN q = 1 .. Len(q) /\ \A j \in 1 .. Len(q) : q[j] \in Pids
  BY LenProperties
<1>5. PICK n \in Nat : n = Len(q)
  BY <1>4
<1>6. DOMAIN q = 1 .. n /\ \A j \in 1 .. n : q[j] \in Pids /\ d[q[j]] \in Nat /\ q[j] # p
  BY <1>2, <1>4, <1>5 DEF Contains
<1>7. /\ \A j \in 1 .. n : key[q[j]] = d[q[j]] - (IF j = 1 THEN 0 ELSE d[q[j - 1]])
      /\ \A j, l \in 1 .. n : j <= l => d[q[j]] <= d[q[l]]
  BY <1>2, <1>3, <1>5 DEF Delta
<1>8. PICK D \in SUBSET (1 .. n) : D = {j \in 1 .. n : d[q[j]] <= x}
  OBVIOUS
<1>9. D = 1 .. Cardinality(D) /\ Cardinality(D) \in 0 .. n
  <2>1. ASSUME NEW j \in D, NEW l \in 1 .. j PROVE l \in D
    <3>1. j \in 1 .. n /\ l \in 1 .. n /\ l <= j /\ d[q[j]] <= x
      BY <1>8
    <3>2. d[q[l]] <= d[q[j]] /\ d[q[l]] \in Nat /\ d[q[j]] \in Nat
      BY <1>6, <1>7, <3>1
    <3>3. PICK a \in Nat, b \in Nat : a = d[q[l]] /\ b = d[q[j]]
      BY <3>2
    <3>4. a <= b /\ b <= x /\ x \in Nat
      BY <1>1, <3>1, <3>2, <3>3
    <3>5. d[q[l]] <= x
      BY ONLY <3>3, <3>4, a \in Nat, b \in Nat
    <3> QED BY <1>8, <3>1, <3>5
  <2>2. \A j \in D : \A l \in 1 .. j : l \in D
    BY <2>1
  <2> QED BY <2>2, Initial
<1>10. PICK i \in Nat : i = Cardinality(D) /\ i <= n
  BY <1>9
<1>11. \A j \in 1 .. n : j <= i <=> d[q[j]] <= x
  <2>1. \A j \in 1 .. n : j \in 1 .. i <=> d[q[j]] <= x
    BY <1>8, <1>9, <1>10
  <2> QED BY <2>1
<1>12. PICK sum : sum = (IF i = 0 THEN 0 ELSE d[q[i]])
  OBVIOUS
<1>13. sum \in Nat /\ x - sum \in Int
  <2>1. i # 0 => i \in 1 .. n
    BY <1>10
  <2>2. sum \in Nat
    BY <1>6, <1>12, <2>1
  <2> QED BY <2>2
<1>14. PICK l \in Nat \ {0} : l = i + 1 /\ l <= n + 1
  BY <1>10
<1>15. Spliced(q, l, p, InsertAt(q, l, p)) /\ One(q) /\ ~Contains(q, p)
  BY <1>2, <1>5, <1>14, InsertedPid
<1>17. PICK r \in Seq(Pids) : r = InsertAt(q, i + 1, p)
  BY <1>14, <1>15 DEF Spliced
<1>18. /\ Len(r) = n + 1 /\ r[i + 1] = p
       /\ \A j \in 1 .. i : r[j] = q[j]
       /\ \A j \in i + 2 .. n + 1 : r[j] = q[j - 1]
       /\ One(r) /\ \A y : Contains(r, y) <=> Contains(q, y) \/ y = p
  <2>1. r = InsertAt(q, l, p) /\ l - 1 = i /\ l + 1 = i + 2
    BY <1>14, <1>17
  <2>2. Spliced(q, l, p, r)
    BY <1>15, <2>1
  <2> QED BY <1>5, <1>14, <1>15, <2>1, <2>2 DEF Spliced
<1>19. PICK key1 \in [Pids -> Int] : key1 = [key EXCEPT ![p] = x - sum]
  BY <1>13
<1>20. PICK key2 \in [Pids -> Int] : key2 = IF i = n THEN key1 ELSE [key1 EXCEPT ![q[i + 1]] = key1[q[i + 1]] - (x - sum)]
  <2>1. CASE i = n
    BY <2>1
  <2>2. CASE i # n
    <3>1. i + 1 \in 1 .. n
      BY <1>10, <2>2
    <3>2. q[i + 1] \in Pids
      BY <1>6, <3>1
    <3>3. key1[q[i + 1]] - (x - sum) \in Int
      BY <1>13, <3>2
    <3> QED BY <2>2, <3>3
  <2> QED BY <2>1, <2>2
<1>21. /\ key2[p] = x - sum
       /\ i # n => key2[q[i + 1]] = key[q[i + 1]] - (x - sum)
       /\ \A y \in Pids : y # p /\ (i # n => y # q[i + 1]) => key2[y] = key[y]
  <2>1. key1[p] = x - sum /\ \A y \in Pids : y # p => key1[y] = key[y]
    BY <1>19
  <2>2. CASE i = n
    BY <1>20, <2>1, <2>2
  <2>3. CASE i # n
    <3>1. i + 1 \in 1 .. n
      BY <1>10, <2>3
    <3>2. q[i + 1] \in Pids /\ q[i + 1] # p
      BY <1>6, <3>1
    <3> QED BY <1>20, <2>1, <2>3, <3>2
  <2> QED BY <2>2, <2>3
<1>22. u = [s EXCEPT !.key = key2, !.slp = r]
  <2>1. PICK Sum : Sum = Sums(q, key, n)
    OBVIOUS
  <2>2. Sum = [j \in 0 .. n |-> IF j = 0 THEN 0 ELSE d[q[j]]]
    <3>1. n <= Len(q)
      BY <1>5
    <3>2. d \in [Pids -> Int]
      OBVIOUS
    <3>3. \A j \in 1 .. Len(q) : key[q[j]] = d[q[j]] - (IF j = 1 THEN 0 ELSE d[q[j - 1]])
      BY <1>5, <1>7
    <3>4. Sums(q, key, n) = [j \in 0 .. n |-> IF j = 0 THEN 0 ELSE d[q[j]]]
      <4>1. Differences(q, key, d, n)
        BY <3>1, <3>2, <3>3 DEF Differences
      <4> QED BY <4>1, SumOfKeys
    <3> QED BY <2>1, <3>4
  <2>3. u = LET j == Cardinality({m \in DOMAIN q : Sum[m] <= x})
                v == [s EXCEPT !.key[p] = x - Sum[j], !.slp = InsertAt(q, j + 1, p)]
            IN  IF j = Len(q) THEN v ELSE [v EXCEPT !.key[q[j + 1]] = @ - (x - Sum[j])]
    BY <1>2, <1>3, <1>5, <2>1 DEF insertd, Sums
  <2> HIDE DEF u
  <2>4. {m \in DOMAIN q : Sum[m] <= x} = D
    <3>1. \A m \in 1 .. n : m \in 0 .. n /\ m # 0
      OBVIOUS
    <3>2. \A m \in 1 .. n : Sum[m] = d[q[m]]
      BY <2>2, <3>1
    <3> QED BY <1>6, <1>8, <3>2
  <2>5. Sum[i] = sum
    <3>1. i \in 0 .. n
      BY <1>10
    <3> QED BY <1>12, <2>2, <3>1
  <2>6. PICK t : t = [s EXCEPT !.key[p] = x - sum, !.slp = r]
    OBVIOUS
  <2>7. u = IF i = n THEN t ELSE [t EXCEPT !.key[q[i + 1]] = @ - (x - sum)]
    <3>1. u = LET v == [s EXCEPT !.key[p] = x - Sum[i], !.slp = InsertAt(q, i + 1, p)]
              IN  IF i = Len(q) THEN v ELSE [v EXCEPT !.key[q[i + 1]] = @ - (x - Sum[i])]
      <4> DEFINE W(j) == LET v == [s EXCEPT !.key[p] = x - Sum[j], !.slp = InsertAt(q, j + 1, p)]
                         IN  IF j = Len(q) THEN v ELSE [v EXCEPT !.key[q[j + 1]] = @ - (x - Sum[j])]
      <4>1. u = W(Cardinality({m \in DOMAIN q : Sum[m] <= x}))
        BY ONLY <2>3
      <4>2. Cardinality({m \in DOMAIN q : Sum[m] <= x}) = i
        BY <1>10, <2>4
      <4>3. u = W(i)
        <5> HIDE DEF W
        <5> QED BY <4>1, <4>2, Zenon
      <4> QED BY <4>3
    <3>2. Len(q) = n /\ InsertAt(q, i + 1, p) = r
      BY <1>5, <1>17
    <3>3. u = LET v == [s EXCEPT !.key[p] = x - sum, !.slp = r]
              IN  IF i = n THEN v ELSE [v EXCEPT !.key[q[i + 1]] = @ - (x - sum)]
      <4> DEFINE Z(m, c, y) == LET v == [s EXCEPT !.key[p] = x - c, !.slp = y]
                               IN  IF i = m THEN v ELSE [v EXCEPT !.key[q[i + 1]] = @ - (x - c)]
      <4>1. u = Z(Len(q), Sum[i], InsertAt(q, i + 1, p))
        BY ONLY <3>1
      <4>2. Z(Len(q), Sum[i], InsertAt(q, i + 1, p)) = Z(n, sum, r)
        <5> HIDE DEF Z
        <5> QED BY ONLY <2>5, <3>2, Zenon
      <4> QED BY ONLY <4>1, <4>2
    <3> DEFINE Y(v) == IF i = n THEN v ELSE [v EXCEPT !.key[q[i + 1]] = @ - (x - sum)]
    <3>4. u = Y([s EXCEPT !.key[p] = x - sum, !.slp = r])
      BY ONLY <3>3
    <3>5. u = Y(t)
      <4> HIDE DEF Y
      <4> QED BY ONLY <2>6, <3>4, Zenon
    <3> QED BY ONLY <3>5
  <2>8. t = [s EXCEPT !.key = key1, !.slp = r]
    BY <1>3, <1>19, <2>6 DEF Schedulers
  <2>9. t.key = key1
    BY <2>8 DEF Schedulers
  <2>10. CASE i = n
    BY <1>20, <2>7, <2>8, <2>10
  <2>11. CASE i # n
    <3>1. u = [t EXCEPT !.key = key2]
      BY <1>20, <2>7, <2>9, <2>11
    <3> QED BY <2>8, <3>1 DEF Schedulers
  <2> QED BY <2>10, <2>11
<1> HIDE DEF u
<1>23. /\ u \in Schedulers
       /\ u.st = s.st /\ u.prio = s.prio /\ u.rdy = s.rdy /\ u.cur = s.cur
       /\ u.ndefers = s.ndefers /\ u.attempt = s.attempt /\ u.key = key2 /\ u.slp = r
  BY <1>22 DEF Schedulers
<1>24. ASSUME NEW y \in Pids, y # p, ~Contains(s.slp, y) PROVE u.key[y] = s.key[y]
  <2>1. i # n => i + 1 \in 1 .. n
    BY ONLY <1>10, n \in Nat, i \in Nat
  <2>2. i # n => y # q[i + 1]
    BY <1>2, <1>5, <1>24, <2>1 DEF Contains
  <2> QED BY <1>3, <1>21, <1>23, <1>24, <2>2
<1>25. Delta(r, key2, e)
  <2>1. One(q) /\ Delta(q, key, d) /\ ~Contains(q, p) /\ n = Len(q) /\ i <= n
    BY <1>2, <1>3, <1>5, <1>10
  <2>2. /\ Len(r) = n + 1 /\ r[i + 1] = p
        /\ \A j \in 1 .. i : r[j] = q[j] 
        /\ \A j \in i + 2 .. n + 1 : r[j] = q[j - 1]
    BY <1>18
  <2>3. Inserting(q, key, d, p, x, n, i, sum, r, key2)
    BY <1>11, <1>12, <1>21, <2>1, <2>2 DEF Inserting
  <2> QED BY <2>3, DeltaInserted
<1>26. /\ u \in Schedulers
       /\ u.st = s.st /\ u.prio = s.prio /\ u.rdy = s.rdy /\ u.cur = s.cur
       /\ u.ndefers = s.ndefers /\ u.attempt = s.attempt
       /\ \A y \in Pids : y # p /\ ~Contains(s.slp, y) => u.key[y] = s.key[y]
       /\ One(u.slp) /\ \A y : Contains(u.slp, y) <=> Contains(s.slp, y) \/ y = p
       /\ Delta(u.slp, u.key, e)
  BY <1>2, <1>18, <1>23, <1>24, <1>25
<1> QED BY <1>26 DEF u, e, Inserted1

\* The delta list depends on the keys and times of its own processes.
LEMMA DeltaKept ==
  ASSUME NEW q, q \in Seq(Pids), NEW key, NEW key2, NEW d, NEW d2, Delta(q, key, d),
         \A p \in Pids : Contains(q, p) => key2[p] = key[p] /\ d2[p] = d[p]
  PROVE  Delta(q, key2, d2)
<1>1. Len(q) \in Nat /\ \A j \in 1 .. Len(q) : q[j] \in Pids
  BY LenProperties
<1>2. \A j \in 1 .. Len(q) : key2[q[j]] = key[q[j]] /\ d2[q[j]] = d[q[j]]
  BY <1>1 DEF Contains
<1>3. ASSUME NEW i \in 1 .. Len(q) PROVE key2[q[i]] = d2[q[i]] - (IF i = 1 THEN 0 ELSE d2[q[i - 1]])
  <2>1. i # 1 => i - 1 \in 1 .. Len(q)
    BY <1>1
  <2>2. key[q[i]] = d[q[i]] - (IF i = 1 THEN 0 ELSE d[q[i - 1]])
    BY DEF Delta
  <2> QED BY <1>2, <2>1, <2>2
<1>4. \A i, j \in 1 .. Len(q) : i <= j => d2[q[i]] <= d2[q[j]]
  BY <1>2 DEF Delta
<1> QED BY <1>3, <1>4 DEF Delta

\* When the process at position i is removed, its successor inherits its delay.
Removing(q, key, d, n, i, r, key2) ==
  /\ q \in Seq(Pids) /\ One(q) /\ key \in [Pids -> Int] /\ d \in [Pids -> Nat] /\ Delta(q, key, d)
  /\ n \in Nat /\ n = Len(q) /\ i \in 1 .. n
  /\ r \in Seq(Pids) /\ Len(r) = n - 1
  /\ \A j \in 1 .. i - 1 : r[j] = q[j]
  /\ \A j \in i .. n - 1 : r[j] = q[j + 1]
  /\ i # n => key2[q[i + 1]] = key[q[i + 1]] + key[q[i]]
  /\ \A y \in Pids : (i # n => y # q[i + 1]) => key2[y] = key[y]
LEMMA DeltaRemoved ==
  ASSUME NEW q, NEW key, NEW d, NEW n, NEW i, NEW r, NEW key2, Removing(q, key, d, n, i, r, key2)
  PROVE  Delta(r, key2, d)
<1>0. /\ q \in Seq(Pids) /\ One(q) /\ key \in [Pids -> Int] /\ d \in [Pids -> Nat] /\ Delta(q, key, d)
      /\ n \in Nat /\ n = Len(q) /\ i \in 1 .. n
      /\ r \in Seq(Pids) /\ Len(r) = n - 1
      /\ \A j \in 1 .. i - 1 : r[j] = q[j]
      /\ \A j \in i .. n - 1 : r[j] = q[j + 1]
      /\ i # n => key2[q[i + 1]] = key[q[i + 1]] + key[q[i]]
      /\ \A y \in Pids : (i # n => y # q[i + 1]) => key2[y] = key[y]
  BY Zenon DEF Removing
<1> USE <1>0
<1>1. \A j \in 1 .. n : q[j] \in Pids /\ d[q[j]] \in Nat
  <2>1. \A j \in 1 .. n : q[j] \in Pids
    BY LenProperties
  <2> QED BY <2>1
<1>2. /\ \A j \in 1 .. n : key[q[j]] = d[q[j]] - (IF j = 1 THEN 0 ELSE d[q[j - 1]])
      /\ \A j, l \in 1 .. n : j <= l => d[q[j]] <= d[q[l]]
  BY DEF Delta
<1>3. \A a, b \in 1 .. n : q[a] = q[b] => a = b
  BY DEF One
<1> DEFINE From(j) == IF j < i THEN j ELSE j + 1
<1>4. ASSUME NEW j \in 1 .. n - 1
      PROVE  From(j) \in 1 .. n /\ r[j] = q[From(j)]
  <2>1. CASE j < i
    <3>1. j \in 1 .. i - 1 /\ j \in 1 .. n
      BY ONLY <2>1, n \in Nat, i \in 1 .. n, j \in 1 .. n - 1
    <3> QED BY <2>1, <3>1
  <2>2. CASE ~(j < i)
    <3>1. j \in i .. n - 1 /\ j + 1 \in 1 .. n
      BY ONLY <2>2, n \in Nat, i \in 1 .. n, j \in 1 .. n - 1
    <3> QED BY <2>2, <3>1
  <2> QED BY <2>1, <2>2
<1>5. ASSUME NEW j \in 1 .. n - 1, NEW l \in 1 .. n - 1, j <= l PROVE d[r[j]] <= d[r[l]]
  <2>1. From(j) <= From(l)
    BY ONLY <1>5, j \in 1 .. n - 1, l \in 1 .. n - 1, n \in Nat, i \in 1 .. n
  <2> HIDE DEF From
  <2> QED BY <1>2, <1>4, <2>1
<1>6. ASSUME NEW j \in 1 .. n - 1 PROVE key2[r[j]] = d[r[j]] - (IF j = 1 THEN 0 ELSE d[r[j - 1]])
  <2>1. CASE j < i
    <3>1. j \in 1 .. i - 1 /\ j \in 1 .. n /\ j # i + 1 /\ (j # 1 => j - 1 \in 1 .. i - 1)
      BY ONLY <2>1, n \in Nat, i \in 1 .. n, j \in 1 .. n - 1
    <3>2. r[j] = q[j] /\ (j # 1 => r[j - 1] = q[j - 1])
      BY <3>1
    <3>3. i # n => i + 1 \in 1 .. n
      BY ONLY n \in Nat, i \in 1 .. n
    <3>4. key2[q[j]] = key[q[j]]
      <4>1. i # n => q[j] # q[i + 1]
        BY <1>3, <3>1, <3>3
      <4> QED BY <1>1, <3>1, <4>1
    <3>5. key[q[j]] = d[q[j]] - (IF j = 1 THEN 0 ELSE d[q[j - 1]])
      BY <1>2, <3>1
    <3> QED BY <3>2, <3>4, <3>5
  <2>2. CASE j = i
    <3>1. i # n /\ i \in i .. n - 1 /\ i + 1 \in 1 .. n /\ i + 1 # 1 /\ (i + 1) - 1 = i
      BY ONLY <2>2, n \in Nat, i \in 1 .. n, j \in 1 .. n - 1
    <3>2. r[j] = q[i + 1] /\ key2[q[i + 1]] = key[q[i + 1]] + key[q[i]]
      BY <2>2, <3>1
    <3>3. key[q[i + 1]] = d[q[i + 1]] - d[q[i]] /\ d[q[i + 1]] \in Nat /\ d[q[i]] \in Nat
      BY <1>1, <1>2, <3>1
    <3>4. key[q[i]] = d[q[i]] - (IF i = 1 THEN 0 ELSE d[q[i - 1]])
      BY <1>2
    <3>5. CASE i = 1
      <4>1. key[q[i]] = d[q[i]] - 0
        BY <3>4, <3>5
      <4>2. key2[r[j]] = d[q[i + 1]] - 0
        <5>1. key2[r[j]] = (d[q[i + 1]] - d[q[i]]) + (d[q[i]] - 0)
          BY <2>2, <3>2, <3>3, <4>1
        <5> QED BY ONLY <3>3, <5>1
      <4> QED BY <2>2, <3>2, <3>5, <4>2
    <3>6. CASE i # 1
      <4>1. i - 1 \in 1 .. i - 1 /\ i - 1 \in 1 .. n
        BY ONLY <3>6, n \in Nat, i \in 1 .. n
      <4>2. r[j - 1] = q[i - 1] /\ d[q[i - 1]] \in Nat
        BY <1>1, <2>2, <4>1
      <4>3. key[q[i]] = d[q[i]] - d[q[i - 1]]
        BY <3>4, <3>6
      <4>4. key2[r[j]] = d[q[i + 1]] - d[q[i - 1]]
        <5>1. key2[r[j]] = (d[q[i + 1]] - d[q[i]]) + (d[q[i]] - d[q[i - 1]])
          BY <2>2, <3>2, <3>3, <4>3
        <5> QED BY ONLY <3>3, <4>2, <5>1
      <4> QED BY <2>2, <3>2, <3>6, <4>2, <4>4
    <3> QED BY <3>5, <3>6
  <2>3. CASE j > i
    <3>1. /\ j \in i .. n - 1 /\ j - 1 \in i .. n - 1 /\ j # 1 /\ j + 1 \in 1 .. n /\ j + 1 # 1 /\ (j + 1) - 1 = j
          /\ i # n /\ i + 1 \in 1 .. n /\ j + 1 # i + 1 /\ (j - 1) + 1 = j
      BY ONLY <2>3, n \in Nat, i \in 1 .. n, j \in 1 .. n - 1
    <3>2. r[j] = q[j + 1] /\ r[j - 1] = q[j]
      <4>1. r[j - 1] = q[(j - 1) + 1]
        BY <3>1
      <4> QED BY <3>1, <4>1
    <3>3. key2[q[j + 1]] = key[q[j + 1]]
      <4>1. q[j + 1] # q[i + 1]
        BY <1>3, <3>1
      <4> QED BY <1>1, <3>1, <4>1
    <3>4. key[q[j + 1]] = d[q[j + 1]] - d[q[j]]
      BY <1>2, <3>1
    <3> QED BY <3>1, <3>2, <3>3, <3>4
  <2>4. j < i \/ j = i \/ j > i
    BY ONLY n \in Nat, i \in 1 .. n, j \in 1 .. n - 1
  <2> QED BY <2>1, <2>2, <2>3, <2>4
<1> QED BY <1>5, <1>6 DEF Delta

\* unsleep takes a process out of the delta list.
LEMMA UnsleepEffect ==
  ASSUME NEW s \in Schedulers, One(s.slp), NEW p \in Pids, Contains(s.slp, p),
         NEW d \in [Pids -> Nat], Delta(s.slp, s.key, d)
  PROVE  LET u == unsleep(s, p)
         IN  /\ u \in Schedulers
             /\ u.st = s.st /\ u.prio = s.prio /\ u.rdy = s.rdy /\ u.cur = s.cur
             /\ u.ndefers = s.ndefers /\ u.attempt = s.attempt
             /\ \A y \in Pids : ~Contains(s.slp, y) => u.key[y] = s.key[y]
             /\ One(u.slp) /\ \A y : Contains(u.slp, y) <=> Contains(s.slp, y) /\ y # p
             /\ Delta(u.slp, u.key, d)
<1> DEFINE u == unsleep(s, p)
<1>1. s.slp \in Seq(Pids) /\ s.key \in [Pids -> Int]
  BY DEF Schedulers
<1>2. PICK q \in Seq(Pids) : q = s.slp
  BY <1>1
<1>3. PICK key \in [Pids -> Int] : key = s.key
  BY <1>1
<1>4. Len(q) \in Nat /\ DOMAIN q = 1 .. Len(q) /\ \A j \in 1 .. Len(q) : q[j] \in Pids
  BY LenProperties
<1>5. PICK n \in Nat : n = Len(q)
  BY <1>4
<1>6. DOMAIN q = 1 .. n /\ \A j \in 1 .. n : q[j] \in Pids
  BY <1>4, <1>5
<1>7. PICK i \in 1 .. n : i = CHOOSE j \in DOMAIN q : q[j] = p
  <2>1. \E j \in DOMAIN q : q[j] = p
    BY <1>2, <1>5, <1>6 DEF Contains
  <2> QED BY <1>6, <2>1
<1>8. q[i] = p
  <2>1. \E j \in DOMAIN q : q[j] = p
    BY <1>2, <1>5, <1>6 DEF Contains
  <2> QED BY <1>7, <2>1
<1>9. RemovePid(q, p) = RemoveAt(q, i)
  BY <1>2, <1>7 DEF RemovePid
<1>10. /\ RemovePid(q, p) \in Seq(Pids) /\ One(RemovePid(q, p))
       /\ \A y : Contains(RemovePid(q, p), y) <=> Contains(q, y) /\ y # p
  BY <1>2, RemovedOne
<1>11. PICK r \in Seq(Pids) : r = RemovePid(q, p)
  BY <1>10
<1>12. /\ Len(r) = n - 1
       /\ \A j \in 1 .. i - 1 : r[j] = q[j]
       /\ \A j \in i .. n - 1 : r[j] = q[j + 1]
  <2>1. PICK m \in 1 .. Len(q) : m = i
    BY <1>5
  <2>2. LET y == RemoveAt(q, m)
        IN  /\ y \in Seq(Pids) /\ Len(y) = Len(q) - 1
            /\ \A j \in 1 .. m - 1 : y[j] = q[j]
            /\ \A j \in m .. Len(q) - 1 : y[j] = q[j + 1]
    BY Removed
  <2> QED BY <1>5, <1>9, <1>11, <2>1, <2>2
<1>13. PICK key2 \in [Pids -> Int] : key2 = IF i = n THEN key ELSE [key EXCEPT ![q[i + 1]] = key[q[i + 1]] + key[p]]
  <2>1. CASE i = n
    BY <2>1
  <2>2. CASE i # n
    <3>1. i + 1 \in 1 .. n
      BY <2>2
    <3>2. q[i + 1] \in Pids
      BY <1>6, <3>1
    <3>3. key[q[i + 1]] + key[p] \in Int
      BY <3>2
    <3> QED BY <2>2, <3>3
  <2> QED BY <2>1, <2>2
<1>14. /\ i # n => key2[q[i + 1]] = key[q[i + 1]] + key[q[i]]
       /\ \A y \in Pids : (i # n => y # q[i + 1]) => key2[y] = key[y]
  <2>1. CASE i = n
    BY <1>13, <2>1
  <2>2. CASE i # n
    <3>1. i + 1 \in 1 .. n
      BY <2>2
    <3>2. q[i + 1] \in Pids
      BY <1>6, <3>1
    <3> QED BY <1>8, <1>13, <2>2, <3>2
  <2> QED BY <2>1, <2>2
<1>15. u = [s EXCEPT !.key = key2, !.slp = r]
  <2>1. PICK t : t = [s EXCEPT !.slp = r]
    OBVIOUS
  <2>2. u = IF i = n THEN t ELSE [t EXCEPT !.key[q[i + 1]] = @ + key[p]]
    <3>1. RemovePid(s.slp, p) = r /\ s.slp = q /\ Len(s.slp) = n /\ s.key = key
      BY <1>2, <1>3, <1>5, <1>11
    <3>2. t = [s EXCEPT !.slp = RemovePid(@, p)]
      BY <2>1, <3>1
    <3>3. u = LET m == CHOOSE j \in DOMAIN q : q[j] = p
              IN  IF m = n THEN t ELSE [t EXCEPT !.key[q[m + 1]] = @ + key[p]]
      <4>1. u = LET m == CHOOSE j \in DOMAIN s.slp : s.slp[j] = p
                    v == [s EXCEPT !.slp = RemovePid(@, p)]
                IN  IF m = Len(s.slp) THEN v ELSE [v EXCEPT !.key[s.slp[m + 1]] = @ + s.key[p]]
        BY DEF unsleep
      <4>2. u = LET m == CHOOSE j \in DOMAIN s.slp : s.slp[j] = p
                IN  IF m = Len(s.slp) THEN t ELSE [t EXCEPT !.key[s.slp[m + 1]] = @ + s.key[p]]
        BY <3>2, <4>1
      <4> HIDE DEF u
      <4> QED BY <3>1, <4>2
    <3> DEFINE W(m) == IF m = n THEN t ELSE [t EXCEPT !.key[q[m + 1]] = @ + key[p]]
    <3>4. u = W(CHOOSE j \in DOMAIN q : q[j] = p)
      BY <3>3
    <3>5. u = W(i)
      <4> HIDE DEF W
      <4> QED BY <1>7, <3>4, Zenon
    <3> QED BY <3>5
  <2> HIDE DEF u
  <2>3. t.key = key
    BY <1>3, <2>1 DEF Schedulers
  <2>4. CASE i = n
    BY <1>3, <1>13, <2>1, <2>2, <2>4 DEF Schedulers
  <2>5. CASE i # n
    <3>1. u = [t EXCEPT !.key = key2]
      BY <1>13, <2>2, <2>3, <2>5
    <3> QED BY <2>1, <3>1 DEF Schedulers
  <2> QED BY <2>4, <2>5
<1> HIDE DEF u
<1>16. /\ u \in Schedulers
       /\ u.st = s.st /\ u.prio = s.prio /\ u.rdy = s.rdy /\ u.cur = s.cur
       /\ u.ndefers = s.ndefers /\ u.attempt = s.attempt /\ u.key = key2 /\ u.slp = r
  BY <1>15 DEF Schedulers
<1>17. ASSUME NEW y \in Pids, ~Contains(s.slp, y) PROVE u.key[y] = s.key[y]
  <2>1. i # n => i + 1 \in 1 .. n
    OBVIOUS
  <2>2. i # n => y # q[i + 1]
    BY <1>2, <1>5, <1>17, <2>1 DEF Contains
  <2> QED BY <1>3, <1>14, <1>16, <2>2
<1>18. Delta(r, key2, d)
  <2>1. One(q) /\ Delta(q, key, d)
    BY <1>2, <1>3
  <2>2. Removing(q, key, d, n, i, r, key2)
    BY <1>5, <1>12, <1>14, <2>1 DEF Removing
  <2> QED BY <2>2, DeltaRemoved
<1>19. /\ u \in Schedulers
       /\ u.st = s.st /\ u.prio = s.prio /\ u.rdy = s.rdy /\ u.cur = s.cur
       /\ u.ndefers = s.ndefers /\ u.attempt = s.attempt
       /\ \A y \in Pids : ~Contains(s.slp, y) => u.key[y] = s.key[y]
       /\ One(u.slp) /\ \A y : Contains(u.slp, y) <=> Contains(s.slp, y) /\ y # p
       /\ Delta(u.slp, u.key, d)
  BY <1>2, <1>10, <1>11, <1>16, <1>17, <1>18
<1> QED BY <1>19 DEF u

\* From s to t the processes of W have become runnable and all other processes have kept
\* their states, but for the processor going from one process to another.
Wakes(s, t, W) ==
  /\ t.prio = s.prio
  /\ \A p \in Pids : IF p \in W \/ s.st[p] \in Runnable THEN t.st[p] \in Runnable ELSE t.st[p] = s.st[p]

\* Giving the processor away touches no key of the delta list.
LEMMA RunsEffect ==
  ASSUME NEW s, NEW t, NEW P, NEW W, Loose(s, P), Runs(s, t, W), \A p \in W : ~Contains(s.slp, p),
         NEW d, Delta(s.slp, s.key, d)
  PROVE  Wakes(s, t, W) /\ t.slp = s.slp /\ Delta(t.slp, t.key, d)
<1>1. Wakes(s, t, W) /\ t.slp = s.slp
  BY DEF Runs, Wakes
<1>2. s.slp \in Seq(Pids)
  BY DEF Loose, Schedulers
<1>3. ASSUME NEW p \in Pids, Contains(s.slp, p) PROVE t.key[p] = s.key[p] /\ d[p] = d[p]
  <2>1. s.st[p] \in Delayed /\ p \notin W
    BY <1>3 DEF Loose
  <2>2. s.st[p] \notin Runnable
    BY <2>1 DEF Delayed, Runnable
  <2> QED BY <2>1, <2>2 DEF Runs
<1>4. Delta(s.slp, t.key, d)
  BY <1>2, <1>3, DeltaKept
<1> QED BY <1>1, <1>4

\* The front of the delta list: the processes that are due.
Expired(s) == CHOOSE i \in 0 .. Len(s.slp) :
              /\ \A j \in 1 .. i : s.key[s.slp[j]] <= 0
              /\ i < Len(s.slp) => s.key[s.slp[i + 1]] > 0
LEMMA FrontIsDue ==
  ASSUME NEW s, s \in Schedulers, NEW d, d \in [Pids -> Nat], Delta(s.slp, s.key, d)
  PROVE  /\ Expired(s) \in 0 .. Len(s.slp)
         /\ \A j \in 1 .. Expired(s) : d[s.slp[j]] = 0
         /\ \A j \in Expired(s) + 1 .. Len(s.slp) : d[s.slp[j]] > 0
<1>1. s.slp \in Seq(Pids) /\ s.key \in [Pids -> Int]
  BY DEF Schedulers
<1>2. PICK q \in Seq(Pids) : q = s.slp
  BY <1>1
<1>3. PICK key \in [Pids -> Int] : key = s.key
  BY <1>1
<1>4. Len(q) \in Nat /\ \A j \in 1 .. Len(q) : q[j] \in Pids
  BY LenProperties
<1>5. PICK n \in Nat : n = Len(q)
  BY <1>4
<1>6. \A j \in 1 .. n : q[j] \in Pids /\ d[q[j]] \in Nat
  BY <1>4, <1>5
<1>7. /\ \A j \in 1 .. n : key[q[j]] = d[q[j]] - (IF j = 1 THEN 0 ELSE d[q[j - 1]])
      /\ \A j, l \in 1 .. n : j <= l => d[q[j]] <= d[q[l]]
  BY <1>2, <1>3, <1>5 DEF Delta
<1>8. PICK D \in SUBSET (1 .. n) : D = {j \in 1 .. n : d[q[j]] = 0}
  OBVIOUS
<1>9. D = 1 .. Cardinality(D) /\ Cardinality(D) \in 0 .. n
  <2>1. ASSUME NEW j \in D, NEW l \in 1 .. j PROVE l \in D
    <3>1. j \in 1 .. n /\ l \in 1 .. n /\ l <= j /\ d[q[j]] = 0
      BY <1>8
    <3>2. d[q[l]] <= d[q[j]] /\ d[q[l]] \in Nat
      BY <1>6, <1>7, <3>1
    <3>3. d[q[l]] = 0
      BY <3>1, <3>2
    <3> QED BY <1>8, <3>1, <3>3
  <2>2. \A j \in D : \A l \in 1 .. j : l \in D
    BY <2>1
  <2> QED BY <2>2, Initial
<1>10. PICK c \in Nat : c = Cardinality(D) /\ c <= n
  BY <1>9
<1>11. \A j \in 1 .. n : j <= c <=> d[q[j]] = 0
  <2>1. \A j \in 1 .. n : j \in 1 .. c <=> d[q[j]] = 0
    BY <1>8, <1>9, <1>10
  <2> QED BY <2>1
<1>12. \A j \in 1 .. n : j <= c => key[q[j]] = 0
  <2> SUFFICES ASSUME NEW j \in 1 .. n, j <= c PROVE key[q[j]] = 0
    OBVIOUS
  <2>1. d[q[j]] = 0 /\ key[q[j]] = d[q[j]] - (IF j = 1 THEN 0 ELSE d[q[j - 1]])
    BY <1>7, <1>11
  <2>2. j # 1 => j - 1 \in 1 .. n /\ j - 1 <= c
    BY ONLY n \in Nat, c \in Nat, j \in 1 .. n, j <= c
  <2>3. j # 1 => d[q[j - 1]] = 0
    BY <1>11, <2>2
  <2> QED BY <2>1, <2>3
<1>13. c < n => key[q[c + 1]] > 0
  <2> SUFFICES ASSUME c < n PROVE key[q[c + 1]] > 0
    OBVIOUS
  <2>1. c + 1 \in 1 .. n /\ ~(c + 1 <= c) /\ (c + 1 = 1 <=> c = 0) /\ (c + 1) - 1 = c /\ (c # 0 => c \in 1 .. n)
    OBVIOUS
  <2>2. d[q[c + 1]] # 0 /\ d[q[c + 1]] \in Nat
    BY <1>6, <1>11, <2>1
  <2>3. c # 0 => d[q[c]] = 0
    BY <1>11, <2>1
  <2>4. key[q[c + 1]] = d[q[c + 1]] - (IF c + 1 = 1 THEN 0 ELSE d[q[(c + 1) - 1]])
    BY <1>7, <2>1
  <2>5. (IF c + 1 = 1 THEN 0 ELSE d[q[(c + 1) - 1]]) = 0
    BY <2>1, <2>3
  <2> QED BY <2>2, <2>4, <2>5
<1> DEFINE Cut(i) == /\ \A j \in 1 .. i : key[q[j]] <= 0
                     /\ i < n => key[q[i + 1]] > 0
<1>14. Expired(s) = CHOOSE i \in 0 .. n : Cut(i)
  BY <1>2, <1>3, <1>5 DEF Expired
<1>15. c \in 0 .. n /\ Cut(c)
  <2>1. \A j \in 1 .. c : j \in 1 .. n /\ j <= c
    BY <1>10
  <2>2. \A j \in 1 .. c : key[q[j]] <= 0
    <3>1. \A j \in 1 .. c : key[q[j]] = 0
      BY <1>12, <2>1
    <3> QED BY <3>1
  <2> QED BY <1>10, <1>13, <2>2
<1>16. ASSUME NEW i \in 0 .. n, Cut(i) PROVE i = c
  <2>1. CASE i < c
    <3>1. i + 1 \in 1 .. n /\ i + 1 <= c /\ i < n
      BY <1>10, <2>1
    <3>2. key[q[i + 1]] = 0
      BY <1>12, <3>1
    <3> QED BY <1>16, <3>1, <3>2
  <2>2. CASE c < i
    <3>1. c + 1 \in 1 .. i /\ c < n
      BY <2>2
    <3>2. key[q[c + 1]] > 0 /\ key[q[c + 1]] <= 0 
      BY <1>13, <1>16, <3>1
    <3>3. key[q[c + 1]] \in Int
      <4>1. c + 1 \in 1 .. n
        BY <3>1
      <4> QED BY <1>6, <4>1
    <3> QED BY <3>2, <3>3
  <2> QED BY <2>1, <2>2
<1>17. Expired(s) = c
  <2> HIDE DEF Cut
  <2> QED BY <1>14, <1>15, <1>16
<1>18. \A j \in 1 .. c : d[q[j]] = 0
  <2>1. \A j \in 1 .. c : j \in 1 .. n /\ j <= c
    BY <1>10
  <2> QED BY <1>11, <2>1
<1>19. \A j \in c + 1 .. n : d[q[j]] > 0
  <2>1. \A j \in c + 1 .. n : j \in 1 .. n /\ ~(j <= c)
    OBVIOUS
  <2>2. \A j \in c + 1 .. n : d[q[j]] \in Nat /\ d[q[j]] # 0
    BY <1>6, <1>11, <2>1
  <2> QED BY <2>2
<1> QED BY <1>2, <1>5, <1>15, <1>17, <1>18, <1>19

\* The delta list behind the processes that are due.
LEMMA DeltaRest ==
  ASSUME NEW q, q \in Seq(Pids), NEW key, NEW d, d \in [Pids -> Nat], Delta(q, key, d),
         NEW c, c \in 0 .. Len(q), \A j \in 1 .. c : d[q[j]] = 0,
         NEW r, r \in Seq(Pids), Len(r) = Len(q) - c, \A j \in 1 .. Len(q) - c : r[j] = q[c + j]
  PROVE  Delta(r, key, d)
<1>1. PICK n \in Nat : n = Len(q)
  BY LenProperties
<1>2. PICK m \in Nat : m = c /\ m <= n
  BY <1>1
<1>3. \A j \in 1 .. n - m : r[j] = q[m + j] /\ m + j \in 1 .. n
  BY <1>1, <1>2
<1>4. /\ \A j \in 1 .. n : key[q[j]] = d[q[j]] - (IF j = 1 THEN 0 ELSE d[q[j - 1]])
      /\ \A j, l \in 1 .. n : j <= l => d[q[j]] <= d[q[l]]
  BY <1>1 DEF Delta
<1>5. ASSUME NEW i \in 1 .. n - m, NEW j \in 1 .. n - m, i <= j PROVE d[r[i]] <= d[r[j]]
  <2>1. m + i <= m + j
    BY <1>5
  <2> QED BY <1>3, <1>4, <2>1
<1>6. ASSUME NEW i \in 1 .. n - m PROVE key[r[i]] = d[r[i]] - (IF i = 1 THEN 0 ELSE d[r[i - 1]])
  <2>1. m + i \in 1 .. n /\ r[i] = q[m + i]
    BY <1>3
  <2>2. key[q[m + i]] = d[q[m + i]] - (IF m + i = 1 THEN 0 ELSE d[q[(m + i) - 1]])
    BY <1>4, <2>1
  <2>3. CASE i # 1
    <3>1. i - 1 \in 1 .. n - m /\ m + (i - 1) = (m + i) - 1 /\ m + i # 1
      BY ONLY n \in Nat, m \in Nat, i \in 1 .. n - m, <2>3
    <3>2. r[i - 1] = q[(m + i) - 1]
      <4>1. r[i - 1] = q[m + (i - 1)]
        BY <1>3, <3>1
      <4> QED BY <3>1, <4>1
    <3> QED BY <2>1, <2>2, <2>3, <3>1, <3>2
  <2>4. CASE i = 1
    <3>1. CASE m = 0
      <4>1. m + i = 1
        BY <2>4, <3>1
      <4> QED BY <2>1, <2>2, <2>4, <4>1
    <3>2. CASE m # 0
      <4>1. m + i # 1 /\ (m + i) - 1 = m /\ m \in 1 .. m
        BY <2>4, <3>2
      <4>2. d[q[(m + i) - 1]] = 0
        BY <1>2, <4>1
      <4>3. key[q[m + i]] = d[q[m + i]] - 0
        BY <2>2, <4>1, <4>2
      <4> QED BY <2>1, <2>4, <4>3
    <3> QED BY <3>1, <3>2
  <2> QED BY <2>3, <2>4
<1>7. Len(r) = n - m
  BY <1>1, <1>2
<1> QED BY <1>5, <1>6, <1>7 DEF Delta

\* wakeup makes the processes ready that are due and leaves the others asleep.
LEMMA WakeupEffect ==
  ASSUME NEW s, Good(s), NEW d, d \in [Pids -> Nat], Delta(s.slp, s.key, d)
  PROVE  LET t == wakeup(s)
         IN  /\ Good(t) /\ Delta(t.slp, t.key, d)
             /\ \A p \in Pids : Contains(t.slp, p) => Contains(s.slp, p) /\ d[p] > 0
             /\ \E W \in SUBSET {p \in Pids : s.st[p] \in Delayed} : Wakes(s, t, W)
             /\ Ranked(s) /\ Highest(s) => Ranked(t) /\ Highest(t)
<1>1. s \in Schedulers /\ Sched(s) /\ One(s.slp) /\ s.st \in [Pids -> States]
  BY DEF Good, Sched, Loose, Schedulers
<1>2. PICK q : q = s.slp /\ q \in Seq(Pids)
  BY <1>1 DEF Schedulers
<1>3. PICK n \in Nat : n = Len(q)
  BY <1>2, LenProperties
<1>4. \A j \in 1 .. n : q[j] \in Pids
  BY <1>2, <1>3, LenProperties
<1>5. PICK c \in Nat : c = Expired(s) /\ c <= n
  BY <1>1, <1>2, <1>3, FrontIsDue
<1>6. (\A j \in 1 .. c : d[q[j]] = 0) /\ (\A j \in c + 1 .. n : d[q[j]] > 0)
  BY <1>1, <1>2, <1>3, <1>5, FrontIsDue
<1>7. PICK r : r = SubSeq(q, c + 1, n)
  OBVIOUS
<1>8. PICK f : f = SubSeq(q, 1, c)
  OBVIOUS
<1>9. PICK v : v = [s EXCEPT !.slp = r]
  OBVIOUS
<1>10. wakeup(s) = ReadyAll(v, f)
  <2>1. wakeup(s) = ReadyAll([s EXCEPT !.slp = SubSeq(@, Expired(s) + 1, Len(@))], SubSeq(s.slp, 1, Expired(s)))
    BY DEF wakeup, Expired
  <2>2. [s EXCEPT !.slp = SubSeq(@, Expired(s) + 1, Len(@))] = v
    BY <1>2, <1>3, <1>5, <1>7, <1>9
  <2>3. SubSeq(s.slp, 1, Expired(s)) = f
    BY <1>2, <1>5, <1>8
  <2> QED BY <2>1, <2>2, <2>3
<1>11. r \in Seq(Pids) /\ Len(r) = n - c /\ \A j \in 1 .. n - c : r[j] = q[c + j] /\ c + j \in 1 .. n
  <2>1. c + 1 \in 1 .. n + 1 /\ n \in (c + 1) - 1 .. n
    BY <1>5
  <2>2. \A j \in c + 1 .. n : q[j] \in Pids
    BY <1>4
  <2>3. PICK a \in Int : a = c + 1
    OBVIOUS
  <2>4. /\ r \in Seq(Pids) /\ Len(r) = IF a <= n THEN n - a + 1 ELSE 0
        /\ \A j \in 1 .. n - a + 1 : r[j] = q[a + j - 1]
    BY <1>2, <1>7, <2>2, <2>3, SubSeqProperties
  <2>5. Len(r) = n - c
    BY <1>5, <2>3, <2>4
  <2>6. \A j \in 1 .. n - c : j \in 1 .. n - a + 1 /\ a + j - 1 = c + j /\ c + j \in 1 .. n
    BY <1>5, <2>3
  <2> QED BY <2>4, <2>5, <2>6
<1>12. f \in Seq(Pids) /\ Len(f) = c /\ \A j \in 1 .. c : f[j] = q[j] /\ j \in 1 .. n
  <2>1. \A j \in 1 .. c : j \in 1 .. n /\ q[j] \in Pids
    BY <1>4, <1>5
  <2>2. /\ f \in Seq(Pids) /\ Len(f) = IF 1 <= c THEN c - 1 + 1 ELSE 0
        /\ \A j \in 1 .. c - 1 + 1 : f[j] = q[1 + j - 1]
    BY <1>2, <1>8, <2>1, SubSeqProperties
  <2>3. \A j \in 1 .. c : j \in 1 .. c - 1 + 1 /\ 1 + j - 1 = j
    OBVIOUS
  <2>4. Len(f) = c
    BY <2>2
  <2> QED BY <2>1, <2>2, <2>3, <2>4
<1>13. \A a, b \in 1 .. n : q[a] = q[b] => a = b
  BY <1>1, <1>2, <1>3 DEF One
<1>14. One(f)
  BY <1>12, <1>13 DEF One
<1>15. One(r)
  <2> SUFFICES ASSUME NEW a \in 1 .. n - c, NEW b \in 1 .. n - c, r[a] = r[b] PROVE a = b
    BY <1>11 DEF One
  <2>1. c + a = c + b
    BY <1>11, <1>13
  <2> QED BY <2>1
<1> DEFINE W == {f[j] : j \in 1 .. Len(f)}
<1>16. \A p : p \in W <=> \E j \in 1 .. c : q[j] = p
  BY <1>12
<1>17. \A p : Contains(r, p) <=> \E j \in c + 1 .. n : q[j] = p
  <2>1. ASSUME NEW p, Contains(r, p) PROVE \E j \in c + 1 .. n : q[j] = p
    <3>1. PICK i \in 1 .. n - c : r[i] = p
      BY <1>11, <2>1 DEF Contains
    <3>2. c + i \in c + 1 .. n
      BY <1>5
    <3> QED BY <1>11, <3>1, <3>2
  <2>2. ASSUME NEW p, NEW j \in c + 1 .. n, q[j] = p PROVE Contains(r, p)
    <3>1. j - c \in 1 .. n - c /\ c + (j - c) = j
      BY <1>5
    <3>2. r[j - c] = p
      BY <1>11, <2>2, <3>1
    <3> QED BY <1>11, <3>1, <3>2 DEF Contains
  <2> QED BY <2>1, <2>2
<1>18. \A p : Contains(q, p) <=> p \in W \/ Contains(r, p)
  <2>1. \A j : j \in 1 .. n <=> j \in 1 .. c \/ j \in c + 1 .. n
    BY <1>5
  <2>2. \A p : Contains(q, p) <=> \E j \in 1 .. n : q[j] = p
    BY <1>3 DEF Contains
  <2> QED BY <1>16, <1>17, <2>1, <2>2
<1>19. \A p \in W : ~Contains(r, p)
  <2> SUFFICES ASSUME NEW p \in W, Contains(r, p) PROVE FALSE
    OBVIOUS
  <2>1. PICK i \in 1 .. c : q[i] = p
    BY <1>16
  <2>2. PICK j \in c + 1 .. n : q[j] = p
    BY <1>17
  <2>3. i \in 1 .. n /\ j \in 1 .. n /\ i # j
    BY <1>5
  <2> QED BY <1>13, <2>1, <2>2, <2>3
<1>20. W \in SUBSET Pids
  BY <1>12, LenProperties
<1>21. \A p \in W : s.st[p] \in Delayed
  <2>1. \A p \in Pids : Contains(q, p) => s.st[p] \in Delayed
    BY <1>1, <1>2 DEF Sched, Loose
  <2> HIDE DEF W
  <2> QED BY <1>18, <1>20, <2>1
<1>22. /\ v.st = s.st /\ v.prio = s.prio /\ v.key = s.key /\ v.rdy = s.rdy /\ v.slp = r /\ v.cur = s.cur
       /\ v.ndefers = s.ndefers /\ v.attempt = s.attempt /\ v \in Schedulers
  BY <1>1, <1>9, <1>11 DEF Schedulers
<1> HIDE DEF W
<1>23. 0 \notin W
  BY <1>1, <1>21 DEF Sched, Loose, Delayed, Runnable
<1>24. Loose(v, W)
  <2>1. \A p \in Pids : Contains(v.rdy, p) <=> p \notin W /\ v.st[p] = "READY"
    BY <1>1, <1>21, <1>22 DEF Sched, Loose, Delayed
  <2>2. \A p \in Pids : Contains(v.slp, p) <=> p \notin W /\ v.st[p] \in Delayed
    BY <1>1, <1>2, <1>18, <1>19, <1>22 DEF Sched, Loose
  <2>3. \A p \in Pids : v.st[p] = "CURR" => p = v.cur /\ p \notin W
    BY <1>1, <1>21, <1>22 DEF Sched, Loose, Delayed
  <2>4. One(v.rdy) /\ One(v.slp) /\ v.st[0] \in Runnable
    BY <1>1, <1>15, <1>22 DEF Sched, Loose
  <2> QED BY <1>20, <1>22, <1>23, <2>1, <2>2, <2>3, <2>4 DEF Loose
<1>25. Batch(v, f)
  <2>1. \A j \in 1 .. Len(f) : v.st[f[j]] \notin Runnable
    BY <1>21, <1>22 DEF W, Delayed, Runnable
  <2>2. v.ndefers = 0 /\ v.st[v.cur] = "CURR"
    BY <1>22 DEF Good
  <2> QED BY <1>12, <1>14, <1>24, <2>1, <2>2 DEF Batch, W
<1>26. PICK t : t = ReadyAll(v, f)
  OBVIOUS
<1>27. Good(t) /\ Runs(v, t, W) /\ (Ranked(v) /\ Highest(v) => Ranked(t) /\ Highest(t))
  BY <1>25, <1>26, ReadyAllEffect DEF W
<1>28. Ranked(s) /\ Highest(s) => Ranked(v) /\ Highest(v)
  BY <1>22 DEF Ranked, Highest
<1>29. Delta(r, v.key, d)
  <2>1. Delta(q, v.key, d)
    BY <1>2, <1>22
  <2>2. c \in 0 .. Len(q) /\ Len(r) = Len(q) - c /\ \A j \in 1 .. Len(q) - c : r[j] = q[c + j]
    BY <1>3, <1>5, <1>11
  <2> QED BY <1>2, <1>6, <1>11, <2>1, <2>2, DeltaRest
<1>30. Wakes(v, t, W) /\ t.slp = v.slp /\ Delta(t.slp, t.key, d)
  <2>1. Delta(v.slp, v.key, d) /\ \A p \in W : ~Contains(v.slp, p)
    BY <1>19, <1>22, <1>29
  <2> QED BY <1>24, <1>27, <2>1, RunsEffect
<1>31. Wakes(s, t, W)
  BY <1>22, <1>30 DEF Wakes
<1>32. ASSUME NEW p \in Pids, Contains(t.slp, p) PROVE Contains(s.slp, p) /\ d[p] > 0
  <2>1. Contains(r, p)
    BY <1>22, <1>30, <1>32
  <2>2. PICK j \in c + 1 .. n : q[j] = p
    BY <1>17, <2>1
  <2> QED BY <1>2, <1>6, <1>18, <2>1, <2>2
<1>33. W \in SUBSET {p \in Pids : s.st[p] \in Delayed}
  BY <1>20, <1>21
<1> QED BY <1>10, <1>26, <1>27, <1>28, <1>30, <1>31, <1>32, <1>33

\* A message makes its receiver ready, if it waits for one.
LEMMA DeliverEffect ==
  ASSUME NEW s, Good(s), NEW p, p \in Pids, NEW d, d \in [Pids -> Nat], Delta(s.slp, s.key, d)
  PROVE  LET t == Deliver(s, p)
         IN  /\ Good(t) /\ Delta(t.slp, t.key, d)
             /\ \A x \in Pids : Contains(t.slp, x) => Contains(s.slp, x)
             /\ \E W \in SUBSET {p} : Wakes(s, t, W) /\ \A x \in W : s.st[x] \in {"RECV", "RECTIM"}
             /\ Ranked(s) /\ Highest(s) => Ranked(t) /\ Highest(t)
<1>1. s \in Schedulers /\ Sched(s) /\ One(s.slp) /\ s.st \in [Pids -> States] /\ s.ndefers = 0
  BY DEF Good, Sched, Loose, Schedulers
<1>2. PICK t : t = Deliver(s, p)
  OBVIOUS
<1>3. CASE s.st[p] = "RECV"
  <2>1. t = ready(s, p)
    BY <1>2, <1>3 DEF Deliver
  <2>2. ~Contains(s.rdy, p) /\ ~Contains(s.slp, p) /\ Loose(s, {})
    BY <1>1, <1>3 DEF Sched, Loose, Delayed
  <2>3. Good(t) /\ Runs(s, t, {p}) /\ (Ranked(s) => Ranked(t) /\ Highest(t))
    <3>1. {} \in SUBSET {p}
      OBVIOUS
    <3> QED BY <1>1, <2>1, <2>2, <3>1, ReadyEffect
  <2>4. Wakes(s, t, {p}) /\ t.slp = s.slp /\ Delta(t.slp, t.key, d)
    <3>1. \A x \in {p} : ~Contains(s.slp, x)
      BY <2>2
    <3> QED BY <2>2, <2>3, <3>1, RunsEffect
  <2>5. {p} \in SUBSET {p} /\ \A x \in {p} : s.st[x] \in {"RECV", "RECTIM"}
    BY <1>3
  <2> QED BY <1>2, <2>3, <2>4, <2>5
<1>4. CASE s.st[p] = "RECTIM"
  <2>1. t = ready(unsleep(s, p), p)
    BY <1>2, <1>4 DEF Deliver
  <2>2. Contains(s.slp, p) /\ ~Contains(s.rdy, p)
    BY <1>1, <1>4 DEF Sched, Loose, Delayed
  <2>3. PICK u : u = unsleep(s, p)
    OBVIOUS
  <2>4. /\ u \in Schedulers
        /\ u.st = s.st /\ u.prio = s.prio /\ u.rdy = s.rdy /\ u.cur = s.cur
        /\ u.ndefers = s.ndefers
        /\ \A y \in Pids : ~Contains(s.slp, y) => u.key[y] = s.key[y]
        /\ One(u.slp) /\ \A y : Contains(u.slp, y) <=> Contains(s.slp, y) /\ y # p
        /\ Delta(u.slp, u.key, d)
    BY <1>1, <2>2, <2>3, UnsleepEffect
  <2>5. p # 0
    BY <1>1, <1>4 DEF Sched, Loose, Runnable
  <2>6. Loose(u, {p})
    <3>1. \A x \in Pids : Contains(u.rdy, x) <=> x \notin {p} /\ u.st[x] = "READY"
      BY <1>1, <1>4, <2>4 DEF Sched, Loose
    <3>2. \A x \in Pids : Contains(u.slp, x) <=> x \notin {p} /\ u.st[x] \in Delayed
      BY <1>1, <2>4 DEF Sched, Loose
    <3>3. \A x \in Pids : u.st[x] = "CURR" => x = u.cur /\ x \notin {p}
      BY <1>1, <1>4, <2>4 DEF Sched, Loose
    <3> QED BY <1>1, <2>4, <2>5, <3>1, <3>2, <3>3 DEF Sched, Loose
  <2>7. Ranked(s) => Ranked(u)
    <3> SUFFICES ASSUME Ranked(s) PROVE Ranked(u)
      OBVIOUS
    <3>1. s.rdy \in Seq(Pids) /\ Len(s.rdy) \in Nat /\ \A j \in 1 .. Len(s.rdy) : s.rdy[j] \in Pids
      BY <1>1, LenProperties DEF Schedulers
    <3>2. \A x \in Pids : Contains(s.rdy, x) => u.key[x] = s.key[x]
      <4>1. \A x \in Pids : Contains(s.rdy, x) => ~Contains(s.slp, x)
        BY <1>1 DEF Sched, Loose, Delayed
      <4> QED BY <2>4, <4>1
    <3>3. \A j \in 1 .. Len(s.rdy) : u.key[s.rdy[j]] = s.key[s.rdy[j]]
      BY <3>1, <3>2 DEF Contains
    <3> QED BY <2>4, <3>2, <3>3 DEF Ranked
  <2>8. Good(t) /\ Runs(u, t, {p}) /\ (Ranked(u) => Ranked(t) /\ Highest(t))
    <3>1. {p} \in SUBSET {p} /\ ~Contains(u.rdy, p) /\ ~Contains(u.slp, p) /\ u.ndefers = 0
      BY <1>1, <2>2, <2>4
    <3> QED BY <2>1, <2>3, <2>6, <3>1, ReadyEffect
  <2>9. Wakes(u, t, {p}) /\ t.slp = u.slp /\ Delta(t.slp, t.key, d)
    <3>1. \A x \in {p} : ~Contains(u.slp, x)
      BY <2>4
    <3> QED BY <2>4, <2>6, <2>8, <3>1, RunsEffect
  <2>10. Wakes(s, t, {p})
    BY <2>4, <2>9 DEF Wakes
  <2>11. {p} \in SUBSET {p} /\ \A x \in {p} : s.st[x] \in {"RECV", "RECTIM"}
    BY <1>4
  <2>12. \A x \in Pids : Contains(t.slp, x) => Contains(s.slp, x)
    BY <2>4, <2>9
  <2> QED BY <1>2, <2>7, <2>8, <2>9, <2>10, <2>11, <2>12
<1>5. CASE s.st[p] \notin {"RECV", "RECTIM"}
  <2>1. t = s
    BY <1>2, <1>5 DEF Deliver
  <2>2. Wakes(s, s, {})
    BY DEF Wakes
  <2>3. {} \in SUBSET {p} /\ \A x \in {} : s.st[x] \in {"RECV", "RECTIM"}
    OBVIOUS
  <2> QED BY <1>2, <2>1, <2>2, <2>3
<1> QED BY <1>3, <1>4, <1>5

\* A killed process leaves the queue of its state, and the processor if it had it.
LEMMA KillStateEffect ==
  ASSUME NEW s, Good(s), NEW p, p \in Pids, p # 0, NEW d, d \in [Pids -> Nat], Delta(s.slp, s.key, d)
  PROVE  LET t == KillState(s, p)
         IN  /\ Good(t) /\ Delta(t.slp, t.key, d)
             /\ \A x \in Pids : Contains(t.slp, x) => Contains(s.slp, x)
             /\ \A x \in Pids : IF x = p THEN t.st[x] = "FREE"
                                ELSE IF s.st[x] \in Runnable THEN t.st[x] \in Runnable
                                ELSE t.st[x] = s.st[x]
             /\ Ranked(s) /\ Highest(s) => Ranked(t) /\ Highest(t)
<1>1. s \in Schedulers /\ Sched(s) /\ One(s.slp) /\ s.st \in [Pids -> States] /\ s.ndefers = 0
      /\ Loose(s, {}) /\ {} \in SUBSET {p}
  BY DEF Good, Sched, Loose, Schedulers
<1>2. PICK t : t = KillState(s, p)
  OBVIOUS
<1>3. PICK v : v = [s EXCEPT !.st[p] = "FREE"]
  OBVIOUS
<1>4. t = CASE s.st[p] = "CURR" -> resched(v)
            [] s.st[p] \in {"SLEEP", "RECTIM"} -> unsleep(v, p)
            [] s.st[p] = "READY" -> [v EXCEPT !.rdy = RemovePid(@, p)]
            [] OTHER -> v
  BY <1>2, <1>3 DEF KillState
<1>5. ASSUME ~Contains(s.rdy, p), ~Contains(s.slp, p)
      PROVE  /\ Sched(v) /\ v.st = [s.st EXCEPT ![p] = "FREE"] /\ v.rdy = s.rdy
             /\ v.key = s.key /\ v.prio = s.prio /\ v.slp = s.slp /\ v.cur = s.cur /\ v.ndefers = 0
             /\ Ranked(s) => Ranked(v)
             /\ Highest(s) => Highest(v)
  <2>1. "FREE" \in {"FREE", "SUSP", "WAIT", "RECV"}
    OBVIOUS
  <2>2. PICK x \in {"FREE", "SUSP", "WAIT", "RECV"} : x = "FREE"
    BY <2>1
  <2>3. Changes(s, p, x, v)
    BY <1>1, <1>3, <1>5, <2>2 DEF Changes
  <2>4. Changed(s, p, x, v)
    BY ONLY <2>3, StateChange
  <2> QED BY ONLY <1>1, <2>2, <2>4 DEF Changed
<1>6. CASE s.st[p] = "CURR"
  <2>1. t = resched(v)
    BY <1>4, <1>6
  <2>2. ~Contains(s.rdy, p) /\ ~Contains(s.slp, p)
    BY <1>1, <1>6 DEF Loose, Delayed
  <2>3. Good(t) /\ Runs(v, t, {}) /\ (Ranked(v) => Ranked(t) /\ Highest(t))
    BY <1>5, <2>1, <2>2, ReschedEffect
  <2>4. Wakes(v, t, {}) /\ t.slp = v.slp /\ Delta(t.slp, t.key, d)
    <3>1. Loose(v, {}) /\ Delta(v.slp, v.key, d) /\ \A x \in {} : ~Contains(v.slp, x)
      BY <1>5, <2>2 DEF Sched
    <3> QED BY <2>3, <3>1, RunsEffect
  <2>5. ASSUME NEW x \in Pids
        PROVE  IF x = p THEN t.st[x] = "FREE" ELSE IF s.st[x] \in Runnable THEN t.st[x] \in Runnable ELSE t.st[x] = s.st[x]
    <3>1. v.st[x] = IF x = p THEN "FREE" ELSE s.st[x]
      BY <1>1, <1>5, <2>2
    <3>2. "FREE" \notin Runnable
      BY DEF Runnable
    <3> QED BY <2>4, <3>1, <3>2 DEF Wakes
  <2> QED BY <1>2, <1>5, <2>2, <2>3, <2>4, <2>5
<1>7. CASE s.st[p] \in {"SLEEP", "RECTIM"}
  <2>1. t = unsleep(v, p)
    BY <1>4, <1>7
  <2>2. /\ v.st = [s.st EXCEPT ![p] = "FREE"] /\ v.rdy = s.rdy /\ v.key = s.key /\ v.prio = s.prio
        /\ v.slp = s.slp /\ v.cur = s.cur /\ v.ndefers = 0 /\ v \in Schedulers
    <3>1. [s.st EXCEPT ![p] = "FREE"] \in [Pids -> States]
      BY <1>1 DEF States
    <3>2. v = [s EXCEPT !.st = [s.st EXCEPT ![p] = "FREE"]]
      BY <1>1, <1>3 DEF Schedulers
    <3> QED BY <1>1, <3>1, <3>2 DEF Schedulers
  <2>3. Contains(s.slp, p) /\ ~Contains(s.rdy, p)
    BY <1>1, <1>7 DEF Loose, Delayed
  <2>4. /\ t \in Schedulers
        /\ t.st = v.st /\ t.prio = v.prio /\ t.rdy = v.rdy /\ t.cur = v.cur
        /\ t.ndefers = v.ndefers
        /\ \A y \in Pids : ~Contains(s.slp, y) => t.key[y] = s.key[y]
        /\ One(t.slp) /\ \A y : Contains(t.slp, y) <=> Contains(s.slp, y) /\ y # p
        /\ Delta(t.slp, t.key, d)
    <3>1. One(v.slp) /\ Contains(v.slp, p) /\ Delta(v.slp, v.key, d) /\ v \in Schedulers
      BY <1>1, <2>2, <2>3
    <3>2. /\ t \in Schedulers
          /\ t.st = v.st /\ t.prio = v.prio /\ t.rdy = v.rdy /\ t.cur = v.cur
          /\ t.ndefers = v.ndefers
          /\ \A y \in Pids : ~Contains(v.slp, y) => t.key[y] = v.key[y]
          /\ One(t.slp) /\ \A y : Contains(t.slp, y) <=> Contains(v.slp, y) /\ y # p
          /\ Delta(t.slp, t.key, d)
      <4>1. PICK z \in Schedulers : z = v
        BY <3>1
      <4>2. One(z.slp) /\ Contains(z.slp, p) /\ Delta(z.slp, z.key, d)
        BY <3>1, <4>1
      <4>3. /\ unsleep(z, p) \in Schedulers
            /\ unsleep(z, p).st = z.st /\ unsleep(z, p).prio = z.prio /\ unsleep(z, p).rdy = z.rdy
            /\ unsleep(z, p).cur = z.cur /\ unsleep(z, p).ndefers = z.ndefers
            /\ \A y \in Pids : ~Contains(z.slp, y) => unsleep(z, p).key[y] = z.key[y]
            /\ One(unsleep(z, p).slp) /\ \A y : Contains(unsleep(z, p).slp, y) <=> Contains(z.slp, y) /\ y # p
            /\ Delta(unsleep(z, p).slp, unsleep(z, p).key, d)
        BY ONLY <4>2, UnsleepEffect, z \in Schedulers, p \in Pids, d \in [Pids -> Nat]
      <4> QED BY <2>1, <4>1, <4>3
    <3> QED BY <2>2, <3>2
  <2>5. \A x \in Pids : t.st[x] = IF x = p THEN "FREE" ELSE s.st[x]
    BY <1>1, <2>2, <2>4
  <2>6. Loose(t, {})
    <3>1. \A x \in Pids : Contains(t.rdy, x) <=> x \notin {} /\ t.st[x] = "READY"
      BY <1>1, <1>7, <2>2, <2>4, <2>5 DEF Loose
    <3>2. \A x \in Pids : Contains(t.slp, x) <=> x \notin {} /\ t.st[x] \in Delayed
      BY <1>1, <2>4, <2>5 DEF Loose, Delayed
    <3>3. \A x \in Pids : t.st[x] = "CURR" => x = t.cur /\ x \notin {}
      BY <1>1, <2>2, <2>4, <2>5 DEF Loose
    <3>4. t.st[0] \in Runnable
      <4>1. 0 \in Pids
        BY KernelAssumption DEF Pids
      <4> QED BY <1>1, <2>5, <4>1 DEF Loose
    <3> QED BY <1>1, <2>2, <2>4, <3>1, <3>2, <3>3, <3>4 DEF Loose
  <2>7. Good(t)
    <3>1. s.cur \in Pids /\ s.cur # p /\ s.st[s.cur] = "CURR"
      BY <1>1, <1>7 DEF Good, Schedulers
    <3> QED BY <2>2, <2>4, <2>5, <2>6, <3>1 DEF Good, Sched
  <2>8. Ranked(s) => Ranked(t)
    <3> SUFFICES ASSUME Ranked(s) PROVE Ranked(t)
      OBVIOUS
    <3>1. s.rdy \in Seq(Pids) /\ Len(s.rdy) \in Nat /\ \A j \in 1 .. Len(s.rdy) : s.rdy[j] \in Pids
      BY <1>1, LenProperties DEF Schedulers
    <3>2. \A x \in Pids : Contains(s.rdy, x) => t.key[x] = s.key[x]
      <4>1. \A x \in Pids : Contains(s.rdy, x) => ~Contains(s.slp, x)
        BY <1>1 DEF Loose, Delayed
      <4> QED BY <2>4, <4>1
    <3>3. \A j \in 1 .. Len(s.rdy) : t.key[s.rdy[j]] = s.key[s.rdy[j]]
      BY <3>1, <3>2 DEF Contains
    <3> QED BY <2>2, <2>4, <3>2, <3>3 DEF Ranked
  <2>9. Highest(s) => Highest(t)
    BY <2>2, <2>4, <2>5 DEF Highest
  <2> QED BY <1>2, <2>4, <2>5, <2>7, <2>8, <2>9
<1>8. CASE s.st[p] = "READY"
  <2>1. t = [v EXCEPT !.rdy = RemovePid(@, p)]
    BY <1>4, <1>8
  <2>2. t = [s EXCEPT !.st[p] = "FREE", !.rdy = RemovePid(@, p)]
    BY <1>1, <1>3, <2>1 DEF Schedulers
  <2>3. PICK x \in {"SUSP", "FREE"} : x = "FREE"
    OBVIOUS
  <2>4. /\ Good(t) /\ t.st = [s.st EXCEPT ![p] = "FREE"]
        /\ t.key = s.key /\ t.prio = s.prio /\ t.slp = s.slp /\ t.cur = s.cur
        /\ Ranked(s) /\ Highest(s) => Ranked(t) /\ Highest(t)
    <3>1. TakesOff(s, p, x, t)
      BY <1>8, <2>2, <2>3 DEF TakesOff
    <3>2. TakenOff(s, p, x, t)
      BY ONLY <3>1, LeaveReady
    <3> QED BY ONLY <2>3, <3>2 DEF TakenOff
  <2>5. \A y \in Pids : t.st[y] = IF y = p THEN "FREE" ELSE s.st[y]
    BY <1>1, <2>4
  <2> QED BY <1>2, <2>4, <2>5
<1>9. CASE s.st[p] \notin {"CURR", "SLEEP", "RECTIM", "READY"}
  <2>1. t = v
    BY <1>4, <1>9
  <2>2. ~Contains(s.rdy, p) /\ ~Contains(s.slp, p)
    BY <1>1, <1>9 DEF Loose, Delayed
  <2>3. \A y \in Pids : t.st[y] = IF y = p THEN "FREE" ELSE s.st[y]
    BY <1>1, <1>5, <2>1, <2>2
  <2>4. Good(t)
    <3>1. s.cur \in Pids /\ s.cur # p /\ s.st[s.cur] = "CURR"
      BY <1>1, <1>9 DEF Good, Schedulers
    <3> QED BY <1>5, <2>1, <2>2, <2>3, <3>1 DEF Good
  <2> QED BY <1>2, <1>5, <2>1, <2>2, <2>3, <2>4
<1> QED BY <1>6, <1>7, <1>8, <1>9

-----------------------------------------------------------------------------
(* Semaphores. *)

SemRecs == [st : {"FREE", "USED"}, n : Int, q : Seq(Pids)]
Waiters(n) == IF n < 0 THEN -n ELSE 0

\* A semaphore by itself: its count is the number of processes in its queue.
Counted(r) ==
  /\ r \in SemRecs /\ One(r.q) /\ Len(r.q) = Waiters(r.n)
  /\ r.st = "FREE" => r.q = <<>>

\* A process that waits is in the queue of one semaphore, and no other process is.
SemInv(st, sm) ==
  /\ sm \in [Sems -> SemRecs] /\ \A x \in Sems : Counted(sm[x])
  /\ \A x \in Sems, p \in Pids : Contains(sm[x].q, p) => st[p] = "WAIT"
  /\ \A p \in Pids : st[p] = "WAIT" => \E x \in Sems : Contains(sm[x].q, p)
  /\ \A x, y \in Sems, p \in Pids : Contains(sm[x].q, p) /\ Contains(sm[y].q, p) => x = y

LEMMA SemSame ==
  ASSUME NEW st, NEW st2, NEW sm, SemInv(st, sm), \A p \in Pids : st2[p] = "WAIT" <=> st[p] = "WAIT"
  PROVE  SemInv(st2, sm)
BY DEF SemInv

\* Processes leave the queue of semaphore x, or its count changes.
LEMMA SemLeave ==
  ASSUME NEW st, NEW st2, NEW sm, SemInv(st, sm), NEW x, x \in Sems, NEW r, Counted(r),
         \A p \in Pids : Contains(r.q, p) => Contains(sm[x].q, p),
         \A p \in Pids : st2[p] = "WAIT" <=> st[p] = "WAIT" /\ (Contains(sm[x].q, p) => Contains(r.q, p))
  PROVE  SemInv(st2, [sm EXCEPT ![x] = r])
<1>1. PICK sm2 : sm2 = [sm EXCEPT ![x] = r]
  OBVIOUS
<1>2. sm2 \in [Sems -> SemRecs] /\ \A y \in Sems : sm2[y] = IF y = x THEN r ELSE sm[y]
  BY <1>1 DEF SemInv, Counted
<1>3. \A y \in Sems : Counted(sm2[y])
  BY <1>2 DEF SemInv
<1>4. ASSUME NEW y \in Sems, NEW p \in Pids, Contains(sm2[y].q, p) PROVE st2[p] = "WAIT"
  <2>1. CASE y = x
    BY <1>2, <1>4, <2>1 DEF SemInv
  <2>2. CASE y # x
    <3>1. Contains(sm[y].q, p)
      BY <1>2, <1>4, <2>2
    <3>2. st[p] = "WAIT" /\ ~Contains(sm[x].q, p)
      BY <2>2, <3>1 DEF SemInv
    <3> QED BY <3>2
  <2> QED BY <2>1, <2>2
<1>5. ASSUME NEW p \in Pids, st2[p] = "WAIT" PROVE \E y \in Sems : Contains(sm2[y].q, p)
  <2>1. PICK y \in Sems : Contains(sm[y].q, p)
    BY <1>5 DEF SemInv
  <2>2. Contains(sm2[y].q, p)
    BY <1>2, <1>5, <2>1
  <2> QED BY <2>2
<1>6. ASSUME NEW y \in Sems, NEW z \in Sems, NEW p \in Pids, Contains(sm2[y].q, p), Contains(sm2[z].q, p)
      PROVE  y = z
  <2>1. Contains(sm[y].q, p) /\ Contains(sm[z].q, p)
    BY <1>2, <1>6
  <2> QED BY <2>1 DEF SemInv
<1> QED BY <1>1, <1>2, <1>3, <1>4, <1>5, <1>6 DEF SemInv

\* A process joins the queue of semaphore x.
LEMMA SemJoin ==
  ASSUME NEW st, NEW st2, NEW sm, SemInv(st, sm), NEW x, x \in Sems, sm[x].st = "USED", ~(sm[x].n > 0),
         NEW p, p \in Pids, st[p] # "WAIT", \A y \in Pids : st2[y] = "WAIT" <=> st[y] = "WAIT" \/ y = p
  PROVE  SemInv(st2, [sm EXCEPT ![x].n = @ - 1, ![x].q = Append(@, p)])
<1>1. PICK sm2 : sm2 = [sm EXCEPT ![x].n = @ - 1, ![x].q = Append(@, p)]
  OBVIOUS
<1>2. PICK q \in Seq(Pids) : q = sm[x].q
  BY DEF SemInv, SemRecs
<1>3. PICK r : r = [sm[x] EXCEPT !.n = @ - 1, !.q = Append(@, p)]
  OBVIOUS
<1>4. PICK a : a = Append(q, p)
  OBVIOUS
<1>5. /\ a \in Seq(Pids) /\ Len(a) = Len(q) + 1 /\ Len(q) \in Nat
      /\ (\A j \in 1 .. Len(q) : a[j] = q[j]) /\ a[Len(q) + 1] = p
  BY <1>2, <1>4, AppendProperties, LenProperties
<1>6. ~Contains(q, p)
  BY <1>2 DEF SemInv
<1>7. One(a) /\ \A y : Contains(a, y) <=> Contains(q, y) \/ y = p
  <2>1. PICK n \in Nat : n = Len(q)
    BY <1>5
  <2>2. \A j \in 1 .. n + 1 : j \in 1 .. n \/ j = n + 1
    OBVIOUS
  <2>3. \A j \in 1 .. n : a[j] = q[j] /\ q[j] # p
    BY <1>5, <1>6, <2>1 DEF Contains
  <2>4. \A i, j \in 1 .. n : q[i] = q[j] => i = j
    BY <1>2, <2>1 DEF SemInv, Counted, One
  <2>5. a[n + 1] = p /\ Len(a) = n + 1
    BY <1>5, <2>1
  <2>6. One(a)
    BY <2>2, <2>3, <2>4, <2>5 DEF One
  <2>7. ASSUME NEW y, Contains(a, y) PROVE Contains(q, y) \/ y = p
    BY <2>1, <2>2, <2>3, <2>5, <2>7 DEF Contains
  <2>8. ASSUME NEW y, Contains(q, y) PROVE Contains(a, y)
    <3>1. PICK j \in 1 .. n : q[j] = y
      BY <2>1, <2>8 DEF Contains
    <3>2. j \in 1 .. n + 1 /\ a[j] = y
      BY <2>3, <3>1
    <3> QED BY <2>5, <3>2 DEF Contains
  <2>9. Contains(a, p)
    <3>1. n + 1 \in 1 .. Len(a)
      BY <2>5
    <3> QED BY <2>5, <3>1 DEF Contains
  <2> QED BY <2>6, <2>7, <2>8, <2>9
<1>8. sm[x] \in SemRecs /\ sm[x].n \in Int /\ Len(q) = Waiters(sm[x].n)
  BY <1>2 DEF SemInv, Counted, SemRecs
<1>9. r.st = "USED" /\ r.n = sm[x].n - 1 /\ r.q = a /\ r \in SemRecs
  <2>1. PICK z \in SemRecs : z = sm[x]
    BY <1>8
  <2>2. r = [z EXCEPT !.n = z.n - 1, !.q = a]
    BY <1>2, <1>3, <1>4, <2>1
  <2>3. z.st = "USED" /\ z.n \in Int
    BY <2>1 DEF SemRecs
  <2>4. r.st = "USED" /\ r.n = z.n - 1 /\ r.q = a /\ r \in SemRecs
    <3>1. PICK m \in Int : m = z.n - 1
      BY <2>3
    <3>2. r = [z EXCEPT !.n = m, !.q = a]
      BY <2>2, <3>1
    <3>3. z.st = "USED" /\ a \in Seq(Pids)
      BY <1>5, <2>3
    <3>4. r.st = "USED" /\ r.n = m /\ r.q = a /\ r \in SemRecs
      BY ONLY <3>2, <3>3, z \in SemRecs, m \in Int DEF SemRecs
    <3> QED BY <3>1, <3>4
  <2> QED BY <2>1, <2>4
<1>10. Len(a) = Waiters(r.n)
  BY <1>5, <1>8, <1>9 DEF Waiters
<1>11. Counted(r)
  BY <1>7, <1>9, <1>10 DEF Counted
<1>12. sm2 \in [Sems -> SemRecs] /\ \A y \in Sems : sm2[y] = IF y = x THEN r ELSE sm[y]
  BY <1>1, <1>3, <1>9 DEF SemInv
<1>13. \A y \in Sems : Counted(sm2[y])
  BY <1>11, <1>12 DEF SemInv
<1>14. \A y \in Sems, z \in Pids : Contains(sm2[y].q, z) <=> Contains(sm[y].q, z) \/ (y = x /\ z = p)
  BY <1>2, <1>7, <1>9, <1>12
<1>15. \A y \in Sems : ~Contains(sm[y].q, p)
  BY DEF SemInv
<1>16. ASSUME NEW y \in Sems, NEW z \in Pids, Contains(sm2[y].q, z) PROVE st2[z] = "WAIT"
  BY <1>14, <1>16 DEF SemInv
<1>17. ASSUME NEW z \in Pids, st2[z] = "WAIT" PROVE \E y \in Sems : Contains(sm2[y].q, z)
  BY <1>14, <1>17 DEF SemInv
<1>18. ASSUME NEW y \in Sems, NEW z \in Sems, NEW w \in Pids, Contains(sm2[y].q, w), Contains(sm2[z].q, w)
       PROVE  y = z
  BY <1>14, <1>15, <1>18 DEF SemInv
<1> QED BY <1>1, <1>12, <1>13, <1>16, <1>17, <1>18 DEF SemInv

\* kill takes a waiting process off the queue of its semaphore.
LEMMA KillSemsEffect ==
  ASSUME NEW s, NEW sm, SemInv(s.st, sm), NEW p, p \in Pids, NEW st2,
         \A y \in Pids : st2[y] = "WAIT" <=> s.st[y] = "WAIT" /\ y # p
  PROVE  SemInv(st2, KillSems(s, sm, p))
<1>1. PICK sm2 : sm2 = KillSems(s, sm, p)
  OBVIOUS
<1>2. sm2 = [x \in Sems |-> IF s.st[p] = "WAIT" /\ Contains(sm[x].q, p)
                            THEN [sm[x] EXCEPT !.n = @ + 1, !.q = RemovePid(@, p)] ELSE sm[x]]
  BY <1>1 DEF KillSems
<1>3. CASE s.st[p] # "WAIT"
  <2>1. sm = [x \in Sems |-> sm[x]]
    BY DEF SemInv
  <2>2. sm2 = sm
    BY <1>2, <1>3, <2>1
  <2> QED BY <1>1, <1>3, <2>2, SemSame
<1>4. CASE s.st[p] = "WAIT"
  <2>1. PICK x \in Sems : Contains(sm[x].q, p)
    BY <1>4 DEF SemInv
  <2>2. \A y \in Sems : Contains(sm[y].q, p) <=> y = x
    BY <2>1 DEF SemInv
  <2>3. PICK q \in Seq(Pids) : q = sm[x].q
    BY DEF SemInv, SemRecs
  <2>4. One(q) /\ Contains(q, p) /\ sm[x] \in SemRecs /\ sm[x].n \in Int /\ Len(q) = Waiters(sm[x].n)
        /\ (sm[x].st = "FREE" => q = <<>>)
    BY <2>1, <2>3 DEF SemInv, Counted, SemRecs
  <2>5. PICK a : a = RemovePid(q, p)
    OBVIOUS
  <2>6. a \in Seq(Pids) /\ One(a) /\ Len(a) = Len(q) - 1 /\ \A y : Contains(a, y) <=> Contains(q, y) /\ y # p
    BY <2>4, <2>5, RemovedOne
  <2>7. PICK r : r = [sm[x] EXCEPT !.n = @ + 1, !.q = RemovePid(@, p)]
    OBVIOUS
  <2>8. r.st = sm[x].st /\ r.n = sm[x].n + 1 /\ r.q = a /\ r \in SemRecs
    <3>1. PICK z \in SemRecs : z = sm[x]
      BY <2>4
    <3>2. r = [z EXCEPT !.n = z.n + 1, !.q = a]
      BY <2>3, <2>5, <2>7, <3>1
    <3>3. z.st \in {"FREE", "USED"} /\ z.n \in Int
      BY <3>1 DEF SemRecs
    <3>4. r.st = z.st /\ r.n = z.n + 1 /\ r.q = a /\ r \in SemRecs
      <4>1. PICK m \in Int : m = z.n + 1
        BY <3>3
      <4>2. r = [z EXCEPT !.n = m, !.q = a]
        BY <3>2, <4>1
      <4>3. r.st = z.st /\ r.n = m /\ r.q = a /\ r \in SemRecs
        BY ONLY <2>6, <4>2, z \in SemRecs, m \in Int DEF SemRecs
      <4> QED BY <4>1, <4>3
    <3> QED BY <3>1, <3>4
  <2>9. sm[x].st = "USED"
    <3>1. sm[x].st # "FREE"
      BY <2>4 DEF Contains
    <3> QED BY <2>4, <3>1 DEF SemRecs
  <2>10. Len(a) = Waiters(r.n)
    <3>1. Len(q) \in Nat /\ Len(a) \in Nat
      BY <2>6, LenProperties
    <3>2. PICK m \in Int, len \in Nat : m = sm[x].n /\ len = Len(q)
      BY <2>4, <3>1
    <3>3. len = IF m < 0 THEN -m ELSE 0
      BY ONLY <2>4, <3>2 DEF Waiters
    <3>4. len >= 1
      BY ONLY <2>6, <3>1, <3>2
    <3>5. Len(a) = len - 1 /\ r.n = m + 1
      BY ONLY <2>6, <2>8, <3>2
    <3>6. len - 1 = IF m + 1 < 0 THEN -(m + 1) ELSE 0
      BY ONLY <3>3, <3>4, m \in Int, len \in Nat
    <3> QED BY ONLY <3>5, <3>6 DEF Waiters
  <2>11. Counted(r)
    BY <2>6, <2>8, <2>9, <2>10 DEF Counted
  <2>12. sm2 = [sm EXCEPT ![x] = r]
    <3>1. sm = [y \in Sems |-> sm[y]]
      BY DEF SemInv
    <3>2. sm2 = [y \in Sems |-> IF y = x THEN r ELSE sm[y]]
      BY <1>2, <1>4, <2>2, <2>7
    <3> QED BY <3>1, <3>2
  <2>13. \A y \in Pids : Contains(r.q, y) => Contains(sm[x].q, y)
    BY <2>3, <2>6, <2>8
  <2>14. \A y \in Pids : st2[y] = "WAIT" <=> s.st[y] = "WAIT" /\ (Contains(sm[x].q, y) => Contains(r.q, y))
    BY <2>1, <2>3, <2>6, <2>8
  <2>15. SemInv(st2, [sm EXCEPT ![x] = r])
    <3>1. PICK st : st = s.st
      OBVIOUS
    <3>2. SemInv(st, sm) /\ \A y \in Pids : st2[y] = "WAIT" <=> st[y] = "WAIT" /\ (Contains(sm[x].q, y) => Contains(r.q, y))
      BY <2>14, <3>1
    <3> QED BY ONLY <2>11, <2>13, <3>2, SemLeave, x \in Sems
  <2> QED BY <1>1, <2>12, <2>15
<1> QED BY <1>3, <1>4

-----------------------------------------------------------------------------
(* What each operation does to the scheduler's part of the state. *)

\* d is the time that each delayed process still has to wait, re the calls of chprio.
SchedInv(s, d, re) ==
  /\ Good(s)
  /\ d \in [Pids -> Nat] /\ Delta(s.slp, s.key, d) /\ \A p \in Pids : Contains(s.slp, p) => d[p] > 0
  /\ re \in Nat /\ (re = 0 => Ranked(s) /\ Highest(s))

\* From s to t, p goes to state x.
Leaves(s, t, p, x) ==
  \A y \in Pids : IF y = p THEN t.st[y] = x
                  ELSE IF s.st[y] \in Runnable THEN t.st[y] \in Runnable
                  ELSE t.st[y] = s.st[y]

LEMMA SchedTypes ==
  ASSUME NEW s, NEW d, NEW re, SchedInv(s, d, re)
  PROVE  /\ s \in Schedulers /\ s.st \in [Pids -> States] /\ s.cur \in Pids /\ s.st[s.cur] = "CURR"
         /\ s.slp \in Seq(Pids) /\ s.key \in [Pids -> Int] /\ s.prio \in [Pids -> Nat]
         /\ Loose(s, {}) /\ s.ndefers = 0
BY DEF SchedInv, Good, Sched, Loose, Schedulers

LEMMA SchedDispatch ==
  ASSUME NEW s, NEW d, NEW re, SchedInv(s, d, re)
  PROVE  SchedInv(resched(s), d, re) /\ Wakes(s, resched(s), {})
<1>1. PICK t : t = resched(s)
  OBVIOUS
<1>2. Good(t) /\ Runs(s, t, {}) /\ (Ranked(s) => Ranked(t) /\ Highest(t))
  BY <1>1, ReschedEffect DEF SchedInv, Good
<1>3. Wakes(s, t, {}) /\ t.slp = s.slp /\ Delta(t.slp, t.key, d)
  <2>1. Loose(s, {}) /\ Delta(s.slp, s.key, d) /\ \A x \in {} : ~Contains(s.slp, x)
    BY DEF SchedInv, Good, Sched
  <2> QED BY <1>2, <2>1, RunsEffect
<1> QED BY <1>1, <1>2, <1>3 DEF SchedInv

LEMMA SchedReady ==
  ASSUME NEW s, NEW d, NEW re, SchedInv(s, d, re), NEW p, p \in Pids, s.st[p] = "SUSP"
  PROVE  SchedInv(ready(s, p), d, re) /\ Wakes(s, ready(s, p), {p})
<1>1. PICK t : t = ready(s, p)
  OBVIOUS
<1>2. Loose(s, {}) /\ s.ndefers = 0 /\ ~Contains(s.rdy, p) /\ ~Contains(s.slp, p) /\ {} \in SUBSET {p}
  BY DEF SchedInv, Good, Sched, Loose, Delayed
<1>3. Good(t) /\ Runs(s, t, {p}) /\ (Ranked(s) => Ranked(t) /\ Highest(t))
  BY <1>1, <1>2, ReadyEffect
<1>4. Wakes(s, t, {p}) /\ t.slp = s.slp /\ Delta(t.slp, t.key, d)
  <2>1. Delta(s.slp, s.key, d) /\ \A x \in {p} : ~Contains(s.slp, x)
    BY <1>2 DEF SchedInv
  <2> QED BY <1>2, <1>3, <2>1, RunsEffect
<1> QED BY <1>1, <1>3, <1>4 DEF SchedInv

LEMMA SchedBlock ==
  ASSUME NEW s, NEW d, NEW re, SchedInv(s, d, re), s.cur # 0, NEW x, x \in {"FREE", "SUSP", "WAIT", "RECV"}
  PROVE  LET t == resched([s EXCEPT !.st[s.cur] = x])
         IN  SchedInv(t, d, re) /\ Leaves(s, t, s.cur, x)
<1>1. PICK p \in Pids : p = s.cur
  BY SchedTypes
<1>2. PICK v : v = [s EXCEPT !.st[p] = x]
  OBVIOUS
<1>3. PICK t : t = resched(v)
  OBVIOUS
<1>4. /\ Loose(s, {}) /\ {} \in SUBSET {p} /\ ~Contains(s.rdy, p) /\ ~Contains(s.slp, p) /\ s.ndefers = 0
      /\ s.st \in [Pids -> States] /\ s.st[p] = "CURR" /\ Delta(s.slp, s.key, d)
  <2>1. /\ Loose(s, {}) /\ s.ndefers = 0 /\ s.st \in [Pids -> States] /\ s.st[p] = "CURR"
        /\ Delta(s.slp, s.key, d)
    <3>1. Loose(s, {}) /\ s.ndefers = 0 /\ s.st \in [Pids -> States] /\ s.st[s.cur] = "CURR"
      BY SchedTypes
    <3>2. Delta(s.slp, s.key, d)
      BY DEF SchedInv
    <3> QED BY <1>1, <3>1, <3>2
  <2>2. ~Contains(s.rdy, p) /\ ~Contains(s.slp, p)
    BY <2>1 DEF Loose, Delayed
  <2>3. {} \in SUBSET {p}
    OBVIOUS
  <2> QED BY <2>1, <2>2, <2>3
<1>5. /\ Sched(v) /\ v.st = [s.st EXCEPT ![p] = x] /\ v.slp = s.slp /\ v.key = s.key /\ v.ndefers = 0
      /\ v.prio = s.prio /\ (Ranked(s) => Ranked(v))
  <2>1. PICK z \in {"FREE", "SUSP", "WAIT", "RECV"} : z = x
    OBVIOUS
  <2>2. v = [s EXCEPT !.st[p] = z] /\ p # 0
    BY <1>1, <1>2, <2>1
  <2>3. /\ Sched(v) /\ v.st = [s.st EXCEPT ![p] = z] /\ v.slp = s.slp /\ v.key = s.key
        /\ v.ndefers = s.ndefers /\ v.prio = s.prio /\ (Ranked(s) => Ranked(v))
    <3>1. Changes(s, p, z, v)
      BY <1>4, <2>2 DEF Changes
    <3>2. Changed(s, p, z, v)
      BY ONLY <3>1, StateChange
    <3> QED BY ONLY <3>2 DEF Changed
  <2> QED BY <1>4, <2>1, <2>3
<1>6. Good(t) /\ Runs(v, t, {}) /\ (Ranked(v) => Ranked(t) /\ Highest(t))
  BY <1>3, <1>5, ReschedEffect
<1>7. Wakes(v, t, {}) /\ t.slp = v.slp /\ Delta(t.slp, t.key, d)
  <2>1. Loose(v, {}) /\ Delta(v.slp, v.key, d) /\ \A y \in {} : ~Contains(v.slp, y)
    BY <1>4, <1>5 DEF Sched
  <2> QED BY <1>6, <2>1, RunsEffect
<1>8. SchedInv(t, d, re)
  BY <1>5, <1>6, <1>7 DEF SchedInv
<1>9. Leaves(s, t, p, x)
  <2> SUFFICES ASSUME NEW y \in Pids
               PROVE  IF y = p THEN t.st[y] = x
                      ELSE IF s.st[y] \in Runnable THEN t.st[y] \in Runnable ELSE t.st[y] = s.st[y]
    BY DEF Leaves
  <2>1. v.st[y] = IF y = p THEN x ELSE s.st[y]
    BY <1>4, <1>5
  <2>2. x \notin Runnable
    BY DEF Runnable
  <2> QED BY <1>7, <2>1, <2>2 DEF Wakes
<1> QED BY <1>1, <1>2, <1>3, <1>8, <1>9

LEMMA SchedDelay ==
  ASSUME NEW s, NEW d, NEW re, SchedInv(s, d, re), s.cur # 0, NEW x, x \in Delayed, NEW n, n \in Nat \ {0}
  PROVE  LET t == resched([insertd(s, s.cur, n) EXCEPT !.st[s.cur] = x])
         IN  SchedInv(t, [d EXCEPT ![s.cur] = n], re) /\ Leaves(s, t, s.cur, x)
<1>1. PICK p \in Pids : p = s.cur
  BY SchedTypes
<1>2. PICK u : u = insertd(s, p, n)
  OBVIOUS
<1>3. PICK v : v = [u EXCEPT !.st[p] = x]
  OBVIOUS
<1>4. PICK t : t = resched(v)
  OBVIOUS
<1>5. PICK e : e = [d EXCEPT ![p] = n]
  OBVIOUS
<1>6. /\ Loose(s, {}) /\ ~Contains(s.rdy, p) /\ ~Contains(s.slp, p) /\ s.ndefers = 0 /\ s \in Schedulers
      /\ s.st \in [Pids -> States] /\ s.st[p] = "CURR" /\ Delta(s.slp, s.key, d) /\ One(s.slp)
      /\ d \in [Pids -> Nat] /\ p # 0
  <2>1. /\ Loose(s, {}) /\ s.ndefers = 0 /\ s \in Schedulers /\ s.st \in [Pids -> States]
        /\ s.st[s.cur] = "CURR" /\ One(s.slp)
    BY SchedTypes DEF Loose
  <2>2. ~Contains(s.rdy, p) /\ ~Contains(s.slp, p)
    BY <1>1, <2>1 DEF Loose, Delayed
  <2>3. Delta(s.slp, s.key, d) /\ d \in [Pids -> Nat]
    BY DEF SchedInv
  <2> QED BY <1>1, <2>1, <2>2, <2>3
<1>7. /\ u \in Schedulers
      /\ u.st = s.st /\ u.prio = s.prio /\ u.rdy = s.rdy /\ u.cur = s.cur
      /\ u.ndefers = s.ndefers
      /\ \A y \in Pids : y # p /\ ~Contains(s.slp, y) => u.key[y] = s.key[y]
      /\ One(u.slp) /\ \A y : Contains(u.slp, y) <=> Contains(s.slp, y) \/ y = p
      /\ Delta(u.slp, u.key, e)
  <2>1. PICK m \in Nat \ {0} : m = n
    OBVIOUS
  <2>2. PICK z \in Schedulers : z = s
    BY <1>6
  <2>3. PICK f \in [Pids -> Nat] : f = d
    BY <1>6
  <2>4. PICK w : w = insertd(z, p, m)
    OBVIOUS
  <2>5.     /\ w \in Schedulers
            /\ w.st = z.st /\ w.prio = z.prio /\ w.rdy = z.rdy /\ w.cur = z.cur
            /\ w.ndefers = z.ndefers
            /\ \A y \in Pids : y # p /\ ~Contains(z.slp, y) => w.key[y] = z.key[y]
            /\ One(w.slp) /\ \A y : Contains(w.slp, y) <=> Contains(z.slp, y) \/ y = p
            /\ Delta(w.slp, w.key, [f EXCEPT ![p] = m])
    <3>1. One(z.slp) /\ ~Contains(z.slp, p) /\ Delta(z.slp, z.key, f)
      BY <1>6, <2>2, <2>3
    <3>2. z \in Schedulers /\ p \in Pids /\ m \in Nat \ {0} /\ f \in [Pids -> Nat]
      OBVIOUS
    <3>3. Inserted1(z, p, m, f, w)
      BY ONLY <2>4, <3>1, <3>2, InsertdEffect
    <3> QED BY <3>3 DEF Inserted1
  <2> QED BY <1>2, <1>5, <2>1, <2>2, <2>3, <2>4, <2>5
<1>8. /\ v.st = [s.st EXCEPT ![p] = x] /\ v.prio = s.prio /\ v.rdy = s.rdy /\ v.cur = s.cur /\ v.ndefers = 0
      /\ v.key = u.key /\ v.slp = u.slp /\ v \in Schedulers
  <2>1. [s.st EXCEPT ![p] = x] \in [Pids -> States]
    BY <1>6 DEF States, Delayed
  <2>2. v = [u EXCEPT !.st = [s.st EXCEPT ![p] = x]]
    BY <1>3, <1>7 DEF Schedulers
  <2> QED BY <1>6, <1>7, <2>1, <2>2 DEF Schedulers
<1>9. \A y \in Pids : v.st[y] = IF y = p THEN x ELSE s.st[y]
  BY <1>6, <1>8
<1>10. Loose(v, {})
  <2>1. \A y \in Pids : Contains(v.rdy, y) <=> y \notin {} /\ v.st[y] = "READY"
    BY <1>6, <1>8, <1>9 DEF Loose, Delayed
  <2>2. \A y \in Pids : Contains(v.slp, y) <=> y \notin {} /\ v.st[y] \in Delayed
    BY <1>6, <1>7, <1>8, <1>9 DEF Loose
  <2>3. \A y \in Pids : v.st[y] = "CURR" => y = v.cur /\ y \notin {}
    BY <1>6, <1>8, <1>9 DEF Loose, Delayed
  <2>4. v.st[0] \in Runnable
    <3>1. 0 \in Pids
      BY KernelAssumption DEF Pids
    <3> QED BY <1>6, <1>9, <3>1 DEF Loose
  <2> QED BY <1>6, <1>7, <1>8, <2>1, <2>2, <2>3, <2>4 DEF Loose
<1>11. Ranked(s) => Ranked(v)
  <2> SUFFICES ASSUME Ranked(s) PROVE Ranked(v)
    OBVIOUS
  <2>1. s.rdy \in Seq(Pids) /\ Len(s.rdy) \in Nat /\ \A j \in 1 .. Len(s.rdy) : s.rdy[j] \in Pids
    BY <1>6, LenProperties DEF Schedulers
  <2>2. \A y \in Pids : Contains(s.rdy, y) => v.key[y] = s.key[y]
    <3>1. \A y \in Pids : Contains(s.rdy, y) => ~Contains(s.slp, y) /\ y # p
      BY <1>6 DEF Loose, Delayed
    <3> QED BY <1>7, <1>8, <3>1
  <2>3. \A j \in 1 .. Len(s.rdy) : v.key[s.rdy[j]] = s.key[s.rdy[j]]
    BY <2>1, <2>2 DEF Contains
  <2> QED BY <1>8, <2>2, <2>3 DEF Ranked
<1>12. Good(t) /\ Runs(v, t, {}) /\ (Ranked(v) => Ranked(t) /\ Highest(t))
  BY <1>4, <1>8, <1>10, ReschedEffect DEF Sched
<1>13. Wakes(v, t, {}) /\ t.slp = v.slp /\ Delta(t.slp, t.key, e)
  <2>1. Delta(v.slp, v.key, e) /\ \A y \in {} : ~Contains(v.slp, y)
    BY <1>7, <1>8
  <2> QED BY <1>10, <1>12, <2>1, RunsEffect
<1>14. SchedInv(t, e, re)
  <2>1. e \in [Pids -> Nat] /\ \A y \in Pids : e[y] = IF y = p THEN n ELSE d[y]
    BY <1>5, <1>6
  <2>2. \A y \in Pids : Contains(t.slp, y) => e[y] > 0
    BY <1>7, <1>8, <1>13, <2>1 DEF SchedInv
  <2> QED BY <1>11, <1>12, <1>13, <2>1, <2>2 DEF SchedInv
<1>15. Leaves(s, t, p, x)
  <2> SUFFICES ASSUME NEW y \in Pids
               PROVE  IF y = p THEN t.st[y] = x
                      ELSE IF s.st[y] \in Runnable THEN t.st[y] \in Runnable ELSE t.st[y] = s.st[y]
    BY DEF Leaves
  <2>1. x \notin Runnable
    BY DEF Runnable, Delayed
  <2> QED BY <1>9, <1>13, <2>1 DEF Wakes
<1> QED BY <1>1, <1>2, <1>3, <1>4, <1>5, <1>14, <1>15

LEMMA SchedReadyAll ==
  ASSUME NEW s, NEW d, NEW re, SchedInv(s, d, re), NEW q, q \in Seq(Pids), One(q),
         \A j \in 1 .. Len(q) : s.st[q[j]] = "WAIT"
  PROVE  SchedInv(ReadyAll(s, q), d, re) /\ Wakes(s, ReadyAll(s, q), {q[j] : j \in 1 .. Len(q)})
<1>1. PICK t : t = ReadyAll(s, q)
  OBVIOUS
<1>2. Good(s) /\ Loose(s, {}) /\ s.st \in [Pids -> States]
  <2>1. Loose(s, {}) /\ s.st \in [Pids -> States]
    BY SchedTypes
  <2> QED BY <2>1 DEF SchedInv
<1>3. Batch(s, q)
  BY <1>2, BatchOfWaiting
<1>4. PICK W : W = {q[j] : j \in 1 .. Len(q)}
  OBVIOUS
<1>5. Good(t) /\ Runs(s, t, W) /\ (Ranked(s) /\ Highest(s) => Ranked(t) /\ Highest(t))
  BY <1>1, <1>3, <1>4, ReadyAllEffect
<1>6. \A x \in W : ~Contains(s.slp, x)
  <2>1. \A x \in W : x \in Pids /\ s.st[x] = "WAIT"
    BY <1>4, LenProperties
  <2> QED BY <1>2, <2>1 DEF Loose, Delayed
<1>7. Wakes(s, t, W) /\ t.slp = s.slp /\ Delta(t.slp, t.key, d)
  <2>1. Delta(s.slp, s.key, d)
    BY DEF SchedInv
  <2> QED BY <1>2, <1>5, <1>6, <2>1, RunsEffect
<1> QED BY <1>1, <1>4, <1>5, <1>7 DEF SchedInv

\* A tick of the clock.
Ticked(s) == IF s.slp = <<>> THEN s ELSE [s EXCEPT !.key[Head(s.slp)] = @ - 1]
Woken(s) == IF s.slp # <<>> /\ Ticked(s).key[Head(s.slp)] <= 0 THEN wakeup(Ticked(s)) ELSE Ticked(s)

LEMMA TickedEffect ==
  ASSUME NEW s, NEW d, NEW re, SchedInv(s, d, re), s.slp # <<>>,
         NEW e, e = [p \in Pids |-> IF d[p] > 0 THEN d[p] - 1 ELSE 0]
  PROVE  LET t == Ticked(s)
         IN  /\ Good(t) /\ Delta(t.slp, t.key, e)
             /\ t.st = s.st /\ t.prio = s.prio /\ t.slp = s.slp
             /\ (\A p \in Pids : Contains(t.slp, p) => e[p] > 0) \/ t.key[Head(s.slp)] <= 0
             /\ Ranked(s) /\ Highest(s) => Ranked(t) /\ Highest(t)
<1>1. /\ s \in Schedulers /\ s.st \in [Pids -> States] /\ s.slp \in Seq(Pids) /\ s.key \in [Pids -> Int]
      /\ Loose(s, {}) /\ Delta(s.slp, s.key, d) /\ d \in [Pids -> Nat] /\ One(s.slp)
      /\ \A p \in Pids : Contains(s.slp, p) => d[p] > 0
  BY SchedTypes DEF SchedInv, Loose
<1>2. PICK q \in Seq(Pids) : q = s.slp
  BY <1>1
<1>3. PICK n \in Nat : n = Len(q) /\ n >= 1 /\ \A j \in 1 .. n : q[j] \in Pids
  <2>1. Len(q) \in Nat /\ (q # <<>> => Len(q) # 0)
    BY LenProperties, EmptySeq
  <2> QED BY <1>2, <2>1, LenProperties
<1>4. PICK h \in Pids : h = q[1] /\ h = Head(q)
  BY <1>2, <1>3
<1>5. PICK key \in [Pids -> Int] : key = [s.key EXCEPT ![h] = @ - 1]
  <2>1. PICK x \in Int : x = s.key[h] - 1
    BY <1>1
  <2>2. [s.key EXCEPT ![h] = x] \in [Pids -> Int]
    BY <1>1
  <2> QED BY <2>1, <2>2
<1>6. PICK t : t = Ticked(s)
  OBVIOUS
<1>7. /\ t.st = s.st /\ t.prio = s.prio /\ t.key = key /\ t.rdy = s.rdy /\ t.slp = q /\ t.cur = s.cur
      /\ t.ndefers = s.ndefers /\ t.attempt = s.attempt /\ t \in Schedulers
  <2>1. t = [s EXCEPT !.key[h] = @ - 1]
    BY <1>2, <1>4, <1>6 DEF Ticked
  <2>2. t = [s EXCEPT !.key = key]
    BY <1>1, <1>5, <2>1 DEF Schedulers
  <2> QED BY <1>1, <1>2, <2>2 DEF Schedulers
<1>8. \A p \in Pids : key[p] = IF p = h THEN s.key[h] - 1 ELSE s.key[p]
  BY <1>1, <1>5
<1>9. /\ \A j \in 1 .. n : s.key[q[j]] = d[q[j]] - (IF j = 1 THEN 0 ELSE d[q[j - 1]])
      /\ \A j, l \in 1 .. n : j <= l => d[q[j]] <= d[q[l]]
  BY <1>1, <1>2, <1>3 DEF Delta
<1>10. \A j \in 1 .. n : d[q[j]] \in Nat /\ d[q[j]] > 0 /\ e[q[j]] = d[q[j]] - 1
  <2>1. \A j \in 1 .. n : Contains(q, q[j])
    BY <1>3 DEF Contains
  <2>2. \A j \in 1 .. n : d[q[j]] \in Nat /\ d[q[j]] > 0
    BY <1>1, <1>2, <1>3, <2>1
  <2> QED BY <1>3, <2>2
<1>11. ASSUME NEW j \in 1 .. n PROVE key[q[j]] = e[q[j]] - (IF j = 1 THEN 0 ELSE e[q[j - 1]])
  <2>1. s.key[q[j]] = d[q[j]] - (IF j = 1 THEN 0 ELSE d[q[j - 1]])
    BY <1>9
  <2>2. CASE j = 1
    <3>1. key[q[j]] = s.key[q[j]] - 1 /\ s.key[q[j]] = d[q[j]] - 0
      BY <1>4, <1>8, <2>1, <2>2
    <3>2. d[q[j]] \in Nat /\ e[q[j]] = d[q[j]] - 1
      BY <1>10
    <3>3. key[q[j]] = e[q[j]] - 0
      BY <3>1, <3>2
    <3> QED BY <2>2, <3>3
  <2>3. CASE j # 1
    <3>1. j - 1 \in 1 .. n /\ 1 \in 1 .. n
      BY <2>3
    <3>2. q[j] # h /\ q[j] \in Pids
      BY <1>1, <1>2, <1>3, <1>4, <2>3, <3>1 DEF One
    <3>3. key[q[j]] = d[q[j]] - d[q[j - 1]]
      BY <1>8, <2>1, <2>3, <3>2
    <3>4. e[q[j]] = d[q[j]] - 1 /\ e[q[j - 1]] = d[q[j - 1]] - 1 /\ d[q[j]] \in Nat /\ d[q[j - 1]] \in Nat
      BY <1>10, <3>1
    <3>5. PICK a \in Nat, b \in Nat : a = d[q[j]] /\ b = d[q[j - 1]]
      BY <3>4
    <3>6. key[q[j]] = a - b /\ e[q[j]] = a - 1 /\ e[q[j - 1]] = b - 1
      BY <3>3, <3>4, <3>5
    <3>7. a - b = (a - 1) - (b - 1)
      OBVIOUS
    <3>8. key[q[j]] = e[q[j]] - e[q[j - 1]]
      BY ONLY <3>6, <3>7
    <3> QED BY <2>3, <3>8
  <2> QED BY <2>2, <2>3
<1>12. ASSUME NEW j \in 1 .. n, NEW l \in 1 .. n, j <= l PROVE e[q[j]] <= e[q[l]]
  <2>1. d[q[j]] <= d[q[l]] /\ d[q[j]] \in Nat /\ d[q[l]] \in Nat /\ e[q[j]] = d[q[j]] - 1 /\ e[q[l]] = d[q[l]] - 1
    BY <1>9, <1>10, <1>12
  <2> QED BY <2>1
<1>13. Delta(t.slp, t.key, e)
  BY <1>3, <1>7, <1>11, <1>12 DEF Delta
<1>14. (\A p \in Pids : Contains(t.slp, p) => e[p] > 0) \/ t.key[Head(s.slp)] <= 0
  <2> SUFFICES ASSUME ~(key[h] <= 0) PROVE \A p \in Pids : Contains(q, p) => e[p] > 0
    BY <1>2, <1>4, <1>7
  <2>1. 1 \in 1 .. n /\ key[h] \in Int
    BY <1>3
  <2>2. key[h] = e[h] - 0 /\ e[h] = d[h] - 1 /\ d[h] \in Nat
    BY <1>4, <1>10, <1>11, <2>1
  <2>3. e[h] > 0
    BY <2>1, <2>2
  <2>4. ASSUME NEW p \in Pids, Contains(q, p) PROVE e[p] > 0
    <3>1. PICK j \in 1 .. n : q[j] = p
      BY <1>3, <2>4 DEF Contains
    <3>2. e[q[1]] <= e[q[j]]
      <4>1. 1 \in 1 .. n /\ j \in 1 .. n /\ 1 <= j
        BY <2>1
      <4> QED BY <1>12, <4>1
    <3>3. e[p] = d[p] - 1 /\ d[p] \in Nat
      BY <1>10, <3>1
    <3> QED BY <1>4, <2>2, <2>3, <3>1, <3>2, <3>3
  <2> QED BY <2>4
<1>15. Good(t)
  <2>1. Loose(t, {})
    BY <1>1, <1>2, <1>7 DEF Loose
  <2> QED BY <1>7, <2>1 DEF Good, Sched, SchedInv
<1>16. ASSUME Ranked(s), Highest(s) PROVE Ranked(t) /\ Highest(t)
  <2>1. s.rdy \in Seq(Pids) /\ Len(s.rdy) \in Nat /\ \A j \in 1 .. Len(s.rdy) : s.rdy[j] \in Pids
    BY <1>1, LenProperties DEF Schedulers
  <2>2. \A p \in Pids : Contains(s.rdy, p) => key[p] = s.key[p]
    <3>1. Contains(q, h)
      BY <1>3, <1>4 DEF Contains
    <3>2. \A p \in Pids : Contains(s.rdy, p) => p # h
      BY <1>1, <1>2, <3>1 DEF Loose, Delayed
    <3> QED BY <1>8, <3>2
  <2>3. \A j \in 1 .. Len(s.rdy) : key[s.rdy[j]] = s.key[s.rdy[j]]
    BY <2>1, <2>2 DEF Contains
  <2>4. Ranked(t)
    <3>1. \A i, j \in 1 .. Len(t.rdy) : i <= j => t.key[t.rdy[i]] >= t.key[t.rdy[j]]
      <4>1. \A i, j \in 1 .. Len(s.rdy) : i <= j => s.key[s.rdy[i]] >= s.key[s.rdy[j]]
        BY <1>16 DEF Ranked
      <4>2. t.rdy = s.rdy /\ t.key = key
        BY <1>7
      <4> QED BY ONLY <2>3, <4>1, <4>2
    <3>2. \A p \in Pids : Contains(t.rdy, p) => t.key[p] = t.prio[p]
      BY <1>7, <1>16, <2>2 DEF Ranked
    <3> QED BY <3>1, <3>2 DEF Ranked
  <2> QED BY <1>7, <1>16, <2>4 DEF Highest
<1>17. /\ Good(t) /\ Delta(t.slp, t.key, e)
       /\ t.st = s.st /\ t.prio = s.prio /\ t.slp = s.slp
       /\ (\A p \in Pids : Contains(t.slp, p) => e[p] > 0) \/ t.key[Head(s.slp)] <= 0
       /\ Ranked(s) /\ Highest(s) => Ranked(t) /\ Highest(t)
  BY <1>2, <1>7, <1>13, <1>14, <1>15, <1>16
<1> QED BY <1>6, <1>17

LEMMA SchedTick ==
  ASSUME NEW s, NEW d, NEW re, SchedInv(s, d, re),
         NEW e, e = [p \in Pids |-> IF d[p] > 0 THEN d[p] - 1 ELSE 0],
         NEW r, r \in {Woken(s), resched(Woken(s))}
  PROVE  SchedInv(r, e, re) /\ \E W \in SUBSET {p \in Pids : s.st[p] \in Delayed} : Wakes(s, r, W)
<1>1. d \in [Pids -> Nat] /\ s.slp \in Seq(Pids)
  <2>1. s.slp \in Seq(Pids)
    BY SchedTypes
  <2> QED BY <2>1 DEF SchedInv
<1>2. e \in [Pids -> Nat]
  BY <1>1
<1>3. PICK w : w = Woken(s)
  OBVIOUS
<1>4. SchedInv(w, e, re) /\ \E W \in SUBSET {p \in Pids : s.st[p] \in Delayed} : Wakes(s, w, W)
  <2>1. CASE s.slp = <<>>
    <3>1. w = s
      BY <1>3, <2>1 DEF Woken, Ticked
    <3>2. Len(s.slp) = 0
      BY <2>1
    <3>3. Delta(s.slp, s.key, e) /\ \A p \in Pids : ~Contains(s.slp, p)
      BY <3>2 DEF Delta, Contains
    <3>4. Wakes(s, s, {})
      BY DEF Wakes
    <3> QED BY <1>2, <3>1, <3>3, <3>4 DEF SchedInv
  <2>2. CASE s.slp # <<>>
    <3>1. PICK t : t = Ticked(s)
      OBVIOUS
    <3>2. /\ Good(t) /\ Delta(t.slp, t.key, e)
          /\ t.st = s.st /\ t.prio = s.prio /\ t.slp = s.slp
          /\ (\A p \in Pids : Contains(t.slp, p) => e[p] > 0) \/ t.key[Head(s.slp)] <= 0
          /\ Ranked(s) /\ Highest(s) => Ranked(t) /\ Highest(t)
      BY <2>2, <3>1, TickedEffect
    <3>3. CASE t.key[Head(s.slp)] <= 0
      <4>1. w = wakeup(t)
        BY <1>3, <2>2, <3>1, <3>3 DEF Woken
      <4>2. /\ Good(w) /\ Delta(w.slp, w.key, e)
            /\ \A p \in Pids : Contains(w.slp, p) => Contains(t.slp, p) /\ e[p] > 0
            /\ \E W \in SUBSET {p \in Pids : t.st[p] \in Delayed} : Wakes(t, w, W)
            /\ Ranked(t) /\ Highest(t) => Ranked(w) /\ Highest(w)
        BY <1>2, <3>2, <4>1, WakeupEffect
      <4>3. PICK W \in SUBSET {p \in Pids : t.st[p] \in Delayed} : Wakes(t, w, W)
        BY <4>2
      <4>4. Wakes(s, w, W)
        BY <3>2, <4>3 DEF Wakes
      <4> QED BY <1>2, <3>2, <4>2, <4>4 DEF SchedInv
    <3>4. CASE ~(t.key[Head(s.slp)] <= 0)
      <4>1. w = t
        BY <1>3, <3>1, <3>4 DEF Woken
      <4>2. Wakes(s, w, {})
        BY <3>2, <4>1 DEF Wakes
      <4> QED BY <1>2, <3>2, <3>4, <4>1, <4>2 DEF SchedInv
    <3> QED BY <3>3, <3>4
  <2> QED BY <2>1, <2>2
<1>5. SchedInv(resched(w), e, re) /\ Wakes(w, resched(w), {})
  BY <1>4, SchedDispatch
<1>6. PICK W \in SUBSET {p \in Pids : s.st[p] \in Delayed} : Wakes(s, w, W)
  BY <1>4
<1>7. Wakes(s, resched(w), W)
  BY <1>5, <1>6 DEF Wakes
<1> QED BY <1>3, <1>4, <1>5, <1>6, <1>7

\* A process that has left the delta list waits for no tick.
LEMMA UndelayedDelta ==
  ASSUME NEW t, NEW d, t.slp \in Seq(Pids), d \in [Pids -> Nat], Delta(t.slp, t.key, d),
         \A p \in Pids : Contains(t.slp, p) => d[p] > 0
  PROVE  LET e == Undelayed(t, d)
         IN  /\ e \in [Pids -> Nat] /\ Delta(t.slp, t.key, e)
             /\ \A p \in Pids : Contains(t.slp, p) => e[p] > 0
<1>1. PICK e : e = Undelayed(t, d)
  OBVIOUS
<1>2. e \in [Pids -> Nat] /\ \A p \in Pids : Contains(t.slp, p) => e[p] = d[p]
  BY <1>1 DEF Undelayed
<1>3. \A p \in Pids : Contains(t.slp, p) => t.key[p] = t.key[p] /\ e[p] = d[p]
  BY <1>2
<1>4. Delta(t.slp, t.key, e)
  BY <1>3, DeltaKept
<1> QED BY <1>1, <1>2, <1>4

LEMMA SchedDeliver ==
  ASSUME NEW s, NEW d, NEW re, SchedInv(s, d, re), NEW p, p \in Pids
  PROVE  /\ SchedInv(Deliver(s, p), d, re) /\ SchedInv(Deliver(s, p), Undelayed(Deliver(s, p), d), re)
         /\ \E W \in SUBSET {p} : Wakes(s, Deliver(s, p), W) /\ \A x \in W : s.st[x] \in {"RECV", "RECTIM"}
<1>1. PICK t : t = Deliver(s, p)
  OBVIOUS
<1>2. Good(s) /\ d \in [Pids -> Nat] /\ Delta(s.slp, s.key, d) /\ \A x \in Pids : Contains(s.slp, x) => d[x] > 0
  BY DEF SchedInv
<1>3. /\ Good(t) /\ Delta(t.slp, t.key, d)
      /\ \A x \in Pids : Contains(t.slp, x) => Contains(s.slp, x)
      /\ \E W \in SUBSET {p} : Wakes(s, t, W) /\ \A x \in W : s.st[x] \in {"RECV", "RECTIM"}
      /\ Ranked(s) /\ Highest(s) => Ranked(t) /\ Highest(t)
  <2>1. Good(s) /\ p \in Pids /\ d \in [Pids -> Nat] /\ Delta(s.slp, s.key, d)
    BY <1>2
  <2> QED BY ONLY <1>1, <2>1, DeliverEffect
<1>4. SchedInv(t, d, re)
  BY <1>2, <1>3 DEF SchedInv
<1>5. t.slp \in Seq(Pids) /\ \A x \in Pids : Contains(t.slp, x) => d[x] > 0
  <2>1. t.slp \in Seq(Pids)
    BY <1>4, SchedTypes
  <2> QED BY <1>4, <2>1 DEF SchedInv
<1>6. SchedInv(t, Undelayed(t, d), re)
  BY <1>2, <1>3, <1>4, <1>5, UndelayedDelta DEF SchedInv
<1> QED BY <1>1, <1>3, <1>4, <1>6

LEMMA SchedKill ==
  ASSUME NEW s, NEW d, NEW re, SchedInv(s, d, re), NEW p, p \in Pids, p # 0
  PROVE  SchedInv(KillState(s, p), Undelayed(KillState(s, p), d), re) /\ Leaves(s, KillState(s, p), p, "FREE")
<1>1. PICK t : t = KillState(s, p)
  OBVIOUS
<1>2. Good(s) /\ d \in [Pids -> Nat] /\ Delta(s.slp, s.key, d) /\ \A x \in Pids : Contains(s.slp, x) => d[x] > 0
  BY DEF SchedInv
<1>3. /\ Good(t) /\ Delta(t.slp, t.key, d)
      /\ \A x \in Pids : Contains(t.slp, x) => Contains(s.slp, x)
      /\ \A x \in Pids : IF x = p THEN t.st[x] = "FREE"
                         ELSE IF s.st[x] \in Runnable THEN t.st[x] \in Runnable ELSE t.st[x] = s.st[x]
      /\ Ranked(s) /\ Highest(s) => Ranked(t) /\ Highest(t)
  BY <1>1, <1>2, KillStateEffect
<1>4. SchedInv(t, d, re)
  BY <1>2, <1>3 DEF SchedInv
<1>5. t.slp \in Seq(Pids) /\ \A x \in Pids : Contains(t.slp, x) => d[x] > 0
  <2>1. t.slp \in Seq(Pids)
    BY <1>4, SchedTypes
  <2> QED BY <1>4, <2>1 DEF SchedInv
<1>6. SchedInv(t, Undelayed(t, d), re)
  BY <1>2, <1>3, <1>4, <1>5, UndelayedDelta DEF SchedInv
<1>7. Leaves(s, t, p, "FREE")
  BY <1>3 DEF Leaves
<1> QED BY <1>1, <1>6, <1>7

\* suspend of a ready process.
LEMMA SchedSuspend ==
  ASSUME NEW s, NEW d, NEW re, SchedInv(s, d, re), NEW p, p \in Pids, p # 0, s.st[p] = "READY"
  PROVE  LET t == [s EXCEPT !.st[p] = "SUSP", !.rdy = RemovePid(@, p)]
         IN  SchedInv(t, d, re) /\ Leaves(s, t, p, "SUSP")
<1>1. PICK t : t = [s EXCEPT !.st[p] = "SUSP", !.rdy = RemovePid(@, p)]
  OBVIOUS
<1>2. Good(s) /\ s.st \in [Pids -> States]
  <2>1. s.st \in [Pids -> States]
    BY SchedTypes
  <2> QED BY <2>1 DEF SchedInv
<1>3. PICK x \in {"SUSP", "FREE"} : x = "SUSP"
  OBVIOUS
<1>4. /\ Good(t) /\ t.st = [s.st EXCEPT ![p] = "SUSP"]
      /\ t.key = s.key /\ t.prio = s.prio /\ t.slp = s.slp /\ t.cur = s.cur
      /\ Ranked(s) /\ Highest(s) => Ranked(t) /\ Highest(t)
  <2>1. TakesOff(s, p, x, t)
    BY <1>1, <1>2, <1>3 DEF TakesOff
  <2>2. TakenOff(s, p, x, t)
    BY ONLY <2>1, LeaveReady
  <2> QED BY ONLY <1>3, <2>2 DEF TakenOff
<1>5. SchedInv(t, d, re)
  BY <1>4 DEF SchedInv
<1>6. Leaves(s, t, p, "SUSP")
  <2>1. \A y \in Pids : t.st[y] = IF y = p THEN "SUSP" ELSE s.st[y]
    BY <1>2, <1>4
  <2> QED BY <2>1 DEF Leaves
<1> QED BY <1>1, <1>5, <1>6

\* chprio: the order of the ready list is lost.
LEMMA SchedChprio ==
  ASSUME NEW s, NEW d, NEW re, SchedInv(s, d, re), NEW p, p \in Pids, NEW pr, pr \in Nat
  PROVE  LET t == [s EXCEPT !.prio[p] = pr]
         IN  SchedInv(t, d, re + 1) /\ t.st = s.st
<1>1. PICK f : f = [s.prio EXCEPT ![p] = pr]
  OBVIOUS
<1>2. PICK t : t = [s EXCEPT !.prio[p] = pr]
  OBVIOUS
<1>3. s \in Schedulers /\ s.prio \in [Pids -> Nat] /\ re \in Nat /\ Loose(s, {}) /\ s.ndefers = 0 /\ s.st[s.cur] = "CURR"
  <2>1. s \in Schedulers /\ s.prio \in [Pids -> Nat] /\ Loose(s, {}) /\ s.ndefers = 0 /\ s.st[s.cur] = "CURR"
    BY SchedTypes
  <2> QED BY <2>1 DEF SchedInv
<1>4. f \in [Pids -> Nat] /\ t = [s EXCEPT !.prio = f]
  BY <1>1, <1>2, <1>3
<1>5. /\ t.st = s.st /\ t.rdy = s.rdy /\ t.slp = s.slp /\ t.key = s.key /\ t.cur = s.cur /\ t.ndefers = s.ndefers
      /\ t \in Schedulers
  BY <1>3, <1>4 DEF Schedulers
<1>6. Good(t)
  BY <1>3, <1>5 DEF Good, Sched, Loose
<1>7. re + 1 \in Nat /\ re + 1 # 0
  BY <1>3
<1>8. SchedInv(t, d, re + 1)
  BY <1>5, <1>6, <1>7 DEF SchedInv
<1> QED BY <1>2, <1>5, <1>8

\* create: a free entry becomes a suspended process.
LEMMA SchedCreate ==
  ASSUME NEW s, NEW d, NEW re, SchedInv(s, d, re), NEW p, p \in Pids, s.st[p] = "FREE", NEW pr, pr \in Nat
  PROVE  LET t == [s EXCEPT !.st[p] = "SUSP", !.prio[p] = pr]
         IN  SchedInv(t, d, re) /\ t.st = [s.st EXCEPT ![p] = "SUSP"]
<1>1. PICK f : f = [s.prio EXCEPT ![p] = pr]
  OBVIOUS
<1>2. PICK g : g = [s.st EXCEPT ![p] = "SUSP"]
  OBVIOUS
<1>3. PICK t : t = [s EXCEPT !.st[p] = "SUSP", !.prio[p] = pr]
  OBVIOUS
<1>4. /\ s \in Schedulers /\ s.prio \in [Pids -> Nat] /\ s.st \in [Pids -> States] /\ re \in Nat
      /\ Loose(s, {}) /\ s.ndefers = 0 /\ s.st[s.cur] = "CURR" /\ s.cur \in Pids
  <2>1. /\ s \in Schedulers /\ s.prio \in [Pids -> Nat] /\ s.st \in [Pids -> States]
        /\ Loose(s, {}) /\ s.ndefers = 0 /\ s.st[s.cur] = "CURR" /\ s.cur \in Pids
    BY SchedTypes
  <2> QED BY <2>1 DEF SchedInv
<1>5. f \in [Pids -> Nat] /\ g \in [Pids -> States] /\ t = [s EXCEPT !.st = g, !.prio = f]
  BY <1>1, <1>2, <1>3, <1>4 DEF States
<1>6. /\ t.st = g /\ t.prio = f /\ t.rdy = s.rdy /\ t.slp = s.slp /\ t.key = s.key /\ t.cur = s.cur
      /\ t.ndefers = s.ndefers /\ t \in Schedulers
  BY <1>4, <1>5 DEF Schedulers
<1>7. \A y \in Pids : g[y] = (IF y = p THEN "SUSP" ELSE s.st[y]) /\ f[y] = (IF y = p THEN pr ELSE s.prio[y])
  BY <1>1, <1>2, <1>4
<1>8. Good(t)
  <2>1. 0 \in Pids /\ p # 0
    BY <1>4, KernelAssumption DEF Pids, Loose, Runnable
  <2>2. Loose(t, {})
    BY <1>4, <1>6, <1>7, <2>1 DEF Loose, Delayed
  <2>3. t.st[t.cur] = "CURR"
    BY <1>4, <1>6, <1>7
  <2> QED BY <1>4, <1>6, <2>2, <2>3 DEF Good, Sched
<1>9. Ranked(s) => Ranked(t)
  <2>1. \A y \in Pids : Contains(s.rdy, y) => y # p
    BY <1>4 DEF Loose
  <2> QED BY <1>6, <1>7, <2>1 DEF Ranked
<1>10. Highest(s) => Highest(t)
  <2>1. s.cur # p
    BY <1>4
  <2> QED BY <1>4, <1>6, <1>7, <2>1 DEF Highest
<1>11. SchedInv(t, d, re)
  BY <1>6, <1>8, <1>9, <1>10 DEF SchedInv
<1> QED BY <1>2, <1>3, <1>6, <1>11

\* Nobody becomes or stops being free, and no receiver is woken.
Settles(st, st2) ==
  \A p \in Pids : (st2[p] = "FREE" <=> st[p] = "FREE") /\ (st[p] = "RECV" => st2[p] = "RECV")

\* Waiting processes are released: f is the part of the queue of x that is made ready, r what is left.
Releases(st, sm, x, f, r) ==
  /\ f \in Seq(Pids) /\ One(f) /\ Counted(r)
  /\ \A p \in Pids : Contains(sm[x].q, p) <=> Contains(f, p) \/ Contains(r.q, p)
  /\ \A p \in Pids : ~(Contains(f, p) /\ Contains(r.q, p))

LEMMA SemRelease ==
  ASSUME NEW s, NEW d, NEW re, SchedInv(s, d, re), NEW sm, SemInv(s.st, sm), NEW x, x \in Sems,
         NEW f, NEW r, Releases(s.st, sm, x, f, r)
  PROVE  /\ SchedInv(ReadyAll(s, f), d, re) /\ SemInv(ReadyAll(s, f).st, [sm EXCEPT ![x] = r])
         /\ Settles(s.st, ReadyAll(s, f).st)
<1>1. PICK t : t = ReadyAll(s, f)
  OBVIOUS
<1>2. PICK W : W = {f[j] : j \in 1 .. Len(f)}
  OBVIOUS
<1>3. f \in Seq(Pids) /\ One(f) /\ Counted(r) /\ \A j \in 1 .. Len(f) : f[j] \in Pids /\ Contains(f, f[j])
  <2>1. f \in Seq(Pids) /\ One(f) /\ Counted(r)
    BY DEF Releases
  <2>2. \A j \in 1 .. Len(f) : f[j] \in Pids
    BY <2>1, LenProperties
  <2>3. \A j \in 1 .. Len(f) : Contains(f, f[j])
    BY DEF Contains
  <2> QED BY <2>1, <2>2, <2>3
<1>4. \A p \in Pids : Contains(f, p) <=> p \in W
  BY <1>2 DEF Contains
<1>5. \A p \in W : p \in Pids /\ s.st[p] = "WAIT"
  BY <1>2, <1>3 DEF Releases, SemInv
<1>6. \A j \in 1 .. Len(f) : s.st[f[j]] = "WAIT"
  BY <1>2, <1>5
<1>7. SchedInv(t, d, re) /\ Wakes(s, t, W)
  BY <1>1, <1>2, <1>3, <1>6, SchedReadyAll
<1>8. \A p \in Pids : IF p \in W \/ s.st[p] \in Runnable THEN t.st[p] \in Runnable ELSE t.st[p] = s.st[p]
  BY <1>7 DEF Wakes
<1>9. \A p \in Pids : t.st[p] = "WAIT" <=> s.st[p] = "WAIT" /\ (Contains(sm[x].q, p) => Contains(r.q, p))
  <2>1. \A p \in Pids : p \in W <=> Contains(sm[x].q, p) /\ ~Contains(r.q, p)
    BY <1>4 DEF Releases
  <2> QED BY <1>5, <1>8, <2>1 DEF Runnable
<1>10. SemInv(t.st, [sm EXCEPT ![x] = r])
  <2>1. PICK st : st = s.st
    OBVIOUS
  <2>2. PICK st2 : st2 = t.st
    OBVIOUS
  <2>3. /\ SemInv(st, sm) /\ \A p \in Pids : Contains(r.q, p) => Contains(sm[x].q, p)
        /\ \A p \in Pids : st2[p] = "WAIT" <=> st[p] = "WAIT" /\ (Contains(sm[x].q, p) => Contains(r.q, p))
    BY <1>9, <2>1, <2>2 DEF Releases
  <2>4. SemInv(st2, [sm EXCEPT ![x] = r])
    BY ONLY <1>3, <2>3, SemLeave, x \in Sems
  <2> QED BY <2>2, <2>4
<1>11. Settles(s.st, t.st)
  BY <1>5, <1>8 DEF Settles, Runnable
<1> QED BY <1>1, <1>7, <1>10, <1>11

-----------------------------------------------------------------------------
(* What processes still have to do, and the count of the processes. *)

Todos == [op : {"none", "recv", "rectim", "kill"}, pid : Pids]

\* A free entry has nothing to do; a process inside receive sleeps or has its message.
TodoInv(st, td, mb) ==
  /\ td \in [Pids -> Todos] /\ mb \in [Pids -> BOOLEAN]
  /\ \A p \in Pids : td[p].op = "kill" => td[p].pid # 0
  /\ \A p \in Pids : st[p] = "FREE" => td[p] = Nothing
  /\ \A p \in Pids : td[p].op = "recv" => st[p] = "RECV" \/ mb[p]

Alive(st) == {p \in Pids : st[p] # "FREE"}
DyingIn(td) == {td[p].pid : p \in {q \in Pids : td[q].op = "kill"}}
Counting(st, td, pc) == pc = Cardinality(Alive(st) \ DyingIn(td))

\* The inductive invariant of the process manager.
KInv ==
  /\ SchedInv(k, due, reprio)
  /\ SemInv(k.st, sem)
  /\ TodoInv(k.st, todo, mbox)
  /\ ~torn /\ ~halted => Counting(k.st, todo, prcount)
  /\ parent \in [Pids -> Pids] /\ nextsem \in Nat /\ nextpid \in Nat /\ prcount \in Int

LEMMA SettlesKeeps ==
  ASSUME NEW st, NEW st2, Settles(st, st2), NEW td, NEW mb, TodoInv(st, td, mb), NEW pc
  PROVE  TodoInv(st2, td, mb) /\ (Counting(st, td, pc) => Counting(st2, td, pc))
<1>1. Alive(st2) = Alive(st)
  BY DEF Settles, Alive
<1>2. TodoInv(st2, td, mb)
  BY DEF Settles, TodoInv
<1> QED BY <1>1, <1>2 DEF Counting

\* A process that leaves its state for one that is not free.
LEMMA LeavesSettles ==
  ASSUME NEW s, NEW t, NEW p, NEW x, Leaves(s, t, p, x), s.st[p] \notin {"FREE", "RECV"}, x # "FREE"
  PROVE  Settles(s.st, t.st)
BY DEF Leaves, Settles, Runnable

\* Processes that are made ready.
LEMMA WakesSettles ==
  ASSUME NEW s, NEW t, NEW W, Wakes(s, t, W), \A p \in W : s.st[p] \notin {"FREE", "RECV"}
  PROVE  Settles(s.st, t.st)
BY DEF Wakes, Settles, Runnable

\* A call that changes only the scheduler, the semaphores and the delays.
LEMMA QuietStep ==
  ASSUME KInv, SchedInv(k', due', reprio'), SemInv(k'.st, sem'), Settles(k.st, k'.st),
         UNCHANGED <<mbox, parent, todo, prcount, halted, torn>>, nextsem' \in Nat, nextpid' \in Nat
  PROVE  KInv'
<1>1. PICK t : t = k'
  OBVIOUS
<1>2. TodoInv(k.st, todo, mbox) /\ Settles(k.st, t.st)
  BY <1>1 DEF KInv
<1>3. TodoInv(t.st, todo, mbox) /\ (Counting(k.st, todo, prcount) => Counting(t.st, todo, prcount))
  BY ONLY <1>2, SettlesKeeps
<1>4. TodoInv(k'.st, todo', mbox')
  BY <1>1, <1>3
<1>5. ~torn' /\ ~halted' => Counting(k'.st, todo', prcount')
  BY <1>1, <1>3 DEF KInv
<1>6. parent' \in [Pids -> Pids] /\ nextsem' \in Nat /\ nextpid' \in Nat /\ prcount' \in Int
  BY DEF KInv
<1> QED BY <1>4, <1>5, <1>6 DEF KInv

LEMMA KTypes ==
  ASSUME KInv
  PROVE  /\ SchedInv(k, due, reprio) /\ SemInv(k.st, sem) /\ TodoInv(k.st, todo, mbox)
         /\ nextsem \in Nat /\ nextpid \in Nat /\ prcount \in Int /\ parent \in [Pids -> Pids]
         /\ me \in Pids /\ k.st[me] = "CURR" /\ k.st \in [Pids -> States] /\ 0 \in Pids
<1>1. SchedInv(k, due, reprio)
  BY DEF KInv
<1>2. k.cur \in Pids /\ k.st[k.cur] = "CURR" /\ k.st \in [Pids -> States]
  BY <1>1, SchedTypes
<1>3. 0 \in Pids
  BY KernelAssumption DEF Pids
<1> QED BY <1>2, <1>3 DEF KInv, me

LEMMA SuspendInv ==
  ASSUME KInv, NEW p \in Pids, suspend(p)
  PROVE  KInv'
<1>1. PICK s : s = k
  OBVIOUS
<1>2. /\ SchedInv(s, due, reprio) /\ s.st[s.cur] = "CURR" /\ s.cur \in Pids /\ s.cur # 0 /\ p # 0
      /\ s.st[p] \in {"CURR", "READY"}
  BY <1>1, KTypes DEF suspend, Calls, me
<1>3. PICK q \in Pids : SchedInv(k', due, reprio) /\ Leaves(s, k', q, "SUSP") /\ s.st[q] \in Runnable
  <2>1. CASE s.st[p] = "READY"
    <3>1. k' = [s EXCEPT !.st[p] = "SUSP", !.rdy = RemovePid(@, p)]
      BY <1>1, <2>1 DEF suspend
    <3>2. SchedInv(k', due, reprio) /\ Leaves(s, k', p, "SUSP")
      BY <1>2, <2>1, <3>1, SchedSuspend
    <3> QED BY <2>1, <3>2 DEF Runnable
  <2>2. CASE s.st[p] # "READY"
    <3>1. PICK x : x = "SUSP"
      OBVIOUS
    <3>2. k' = resched([s EXCEPT !.st[s.cur] = x])
      BY <1>1, <2>2, <3>1 DEF suspend, Block, me
    <3>3. x \in {"FREE", "SUSP", "WAIT", "RECV"}
      BY <3>1
    <3>4. SchedInv(k', due, reprio) /\ Leaves(s, k', s.cur, x)
      BY ONLY <1>2, <3>2, <3>3, SchedBlock
    <3> QED BY <1>2, <3>1, <3>4 DEF Runnable
  <2> QED BY <2>1, <2>2
<1>4. Settles(s.st, k'.st)
  BY <1>3, LeavesSettles DEF Runnable
<1>5. \A y \in Pids : k'.st[y] = "WAIT" <=> s.st[y] = "WAIT"
  BY <1>3 DEF Leaves, Runnable
<1>6. SemInv(k'.st, sem)
  BY <1>1, <1>5, KTypes, SemSame
<1> QED BY <1>1, <1>3, <1>4, <1>6, KTypes, QuietStep DEF suspend

\* Processes made ready that did not wait for a semaphore.
LEMMA WakesWaiting ==
  ASSUME NEW s, NEW t, NEW W, Wakes(s, t, W), \A p \in W : s.st[p] # "WAIT", NEW sm, SemInv(s.st, sm)
  PROVE  SemInv(t.st, sm)
<1>1. \A y \in Pids : t.st[y] = "WAIT" <=> s.st[y] = "WAIT"
  BY DEF Wakes, Runnable
<1> QED BY <1>1, SemSame

LEMMA ResumeInv ==
  ASSUME KInv, NEW p \in Pids, resume(p)
  PROVE  KInv'
<1>1. PICK s : s = k
  OBVIOUS
<1>2. SchedInv(s, due, reprio) /\ SemInv(s.st, sem) /\ s.st[p] = "SUSP" /\ k' = ready(s, p)
  BY <1>1, KTypes DEF resume
<1>3. SchedInv(k', due, reprio) /\ Wakes(s, k', {p})
  BY <1>2, SchedReady
<1>4. \A q \in {p} : s.st[q] \notin {"FREE", "RECV", "WAIT"}
  BY <1>2
<1>5. Settles(s.st, k'.st)
  BY <1>3, <1>4, WakesSettles
<1>6. SemInv(k'.st, sem)
  BY <1>2, <1>3, <1>4, WakesWaiting
<1> QED BY <1>1, <1>3, <1>5, <1>6, KTypes, QuietStep DEF resume

LEMMA YieldInv ==
  ASSUME KInv, yield
  PROVE  KInv'
<1>1. PICK s : s = k
  OBVIOUS
<1>2. SchedInv(s, due, reprio) /\ SemInv(s.st, sem) /\ k' = resched(s)
  BY <1>1, KTypes DEF yield
<1>3. SchedInv(k', due, reprio) /\ Wakes(s, k', {})
  BY <1>2, SchedDispatch
<1>4. \A q \in {} : s.st[q] \notin {"FREE", "RECV", "WAIT"}
  OBVIOUS
<1>5. Settles(s.st, k'.st)
  BY <1>3, <1>4, WakesSettles
<1>6. SemInv(k'.st, sem)
  BY <1>2, <1>3, <1>4, WakesWaiting
<1> QED BY <1>1, <1>3, <1>5, <1>6, KTypes, QuietStep DEF yield

LEMMA ChprioInv ==
  ASSUME KInv, NEW p \in Pids, NEW pr \in Prios, chprio(p, pr)
  PROVE  KInv'
<1>1. PICK s : s = k
  OBVIOUS
<1>2. SchedInv(s, due, reprio) /\ SemInv(s.st, sem) /\ k' = [s EXCEPT !.prio[p] = pr] /\ pr \in Nat
  BY <1>1, KTypes, KernelAssumption DEF chprio
<1>3. SchedInv(k', due, reprio + 1) /\ k'.st = s.st
  BY <1>2, SchedChprio
<1>4. Settles(s.st, k'.st)
  BY <1>3 DEF Settles
<1>5. SemInv(k'.st, sem)
  BY <1>2, <1>3
<1> QED BY <1>1, <1>3, <1>4, <1>5, KTypes, QuietStep DEF chprio

LEMMA SleepInv ==
  ASSUME KInv, NEW n \in Delays, sleepms(n)
  PROVE  KInv'
<1>1. PICK s : s = k
  OBVIOUS
<1>2. PICK x : x = "SLEEP"
  OBVIOUS
<1>3. PICK p \in Pids : p = s.cur /\ p = me
  BY <1>1, KTypes DEF me
<1>4. /\ SchedInv(s, due, reprio) /\ SemInv(s.st, sem) /\ s.cur # 0 /\ s.st[p] = "CURR"
      /\ k' = resched([insertd(s, s.cur, n) EXCEPT !.st[s.cur] = x]) /\ due' = [due EXCEPT ![s.cur] = n]
      /\ n \in Nat \ {0} /\ x \in Delayed
  BY <1>1, <1>2, <1>3, KTypes, KernelAssumption DEF sleepms, Calls, me, Delayed
<1>5. SchedInv(k', due', reprio) /\ Leaves(s, k', s.cur, x)
  BY <1>4, SchedDelay
<1>6. Settles(s.st, k'.st)
  <2>1. s.st[s.cur] \notin {"FREE", "RECV"} /\ x # "FREE"
    BY <1>2, <1>3, <1>4
  <2> QED BY <1>5, <2>1, LeavesSettles
<1>7. SemInv(k'.st, sem)
  <2>1. \A y \in Pids : k'.st[y] = "WAIT" <=> s.st[y] = "WAIT"
    BY <1>2, <1>3, <1>4, <1>5 DEF Leaves, Runnable
  <2> QED BY <1>4, <2>1, SemSame
<1> QED BY <1>1, <1>5, <1>6, <1>7, KTypes, QuietStep DEF sleepms

LEMMA ClockInv ==
  ASSUME KInv, clkhandler
  PROVE  KInv'
<1>1. PICK s : s = k
  OBVIOUS
<1>2. SchedInv(s, due, reprio) /\ SemInv(s.st, sem)
  BY <1>1, KTypes
<1>3. PICK r \in {Woken(s), resched(Woken(s))} : r = k'
  BY <1>1 DEF clkhandler, Woken, Ticked
<1>4. PICK e : e = [p \in Pids |-> IF due[p] > 0 THEN due[p] - 1 ELSE 0]
  OBVIOUS
<1>5. PICK d : d = due
  OBVIOUS
<1>6. SchedInv(r, e, reprio) /\ \E W \in SUBSET {p \in Pids : s.st[p] \in Delayed} : Wakes(s, r, W)
  BY <1>2, <1>4, SchedTick
<1>7. PICK W \in SUBSET {p \in Pids : s.st[p] \in Delayed} : Wakes(s, r, W)
  BY <1>6
<1>8. \A p \in W : s.st[p] \notin {"FREE", "RECV", "WAIT"}
  BY DEF Delayed
<1>9. Settles(s.st, r.st)
  BY <1>7, <1>8, WakesSettles
<1>10. SemInv(r.st, sem)
  BY <1>2, <1>7, <1>8, WakesWaiting
<1>11. due' = e
  BY <1>4 DEF clkhandler
<1> QED BY <1>1, <1>3, <1>6, <1>9, <1>10, <1>11, KTypes, QuietStep DEF clkhandler

\* A semaphore changes; no process does.
LEMMA SemUpdate ==
  ASSUME KInv, NEW x \in Sems, NEW r, Counted(r), r.q = sem[x].q, sem' = [sem EXCEPT ![x] = r], k' = k,
         UNCHANGED <<mbox, parent, todo, prcount, halted, torn, nextpid, due, reprio>>, nextsem' \in Nat
  PROVE  KInv'
<1>1. PICK s : s = k
  OBVIOUS
<1>2. PICK st : st = s.st
  OBVIOUS
<1>3. SemInv(st, sem)
  BY <1>1, <1>2, KTypes
<1>4. SemInv(st, [sem EXCEPT ![x] = r])
  <2>1. PICK sm : sm = sem
    OBVIOUS
  <2>2. /\ SemInv(st, sm) /\ \A p \in Pids : Contains(r.q, p) => Contains(sm[x].q, p)
        /\ \A p \in Pids : st[p] = "WAIT" <=> st[p] = "WAIT" /\ (Contains(sm[x].q, p) => Contains(r.q, p))
    BY <1>3, <2>1
  <2>3. Counted(r) /\ x \in Sems
    OBVIOUS
  <2>4. SemInv(st, [sm EXCEPT ![x] = r])
    BY ONLY <2>2, <2>3, SemLeave
  <2> QED BY <2>1, <2>4
<1>5. Settles(s.st, s.st)
  BY DEF Settles
<1> QED BY <1>1, <1>2, <1>4, <1>5, KTypes, QuietStep

\* Processes are released from a semaphore.
LEMMA SemFreed ==
  ASSUME KInv, NEW x \in Sems, NEW f, NEW r, Releases(k.st, sem, x, f, r),
         sem' = [sem EXCEPT ![x] = r], k' = ReadyAll(k, f),
         UNCHANGED <<nextsem, mbox, parent, todo, prcount, halted, torn, nextpid, due, reprio>>
  PROVE  KInv'
<1>1. PICK s : s = k
  OBVIOUS
<1>2. PICK sm : sm = sem
  OBVIOUS
<1>3. SchedInv(s, due, reprio) /\ SemInv(s.st, sm) /\ Releases(s.st, sm, x, f, r)
  BY <1>1, <1>2, KTypes
<1>4. PICK t : t = ReadyAll(s, f)
  OBVIOUS
<1>5. SchedInv(t, due, reprio) /\ SemInv(t.st, [sm EXCEPT ![x] = r]) /\ Settles(s.st, t.st)
  BY <1>3, <1>4, SemRelease
<1> QED BY <1>1, <1>2, <1>4, <1>5, KTypes, QuietStep

LEMMA SemcreateInv ==
  ASSUME KInv, NEW n \in 0 .. MaxCount, semcreate(n)
  PROVE  KInv'
<1>1. FreeSems # {} /\ FreeSems \in SUBSET Nat
  BY DEF semcreate, FreeSems
<1>2. PICK least \in FreeSems : \A j \in FreeSems : least <= j
  BY <1>1, LeastNatural
<1>3. PICK i \in FreeSems : i = CHOOSE h \in FreeSems : \A j \in FreeSems : h <= j
  BY <1>2
<1>4. PICK x : x = newsem
  OBVIOUS
<1>5. x = (nextsem + i) % NSEM
  BY <1>3, <1>4 DEF newsem
<1>6. i \in Nat /\ sem[x].st = "FREE"
  BY <1>5 DEF FreeSems
<1>7. x \in Sems /\ x \in Nat
  BY <1>5, <1>6, KTypes, KernelAssumption DEF Sems
<1>8. PICK z \in SemRecs : z = sem[x]
  BY <1>7, KTypes DEF SemInv
<1>9. Counted(z) /\ z.st = "FREE"
  BY <1>6, <1>7, <1>8, KTypes DEF SemInv
<1>10. PICK r : r = [z EXCEPT !.st = "USED", !.n = n]
  OBVIOUS
<1>11. r.st = "USED" /\ r.n = n /\ r.q = z.q /\ r \in SemRecs
  <2>1. PICK u \in {"FREE", "USED"} : u = "USED"
    OBVIOUS
  <2>2. PICK m \in Int : m = n
    OBVIOUS
  <2>3. r = [z EXCEPT !.st = u, !.n = m]
    BY <1>10, <2>1, <2>2
  <2>4. r.st = u /\ r.n = m /\ r.q = z.q /\ r \in SemRecs
    BY ONLY <2>3, z \in SemRecs, u \in {"FREE", "USED"}, m \in Int DEF SemRecs
  <2> QED BY <2>1, <2>2, <2>4
<1>12. n \in Nat /\ Len(z.q) = 0
  <2>1. MaxCount \in Nat
    BY KernelAssumption
  <2>2. z.q = <<>>
    BY <1>9 DEF Counted
  <2> QED BY <2>1, <2>2
<1>13. Counted(r)
  <2>1. Len(r.q) = Waiters(r.n)
    BY <1>11, <1>12 DEF Waiters
  <2> QED BY <1>9, <1>11, <2>1 DEF Counted
<1>14. sem' = [sem EXCEPT ![x] = r]
  <2>1. sem' = [sem EXCEPT ![x].st = "USED", ![x].n = n]
    BY <1>4 DEF semcreate
  <2> QED BY <1>7, <1>8, <1>10, <2>1, KTypes DEF SemInv
<1>15. nextsem' \in Nat
  BY <1>4, <1>7, KernelAssumption DEF semcreate
<1> QED BY <1>7, <1>8, <1>11, <1>13, <1>14, <1>15, SemUpdate DEF semcreate

LEMMA SemwaitInv ==
  ASSUME KInv, NEW x \in Sems, semwait(x)
  PROVE  KInv'
<1>1. PICK z \in SemRecs : z = sem[x]
  BY KTypes DEF SemInv
<1>2. Counted(z) /\ z.st = "USED" /\ z.n \in Int
  BY <1>1, KTypes DEF SemInv, semwait, SemRecs
<1>3. CASE z.n > 0
  <2>1. PICK r : r = [z EXCEPT !.n = z.n - 1]
    OBVIOUS
  <2>2. r.st = z.st /\ r.n = z.n - 1 /\ r.q = z.q /\ r \in SemRecs
    BY <1>2, <2>1 DEF SemRecs
  <2>3. Counted(r)
    <3>1. Waiters(r.n) = Waiters(z.n)
      BY <1>2, <1>3, <2>2 DEF Waiters
    <3> QED BY <1>2, <2>2, <3>1 DEF Counted
  <2>4. sem' = [sem EXCEPT ![x] = r] /\ k' = k
    <3>1. sem' = [sem EXCEPT ![x].n = @ - 1] /\ k' = k
      BY <1>1, <1>3 DEF semwait
    <3> QED BY <1>1, <2>1, <3>1, KTypes DEF SemInv
  <2> QED BY <1>1, <2>2, <2>3, <2>4, KTypes, SemUpdate DEF semwait
<1>4. CASE ~(z.n > 0)
  <2>1. PICK s : s = k
    OBVIOUS
  <2>2. PICK y : y = "WAIT"
    OBVIOUS
  <2>3. PICK p \in Pids : p = s.cur /\ p = me
    BY <2>1, KTypes DEF me
  <2>4. /\ SchedInv(s, due, reprio) /\ s.cur # 0 /\ s.st[p] = "CURR"
        /\ k' = resched([s EXCEPT !.st[s.cur] = y])
    BY <1>1, <1>4, <2>1, <2>2, <2>3, KTypes DEF semwait, Calls, Block, me
  <2>5. SchedInv(k', due, reprio) /\ Leaves(s, k', s.cur, y)
    <3>1. y \in {"FREE", "SUSP", "WAIT", "RECV"}
      BY <2>2
    <3> QED BY ONLY <2>4, <3>1, SchedBlock
  <2>6. Settles(s.st, k'.st)
    <3>1. s.st[s.cur] \notin {"FREE", "RECV"} /\ y # "FREE"
      BY <2>2, <2>3, <2>4
    <3> QED BY <2>5, <3>1, LeavesSettles
  <2>7. \A q \in Pids : k'.st[q] = "WAIT" <=> s.st[q] = "WAIT" \/ q = p
    BY <2>2, <2>3, <2>4, <2>5 DEF Leaves, Runnable
  <2>8. SemInv(k'.st, sem')
    <3>1. PICK sm : sm = sem
      OBVIOUS
    <3>2. PICK st : st = s.st
      OBVIOUS
    <3>3. PICK st2 : st2 = k'.st
      OBVIOUS
    <3>4. /\ SemInv(st, sm) /\ x \in Sems /\ sm[x].st = "USED" /\ ~(sm[x].n > 0) /\ p \in Pids
          /\ st[p] # "WAIT" /\ \A q \in Pids : st2[q] = "WAIT" <=> st[q] = "WAIT" \/ q = p
      BY <1>1, <1>2, <1>4, <2>1, <2>4, <2>7, <3>1, <3>2, <3>3, KTypes
    <3>5. SemInv(st2, [sm EXCEPT ![x].n = @ - 1, ![x].q = Append(@, p)])
      BY ONLY <3>4, SemJoin
    <3>6. sem' = [sm EXCEPT ![x].n = @ - 1, ![x].q = Append(@, p)]
      BY <1>1, <1>4, <2>3, <3>1 DEF semwait
    <3> QED BY <3>3, <3>5, <3>6
  <2> QED BY <1>1, <1>4, <2>1, <2>5, <2>6, <2>8, KTypes, QuietStep DEF semwait
<1> QED BY <1>3, <1>4

\* Everybody who waits for a semaphore is released.
LEMMA EmptiedInv ==
  ASSUME KInv, NEW x \in Sems, NEW st \in {"FREE", "USED"}, NEW n \in Nat,
         sem' = [sem EXCEPT ![x] = [st |-> st, n |-> n, q |-> <<>>]], k' = ReadyAll(k, sem[x].q),
         UNCHANGED <<nextsem, mbox, parent, todo, prcount, halted, torn, nextpid, due, reprio>>
  PROVE  KInv'
<1>1. PICK r : r = [st |-> st, n |-> n, q |-> <<>>]
  OBVIOUS
<1>2. Counted(r) /\ \A p : ~Contains(r.q, p)
  <2>1. r \in SemRecs /\ r.q = <<>> /\ Len(r.q) = 0 /\ r.n = n
    BY <1>1 DEF SemRecs
  <2>2. Waiters(r.n) = 0
    BY <2>1 DEF Waiters
  <2> QED BY <2>1, <2>2 DEF Counted, One, Contains
<1>3. PICK f : f = sem[x].q
  OBVIOUS
<1>4. f \in Seq(Pids) /\ One(f)
  BY <1>3, KTypes DEF SemInv, Counted, SemRecs
<1>5. Releases(k.st, sem, x, f, r)
  BY <1>2, <1>3, <1>4 DEF Releases
<1> QED BY <1>1, <1>3, <1>5, SemFreed

Emptied(z, u, n) == [z EXCEPT !.st = u, !.n = n, !.q = <<>>]
EmptyRec(u, n) == [st |-> u, n |-> n, q |-> <<>>]
LEMMA EmptiedRec ==
  ASSUME NEW z \in SemRecs, NEW u \in {"FREE", "USED"}, NEW n \in Int
  PROVE  Emptied(z, u, n) = EmptyRec(u, n)
<1>1. PICK e \in Seq(Pids) : e = <<>>
  BY EmptySeq
<1>2. PICK r : r = [z EXCEPT !.st = u, !.n = n, !.q = e]
  OBVIOUS
<1>3. r \in SemRecs /\ r.st = u /\ r.n = n /\ r.q = e
  BY <1>2 DEF SemRecs
<1>4. r = [st |-> r.st, n |-> r.n, q |-> r.q]
  BY <1>3 DEF SemRecs
<1> QED BY <1>1, <1>2, <1>3, <1>4 DEF Emptied, EmptyRec

LEMMA SemdeleteInv ==
  ASSUME KInv, NEW x \in Sems, semdelete(x)
  PROVE  KInv'
<1>1. PICK z \in SemRecs : z = sem[x]
  BY KTypes DEF SemInv
<1>2. sem' = [sem EXCEPT ![x] = [st |-> "FREE", n |-> 0, q |-> <<>>]]
  <2>1. [z EXCEPT !.st = "FREE", !.n = 0, !.q = <<>>] = [st |-> "FREE", n |-> 0, q |-> <<>>]
    <3>1. PICK u \in {"FREE", "USED"} : u = "FREE"
      OBVIOUS
    <3>2. PICK n \in Int : n = 0
      OBVIOUS
    <3>3. [z EXCEPT !.st = u, !.n = n, !.q = <<>>] = [st |-> u, n |-> n, q |-> <<>>]
      <4>1. Emptied(z, u, n) = EmptyRec(u, n)
        BY EmptiedRec
      <4> QED BY <4>1 DEF Emptied, EmptyRec
    <3> QED BY <3>1, <3>2, <3>3
  <2>2. sem' = [sem EXCEPT ![x].st = "FREE", ![x].n = 0, ![x].q = <<>>]
    BY DEF semdelete
  <2> QED BY <1>1, <2>1, <2>2, KTypes DEF SemInv
<1>3. PICK st \in {"FREE", "USED"} : st = "FREE"
  OBVIOUS
<1>4. PICK n \in Nat : n = 0
  OBVIOUS
<1> QED BY <1>2, <1>3, <1>4, EmptiedInv DEF semdelete

LEMMA SemresetInv ==
  ASSUME KInv, NEW x \in Sems, NEW n \in 0 .. MaxCount, semreset(x, n)
  PROVE  KInv'
<1>1. PICK z \in SemRecs : z = sem[x] /\ z.st = "USED"
  BY KTypes DEF SemInv, semreset
<1>2. sem' = [sem EXCEPT ![x] = [st |-> "USED", n |-> n, q |-> <<>>]]
  <2>1. [z EXCEPT !.n = n, !.q = <<>>] = [st |-> "USED", n |-> n, q |-> <<>>]
    <3>1. n \in Int /\ z.st \in {"FREE", "USED"}
      BY <1>1, KernelAssumption
    <3>2. Emptied(z, z.st, n) = EmptyRec(z.st, n)
      BY <3>1, EmptiedRec
    <3>3. [z EXCEPT !.n = n, !.q = <<>>] = [z EXCEPT !.st = z.st, !.n = n, !.q = <<>>]
      BY <1>1 DEF SemRecs
    <3> QED BY <1>1, <3>2, <3>3 DEF Emptied, EmptyRec
  <2>2. sem' = [sem EXCEPT ![x].n = n, ![x].q = <<>>]
    BY DEF semreset
  <2> QED BY <1>1, <2>1, <2>2, KTypes DEF SemInv
<1>3. PICK st \in {"FREE", "USED"} : st = "USED"
  OBVIOUS
<1>4. n \in Nat
  BY KernelAssumption
<1> QED BY <1>2, <1>3, <1>4, EmptiedInv DEF semreset

\* The first w waiting processes of a queue, and the rest.
LEMMA QueueSplit ==
  ASSUME NEW q, q \in Seq(Pids), One(q), NEW w, w \in Nat, w <= Len(q)
  PROVE  LET f == SubSeq(q, 1, w)
             r == SubSeq(q, w + 1, Len(q))
         IN  /\ f \in Seq(Pids) /\ r \in Seq(Pids) /\ One(f) /\ One(r) /\ Len(r) = Len(q) - w
             /\ \A p : Contains(q, p) <=> Contains(f, p) \/ Contains(r, p)
             /\ \A p : ~(Contains(f, p) /\ Contains(r, p))
<1>1. PICK n \in Nat : n = Len(q)
  BY LenProperties
<1>2. PICK c \in Nat : c = w /\ c <= n
  BY <1>1
<1>3. \A j \in 1 .. n : q[j] \in Pids
  BY <1>1, LenProperties
<1>4. PICK r : r = SubSeq(q, c + 1, n)
  OBVIOUS
<1>5. PICK f : f = SubSeq(q, 1, c)
  OBVIOUS
<1>6. r \in Seq(Pids) /\ Len(r) = n - c /\ \A j \in 1 .. n - c : r[j] = q[c + j] /\ c + j \in 1 .. n
  <2>1. c + 1 \in 1 .. n + 1 /\ n \in (c + 1) - 1 .. n
    BY <1>2
  <2>2. \A j \in c + 1 .. n : q[j] \in Pids
    BY <1>3
  <2>3. PICK a \in Int : a = c + 1
    OBVIOUS
  <2>4. /\ r \in Seq(Pids) /\ Len(r) = IF a <= n THEN n - a + 1 ELSE 0
        /\ \A j \in 1 .. n - a + 1 : r[j] = q[a + j - 1]
    BY <1>4, <2>2, <2>3, SubSeqProperties
  <2>5. Len(r) = n - c
    BY <1>2, <2>3, <2>4
  <2>6. \A j \in 1 .. n - c : j \in 1 .. n - a + 1 /\ a + j - 1 = c + j /\ c + j \in 1 .. n
    BY <1>2, <2>3
  <2> QED BY <2>4, <2>5, <2>6
<1>7. f \in Seq(Pids) /\ Len(f) = c /\ \A j \in 1 .. c : f[j] = q[j] /\ j \in 1 .. n
  <2>1. \A j \in 1 .. c : j \in 1 .. n /\ q[j] \in Pids
    BY <1>2, <1>3
  <2>2. /\ f \in Seq(Pids) /\ Len(f) = IF 1 <= c THEN c - 1 + 1 ELSE 0
        /\ \A j \in 1 .. c - 1 + 1 : f[j] = q[1 + j - 1]
    BY <1>5, <2>1, SubSeqProperties
  <2>3. \A j \in 1 .. c : j \in 1 .. c - 1 + 1 /\ 1 + j - 1 = j
    OBVIOUS
  <2>4. Len(f) = c
    BY <2>2
  <2> QED BY <2>1, <2>2, <2>3, <2>4
<1>8. \A a, b \in 1 .. n : q[a] = q[b] => a = b
  BY <1>1 DEF One
<1>9. One(f)
  BY <1>7, <1>8 DEF One
<1>10. One(r)
  <2> SUFFICES ASSUME NEW a \in 1 .. n - c, NEW b \in 1 .. n - c, r[a] = r[b] PROVE a = b
    BY <1>6 DEF One
  <2>1. c + a = c + b
    BY <1>6, <1>8
  <2> QED BY <2>1
<1>11. \A p : Contains(f, p) <=> \E j \in 1 .. c : q[j] = p
  BY <1>7 DEF Contains
<1>12. \A p : Contains(r, p) <=> \E j \in c + 1 .. n : q[j] = p
  <2>1. ASSUME NEW p, Contains(r, p) PROVE \E j \in c + 1 .. n : q[j] = p
    <3>1. PICK i \in 1 .. n - c : r[i] = p
      BY <1>6, <2>1 DEF Contains
    <3>2. c + i \in c + 1 .. n
      BY <1>2
    <3> QED BY <1>6, <3>1, <3>2
  <2>2. ASSUME NEW p, NEW j \in c + 1 .. n, q[j] = p PROVE Contains(r, p)
    <3>1. j - c \in 1 .. n - c /\ c + (j - c) = j
      BY <1>2
    <3>2. r[j - c] = p
      BY <1>6, <2>2, <3>1
    <3> QED BY <1>6, <3>1, <3>2 DEF Contains
  <2> QED BY <2>1, <2>2
<1>13. \A p : Contains(q, p) <=> Contains(f, p) \/ Contains(r, p)
  <2>1. \A j : j \in 1 .. n <=> j \in 1 .. c \/ j \in c + 1 .. n
    BY <1>2
  <2>2. \A p : Contains(q, p) <=> \E j \in 1 .. n : q[j] = p
    BY <1>1 DEF Contains
  <2> QED BY <1>11, <1>12, <2>1, <2>2
<1>14. ASSUME NEW p, Contains(f, p), Contains(r, p) PROVE FALSE
  <2>1. PICK i \in 1 .. c : q[i] = p
    BY <1>11, <1>14
  <2>2. PICK j \in c + 1 .. n : q[j] = p
    BY <1>12, <1>14
  <2>3. i \in 1 .. n /\ j \in 1 .. n /\ i # j
    BY <1>2
  <2> QED BY <1>8, <2>1, <2>2, <2>3
<1> QED BY <1>1, <1>2, <1>4, <1>5, <1>6, <1>7, <1>9, <1>10, <1>13, <1>14

LEMMA SemsignalInv ==
  ASSUME KInv, NEW x \in Sems, NEW n \in 1 .. 2, semsignal(x, n)
  PROVE  KInv'
<1>1. PICK z \in SemRecs : z = sem[x]
  BY KTypes DEF SemInv
<1>2. PICK c \in Int : c = z.n
  BY <1>1 DEF SemRecs
<1>3. PICK q \in Seq(Pids) : q = z.q
  BY DEF SemRecs
<1>4. Counted(z) /\ z.st = "USED" /\ One(q) /\ Len(q) = IF c < 0 THEN -c ELSE 0
  BY <1>1, <1>2, <1>3, KTypes DEF SemInv, semsignal, Counted, Waiters
<1>5. PICK w : w = IF c >= 0 THEN 0 ELSE IF n < -c THEN n ELSE -c
  OBVIOUS
<1>6. w \in Nat /\ w <= Len(q)
  BY <1>4, <1>5
<1>7. PICK f : f = SubSeq(q, 1, w)
  OBVIOUS
<1>8. PICK l : l = SubSeq(q, w + 1, Len(q))
  OBVIOUS
<1>9. /\ f \in Seq(Pids) /\ l \in Seq(Pids) /\ One(f) /\ One(l) /\ Len(l) = Len(q) - w
      /\ \A p : Contains(q, p) <=> Contains(f, p) \/ Contains(l, p)
      /\ \A p : ~(Contains(f, p) /\ Contains(l, p))
  BY <1>4, <1>6, <1>7, <1>8, QueueSplit
<1>10. PICK m \in Int : m = c + n
  OBVIOUS
<1>11. PICK r : r = [z EXCEPT !.n = m, !.q = l]
  OBVIOUS
<1>12. r \in SemRecs /\ r.st = z.st /\ r.n = m /\ r.q = l
  BY ONLY <1>9, <1>11, z \in SemRecs, m \in Int DEF SemRecs
<1>13. Len(l) = Waiters(m)
  BY <1>4, <1>5, <1>9, <1>10 DEF Waiters
<1>14. Counted(r)
  BY <1>4, <1>9, <1>12, <1>13 DEF Counted
<1>15. Releases(k.st, sem, x, f, r)
  BY <1>1, <1>3, <1>9, <1>12, <1>14 DEF Releases
<1>16. k' = ReadyAll(k, f)
  BY <1>1, <1>2, <1>3, <1>5, <1>7 DEF semsignal
<1>17. sem' = [sem EXCEPT ![x] = r]
  <2>1. sem' = [sem EXCEPT ![x].n = @ + n, ![x].q = SubSeq(@, w + 1, Len(@))]
    BY <1>1, <1>2, <1>5 DEF semsignal
  <2>2. sem' = [sem EXCEPT ![x] = [z EXCEPT !.n = z.n + n, !.q = SubSeq(z.q, w + 1, Len(z.q))]]
    BY <1>1, <2>1, KTypes DEF SemInv
  <2> QED BY <1>2, <1>3, <1>8, <1>10, <1>11, <2>2
<1> QED BY <1>15, <1>16, <1>17, SemFreed DEF semsignal

\* A call that changes what processes have to do and their mailboxes, and not their number.
LEMMA MailStep ==
  ASSUME KInv, SchedInv(k', due', reprio'), SemInv(k'.st, sem'), TodoInv(k'.st, todo', mbox'),
         \A p \in Pids : k'.st[p] = "FREE" <=> k.st[p] = "FREE",
         \A p \in Pids : todo'[p] # todo[p] => todo[p].op # "kill" /\ todo'[p].op # "kill",
         UNCHANGED <<parent, prcount, halted, torn, nextsem, nextpid>>
  PROVE  KInv'
<1>1. Alive(k'.st) = Alive(k.st)
  BY DEF Alive
<1>2. \A p \in Pids : todo'[p].op = "kill" <=> todo[p].op = "kill"
  OBVIOUS
<1>3. \A p \in Pids : todo[p].op = "kill" => todo'[p] = todo[p]
  OBVIOUS
<1>4. DyingIn(todo') = DyingIn(todo)
  BY <1>2, <1>3 DEF DyingIn
<1>5. ~torn' /\ ~halted' => Counting(k'.st, todo', prcount')
  BY <1>1, <1>4 DEF KInv, Counting
<1> QED BY <1>5 DEF KInv

LEMMA SendInv ==
  ASSUME KInv, NEW p \in Pids, send(p)
  PROVE  KInv'
<1>1. PICK s : s = k
  OBVIOUS
<1>2. /\ SchedInv(s, due, reprio) /\ SemInv(s.st, sem) /\ TodoInv(s.st, todo, mbox)
      /\ k' = Deliver(s, p) /\ s.st[p] # "FREE"
  BY <1>1, KTypes DEF send, Accepts
<1>3. PICK t : t = Deliver(s, p)
  OBVIOUS
<1>4. PICK d : d = due
  OBVIOUS
<1>5. /\ SchedInv(t, Undelayed(t, d), reprio)
      /\ \E W \in SUBSET {p} : Wakes(s, t, W) /\ \A x \in W : s.st[x] \in {"RECV", "RECTIM"}
  BY <1>2, <1>3, <1>4, SchedDeliver
<1>6. PICK W \in SUBSET {p} : Wakes(s, t, W) /\ \A x \in W : s.st[x] \in {"RECV", "RECTIM"}
  BY <1>5
<1>7. SemInv(t.st, sem)
  <2>1. \A x \in W : s.st[x] # "WAIT"
    BY <1>6
  <2> QED BY <1>2, <1>6, <2>1, WakesWaiting
<1>8. \A y \in Pids : /\ t.st[y] = "FREE" <=> s.st[y] = "FREE"
                      /\ s.st[y] = "RECV" => t.st[y] = "RECV" \/ y = p
  BY <1>6 DEF Wakes, Runnable
<1>9. mbox' = [mbox EXCEPT ![p] = TRUE] /\ todo' = todo
  BY DEF send
<1>10. TodoInv(t.st, todo', mbox')
  BY <1>2, <1>8, <1>9 DEF TodoInv
<1>11. due' = Undelayed(t, d)
  BY <1>1, <1>2, <1>3, <1>4 DEF send
<1> QED BY <1>1, <1>2, <1>3, <1>5, <1>7, <1>8, <1>9, <1>10, <1>11, MailStep DEF send

LEMMA RecvclrInv ==
  ASSUME KInv, recvclr
  PROVE  KInv'
<1>1. TodoInv(k.st, todo, mbox) /\ todo[me] = Nothing /\ me \in Pids
  BY KTypes DEF recvclr, Calls
<1>2. mbox' = [mbox EXCEPT ![me] = FALSE] /\ todo' = todo /\ k' = k
  BY DEF recvclr
<1>3. TodoInv(k'.st, todo', mbox')
  BY <1>1, <1>2 DEF TodoInv, Nothing
<1> QED BY <1>2, <1>3, KTypes, MailStep DEF recvclr

LEMMA ReceivedInv ==
  ASSUME KInv, Received
  PROVE  KInv'
<1>1. /\ TodoInv(k.st, todo, mbox) /\ todo[me].op \in {"recv", "rectim"} /\ me \in Pids /\ todo \in [Pids -> Todos]
      /\ 0 \in Pids
  BY KTypes DEF Received, TodoInv
<1>2. mbox' = [mbox EXCEPT ![me] = FALSE] /\ todo' = [todo EXCEPT ![me] = Nothing] /\ k' = k
  BY DEF Received
<1>3. Nothing \in Todos /\ Nothing.op = "none"
  BY <1>1 DEF Nothing, Todos
<1>4. \A p \in Pids : todo'[p] = IF p = me THEN Nothing ELSE todo[p]
  BY <1>1, <1>2
<1>5. TodoInv(k'.st, todo', mbox')
  <2>1. todo' \in [Pids -> Todos] /\ mbox' \in [Pids -> BOOLEAN]
    BY <1>1, <1>2, <1>3 DEF TodoInv
  <2>2. \A p \in Pids : mbox'[p] = IF p = me THEN FALSE ELSE mbox[p]
    BY <1>1, <1>2 DEF TodoInv
  <2> QED BY <1>1, <1>2, <1>3, <1>4, <2>1, <2>2 DEF TodoInv
<1>6. \A p \in Pids : todo'[p] # todo[p] => todo[p].op # "kill" /\ todo'[p].op # "kill"
  BY <1>1, <1>3, <1>4
<1> QED BY <1>2, <1>5, <1>6, KTypes, MailStep DEF Received

LEMMA ReceiveInv ==
  ASSUME KInv, receive
  PROVE  KInv'
<1>1. /\ TodoInv(k.st, todo, mbox) /\ todo[me] = Nothing /\ me \in Pids /\ todo \in [Pids -> Todos]
      /\ mbox \in [Pids -> BOOLEAN] /\ me # 0
  BY KTypes DEF receive, Calls, TodoInv
<1>2. CASE mbox[me]
  <2>1. mbox' = [mbox EXCEPT ![me] = FALSE] /\ todo' = todo /\ k' = k
    BY <1>2 DEF receive
  <2>2. TodoInv(k'.st, todo', mbox')
    BY <1>1, <2>1 DEF TodoInv, Nothing
  <2> QED BY <2>1, <2>2, KTypes, MailStep DEF receive
<1>3. CASE ~mbox[me]
  <2>1. PICK s : s = k
    OBVIOUS
  <2>2. PICK x : x = "RECV"
    OBVIOUS
  <2>3. PICK p \in Pids : p = s.cur /\ p = me
    BY <1>1, <2>1 DEF me
  <2>4. /\ SchedInv(s, due, reprio) /\ SemInv(s.st, sem) /\ TodoInv(s.st, todo, mbox) /\ s.cur # 0 /\ s.st[p] = "CURR"
        /\ k' = resched([s EXCEPT !.st[s.cur] = x]) /\ mbox' = mbox
    BY <1>1, <1>3, <2>1, <2>2, <2>3, KTypes DEF receive, Block, me
  <2>5. SchedInv(k', due, reprio) /\ Leaves(s, k', s.cur, x)
    <3>1. x \in {"FREE", "SUSP", "WAIT", "RECV"}
      BY <2>2
    <3> QED BY ONLY <2>4, <3>1, SchedBlock
  <2>6. SemInv(k'.st, sem)
    <3>1. \A y \in Pids : k'.st[y] = "WAIT" <=> s.st[y] = "WAIT"
      BY <2>2, <2>3, <2>4, <2>5 DEF Leaves, Runnable
    <3> QED BY <2>4, <3>1, SemSame
  <2>7. /\ \A y \in Pids : k'.st[y] = "FREE" <=> s.st[y] = "FREE"
        /\ \A y \in Pids : s.st[y] = "RECV" => k'.st[y] = "RECV"
        /\ k'.st[p] = "RECV"
    BY <2>2, <2>3, <2>4, <2>5 DEF Leaves, Runnable
  <2>8. PICK n : n = [Nothing EXCEPT !.op = "recv"]
    OBVIOUS
  <2>9. todo' = [todo EXCEPT ![p] = n]
    BY <1>1, <1>3, <2>3, <2>8 DEF receive
  <2>10. n \in Todos /\ n.op = "recv"
    BY <2>8, KTypes DEF Todos, Nothing
  <2>11. \A y \in Pids : todo'[y] = IF y = p THEN n ELSE todo[y]
    BY <1>1, <2>9
  <2>12. todo' \in [Pids -> Todos]
    BY <1>1, <2>9, <2>10
  <2>13. TodoInv(k'.st, todo', mbox')
    BY <2>4, <2>7, <2>10, <2>11, <2>12 DEF TodoInv
  <2>14. \A y \in Pids : todo'[y] # todo[y] => todo[y].op # "kill" /\ todo'[y].op # "kill"
    BY <1>1, <2>3, <2>10, <2>11 DEF Nothing
  <2> QED BY <1>3, <2>1, <2>5, <2>6, <2>7, <2>13, <2>14, MailStep DEF receive
<1> QED BY <1>2, <1>3

LEMMA RecvtimeInv ==
  ASSUME KInv, NEW n \in Delays, recvtime(n)
  PROVE  KInv'
<1>1. /\ TodoInv(k.st, todo, mbox) /\ todo[me] = Nothing /\ me \in Pids /\ todo \in [Pids -> Todos]
      /\ mbox \in [Pids -> BOOLEAN] /\ me # 0
  BY KTypes DEF recvtime, Calls, TodoInv
<1>2. PICK s : s = k
  OBVIOUS
<1>3. PICK x : x = "RECTIM"
  OBVIOUS
<1>4. PICK p \in Pids : p = s.cur /\ p = me
  BY <1>1, <1>2 DEF me
<1>5. /\ SchedInv(s, due, reprio) /\ SemInv(s.st, sem) /\ TodoInv(s.st, todo, mbox) /\ s.cur # 0 /\ s.st[p] = "CURR"
      /\ k' = resched([insertd(s, s.cur, n) EXCEPT !.st[s.cur] = x]) /\ due' = [due EXCEPT ![s.cur] = n]
      /\ mbox' = mbox /\ n \in Nat \ {0} /\ x \in Delayed
  BY <1>1, <1>2, <1>3, <1>4, KTypes, KernelAssumption DEF recvtime, Delayed, me
<1>6. SchedInv(k', due', reprio) /\ Leaves(s, k', s.cur, x)
  BY <1>5, SchedDelay
<1>7. SemInv(k'.st, sem)
  <2>1. \A y \in Pids : k'.st[y] = "WAIT" <=> s.st[y] = "WAIT"
    BY <1>3, <1>4, <1>5, <1>6 DEF Leaves, Runnable
  <2> QED BY <1>5, <2>1, SemSame
<1>8. /\ \A y \in Pids : k'.st[y] = "FREE" <=> s.st[y] = "FREE"
      /\ \A y \in Pids : s.st[y] = "RECV" => k'.st[y] = "RECV"
  BY <1>3, <1>4, <1>5, <1>6 DEF Leaves, Runnable
<1>9. PICK r : r = [Nothing EXCEPT !.op = "rectim"]
  OBVIOUS
<1>10. todo' = [todo EXCEPT ![p] = r]
  BY <1>1, <1>4, <1>9 DEF recvtime
<1>11. r \in Todos /\ r.op = "rectim"
  BY <1>9, KTypes DEF Todos, Nothing
<1>12. \A y \in Pids : todo'[y] = IF y = p THEN r ELSE todo[y]
  BY <1>1, <1>10
<1>13. todo' \in [Pids -> Todos]
  BY <1>1, <1>10, <1>11
<1>14. TodoInv(k'.st, todo', mbox')
  BY <1>5, <1>8, <1>11, <1>12, <1>13 DEF TodoInv
<1>15. \A y \in Pids : todo'[y] # todo[y] => todo[y].op # "kill" /\ todo'[y].op # "kill"
  BY <1>1, <1>4, <1>11, <1>12 DEF Nothing
<1> QED BY <1>2, <1>6, <1>7, <1>8, <1>14, <1>15, MailStep DEF recvtime

\* The sizes of sets of processes.
LEMMA OneMore ==
  ASSUME NEW S, S \in SUBSET Pids, NEW p, p \in Pids, p \notin S
  PROVE  Cardinality(S \cup {p}) = Cardinality(S) + 1
<1>1. IsFiniteSet(Pids)
  <2>1. 0 \in Int /\ NPROC - 1 \in Int
    BY KernelAssumption
  <2> QED BY <2>1, FS_Interval DEF Pids
<1>2. IsFiniteSet(S)
  BY <1>1, FS_Subset
<1> QED BY <1>2, FS_AddElement

LEMMA OneLess ==
  ASSUME NEW S, S \in SUBSET Pids, NEW p, p \in S
  PROVE  Cardinality(S \ {p}) = Cardinality(S) - 1
<1>1. PICK R : R = S \ {p}
  OBVIOUS
<1>2. R \in SUBSET Pids /\ p \notin R /\ p \in Pids /\ R \cup {p} = S
  BY <1>1
<1>3. Cardinality(R \cup {p}) = Cardinality(R) + 1
  BY <1>2, OneMore
<1>4. Cardinality(R) \in Nat
  <2>1. IsFiniteSet(Pids)
    <3>1. 0 \in Int /\ NPROC - 1 \in Int
      BY KernelAssumption
    <3> QED BY <3>1, FS_Interval DEF Pids
  <2>2. IsFiniteSet(R)
    BY <1>2, <2>1, FS_Subset
  <2> QED BY <2>2, FS_CardinalityType
<1>5. PICK a \in Nat : a = Cardinality(R)
  BY <1>4
<1>6. Cardinality(S) = a + 1
  BY <1>2, <1>3, <1>5
<1> QED BY <1>1, <1>5, <1>6

LEMMA CreateInv ==
  ASSUME KInv, NEW pr \in Prios, create(pr)
  PROVE  KInv'
<1>1. FreeSlots # {} /\ FreeSlots \in SUBSET Nat
  BY DEF create, FreeSlots
<1>2. PICK least \in FreeSlots : \A j \in FreeSlots : least <= j
  BY <1>1, LeastNatural
<1>3. PICK i \in FreeSlots : i = CHOOSE h \in FreeSlots : \A j \in FreeSlots : h <= j
  BY <1>2
<1>4. PICK p : p = newpid
  OBVIOUS
<1>5. p = (nextpid + i) % NPROC
  BY <1>3, <1>4 DEF newpid
<1>6. i \in Nat /\ k.st[p] = "FREE"
  BY <1>5 DEF FreeSlots
<1>7. p \in Pids /\ p \in Nat
  <2>1. PICK a \in Nat : a = nextpid + i
    BY <1>6, KTypes
  <2>2. NPROC \in Nat /\ NPROC > 0
    BY KernelAssumption
  <2>3. a % NPROC \in 0 .. NPROC - 1
    BY <2>2
  <2> QED BY <1>5, <2>1, <2>3 DEF Pids
<1>8. PICK s : s = k
  OBVIOUS
<1>9. /\ SchedInv(s, due, reprio) /\ SemInv(s.st, sem) /\ TodoInv(s.st, todo, mbox) /\ s.st \in [Pids -> States]
      /\ k' = [s EXCEPT !.st[p] = "SUSP", !.prio[p] = pr] /\ pr \in Nat /\ s.st[p] = "FREE" /\ me \in Pids
  BY <1>4, <1>6, <1>8, KTypes, KernelAssumption DEF create
<1>10. SchedInv(k', due, reprio) /\ k'.st = [s.st EXCEPT ![p] = "SUSP"]
  BY <1>7, <1>9, SchedCreate
<1>11. \A y \in Pids : k'.st[y] = IF y = p THEN "SUSP" ELSE s.st[y]
  BY <1>9, <1>10
<1>12. SemInv(k'.st, sem)
  <2>1. \A y \in Pids : k'.st[y] = "WAIT" <=> s.st[y] = "WAIT"
    BY <1>9, <1>11
  <2> QED BY <1>9, <2>1, SemSame
<1>13. todo' = todo /\ todo[p] = Nothing /\ mbox' = [mbox EXCEPT ![p] = FALSE]
  <2>1. todo[p] = Nothing /\ todo \in [Pids -> Todos]
    BY <1>7, <1>9 DEF TodoInv
  <2>2. todo' = [todo EXCEPT ![p] = Nothing] /\ mbox' = [mbox EXCEPT ![p] = FALSE]
    BY <1>4 DEF create
  <2> QED BY <2>1, <2>2
<1>14. TodoInv(k'.st, todo', mbox')
  <2>1. mbox' \in [Pids -> BOOLEAN] /\ todo' \in [Pids -> Todos]
    BY <1>9, <1>13 DEF TodoInv
  <2>2. \A y \in Pids : mbox'[y] = IF y = p THEN FALSE ELSE mbox[y]
    BY <1>9, <1>13 DEF TodoInv
  <2>3. \A y \in Pids : todo'[y].op = "recv" => k'.st[y] = "RECV" \/ mbox'[y]
    BY <1>9, <1>11, <1>13, <2>2 DEF TodoInv, Nothing
  <2>4. \A y \in Pids : k'.st[y] = "FREE" => todo'[y] = Nothing
    BY <1>9, <1>11, <1>13 DEF TodoInv
  <2> QED BY <1>9, <1>13, <2>1, <2>3, <2>4 DEF TodoInv
<1>15. ASSUME ~torn', ~halted' PROVE Counting(k'.st, todo', prcount')
  <2>1. /\ ~torn /\ ~halted /\ prcount' = prcount + 1
        /\ \A q \in Pids : todo[q] # [op |-> "kill", pid |-> p]
    BY <1>4, <1>15 DEF create
  <2>2. Counting(s.st, todo, prcount)
    BY <1>8, <2>1 DEF KInv
  <2>3. p \notin DyingIn(todo)
    <3> SUFFICES ASSUME NEW q \in Pids, todo[q].op = "kill", todo[q].pid = p PROVE FALSE
      BY DEF DyingIn
    <3>1. todo[q] \in Todos
      BY <1>9 DEF TodoInv
    <3>2. todo[q] = [op |-> todo[q].op, pid |-> todo[q].pid]
      BY <3>1 DEF Todos
    <3> QED BY <2>1, <3>2
  <2>4. PICK S : S = Alive(s.st) \ DyingIn(todo)
    OBVIOUS
  <2>5. S \in SUBSET Pids /\ p \notin S
    BY <1>9, <2>4 DEF Alive
  <2>6. Alive(k'.st) \ DyingIn(todo') = S \cup {p}
    <3>1. Alive(k'.st) = Alive(s.st) \cup {p}
      BY <1>7, <1>11 DEF Alive
    <3> QED BY <1>13, <2>3, <2>4, <3>1
  <2>7. Cardinality(S \cup {p}) = Cardinality(S) + 1
    BY <1>7, <2>5, OneMore
  <2> QED BY <2>1, <2>2, <2>4, <2>6, <2>7 DEF Counting
<1>16. parent' \in [Pids -> Pids] /\ nextpid' \in Nat /\ nextsem' \in Nat /\ prcount' \in Int
  BY <1>4, <1>7, <1>9, KTypes DEF create
<1>17. due' = due /\ reprio' = reprio /\ sem' = sem
  BY DEF create
<1> QED BY <1>10, <1>12, <1>14, <1>15, <1>16, <1>17 DEF KInv

\* p is free in t, and nobody else has become free or stopped receiving.
Dies(s, t, p) ==
  \A y \in Pids : IF y = p THEN t.st[y] = "FREE"
                  ELSE /\ t.st[y] = "FREE" <=> s.st[y] = "FREE"
                       /\ s.st[y] = "RECV" => t.st[y] = "RECV"

\* What kill does to the scheduler and the semaphores, whichever process completes it.
LEMMA KillEffect ==
  ASSUME NEW s, NEW d, NEW re, SchedInv(s, d, re), NEW sm, SemInv(s.st, sm), NEW p, p \in Pids, p # 0
  PROVE  /\ SchedInv(KillState(s, p), Undelayed(KillState(s, p), d), re)
         /\ SemInv(KillState(s, p).st, KillSems(s, sm, p))
         /\ Dies(s, KillState(s, p), p)
<1>1. PICK t : t = KillState(s, p)
  OBVIOUS
<1>2. SchedInv(t, Undelayed(t, d), re) /\ Leaves(s, t, p, "FREE")
  BY <1>1, SchedKill
<1>3. \A y \in Pids : IF y = p THEN t.st[y] = "FREE"
                      ELSE IF s.st[y] \in Runnable THEN t.st[y] \in Runnable ELSE t.st[y] = s.st[y]
  BY <1>2 DEF Leaves
<1>4. PICK st2 : st2 = t.st
  OBVIOUS
<1>5. \A y \in Pids : st2[y] = "WAIT" <=> s.st[y] = "WAIT" /\ y # p
  BY <1>3, <1>4 DEF Runnable
<1>6. SemInv(st2, KillSems(s, sm, p))
  BY <1>5, KillSemsEffect
<1>7. Dies(s, t, p)
  BY <1>3 DEF Runnable, Dies
<1> QED BY <1>1, <1>2, <1>4, <1>6, <1>7

LEMMA KillRestInv ==
  ASSUME KInv, KillRest
  PROVE  KInv'
<1>1. PICK s : s = k
  OBVIOUS
<1>2. PICK d : d = due
  OBVIOUS
<1>3. PICK m \in Pids : m = me
  BY KTypes
<1>4. PICK p : p = todo[m].pid
  OBVIOUS
<1>5. /\ SchedInv(s, d, reprio) /\ SemInv(s.st, sem) /\ TodoInv(s.st, todo, mbox) /\ todo \in [Pids -> Todos]
      /\ todo[m].op = "kill" /\ p \in Pids /\ p # 0 /\ s.st[m] = "CURR" /\ 0 \in Pids
  <2>1. /\ SchedInv(s, d, reprio) /\ SemInv(s.st, sem) /\ TodoInv(s.st, todo, mbox) /\ todo \in [Pids -> Todos]
        /\ todo[m].op = "kill" /\ s.st[m] = "CURR" /\ 0 \in Pids
    BY <1>1, <1>2, <1>3, KTypes DEF KillRest, TodoInv
  <2>2. p \in Pids /\ p # 0
    BY <1>4, <2>1 DEF TodoInv, Todos
  <2> QED BY <2>1, <2>2
<1>6. PICK t : t = KillState(s, p)
  OBVIOUS
<1>7. /\ k' = t /\ sem' = KillSems(s, sem, p) /\ due' = Undelayed(t, d)
      /\ todo' = [todo EXCEPT ![m] = Nothing, ![p] = Nothing] /\ torn' = (torn \/ (p # m /\ todo[p].op = "kill"))
  BY <1>1, <1>2, <1>3, <1>4, <1>6 DEF KillRest
<1>8. /\ SchedInv(t, Undelayed(t, d), reprio) /\ SemInv(t.st, KillSems(s, sem, p))
      /\ \A y \in Pids : IF y = p THEN t.st[y] = "FREE"
                         ELSE /\ t.st[y] = "FREE" <=> s.st[y] = "FREE"
                              /\ s.st[y] = "RECV" => t.st[y] = "RECV"
  <2>1. SchedInv(t, Undelayed(t, d), reprio) /\ SemInv(t.st, KillSems(s, sem, p)) /\ Dies(s, t, p)
    BY <1>5, <1>6, KillEffect
  <2> QED BY <2>1 DEF Dies
<1>9. Nothing \in Todos /\ Nothing.op = "none"
  BY <1>5 DEF Nothing, Todos
<1>10. \A y \in Pids : todo'[y] = IF y = m \/ y = p THEN Nothing ELSE todo[y]
  BY <1>5, <1>7
<1>11. TodoInv(t.st, todo', mbox)
  <2>1. todo' \in [Pids -> Todos]
    BY <1>5, <1>7, <1>9
  <2>2. mbox \in [Pids -> BOOLEAN]
    BY <1>5 DEF TodoInv
  <2>3. \A y \in Pids : todo'[y].op = "kill" => todo'[y].pid # 0
    BY <1>5, <1>9, <1>10 DEF TodoInv
  <2>4. \A y \in Pids : t.st[y] = "FREE" => todo'[y] = Nothing
    BY <1>5, <1>8, <1>10 DEF TodoInv
  <2>5. \A y \in Pids : todo'[y].op = "recv" => t.st[y] = "RECV" \/ mbox[y]
    BY <1>5, <1>8, <1>9, <1>10 DEF TodoInv
  <2> QED BY <2>1, <2>2, <2>3, <2>4, <2>5 DEF TodoInv
<1>12. ASSUME ~torn', ~halted' PROVE Counting(t.st, todo', prcount')
  <2>1. ~torn /\ ~halted /\ (p = m \/ todo[p].op # "kill") /\ prcount' = prcount
    BY <1>7, <1>12 DEF KillRest
  <2>2. Counting(s.st, todo, prcount)
    BY <1>1, <2>1 DEF KInv
  <2>3. Alive(t.st) = Alive(s.st) \ {p}
    BY <1>5, <1>8 DEF Alive
  <2>4. DyingIn(todo) = DyingIn(todo') \cup {p}
    <3>1. ASSUME NEW x \in DyingIn(todo) PROVE x \in DyingIn(todo') \cup {p}
      <4>1. PICK q \in Pids : todo[q].op = "kill" /\ todo[q].pid = x
        BY DEF DyingIn
      <4>2. CASE q = m
        BY <1>4, <4>1, <4>2
      <4>3. CASE q # m
        <5>1. todo'[q] = todo[q]
          BY <1>10, <2>1, <4>1, <4>3
        <5> QED BY <4>1, <5>1 DEF DyingIn
      <4> QED BY <4>2, <4>3
    <3>2. ASSUME NEW x \in DyingIn(todo') PROVE x \in DyingIn(todo)
      <4>1. PICK q \in Pids : todo'[q].op = "kill" /\ todo'[q].pid = x
        BY DEF DyingIn
      <4>2. todo'[q] = todo[q]
        BY <1>9, <1>10, <4>1
      <4> QED BY <4>1, <4>2 DEF DyingIn
    <3>3. p \in DyingIn(todo)
      BY <1>4, <1>5 DEF DyingIn
    <3> QED BY <3>1, <3>2, <3>3
  <2>5. Alive(t.st) \ DyingIn(todo') = Alive(s.st) \ DyingIn(todo)
    BY <2>3, <2>4
  <2> QED BY <2>1, <2>2, <2>5 DEF Counting
<1>13. /\ parent' \in [Pids -> Pids] /\ nextpid' \in Nat /\ nextsem' \in Nat /\ prcount' \in Int
       /\ mbox' = mbox /\ reprio' = reprio
  BY KTypes DEF KillRest
<1> QED BY <1>7, <1>8, <1>11, <1>12, <1>13 DEF KInv

\* The message of kill to the parent, which may wake it.
LEMMA MessageEffect ==
  ASSUME KInv, NEW to, to \in Pids, NEW s, s = IF Accepts(to) THEN Deliver(k, to) ELSE k
  PROVE  /\ SchedInv(s, due, reprio) /\ SchedInv(s, Undelayed(s, due), reprio) /\ SemInv(s.st, sem)
         /\ \A y \in Pids : s.st[y] = "FREE" <=> k.st[y] = "FREE"
         /\ \A y \in Pids : k.st[y] = "RECV" => s.st[y] = "RECV" \/ (y = to /\ Accepts(to))
<1>1. PICK z : z = k
  OBVIOUS
<1>2. PICK d : d = due
  OBVIOUS
<1>3. SchedInv(z, d, reprio) /\ SemInv(z.st, sem)
  BY <1>1, <1>2, KTypes
<1>4. CASE Accepts(to)
  <2>1. s = Deliver(z, to)
    BY <1>1, <1>4
  <2>2. /\ SchedInv(s, d, reprio) /\ SchedInv(s, Undelayed(s, d), reprio)
        /\ \E W \in SUBSET {to} : Wakes(z, s, W) /\ \A x \in W : z.st[x] \in {"RECV", "RECTIM"}
    BY <1>3, <2>1, SchedDeliver
  <2>3. PICK W \in SUBSET {to} : Wakes(z, s, W) /\ \A x \in W : z.st[x] \in {"RECV", "RECTIM"}
    BY <2>2
  <2>4. SemInv(s.st, sem)
    <3>1. \A x \in W : z.st[x] # "WAIT"
      BY <2>3
    <3> QED BY <1>3, <2>3, <3>1, WakesWaiting
  <2>5. \A y \in Pids : /\ s.st[y] = "FREE" <=> z.st[y] = "FREE"
                        /\ z.st[y] = "RECV" => s.st[y] = "RECV" \/ y = to
    BY <2>3 DEF Wakes, Runnable
  <2> QED BY <1>1, <1>2, <1>4, <2>2, <2>4, <2>5
<1>5. CASE ~Accepts(to)
  <2>1. s = z
    BY <1>1, <1>5
  <2>2. SchedInv(s, Undelayed(s, d), reprio)
    <3>1. s.slp \in Seq(Pids)
      BY <1>3, <2>1, SchedTypes
    <3>2. /\ d \in [Pids -> Nat] /\ Delta(s.slp, s.key, d) /\ Good(s) /\ reprio \in Nat
          /\ \A y \in Pids : Contains(s.slp, y) => d[y] > 0
          /\ (reprio = 0 => Ranked(s) /\ Highest(s))
      BY <1>3, <2>1 DEF SchedInv
    <3>3. /\ Undelayed(s, d) \in [Pids -> Nat] /\ Delta(s.slp, s.key, Undelayed(s, d))
          /\ \A y \in Pids : Contains(s.slp, y) => Undelayed(s, d)[y] > 0
      BY ONLY <3>1, <3>2, UndelayedDelta
    <3> QED BY <3>2, <3>3 DEF SchedInv
  <2> QED BY <1>1, <1>2, <1>3, <2>1, <2>2
<1> QED BY <1>4, <1>5

LEMMA KillCallInv ==
  ASSUME KInv, NEW p \in Pids, kill(p)
  PROVE  KInv'
<1>1. PICK d : d = due
  OBVIOUS
<1>2. PICK m \in Pids : m = me
  BY KTypes
<1>3. /\ TodoInv(k.st, todo, mbox) /\ todo \in [Pids -> Todos] /\ mbox \in [Pids -> BOOLEAN] /\ 0 \in Pids
      /\ p # 0 /\ k.st[p] # "FREE" /\ todo[m] = Nothing /\ prcount' = prcount - 1 /\ prcount \in Int
      /\ parent \in [Pids -> Pids] /\ nextsem \in Nat /\ nextpid \in Nat
      /\ parent' = parent /\ nextsem' = nextsem /\ nextpid' = nextpid /\ reprio' = reprio
  BY <1>2, KTypes DEF kill, Calls, TodoInv
<1>4. CASE prcount - 1 <= 1
  <2>1. halted' /\ k' = k /\ sem' = sem /\ mbox' = mbox /\ todo' = todo /\ due' = due
    BY <1>4 DEF kill
  <2>2. prcount' \in Int
    BY <1>3
  <2> QED BY <1>3, <2>1, <2>2, KTypes DEF KInv
<1>5. CASE ~(prcount - 1 <= 1)
  <2>1. PICK to \in Pids : to = parent[p]
    BY <1>3
  <2>2. PICK s : s = IF Accepts(to) THEN Deliver(k, to) ELSE k
    OBVIOUS
  <2>3. /\ mbox' = IF Accepts(to) THEN [mbox EXCEPT ![to] = TRUE] ELSE mbox
        /\ IF s.cur = m
           THEN /\ k' = KillState(s, p) /\ sem' = KillSems(s, sem, p) /\ todo' = [todo EXCEPT ![p] = Nothing]
                /\ due' = Undelayed(KillState(s, p), d)
           ELSE /\ k' = s /\ todo' = [todo EXCEPT ![m] = [op |-> "kill", pid |-> p]] /\ sem' = sem
                /\ due' = Undelayed(s, d)
        /\ halted' = halted
    BY <1>1, <1>2, <1>5, <2>1, <2>2 DEF kill
  <2>4. /\ SchedInv(s, d, reprio) /\ SchedInv(s, Undelayed(s, d), reprio) /\ SemInv(s.st, sem)
        /\ \A y \in Pids : s.st[y] = "FREE" <=> k.st[y] = "FREE"
        /\ \A y \in Pids : k.st[y] = "RECV" => s.st[y] = "RECV" \/ (y = to /\ Accepts(to))
    BY <1>1, <2>2, MessageEffect
  <2>5. /\ mbox' \in [Pids -> BOOLEAN]
        /\ \A y \in Pids : mbox'[y] = (mbox[y] \/ (y = to /\ Accepts(to)))
    BY <1>3, <2>3
  <2>6. TodoInv(s.st, todo, mbox')
    <3>1. \A y \in Pids : todo[y].op = "recv" => s.st[y] = "RECV" \/ mbox'[y]
      BY <1>3, <2>4, <2>5 DEF TodoInv
    <3>2. \A y \in Pids : s.st[y] = "FREE" => todo[y] = Nothing
      BY <1>3, <2>4 DEF TodoInv
    <3> QED BY <1>3, <2>5, <3>1, <3>2 DEF TodoInv
  <2>7. Alive(s.st) = Alive(k.st)
    BY <2>4 DEF Alive
  <2>8. ASSUME ~torn', ~halted'
        PROVE  /\ todo[p].op # "kill" /\ p \notin DyingIn(todo) /\ Counting(s.st, todo, prcount)
               /\ p \in Alive(s.st) /\ prcount' = prcount - 1
    <3>1. /\ ~torn /\ todo[p].op # "kill" /\ ~halted
          /\ \A q \in Pids : todo[q] # [op |-> "kill", pid |-> p]
      BY <2>3, <2>8 DEF kill
    <3>2. p \notin DyingIn(todo)
      <4> SUFFICES ASSUME NEW q \in Pids, todo[q].op = "kill", todo[q].pid = p PROVE FALSE
        BY DEF DyingIn
      <4>1. todo[q] \in Todos
        BY <1>3
      <4>2. todo[q] = [op |-> todo[q].op, pid |-> todo[q].pid]
        BY <4>1 DEF Todos
      <4> QED BY <3>1, <4>2
    <3>3. Counting(s.st, todo, prcount)
      BY <2>7, <3>1 DEF KInv, Counting
    <3>4. p \in Alive(s.st)
      BY <1>3, <2>7 DEF Alive
    <3> QED BY <1>3, <3>1, <3>2, <3>3, <3>4
  <2>9. CASE s.cur = m
    <3>1. PICK t : t = KillState(s, p)
      OBVIOUS
    <3>2. k' = t /\ sem' = KillSems(s, sem, p) /\ todo' = [todo EXCEPT ![p] = Nothing] /\ due' = Undelayed(t, d)
      BY <2>3, <2>9, <3>1
    <3>3. /\ SchedInv(t, Undelayed(t, d), reprio) /\ SemInv(t.st, KillSems(s, sem, p))
          /\ \A y \in Pids : IF y = p THEN t.st[y] = "FREE"
                             ELSE /\ t.st[y] = "FREE" <=> s.st[y] = "FREE"
                                  /\ s.st[y] = "RECV" => t.st[y] = "RECV"
      <4>1. PICK sm : sm = sem
        OBVIOUS
      <4>2. PICK re : re = reprio
        OBVIOUS
      <4>3. SchedInv(s, d, re) /\ SemInv(s.st, sm) /\ p \in Pids /\ p # 0
        BY <1>3, <2>4, <4>1, <4>2
      <4>4. SchedInv(t, Undelayed(t, d), re) /\ SemInv(t.st, KillSems(s, sm, p))
        BY ONLY <3>1, <4>3, KillEffect
      <4>5. Dies(s, t, p)
        BY ONLY <3>1, <4>3, KillEffect
      <4> QED BY <4>1, <4>2, <4>4, <4>5 DEF Dies
    <3>4. Nothing \in Todos /\ Nothing.op = "none"
      BY <1>3 DEF Nothing, Todos
    <3>5. \A y \in Pids : todo'[y] = IF y = p THEN Nothing ELSE todo[y]
      BY <1>3, <3>2
    <3>6. TodoInv(t.st, todo', mbox')
      <4>1. todo' \in [Pids -> Todos]
        BY <1>3, <3>2, <3>4
      <4>2. \A y \in Pids : todo'[y].op = "kill" => todo'[y].pid # 0
        BY <1>3, <3>4, <3>5 DEF TodoInv
      <4>3. \A y \in Pids : t.st[y] = "FREE" => todo'[y] = Nothing
        BY <2>6, <3>3, <3>5 DEF TodoInv
      <4>4. \A y \in Pids : todo'[y].op = "recv" => t.st[y] = "RECV" \/ mbox'[y]
        BY <2>6, <3>3, <3>4, <3>5 DEF TodoInv
      <4> QED BY <2>5, <4>1, <4>2, <4>3, <4>4 DEF TodoInv
    <3>7. ASSUME ~torn', ~halted' PROVE Counting(t.st, todo', prcount')
      <4>1. /\ todo[p].op # "kill" /\ p \notin DyingIn(todo) /\ Counting(s.st, todo, prcount)
            /\ p \in Alive(s.st) /\ prcount' = prcount - 1
        BY <2>8, <3>7
      <4>2. DyingIn(todo') = DyingIn(todo)
        <5>1. \A q \in Pids : todo'[q].op = "kill" <=> todo[q].op = "kill"
          BY <3>4, <3>5, <4>1
        <5>2. \A q \in Pids : todo[q].op = "kill" => todo'[q] = todo[q]
          BY <3>5, <4>1
        <5> QED BY <5>1, <5>2 DEF DyingIn
      <4>3. PICK S : S = Alive(s.st) \ DyingIn(todo)
        OBVIOUS
      <4>4. S \in SUBSET Pids /\ p \in S
        BY <4>1, <4>3 DEF Alive
      <4>5. Alive(t.st) \ DyingIn(todo') = S \ {p}
        <5>1. Alive(t.st) = Alive(s.st) \ {p}
          BY <1>3, <3>3 DEF Alive
        <5> QED BY <4>2, <4>3, <5>1
      <4>6. Cardinality(S \ {p}) = Cardinality(S) - 1
        BY <4>4, OneLess
      <4> QED BY <4>1, <4>3, <4>5, <4>6 DEF Counting
    <3>8. prcount' \in Int
      BY <1>3
    <3> QED BY <1>3, <3>2, <3>3, <3>6, <3>7, <3>8 DEF KInv
  <2>10. CASE s.cur # m
    <3>1. PICK n : n = [op |-> "kill", pid |-> p]
      OBVIOUS
    <3>2. k' = s /\ todo' = [todo EXCEPT ![m] = n] /\ sem' = sem /\ due' = Undelayed(s, d)
      BY <2>3, <2>10, <3>1
    <3>3. n \in Todos /\ n.op = "kill" /\ n.pid = p
      BY <3>1 DEF Todos
    <3>4. \A y \in Pids : todo'[y] = IF y = m THEN n ELSE todo[y]
      BY <1>3, <3>2
    <3>5. s.st[m] # "FREE"
      BY <1>2, <2>4, KTypes
    <3>6. TodoInv(s.st, todo', mbox')
      <4>1. todo' \in [Pids -> Todos]
        BY <1>3, <3>2, <3>3
      <4>2. \A y \in Pids : todo'[y].op = "kill" => todo'[y].pid # 0
        BY <1>3, <3>3, <3>4 DEF TodoInv
      <4>3. \A y \in Pids : s.st[y] = "FREE" => todo'[y] = Nothing
        BY <2>6, <3>4, <3>5 DEF TodoInv
      <4>4. \A y \in Pids : todo'[y].op = "recv" => s.st[y] = "RECV" \/ mbox'[y]
        BY <2>6, <3>3, <3>4 DEF TodoInv
      <4> QED BY <2>5, <4>1, <4>2, <4>3, <4>4 DEF TodoInv
    <3>7. ASSUME ~torn', ~halted' PROVE Counting(s.st, todo', prcount')
      <4>1. /\ p \notin DyingIn(todo) /\ Counting(s.st, todo, prcount)
            /\ p \in Alive(s.st) /\ prcount' = prcount - 1
        BY <2>8, <3>7
      <4>2. DyingIn(todo') = DyingIn(todo) \cup {p}
        <5>1. todo[m].op # "kill"
          BY <1>3 DEF Nothing
        <5>2. ASSUME NEW x \in DyingIn(todo) PROVE x \in DyingIn(todo')
          <6>1. PICK q \in Pids : todo[q].op = "kill" /\ todo[q].pid = x
            BY DEF DyingIn
          <6>2. todo'[q] = todo[q]
            BY <3>4, <5>1, <6>1
          <6> QED BY <6>1, <6>2 DEF DyingIn
        <5>3. ASSUME NEW x \in DyingIn(todo') PROVE x \in DyingIn(todo) \cup {p}
          <6>1. PICK q \in Pids : todo'[q].op = "kill" /\ todo'[q].pid = x
            BY DEF DyingIn
          <6>2. q = m \/ todo'[q] = todo[q]
            BY <3>4
          <6>3. CASE q = m
            BY <3>3, <3>4, <6>1, <6>3
          <6>4. CASE todo'[q] = todo[q]
            BY <6>1, <6>4 DEF DyingIn
          <6> QED BY <6>2, <6>3, <6>4
        <5>4. p \in DyingIn(todo')
          BY <3>3, <3>4 DEF DyingIn
        <5> QED BY <5>2, <5>3, <5>4
      <4>3. PICK S : S = Alive(s.st) \ DyingIn(todo)
        OBVIOUS
      <4>4. S \in SUBSET Pids /\ p \in S
        BY <4>1, <4>3 DEF Alive
      <4>5. Alive(s.st) \ DyingIn(todo') = S \ {p}
        BY <4>2, <4>3
      <4>6. Cardinality(S \ {p}) = Cardinality(S) - 1
        BY <4>4, OneLess
      <4> QED BY <4>1, <4>3, <4>5, <4>6 DEF Counting
    <3>8. prcount' \in Int
      BY <1>3
    <3> QED BY <1>3, <2>4, <3>2, <3>6, <3>7, <3>8 DEF KInv
  <2> QED BY <2>9, <2>10
<1> QED BY <1>4, <1>5

LEMMA KernelStart ==
  ASSUME KernelInit
  PROVE  KInv
<1>1. 0 \in Pids /\ 1 \in Pids /\ Pids \in SUBSET Nat
  BY KernelAssumption DEF Pids
<1>2. PICK st : st = [p \in Pids |-> CASE p = 0 -> "READY" [] p = 1 -> "CURR" [] OTHER -> "FREE"]
  OBVIOUS
<1>3. PICK prio : prio = [p \in Pids |-> IF p = 1 THEN 1 ELSE 0]
  OBVIOUS
<1>4. PICK key : key = [p \in Pids |-> 0]
  OBVIOUS
<1>5. PICK rdy : rdy = <<0>>
  OBVIOUS
<1>6. PICK slp : slp = <<>>
  OBVIOUS
<1>7. k = [st |-> st, prio |-> prio, key |-> key, rdy |-> rdy, slp |-> slp, cur |-> 1, ndefers |-> 0, attempt |-> FALSE]
  BY <1>2, <1>3, <1>4, <1>5, <1>6 DEF KernelInit
<1>8. /\ k.st = st /\ k.prio = prio /\ k.key = key /\ k.rdy = rdy /\ k.slp = slp /\ k.cur = 1
      /\ k.ndefers = 0 /\ k.attempt = FALSE
  BY <1>7
<1>9. /\ st \in [Pids -> States] /\ prio \in [Pids -> Nat] /\ key \in [Pids -> Int]
      /\ rdy \in Seq(Pids) /\ slp \in Seq(Pids)
      /\ \A p \in Pids : /\ st[p] = IF p = 0 THEN "READY" ELSE IF p = 1 THEN "CURR" ELSE "FREE"
                         /\ prio[p] = (IF p = 1 THEN 1 ELSE 0) /\ key[p] = 0
  <2>1. \A p \in Pids : st[p] = IF p = 0 THEN "READY" ELSE IF p = 1 THEN "CURR" ELSE "FREE"
    BY <1>1, <1>2
  <2>2. st \in [Pids -> States]
    <3>1. st = [p \in Pids |-> st[p]]
      BY <1>2
    <3>2. \A p \in Pids : st[p] \in States
      BY <2>1 DEF States
    <3> QED BY <3>1, <3>2
  <2>3. prio \in [Pids -> Nat] /\ \A p \in Pids : prio[p] = (IF p = 1 THEN 1 ELSE 0)
    BY <1>3
  <2>4. key \in [Pids -> Int] /\ \A p \in Pids : key[p] = 0
    BY <1>4
  <2>5. rdy \in Seq(Pids) /\ slp \in Seq(Pids)
    BY <1>1, <1>5, <1>6
  <2> QED BY <2>1, <2>2, <2>3, <2>4, <2>5
<1>10. k \in Schedulers
  BY <1>1, <1>7, <1>9 DEF Schedulers
<1>11. One(rdy) /\ One(slp) /\ (\A p : Contains(rdy, p) <=> p = 0) /\ \A p : ~Contains(slp, p)
  <2>1. Len(rdy) = 1 /\ rdy[1] = 0 /\ Len(slp) = 0
    BY <1>5, <1>6
  <2>2. 1 .. 1 = {1} /\ 1 .. 0 = {}
    OBVIOUS
  <2> QED BY <2>1, <2>2 DEF One, Contains
<1>12. Good(k)
  <2>1. Loose(k, {})
    <3>1. \A p \in Pids : Contains(rdy, p) <=> p \notin {} /\ st[p] = "READY"
      BY <1>9, <1>11
    <3>2. \A p \in Pids : Contains(slp, p) <=> p \notin {} /\ st[p] \in Delayed
      BY <1>9, <1>11 DEF Delayed
    <3>3. \A p \in Pids : st[p] = "CURR" => p = 1 /\ p \notin {}
      BY <1>9
    <3>4. 0 \notin {} /\ st[0] \in Runnable
      BY <1>1, <1>9 DEF Runnable
    <3> QED BY <1>8, <1>10, <1>11, <3>1, <3>2, <3>3, <3>4 DEF Loose
  <2>2. st[1] = "CURR"
    BY <1>1, <1>9
  <2> QED BY <1>8, <2>1, <2>2 DEF Good, Sched
<1>13. Ranked(k) /\ Highest(k)
  <2>1. Len(rdy) = 1 /\ rdy[1] = 0 /\ key[0] = 0
    BY <1>1, <1>5, <1>9
  <2>2. \A i, j \in 1 .. Len(rdy) : i <= j => key[rdy[i]] >= key[rdy[j]]
    <3>1. \A i \in 1 .. Len(rdy) : i = 1
      BY <2>1
    <3>2. 0 >= 0
      OBVIOUS
    <3> QED BY <2>1, <3>1, <3>2
  <2>3. \A p \in Pids : Contains(rdy, p) => key[p] = prio[p]
    BY <1>9, <1>11
  <2>4. \A p \in Pids : st[p] = "READY" => prio[p] <= prio[1]
    BY <1>1, <1>9
  <2> QED BY <1>8, <2>2, <2>3, <2>4 DEF Ranked, Highest
<1>14. SchedInv(k, due, reprio)
  <2>1. reprio = 0 /\ due = [p \in Pids |-> 0]
    BY DEF KernelInit
  <2>2. due \in [Pids -> Nat]
    BY <2>1
  <2>3. Delta(k.slp, k.key, due)
    <3>1. Len(k.slp) = 0
      BY <1>6, <1>8
    <3> QED BY <3>1 DEF Delta
  <2> QED BY <1>8, <1>11, <1>12, <1>13, <2>1, <2>2, <2>3 DEF SchedInv
<1>15. SemInv(k.st, sem)
  <2>1. PICK r : r = [st |-> "FREE", n |-> 0, q |-> <<>>]
    OBVIOUS
  <2>2. Counted(r) /\ \A p : ~Contains(r.q, p)
    <3>1. r \in SemRecs /\ r.q = <<>> /\ Len(r.q) = 0 /\ r.n = 0
      BY <2>1 DEF SemRecs
    <3>2. Waiters(r.n) = 0
      BY <3>1 DEF Waiters
    <3> QED BY <3>1, <3>2 DEF Counted, One, Contains
  <2>3. sem = [x \in Sems |-> r]
    BY <2>1 DEF KernelInit
  <2>4. \A p \in Pids : st[p] # "WAIT"
    BY <1>9
  <2> QED BY <1>8, <2>2, <2>3, <2>4 DEF SemInv, Counted
<1>16. TodoInv(k.st, todo, mbox)
  <2>1. Nothing \in Todos /\ Nothing.op = "none"
    BY <1>1 DEF Nothing, Todos
  <2>2. todo = [p \in Pids |-> Nothing] /\ mbox = [p \in Pids |-> FALSE]
    BY DEF KernelInit
  <2> QED BY <2>1, <2>2 DEF TodoInv
<1>17. Counting(k.st, todo, prcount)
  <2>1. DyingIn(todo) = {}
    <3>1. todo = [p \in Pids |-> Nothing] /\ Nothing.op = "none"
      BY DEF KernelInit, Nothing
    <3> QED BY <3>1 DEF DyingIn
  <2>2. Alive(k.st) = {0} \cup {1}
    BY <1>1, <1>8, <1>9 DEF Alive
  <2>3. PICK S : S = {0}
    OBVIOUS
  <2>4. Cardinality(S) = 1 /\ S \in SUBSET Pids /\ 1 \notin S
    BY <1>1, <2>3, FS_Singleton
  <2>5. Cardinality(S \cup {1}) = Cardinality(S) + 1
    BY <1>1, <2>4, OneMore
  <2>6. prcount = 2
    BY DEF KernelInit
  <2> QED BY <2>1, <2>2, <2>3, <2>4, <2>5, <2>6 DEF Counting
<1>18. parent \in [Pids -> Pids] /\ nextsem \in Nat /\ nextpid \in Nat /\ prcount \in Int
  <2>1. NPROC \in Nat /\ NPROC > 0
    BY KernelAssumption
  <2>2. 2 % NPROC \in Nat
    BY <2>1
  <2> QED BY <1>1, <2>2 DEF KernelInit
<1> QED BY <1>14, <1>15, <1>16, <1>17, <1>18 DEF KInv

LEMMA KernelStep ==
  ASSUME KInv, [KernelNext]_kernelVars
  PROVE  KInv'
<1>1. CASE \E pr \in Prios : create(pr)
  BY <1>1, CreateInv
<1>2. CASE \E p \in Pids, pr \in Prios : chprio(p, pr)
  BY <1>2, ChprioInv
<1>3. CASE \E p \in Pids : suspend(p)
  BY <1>3, SuspendInv
<1>4. CASE \E p \in Pids : resume(p)
  BY <1>4, ResumeInv
<1>5. CASE \E p \in Pids : send(p)
  BY <1>5, SendInv
<1>6. CASE \E p \in Pids : kill(p)
  BY <1>6, KillCallInv
<1>7. CASE \E n \in 0 .. MaxCount : semcreate(n)
  BY <1>7, SemcreateInv
<1>8. CASE \E n \in 0 .. MaxCount, s \in Sems : semreset(s, n)
  BY <1>8, SemresetInv
<1>9. CASE \E s \in Sems : semwait(s)
  BY <1>9, SemwaitInv
<1>10. CASE \E s \in Sems : semdelete(s)
  BY <1>10, SemdeleteInv
<1>11. CASE \E s \in Sems, n \in 1 .. 2 : semsignal(s, n)
  BY <1>11, SemsignalInv
<1>12. CASE \E n \in Delays : sleepms(n)
  BY <1>12, SleepInv
<1>13. CASE \E n \in Delays : recvtime(n)
  BY <1>13, RecvtimeInv
<1>14. CASE yield
  BY <1>14, YieldInv
<1>15. CASE clkhandler
  BY <1>15, ClockInv
<1>16. CASE receive
  BY <1>16, ReceiveInv
<1>17. CASE recvclr
  BY <1>17, RecvclrInv
<1>18. CASE Received
  BY <1>18, ReceivedInv
<1>19. CASE KillRest
  BY <1>19, KillRestInv
<1>20. CASE UNCHANGED kernelVars
  BY <1>20 DEF KInv, kernelVars
<1> QED
  BY <1>1, <1>2, <1>3, <1>4, <1>5, <1>6, <1>7, <1>8, <1>9, <1>10, <1>11, <1>12, <1>13, <1>14, <1>15,
     <1>16, <1>17, <1>18, <1>19, <1>20 DEF KernelNext, KernelCall

-----------------------------------------------------------------------------
(* What the invariant implies. *)

LEMMA TimesOnce ==
  ASSUME NEW q, q \in Seq(Pids), One(q), NEW p
  PROVE  Times(q, p) = IF Contains(q, p) THEN 1 ELSE 0
<1>1. DOMAIN q = 1 .. Len(q)
  BY LenProperties
<1>2. PICK S : S = {i \in DOMAIN q : q[i] = p}
  OBVIOUS
<1>3. CASE Contains(q, p)
  <2>1. PICK i \in 1 .. Len(q) : q[i] = p
    BY <1>3 DEF Contains
  <2>2. S = {i}
    BY <1>1, <1>2, <2>1 DEF One
  <2> QED BY <1>2, <1>3, <2>2, FS_Singleton DEF Times
<1>4. CASE ~Contains(q, p)
  <2>1. S = {}
    BY <1>1, <1>2, <1>4 DEF Contains
  <2> QED BY <1>2, <1>4, <2>1, FS_EmptySet DEF Times
<1> QED BY <1>3, <1>4

LEMMA QueuesImplied ==
  ASSUME KInv
  PROVE  QueuesMatchStates
<1>1. /\ SemInv(k.st, sem) /\ TodoInv(k.st, todo, mbox) /\ Loose(k, {}) /\ k.cur \in Pids /\ k.st[k.cur] = "CURR"
      /\ k.rdy \in Seq(Pids) /\ k.slp \in Seq(Pids)
  <2>1. SchedInv(k, due, reprio) /\ SemInv(k.st, sem) /\ TodoInv(k.st, todo, mbox)
    BY KTypes
  <2>2. PICK s : s = k
    OBVIOUS
  <2>3. s \in Schedulers /\ Loose(s, {}) /\ s.cur \in Pids /\ s.st[s.cur] = "CURR"
    BY <2>1, <2>2, SchedTypes
  <2> QED BY <2>1, <2>2, <2>3 DEF Schedulers
<1>2. ASSUME NEW p \in Pids PROVE Times(k.rdy, p) = (IF k.st[p] = "READY" THEN 1 ELSE 0)
  <2>1. Times(k.rdy, p) = IF Contains(k.rdy, p) THEN 1 ELSE 0
    BY <1>1, TimesOnce DEF Loose
  <2> QED BY <1>1, <2>1 DEF Loose
<1>3. ASSUME NEW p \in Pids PROVE Times(k.slp, p) = (IF k.st[p] \in {"SLEEP", "RECTIM"} THEN 1 ELSE 0)
  <2>1. Times(k.slp, p) = IF Contains(k.slp, p) THEN 1 ELSE 0
    BY <1>1, TimesOnce DEF Loose
  <2> QED BY <1>1, <2>1 DEF Loose, Delayed
<1>4. ASSUME NEW p \in Pids PROVE (k.st[p] = "CURR") <=> (p = k.cur)
  BY <1>1 DEF Loose
<1>5. ASSUME NEW p \in Pids
      PROVE  Cardinality({x \in Sems : Times(sem[x].q, p) = 1}) = (IF k.st[p] = "WAIT" THEN 1 ELSE 0)
  <2>1. ASSUME NEW x \in Sems PROVE Times(sem[x].q, p) = 1 <=> Contains(sem[x].q, p)
    <3>1. PICK q \in Seq(Pids) : q = sem[x].q
      BY <1>1 DEF SemInv, SemRecs
    <3>2. One(q)
      BY <1>1, <3>1 DEF SemInv, Counted
    <3>3. Times(q, p) = IF Contains(q, p) THEN 1 ELSE 0
      BY <3>2, TimesOnce
    <3> QED BY <3>1, <3>3
  <2>2. PICK S : S = {x \in Sems : Times(sem[x].q, p) = 1}
    OBVIOUS
  <2>3. S = {x \in Sems : Contains(sem[x].q, p)}
    BY <2>1, <2>2
  <2>4. CASE k.st[p] = "WAIT"
    <3>1. PICK x \in Sems : Contains(sem[x].q, p)
      BY <1>1, <2>4 DEF SemInv
    <3>2. S = {x}
      BY <1>1, <2>3, <3>1 DEF SemInv
    <3> QED BY <2>2, <2>4, <3>2, FS_Singleton
  <2>5. CASE k.st[p] # "WAIT"
    <3>1. S = {}
      BY <1>1, <2>3, <2>5 DEF SemInv
    <3> QED BY <2>2, <2>5, <3>1, FS_EmptySet
  <2> QED BY <2>4, <2>5
<1>6. \A x \in Sems : Len(sem[x].q) = (IF sem[x].n < 0 THEN -sem[x].n ELSE 0)
  BY <1>1 DEF SemInv, Counted, Waiters
<1>7. \A p \in Pids : todo[p].op = "recv" /\ k.st[p] \in {"CURR", "READY", "SUSP"} => mbox[p]
  BY <1>1 DEF TodoInv
<1> QED BY <1>2, <1>3, <1>4, <1>5, <1>6, <1>7 DEF QueuesMatchStates

LEMMA HighestImplied ==
  ASSUME KInv
  PROVE  RunsHighest
BY DEF KInv, SchedInv, Highest, RunsHighest

LEMMA SleepImplied ==
  ASSUME KInv
  PROVE  SleepExact
<1>1. PICK s : s = k
  OBVIOUS
<1>2. PICK d : d = due
  OBVIOUS
<1>3. SchedInv(s, d, reprio) /\ s.slp \in Seq(Pids) /\ s.key \in [Pids -> Int]
  <2>1. SchedInv(s, d, reprio)
    BY <1>1, <1>2, KTypes
  <2> QED BY <2>1, SchedTypes
<1>4. PICK q \in Seq(Pids) : q = s.slp
  BY <1>3
<1>5. PICK key \in [Pids -> Int] : key = s.key
  BY <1>3
<1>6. Delta(q, key, d) /\ d \in [Pids -> Int]
  BY <1>3, <1>4, <1>5 DEF SchedInv
<1>7. Len(q) \in Nat /\ DOMAIN q = 1 .. Len(q)
  BY LenProperties
<1>8. ASSUME NEW i \in 1 .. Len(q) PROVE d[q[i]] = Sums(q, key, i)[i]
  <2>1. Differences(q, key, d, i)
    BY <1>6, <1>7 DEF Differences, Delta
  <2>2. Sums(q, key, i) = [j \in 0 .. i |-> IF j = 0 THEN 0 ELSE d[q[j]]]
    BY <2>1, SumOfKeys
  <2>3. i \in 0 .. i /\ i # 0
    BY <1>7
  <2> QED BY <2>2, <2>3
<1>9. \A i \in DOMAIN k.slp : due[k.slp[i]] = Sums(k.slp, k.key, i)[i]
  BY <1>1, <1>2, <1>4, <1>5, <1>7, <1>8
<1> QED BY <1>9 DEF SleepExact, Sums

LEMMA CountImplied ==
  ASSUME KInv
  PROVE  PrcountExact
BY DEF KInv, Counting, Alive, DyingIn, Dying, PrcountExact

LEMMA KernelInvariant ==
  KernelSpec => []KInv
<1>1. KernelInit => KInv
  BY KernelStart
<1>2. KInv /\ [KernelNext]_kernelVars => KInv'
  BY KernelStep
<1> QED BY <1>1, <1>2, PTL DEF KernelSpec

\* Whatever is called in whatever order, every process is on exactly the queues of its state,
\* the count of a semaphore is minus the number of its waiting processes, and a process
\* that wakes inside receive has a message (ready.c, insert.c, queue.c, wait.c, signal.c, kill.c).
THEOREM SchedulerQueues == KernelSpec => []QueuesMatchStates
<1>1. KInv => QueuesMatchStates
  BY QueuesImplied
<1> QED BY <1>1, KernelInvariant, PTL

\* Until chprio is called, no ready process has a higher priority than the current one
\* between two calls (resched.c:9), deferred rescheduling included.
THEOREM HighestRuns == KernelSpec => []RunsHighest
<1>1. KInv => RunsHighest
  BY HighestImplied
<1> QED BY <1>1, KernelInvariant, PTL

\* The keys of the delta list before and at a delayed process add up to the time it still
\* has to wait (insertd.c, unsleep.c, clkhandler.c, wakeup.c).
THEOREM SleepsExactly == KernelSpec => []SleepExact
<1>1. KInv => SleepExact
  BY SleepImplied
<1> QED BY <1>1, KernelInvariant, PTL

\* prcount counts the processes whose kill has not begun, as long as no kill met another
\* kill of the same process (create.c, kill.c:25).
THEOREM ProcessesCounted == KernelSpec => []PrcountExact
<1>1. KInv => PrcountExact
  BY CountImplied
<1> QED BY <1>1, KernelInvariant, PTL

=============================================================================
