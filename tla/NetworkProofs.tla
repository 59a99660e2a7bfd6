--------------------------- MODULE NetworkProofs ---------------------------
(***************************************************************************)
(* What the drivers and the protocols promise for every size of their       *)
(* tables.  The frames the upper halves, the interrupt handler and the      *)
(* device take out of the Ethernet rings, and the characters they take out  *)
(* of the queues of the console, are what was put in, once and in order,    *)
(* until a ring or a queue overruns; the ARP cache (arp.c) gives a process  *)
(* the address of its host, or a process that was sent another message      *)
(* what is there; the TFTP transfer (tftp.c) stores the file whole and in   *)
(* order; a read of the remote file system returns what the file held       *)
(* during the call; the remote disk's server does not go back while its     *)
(* count does not, and an exchange that ends well has done its job.         *)
(* Each part: its types, its invariant, one lemma per action, the theorem.  *)
(***************************************************************************)
EXTENDS Network, RdsComm, Rfs, FiniteSetTheorems, WellFoundedInduction, TLAPS

-----------------------------------------------------------------------------
(* Rings *)

\* The place i steps after place h of a ring of n places.
Step(h, i, n) == IF h + i < n THEN h + i ELSE h + i - n

\* It is the remainder that the code computes.
LEMMA StepMod ==
    ASSUME NEW n \in Nat \ {0}, NEW h \in 0..n - 1, NEW i \in 0..n
    PROVE  (h + i) % n = Step(h, i, n) /\ Step(h, i, n) \in 0..n - 1
BY DEF Step

\* Two places of a ring that are reached in fewer than n steps differ.
LEMMA StepOnce ==
    ASSUME NEW n \in Nat \ {0}, NEW h \in 0..n - 1, NEW i \in 0..n - 1, NEW j \in 0..n - 1,
           Step(h, i, n) = Step(h, j, n)
    PROVE  i = j
BY DEF Step

\* Every place is reached in fewer than n steps.
LEMMA StepTo ==
    ASSUME NEW n \in Nat \ {0}, NEW h \in 0..n - 1, NEW d \in 0..n - 1
    PROVE  \E i \in 0..n - 1 : d = Step(h, i, n)
<1>1. CASE d >= h
  <2>1. d - h \in 0..n - 1 /\ d = Step(h, d - h, n)
    BY <1>1 DEF Step
  <2> QED BY <2>1
<1>2. CASE d < h
  <2>1. d + n - h \in 0..n - 1 /\ d = Step(h, d + n - h, n)
    BY <1>2 DEF Step
  <2> QED BY <2>1
<1> QED BY <1>1, <1>2

\* Steps add up.
LEMMA StepStep ==
    ASSUME NEW n \in Nat \ {0}, NEW h \in 0..n - 1, NEW i \in 0..n, NEW j \in 0..n
    PROVE  /\ i + j <= n => Step(Step(h, i, n), j, n) = Step(h, i + j, n)
           /\ i + j >= n => Step(Step(h, i, n), j, n) = Step(h, i + j - n, n)
BY DEF Step

\* A nonempty set of naturals up to m has a largest element.
LEMMA GreatestIn ==
    ASSUME NEW m \in Nat, NEW S \in SUBSET (0..m), S # {}
    PROVE  Max(S) \in S
<1> DEFINE R == {ss \in Nat \X Nat : ss[1] < ss[2]}
           T == {m - x : x \in S}
<1>1. IsWellFoundedOn(R, Nat)
  BY NatLessThanWellFounded, Zenon DEF OpToRel
<1>2. T \in SUBSET Nat /\ T # {}
  <2>1. \A x \in S : m - x \in Nat
    OBVIOUS
  <2>2. PICK x : x \in S
    OBVIOUS
  <2>3. m - x \in T
    BY <2>2
  <2> QED BY <2>1, <2>3
<1>3. PICK t \in T : \A u \in T : ~(<<u, t>> \in R)
  <2> HIDE DEF R, T
  <2> QED BY <1>1, <1>2, WFMin
<1>4. PICK x \in S : t = m - x
  BY <1>3
<1>5. ASSUME NEW y \in S PROVE x >= y
  <2> PICK u \in T : u = m - y
    OBVIOUS
  <2>1. u \in Nat /\ t \in Nat /\ <<u, t>> \in Nat \X Nat
    BY <1>2
  <2>2. u < t => <<u, t>>[1] < <<u, t>>[2]
    BY <2>1
  <2>3. u < t => <<u, t>> \in R
    BY <2>1, <2>2, Zenon
  <2>4. ~(u < t)
    BY <1>3, <2>3
  <2> QED BY <1>4, <2>1, <2>4
<1> QED BY <1>5 DEF Max

\* The first k places after h are k places.
LEMMA StepCount ==
    ASSUME NEW n \in Nat \ {0}, NEW h \in 0..n - 1, NEW k \in 0..n, NEW S \in SUBSET (0..n - 1),
           \A i \in 0..n - 1 : Step(h, i, n) \in S <=> i < k
    PROVE  Cardinality(S) = k
<1> DEFINE f == [x \in 1..k |-> Step(h, x - 1, n)]
<1>1. \A x \in 1..k : x - 1 \in 0..n - 1 /\ x - 1 < k
  OBVIOUS
<1>2. f \in [1..k -> S]
  BY <1>1
<1>3. \A x, y \in 1..k : f[x] = f[y] => x = y
  <2> SUFFICES ASSUME NEW x \in 1..k, NEW y \in 1..k, f[x] = f[y] PROVE x = y
    OBVIOUS
  <2>1. x - 1 = y - 1
    BY <1>1, StepOnce
  <2> QED BY <2>1
<1>4. \A d \in S : \E x \in 1..k : f[x] = d
  <2> SUFFICES ASSUME NEW d \in S PROVE \E x \in 1..k : f[x] = d
    OBVIOUS
  <2>1. PICK i \in 0..n - 1 : d = Step(h, i, n)
    BY StepTo
  <2>2. i + 1 \in 1..k /\ (i + 1) - 1 = i
    BY <2>1
  <2> QED BY <2>1, <2>2
<1>5. ExistsBijection(1..k, S)
  <2>1. f \in Bijection(1..k, S)
    <3> HIDE DEF f
    <3> QED BY <1>2, <1>3, <1>4 DEF Bijection, Injection, Surjection, IsInjective
  <2> QED BY <2>1 DEF ExistsBijection
<1>6. k \in Nat
  OBVIOUS
<1> QED BY <1>5, <1>6, FS_CountingElements

-----------------------------------------------------------------------------
(* The transmit ring *)

USE EthAssumption

TxDescs == [own : BOOLEAN, frame : Nat]
TxUsed == TxRingSize - txsem                \* written and not freed by the handler
TxWaiting == frames - txDma.last            \* of these, not sent
TxSent == TxUsed - TxWaiting                \* and sent

\* From the head on: descriptors that the device has sent, descriptors that it has yet to
\* send, in the order of their frames, and free ones.
TxPlace(i) == txRing[Step(txHead, i, TxRingSize)]
TxInv ==
    /\ txRing \in [0..TxRingSize - 1 -> TxDescs] /\ txDma \in [next : 0..TxRingSize - 1, last : Nat]
    /\ txHead \in 0..TxRingSize - 1 /\ txsem \in 0..TxRingSize
    /\ frames \in Nat /\ 0 <= TxWaiting /\ 0 <= TxSent
    /\ txTail = Step(txHead, TxUsed, TxRingSize)
    /\ txDma.next = Step(txHead, TxSent, TxRingSize)
    /\ \A i \in 0..TxRingSize - 1 : TxPlace(i).own <=> TxSent <= i /\ i < TxUsed
    /\ \A i \in 0..TxRingSize - 1 : TxSent <= i /\ i < TxUsed => TxPlace(i).frame = txDma.last + 1 + i - TxSent

\* The sizes of the ring and of its parts.
LEMMA TxTypes ==
    ASSUME TxInv
    PROVE  /\ TxRingSize \in Nat \ {0} /\ txHead \in 0..TxRingSize - 1 /\ txsem \in 0..TxRingSize
           /\ frames \in Nat /\ txDma.last \in Nat /\ txDma.next \in 0..TxRingSize - 1
           /\ TxUsed \in 0..TxRingSize /\ TxWaiting \in Nat /\ TxSent \in 0..TxRingSize /\ TxSent <= TxUsed
           /\ TxUsed = TxRingSize - txsem /\ TxWaiting = frames - txDma.last /\ TxWaiting = TxUsed - TxSent
<1>1. TxRingSize \in Nat \ {0}
  BY DEF EthAssumption
<1>2. /\ txHead \in 0..TxRingSize - 1 /\ txsem \in 0..TxRingSize
      /\ frames \in Nat /\ 0 <= TxWaiting /\ 0 <= TxSent /\ txDma \in [next : 0..TxRingSize - 1, last : Nat]
  BY DEF TxInv
<1>3. txDma.last \in Nat /\ txDma.next \in 0..TxRingSize - 1
  BY <1>2
<1>4. TxUsed \in 0..TxRingSize /\ TxUsed = TxRingSize - txsem
  BY <1>1, <1>2 DEF TxUsed
<1>5. TxWaiting \in Nat /\ TxWaiting = frames - txDma.last
  BY <1>2, <1>3 DEF TxWaiting
<1>6. TxSent = TxUsed - TxWaiting
  BY DEF TxSent
<1> QED BY <1>1, <1>2, <1>3, <1>4, <1>5, <1>6

\* ethwrite fills the first free descriptor, which the device does not own.
LEMMA WriteInv ==
    ASSUME TxInv, ethwrite PROVE TxInv'
<1> DEFINE n == TxRingSize
           u == TxUsed
           d == [own |-> TRUE, frame |-> frames + 1]
<1>1. /\ n \in Nat \ {0} /\ txHead \in 0..n - 1 /\ txsem \in 1..n /\ frames \in Nat /\ txDma.last \in Nat
      /\ u \in 0..n - 1 /\ u \in 0..n /\ TxWaiting \in Nat /\ TxSent \in Nat /\ TxSent <= u
  BY TxTypes DEF ethwrite
<1>2. /\ txHead' = txHead /\ txDma' = txDma /\ frames' = frames + 1 /\ txsem' = txsem - 1
      /\ txRing' = [txRing EXCEPT ![txTail] = d] /\ txTail' = (txTail + 1) % n
      /\ txTail = Step(txHead, u, n) /\ txTail \in 0..n - 1
  BY <1>1, StepMod DEF ethwrite, TxInv
<1>3. TxUsed' = u + 1 /\ TxWaiting' = TxWaiting + 1 /\ TxSent' = TxSent
  BY <1>1, <1>2 DEF TxUsed, TxWaiting, TxSent
<1>4. txTail' = Step(txHead, u + 1, n)
  <2>1. 1 \in 0..n /\ u + 1 <= n
    BY <1>1
  <2> QED BY <1>1, <1>2, <2>1, StepMod, StepStep
<1>5. d \in TxDescs /\ d.own /\ d.frame = frames + 1
  BY <1>1 DEF TxDescs
<1> HIDE DEF d
<1>6. /\ txRing' \in [0..n - 1 -> TxDescs] /\ txRing'[txTail] = d
      /\ \A x \in 0..n - 1 : x # txTail => txRing'[x] = txRing[x]
  BY <1>2, <1>5 DEF TxInv
<1>7. ASSUME NEW i \in 0..n - 1
      PROVE  IF i = u THEN TxPlace(i)' = d ELSE TxPlace(i)' = TxPlace(i)
  <2>1. i \in 0..n /\ Step(txHead, i, n) \in 0..n - 1
    BY <1>1, StepMod
  <2>2. i # u => Step(txHead, i, n) # txTail
    BY <1>1, <1>2, StepOnce
  <2> QED BY <1>2, <1>6, <2>1, <2>2 DEF TxPlace
<1>8. ASSUME NEW i \in 0..n - 1
      PROVE  /\ TxPlace(i)'.own <=> TxSent <= i /\ i < u + 1
             /\ TxSent <= i /\ i < u + 1 => TxPlace(i)'.frame = txDma.last + 1 + i - TxSent
  <2>1. /\ TxPlace(i).own <=> TxSent <= i /\ i < u
        /\ TxSent <= i /\ i < u => TxPlace(i).frame = txDma.last + 1 + i - TxSent
    BY DEF TxInv
  <2>2. CASE i = u
    <3>1. frames + 1 = txDma.last + 1 + i - TxSent
      BY <1>1, <2>2 DEF TxSent, TxWaiting
    <3> QED BY <1>1, <1>5, <1>7, <2>2, <3>1
  <2>3. CASE i # u
    BY <1>1, <1>7, <2>1, <2>3
  <2> QED BY <2>2, <2>3
<1>9. txDma.next = Step(txHead, TxSent, n) /\ txDma \in [next : 0..n - 1, last : Nat]
  BY DEF TxInv
<1>10. /\ txsem' \in 0..n /\ frames' \in Nat /\ 0 <= TxWaiting' /\ 0 <= TxSent'
       /\ txTail' = Step(txHead', TxUsed', n) /\ txDma'.next = Step(txHead', TxSent', n)
  BY <1>1, <1>2, <1>3, <1>4, <1>9
<1>11. \A i \in 0..n - 1 : /\ TxPlace(i)'.own <=> TxSent' <= i /\ i < TxUsed'
                           /\ TxSent' <= i /\ i < TxUsed' => TxPlace(i)'.frame = txDma'.last + 1 + i - TxSent'
  BY <1>2, <1>3, <1>8
<1> QED BY <1>1, <1>2, <1>6, <1>9, <1>10, <1>11 DEF TxInv

\* The device sends the frame after the last one it sent.
LEMMA TransmitInv ==
    ASSUME TxInv, DmaTransmit PROVE TxInv'
<1> DEFINE n == TxRingSize
           u == TxUsed
           s == TxSent
<1>1. /\ n \in Nat \ {0} /\ txHead \in 0..n - 1 /\ txsem \in 0..n /\ frames \in Nat /\ txDma.last \in Nat
      /\ u \in 0..n /\ TxWaiting \in Nat /\ s \in Nat /\ s <= u /\ txDma.next \in 0..n - 1 /\ s \in 0..n
  BY TxTypes
<1>2. /\ txRing[txDma.next].own /\ txRing' = [txRing EXCEPT ![txDma.next].own = FALSE]
      /\ txDma' = [next |-> (txDma.next + 1) % n, last |-> txRing[txDma.next].frame]
      /\ UNCHANGED <<txHead, txTail, txsem, frames>>
      /\ txDma.next = Step(txHead, s, n)
      /\ txRing \in [0..n - 1 -> TxDescs] /\ txTail = Step(txHead, u, n)
  BY DEF DmaTransmit, TxInv
<1>3. s < u
  <2>1. CASE s = n
    <3>1. 0 \in 0..n - 1 /\ Step(txHead, s, n) = Step(txHead, 0, n)
      BY <1>1, <2>1 DEF Step
    <3>2. TxPlace(0).own
      BY <1>2, <3>1 DEF TxPlace
    <3>3. TxSent <= 0
      BY <3>1, <3>2 DEF TxInv
    <3> QED BY <1>1, <2>1, <3>3
  <2>2. CASE s # n
    <3>1. s \in 0..n - 1 /\ TxPlace(s).own
      BY <1>1, <1>2, <2>2 DEF TxPlace
    <3> QED BY <3>1 DEF TxInv
  <2> QED BY <2>1, <2>2
<1>4. s \in 0..n - 1 /\ TxPlace(s).frame = txDma.last + 1
  <2>1. s \in 0..n - 1
    BY <1>1, <1>3
  <2>2. TxPlace(s).frame = txDma.last + 1 + s - TxSent
    BY <1>1, <1>3, <2>1 DEF TxInv
  <2> QED BY <1>1, <2>1, <2>2
<1>5. txDma'.next = Step(txHead, s + 1, n) /\ txDma'.last = txDma.last + 1 /\ txDma' \in [next : 0..n - 1, last : Nat]
  <2>1. 1 \in 0..n /\ s + 1 <= n /\ s + 1 \in 0..n
    BY <1>1, <1>3
  <2>2. (txDma.next + 1) % n = Step(txHead, s + 1, n) /\ Step(txHead, s + 1, n) \in 0..n - 1
    <3>1. Step(Step(txHead, s, n), 1, n) = Step(txHead, s + 1, n)
      BY <1>1, <2>1, StepStep
    <3> QED BY <1>1, <1>2, <2>1, <3>1, StepMod
  <2>3. txRing[txDma.next].frame = txDma.last + 1
    BY <1>2, <1>4 DEF TxPlace
  <2> PICK x \in 0..n - 1 : x = (txDma.next + 1) % n
    BY <2>2
  <2> PICK y \in Nat : y = txDma.last + 1
    BY <1>1
  <2>4. txDma' = [next |-> x, last |-> y]
    BY <1>2, <2>3
  <2> QED BY <2>2, <2>4
<1>6. TxUsed' = u /\ TxWaiting' = TxWaiting - 1 /\ TxSent' = s + 1 /\ TxWaiting >= 1
  <2>1. TxUsed' = u /\ TxWaiting' = TxWaiting - 1
    <3>1. txsem' = txsem /\ frames' = frames /\ txDma'.last = txDma.last + 1
      BY <1>2, <1>5
    <3> QED BY <1>1, <3>1 DEF TxUsed, TxWaiting
  <2>2. TxSent' = TxUsed' - TxWaiting' /\ s = u - TxWaiting
    BY DEF TxSent
  <2> QED BY <1>1, <1>3, <2>1, <2>2
<1>7. /\ txRing' \in [0..n - 1 -> TxDescs] /\ ~txRing'[txDma.next].own
      /\ \A x \in 0..n - 1 : txRing'[x].frame = txRing[x].frame
      /\ \A x \in 0..n - 1 : x # txDma.next => txRing'[x] = txRing[x]
  BY <1>1, <1>2 DEF TxDescs
<1>8. ASSUME NEW i \in 0..n - 1
      PROVE  /\ TxPlace(i)'.own <=> s + 1 <= i /\ i < u
             /\ s + 1 <= i /\ i < u => TxPlace(i)'.frame = (txDma.last + 1) + 1 + i - (s + 1)
  <2>1. /\ TxPlace(i).own <=> TxSent <= i /\ i < u
        /\ TxSent <= i /\ i < u => TxPlace(i).frame = txDma.last + 1 + i - TxSent
    BY DEF TxInv
  <2>2. i \in 0..n /\ Step(txHead, i, n) \in 0..n - 1
    BY <1>1, StepMod
  <2>3. i # s => Step(txHead, i, n) # txDma.next
    BY <1>1, <1>2, <1>4, StepOnce
  <2>4. CASE i = s
    BY <1>1, <1>2, <1>7, <2>2, <2>4 DEF TxPlace
  <2>5. CASE i # s
    <3>1. TxPlace(i)' = TxPlace(i)
      BY <1>2, <1>7, <2>2, <2>3, <2>5 DEF TxPlace
    <3> QED BY <1>1, <2>1, <2>5, <3>1
  <2> QED BY <2>4, <2>5
<1>9. /\ 0 <= TxWaiting' /\ 0 <= TxSent'
      /\ txTail' = Step(txHead', TxUsed', n) /\ txDma'.next = Step(txHead', TxSent', n)
  <2>1. txTail' = Step(txHead, u, n) /\ txHead' = txHead
    BY <1>2
  <2> QED BY <1>1, <1>5, <1>6, <2>1
<1>10. \A i \in 0..n - 1 : /\ TxPlace(i)'.own <=> TxSent' <= i /\ i < TxUsed'
                           /\ TxSent' <= i /\ i < TxUsed' => TxPlace(i)'.frame = txDma'.last + 1 + i - TxSent'
  BY <1>5, <1>6, <1>8
<1> QED BY <1>1, <1>2, <1>5, <1>7, <1>9, <1>10 DEF TxInv

\* The handler frees descriptors that the device has sent, and no others.
LEMMA HandlerTxInv ==
    ASSUME TxInv, ethhandlerTx PROVE TxInv'
<1> DEFINE n == TxRingSize
           u == TxUsed
           s == TxSent
<1>1. /\ n \in Nat \ {0} /\ txHead \in 0..n - 1 /\ txsem \in 0..n /\ frames \in Nat /\ txDma.last \in Nat
      /\ u \in 0..n /\ TxWaiting \in Nat /\ s \in 0..n /\ s <= u /\ u = n - txsem /\ TxWaiting = u - s
  BY TxTypes
<1>2. Max(TxReaped) \in TxReaped
  <2>1. TxReaped \in SUBSET (0..n - 1) /\ 0 \in TxReaped
    BY <1>1 DEF TxReaped
  <2>2. n - 1 \in Nat
    BY <1>1
  <2> QED BY <2>1, <2>2, GreatestIn
<1> PICK m \in 0..n - 1 : m = Max(TxReaped)
  BY <1>2 DEF TxReaped
<1>3. ASSUME NEW i \in 0..n - 1, i < m
      PROVE  Step(txHead, i, n) # txTail /\ ~TxPlace(i).own
  <2>1. (txHead + i) % n = Step(txHead, i, n)
    BY <1>1, StepMod
  <2>2. i \in 0..m - 1
    BY <1>3
  <2> QED BY <1>2, <2>1, <2>2 DEF TxReaped, TxPlace
<1>4. m <= s
  <2> SUFFICES ASSUME s < m PROVE FALSE
    BY <1>1
  <2>1. s \in 0..n - 1
    BY <1>1
  <2>2. CASE s = u
    BY <1>3, <2>1, <2>2 DEF TxInv
  <2>3. CASE s < u
    <3>1. TxPlace(s).own
      BY <1>1, <2>1, <2>3 DEF TxInv
    <3> QED BY <1>3, <2>1, <3>1
  <2> QED BY <1>1, <2>2, <2>3
<1>5. /\ txHead' = Step(txHead, m, n) /\ txHead' \in 0..n - 1 /\ txsem' = txsem + m
      /\ txRing' = txRing /\ txTail' = txTail /\ txDma' = txDma /\ frames' = frames
  <2>1. m \in 0..n
    BY <1>1
  <2> QED BY <1>1, <2>1, StepMod DEF ethhandlerTx
<1>6. TxUsed' = u - m /\ TxWaiting' = TxWaiting /\ TxSent' = s - m
  <2>1. TxUsed' = u - m /\ TxWaiting' = TxWaiting
    BY <1>1, <1>5 DEF TxUsed, TxWaiting
  <2>2. TxSent' = TxUsed' - TxWaiting'
    BY DEF TxSent
  <2> QED BY <1>1, <2>1, <2>2
<1>7. \A i \in 0..n : /\ i + m <= n => Step(txHead', i, n) = Step(txHead, i + m, n)
                      /\ i + m >= n => Step(txHead', i, n) = Step(txHead, i + m - n, n)
  <2> TAKE i \in 0..n
  <2>1. m \in 0..n
    BY <1>1
  <2>2. /\ m + i <= n => Step(Step(txHead, m, n), i, n) = Step(txHead, m + i, n)
        /\ m + i >= n => Step(Step(txHead, m, n), i, n) = Step(txHead, m + i - n, n)
    BY <1>1, <2>1, StepStep
  <2>3. m + i = i + m
    BY <1>1
  <2> QED BY <1>5, <2>2, <2>3
<1>8. txTail' = Step(txHead', u - m, n) /\ txDma'.next = Step(txHead', s - m, n)
  <2>1. /\ u - m \in 0..n /\ (u - m) + m = u /\ s - m \in 0..n /\ (s - m) + m = s
    BY <1>1, <1>4
  <2>2. Step(txHead', u - m, n) = Step(txHead, u, n) /\ Step(txHead', s - m, n) = Step(txHead, s, n)
    BY <1>1, <1>7, <2>1
  <2> QED BY <1>5, <2>2 DEF TxInv
<1>9. ASSUME NEW i \in 0..n - 1
      PROVE  /\ TxPlace(i)'.own <=> s - m <= i /\ i < u - m
             /\ s - m <= i /\ i < u - m => TxPlace(i)'.frame = txDma.last + 1 + i - (s - m)
  <2>1. CASE i + m < n
    <3> PICK j \in 0..n - 1 : j = i + m
      BY <1>1, <2>1
    <3>1. TxPlace(i)' = TxPlace(j)
      BY <1>1, <1>5, <1>7, <2>1 DEF TxPlace
    <3>2. /\ TxPlace(j).own <=> s <= j /\ j < u
          /\ s <= j /\ j < u => TxPlace(j).frame = txDma.last + 1 + j - s
      BY DEF TxInv
    <3> QED BY <1>1, <3>1, <3>2
  <2>2. CASE i + m >= n
    <3> PICK j \in 0..n - 1 : j = i + m - n
      BY <1>1, <2>2
    <3>1. TxPlace(i)' = TxPlace(j) /\ j < s
      BY <1>1, <1>4, <1>5, <1>7, <2>2 DEF TxPlace
    <3>2. ~TxPlace(j).own
      BY <1>1, <3>1, SMTT(30) DEF TxInv
    <3> QED BY <1>1, <1>4, <2>2, <3>1, <3>2
  <2> QED BY <1>1, <2>1, <2>2
<1>10. /\ txsem' \in 0..n /\ 0 <= TxWaiting' /\ 0 <= TxSent'
       /\ txTail' = Step(txHead', TxUsed', n) /\ txDma'.next = Step(txHead', TxSent', n)
  BY <1>1, <1>4, <1>5, <1>6, <1>8
<1>11. \A i \in 0..n - 1 : /\ TxPlace(i)'.own <=> TxSent' <= i /\ i < TxUsed'
                           /\ TxSent' <= i /\ i < TxUsed' => TxPlace(i)'.frame = txDma'.last + 1 + i - TxSent'
  BY <1>5, <1>6, <1>9
<1>12. /\ txRing' \in [0..n - 1 -> TxDescs] /\ txDma' \in [next : 0..n - 1, last : Nat] /\ frames' \in Nat
  BY <1>1, <1>5 DEF TxInv
<1> QED BY <1>5, <1>10, <1>11, <1>12 DEF TxInv

\* The receive half and the multicast addresses leave the ring alone.
LEMMA TxSame ==
    ASSUME TxInv, UNCHANGED txVars PROVE TxInv'
BY DEF TxInv, txVars, TxUsed, TxWaiting, TxSent, TxPlace

\* What the invariant says of the descriptors that the device owns.
LEMMA TxInOrder ==
    ASSUME TxInv
    PROVE  LET waiting == {i \in DOMAIN txRing : txRing[i].own}
           IN  /\ {txRing[i].frame : i \in waiting} = txDma.last + 1..frames
               /\ Cardinality(waiting) = frames - txDma.last
               /\ txsem <= TxRingSize - Cardinality(waiting)
<1> DEFINE n == TxRingSize
           u == TxUsed
           s == TxSent
           w == TxWaiting
           waiting == {i \in DOMAIN txRing : txRing[i].own}
<1>1. /\ n \in Nat \ {0} /\ txHead \in 0..n - 1 /\ txsem \in 0..n /\ frames \in Nat /\ txDma.last \in Nat
      /\ u \in 0..n /\ w \in Nat /\ s \in 0..n /\ s <= u /\ u = n - txsem /\ w = u - s
      /\ txDma.next \in 0..n - 1 /\ w = frames - txDma.last
  BY TxTypes
<1>2. DOMAIN txRing = 0..n - 1 /\ txDma.next = Step(txHead, s, n)
  BY DEF TxInv
<1>3. \A i \in 0..n - 1 : /\ TxPlace(i).own <=> s <= i /\ i < u
                          /\ s <= i /\ i < u => TxPlace(i).frame = txDma.last + 1 + i - s
  BY DEF TxInv
<1>4. ASSUME NEW i \in 0..n - 1
      PROVE  Step(txDma.next, i, n) \in waiting <=> i < w
  <2>1. i \in 0..n /\ Step(txDma.next, i, n) \in 0..n - 1
    BY <1>1, StepMod
  <2>2. CASE s + i < n
    <3> PICK j \in 0..n - 1 : j = s + i
      BY <1>1, <2>2
    <3>1. Step(txDma.next, i, n) = Step(txHead, j, n)
      BY <1>1, <1>2, <2>1, <2>2, StepStep
    <3>2. Step(txDma.next, i, n) \in waiting <=> TxPlace(j).own
      BY <1>2, <2>1, <3>1 DEF TxPlace
    <3> QED BY <1>1, <1>3, <3>2
  <2>3. CASE s + i >= n
    <3> PICK j \in 0..n - 1 : j = s + i - n
      BY <1>1, <2>3
    <3>1. Step(txDma.next, i, n) = Step(txHead, j, n)
      BY <1>1, <1>2, <2>1, <2>3, StepStep
    <3>2. Step(txDma.next, i, n) \in waiting <=> TxPlace(j).own
      BY <1>2, <2>1, <3>1 DEF TxPlace
    <3>3. j < s
      BY <1>1
    <3> QED BY <1>1, <1>3, <2>3, <3>2, <3>3
  <2> QED BY <1>1, <2>2, <2>3
<1>5. Cardinality(waiting) = w
  <2>1. waiting \in SUBSET (0..n - 1) /\ w \in 0..n
    BY <1>1, <1>2
  <2> HIDE DEF waiting
  <2> QED BY <1>1, <1>4, <2>1, StepCount
<1>6. ASSUME NEW d \in waiting PROVE txRing[d].frame \in txDma.last + 1..frames
  <2>1. PICK i \in 0..n - 1 : d = Step(txHead, i, n)
    BY <1>1, <1>2, StepTo
  <2>2. s <= i /\ i < u /\ txRing[d].frame = txDma.last + 1 + i - s
    BY <1>3, <2>1 DEF TxPlace
  <2> QED BY <1>1, <2>2
<1>7. ASSUME NEW f \in txDma.last + 1..frames PROVE \E d \in waiting : txRing[d].frame = f
  <2> PICK i \in 0..n - 1 : i = s + (f - txDma.last - 1)
    BY <1>1
  <2>1. s <= i /\ i < u /\ txDma.last + 1 + i - s = f
    BY <1>1
  <2>2. TxPlace(i).own /\ TxPlace(i).frame = f
    BY <1>3, <2>1
  <2>3. i \in 0..n
    OBVIOUS
  <2>4. Step(txHead, i, n) \in 0..n - 1
    BY <1>1, <2>3, StepMod
  <2> QED BY <1>2, <2>2, <2>4 DEF TxPlace
<1>8. {txRing[i].frame : i \in waiting} = txDma.last + 1..frames
  BY <1>6, <1>7
<1> HIDE DEF waiting
<1>9. Cardinality(waiting) = frames - txDma.last /\ txsem <= n - Cardinality(waiting)
  BY <1>1, <1>5
<1> QED BY <1>8, <1>9 DEF waiting

-----------------------------------------------------------------------------
(* The receive ring *)

RxDescs == [own : BOOLEAN, frame : Nat, dst : {"us", "other"} \cup Groups]
RxPlace(i) == rxRing[Step(rxHead, i, RxRingSize)]

\* The frames that ethread has returned, all of them before the unread ones.
ReadUpTo(m) ==
    /\ read \in Seq(Nat)
    /\ \A i \in DOMAIN read : read[i] <= m
    /\ \A i, j \in DOMAIN read : i < j => read[i] < read[j]

\* From the head on: k frames that were not read, of which the semaphore counts the first,
\* and then descriptors of the device.
RxShape(k) ==
    /\ rxRing \in [0..RxRingSize - 1 -> RxDescs] /\ rxDma \in [next : 0..RxRingSize - 1, last : Nat]
    /\ rxHead \in 0..RxRingSize - 1 /\ rxsem \in 0..k /\ k <= rxDma.last
    /\ rxTail = Step(rxHead, rxsem, RxRingSize)
    /\ rxDma.next = Step(rxHead, k, RxRingSize)
    /\ \A i \in 0..RxRingSize - 1 : ~RxPlace(i).own <=> i < k
    /\ \A i \in 0..RxRingSize - 1 : i < k => RxPlace(i).frame = rxDma.last - k + 1 + i
    /\ ReadUpTo(rxDma.last - k)
RxOrdered == \E k \in 0..RxRingSize : RxShape(k)
RxInv == full \in BOOLEAN /\ (~full => RxOrdered)

\* The sizes of the ring and of its parts, and the number of frames not read.
LEMMA RxTypes ==
    ASSUME NEW k \in 0..RxRingSize, RxShape(k)
    PROVE  /\ RxRingSize \in Nat \ {0} /\ rxHead \in 0..RxRingSize - 1
           /\ rxDma.last \in Nat /\ rxDma.next \in 0..RxRingSize - 1 /\ rxsem <= k
           /\ k <= rxDma.last /\ rxsem \in 0..RxRingSize
           /\ Unread = k
<1>1. RxRingSize \in Nat \ {0}
  BY DEF EthAssumption
<1>3. rxDma \in [next : 0..RxRingSize - 1, last : Nat] /\ rxHead \in 0..RxRingSize - 1 /\ rxsem \in 0..k /\ k <= rxDma.last
  BY DEF RxShape
<1>4. rxDma.last \in Nat /\ rxDma.next \in 0..RxRingSize - 1
  BY <1>3
<1>5. rxsem \in 0..RxRingSize /\ rxsem <= k
  BY <1>1, <1>3
<1>6. Unread = k
  <2> DEFINE S == {i \in DOMAIN rxRing : ~rxRing[i].own}
  <2>1. DOMAIN rxRing = 0..RxRingSize - 1
    BY DEF RxShape
  <2>2. S \in SUBSET (0..RxRingSize - 1)
    BY <2>1
  <2>3. ASSUME NEW i \in 0..RxRingSize - 1 PROVE Step(rxHead, i, RxRingSize) \in S <=> i < k
    <3>3. i \in 0..RxRingSize
      BY <1>1
    <3>1. Step(rxHead, i, RxRingSize) \in 0..RxRingSize - 1
      BY <1>1, <1>3, <3>3, StepMod
    <3>2. ~RxPlace(i).own <=> i < k
      BY DEF RxShape
    <3> QED BY <2>1, <3>1, <3>2 DEF RxPlace
  <2> HIDE DEF S
  <2>4. Cardinality(S) = k
    BY <1>1, <1>3, <2>2, <2>3, StepCount
  <2> QED BY <2>4 DEF S, Unread
<1> QED BY <1>1, <1>3, <1>4, <1>5, <1>6

\* A frame goes into the first descriptor of the device.
LEMMA ReceiveInv ==
    ASSUME RxOrdered, NEW dst \in {"us", "other"} \cup Groups, DmaReceive(dst)
    PROVE  RxOrdered'
<1> PICK k \in 0..RxRingSize : RxShape(k)
  BY DEF RxOrdered
<1> DEFINE n == RxRingSize
<1>0. /\ n \in Nat \ {0} /\ k \in 0..n /\ rxHead \in 0..n - 1
      /\ rxDma.last \in Nat /\ rxDma.next \in 0..n - 1 /\ rxsem \in 0..n /\ rxsem <= k
      /\ k <= rxDma.last
  BY RxTypes
<1>1. /\ n \in Nat \ {0} /\ k \in 0..n - 1 /\ k \in 0..n /\ rxHead \in 0..n - 1
      /\ rxDma.last \in Nat /\ rxDma.next \in 0..n - 1 /\ rxsem \in 0..n /\ rxsem <= k
      /\ k <= rxDma.last
  <2> SUFFICES ASSUME k = n PROVE FALSE
    BY <1>0
  <2>1. Step(rxHead, 0, n) = rxHead /\ Step(rxHead, n, n) = rxHead
    BY <1>0 DEF Step
  <2>2. 0 \in 0..n - 1 /\ 0 < n
    BY <1>0
  <2>3. ~RxPlace(0).own
    BY <2>2 DEF RxShape
  <2>4. rxDma.next = rxHead
    BY <2>1 DEF RxShape
  <2> QED BY <2>1, <2>3, <2>4 DEF RxPlace, DmaReceive
<1> PICK f \in Nat : f = rxDma.last + 1
  BY <1>1
<1> PICK m \in 0..RxRingSize : m = k + 1
  BY <1>1
<1>2. /\ UNCHANGED <<rxHead, rxTail, rxsem, read>>
      /\ rxRing' = [rxRing EXCEPT ![rxDma.next] = [own |-> FALSE, frame |-> f, dst |-> dst]]
      /\ rxDma' = [next |-> (rxDma.next + 1) % n, last |-> f]
  BY DEF DmaReceive
<1>3. /\ rxRing \in [0..n - 1 -> RxDescs] /\ rxDma.next = Step(rxHead, k, n) /\ rxTail = Step(rxHead, rxsem, n)
      /\ rxsem \in 0..k /\ ReadUpTo(rxDma.last - k)
  BY DEF RxShape
<1>4. m \in 0..n /\ Step(rxHead, m, n) \in 0..n - 1 /\ (rxDma.next + 1) % n = Step(rxHead, m, n)
  <2>1. m \in 0..n /\ 1 \in 0..n /\ k + 1 <= n
    BY <1>1
  <2>2. Step(rxHead, m, n) \in 0..n - 1 /\ (rxDma.next + 1) % n = Step(rxDma.next, 1, n)
    BY <1>1, <2>1, StepMod
  <2>3. Step(Step(rxHead, k, n), 1, n) = Step(rxHead, k + 1, n)
    BY <1>1, <2>1, StepStep
  <2> QED BY <1>3, <2>1, <2>2, <2>3
<1>5. rxDma' \in [next : 0..n - 1, last : Nat] /\ rxDma'.next = Step(rxHead, m, n) /\ rxDma'.last = f
  <2> PICK x \in 0..n - 1 : x = (rxDma.next + 1) % n
    BY <1>4
  <2>1. rxDma' = [next |-> x, last |-> f]
    BY <1>2
  <2> QED BY <1>4, <2>1
<1> DEFINE d == [own |-> FALSE, frame |-> f, dst |-> dst]
<1>6. d \in RxDescs /\ ~d.own /\ d.frame = f
  BY DEF RxDescs
<1>7. rxRing' = [rxRing EXCEPT ![rxDma.next] = d]
  BY <1>2
<1> HIDE DEF d
<1>8. /\ rxRing' \in [0..n - 1 -> RxDescs] /\ rxRing'[rxDma.next] = d
      /\ \A x \in 0..n - 1 : x # rxDma.next => rxRing'[x] = rxRing[x]
  BY <1>1, <1>3, <1>6, <1>7
<1>9. ASSUME NEW i \in 0..n - 1
      PROVE  (~RxPlace(i)'.own <=> i < m) /\ (i < m => RxPlace(i)'.frame = f - m + 1 + i)
  <2>1. i \in 0..n
    OBVIOUS
  <2>2. Step(rxHead, i, n) \in 0..n - 1 /\ rxHead' = rxHead
    BY <1>1, <1>2, <2>1, StepMod
  <2>3. CASE i = k
    <3>1. RxPlace(i)' = d
      BY <1>3, <1>8, <2>2, <2>3 DEF RxPlace
    <3> QED BY <1>1, <1>6, <2>3, <3>1
  <2>4. CASE i # k
    <3>1. Step(rxHead, i, n) # rxDma.next
      BY <1>1, <1>3, <2>4, StepOnce
    <3>2. RxPlace(i)' = RxPlace(i)
      BY <1>8, <2>2, <3>1 DEF RxPlace
    <3>3. (~RxPlace(i).own <=> i < k) /\ (i < k => RxPlace(i).frame = rxDma.last - k + 1 + i)
      BY DEF RxShape
    <3> QED BY <1>1, <2>4, <3>2, <3>3
  <2> QED BY <2>3, <2>4
<1>10. rxsem' \in 0..m /\ m <= rxDma'.last /\ rxTail' = Step(rxHead', rxsem', n) /\ rxHead' = rxHead
  <2>1. rxsem' = rxsem /\ rxHead' = rxHead /\ rxTail' = rxTail
    BY <1>2
  <2>2. rxsem \in 0..m /\ m <= f
    BY <1>1, <1>3, SMTT(30)
  <2> QED BY <1>3, <1>5, <2>1, <2>2
<1>11. ReadUpTo(rxDma.last - m)'
  <2>1. rxDma'.last - m = rxDma.last - k /\ read' = read
    BY <1>1, <1>2, <1>5
  <2> QED BY <1>3, <2>1 DEF ReadUpTo
<1>12. RxShape(m)'
  BY <1>1, <1>5, <1>8, <1>9, <1>10, <1>11 DEF RxShape
<1> QED BY <1>12 DEF RxOrdered

\* When the device owns a descriptor, the handler counts frames that were not read, and no
\* descriptor twice.
LEMMA HandlerRxInv ==
    ASSUME RxOrdered, ethhandlerRx, Unread # RxRingSize
    PROVE  RxOrdered'
<1> PICK k \in 0..RxRingSize : RxShape(k)
  BY DEF RxOrdered
<1> DEFINE n == RxRingSize
           c == rxsem
<1>1. /\ n \in Nat \ {0} /\ k \in 0..n - 1 /\ k \in 0..n /\ rxHead \in 0..n - 1
      /\ rxDma.last \in Nat /\ c <= k /\ k <= rxDma.last /\ c \in 0..n
  <2>1. /\ n \in Nat \ {0} /\ Unread = k /\ rxHead \in 0..n - 1
        /\ rxDma.last \in Nat /\ c <= k /\ k <= rxDma.last /\ c \in 0..n
    BY RxTypes
  <2>2. k # n
    BY <2>1
  <2> QED BY <2>1, <2>2
<1>2. Max(RxCounted) \in RxCounted
  <2>1. RxCounted \in SUBSET (0..n + 1) /\ 0 \in RxCounted /\ n + 1 \in Nat
    BY <1>1 DEF RxCounted
  <2> QED BY <2>1, GreatestIn
<1> PICK m \in 0..n + 1 : m = Max(RxCounted)
  BY <1>2 DEF RxCounted
<1>3. rxTail = Step(rxHead, c, n) /\ rxTail \in 0..n - 1
  BY <1>1, StepMod DEF RxShape
<1>4. m <= k - c
  <2> SUFFICES ASSUME k - c < m PROVE FALSE
    BY <1>1
  <2> PICK i \in 0..n : i = k - c
    BY <1>1
  <2>1. i \in 0..m - 1
    BY <1>1
  <2>2. ~rxRing[(rxTail + i) % n].own
    BY <1>2, <2>1 DEF RxCounted
  <2>3. (rxTail + i) % n = Step(rxHead, k, n)
    <3>1. (rxTail + i) % n = Step(rxTail, i, n)
      BY <1>1, <1>3, StepMod
    <3>2. c + i = k /\ c + i <= n
      BY <1>1
    <3>3. Step(Step(rxHead, c, n), i, n) = Step(rxHead, c + i, n)
      BY <1>1, <3>2, StepStep
    <3> QED BY <1>3, <3>1, <3>2, <3>3
  <2>4. ~RxPlace(k).own
    BY <2>2, <2>3 DEF RxPlace
  <2> QED BY <1>1, <2>4 DEF RxShape
<1>5. /\ rxTail' = (rxTail + m) % n /\ rxsem' = c + m
      /\ rxRing' = rxRing /\ rxHead' = rxHead /\ rxDma' = rxDma /\ read' = read
  BY DEF ethhandlerRx
<1>6. rxTail' = Step(rxHead, c + m, n)
  <2>1. m \in 0..n /\ c + m <= n
    BY <1>1, <1>4
  <2>2. (rxTail + m) % n = Step(rxTail, m, n)
    BY <1>1, <1>3, <2>1, StepMod
  <2>3. Step(Step(rxHead, c, n), m, n) = Step(rxHead, c + m, n)
    BY <1>1, <2>1, StepStep
  <2> QED BY <1>3, <1>5, <2>2, <2>3
<1>7. rxsem' \in 0..k /\ rxTail' = Step(rxHead', rxsem', n)
  BY <1>1, <1>4, <1>5, <1>6
<1>8. RxShape(k)'
  BY <1>5, <1>7 DEF RxShape, RxPlace, ReadUpTo
<1> QED BY <1>8 DEF RxOrdered

\* A sequence of increasing numbers that grows by a larger one.
LEMMA GrowRead ==
    ASSUME NEW m \in Nat, ReadUpTo(m), read' = read \/ read' = Append(read, m + 1)
    PROVE  ReadUpTo(m + 1)'
<1>1. read \in Seq(Nat) /\ Len(read) \in Nat /\ DOMAIN read = 1..Len(read)
  BY DEF ReadUpTo
<1>2. CASE read' = read
  <2>1. \A i \in DOMAIN read : read[i] \in Nat /\ read[i] <= m + 1
    BY <1>1 DEF ReadUpTo
  <2> QED BY <1>2, <2>1 DEF ReadUpTo
<1>3. CASE read' = Append(read, m + 1)
  <2> DEFINE l == Len(read)
  <2>1. /\ read' \in Seq(Nat) /\ DOMAIN read' = 1..l + 1 /\ read'[l + 1] = m + 1
        /\ \A i \in 1..l : read'[i] = read[i]
    BY <1>1, <1>3
  <2>2. \A i \in 1..l + 1 : i = l + 1 \/ i \in 1..l
    BY <1>1
  <2>3. \A i \in 1..l : read[i] \in Nat /\ read[i] <= m
    BY <1>1 DEF ReadUpTo
  <2>4. ASSUME NEW i \in 1..l + 1 PROVE read'[i] <= m + 1
    <3>1. CASE i = l + 1
      BY <2>1, <3>1
    <3>2. CASE i \in 1..l
      <4>1. read'[i] = read[i] /\ read[i] \in Nat /\ read[i] <= m
        BY <2>1, <2>3, <3>2
      <4> QED BY <4>1
    <3> QED BY <2>2, <3>1, <3>2
  <2>5. ASSUME NEW i \in 1..l + 1, NEW j \in 1..l + 1, i < j PROVE read'[i] < read'[j]
    <3>1. i \in 1..l
      BY <1>1, <2>5
    <3>2. CASE j = l + 1
      BY <2>1, <2>3, <3>1, <3>2
    <3>3. CASE j \in 1..l
      BY <1>1, <2>1, <2>5, <3>1, <3>3 DEF ReadUpTo
    <3> QED BY <2>2, <3>2, <3>3
  <2> QED BY <2>1, <2>4, <2>5 DEF ReadUpTo
<1> QED BY <1>2, <1>3

\* ethread takes the oldest frame that was not read and gives its descriptor back.
LEMMA EthreadInv ==
    ASSUME RxOrdered, ethread
    PROVE  RxOrdered'
<1> PICK k \in 0..RxRingSize : RxShape(k)
  BY DEF RxOrdered
<1> DEFINE n == RxRingSize
           c == rxsem
<1>1. /\ n \in Nat \ {0} /\ k \in 0..n /\ rxHead \in 0..n - 1
      /\ rxDma.last \in Nat /\ c \in 1..n /\ c <= k /\ k <= rxDma.last /\ c \in 0..n /\ 1 <= k
  BY RxTypes DEF ethread
<1> PICK m \in 0..n : m = k - 1
  BY <1>1
<1>2. /\ rxsem' = c - 1 /\ rxHead' = (rxHead + 1) % n /\ rxRing' = [rxRing EXCEPT ![rxHead].own = TRUE]
      /\ rxTail' = rxTail /\ rxDma' = rxDma
      /\ read' = read \/ read' = Append(read, rxRing[rxHead].frame)
  BY DEF ethread
<1>3. /\ rxRing \in [0..n - 1 -> RxDescs] /\ rxDma.next = Step(rxHead, k, n) /\ rxTail = Step(rxHead, c, n)
      /\ ReadUpTo(rxDma.last - k)
  BY DEF RxShape
<1>4. rxHead = Step(rxHead, 0, n) /\ rxHead' = Step(rxHead, 1, n) /\ rxHead' \in 0..n - 1
  <2>1. 1 \in 0..n
    BY <1>1
  <2>2. rxHead = Step(rxHead, 0, n)
    BY <1>1 DEF Step
  <2> QED BY <1>1, <1>2, <2>1, <2>2, StepMod
<1>5. \A i \in 0..n : /\ i + 1 <= n => Step(rxHead', i, n) = Step(rxHead, i + 1, n)
                      /\ i + 1 >= n => Step(rxHead', i, n) = Step(rxHead, i + 1 - n, n)
  <2> TAKE i \in 0..n
  <2>1. 1 \in 0..n /\ 1 + i = i + 1
    BY <1>1
  <2>2. /\ 1 + i <= n => Step(Step(rxHead, 1, n), i, n) = Step(rxHead, 1 + i, n)
        /\ 1 + i >= n => Step(Step(rxHead, 1, n), i, n) = Step(rxHead, 1 + i - n, n)
    BY <1>1, <2>1, StepStep
  <2> QED BY <1>4, <2>1, <2>2
<1>6. ReadUpTo(rxDma.last - m)'
  <2> PICK r \in Nat : r = rxDma.last - k
    BY <1>1
  <2>1. rxRing[rxHead].frame = r + 1 /\ rxDma.last - m = r + 1
    <3>1. 0 \in 0..n - 1 /\ 0 < k
      BY <1>1
    <3>2. RxPlace(0).frame = rxDma.last - k + 1 + 0
      BY <3>1 DEF RxShape
    <3>3. RxPlace(0) = rxRing[rxHead]
      BY <1>4 DEF RxPlace
    <3> QED BY <1>1, <3>2, <3>3
  <2>2. ReadUpTo(r + 1)'
    BY <1>2, <1>3, <2>1, GrowRead
  <2> QED BY <1>2, <2>1, <2>2 DEF ReadUpTo
<1>7. /\ rxRing' \in [0..n - 1 -> RxDescs] /\ rxRing'[rxHead].own
      /\ \A x \in 0..n - 1 : x # rxHead => rxRing'[x] = rxRing[x]
  BY <1>1, <1>2, <1>3 DEF RxDescs
<1>8. ASSUME NEW i \in 0..n - 1
      PROVE  (~RxPlace(i)'.own <=> i < m) /\ (i < m => RxPlace(i)'.frame = rxDma.last - m + 1 + i)
  <2>1. i \in 0..n
    BY <1>1
  <2>2. CASE i = n - 1
    <3>1. Step(rxHead', i, n) = rxHead
      BY <1>1, <1>4, <1>5, <2>1, <2>2
    <3>2. RxPlace(i)'.own
      BY <1>7, <3>1 DEF RxPlace
    <3> QED BY <1>1, <2>2, <3>2
  <2>3. CASE i # n - 1
    <3> PICK j \in 0..n - 1 : j = i + 1
      BY <1>1, <2>3
    <3>1. Step(rxHead', i, n) = Step(rxHead, j, n)
      BY <1>1, <1>5, <2>1
    <3>2. Step(rxHead, j, n) # rxHead
      <4>1. 0 \in 0..n - 1 /\ j # 0
        BY <1>1
      <4> QED BY <1>1, <1>4, <4>1, StepOnce
    <3>3. j \in 0..n
      BY <1>1
    <3>4. Step(rxHead, j, n) \in 0..n - 1
      BY <1>1, <3>3, StepMod
    <3>5. RxPlace(i)' = RxPlace(j)
      BY <1>7, <3>1, <3>2, <3>4 DEF RxPlace
    <3>6. (~RxPlace(j).own <=> j < k) /\ (j < k => RxPlace(j).frame = rxDma.last - k + 1 + j)
      BY DEF RxShape
    <3> QED BY <1>1, <3>5, <3>6
  <2> QED BY <2>2, <2>3
<1>9. rxTail' = Step(rxHead', rxsem', n) /\ rxDma'.next = Step(rxHead', m, n)
  <2>1. /\ c - 1 \in 0..n /\ (c - 1) + 1 = c /\ c <= n /\ m \in 0..n /\ m + 1 = k /\ k <= n
    BY <1>1
  <2>2. Step(rxHead', c - 1, n) = Step(rxHead, c, n) /\ Step(rxHead', m, n) = Step(rxHead, k, n)
    BY <1>5, <2>1
  <2> QED BY <1>2, <1>3, <2>2
<1>10. rxsem' \in 0..m /\ m <= rxDma'.last /\ rxDma' \in [next : 0..n - 1, last : Nat] /\ rxDma'.last = rxDma.last
  BY <1>1, <1>2, SMTT(30) DEF RxShape
<1>11. RxShape(m)'
  BY <1>4, <1>6, <1>7, <1>8, <1>9, <1>10 DEF RxShape
<1> QED BY <1>11 DEF RxOrdered

\* The transmit half and the multicast addresses leave the ring alone.
LEMMA RxSame ==
    ASSUME RxInv, UNCHANGED rxVars PROVE RxInv'
<1>1. full' = full
  BY DEF rxVars
<1>2. ASSUME RxOrdered PROVE RxOrdered'
  <2> PICK k \in 0..RxRingSize : RxShape(k)
    BY <1>2 DEF RxOrdered
  <2>1. RxShape(k)'
    BY DEF RxShape, rxVars, RxPlace, ReadUpTo
  <2> QED BY <2>1 DEF RxOrdered
<1> QED BY <1>1, <1>2 DEF RxInv

\* The rings as ethinit makes them.
LEMMA RingsStart ==
    ASSUME EthInit PROVE TxInv /\ RxInv
<1>1. TxRingSize \in Nat \ {0} /\ RxRingSize \in Nat \ {0}
  BY DEF EthAssumption
<1>2. TxInv
  <2>1. TxUsed = 0 /\ TxWaiting = 0 /\ TxSent = 0
    BY <1>1 DEF EthInit, TxUsed, TxWaiting, TxSent
  <2>2. 0 \in 0..TxRingSize - 1 /\ Step(0, 0, TxRingSize) = 0 /\ 0 \in Nat
    BY <1>1 DEF Step
  <2>3. txRing \in [0..TxRingSize - 1 -> TxDescs] /\ \A d \in 0..TxRingSize - 1 : ~txRing[d].own
    BY DEF EthInit, TxDescs
  <2>4. \A i \in 0..TxRingSize - 1 : ~TxPlace(i).own
    <3> TAKE i \in 0..TxRingSize - 1
    <3>1. i \in 0..TxRingSize /\ txHead = 0
      BY <1>1 DEF EthInit
    <3>2. Step(txHead, i, TxRingSize) \in 0..TxRingSize - 1
      BY <1>1, <2>2, <3>1, StepMod
    <3> QED BY <2>3, <3>2 DEF TxPlace
  <2>5. /\ txDma \in [next : 0..TxRingSize - 1, last : Nat] /\ txDma.next = 0
        /\ txHead = 0 /\ txTail = 0 /\ txsem \in 0..TxRingSize /\ frames \in Nat
    BY <1>1, <2>2 DEF EthInit
  <2>6. \A i \in 0..TxRingSize - 1 : ~(0 <= i /\ i < 0)
    OBVIOUS
  <2> QED BY <2>1, <2>2, <2>3, <2>4, <2>5, <2>6 DEF TxInv
<1>3. RxInv
  <2> PICK k \in 0..RxRingSize : k = 0
    BY <1>1
  <2>1. 0 \in 0..RxRingSize - 1 /\ Step(0, 0, RxRingSize) = 0
    BY <1>1 DEF Step
  <2>2. rxRing \in [0..RxRingSize - 1 -> RxDescs] /\ \A d \in 0..RxRingSize - 1 : rxRing[d].own
    BY DEF EthInit, RxDescs
  <2>3. \A i \in 0..RxRingSize - 1 : RxPlace(i).own
    <3> TAKE i \in 0..RxRingSize - 1
    <3>1. i \in 0..RxRingSize /\ rxHead = 0
      BY <1>1 DEF EthInit
    <3>2. Step(rxHead, i, RxRingSize) \in 0..RxRingSize - 1
      BY <1>1, <2>1, <3>1, StepMod
    <3> QED BY <2>2, <3>2 DEF RxPlace
  <2>4. /\ rxDma \in [next : 0..RxRingSize - 1, last : Nat] /\ rxDma.next = 0 /\ rxDma.last = 0
        /\ rxHead = 0 /\ rxTail = 0 /\ rxsem = 0
    BY <1>1, <2>1 DEF EthInit
  <2>5. ReadUpTo(rxDma.last - k)
    BY DEF EthInit, ReadUpTo
  <2>6. \A i \in 0..RxRingSize - 1 : ~(i < k)
    OBVIOUS
  <2>7. RxShape(k)
    BY <2>1, <2>2, <2>3, <2>4, <2>5, <2>6 DEF RxShape
  <2>8. full = FALSE
    BY DEF EthInit
  <2> QED BY <2>7, <2>8 DEF RxInv, RxOrdered
<1> QED BY <1>2, <1>3

\* Frames go out once each and in the order of ethwrite, through descriptors the device has
\* sent.  Until the handler finds the whole receive ring unread, they come in once each and
\* in order; the semaphores never promise more room or more frames than there are.  This
\* for rings of any size and any number of frames.
THEOREM RingsCorrect == EthSpec => []RingsInOrder
<1>1. EthInit => TxInv /\ RxInv
  BY RingsStart
<1>2. TxInv /\ RxInv /\ [EthNext]_ethVars => TxInv' /\ RxInv'
  <2> SUFFICES ASSUME TxInv, RxInv, [EthNext]_ethVars PROVE TxInv' /\ RxInv'
    OBVIOUS
  <2>1. CASE ethwrite
    BY <2>1, WriteInv, RxSame DEF ethwrite
  <2>2. CASE DmaTransmit
    BY <2>2, TransmitInv, RxSame DEF DmaTransmit
  <2>3. CASE ethhandlerTx
    BY <2>3, HandlerTxInv, RxSame DEF ethhandlerTx
  <2>4. ASSUME NEW d \in {"us", "other"} \cup Groups, DmaReceive(d) PROVE TxInv' /\ RxInv'
    BY <2>4, ReceiveInv, TxSame DEF DmaReceive, RxInv
  <2>5. CASE ethhandlerRx
    <3>1. TxInv' /\ (RxOrdered /\ Unread # RxRingSize => RxOrdered')
      BY <2>5, HandlerRxInv, TxSame DEF ethhandlerRx
    <3>2. full' = (full \/ Unread = RxRingSize)
      BY <2>5 DEF ethhandlerRx
    <3> QED BY <3>1, <3>2 DEF RxInv
  <2>6. CASE ethread
    BY <2>6, EthreadInv, TxSame DEF ethread, RxInv
  <2>7. ASSUME NEW g \in Groups, ethcontrol(g) PROVE TxInv' /\ RxInv'
    BY <2>7, TxSame, RxSame DEF ethcontrol, ethmcast_add, ethmcast_remove
  <2>8. CASE UNCHANGED ethVars
    <3>1. UNCHANGED txVars /\ UNCHANGED rxVars
      BY <2>8 DEF ethVars, txVars, rxVars
    <3> QED BY <3>1, TxSame, RxSame
  <2> QED BY <2>1, <2>2, <2>3, <2>4, <2>5, <2>6, <2>7, <2>8 DEF EthNext
<1>3. TxInv /\ RxInv => RingsInOrder
  <2> SUFFICES ASSUME TxInv, RxInv PROVE RingsInOrder
    OBVIOUS
  <2>1. ASSUME ~full PROVE rxsem <= Unread /\ \A i, j \in DOMAIN read : i < j => read[i] < read[j]
    <3>1. PICK k \in 0..RxRingSize : RxShape(k)
      BY <2>1 DEF RxInv, RxOrdered
    <3>2. rxsem <= Unread
      BY <3>1, RxTypes
    <3> QED BY <3>1, <3>2 DEF RxShape, ReadUpTo
  <2> QED BY <2>1, TxInOrder DEF RingsInOrder
<1> QED BY <1>1, <1>2, <1>3, PTL DEF EthSpec

-----------------------------------------------------------------------------
(* The output and echo queues of the console *)

HIDE EthAssumption
USE TtyAssumption

\* The number of steps from a place of a ring to another.
LEMMA StepBack ==
    ASSUME NEW n \in Nat \ {0}, NEW h \in 0..n - 1, NEW i \in 0..n - 1
    PROVE  (Step(h, i, n) + n - h) % n = i
<1>1. CASE h + i < n
  <2>1. Step(h, i, n) + n - h = i + n
    BY <1>1 DEF Step
  <2>2. (i + n) % n = i
    <3>1. n \in 0..n
      OBVIOUS
    <3>2. (i + n) % n = Step(i, n, n)
      BY <3>1, StepMod
    <3> QED BY <3>2 DEF Step
  <2> QED BY <2>1, <2>2
<1>2. CASE h + i >= n
  <2>1. Step(h, i, n) + n - h = i
    BY <1>2 DEF Step
  <2>2. i % n = i
    OBVIOUS
  <2> QED BY <2>1, <2>2
<1> QED BY <1>1, <1>2

OutPlace(i) == obuff[Step(ohead, i, TY_OBUFLEN)]

\* The output queue holds the characters after the last one sent; its room is what the
\* semaphore and the writers it let go stand for.
OutInv ==
    /\ ohead \in 0..TY_OBUFLEN - 1 /\ osem \in Int /\ owoken \in Nat /\ outs \in Nat /\ sent \in Nat
    /\ outs - sent \in 0..TY_OBUFLEN
    /\ Available(osem) + owoken = TY_OBUFLEN - (outs - sent)
    /\ otail = Step(ohead, outs - sent, TY_OBUFLEN)
    /\ obuff \in [0..TY_OBUFLEN - 1 -> Nat]
    /\ \A i \in 0..TY_OBUFLEN - 1 : i < outs - sent => OutPlace(i) = sent + i + 1

\* The echo queue is never full.
EchoInv ==
    /\ ehead \in 0..TY_EBUFLEN - 1 /\ echoes \in 0..TY_EBUFLEN - 1
    /\ etail = Step(ehead, echoes, TY_EBUFLEN)

\* The interrupt that empties the output and echo queues is on as long as they hold something.
KickInv == etbei \in BOOLEAN /\ (outs > sent \/ echoes > 0 => etbei)

\* An echo that fits.
LEMMA EchoStep ==
    ASSUME EchoInv, NEW n \in 0..3, eputc(n), echoes' < TY_EBUFLEN
    PROVE  EchoInv'
<1>1. /\ TY_EBUFLEN \in Nat \ {0} /\ ehead \in 0..TY_EBUFLEN - 1 /\ echoes \in 0..TY_EBUFLEN - 1
      /\ etail = Step(ehead, echoes, TY_EBUFLEN)
  BY DEF EchoInv, TtyAssumption
<1>0. echoes + n < TY_EBUFLEN
  BY DEF eputc
<1>2. n \in 0..TY_EBUFLEN /\ echoes \in 0..TY_EBUFLEN /\ echoes + n <= TY_EBUFLEN /\ echoes + n \in 0..TY_EBUFLEN - 1
  BY <1>0, <1>1
<1>3. etail \in 0..TY_EBUFLEN - 1
  BY <1>1, <1>2, StepMod
<1>4. (etail + n) % TY_EBUFLEN = Step(etail, n, TY_EBUFLEN)
  BY <1>1, <1>2, <1>3, StepMod
<1>5. Step(Step(ehead, echoes, TY_EBUFLEN), n, TY_EBUFLEN) = Step(ehead, echoes + n, TY_EBUFLEN)
  BY <1>1, <1>2, StepStep
<1>6. etail' = Step(ehead, echoes + n, TY_EBUFLEN) /\ echoes' = echoes + n /\ ehead' = ehead
  BY <1>1, <1>4, <1>5 DEF eputc
<1> QED BY <1>1, <1>2, <1>6 DEF EchoInv

\* An echo turns the interrupt on.
LEMMA EchoKick ==
    ASSUME KickInv, EchoInv, NEW n \in 0..3, eputc(n), UNCHANGED outVars
    PROVE  KickInv'
<1>1. echoes \in Nat /\ echoes' = echoes + n /\ etbei' = (etbei \/ n > 0) /\ outs' = outs /\ sent' = sent
  BY DEF EchoInv, eputc, outVars, TtyAssumption
<1>2. CASE n > 0
  BY <1>1, <1>2 DEF KickInv
<1>3. CASE n = 0
  <2>1. echoes' = echoes /\ (etbei' <=> etbei) /\ etbei' \in BOOLEAN
    BY <1>1, <1>3 DEF KickInv
  <2> QED BY <1>1, <2>1 DEF KickInv
<1> QED BY <1>2, <1>3

\* Both, for an echo that depends on the mode.
LEMMA EchoBoth ==
    ASSUME EchoInv, KickInv, NEW n \in 0..3, eputc(n) \/ Echo(n), echoes' < TY_EBUFLEN, UNCHANGED outVars
    PROVE  EchoInv' /\ KickInv'
<1> PICK z \in 0..3 : z = 0
  OBVIOUS
<1>1. eputc(n) \/ eputc(z)
  BY DEF Echo
<1> QED BY <1>1, EchoStep, EchoKick

\* The sizes of the output queue.
LEMMA OutTypes ==
    ASSUME OutInv
    PROVE  /\ TY_OBUFLEN \in Nat \ {0} /\ ohead \in 0..TY_OBUFLEN - 1 /\ osem \in Int /\ owoken \in Nat
           /\ outs \in Nat /\ sent \in Nat /\ outs - sent \in 0..TY_OBUFLEN
           /\ Available(osem) + owoken = TY_OBUFLEN - (outs - sent)
           /\ otail = Step(ohead, outs - sent, TY_OBUFLEN) /\ obuff \in [0..TY_OBUFLEN - 1 -> Nat]
BY DEF OutInv, TtyAssumption

\* A writer that holds a place of the queue, from the semaphore or from having been woken,
\* stores behind the last character.
LEMMA PutCharInv ==
    ASSUME OutInv, PutChar, UNCHANGED <<ohead, sent>>,
           osem' \in Int, owoken' \in Nat, Available(osem') + owoken' + 1 = Available(osem) + owoken
    PROVE  OutInv'
<1> DEFINE n == TY_OBUFLEN
           l == outs - sent
<1>0. /\ n \in Nat \ {0} /\ ohead \in 0..n - 1 /\ outs \in Nat /\ sent \in Nat
      /\ l \in 0..n /\ otail = Step(ohead, l, n) /\ obuff \in [0..n - 1 -> Nat]
      /\ Available(osem) + owoken = n - l
  BY OutTypes
<1>1. /\ l \in 0..n - 1 /\ Available(osem') + owoken' = n - (l + 1)
  <2>1. Available(osem') \in Nat
    BY DEF Available
  <2> PICK a \in Nat : a = Available(osem')
    BY <2>1
  <2> PICK b \in Nat : b = owoken'
    OBVIOUS
  <2> PICK c \in 0..n : c = l
    BY <1>0
  <2>2. a + b + 1 = n - c
    BY <1>0
  <2> HIDE DEF l
  <2>3. c \in 0..n - 1 /\ a + b = n - (c + 1)
    BY ONLY <1>0, <2>2, a \in Nat, b \in Nat, c \in 0..n
  <2> QED BY <2>3
<1> PICK m \in Nat : m = outs + 1
  BY <1>0
<1>2. /\ outs' = m /\ obuff' = [obuff EXCEPT ![otail] = m] /\ otail' = (otail + 1) % n
      /\ ohead' = ohead /\ sent' = sent
  BY DEF PutChar, Next1
<1>3. otail \in 0..n - 1 /\ otail' = Step(ohead, l + 1, n)
  <2>1. 1 \in 0..n /\ l + 1 <= n
    BY <1>0, <1>1
  <2>2. otail \in 0..n - 1
    BY <1>0, StepMod
  <2>3. (otail + 1) % n = Step(otail, 1, n)
    BY <1>0, <2>1, <2>2, StepMod
  <2>4. Step(Step(ohead, l, n), 1, n) = Step(ohead, l + 1, n)
    BY <1>0, <2>1, StepStep
  <2> QED BY <1>0, <1>2, <2>2, <2>3, <2>4
<1>4. /\ obuff' \in [0..n - 1 -> Nat] /\ obuff'[otail] = m
      /\ \A x \in 0..n - 1 : x # otail => obuff'[x] = obuff[x]
  BY <1>0, <1>2, <1>3
<1>5. outs' - sent' = l + 1 /\ l + 1 \in 0..n
  BY <1>0, <1>1, <1>2
<1>6. ASSUME NEW i \in 0..n - 1, i < l + 1 PROVE OutPlace(i)' = sent + i + 1
  <2>1. i \in 0..n /\ l \in 0..n
    BY <1>0
  <2>2. Step(ohead, i, n) \in 0..n - 1
    BY <1>0, <2>1, StepMod
  <2>3. CASE i = l
    <3>1. OutPlace(i)' = m
      BY <1>0, <1>2, <1>4, <2>3 DEF OutPlace
    <3> QED BY <1>0, <2>3, <3>1
  <2>4. CASE i # l
    <3>1. Step(ohead, i, n) # otail
      BY <1>0, <1>1, <2>4, StepOnce
    <3>2. OutPlace(i)' = OutPlace(i)
      BY <1>2, <1>4, <2>2, <3>1 DEF OutPlace
    <3>3. i < l
      BY <1>0, <1>6, <2>4
    <3>4. OutPlace(i) = sent + i + 1
      BY <3>3 DEF OutInv
    <3> QED BY <3>2, <3>4
  <2> QED BY <2>3, <2>4
<1>7. /\ ohead' \in 0..n - 1 /\ outs' \in Nat /\ sent' \in Nat /\ sent' = sent
      /\ otail' = Step(ohead', outs' - sent', n)
  BY <1>0, <1>2, <1>3, <1>5
<1> HIDE DEF l
<1>8. outs' - sent' \in 0..n /\ Available(osem') + owoken' = n - (outs' - sent')
  BY <1>1, <1>5
<1>9. \A i \in 0..n - 1 : i < outs' - sent' => OutPlace(i)' = sent' + i + 1
  BY <1>5, <1>6, <1>7
<1>10. OutInv' = (/\ ohead' \in 0..n - 1 /\ osem' \in Int /\ owoken' \in Nat /\ outs' \in Nat /\ sent' \in Nat
                  /\ outs' - sent' \in 0..n
                  /\ Available(osem') + owoken' = n - (outs' - sent')
                  /\ otail' = Step(ohead', outs' - sent', n)
                  /\ obuff' \in [0..n - 1 -> Nat]
                  /\ \A i \in 0..n - 1 : i < outs' - sent' => OutPlace(i)' = sent' + i + 1)
  BY DEF OutInv, Available
<1> QED BY ONLY <1>4, <1>7, <1>8, <1>9, <1>10, osem' \in Int, owoken' \in Nat

\* ttyputc stores, or waits.
LEMMA PutcInv ==
    ASSUME OutInv, KickInv, EchoInv, ttyputc PROVE OutInv' /\ KickInv'
<1>1. osem \in Int /\ owoken \in Nat /\ UNCHANGED <<ohead, sent, echoVars>>
  BY OutTypes DEF ttyputc
<1>2. ASSUME PutChar PROVE KickInv'
  BY <1>2 DEF PutChar, KickInv
<1>3. CASE osem > 0 /\ osem' = osem - 1 /\ PutChar /\ UNCHANGED owoken
  <2>1. osem' \in Int /\ owoken' \in Nat /\ Available(osem') + owoken' + 1 = Available(osem) + owoken
    BY <1>1, <1>3 DEF Available
  <2> QED BY <1>1, <1>2, <1>3, <2>1, PutCharInv
<1>4. CASE owoken > 0 /\ owoken' = owoken - 1 /\ PutChar /\ UNCHANGED osem
  <2>1. osem' \in Int /\ owoken' \in Nat /\ Available(osem') + owoken' + 1 = Available(osem) + owoken
    BY <1>1, <1>4 DEF Available
  <2> QED BY <1>1, <1>2, <1>4, <2>1, PutCharInv
<1>5. CASE osem <= 0 /\ osem' = osem - 1 /\ UNCHANGED <<outs, obuff, otail, etbei, owoken>>
  <2>1. osem' \in Int /\ Available(osem') = Available(osem)
    BY <1>1, <1>5 DEF Available
  <2>2. KickInv'
    BY <1>1, <1>5 DEF KickInv, echoVars
  <2>3. OutInv'
    BY <1>1, <1>5, <2>1 DEF OutInv, OutPlace
  <2> QED BY <2>2, <2>3
<1> QED BY <1>3, <1>4, <1>5 DEF ttyputc

\* What signaln does to a semaphore's count and to the processes it lets go.
LEMMA SignalCount ==
    ASSUME NEW s \in Int, NEW w \in Nat, NEW k \in Nat
    PROVE  /\ s + k \in Int /\ w + Least(k, Waiting(s)) \in Nat
           /\ Available(s + k) + (w + Least(k, Waiting(s))) = Available(s) + w + k
BY DEF Available, Waiting, Least

\* Leaving k characters of the queue to the UART.
LEMMA DrainInv ==
    ASSUME OutInv, NEW k \in Nat, k <= outs - sent, UNCHANGED <<otail, obuff, outs>>,
           ohead' = (ohead + k) % TY_OBUFLEN,
           osem' = osem + k, owoken' = owoken + Least(k, Waiting(osem)),
           sent' = IF k = 0 THEN sent ELSE obuff[(ohead + k - 1) % TY_OBUFLEN]
    PROVE  OutInv' /\ sent' = sent + k
<1> DEFINE n == TY_OBUFLEN
           l == outs - sent
<1>1. /\ n \in Nat \ {0} /\ ohead \in 0..n - 1 /\ outs \in Nat /\ sent \in Nat
      /\ l \in 0..n /\ otail = Step(ohead, l, n) /\ obuff \in [0..n - 1 -> Nat] /\ k \in 0..n /\ k <= l
      /\ Available(osem) + owoken = n - l /\ osem \in Int /\ owoken \in Nat
  <2>1. /\ n \in Nat \ {0} /\ ohead \in 0..n - 1 /\ outs \in Nat /\ sent \in Nat
        /\ l \in 0..n /\ otail = Step(ohead, l, n) /\ obuff \in [0..n - 1 -> Nat]
        /\ Available(osem) + owoken = n - l /\ osem \in Int /\ owoken \in Nat
    BY OutTypes
  <2>2. k \in 0..n /\ k <= l
    BY <2>1
  <2> QED BY <2>1, <2>2
<1>2. ohead' = Step(ohead, k, n) /\ ohead' \in 0..n - 1
  BY <1>1, StepMod
<1>3. sent' = sent + k
  <2>1. CASE k = 0
    BY <1>1, <2>1
  <2>2. CASE k # 0
    <3> PICK j \in 0..n - 1 : j = k - 1
      BY <1>1, <2>2
    <3>1. j \in 0..n /\ ohead + k - 1 = ohead + j
      BY <1>1
    <3>2. (ohead + k - 1) % n = Step(ohead, j, n)
      BY <1>1, <3>1, StepMod
    <3>3. OutPlace(j) = sent + j + 1
      BY <1>1 DEF OutInv
    <3>4. sent' = OutPlace(j)
      BY <2>2, <3>2 DEF OutPlace
    <3>5. sent + j + 1 = sent + k
      BY <1>1
    <3> QED BY <3>3, <3>4, <3>5
  <2> QED BY <2>1, <2>2
<1>4. \A i \in 0..n : i + k <= n => Step(ohead', i, n) = Step(ohead, i + k, n)
  <2> TAKE i \in 0..n
  <2>1. k + i <= n => Step(Step(ohead, k, n), i, n) = Step(ohead, k + i, n)
    BY <1>1, StepStep
  <2>2. k + i = i + k
    BY <1>1
  <2> QED BY <1>2, <2>1, <2>2
<1>5. outs' - sent' = l - k /\ l - k \in 0..n /\ outs' \in Nat /\ sent' \in Nat
  <2>1. /\ n \in Nat \ {0} /\ outs \in Nat /\ sent \in Nat /\ k \in Nat /\ outs - sent \in 0..n /\ k <= outs - sent
    BY <1>1
  <2>2. outs' = outs /\ sent' = sent + k
    BY <1>3
  <2> QED BY ONLY <2>1, <2>2
<1>6. otail' = Step(ohead', l - k, n)
  <2>1. l - k \in 0..n /\ (l - k) + k = l
    BY <1>1
  <2> QED BY <1>1, <1>4, <2>1
<1>7. ASSUME NEW i \in 0..n - 1, i < l - k PROVE OutPlace(i)' = sent' + i + 1
  <2> PICK j \in 0..n - 1 : j = i + k
    BY <1>1, <1>7
  <2>1. i \in 0..n /\ i + k <= n
    BY <1>1
  <2>2. Step(ohead', i, n) = Step(ohead, j, n)
    BY <1>4, <2>1
  <2>3. OutPlace(i)' = OutPlace(j)
    BY <2>2 DEF OutPlace
  <2>4. OutPlace(j) = sent + j + 1
    BY <1>1, <1>7 DEF OutInv
  <2>5. sent + j + 1 = (sent + k) + i + 1
    BY <1>1
  <2> QED BY <1>3, <2>3, <2>4, <2>5
<1>8. /\ osem' \in Int /\ owoken' \in Nat /\ Available(osem') + owoken' = n - (l - k)
  <2>1. osem' \in Int /\ owoken' \in Nat /\ Available(osem') + owoken' = Available(osem) + owoken + k
    BY <1>1, SignalCount
  <2> QED BY <1>1, <2>1
<1> HIDE DEF l
<1>9. \A i \in 0..n - 1 : i < outs' - sent' => OutPlace(i)' = sent' + i + 1
  BY <1>5, <1>7
<1>10. otail' = Step(ohead', outs' - sent', n) /\ obuff' \in [0..n - 1 -> Nat]
  BY <1>1, <1>5, <1>6
<1>11. outs' - sent' \in 0..n /\ Available(osem') + owoken' = n - (outs' - sent')
  BY <1>5, <1>8
<1>12. OutInv' = (/\ ohead' \in 0..n - 1 /\ osem' \in Int /\ owoken' \in Nat /\ outs' \in Nat /\ sent' \in Nat
                  /\ outs' - sent' \in 0..n
                  /\ Available(osem') + owoken' = n - (outs' - sent')
                  /\ otail' = Step(ohead', outs' - sent', n)
                  /\ obuff' \in [0..n - 1 -> Nat]
                  /\ \A i \in 0..n - 1 : i < outs' - sent' => OutPlace(i)' = sent' + i + 1)
  BY DEF OutInv, Available
<1> QED BY ONLY <1>2, <1>3, <1>5, <1>8, <1>9, <1>10, <1>11, <1>12

\* Leaving k echoes to the UART.
LEMMA EchoDrain ==
    ASSUME EchoInv, NEW k \in Nat, k <= echoes, ehead' = (ehead + k) % TY_EBUFLEN, echoes' = echoes - k, UNCHANGED etail
    PROVE  EchoInv'
<1> DEFINE n == TY_EBUFLEN
<1>1. /\ n \in Nat \ {0} /\ ehead \in 0..n - 1 /\ echoes \in 0..n - 1 /\ etail = Step(ehead, echoes, n)
      /\ k \in 0..n /\ echoes - k \in 0..n /\ echoes - k \in 0..n - 1
  BY DEF EchoInv, TtyAssumption
<1>2. ehead' = Step(ehead, k, n) /\ ehead' \in 0..n - 1
  BY <1>1, StepMod
<1>3. k + (echoes - k) = echoes /\ echoes <= n
  BY <1>1
<1>4. Step(Step(ehead, k, n), echoes - k, n) = Step(ehead, k + (echoes - k), n)
  BY <1>1, <1>3, StepStep
<1>5. etail' = Step(ehead', echoes', n)
  BY <1>1, <1>2, <1>3, <1>4
<1> QED BY <1>1, <1>2, <1>5 DEF EchoInv

\* ttyhandle_out empties the echo queue first and then the output queue, in order, and turns
\* the interrupt off when both are empty.
LEMMA HandleOutInv ==
    ASSUME OutInv, EchoInv, KickInv, ttyhandle_out, fault' = "none" PROVE OutInv' /\ EchoInv' /\ KickInv'
<1> DEFINE avail == (etail + TY_EBUFLEN - ehead) % TY_EBUFLEN
           n == Least(avail, UART_FIFO_SIZE)
           k == Least(OutAvail, UART_FIFO_SIZE - n)
<1>0. /\ TY_EBUFLEN \in Nat \ {0} /\ ehead \in 0..TY_EBUFLEN - 1 /\ echoes \in 0..TY_EBUFLEN - 1
      /\ etail = Step(ehead, echoes, TY_EBUFLEN)
  BY DEF EchoInv, TtyAssumption
<1>1. CASE ehead = etail /\ osem >= TY_OBUFLEN
  <2>1. UNCHANGED <<outVars, echoVars>>
    BY <1>1 DEF ttyhandle_out
  <2>2. etbei' = FALSE
    BY <1>1 DEF ttyhandle_out
  <2>3. echoes = 0
    BY <1>0, <1>1 DEF Step
  <2>4. ~(outs > sent)
    BY <1>1, OutTypes DEF Available
  <2>5. KickInv'
    <3>1. outs' = outs /\ sent' = sent /\ echoes' = echoes
      BY <2>1 DEF outVars, echoVars
    <3>2. ~(outs' > sent') /\ ~(echoes' > 0)
      BY <2>3, <2>4, <3>1
    <3> QED BY ONLY <2>2, <3>2 DEF KickInv
  <2> QED BY <2>1, <2>5 DEF outVars, echoVars, OutInv, EchoInv, OutPlace
<1>2. CASE ~(ehead = etail /\ osem >= TY_OBUFLEN)
  <2>1. /\ ehead' = (ehead + n) % TY_EBUFLEN /\ echoes' = echoes - n
        /\ ohead' = (ohead + k) % TY_OBUFLEN
        /\ osem' = osem + k /\ owoken' = owoken + Least(k, Waiting(osem))
        /\ sent' = IF k = 0 THEN sent ELSE obuff[(ohead + k - 1) % TY_OBUFLEN]
        /\ fault' = IF k > outs - sent THEN "output queue" ELSE "none"
        /\ UNCHANGED <<etbei, etail, otail, obuff, outs>>
    BY <1>2 DEF ttyhandle_out
  <2>2. avail = echoes /\ echoes \in Nat
    BY <1>0, StepBack
  <2>3. OutAvail \in Nat /\ outs - sent \in Nat /\ outs \in Nat /\ sent \in Nat
    BY OutTypes DEF OutAvail, Available
  <2>4. UART_FIFO_SIZE \in Nat
    BY DEF TtyAssumption
  <2> HIDE DEF avail
  <2>5. n \in Nat /\ n <= echoes /\ UART_FIFO_SIZE - n \in Nat
    BY <2>2, <2>4 DEF Least
  <2> HIDE DEF n
  <2>6. k \in Nat
    BY <2>3, <2>5 DEF Least
  <2>7. k <= outs - sent
    BY <2>1, <2>3, <2>6
  <2> HIDE DEF k
  <2>8. OutInv' /\ sent' = sent + k
    BY <2>1, <2>6, <2>7, DrainInv
  <2>9. EchoInv'
    BY <2>1, <2>5, EchoDrain
  <2>10. KickInv'
    BY <2>1, <2>2, <2>3, <2>5, <2>6, <2>8 DEF KickInv
  <2> QED BY <2>8, <2>9, <2>10
<1> QED BY <1>1, <1>2

-----------------------------------------------------------------------------
(* The input queue of the console *)

Chars == Letters \cup {"nl", "bs", "kill", "eof", "start", "stop", "nul"}
InPlace(i) == ibuff[Step(ihead, i, TY_IBUFLEN)]

\* The input queue holds what was typed.
TypedRing ==
    /\ ibuff \in [0..TY_IBUFLEN - 1 -> Chars] /\ ihead \in 0..TY_IBUFLEN - 1
    /\ typed \in Seq(Chars) /\ Len(typed) <= TY_IBUFLEN
    /\ itail = Step(ihead, Len(typed), TY_IBUFLEN)
    /\ \A i \in 0..TY_IBUFLEN - 1 : i < Len(typed) => InPlace(i) = typed[i + 1]
\* The semaphore, the processes it let go and the cursor account for every character.
InCount ==
    /\ isem \in Int /\ iwoken \in Nat /\ icursor \in Nat
    /\ Available(isem) + iwoken + icursor = Len(typed)
InInv == TypedRing /\ InCount

\* The sizes of the input queue.
LEMMA InSizes ==
    ASSUME TypedRing
    PROVE  /\ TY_IBUFLEN \in Nat \ {0} /\ Len(typed) \in 0..TY_IBUFLEN /\ typed \in Seq(Chars)
           /\ ihead \in 0..TY_IBUFLEN - 1 /\ itail \in 0..TY_IBUFLEN - 1
           /\ itail = Step(ihead, Len(typed), TY_IBUFLEN) /\ ibuff \in [0..TY_IBUFLEN - 1 -> Chars]
<1>1. TY_IBUFLEN \in Nat \ {0}
  BY DEF TtyAssumption
<1>2. /\ ihead \in 0..TY_IBUFLEN - 1 /\ typed \in Seq(Chars) /\ Len(typed) <= TY_IBUFLEN
      /\ itail = Step(ihead, Len(typed), TY_IBUFLEN) /\ ibuff \in [0..TY_IBUFLEN - 1 -> Chars]
  BY DEF TypedRing
<1>3. Len(typed) \in 0..TY_IBUFLEN
  BY <1>1, <1>2
<1> QED BY <1>1, <1>2, <1>3, StepMod

\* A key goes behind the typed characters.
LEMMA StoreRing ==
    ASSUME TypedRing, NEW key \in Chars, Len(typed) < TY_IBUFLEN,
           ibuff' = [ibuff EXCEPT ![itail] = key], itail' = Step(itail, 1, TY_IBUFLEN), ihead' = ihead,
           typed' = Append(typed, key)
    PROVE  TypedRing' /\ Len(typed') = Len(typed) + 1
<1> DEFINE n == TY_IBUFLEN
<1>1. /\ n \in Nat \ {0} /\ Len(typed) \in 0..n /\ ihead \in 0..n - 1 /\ itail \in 0..n - 1
      /\ itail = Step(ihead, Len(typed), n) /\ typed \in Seq(Chars) /\ ibuff \in [0..n - 1 -> Chars]
  BY InSizes
<1> PICK l \in 0..n - 1 : l = Len(typed)
  BY <1>1
<1>2. /\ typed' \in Seq(Chars) /\ Len(typed') = l + 1 /\ typed'[l + 1] = key
      /\ \A i \in 1..l : typed'[i] = typed[i]
  BY <1>1, SMTT(30)
<1>3. itail' = Step(ihead, l + 1, n)
  <2>1. 1 \in 0..n /\ l + 1 <= n /\ l \in 0..n
    BY <1>1
  <2>2. Step(Step(ihead, l, n), 1, n) = Step(ihead, l + 1, n)
    BY <1>1, <2>1, StepStep
  <2> QED BY <1>1, <2>2
<1>4. /\ ibuff' \in [0..n - 1 -> Chars] /\ ibuff'[itail] = key
      /\ \A x \in 0..n - 1 : x # itail => ibuff'[x] = ibuff[x]
  BY <1>1
<1>5. ASSUME NEW i \in 0..n - 1, i < l + 1 PROVE InPlace(i)' = typed'[i + 1]
  <2>1. i \in 0..n /\ l \in 0..n
    BY <1>1
  <2>2. Step(ihead, i, n) \in 0..n - 1
    BY <1>1, <2>1, StepMod
  <2>3. CASE i = l
    BY <1>1, <1>2, <1>4, <2>3 DEF InPlace
  <2>4. CASE i # l
    <3>1. Step(ihead, i, n) # itail /\ i < l /\ i + 1 \in 1..l
      BY <1>1, <1>5, <2>4, StepOnce
    <3>2. InPlace(i)' = InPlace(i)
      BY <1>4, <2>2, <3>1 DEF InPlace
    <3>3. InPlace(i) = typed[i + 1]
      BY <3>1 DEF TypedRing
    <3> QED BY <1>2, <3>1, <3>2, <3>3
  <2> QED BY <2>3, <2>4
<1>6. Len(typed') <= n
  BY <1>1, <1>2
<1>7. itail' = Step(ihead', Len(typed'), n) /\ \A i \in 0..n - 1 : i < Len(typed') => InPlace(i)' = typed'[i + 1]
  BY <1>2, <1>3, <1>5
<1> QED BY <1>1, <1>2, <1>4, <1>6, <1>7 DEF TypedRing

\* All typed characters but the first m are dropped.
LEMMA DropRing ==
    ASSUME TypedRing, NEW m \in Nat, m <= Len(typed), typed' = SubSeq(typed, 1, m),
           itail' = Step(ihead, m, TY_IBUFLEN), ihead' = ihead, ibuff' = ibuff
    PROVE  TypedRing' /\ Len(typed') = m
<1> DEFINE n == TY_IBUFLEN
<1>1. /\ n \in Nat \ {0} /\ Len(typed) \in 0..n /\ ihead \in 0..n - 1 /\ typed \in Seq(Chars) /\ ibuff \in [0..n - 1 -> Chars]
  BY InSizes
<1>2. /\ typed' \in Seq(Chars) /\ Len(typed') = m /\ \A i \in 1..m : typed'[i] = typed[i]
  BY <1>1, SMTT(30)
<1>3. ASSUME NEW i \in 0..n - 1, i < m PROVE InPlace(i)' = typed'[i + 1]
  <2>1. i < Len(typed) /\ i + 1 \in 1..m
    BY <1>1, <1>3
  <2>2. InPlace(i) = typed[i + 1] /\ InPlace(i)' = InPlace(i)
    BY <2>1 DEF TypedRing, InPlace
  <2> QED BY <1>2, <2>1, <2>2
<1>4. Len(typed') <= n
  BY <1>1, <1>2
<1> QED BY <1>1, <1>2, <1>3, <1>4 DEF TypedRing

\* A reader takes the oldest character.
LEMMA TakeRing ==
    ASSUME TypedRing, Len(typed) > 0, TakeChar, UNCHANGED <<ibuff, itail>>
    PROVE  TypedRing' /\ Len(typed') + 1 = Len(typed)
<1> DEFINE n == TY_IBUFLEN
<1>1. /\ n \in Nat \ {0} /\ Len(typed) \in 0..n /\ ihead \in 0..n - 1 /\ itail = Step(ihead, Len(typed), n)
      /\ typed \in Seq(Chars) /\ ibuff \in [0..n - 1 -> Chars]
  BY InSizes
<1>2. ihead' = (ihead + 1) % n /\ typed' = Tail(typed)
  BY DEF TakeChar, Next1
<1> PICK l \in 0..n : l + 1 = Len(typed)
  BY <1>1
<1>3. /\ typed' \in Seq(Chars) /\ Len(typed') = l /\ \A i \in 1..l : typed'[i] = typed[i + 1]
  BY <1>1, <1>2, SMTT(30)
<1>4. ihead' = Step(ihead, 1, n) /\ ihead' \in 0..n - 1
  <2>1. 1 \in 0..n
    BY <1>1
  <2> QED BY <1>1, <1>2, <2>1, StepMod
<1>5. \A i \in 0..n : i + 1 <= n => Step(ihead', i, n) = Step(ihead, i + 1, n)
  <2> TAKE i \in 0..n
  <2>1. 1 \in 0..n /\ 1 + i = i + 1
    BY <1>1
  <2>2. 1 + i <= n => Step(Step(ihead, 1, n), i, n) = Step(ihead, 1 + i, n)
    BY <1>1, <2>1, StepStep
  <2> QED BY <1>4, <2>1, <2>2
<1>6. itail' = Step(ihead', l, n)
  <2>1. l + 1 <= n
    BY <1>1
  <2> QED BY <1>1, <1>5, <2>1
<1>7. ASSUME NEW i \in 0..n - 1, i < l PROVE InPlace(i)' = typed'[i + 1]
  <2> PICK j \in 0..n - 1 : j = i + 1
    BY <1>1, <1>7
  <2>1. i \in 0..n /\ i + 1 <= n /\ j < Len(typed) /\ j \in 1..l
    BY <1>1, <1>7
  <2>2. InPlace(i)' = InPlace(j)
    BY <1>5, <2>1 DEF InPlace
  <2>3. InPlace(j) = typed[j + 1]
    BY <2>1 DEF TypedRing
  <2>4. typed'[j] = typed[j + 1]
    BY <1>3, <2>1
  <2> QED BY <2>2, <2>3, <2>4
<1>8. Len(typed') <= n
  BY <1>1, <1>3
<1> QED BY <1>1, <1>3, <1>4, <1>6, <1>7, <1>8 DEF TypedRing

\* The three counts and the length of the queue as numbers.
LEMMA Counts ==
    ASSUME InInv
    PROVE  \E a, b, c, t \in Nat : /\ a = Available(isem) /\ b = iwoken /\ c = icursor /\ t = Len(typed)
                                  /\ a + b + c = t
<1>1. isem \in Int /\ iwoken \in Nat /\ icursor \in Nat /\ Available(isem) + iwoken + icursor = Len(typed)
  BY DEF InInv, InCount
<1>2. Available(isem) \in Nat
  BY <1>1 DEF Available
<1>3. Len(typed) \in Nat
  BY InSizes DEF InInv
<1> QED BY ONLY <1>1, <1>2, <1>3

\* ttygetc reads, or waits.
LEMMA GetcInv ==
    ASSUME InInv, ttygetc PROVE InInv'
<1>1. TypedRing /\ isem \in Int /\ iwoken \in Nat /\ icursor \in Nat /\ Available(isem) + iwoken + icursor = Len(typed)
  BY DEF InInv, InCount
<1>2. UNCHANGED <<ibuff, itail, icursor>>
  BY DEF ttygetc
<1>3. CASE isem > 0 /\ isem' = isem - 1 /\ TakeChar /\ UNCHANGED iwoken
  <2>1. Len(typed) > 0 /\ isem' \in Int /\ Available(isem') + 1 = Available(isem)
    BY <1>1, <1>3 DEF Available
  <2>2. TypedRing' /\ Len(typed') + 1 = Len(typed) /\ Len(typed') \in Nat
    BY <1>1, <1>2, <1>3, <2>1, TakeRing DEF TypedRing
  <2>3. Available(isem') + iwoken' + icursor' = Len(typed')
    <3> PICK a, b, c, t \in Nat : /\ a = Available(isem) /\ b = iwoken /\ c = icursor /\ t = Len(typed)
                                /\ a + b + c = t
      BY Counts
    <3> PICK a1 \in Nat : a1 = Available(isem')
      BY <2>1 DEF Available
    <3> PICK t1 \in Nat : t1 = Len(typed')
      BY <2>2
    <3>1. a1 + 1 = a /\ t1 + 1 = t /\ iwoken' = b /\ icursor' = c
      BY <1>2, <1>3, <2>1, <2>2
    <3>2. a1 + b + c = t1
      BY ONLY <3>1, a \in Nat, b \in Nat, c \in Nat, t \in Nat, a1 \in Nat, t1 \in Nat, a + b + c = t
    <3> QED BY <3>1, <3>2
  <2> QED BY <1>1, <1>2, <1>3, <2>1, <2>2, <2>3 DEF InInv, InCount, Available
<1>4. CASE iwoken > 0 /\ iwoken' = iwoken - 1 /\ TakeChar /\ UNCHANGED isem
  <2>0. Available(isem) \in Nat
    BY <1>1 DEF Available
  <2>1. Len(typed) > 0 /\ iwoken' \in Nat
    BY <1>1, <1>4, <2>0
  <2>2. TypedRing' /\ Len(typed') + 1 = Len(typed) /\ Len(typed') \in Nat
    BY <1>1, <1>2, <1>4, <2>1, TakeRing DEF TypedRing
  <2>3. Available(isem') + iwoken' + icursor' = Len(typed')
    <3> PICK a, b, c, t \in Nat : /\ a = Available(isem) /\ b = iwoken /\ c = icursor /\ t = Len(typed)
                                /\ a + b + c = t
      BY Counts
    <3> PICK b1 \in Nat : b1 = iwoken'
      BY <2>1
    <3> PICK t1 \in Nat : t1 = Len(typed')
      BY <2>2
    <3>1. isem' = isem /\ b1 = b - 1 /\ t1 + 1 = t /\ icursor' = c
      BY <1>2, <1>4, <2>2
    <3>2. a + b1 + c = t1
      BY ONLY <3>1, a \in Nat, b \in Nat, c \in Nat, t \in Nat, b1 \in Nat, t1 \in Nat, a + b + c = t
    <3> QED BY <3>1, <3>2
  <2> QED BY <1>1, <1>2, <1>4, <2>1, <2>2, <2>3 DEF InInv, InCount, Available
<1>5. CASE InputWait
  <2>1. isem' \in Int /\ Available(isem') = Available(isem) /\ UNCHANGED <<ihead, iwoken, typed>>
    BY <1>1, <1>5 DEF InputWait, Available
  <2>2. TypedRing'
    BY <1>1, <1>2, <2>1 DEF TypedRing, InPlace
  <2> QED BY <1>1, <1>2, <2>1, <2>2 DEF InInv, InCount, Available
<1> QED BY <1>3, <1>4, <1>5 DEF ttygetc

\* A look ahead gives back what it waited for.
LEMMA NextCharInv ==
    ASSUME InInv, NextChar PROVE InInv'
<1>1. TypedRing /\ isem \in Int /\ iwoken \in Nat /\ icursor \in Nat /\ Available(isem) + iwoken + icursor = Len(typed)
  BY DEF InInv, InCount
<1>2. /\ iwoken > 0 /\ isem' = isem + 1 /\ iwoken' = (IF isem < 0 THEN iwoken ELSE iwoken - 1)
      /\ UNCHANGED <<ibuff, ihead, itail, icursor, typed>>
  BY DEF NextChar
<1>3. isem' \in Int /\ iwoken' \in Nat /\ Available(isem') + iwoken' = Available(isem) + iwoken
  BY <1>1, <1>2 DEF Available
<1>4. TypedRing'
  BY <1>1, <1>2 DEF TypedRing, InPlace
<1> QED BY <1>1, <1>2, <1>3, <1>4 DEF InInv, InCount, Available

\* The input queue is untouched.
LEMMA InSame ==
    ASSUME InInv, UNCHANGED <<ibuff, ihead, itail, isem, icursor, iwoken, typed>> PROVE InInv'
BY DEF InInv, TypedRing, InCount, InPlace, Available

\* The output queue is untouched.
LEMMA OutSame ==
    ASSUME OutInv, UNCHANGED outVars PROVE OutInv'
BY DEF OutInv, outVars, OutPlace, Available

\* The echo queue is untouched.
LEMMA EchoSame ==
    ASSUME EchoInv, UNCHANGED echoVars PROVE EchoInv'
BY DEF EchoInv, echoVars

\* The interrupt stays on.
LEMMA KickSame ==
    ASSUME KickInv, UNCHANGED <<outVars, echoVars>>, \/ etbei' = etbei
                                                     \/ \E b \in BOOLEAN : etbei' = (etbei \/ b)
    PROVE  KickInv'
BY DEF KickInv, outVars, echoVars

\* The effect of Store: the tail wraps.
LEMMA StoreTail ==
    ASSUME TypedRing, NEW key \in Chars, Store(key), ihead' = ihead, Len(typed') <= TY_IBUFLEN
    PROVE  TypedRing' /\ Len(typed') = Len(typed) + 1
<1>1. TY_IBUFLEN \in Nat \ {0} /\ itail \in 0..TY_IBUFLEN - 1 /\ typed \in Seq(Chars) /\ Len(typed) \in Nat
  BY InSizes
<1>2. 1 \in 0..TY_IBUFLEN
  BY <1>1
<1>3. /\ ibuff' = [ibuff EXCEPT ![itail] = key] /\ itail' = Step(itail, 1, TY_IBUFLEN)
      /\ typed' = Append(typed, key)
  BY <1>1, <1>2, StepMod DEF Store, Next1
<1>4. Len(typed) < TY_IBUFLEN
  <2>1. Len(typed') = Len(typed) + 1
    BY <1>1, <1>3
  <2> QED BY <1>1, <2>1
<1> QED BY <1>3, <1>4, StoreRing

\* A raw character or an end-of-file, before the end of the buffer: it can be read at once.
LEMMA StoreOneInv ==
    ASSUME InInv, NEW key \in Chars, StoreOne(key), UNCHANGED <<ihead, icursor>>,
           itail' \in 0..TY_IBUFLEN - 1, Len(typed') <= TY_IBUFLEN
    PROVE  InInv'
<1>1. TypedRing /\ isem \in Int /\ iwoken \in Nat /\ icursor \in Nat /\ Available(isem) + iwoken + icursor = Len(typed)
  BY DEF InInv, InCount
<1>2. TY_IBUFLEN \in Nat \ {0} /\ itail \in 0..TY_IBUFLEN - 1 /\ typed \in Seq(Chars) /\ Len(typed) \in Nat
  BY <1>1, InSizes
<1>3. /\ ibuff' = [ibuff EXCEPT ![itail] = key] /\ itail' = itail + 1 /\ typed' = Append(typed, key)
      /\ isem' = isem + 1 /\ iwoken' = iwoken + Least(1, Waiting(isem))
  BY DEF StoreOne, Isignal
<1>4. itail' = Step(itail, 1, TY_IBUFLEN)
  BY <1>2, <1>3 DEF Step
<1>5. Len(typed) < TY_IBUFLEN
  <2>1. Len(typed') = Len(typed) + 1
    BY <1>2, <1>3
  <2> QED BY <1>2, <2>1
<1>6. TypedRing' /\ Len(typed') = Len(typed) + 1
  BY <1>1, <1>3, <1>4, <1>5, StoreRing
<1>7. isem' \in Int /\ iwoken' \in Nat /\ Available(isem') + iwoken' = Available(isem) + iwoken + 1
  <2> PICK z \in Nat : z = 1
    OBVIOUS
  <2> QED BY <1>1, <1>3, SignalCount
<1>9. Available(isem') + iwoken' + icursor' = Len(typed')
  <2> PICK a, b, c, t \in Nat : /\ a = Available(isem) /\ b = iwoken /\ c = icursor /\ t = Len(typed)
                              /\ a + b + c = t
    BY Counts
  <2> PICK a1 \in Nat : a1 = Available(isem')
    BY <1>7 DEF Available
  <2> PICK b1 \in Nat : b1 = iwoken'
    BY <1>7
  <2>1. a1 + b1 = a + b + 1 /\ Len(typed') = t + 1 /\ icursor' = c
    BY <1>6, <1>7
  <2>2. a1 + b1 + c = t + 1
    BY ONLY <2>1, a \in Nat, b \in Nat, c \in Nat, t \in Nat, a1 \in Nat, b1 \in Nat, a + b + c = t
  <2> QED BY <2>1, <2>2
<1> QED BY <1>1, <1>6, <1>7, <1>9 DEF InInv, InCount, Available

\* An ordinary character joins the line.
LEMMA CharInv ==
    ASSUME InInv, NEW key \in Chars, ttyhandle_char(key), Len(typed') <= TY_IBUFLEN
    PROVE  InInv'
<1>1. TypedRing /\ isem \in Int /\ iwoken \in Nat /\ icursor \in Nat /\ Available(isem) + iwoken + icursor = Len(typed)
  BY DEF InInv, InCount
<1>2. Store(key) /\ icursor' = icursor + 1 /\ UNCHANGED <<ihead, isem, iwoken>>
  BY DEF ttyhandle_char
<1>3. TypedRing' /\ Len(typed') = Len(typed) + 1
  BY <1>1, <1>2, StoreTail
<1>4. Available(isem) \in Nat
  BY <1>1 DEF Available
<1>5. Available(isem) + iwoken' + icursor' = Len(typed') /\ icursor' \in Nat
  <2> PICK a, b, c, t \in Nat : /\ a = Available(isem) /\ b = iwoken /\ c = icursor /\ t = Len(typed)
                                /\ a + b + c = t
    BY Counts
  <2>1. c + 1 \in Nat /\ a + b + (c + 1) = t + 1
    BY ONLY a \in Nat, b \in Nat, c \in Nat, t \in Nat, a + b + c = t
  <2>2. iwoken' = b /\ icursor' = c + 1 /\ Len(typed') = t + 1
    BY <1>2, <1>3
  <2> QED BY <2>1, <2>2
<1> QED BY <1>1, <1>2, <1>3, <1>5 DEF InInv, InCount, Available

\* The end of a line: the line, and the newline after it, can be read.
LEMMA EolInv ==
    ASSUME InInv, ttyhandle_eol, Len(typed') <= TY_IBUFLEN
    PROVE  InInv'
<1> PICK key \in Chars : key = "nl"
  BY DEF Chars
<1>1. TypedRing /\ isem \in Int /\ iwoken \in Nat /\ icursor \in Nat /\ Available(isem) + iwoken + icursor = Len(typed)
  BY DEF InInv, InCount
<1> PICK m \in Nat : m = icursor + 1
  BY <1>1
<1>2. /\ Store(key) /\ icursor' = 0 /\ ihead' = ihead
      /\ isem' = isem + m /\ iwoken' = iwoken + Least(m, Waiting(isem))
  BY DEF ttyhandle_eol, Isignal, LineLen
<1>3. TypedRing' /\ Len(typed') = Len(typed) + 1
  BY <1>1, <1>2, StoreTail
<1>4. isem' \in Int /\ iwoken' \in Nat /\ Available(isem') + iwoken' = Available(isem) + iwoken + m
  BY <1>1, <1>2, SignalCount
<1>5. Available(isem) \in Nat
  BY <1>1 DEF Available
<1>6. Available(isem') + iwoken' + icursor' = Len(typed')
  <2> PICK a, b, c, t \in Nat : /\ a = Available(isem) /\ b = iwoken /\ c = icursor /\ t = Len(typed)
                                /\ a + b + c = t
    BY Counts
  <2>0. Available(isem') \in Nat
    BY <1>4 DEF Available
  <2> PICK a1, b1 \in Nat : a1 = Available(isem') /\ b1 = iwoken'
    BY <1>4, <2>0
  <2>1. a1 + b1 = a + b + m /\ m = c + 1 /\ icursor' = 0 /\ Len(typed') = t + 1
    BY <1>2, <1>3, <1>4
  <2>2. a1 + b1 + 0 = t + 1
    BY ONLY <2>1, a \in Nat, b \in Nat, c \in Nat, t \in Nat, a1 \in Nat, b1 \in Nat, m \in Nat, a + b + c = t
  <2> QED BY <2>1, <2>2
<1> QED BY <1>2, <1>3, <1>4, <1>6 DEF InInv, InCount, Available

\* A line that does not wrap is killed.
LEMMA KillLineInv ==
    ASSUME InInv, ttyhandle_kill, itail' \in 0..TY_IBUFLEN - 1
    PROVE  InInv'
<1>1. TypedRing /\ isem \in Int /\ iwoken \in Nat /\ icursor \in Nat /\ Available(isem) + iwoken + icursor = Len(typed)
  BY DEF InInv, InCount
<1>2. /\ TY_IBUFLEN \in Nat \ {0} /\ ihead \in 0..TY_IBUFLEN - 1 /\ itail \in 0..TY_IBUFLEN - 1
      /\ Len(typed) \in 0..TY_IBUFLEN /\ itail = Step(ihead, Len(typed), TY_IBUFLEN)
  BY <1>1, InSizes
<1>3. Available(isem) \in Nat
  BY <1>1 DEF Available
<1> PICK a, b, c, t \in Nat : /\ a = Available(isem) /\ b = iwoken /\ c = icursor /\ t = Len(typed)
                            /\ a + b + c = t
  BY Counts
<1>10. t - c \in Nat
  BY ONLY a \in Nat, b \in Nat, c \in Nat, t \in Nat, a + b + c = t
<1> PICK m \in Nat : m = t - c
  BY <1>10
<1>4. m <= Len(typed) /\ m + icursor = Len(typed)
  BY <1>1, <1>2
<1>5. /\ itail' = itail - icursor /\ icursor' = 0 /\ typed' = SubSeq(typed, 1, m)
      /\ UNCHANGED <<ibuff, isem, iwoken>>
  BY DEF ttyhandle_kill
<1>6. ihead' = ihead
  BY <1>1, <1>2, <1>5 DEF ttyhandle_kill
<1>7. itail' = Step(ihead, m, TY_IBUFLEN)
  <2>1. itail = Step(ihead, t, TY_IBUFLEN) /\ itail' = itail - c
    BY <1>2, <1>5
  <2> QED BY ONLY <1>2, <2>1, c \in Nat, t \in Nat, m \in Nat, m = t - c, itail' \in 0..TY_IBUFLEN - 1 DEF Step
<1>8. TypedRing' /\ Len(typed') = m
  BY <1>1, <1>4, <1>5, <1>6, <1>7, DropRing
<1>9. Available(isem) + iwoken + 0 = m
  <2>1. a + b + 0 = m
    BY ONLY a \in Nat, b \in Nat, c \in Nat, t \in Nat, a + b + c = t, m \in Nat, m = t - c
  <2> QED BY <2>1
<1> QED BY <1>1, <1>5, <1>8, <1>9 DEF InInv, InCount, Available

\* The last character of the line is erased, if there is one.
LEMMA EraseInv ==
    ASSUME InInv, ttyhandle_erase
    PROVE  InInv'
<1>1. TypedRing /\ isem \in Int /\ iwoken \in Nat /\ icursor \in Nat /\ Available(isem) + iwoken + icursor = Len(typed)
  BY DEF InInv, InCount
<1>2. /\ TY_IBUFLEN \in Nat \ {0} /\ ihead \in 0..TY_IBUFLEN - 1 /\ itail \in 0..TY_IBUFLEN - 1
      /\ Len(typed) \in 0..TY_IBUFLEN /\ itail = Step(ihead, Len(typed), TY_IBUFLEN)
  BY <1>1, InSizes
<1>3. UNCHANGED <<ibuff, ihead, isem, iwoken>>
  BY DEF ttyhandle_erase
<1>4. CASE icursor = 0
  <2>1. UNCHANGED <<icursor, typed, itail>>
    BY <1>4 DEF ttyhandle_erase
  <2> QED BY <1>3, <2>1, InSame
<1>5. CASE icursor > 0
  <2> PICK a, b, c, t \in Nat : /\ a = Available(isem) /\ b = iwoken /\ c = icursor /\ t = Len(typed)
                              /\ a + b + c = t
    BY Counts
  <2> PICK m \in Nat : m + 1 = t
    <3>1. c > 0
      BY <1>5
    <3>2. t - 1 \in Nat /\ (t - 1) + 1 = t
      BY ONLY <3>1, a \in Nat, b \in Nat, c \in Nat, t \in Nat, a + b + c = t
    <3> QED BY <3>2
  <2>1. m + 1 = Len(typed)
    OBVIOUS
  <2>2. Len(typed) - 1 = m
    BY <1>2
  <2>3. icursor' = icursor - 1 /\ typed' = SubSeq(typed, 1, m) /\ itail' = IF itail = 0 THEN TY_IBUFLEN - 1 ELSE itail - 1
    BY <1>5, <2>2 DEF ttyhandle_erase, Front
  <2>4. itail' = Step(ihead, m, TY_IBUFLEN)
    <3>1. itail = Step(ihead, t, TY_IBUFLEN) /\ t \in 0..TY_IBUFLEN
      BY <1>2
    <3> QED BY ONLY <1>2, <2>3, <3>1, t \in Nat, m \in Nat, m + 1 = t DEF Step
  <2>5. m <= Len(typed)
    BY <1>2
  <2>6. TypedRing' /\ Len(typed') = m
    BY <1>1, <1>3, <2>3, <2>4, <2>5, DropRing
  <2>7. icursor' \in Nat /\ Available(isem) + iwoken + icursor' = m
    <3> PICK c1 \in Nat : c1 = c - 1
      BY <1>5
    <3>1. a + b + c1 = m
      BY ONLY a \in Nat, b \in Nat, c \in Nat, t \in Nat, a + b + c = t, m \in Nat, m + 1 = t, c1 \in Nat, c1 = c - 1
    <3> QED BY <2>3, <3>1
  <2> QED BY <1>1, <1>3, <2>6, <2>7 DEF InInv, InCount, Available
<1> QED BY <1>1, <1>4, <1>5

\* What is known when nothing has gone wrong with a character.
LEMMA NoFault ==
    ASSUME InputFault = "none"
    PROVE  /\ ~(echoes' >= TY_EBUFLEN) /\ itail' \in 0..TY_IBUFLEN - 1 /\ ~(Len(typed') > TY_IBUFLEN)
           /\ imode = "CBREAK" => typed' = typed
BY DEF InputFault

\* A character that arrives keeps the queues, or the handler has overrun one.
LEMMA HandleInInv ==
    ASSUME InInv, EchoInv, KickInv, OutInv, NEW key \in Chars, ttyhandle_in(key), fault' = "none"
    PROVE  InInv' /\ EchoInv' /\ KickInv' /\ OutInv'
<1>0. InputFault = "none"
  BY DEF ttyhandle_in
<1>1. /\ ~(echoes' >= TY_EBUFLEN) /\ itail' \in 0..TY_IBUFLEN - 1 /\ ~(Len(typed') > TY_IBUFLEN)
      /\ imode = "CBREAK" => typed' = typed
  BY <1>0, NoFault
<1>2. UNCHANGED outVars /\ OutInv'
  BY OutSame DEF ttyhandle_in
<1>3. ASSUME NEW m \in 0..3, eputc(m) \/ Echo(m) PROVE EchoInv' /\ KickInv'
  <2>1. echoes' \in Int /\ TY_EBUFLEN \in Int
    <3>1. echoes \in Int
      BY DEF EchoInv, TtyAssumption
    <3>2. echoes' = echoes + m \/ echoes' = echoes + 0
      BY <1>3 DEF eputc, Echo
    <3> QED BY <3>1, <3>2 DEF TtyAssumption
  <2>2. echoes' < TY_EBUFLEN
    BY <1>1, <2>1
  <2> QED BY <1>2, <1>3, <2>2, EchoBoth
<1>4. ASSUME typed' \in Seq(Chars) PROVE Len(typed') <= TY_IBUFLEN
  <2>1. Len(typed') \in Nat /\ TY_IBUFLEN \in Nat
    BY <1>4 DEF TtyAssumption
  <2> QED BY <1>1, <2>1
<1>5. typed \in Seq(Chars) /\ TypedRing
  BY DEF InInv, TypedRing
<1>6. CASE imode = "RAW" /\ ttyhandle_raw(key) /\ UNCHANGED <<ihead, icursor, oheld, etbei, echoVars>>
  <2>1. EchoInv' /\ KickInv'
    BY <1>2, <1>6, EchoSame, KickSame
  <2>2. CASE StoreOne(key)
    <3>1. typed' \in Seq(Chars)
      BY <1>5, <2>2 DEF StoreOne
    <3> QED BY <1>1, <1>2, <1>4, <1>6, <2>1, <2>2, <3>1, StoreOneInv
  <2>3. CASE UNCHANGED <<ibuff, itail, isem, iwoken, typed>>
    BY <1>2, <1>6, <2>1, <2>3, InSame
  <2> QED BY <1>6, <2>2, <2>3 DEF ttyhandle_raw
<1>7. CASE key \in {"start", "stop"} /\ UNCHANGED <<ibuff, ihead, itail, isem, iwoken, icursor, typed, echoVars>> /\ etbei' = (etbei \/ key = "start")
  <2> PICK b \in BOOLEAN : b = (key = "start")
    OBVIOUS
  <2>1. KickInv'
    BY <1>2, <1>7, KickSame
  <2> QED BY <1>2, <1>7, <2>1, InSame, EchoSame
<1>8. CASE imode = "CBREAK" /\ ttyhandle_cbreak(key) /\ UNCHANGED <<ihead, isem, iwoken, icursor>>
  <2>1. typed' = typed
    BY <1>1, <1>8
  <2>2. ~Store(key)
    <3>1. Append(typed, key) # typed
      <4>1. Len(Append(typed, key)) # Len(typed)
        BY <1>5
      <4> QED BY <4>1
    <3> QED BY <2>1, <3>1 DEF Store
  <2>3. eputc(1) /\ UNCHANGED <<ibuff, itail, typed>>
    BY <1>8, <2>2 DEF ttyhandle_cbreak
  <2> PICK m \in 0..3 : m = 1
    OBVIOUS
  <2>4. eputc(m)
    BY <2>3
  <2> QED BY <1>2, <1>3, <1>8, <2>3, <2>4, InSame
<1>9. CASE ttyhandle_kill
  <2> PICK m \in 0..3 : m = 2
    OBVIOUS
  <2>1. eputc(m)
    BY <1>9 DEF ttyhandle_kill
  <2> QED BY <1>1, <1>2, <1>3, <1>9, <2>1, KillLineInv
<1>10. CASE ttyhandle_erase
  <2> PICK m \in 0..3 : m = 3
    OBVIOUS
  <2>1. Echo(m) \/ UNCHANGED <<etbei, echoVars>>
    BY <1>10 DEF ttyhandle_erase
  <2>2. InInv'
    BY <1>10, EraseInv
  <2>3. EchoInv' /\ KickInv'
    BY <1>2, <1>3, <2>1, EchoSame, KickSame
  <2> QED BY <1>2, <2>2, <2>3
<1>11. CASE ttyhandle_eol
  <2> PICK m \in 0..3 : m = 2
    OBVIOUS
  <2>1. Echo(m) /\ Store("nl")
    BY <1>11 DEF ttyhandle_eol
  <2>2. typed' \in Seq(Chars)
    BY <1>5, <2>1 DEF Store, Chars
  <2> QED BY <1>2, <1>3, <1>4, <1>11, <2>1, <2>2, EolInv
<1>12. CASE eputc(1) /\ UNCHANGED <<ibuff, ihead, itail, isem, iwoken, icursor, typed>>
  <2> PICK m \in 0..3 : m = 1
    OBVIOUS
  <2>1. eputc(m)
    BY <1>12
  <2> QED BY <1>2, <1>3, <1>12, <2>1, InSame
<1>13. CASE ttyhandle_eof
  <2> PICK m \in 0..3 : m = 2
    OBVIOUS
  <2> PICK c \in Chars : c = "eof"
    BY DEF Chars
  <2>1. Echo(m) /\ UNCHANGED <<ihead, icursor>>
    BY <1>13 DEF ttyhandle_eof
  <2>2. CASE StoreOne(c)
    <3>1. typed' \in Seq(Chars)
      BY <1>5, <2>2 DEF StoreOne
    <3>2. InInv'
      BY <1>1, <1>4, <2>1, <2>2, <3>1, StoreOneInv
    <3> QED BY <1>2, <1>3, <2>1, <3>2
  <2>3. CASE UNCHANGED <<ibuff, itail, isem, iwoken, typed>>
    BY <1>2, <1>3, <2>1, <2>3, InSame
  <2> QED BY <1>13, <2>2, <2>3 DEF ttyhandle_eof
<1>14. CASE ttyhandle_char(key)
  <2> PICK m \in 0..3 : m = 1
    OBVIOUS
  <2>1. Echo(m) /\ Store(key)
    BY <1>14 DEF ttyhandle_char
  <2>2. typed' \in Seq(Chars)
    BY <1>5, <2>1 DEF Store
  <2> QED BY <1>2, <1>3, <1>4, <1>14, <2>1, <2>2, CharInv
<1> QED BY <1>6, <1>7, <1>8, <1>9, <1>10, <1>11, <1>12, <1>13, <1>14 DEF ttyhandle_in

\* The queues as ttyinit makes them.
LEMMA TtyStart ==
    ASSUME TtyInit PROVE InInv /\ OutInv /\ EchoInv /\ KickInv
<1>1. TY_IBUFLEN \in Nat \ {0} /\ TY_OBUFLEN \in Nat \ {0} /\ TY_EBUFLEN \in Nat \ {0}
  BY DEF TtyAssumption
<1>2. ASSUME NEW n \in Nat \ {0} PROVE 0 \in 0..n - 1 /\ Step(0, 0, n) = 0
  BY DEF Step
<1>3. InInv
  <2>1. "nul" \in Chars
    BY DEF Chars
  <2>2. ibuff \in [0..TY_IBUFLEN - 1 -> Chars]
    BY <2>1 DEF TtyInit
  <2>3. /\ typed \in Seq(Chars) /\ Len(typed) = 0
        /\ isem = 0 /\ icursor = 0 /\ iwoken = 0 /\ ihead = 0 /\ itail = 0
    BY DEF TtyInit
  <2>4. \A i \in 0..TY_IBUFLEN - 1 : ~(i < 0)
    BY <1>1
  <2>5. TypedRing
    BY <1>1, <1>2, <2>2, <2>3, <2>4 DEF TypedRing
  <2>6. InCount
    BY <2>3 DEF InCount, Available
  <2> QED BY <2>5, <2>6 DEF InInv
<1>4. OutInv
  <2>1. obuff \in [0..TY_OBUFLEN - 1 -> Nat]
    BY DEF TtyInit
  <2>2. outs = 0 /\ sent = 0 /\ outs - sent = 0 /\ ohead = 0 /\ otail = 0 /\ osem = TY_OBUFLEN /\ owoken = 0
    BY DEF TtyInit
  <2>3. \A i \in 0..TY_OBUFLEN - 1 : ~(i < 0)
    BY <1>1
  <2>4. 0 \in 0..TY_OBUFLEN /\ Available(osem) + owoken = TY_OBUFLEN - 0 /\ osem \in Int
    BY <1>1, <2>2 DEF Available
  <2> QED BY <1>1, <1>2, <2>1, <2>2, <2>3, <2>4 DEF OutInv
<1>5. EchoInv
  BY <1>1, <1>2 DEF TtyInit, EchoInv
<1>6. KickInv
  BY DEF TtyInit, KickInv
<1> QED BY <1>3, <1>4, <1>5, <1>6

\* The invariants say what TtyQueues says.
LEMMA QueuesInOrder ==
    ASSUME fault = "none" => InInv /\ OutInv /\ EchoInv /\ KickInv PROVE TtyQueues
<1> SUFFICES ASSUME fault = "none", InInv, OutInv, EchoInv, KickInv
    PROVE  /\ Available(isem) + iwoken + icursor = Len(typed)
           /\ \A i \in 1..Len(typed) : ibuff[(ihead + i - 1) % TY_IBUFLEN] = typed[i]
           /\ Available(osem) + owoken = TY_OBUFLEN - (outs - sent)
           /\ \A i \in 1..outs - sent : obuff[(ohead + i - 1) % TY_OBUFLEN] = sent + i
           /\ echoes = (etail + TY_EBUFLEN - ehead) % TY_EBUFLEN
           /\ outs > sent \/ echoes > 0 => etbei
  BY DEF TtyQueues
<1>1. TY_IBUFLEN \in Nat \ {0} /\ Len(typed) \in 0..TY_IBUFLEN /\ ihead \in 0..TY_IBUFLEN - 1
  BY InSizes DEF InInv
<1>2. ASSUME NEW i \in 1..Len(typed) PROVE ibuff[(ihead + i - 1) % TY_IBUFLEN] = typed[i]
  <2> PICK j \in 0..TY_IBUFLEN - 1 : j + 1 = i
    BY <1>1
  <2>1. j \in 0..TY_IBUFLEN /\ j < Len(typed) /\ ihead + i - 1 = ihead + j
    BY <1>1
  <2>2. (ihead + j) % TY_IBUFLEN = Step(ihead, j, TY_IBUFLEN)
    BY <1>1, <2>1, StepMod
  <2>3. InPlace(j) = typed[j + 1]
    BY <2>1 DEF InInv, TypedRing
  <2> QED BY <2>1, <2>2, <2>3 DEF InPlace
<1>3. /\ Available(isem) + iwoken + icursor = Len(typed)
      /\ Available(osem) + owoken = TY_OBUFLEN - (outs - sent)
      /\ outs > sent \/ echoes > 0 => etbei
  BY DEF InInv, InCount, OutInv, KickInv
<1>7. ASSUME NEW i \in 1..outs - sent PROVE obuff[(ohead + i - 1) % TY_OBUFLEN] = sent + i
  <2>1. TY_OBUFLEN \in Nat \ {0} /\ ohead \in 0..TY_OBUFLEN - 1 /\ outs - sent \in 0..TY_OBUFLEN /\ outs \in Nat /\ sent \in Nat
    BY OutTypes
  <2> PICK j \in 0..TY_OBUFLEN - 1 : j = i - 1
    BY <2>1
  <2>2. j \in 0..TY_OBUFLEN /\ j < outs - sent /\ ohead + i - 1 = ohead + j /\ sent + j + 1 = sent + i
    BY <2>1
  <2>3. (ohead + j) % TY_OBUFLEN = Step(ohead, j, TY_OBUFLEN)
    BY <2>1, <2>2, StepMod
  <2>4. OutPlace(j) = sent + j + 1
    BY <2>2 DEF OutInv
  <2> QED BY <2>2, <2>3, <2>4 DEF OutPlace
<1>8. echoes = (etail + TY_EBUFLEN - ehead) % TY_EBUFLEN
  <2>1. /\ TY_EBUFLEN \in Nat \ {0} /\ ehead \in 0..TY_EBUFLEN - 1 /\ echoes \in 0..TY_EBUFLEN - 1
        /\ etail = Step(ehead, echoes, TY_EBUFLEN)
    BY DEF EchoInv, TtyAssumption
  <2> QED BY <2>1, StepBack
<1> QED BY <1>2, <1>3, <1>7, <1>8

\* For queues of any size and however many processes read, write and wait: until a queue
\* overruns in one of the ways that fault names, ttygetc returns what was typed, after
\* editing and in order, and what is written or echoed reaches the UART once each, in order,
\* and without having to wait for another kick.
THEOREM ConsoleCorrect == TtySpec => []TtyQueues
<1> DEFINE Queues == InInv /\ OutInv /\ EchoInv /\ KickInv
           Inv == fault = "none" => Queues
<1>1. TtyInit => Inv
  BY TtyStart
<1>2. Inv /\ [TtyNext]_ttyVars => Inv'
  <2> SUFFICES ASSUME Inv, [TtyNext]_ttyVars, fault' = "none" PROVE Queues'
    OBVIOUS
  <2>0. CASE UNCHANGED ttyVars
    <3>1. /\ UNCHANGED <<ibuff, ihead, itail, isem, icursor, iwoken, typed>> /\ UNCHANGED <<outVars, echoVars>>
          /\ etbei' = etbei /\ fault' = fault
      BY <2>0 DEF ttyVars, inVars
    <3>2. Queues
      BY <3>1
    <3> QED BY <3>1, <3>2, InSame, OutSame, EchoSame, KickSame
  <2> SUFFICES ASSUME TtyNext PROVE Queues'
    BY <2>0
  <2>1. fault = "none" /\ Queues
    BY DEF TtyNext
  <2>2. ASSUME NEW key \in Letters \cup {"nl", "bs", "kill", "eof", "start", "stop"}, ttyhandle_in(key) PROVE Queues'
    <3>1. key \in Chars
      BY DEF Chars
    <3> QED BY <2>1, <2>2, <3>1, HandleInInv
  <2>3. CASE ttyhandle_out
    <3>1. UNCHANGED <<ibuff, ihead, itail, isem, icursor, iwoken, typed>>
      BY <2>3 DEF ttyhandle_out, inVars
    <3> QED BY <2>1, <2>3, <3>1, InSame, HandleOutInv
  <2>4. CASE ttygetc
    <3>1. UNCHANGED <<outVars, echoVars>> /\ etbei' = etbei
      BY <2>4 DEF ttygetc
    <3> QED BY <2>1, <2>4, <3>1, GetcInv, OutSame, EchoSame, KickSame
  <2>5. CASE ttyputc
    <3>1. UNCHANGED <<ibuff, ihead, itail, isem, icursor, iwoken, typed>> /\ UNCHANGED echoVars
      BY <2>5 DEF ttyputc, inVars
    <3> QED BY <2>1, <2>5, <3>1, InSame, PutcInv, EchoSame
  <2>6. CASE ttycontrol
    <3>1. UNCHANGED <<outVars, echoVars>> /\ etbei' = etbei
      BY <2>6 DEF ttycontrol
    <3>2. InInv'
      <4>1. CASE NextChar
        BY <2>1, <4>1, NextCharInv
      <4>2. CASE UNCHANGED <<ibuff, ihead, itail, isem, iwoken, icursor, typed, keys>>
        BY <2>1, <4>2, InSame
      <4> QED BY <2>6, <4>1, <4>2 DEF ttycontrol
    <3> QED BY <2>1, <3>1, <3>2, OutSame, EchoSame, KickSame
  <2> QED BY <2>2, <2>3, <2>4, <2>5, <2>6 DEF TtyNext, ttyhandler
<1>3. Inv => TtyQueues
  BY QueuesInOrder
<1> QED BY <1>1, <1>2, <1>3, PTL DEF TtySpec

-----------------------------------------------------------------------------
(* The protocols *)

HIDE TtyAssumption

\* Every nonempty set of naturals has a least element.
LEMMA LeastNatural ==
    ASSUME NEW S \in SUBSET Nat, S # {}
    PROVE  \E m \in S : \A n \in S : m <= n
<1> DEFINE R == {ss \in Nat \X Nat : ss[1] < ss[2]}
<1>1. IsWellFoundedOn(R, Nat)
  BY NatLessThanWellFounded, Zenon DEF OpToRel
<1>2. PICK m \in S : \A n \in S : ~(<<n, m>> \in R)
  <2> HIDE DEF R
  <2> QED BY <1>1, WFMin
<1>3. \A n \in S : m <= n
  <2> SUFFICES ASSUME NEW n \in S, ~(m <= n) PROVE FALSE
    OBVIOUS
  <2>1. n \in Nat /\ m \in Nat /\ n < m
    OBVIOUS
  <2>2. <<n, m>> \in Nat \X Nat
    BY <2>1
  <2>3. <<n, m>>[1] < <<n, m>>[2]
    BY <2>1
  <2>4. <<n, m>> \in R
    BY <2>2, <2>3, Zenon
  <2> QED BY <1>2, <2>4
<1> QED BY <1>3

-----------------------------------------------------------------------------
(* ARP *)

ArpEntries == [state : {"FREE", "PENDING", "RESOLVED"}, addr : Nat, mac : Nat, pid : Resolvers \cup {"none"}]
Resolutions == [pc : {"idle", "wait", "OK", "SYSERR", "TIMEOUT"}, host : Nat, slot : ArpSlots, i : Nat,
                msg : {"none", "OK", "SYSERR", "stray"}, mac : Nat, doubt : SUBSET {"message", "stolen"}]
ArpTypeOK == /\ arpcache \in [ArpSlots -> ArpEntries] /\ res \in [Resolvers -> Resolutions]
             /\ abandoned \subseteq ArpSlots

\* A process that waits and has no message yet owns the pending entry it waits for.
WaitersOwn ==
    \A p \in Resolvers : res[p].pc = "wait" /\ res[p].msg = "none" =>
        LET e == arpcache[res[p].slot]
        IN  e.state = "PENDING" /\ e.pid = p /\ e.addr = res[p].host /\ res[p].slot \notin abandoned

\* A process that waits and was woken by arp_in for its own entry finds the host there, unless
\* the entry was taken from it.
WokenRight ==
    \A p \in Resolvers : res[p].pc = "wait" /\ res[p].msg # "none" /\ res[p].doubt = {} =>
        LET e == arpcache[res[p].slot] IN e.state = "RESOLVED" /\ e.addr = res[p].host

\* What it then returns is that host's address.
AnswerRight == \A p \in Resolvers : res[p].pc = "OK" /\ res[p].doubt = {} => res[p].mac = res[p].host

\* A pending entry has its process waiting for it, unless that has left.
PendingWaits ==
    \A s \in ArpSlots : arpcache[s].state = "PENDING" /\ s \notin abandoned =>
        LET p == arpcache[s].pid
        IN  p \in Resolvers /\ res[p].pc = "wait" /\ res[p].slot = s /\ res[p].host = arpcache[s].addr
AbandonedPending == \A s \in abandoned : arpcache[s].state = "PENDING"

AddressOnce ==
    \A s, t \in ArpSlots : arpcache[s].state # "FREE" /\ arpcache[t].state # "FREE" /\ s # t =>
        arpcache[s].addr # arpcache[t].addr

ResolvedRight == \A s \in ArpSlots : arpcache[s].state = "RESOLVED" => arpcache[s].mac = arpcache[s].addr

ArpInv == /\ ArpTypeOK /\ WaitersOwn /\ WokenRight /\ AnswerRight /\ PendingWaits /\ AbandonedPending
          /\ AddressOnce /\ ResolvedRight

USE ArpAssumption

\* The entry that a search of the cache finds is one of those it looked for.
LEMMA FirstIn ==
    ASSUME NEW S \in SUBSET ArpSlots, S # {}
    PROVE  First(S) \in S
<1>1. S \in SUBSET Nat
  BY DEF ArpSlots
<1>2. \E m \in S : \A n \in S : m <= n
  BY <1>1, LeastNatural
<1> QED BY <1>2, Zenon DEF First

\* arp_alloc chooses entries that no process waits for.
LEMMA AllocIdle ==
    ASSUME NEW s \in arp_alloc
    PROVE  s \in ArpSlots /\ arpcache[s].state # "PENDING"
<1>1. CASE {t \in ArpSlots : arpcache[t].state = "FREE"} # {}
  BY <1>1, FirstIn DEF arp_alloc
<1>2. CASE {t \in ArpSlots : arpcache[t].state = "FREE"} = {}
  BY <1>2, FirstIn DEF arp_alloc
<1> QED BY <1>1, <1>2

\* arp_alloc offers one entry at most.
LEMMA AllocOne ==
    \A s, t \in arp_alloc : s = t
BY DEF arp_alloc

LEMMA StolenType ==
    ASSUME ArpTypeOK
    PROVE  Stolen(res) \in [Resolvers -> Resolutions]
<1>1. \A q \in Resolvers : res[q] \in Resolutions /\ [res[q] EXCEPT !.doubt = @ \cup {"stolen"}] \in Resolutions
  BY DEF ArpTypeOK, Resolutions
<1> QED BY <1>1 DEF Stolen

\* What Stolen changes: the doubt of a process whose entry arp_alloc gives away.
LEMMA StolenFacts ==
    ASSUME ArpTypeOK, NEW p \in Resolvers
    PROVE  LET r == Stolen(res)[p]
           IN  /\ r.pc = res[p].pc /\ r.host = res[p].host /\ r.slot = res[p].slot /\ r.msg = res[p].msg
               /\ r.mac = res[p].mac /\ r.i = res[p].i /\ res[p].doubt \subseteq r.doubt
               /\ res[p].pc = "wait" /\ res[p].slot \in arp_alloc => r.doubt # {}
<1> DEFINE hurt == [res[p] EXCEPT !.doubt = @ \cup {"stolen"}]
<1>1. res[p] \in Resolutions
  BY DEF ArpTypeOK
<1>2. Stolen(res)[p] = IF res[p].pc = "wait" /\ res[p].slot \in arp_alloc THEN hurt ELSE res[p]
  BY DEF Stolen
<1>3. /\ hurt.pc = res[p].pc /\ hurt.host = res[p].host /\ hurt.slot = res[p].slot
      /\ hurt.msg = res[p].msg /\ hurt.mac = res[p].mac /\ hurt.i = res[p].i
      /\ hurt.doubt = res[p].doubt \cup {"stolen"}
  BY <1>1 DEF Resolutions
<1> HIDE DEF hurt
<1> QED BY <1>2, <1>3

\* arp_in writes the sender's address into the entry that is about the sender.
LEMMA LearnInv ==
    ASSUME ArpInv, NEW h \in ArpHosts, NEW s \in ArpFind(h), Learn(s, h)
    PROVE  ArpInv'
<1>1. s \in ArpSlots /\ arpcache[s].state # "FREE" /\ arpcache[s].addr = h /\ h \in Nat
  BY DEF ArpFind
<1>2. /\ arpcache' \in [ArpSlots -> ArpEntries]
      /\ arpcache'[s].state = "RESOLVED" /\ arpcache'[s].addr = h /\ arpcache'[s].mac = h
      /\ \A t \in ArpSlots : t # s => arpcache'[t] = arpcache[t]
  <2>1. arpcache \in [ArpSlots -> ArpEntries] /\ arpcache' = [arpcache EXCEPT ![s].mac = h, ![s].state = "RESOLVED"]
    BY DEF ArpInv, Learn, ArpTypeOK
  <2> DEFINE e == [arpcache[s] EXCEPT !.mac = h, !.state = "RESOLVED"]
  <2>2. e \in ArpEntries /\ e.state = "RESOLVED" /\ e.addr = h /\ e.mac = h
    BY <1>1, <2>1 DEF ArpEntries
  <2>3. arpcache' = [arpcache EXCEPT ![s] = e]
    BY <2>1, <1>1
  <2> HIDE DEF e
  <2> QED BY <1>1, <2>1, <2>2, <2>3
<1> DEFINE told(p) == arpcache[s].state = "PENDING" /\ p = arpcache[s].pid /\ res[p].pc = "wait" /\ res[p].msg = "none"
<1>3. /\ res' \in [Resolvers -> Resolutions]
      /\ \A p \in Resolvers :
           /\ res'[p].pc = res[p].pc /\ res'[p].host = res[p].host /\ res'[p].slot = res[p].slot
           /\ res'[p].mac = res[p].mac
           /\ told(p) => /\ res'[p].msg = "OK"
                         /\ res[p].slot # s => res'[p].doubt # {}
           /\ ~told(p) => res'[p].msg = res[p].msg /\ res'[p].doubt = res[p].doubt
  <2> DEFINE r(p) == [res[p] EXCEPT !.msg = "OK", !.doubt = IF res[p].slot = s THEN @ ELSE @ \cup {"message"}]
  <2>1. \A p \in Resolvers :
           /\ res[p] \in Resolutions /\ r(p) \in Resolutions
           /\ r(p).pc = res[p].pc /\ r(p).host = res[p].host /\ r(p).slot = res[p].slot /\ r(p).mac = res[p].mac
           /\ r(p).msg = "OK" /\ (res[p].slot # s => r(p).doubt # {})
    BY DEF ArpInv, ArpTypeOK, Resolutions
  <2>2. res' = [p \in Resolvers |-> IF told(p) THEN r(p) ELSE res[p]]
    BY DEF Learn
  <2> HIDE DEF r, told
  <2>3. \A p \in Resolvers : (IF told(p) THEN r(p) ELSE res[p]) \in Resolutions
    BY <2>1
  <2> QED BY <2>1, <2>2, <2>3
<1>4. abandoned' = abandoned \ {s}
  BY DEF Learn
<1>5. \A p \in Resolvers : res[p].slot \in ArpSlots
  BY DEF ArpInv, ArpTypeOK, Resolutions
<1>6. \A p \in Resolvers : res[p].pc = "wait" /\ res[p].msg = "none" /\ res[p].slot = s => told(p) /\ res[p].host = h
  BY <1>1, <1>5 DEF ArpInv, WaitersOwn
<1>7. ArpTypeOK'
  BY <1>2, <1>3, <1>4 DEF ArpInv, ArpTypeOK
<1>8. WaitersOwn'
  <2> SUFFICES ASSUME NEW p \in Resolvers, res'[p].pc = "wait", res'[p].msg = "none"
               PROVE  /\ arpcache'[res[p].slot].state = "PENDING" /\ arpcache'[res[p].slot].pid = p
                      /\ arpcache'[res[p].slot].addr = res[p].host /\ res[p].slot \notin abandoned'
    BY <1>3 DEF WaitersOwn
  <2>1. ~told(p) /\ res[p].msg = "none" /\ res[p].pc = "wait"
    BY <1>3
  <2>2. res[p].slot # s
    BY <1>6, <2>1
  <2> QED BY <1>2, <1>4, <1>5, <2>1, <2>2 DEF ArpInv, WaitersOwn
<1>9. WokenRight'
  <2> SUFFICES ASSUME NEW p \in Resolvers, res'[p].pc = "wait", res'[p].msg # "none", res'[p].doubt = {}
               PROVE  arpcache'[res[p].slot].state = "RESOLVED" /\ arpcache'[res[p].slot].addr = res[p].host
    BY <1>3 DEF WokenRight
  <2>1. CASE told(p)
    <3>1. res[p].slot = s
      BY <1>3, <2>1
    <3>2. res[p].host = h
      BY <1>6, <2>1, <3>1
    <3> QED BY <1>2, <3>1, <3>2
  <2>2. CASE ~told(p)
    <3>1. res[p].pc = "wait" /\ res[p].msg # "none" /\ res[p].doubt = {}
      BY <1>3, <2>2
    <3>2. arpcache[res[p].slot].state = "RESOLVED" /\ arpcache[res[p].slot].addr = res[p].host
      BY <3>1 DEF ArpInv, WokenRight
    <3> QED BY <1>1, <1>2, <1>5, <3>2
  <2> QED BY <2>1, <2>2
<1>10. AnswerRight'
  <2> SUFFICES ASSUME NEW p \in Resolvers, res'[p].pc = "OK", res'[p].doubt = {} PROVE res[p].mac = res[p].host
    BY <1>3 DEF AnswerRight
  <2>1. res[p].pc = "OK" /\ ~told(p)
    BY <1>3
  <2>2. res[p].doubt = {}
    BY <1>3, <2>1
  <2> QED BY <2>1, <2>2 DEF ArpInv, AnswerRight
<1>11. PendingWaits' /\ AbandonedPending'
  <2>1. AbandonedPending'
    BY <1>2, <1>4 DEF ArpInv, ArpTypeOK, AbandonedPending
  <2>2. PendingWaits'
    <3> SUFFICES ASSUME NEW t \in ArpSlots, arpcache'[t].state = "PENDING", t \notin abandoned'
                 PROVE  LET p == arpcache'[t].pid
                        IN  /\ p \in Resolvers /\ res'[p].pc = "wait" /\ res'[p].slot = t
                            /\ res'[p].host = arpcache'[t].addr
      BY DEF PendingWaits
    <3>1. t # s /\ arpcache'[t] = arpcache[t] /\ t \notin abandoned
      BY <1>2, <1>4
    <3> QED BY <1>3, <3>1 DEF ArpInv, PendingWaits
  <2> QED BY <2>1, <2>2
<1>12. AddressOnce' /\ ResolvedRight'
  BY <1>1, <1>2 DEF ArpInv, AddressOnce, ResolvedRight
<1> QED BY <1>7, <1>8, <1>9, <1>10, <1>11, <1>12 DEF ArpInv

\* A process that does not wait after a step, or keeps waiting as it did, upsets nothing that
\* the invariant says of the cache, which the step leaves alone.
LEMMA ResolverInv ==
    ASSUME ArpInv, NEW p \in Resolvers, NEW r \in Resolutions, res' = [res EXCEPT ![p] = r],
           arpcache' = arpcache, abandoned' = abandoned, r.pc # "wait",
           r.pc = "OK" /\ r.doubt = {} => r.mac = r.host,
           res[p].pc # "wait"
    PROVE  ArpInv'
<1>1. ArpTypeOK'
  BY DEF ArpInv, ArpTypeOK
<1>2. \A q \in Resolvers : IF q = p THEN res'[q] = r ELSE res'[q] = res[q]
  BY DEF ArpInv, ArpTypeOK
<1>3. WaitersOwn' /\ WokenRight' /\ AnswerRight'
  BY <1>2 DEF ArpInv, WaitersOwn, WokenRight, AnswerRight
<1>4. PendingWaits'
  BY <1>2 DEF ArpInv, PendingWaits
<1> QED BY <1>1, <1>3, <1>4 DEF ArpInv, AbandonedPending, AddressOnce, ResolvedRight

\* arp_in adds a sender that is not in the cache.
LEMMA AddInv ==
    ASSUME ArpInv, NEW h \in ArpHosts, ArpFind(h) = {}, arp_inRequest(h)
    PROVE  ArpInv'
<1> DEFINE new == [state |-> "RESOLVED", addr |-> h, mac |-> h, pid |-> "none"]
<1>1. /\ arpcache' = [s \in ArpSlots |-> IF s \in arp_alloc THEN new ELSE arpcache[s]]
      /\ res' = Stolen(res) /\ abandoned' = abandoned
  BY DEF arp_inRequest
<1>2. new \in ArpEntries
  BY DEF ArpEntries
<1>3. ArpTypeOK /\ \A p \in Resolvers : res[p].slot \in ArpSlots
  BY DEF ArpInv, ArpTypeOK, Resolutions
<1>4. \A s \in ArpSlots : /\ s \in arp_alloc => arpcache'[s] = new
                          /\ s \notin arp_alloc => arpcache'[s] = arpcache[s]
                          /\ arpcache[s].state = "PENDING" => s \notin arp_alloc
  BY <1>1, AllocIdle
<1>5. ArpTypeOK'
  <2>1. res' \in [Resolvers -> Resolutions]
    BY <1>1, <1>3, StolenType
  <2>2. arpcache' \in [ArpSlots -> ArpEntries]
    BY <1>1, <1>2, <1>3 DEF ArpTypeOK
  <2> QED BY <1>1, <1>3, <2>1, <2>2 DEF ArpTypeOK
<1>6. \A p \in Resolvers : /\ res'[p].pc = res[p].pc /\ res'[p].host = res[p].host /\ res'[p].slot = res[p].slot
                           /\ res'[p].msg = res[p].msg /\ res'[p].mac = res[p].mac
                           /\ res'[p].doubt = {} => res[p].doubt = {}
                           /\ res'[p].doubt = {} /\ res[p].pc = "wait" => res[p].slot \notin arp_alloc
  BY <1>1, <1>3, StolenFacts
<1>7. new.state = "RESOLVED" /\ new.addr = h /\ new.mac = h
  OBVIOUS
<1> HIDE DEF new
<1>8. WaitersOwn'
  BY <1>1, <1>3, <1>4, <1>6 DEF ArpInv, WaitersOwn
<1>9. WokenRight'
  BY <1>3, <1>4, <1>6 DEF ArpInv, WokenRight
<1>10. AnswerRight'
  BY <1>6 DEF ArpInv, AnswerRight
<1>11. PendingWaits' /\ AbandonedPending'
  BY <1>1, <1>3, <1>4, <1>6, <1>7 DEF ArpInv, ArpTypeOK, PendingWaits, AbandonedPending
<1>12. AddressOnce'
  BY <1>4, <1>7, AllocOne DEF ArpInv, AddressOnce, ArpFind
<1>13. ResolvedRight'
  BY <1>4, <1>7 DEF ArpInv, ResolvedRight
<1> QED BY <1>5, <1>8, <1>9, <1>10, <1>11, <1>12, <1>13 DEF ArpInv

\* arp_resolve makes a pending entry.
LEMMA MissInv ==
    ASSUME ArpInv, NEW p \in Resolvers, NEW h \in ArpHosts, arp_resolveMiss(p, h), arp_alloc # {}
    PROVE  ArpInv'
<1> DEFINE e == [state |-> "PENDING", addr |-> h, mac |-> 0, pid |-> p]
           r(s) == [NoRes EXCEPT !.pc = "wait", !.host = h, !.slot = s]
<1>0. res[p].pc = "idle" /\ ArpFind(h) = {} /\ h \in Nat /\ ArpTypeOK
  BY DEF arp_resolveMiss, ArpInv
<1>1. PICK s \in arp_alloc : arpcache' = [arpcache EXCEPT ![s] = e] /\ res' = [Stolen(res) EXCEPT ![p] = r(s)]
  BY DEF arp_resolveMiss
<1>2. s \in ArpSlots /\ arpcache[s].state # "PENDING" /\ abandoned' = abandoned
  BY AllocIdle DEF arp_resolveMiss
<1>3. \A q \in Resolvers : res[q].slot \in ArpSlots
  BY <1>0 DEF ArpTypeOK, Resolutions
<1>4. /\ e \in ArpEntries /\ r(s) \in Resolutions
      /\ r(s).pc = "wait" /\ r(s).msg = "none" /\ r(s).slot = s /\ r(s).host = h
      /\ e.state = "PENDING" /\ e.addr = h /\ e.pid = p
  BY <1>0, <1>2 DEF Resolutions, ArpEntries, NoRes
<1> HIDE DEF r, e
<1>5. Stolen(res) \in [Resolvers -> Resolutions]
  BY <1>0, StolenType
<1>6. /\ arpcache'[s] = e /\ res'[p] = r(s)
      /\ \A t \in ArpSlots : t # s => arpcache'[t] = arpcache[t]
      /\ \A q \in Resolvers : q # p => res'[q] = Stolen(res)[q]
  BY <1>0, <1>1, <1>2, <1>5 DEF ArpTypeOK
<1>7. \A q \in Resolvers : q # p =>
         /\ res'[q].pc = res[q].pc /\ res'[q].host = res[q].host /\ res'[q].slot = res[q].slot
         /\ res'[q].msg = res[q].msg /\ res'[q].mac = res[q].mac
         /\ res'[q].doubt = {} => res[q].doubt = {}
         /\ res'[q].doubt = {} /\ res[q].pc = "wait" => res[q].slot # s
  BY <1>0, <1>6, StolenFacts
<1>8. ArpTypeOK'
  BY <1>0, <1>1, <1>2, <1>4, <1>5 DEF ArpTypeOK
<1>9. s \notin abandoned
  BY <1>2 DEF ArpInv, AbandonedPending
<1>10. WaitersOwn'
  BY <1>2, <1>3, <1>4, <1>6, <1>7, <1>9 DEF ArpInv, WaitersOwn
<1>11. WokenRight'
  BY <1>2, <1>3, <1>4, <1>6, <1>7 DEF ArpInv, WokenRight
<1>12. AnswerRight'
  BY <1>4, <1>6, <1>7 DEF ArpInv, AnswerRight
<1>13. PendingWaits'
  <2> SUFFICES ASSUME NEW t \in ArpSlots, arpcache'[t].state = "PENDING", t \notin abandoned'
               PROVE  LET q == arpcache'[t].pid
                      IN  q \in Resolvers /\ res'[q].pc = "wait" /\ res'[q].slot = t /\ res'[q].host = arpcache'[t].addr
    BY DEF PendingWaits
  <2>1. CASE t = s
    BY <1>4, <1>6, <2>1
  <2>2. CASE t # s
    <3>1. arpcache'[t] = arpcache[t] /\ t \notin abandoned
      BY <1>2, <1>6, <2>2
    <3>2. /\ arpcache[t].pid \in Resolvers /\ res[arpcache[t].pid].pc = "wait" /\ res[arpcache[t].pid].slot = t
          /\ res[arpcache[t].pid].host = arpcache[t].addr
      BY <3>1 DEF ArpInv, PendingWaits
    <3> QED BY <1>0, <1>7, <3>1, <3>2
  <2> QED BY <2>1, <2>2
<1>14. AbandonedPending'
  BY <1>0, <1>2, <1>6, <1>9 DEF ArpInv, ArpTypeOK, AbandonedPending
<1>15. AddressOnce' /\ ResolvedRight'
  BY <1>0, <1>2, <1>4, <1>6 DEF ArpInv, AddressOnce, ResolvedRight, ArpFind
<1> QED BY <1>8, <1>10, <1>11, <1>12, <1>13, <1>14, <1>15 DEF ArpInv

\* The last request times out: the process gives up.
LEMMA GiveUpInv ==
    ASSUME ArpInv, NEW p \in Resolvers, arp_resolveTimeout(p), ~(res[p].i + 1 < ARP_RETRY)
    PROVE  ArpInv'
<1> DEFINE r == [NoRes EXCEPT !.pc = "TIMEOUT"]
<1>0. res[p].pc = "wait" /\ res[p].msg = "none" /\ res[p].slot \in ArpSlots
  BY DEF arp_resolveTimeout, ArpInv, ArpTypeOK, Resolutions
<1>1. /\ res' = [res EXCEPT ![p] = r] /\ abandoned' = abandoned
      /\ arpcache' = [arpcache EXCEPT ![res[p].slot].state = "FREE"]
  BY DEF arp_resolveTimeout, GiveUp
<1>2. r \in Resolutions /\ r.pc = "TIMEOUT"
  BY DEF Resolutions, NoRes, ArpSlots
<1> HIDE DEF r
<1>3. PICK s \in ArpSlots : s = res[p].slot
  BY <1>0
<1>4. arpcache[s].state = "PENDING" /\ arpcache[s].pid = p /\ s \notin abandoned
  BY <1>0, <1>3 DEF ArpInv, WaitersOwn
<1>5. /\ arpcache'[s].state = "FREE" /\ res'[p] = r
      /\ \A t \in ArpSlots : t # s => arpcache'[t] = arpcache[t]
      /\ \A q \in Resolvers : q # p => res'[q] = res[q]
      /\ \A q \in Resolvers : res[q].slot \in ArpSlots
  BY <1>1, <1>3 DEF ArpInv, ArpTypeOK, ArpEntries, Resolutions
<1>6. ArpTypeOK'
  BY <1>1, <1>2, <1>3 DEF ArpInv, ArpTypeOK, ArpEntries
<1>7. WaitersOwn' /\ WokenRight' /\ AnswerRight'
  BY <1>1, <1>2, <1>4, <1>5 DEF ArpInv, WaitersOwn, WokenRight, AnswerRight
<1>8. PendingWaits' /\ AbandonedPending'
  BY <1>1, <1>3, <1>4, <1>5 DEF ArpInv, ArpTypeOK, PendingWaits, AbandonedPending
<1>9. AddressOnce' /\ ResolvedRight'
  BY <1>5 DEF ArpInv, AddressOnce, ResolvedRight
<1> QED BY <1>6, <1>7, <1>8, <1>9 DEF ArpInv

\* A message, the process's own or not, ends the wait; the entry stays as it is.
LEMMA WakeInv ==
    ASSUME ArpInv, NEW p \in Resolvers, arp_resolveWake(p)
    PROVE  ArpInv'
<1>0. /\ res[p].pc = "wait" /\ res[p].msg # "none" /\ res[p] \in Resolutions /\ res[p].slot \in ArpSlots
      /\ arpcache[res[p].slot].mac \in Nat
  BY DEF arp_resolveWake, ArpInv, ArpTypeOK, Resolutions, ArpEntries
<1> DEFINE ok == [res[p] EXCEPT !.pc = "OK", !.msg = "none", !.mac = arpcache[res[p].slot].mac]
           err == [NoRes EXCEPT !.pc = "SYSERR"]
<1>1. /\ ok \in Resolutions /\ ok.pc = "OK" /\ ok.doubt = res[p].doubt /\ ok.host = res[p].host
      /\ ok.mac = arpcache[res[p].slot].mac
      /\ err \in Resolutions /\ err.pc = "SYSERR"
  <2>1. err \in Resolutions /\ err.pc = "SYSERR"
    BY DEF Resolutions, NoRes, ArpSlots
  <2>2. ok \in Resolutions /\ ok.pc = "OK" /\ ok.doubt = res[p].doubt /\ ok.host = res[p].host
    BY <1>0 DEF Resolutions
  <2>3. ok.mac = arpcache[res[p].slot].mac
    BY <1>0 DEF Resolutions
  <2> QED BY <2>1, <2>2, <2>3
<1>2. res' = [res EXCEPT ![p] = IF res[p].msg = "SYSERR" THEN err ELSE ok] /\ arpcache' = arpcache
  BY DEF arp_resolveWake
<1> HIDE DEF ok, err
<1>3. PICK r \in Resolutions : /\ res' = [res EXCEPT ![p] = r] /\ r.pc # "wait"
                               /\ r.pc = "OK" /\ r.doubt = {} => r.mac = r.host
  <2>1. res[p].doubt = {} => arpcache[res[p].slot].mac = res[p].host
    BY <1>0 DEF ArpInv, WokenRight, ResolvedRight
  <2> QED BY <1>1, <1>2, <2>1
<1>4. abandoned' = abandoned \cup {s \in {res[p].slot} : arpcache[s].state = "PENDING" /\ arpcache[s].pid = p}
  BY DEF arp_resolveWake
<1>5. \A q \in Resolvers : IF q = p THEN res'[q] = r ELSE res'[q] = res[q]
  BY <1>3 DEF ArpInv, ArpTypeOK
<1>6. ArpTypeOK'
  BY <1>0, <1>2, <1>3, <1>4 DEF ArpInv, ArpTypeOK
<1>7. WaitersOwn'
  BY <1>2, <1>3, <1>4, <1>5 DEF ArpInv, WaitersOwn
<1>8. WokenRight' /\ AnswerRight'
  BY <1>2, <1>3, <1>5 DEF ArpInv, WokenRight, AnswerRight
<1>9. PendingWaits'
  BY <1>2, <1>4, <1>5 DEF ArpInv, PendingWaits
<1>10. AbandonedPending'
  BY <1>2, <1>4 DEF ArpInv, AbandonedPending
<1> QED BY <1>2, <1>6, <1>7, <1>8, <1>9, <1>10 DEF ArpInv, AddressOnce, ResolvedRight

\* Every step of the resolvers, of arp_in and of the wire keeps the invariant.
LEMMA ArpStep ==
    ArpInv /\ [ArpNext]_arpVars => ArpInv'
<1> SUFFICES ASSUME ArpInv, [ArpNext]_arpVars PROVE ArpInv'
  OBVIOUS
<1>0. NoRes \in Resolutions
  BY DEF NoRes, Resolutions, ArpSlots
<1>1. ASSUME NEW h \in ArpHosts, arp_inReply(h) PROVE ArpInv'
  <2>1. CASE ArpFind(h) # {}
    <3>1. First(ArpFind(h)) \in ArpFind(h)
      BY <2>1, FirstIn DEF ArpFind
    <3> QED BY <1>1, <2>1, <3>1, LearnInv DEF arp_inReply
  <2>2. CASE ArpFind(h) = {}
    BY <1>1, <2>2 DEF arp_inReply, ArpInv, ArpTypeOK, WaitersOwn, WokenRight, AnswerRight, PendingWaits,
                      AbandonedPending, AddressOnce, ResolvedRight
  <2> QED BY <2>1, <2>2
<1>2. ASSUME NEW h \in ArpHosts, arp_inRequest(h) PROVE ArpInv'
  <2>1. CASE ArpFind(h) # {}
    <3>1. First(ArpFind(h)) \in ArpFind(h)
      BY <2>1, FirstIn DEF ArpFind
    <3> QED BY <1>2, <2>1, <3>1, LearnInv DEF arp_inRequest
  <2>2. CASE ArpFind(h) = {}
    BY <1>2, <2>2, AddInv
  <2> QED BY <2>1, <2>2
<1>3. ASSUME NEW p \in Resolvers, NEW h \in ArpHosts, arp_resolveHit(p, h) PROVE ArpInv'
  <2>1. PICK s \in ArpFind(h) :
           res' = [res EXCEPT ![p] = IF arpcache[s].state = "RESOLVED"
                                     THEN [NoRes EXCEPT !.pc = "OK", !.host = h, !.mac = arpcache[s].mac]
                                     ELSE [NoRes EXCEPT !.pc = "SYSERR"]]
    BY <1>3 DEF arp_resolveHit
  <2>2. /\ arpcache' = arpcache /\ abandoned' = abandoned /\ res[p].pc = "idle" /\ arpcache[s].mac \in Nat /\ h \in Nat
        /\ arpcache[s].state = "RESOLVED" => arpcache[s].mac = h
    BY <1>3 DEF arp_resolveHit, ArpFind, ArpInv, ArpTypeOK, ArpEntries, ResolvedRight
  <2> DEFINE ok == [NoRes EXCEPT !.pc = "OK", !.host = h, !.mac = arpcache[s].mac]
             err == [NoRes EXCEPT !.pc = "SYSERR"]
  <2>3. /\ ok \in Resolutions /\ err \in Resolutions
        /\ ok.pc = "OK" /\ err.pc = "SYSERR" /\ ok.mac = arpcache[s].mac /\ ok.host = h
    BY <1>0, <2>2 DEF Resolutions, NoRes
  <2> HIDE DEF ok, err
  <2>4. CASE arpcache[s].state = "RESOLVED"
    <3>1. res' = [res EXCEPT ![p] = ok]
      BY <2>1, <2>4 DEF ok
    <3> QED BY <2>2, <2>3, <2>4, <3>1, ResolverInv
  <2>5. CASE arpcache[s].state # "RESOLVED"
    <3>1. res' = [res EXCEPT ![p] = err]
      BY <2>1, <2>5 DEF err
    <3> QED BY <2>2, <2>3, <3>1, ResolverInv
  <2> QED BY <2>4, <2>5
<1>4. ASSUME NEW p \in Resolvers, NEW h \in ArpHosts, arp_resolveMiss(p, h) PROVE ArpInv'
  <2>1. CASE arp_alloc = {}
    <3> DEFINE err == [NoRes EXCEPT !.pc = "SYSERR"]
    <3>1. err \in Resolutions /\ err.pc = "SYSERR"
      BY <1>0 DEF Resolutions, NoRes
    <3>2. res' = [res EXCEPT ![p] = err] /\ arpcache' = arpcache /\ abandoned' = abandoned /\ res[p].pc = "idle"
      BY <1>4, <2>1 DEF arp_resolveMiss
    <3> HIDE DEF err
    <3> QED BY <3>1, <3>2, ResolverInv
  <2> QED BY <1>4, <2>1, MissInv
<1>5. ASSUME NEW p \in Resolvers, arp_resolveTimeout(p) PROVE ArpInv'
  <2>1. CASE res[p].i + 1 < ARP_RETRY
    <3> DEFINE r == [res[p] EXCEPT !.i = @ + 1]
    <3>0. res \in [Resolvers -> Resolutions] /\ res[p] \in Resolutions
      BY DEF ArpInv, ArpTypeOK
    <3>1. res' = [res EXCEPT ![p] = r] /\ arpcache' = arpcache /\ abandoned' = abandoned
      BY <1>5, <2>1, <3>0 DEF arp_resolveTimeout
    <3>a. /\ r \in Resolutions /\ r.pc = res[p].pc /\ r.msg = res[p].msg /\ r.slot = res[p].slot
          /\ r.host = res[p].host /\ r.mac = res[p].mac /\ r.doubt = res[p].doubt
      BY <3>0 DEF Resolutions
    <3> HIDE DEF r
    <3>2. ArpTypeOK'
      BY <3>0, <3>1, <3>a DEF ArpInv, ArpTypeOK
    <3>3. \A q \in Resolvers : /\ res'[q].pc = res[q].pc /\ res'[q].msg = res[q].msg /\ res'[q].slot = res[q].slot
                               /\ res'[q].host = res[q].host /\ res'[q].mac = res[q].mac /\ res'[q].doubt = res[q].doubt
      BY <3>0, <3>1, <3>a
    <3>4. WaitersOwn' /\ WokenRight' /\ AnswerRight'
      BY <3>1, <3>3 DEF ArpInv, WaitersOwn, WokenRight, AnswerRight
    <3>5. PendingWaits'
      BY <3>1, <3>3 DEF ArpInv, PendingWaits
    <3> QED BY <3>1, <3>2, <3>4, <3>5 DEF ArpInv, AbandonedPending, AddressOnce, ResolvedRight
  <2> QED BY <1>5, <2>1, GiveUpInv
<1>6. ASSUME NEW p \in Resolvers, NEW m \in {"SYSERR", "stray"}, ArpStray(p, m) PROVE ArpInv'
  <2> DEFINE r == [res[p] EXCEPT !.msg = m, !.doubt = @ \cup {"message"}]
  <2>0. res \in [Resolvers -> Resolutions] /\ res[p] \in Resolutions
    BY DEF ArpInv, ArpTypeOK
  <2>1. arpcache' = arpcache /\ abandoned' = abandoned /\ res' = [res EXCEPT ![p] = r]
    BY <1>6, <2>0 DEF ArpStray
  <2>a. /\ r \in Resolutions /\ r.pc = res[p].pc /\ r.slot = res[p].slot /\ r.host = res[p].host
        /\ r.msg # "none" /\ r.doubt # {}
    BY <2>0 DEF Resolutions
  <2> HIDE DEF r
  <2>2. ArpTypeOK'
    BY <2>0, <2>1, <2>a DEF ArpInv, ArpTypeOK
  <2>3. \A q \in Resolvers : /\ res'[q].pc = res[q].pc /\ res'[q].slot = res[q].slot
                             /\ res'[q].host = res[q].host
                             /\ IF q = p THEN res'[q].msg # "none" /\ res'[q].doubt # {}
                                ELSE res'[q] = res[q]
    BY <2>0, <2>1, <2>a
  <2>4. WaitersOwn' /\ WokenRight' /\ AnswerRight'
    BY <2>1, <2>3 DEF ArpInv, WaitersOwn, WokenRight, AnswerRight
  <2>5. PendingWaits'
    BY <2>1, <2>3 DEF ArpInv, PendingWaits
  <2> QED BY <2>1, <2>2, <2>4, <2>5 DEF ArpInv, AbandonedPending, AddressOnce, ResolvedRight
<1>7. ASSUME NEW p \in Resolvers, arp_return(p) PROVE ArpInv'
  <2>1. res' = [res EXCEPT ![p] = NoRes] /\ arpcache' = arpcache /\ abandoned' = abandoned /\ res[p].pc # "wait"
    BY <1>7 DEF arp_return
  <2>2. NoRes.pc = "idle"
    BY DEF NoRes
  <2> QED BY <1>0, <2>1, <2>2, ResolverInv
<1>8. CASE UNCHANGED arpVars
  BY <1>8 DEF arpVars, ArpInv, ArpTypeOK, WaitersOwn, WokenRight, AnswerRight, PendingWaits, AbandonedPending,
              AddressOnce, ResolvedRight
<1> QED BY <1>1, <1>2, <1>3, <1>4, <1>5, <1>6, <1>7, <1>8, WakeInv DEF ArpNext

\* At the start the cache is empty and nobody resolves.
LEMMA ArpStart ==
    ArpInit => ArpInv
<1> SUFFICES ASSUME ArpInit PROVE ArpInv
  OBVIOUS
<1>1. Cleared \in ArpEntries /\ Cleared.state = "FREE"
  BY DEF Cleared, ArpEntries
<1>2. NoRes \in Resolutions /\ NoRes.pc = "idle"
  BY DEF NoRes, Resolutions, ArpSlots
<1> QED BY <1>1, <1>2 DEF ArpInit, ArpInv, ArpTypeOK, WaitersOwn, WokenRight, AnswerRight, PendingWaits,
                          AbandonedPending, AddressOnce, ResolvedRight

\* The invariant implies what the run checks.
LEMMA ArpInvSound ==
    ArpInv => ArpSound
BY DEF ArpInv, ArpTypeOK, ArpEntries, AnswerRight, PendingWaits, AbandonedPending, AddressOnce, ResolvedRight,
       ArpSound

\* The ARP cache is sound in every behaviour of arp_resolve and arp_in, for every number of
\* hosts, processes, entries and retries.
THEOREM ArpCorrect == ArpSpec => []ArpSound
<1>1. ArpSpec => []ArpInv
  BY ArpStart, ArpStep, PTL DEF ArpSpec
<1> QED BY <1>1, ArpInvSound, PTL

-----------------------------------------------------------------------------
(* DHCP and TFTP *)

DhcpMsgs == {Disc} \cup {Req(s) : s \in DhcpServers}
DhcpStates == [phase : {"off", "wait", "done", "failed", "gave up", "interrupted"},
               i : Nat, j : Nat, msg : DhcpMsgs, slot : BOOLEAN, up : BOOLEAN]
\* The phases in which the slot of getlocalip is in use.
HoldsSlot == {"wait", "gave up", "interrupted"}
TftpStates == [phase : {"off", "wait", "done", "failed"}, tries : Nat, expected : Nat, blocks : Seq(Nat),
               room : Nat, slot : BOOLEAN]

\* What a message in the network says was true when it was sent.
MessagesTrue ==
    \A m \in bnet : /\ m.kind = "offer" => m.server \in DhcpServers
                    /\ m.kind = "request" => m.server \in DhcpServers /\ m = Req(m.server)
                    /\ m.kind \in {"ack", "nak"} => /\ m = [kind |-> m.kind, server |-> m.server]
                                                    /\ Req(m.server) \in bnet
                    /\ m.kind = "data" => m.is \in 1..FileBlocks /\ m.number = m.is % BLOCKMOD

DhcpInv ==
    /\ dhcp \in DhcpStates
    /\ dhcp.slot <=> dhcp.phase \in HoldsSlot
    /\ dhcp.up => ipaddr # "none"
    /\ ipaddr # "none" => Req(ipaddr) \in bnet /\ [kind |-> "ack", server |-> ipaddr] \in bnet

\* The blocks stored are the first ones of the file, and the block expected is the next one.
TftpInv ==
    /\ tftp \in TftpStates
    /\ \A n \in 1..Len(tftp.blocks) : tftp.blocks[n] = n
    /\ tftp.phase = "off" => tftp.blocks = <<>>
    /\ tftp.phase \in {"off", "wait"} => /\ Len(tftp.blocks) < FileBlocks
                                         /\ tftp.expected = (Len(tftp.blocks) + 1) % BLOCKMOD
    /\ tftp.phase = "done" => Len(tftp.blocks) \in {FileBlocks, tftp.room} /\ ~tftp.slot

BootInv == MessagesTrue /\ DhcpInv /\ TftpInv

HIDE ArpAssumption
USE NetBootAssumption

\* Numbers below the modulus are their own remainders.
LEMMA SmallRemainder ==
    ASSUME NEW b \in Nat \ {0}, NEW x \in 0..b
    PROVE  x % b = IF x = b THEN 0 ELSE x
OBVIOUS

\* Blocks of one turn of the counter that have the same number are the same block.
LEMMA SameRemainder ==
    ASSUME NEW b \in Nat \ {0}, NEW x \in 1..b, NEW y \in 1..b, x % b = y % b
    PROVE  x = y
<1>1. x \in 0..b /\ y \in 0..b
  OBVIOUS
<1>2. x % b = (IF x = b THEN 0 ELSE x) /\ y % b = (IF y = b THEN 0 ELSE y)
  BY <1>1, SmallRemainder
<1> QED BY <1>2

\* Messages added to the network keep the others true.
LEMMA SendTrue ==
    ASSUME MessagesTrue, NEW M, bnet' = bnet \cup M,
           \A m \in M : \/ m.kind \notin {"offer", "request", "ack", "nak", "data"}
                        \/ m.kind = "offer" /\ m.server \in DhcpServers
                        \/ m.kind = "request" /\ m.server \in DhcpServers /\ m = Req(m.server)
                        \/ m.kind \in {"ack", "nak"} /\ m = [kind |-> m.kind, server |-> m.server] /\ Req(m.server) \in bnet
                        \/ m.kind = "data" /\ m.is \in 1..FileBlocks /\ m.number = m.is % BLOCKMOD
    PROVE  MessagesTrue'
BY DEF MessagesTrue

\* One more true message leaves the messages true.
LEMMA SendOneTrue ==
    ASSUME MessagesTrue, NEW x, bnet' = bnet \cup {x},
           \/ x.kind \notin {"offer", "request", "ack", "nak", "data"}
           \/ x.kind = "offer" /\ x.server \in DhcpServers
           \/ x.kind \in {"ack", "nak"} /\ x = [kind |-> x.kind, server |-> x.server] /\ Req(x.server) \in bnet
           \/ x.kind = "data" /\ x.is \in 1..FileBlocks /\ x.number = x.is % BLOCKMOD
    PROVE  MessagesTrue'
BY DEF MessagesTrue

\* The turn after a time-out of getlocalip keeps the message that is being sent.
LEMMA NextTurnType ==
    ASSUME NEW d \in DhcpStates, d.phase = "wait", d.slot
    PROVE  /\ NextTurn(d) \in DhcpStates
           /\ NextTurn(d).msg = d.msg
           /\ NextTurn(d).slot <=> NextTurn(d).phase \in HoldsSlot
           /\ NextTurn(d).up = d.up
<1>0. d.i \in Nat /\ d.j \in Nat
  BY DEF DhcpStates
<1>1. CASE d.j + 1 < 3
  <2>1. NextTurn(d) = [d EXCEPT !.j = d.j + 1]
    BY <1>1 DEF NextTurn
  <2>2. d.j + 1 \in Nat
    BY <1>0
  <2> QED BY <2>1, <2>2 DEF DhcpStates, HoldsSlot
<1>2. CASE ~(d.j + 1 < 3) /\ d.i + 1 < DHCP_RETRY
  <2>1. NextTurn(d) = [d EXCEPT !.j = 0, !.i = d.i + 1]
    BY <1>2 DEF NextTurn
  <2>2. d.i + 1 \in Nat
    BY <1>0
  <2>3. [d EXCEPT !.j = 0] \in DhcpStates
    BY DEF DhcpStates
  <2>4. NextTurn(d) = [[d EXCEPT !.j = 0] EXCEPT !.i = d.i + 1]
    BY <2>1 DEF DhcpStates
  <2>5. NextTurn(d) \in DhcpStates
    BY <2>2, <2>3, <2>4 DEF DhcpStates
  <2> QED BY <2>1, <2>5 DEF DhcpStates, HoldsSlot
<1>3. CASE ~(d.j + 1 < 3) /\ ~(d.i + 1 < DHCP_RETRY)
  BY <1>3 DEF NextTurn, DhcpStates, HoldsSlot
<1> QED BY <1>1, <1>2, <1>3

\* The client sends discoveries, and requests to servers that exist.
LEMMA DhcpMsgTrue ==
    ASSUME NEW m \in DhcpMsgs
    PROVE  \/ m.kind = "discover"
           \/ m.kind = "request" /\ m.server \in DhcpServers /\ m = Req(m.server)
BY DEF DhcpMsgs, Disc, Req

\* A receive or a time-out of getlocalip keeps the client's part of the invariant.
LEMMA DhcpStep ==
    ASSUME BootInv, NEW m,
           DhcpReceive(m) \/ DhcpTimeout
    PROVE  MessagesTrue' /\ DhcpInv'
<1> USE DEF BootInv
<1>0. dhcp \in DhcpStates /\ dhcp.phase = "wait" /\ dhcp.slot /\ (dhcp.up => ipaddr # "none")
  BY DEF DhcpInv, DhcpReceive, DhcpTimeout, HoldsSlot
<1>1. ASSUME Skipped PROVE MessagesTrue' /\ DhcpInv'
  <2> DEFINE d == NextTurn(dhcp)
  <2>1. d \in DhcpStates /\ (d.slot <=> d.phase \in HoldsSlot) /\ d.up = dhcp.up
    BY <1>0, NextTurnType
  <2>2. dhcp' = d /\ bnet' = bnet \cup Resent(d) /\ ipaddr' = ipaddr
    BY <1>1 DEF Skipped
  <2>3. Resent(d) \subseteq DhcpMsgs
    BY <2>1 DEF Resent, DhcpStates
  <2> HIDE DEF d
  <2>4. MessagesTrue'
    BY <2>2, <2>3, DhcpMsgTrue, SendTrue
  <2>5. DhcpInv'
    BY <2>1, <2>2 DEF DhcpInv
  <2> QED BY <2>4, <2>5
<1>2. ASSUME GotOffer(m), m \in bnet, m.kind = "offer" PROVE MessagesTrue' /\ DhcpInv'
  <2>1. CASE m.server \in Anonymous
    <3>1. dhcp' = [dhcp EXCEPT !.phase = "gave up"] /\ ipaddr' = ipaddr /\ bnet' = bnet
      BY <1>2, <2>1 DEF GotOffer
    <3> QED BY <1>0, <3>1 DEF DhcpInv, DhcpStates, MessagesTrue, HoldsSlot
  <2>2. CASE m.server \notin Anonymous
    <3> DEFINE c == [dhcp EXCEPT !.msg = Req(m.server)]
               d == NextTurn(c)
    <3>1. m.server \in DhcpServers
      BY <1>2 DEF MessagesTrue
    <3>2. Req(m.server) \in DhcpMsgs
      BY <3>1 DEF DhcpMsgs
    <3>3. c \in DhcpStates /\ c.phase = "wait" /\ c.slot /\ c.up = dhcp.up
      BY <1>0, <3>2 DEF DhcpStates
    <3>4. d \in DhcpStates /\ (d.slot <=> d.phase \in HoldsSlot) /\ d.up = dhcp.up
      BY <3>3, NextTurnType
    <3>5. dhcp' = d /\ bnet' = bnet \cup {Req(m.server)} \cup Resent(d) /\ ipaddr' = ipaddr
      BY <1>2, <2>2 DEF GotOffer
    <3>6. {Req(m.server)} \cup Resent(d) \subseteq DhcpMsgs
      BY <3>2, <3>4 DEF Resent, DhcpStates
    <3> HIDE DEF c, d
    <3>7. bnet' = bnet \cup ({Req(m.server)} \cup Resent(d))
      BY <3>5
    <3>8. MessagesTrue'
      <4> DEFINE M == {Req(m.server)} \cup Resent(d)
      <4>1. \A x \in M : \/ x.kind = "discover"
                         \/ x.kind = "request" /\ x.server \in DhcpServers /\ x = Req(x.server)
        BY <3>6, DhcpMsgTrue
      <4> HIDE DEF M
      <4> QED BY <3>7, <4>1, SendTrue DEF M
    <3>9. DhcpInv'
      BY <3>4, <3>5 DEF DhcpInv
    <3> QED BY <3>8, <3>9
  <2> QED BY <2>1, <2>2
<1>3. ASSUME GotAck(m), m \in bnet, m.kind = "ack" PROVE MessagesTrue' /\ DhcpInv'
  <2>1. /\ \/ dhcp' = [dhcp EXCEPT !.slot = FALSE, !.phase = "failed"]
           \/ dhcp' = [dhcp EXCEPT !.slot = FALSE, !.phase = "done", !.up = TRUE]
        /\ ipaddr' = m.server /\ bnet' = bnet
    BY <1>3 DEF GotAck, Released
  <2>2. dhcp' \in DhcpStates /\ ~dhcp'.slot /\ dhcp'.phase \notin HoldsSlot
    <3>1. CASE dhcp' = [dhcp EXCEPT !.slot = FALSE, !.phase = "failed"]
      BY <1>0, <3>1 DEF DhcpStates, HoldsSlot
    <3>2. CASE dhcp' = [dhcp EXCEPT !.slot = FALSE, !.phase = "done", !.up = TRUE]
      BY <1>0, <3>2 DEF DhcpStates, HoldsSlot
    <3> QED BY <2>1, <3>1, <3>2
  <2>4. ipaddr' # "none"
    <3>1. m.server \in DhcpServers
      <4>1. Req(m.server) \in bnet
        BY <1>3 DEF MessagesTrue
      <4>2. Req(m.server).kind = "request" /\ Req(m.server).server = m.server
        BY DEF Req
      <4> QED BY <4>1, <4>2 DEF MessagesTrue
    <3> QED BY <2>1, <3>1, NetBootAssumption
  <2>3. Req(m.server) \in bnet /\ [kind |-> "ack", server |-> m.server] \in bnet
    BY <1>3 DEF MessagesTrue
  <2> QED BY <2>1, <2>2, <2>3, <2>4 DEF DhcpInv, MessagesTrue
<1> QED BY <1>1, <1>2, <1>3 DEF DhcpReceive, DhcpTimeout, IsAck

\* tftpget takes the block that it expects and no other.
LEMMA TftpStep ==
    ASSUME BootInv, NEW m, FileBlocks <= BLOCKMOD, TftpReceive(m)
    PROVE  BootInv'
<1> USE DEF BootInv
<1> DEFINE L == Len(tftp.blocks)
           B == BLOCKMOD
<1>1. /\ tftp \in TftpStates /\ tftp.phase = "wait" /\ m \in bnet /\ m.kind = "data" /\ m.number = tftp.expected
      /\ dhcp' = dhcp /\ ipaddr' = ipaddr
  BY DEF TftpReceive, Expected, TftpInv
<1>2. L \in Nat /\ L < FileBlocks /\ tftp.expected = (L + 1) % B /\ B \in Nat \ {0} /\ FileBlocks \in Nat
  BY <1>1 DEF TftpInv, TftpStates
<1>3. m.is \in 1..FileBlocks /\ m.number = m.is % B
  BY <1>1 DEF MessagesTrue
<1>4. m.is = L + 1
  <2>1. m.is \in 1..B /\ L + 1 \in 1..B /\ m.is % B = (L + 1) % B
    <3>1. m.is \in 1..B /\ L + 1 \in 1..B
      BY <1>2, <1>3
    <3>2. m.is % B = (L + 1) % B
      BY <1>1, <1>2, <1>3, Zenon
    <3> QED BY <3>1, <3>2
  <2> HIDE DEF L, B
  <2> QED BY <1>2, <2>1, SameRemainder
<1>5. MessagesTrue'
  <2>1. bnet' = bnet \/ bnet' = bnet \cup {Ack(tftp.expected)}
    BY DEF TftpReceive
  <2>2. Ack(tftp.expected).kind = "tack"
    BY DEF Ack
  <2> QED BY <2>1, <2>2, SendTrue DEF MessagesTrue
<1>6. DhcpInv'
  <2>1. bnet \subseteq bnet'
    BY DEF TftpReceive
  <2> QED BY <1>1, <2>1 DEF DhcpInv
<1>7. TftpInv'
  <2>1. CASE L = tftp.room
    <3>1. tftp' = [tftp EXCEPT !.phase = "done", !.slot = FALSE]
      BY <2>1 DEF TftpReceive
    <3> QED BY <1>1, <2>1, <3>1 DEF TftpInv, TftpStates
  <2>2. CASE L # tftp.room
    <3> DEFINE bs == Append(tftp.blocks, m.is)
    <3>1. bs \in Seq(Nat) /\ Len(bs) = L + 1 /\ \A n \in 1..L + 1 : bs[n] = n
      <4>1. tftp.blocks \in Seq(Nat) /\ m.is \in Nat /\ \A n \in 1..L : tftp.blocks[n] = n
        BY <1>1, <1>2, <1>4 DEF TftpInv, TftpStates
      <4>2. bs \in Seq(Nat) /\ Len(bs) = L + 1 /\ \A n \in 1..L + 1 : bs[n] = IF n = L + 1 THEN m.is ELSE tftp.blocks[n]
        BY <4>1
      <4>3. L \in Nat /\ m.is = L + 1
        BY <1>2, <1>4
      <4> HIDE DEF bs, L
      <4>4. ASSUME NEW n \in 1..L + 1 PROVE bs[n] = n
        <5>1. n = L + 1 \/ n \in 1..L
          BY <4>3
        <5> QED BY <4>1, <4>2, <4>3, <5>1
      <4> QED BY <4>2, <4>4
    <3>2. tftp.expected \in Nat /\ (tftp.expected + 1) % B \in Nat
      BY <1>1, <1>2 DEF TftpStates
    <3>3. CASE m.is = FileBlocks
      <4>1. tftp' = [[tftp EXCEPT !.blocks = bs, !.tries = 1, !.expected = (tftp.expected + 1) % B]
                     EXCEPT !.phase = "done", !.slot = FALSE]
        BY <1>1, <2>2, <3>3 DEF TftpReceive, TftpStates
      <4> HIDE DEF bs
      <4>2. tftp' \in TftpStates /\ tftp'.blocks = bs /\ tftp'.phase = "done" /\ ~tftp'.slot
        BY <1>1, <3>1, <3>2, <4>1 DEF TftpStates
      <4> QED BY <1>4, <3>1, <3>3, <4>2 DEF TftpInv
    <3>4. CASE m.is # FileBlocks
      <4>1. tftp' = [tftp EXCEPT !.blocks = bs, !.tries = 1, !.expected = (tftp.expected + 1) % B]
        BY <1>1, <2>2, <3>4 DEF TftpReceive, TftpStates
      <4> HIDE DEF bs
      <4>2. /\ tftp' \in TftpStates /\ tftp'.blocks = bs /\ tftp'.phase = "wait"
            /\ tftp'.expected = (tftp.expected + 1) % B
        BY <1>1, <3>1, <3>2, <4>1 DEF TftpStates
      <4>3. L + 1 < FileBlocks
        BY <1>2, <1>3, <1>4, <3>4
      <4>4. tftp.expected = L + 1
        <5>1. L + 1 \in 0..B /\ L + 1 # B
          BY <1>2, <4>3
        <5>2. (L + 1) % B = L + 1
          <6> HIDE DEF L, B
          <6> QED BY <1>2, <5>1, SmallRemainder
        <5> QED BY <1>2, <5>2, Zenon
      <4> QED BY <1>2, <3>1, <4>2, <4>3, <4>4 DEF TftpInv
    <3> QED BY <3>3, <3>4
  <2> QED BY <2>1, <2>2
<1> QED BY <1>5, <1>6, <1>7

\* Every step of the boot keeps the invariant.
LEMMA BootStep ==
    ASSUME FileBlocks <= BLOCKMOD, BootInv, [NetBootNext]_bootVars
    PROVE  BootInv'
<1> USE DEF BootInv
<1>1. CASE netstart \/ xsh_ipaddr
  <2>1. /\ dhcp' = [dhcp EXCEPT !.phase = "wait", !.slot = TRUE, !.i = 0, !.j = 0, !.msg = Disc]
        /\ bnet' = bnet \cup {Disc} /\ ipaddr' = ipaddr /\ tftp' = tftp
    BY <1>1 DEF netstart, xsh_ipaddr, getlocalip
  <2>2. MessagesTrue'
    BY <2>1, SendOneTrue DEF Disc
  <2>3. DhcpInv'
    <3>1. Disc \in DhcpMsgs
      BY DEF DhcpMsgs
    <3>2. dhcp' \in DhcpStates /\ dhcp'.slot /\ dhcp'.phase = "wait" /\ dhcp'.up = dhcp.up
      BY <2>1, <3>1 DEF DhcpInv, DhcpStates
    <3> QED BY <2>1, <3>2 DEF DhcpInv, HoldsSlot
  <2> QED BY <2>1, <2>2, <2>3 DEF TftpInv
<1>0. CASE DhcpInterrupted
  <2>1. dhcp' = [dhcp EXCEPT !.phase = "interrupted"] /\ dhcp.phase = "wait"
    BY <1>0 DEF DhcpInterrupted
  <2>2. DhcpInv'
    BY <1>0, <2>1 DEF DhcpInterrupted, DhcpInv, DhcpStates, HoldsSlot
  <2> QED BY <1>0, <2>2 DEF DhcpInterrupted, MessagesTrue, TftpInv
<1>2. ASSUME NEW m \in bnet, DhcpReceive(m) PROVE BootInv'
  BY <1>2, DhcpStep DEF DhcpReceive, TftpInv
<1>3. CASE DhcpTimeout
  BY <1>3, DhcpStep DEF DhcpTimeout, TftpInv
<1>4. ASSUME NEW m \in bnet, DhcpServer(m) PROVE BootInv'
  <2>1. dhcp' = dhcp /\ ipaddr' = ipaddr /\ tftp' = tftp
    BY <1>4 DEF DhcpServer
  <2>2. MessagesTrue' /\ bnet \subseteq bnet'
    <3>1. CASE \E s \in DhcpServers : bnet' = bnet \cup {[kind |-> "offer", server |-> s]}
      <4>1. PICK s \in DhcpServers : bnet' = bnet \cup {[kind |-> "offer", server |-> s]}
        BY <3>1
      <4> QED BY <4>1, SendOneTrue
    <3>2. CASE \E kind \in {"ack", "nak"} : m.kind = "request" /\ bnet' = bnet \cup {[kind |-> kind, server |-> m.server]}
      <4>1. PICK kind \in {"ack", "nak"} : m.kind = "request" /\ bnet' = bnet \cup {[kind |-> kind, server |-> m.server]}
        BY <3>2
      <4>2. Req(m.server) \in bnet
        BY <4>1 DEF MessagesTrue
      <4> QED BY <4>1, <4>2, SendOneTrue
    <3> QED BY <1>4, <3>1, <3>2 DEF DhcpServer
  <2> QED BY <2>1, <2>2 DEF DhcpInv, TftpInv
<1>5. CASE tftpget
  <2>1. PICK room \in Rooms : tftp' = [tftp EXCEPT !.phase = "wait", !.tries = 1, !.slot = TRUE, !.room = room]
    BY <1>5 DEF tftpget
  <2>2. bnet' = bnet \cup {TftpReq} /\ dhcp' = dhcp /\ ipaddr' = ipaddr /\ tftp.phase = "off"
    BY <1>5 DEF tftpget
  <2>3. MessagesTrue'
    BY <2>2, SendOneTrue DEF TftpReq
  <2>4. TftpInv'
    BY <2>1, <2>2 DEF TftpInv, TftpStates
  <2> QED BY <2>2, <2>3, <2>4 DEF DhcpInv
<1>6. ASSUME NEW m \in bnet, TftpReceive(m) PROVE BootInv'
  BY <1>6, TftpStep
<1>7. CASE TftpTimeout \/ TftpError
  <2>1. \/ tftp' = [tftp EXCEPT !.tries = @ + 1]
        \/ tftp' = [tftp EXCEPT !.phase = "failed", !.slot = FALSE]
    BY <1>7 DEF TftpTimeout, TftpError
  <2>2. tftp.phase = "wait" /\ dhcp' = dhcp /\ ipaddr' = ipaddr
    BY <1>7 DEF TftpTimeout, TftpError
  <2>3. bnet' = bnet \/ bnet' = bnet \cup {Outgoing}
    BY <1>7 DEF TftpTimeout, TftpError
  <2>4. Outgoing.kind \in {"rrq", "tack"}
    BY DEF Outgoing, TftpReq, Ack
  <2>5. MessagesTrue'
    BY <2>3, <2>4, SendTrue DEF MessagesTrue
  <2>6. TftpInv'
    <3>1. CASE tftp' = [tftp EXCEPT !.tries = @ + 1]
      <4>1. tftp \in TftpStates /\ tftp.tries + 1 \in Nat
        BY DEF TftpInv, TftpStates
      <4>2. tftp' = [tftp EXCEPT !.tries = tftp.tries + 1]
        BY <3>1
      <4>3. tftp' \in TftpStates
        BY <4>1, <4>2 DEF TftpStates
      <4> QED BY <2>2, <4>1, <4>2, <4>3 DEF TftpInv, TftpStates
    <3>2. CASE tftp' = [tftp EXCEPT !.phase = "failed", !.slot = FALSE]
      BY <2>2, <3>2 DEF TftpInv, TftpStates
    <3> QED BY <2>1, <3>1, <3>2
  <2> QED BY <2>2, <2>3, <2>5, <2>6 DEF DhcpInv
<1>8. ASSUME NEW m \in bnet, TftpServer(m) PROVE BootInv'
  <2>1. PICK n \in 1..FileBlocks : bnet' = bnet \cup {[kind |-> "data", number |-> n % BLOCKMOD, is |-> n]}
    BY <1>8 DEF TftpServer
  <2>2. MessagesTrue'
    BY <2>1, SendOneTrue
  <2> QED BY <1>8, <2>1, <2>2 DEF TftpServer, DhcpInv, TftpInv
<1>9. CASE UNCHANGED bootVars
  BY <1>9 DEF bootVars, MessagesTrue, DhcpInv, TftpInv
<1> QED BY <1>0, <1>1, <1>2, <1>3, <1>4, <1>5, <1>6, <1>7, <1>8, <1>9 DEF NetBootNext

\* At the start nothing has been sent and the file is empty.
LEMMA BootStart ==
    ASSUME 1 < BLOCKMOD, NetBootInit
    PROVE  BootInv
<1>1. MessagesTrue
  BY DEF NetBootInit, MessagesTrue
<1>2. DhcpInv
  BY DEF NetBootInit, DhcpInv, DhcpStates, DhcpMsgs, HoldsSlot
<1>3. TftpInv
  <2>1. tftp \in TftpStates /\ Len(tftp.blocks) = 0
    BY DEF NetBootInit, TftpStates
  <2>2. 1 % BLOCKMOD = 1
    BY SmallRemainder
  <2> QED BY <2>1, <2>2 DEF NetBootInit, TftpInv
<1> QED BY <1>1, <1>2, <1>3 DEF BootInv

\* Starting on the network is clean, whatever is lost, repeated or late and whatever the
\* servers, retries and buffers are, as long as the file has no more blocks than there are
\* block numbers: beyond that the numbers wrap around and block 1 is taken for a later one.
THEOREM BootCorrect ==
    ASSUME FileBlocks <= BLOCKMOD, 1 < BLOCKMOD
    PROVE  NetBootSpec => []BootClean
<1>1. NetBootInit => BootInv
  BY BootStart
<1>2. BootInv /\ [NetBootNext]_bootVars => BootInv'
  BY BootStep
<1>3. ASSUME BootInv PROVE BootClean
  <2>1. \A n \in DOMAIN tftp.blocks : tftp.blocks[n] = n
    BY <1>3 DEF BootInv, TftpInv, TftpStates
  <2>2. /\ dhcp.slot <=> dhcp.phase \in {"wait", "gave up", "interrupted"}
        /\ dhcp.up => ipaddr # "none"
        /\ ipaddr # "none" => Req(ipaddr) \in bnet /\ [kind |-> "ack", server |-> ipaddr] \in bnet
    BY ONLY <1>3 DEF BootInv, DhcpInv, HoldsSlot
  <2>3. tftp.phase = "done" => Len(tftp.blocks) \in {FileBlocks, tftp.room} /\ ~tftp.slot
    BY <1>3 DEF BootInv, TftpInv
  <2> QED BY ONLY <2>1, <2>2, <2>3 DEF BootClean
<1> QED BY <1>1, <1>2, <1>3, PTL DEF NetBootSpec


-----------------------------------------------------------------------------
(* The two request-and-reply protocols of the storage layer rest on the     *)
(* sequence number: which messages can carry the number of the exchange     *)
(* that is under way.                                                       *)

(* The remote file system *)

RfOps == {"open", "read", "write", "trunc", "delete", "size"}
RfRequests == [op : RfOps, dev : Rfl, seq : Nat, name : RfNames, mode : SUBSET {"r", "w", "n", "o"}, pos : Nat]
RfReplies == [op : {"reply"}, to : RfOps, seq : Nat, bad : BOOLEAN, data : Nat]
RfCalls == [op : RfOps, req : RfRequests, tries : Nat, seen : SUBSET Nat]
RfBlocks == [state : {"FREE", "USED"}, name : RfNames \cup {""}, pos : Nat, mode : SUBSET {"r", "w", "n", "o"}]
RfTypeOK ==
    /\ rfltab \in [Rfl -> RfBlocks] /\ rf_seq \in Nat
    /\ rfcall \in RfCalls \cup {RfIdle} /\ rfnet \subseteq RfRequests \cup RfReplies
    /\ rffiles \in [RfNames -> {Absent} \cup {<<v>> : v \in Nat}]

\* The byte a read of the file finds.
Byte(f) == IF f = Absent THEN 0 ELSE f[1]

\* A control block in use, or about to be, has the name of a file.
Named ==
    /\ \A d \in Rfl : rfltab[d].state = "USED" => rfltab[d].name \in RfNames
    /\ rfcall # RfIdle /\ rfcall.op = "open" => rfltab[rfcall.req.dev].name \in RfNames

\* Sequence numbers are new: the only request with the number of the call is the call's own.
Numbered ==
    /\ \A m \in rfnet : m.seq < rf_seq
    /\ rfcall # RfIdle =>
          /\ rfcall.req.seq < rf_seq /\ rfcall.op = rfcall.req.op
          /\ \A m \in rfnet \cap RfRequests : m.seq = rfcall.req.seq => m = rfcall.req

\* A call has seen what its file holds, and so has every reply to it.
Seen ==
    rfcall # RfIdle =>
        /\ Byte(rffiles[rfcall.req.name]) \in rfcall.seen
        /\ \A r \in rfnet \cap RfReplies : r.seq = rfcall.req.seq => r.data \in rfcall.seen

RfInv == RfTypeOK /\ Named /\ Numbered /\ Seen /\ RfReadFresh

HIDE NetBootAssumption
USE RfsAssumption

\* A request and a reply are never the same message, and a call is never RfIdle.
LEMMA Messages ==
    /\ \A m \in RfRequests : m.op # "reply"
    /\ \A r \in RfReplies : r.op = "reply"
    /\ \A c \in RfCalls : c # RfIdle
<1>1. \A c \in RfCalls : c.op # RfIdle.op
  BY DEF RfCalls, RfOps, RfIdle
<1> QED BY <1>1 DEF RfRequests, RfReplies, RfOps

\* A new call: its number is on no message yet, and it has seen the file as it is.
LEMMA StartInv ==
    ASSUME RfInv, NEW op \in RfOps, NEW d \in Rfl, NEW name \in RfNames,
           NEW mode \in SUBSET {"r", "w", "n", "o"}, Start(op, d, name, mode)
    PROVE  /\ rf_seq' \in Nat /\ rfcall' \in RfCalls /\ rfcall' # RfIdle
           /\ rfnet' \subseteq RfRequests \cup RfReplies
           /\ rfcall'.req.dev = d /\ Numbered' /\ Seen' /\ UNCHANGED <<rffiles, rfdata>>
<1> DEFINE q == RfRequest(op, d, name, mode)
           c == [op |-> op, req |-> q, tries |-> 1, seen |-> {Byte(rffiles[name])}]
<1>1. q \in RfRequests /\ q.seq = rf_seq /\ q.dev = d /\ q.op = op /\ q.name = name
  BY DEF RfRequest, RfRequests, RfInv, RfTypeOK, RfBlocks
<1>2. Byte(rffiles[name]) \in Nat
  BY DEF Byte, RfInv, RfTypeOK
<1>3. rfcall' = c /\ rfnet' = rfnet \cup {q} /\ rf_seq' = rf_seq + 1 /\ UNCHANGED <<rffiles, rfdata>>
  BY DEF Start, Byte
<1> HIDE DEF q
<1>4. c \in RfCalls /\ c.req = q /\ c.op = op /\ c.seen = {Byte(rffiles[name])}
  BY <1>1, <1>2 DEF RfCalls
<1> HIDE DEF c
<1>5. rf_seq \in Nat /\ rfnet \subseteq RfRequests \cup RfReplies /\ \A m \in rfnet : m.seq < rf_seq /\ m.seq \in Nat
  BY DEF RfInv, RfTypeOK, Numbered, RfRequests, RfReplies
<1>6. Numbered'
  BY <1>1, <1>3, <1>4, <1>5 DEF Numbered
<1>7. Seen'
  <2>1. Byte(rffiles'[name]) \in rfcall'.seen
    BY <1>3, <1>4
  <2>2. ASSUME NEW r \in rfnet' \cap RfReplies, r.seq = rfcall'.req.seq PROVE FALSE
    <3>1. r # q
      BY <1>1, <2>2, Messages
    <3> QED BY <1>1, <1>3, <1>4, <1>5, <2>2, <3>1
  <2> QED BY <1>1, <1>3, <1>4, <2>1, <2>2 DEF Seen, Byte
<1> QED BY <1>1, <1>3, <1>4, <1>5, <1>6, <1>7, Messages

\* rfsopen, rflread, rflwrite and rfscontrol.
LEMMA CallInv ==
    ASSUME RfInv,
           \/ \E name \in RfNames, mode \in RfModes : rfsopen(name, mode)
           \/ \E d \in Rfl : rflread(d) \/ rflwrite(d)
           \/ \E op \in RfControls, d \in Rfl, name \in RfNames : rfscontrol(op, d, name)
    PROVE  RfInv'
<1>1. ASSUME NEW name \in RfNames, NEW mode \in RfModes, rfsopen(name, mode) PROVE RfInv'
  <2>1. PICK d \in Rfl : /\ Start("open", d, name, rfsgetmode(mode))
                         /\ rfltab[d].state = "FREE"
                         /\ rfltab' = [rfltab EXCEPT ![d].name = name, ![d].mode = rfsgetmode(mode)]
    BY <1>1 DEF rfsopen
  <2>2. rfsgetmode(mode) \in SUBSET {"r", "w", "n", "o"}
    BY DEF rfsgetmode
  <2>3. /\ rf_seq' \in Nat /\ rfcall' \in RfCalls /\ rfcall' # RfIdle
        /\ rfnet' \subseteq RfRequests \cup RfReplies
        /\ rfcall'.req.dev = d /\ Numbered' /\ Seen' /\ UNCHANGED <<rffiles, rfdata>>
    BY <2>1, <2>2, StartInv DEF RfOps
  <2>4. rfltab' \in [Rfl -> RfBlocks]
    <3> DEFINE b == [rfltab[d] EXCEPT !.name = name, !.mode = rfsgetmode(mode)]
               t == [rfltab EXCEPT ![d].name = name, ![d].mode = rfsgetmode(mode)]
    <3>1. rfltab \in [Rfl -> RfBlocks] /\ rfltab[d] \in RfBlocks
      BY DEF RfInv, RfTypeOK
    <3>2. b \in RfBlocks
      BY <2>2, <3>1 DEF RfBlocks
    <3>3. t = [rfltab EXCEPT ![d] = b]
      BY <3>1, <2>2 DEF RfBlocks
    <3> HIDE DEF b
    <3>4. t \in [Rfl -> RfBlocks]
      BY <3>1, <3>2, <3>3
    <3> QED BY <2>1, <3>4
  <2>5. Named'
    BY <2>1, <2>3 DEF RfInv, RfTypeOK, Named
  <2> QED BY <2>3, <2>4, <2>5 DEF RfInv, RfTypeOK, RfReadFresh
<1>2. ASSUME NEW op \in RfOps \ {"open"}, NEW d \in Rfl, NEW name \in RfNames,
             Start(op, d, name, {}), UNCHANGED rfltab
      PROVE  RfInv'
  <2>1. /\ rf_seq' \in Nat /\ rfcall' \in RfCalls /\ rfcall' # RfIdle
        /\ rfnet' \subseteq RfRequests \cup RfReplies
        /\ rfcall'.req.dev = d /\ Numbered' /\ Seen' /\ UNCHANGED <<rffiles, rfdata>>
    BY <1>2, StartInv
  <2>2. rfcall'.op = op
    BY <1>2 DEF Start
  <2>3. Named'
    BY <1>2, <2>1, <2>2 DEF RfInv, Named
  <2> QED BY <1>2, <2>1, <2>3 DEF RfInv, RfTypeOK, RfReadFresh
<1>3. ASSUME NEW d \in Rfl, rflread(d) \/ rflwrite(d) PROVE RfInv'
  <2>1. rfltab[d].name \in RfNames
    BY <1>3 DEF rflread, rflwrite, Transfer, RfInv, Named
  <2> QED BY <1>2, <1>3, <2>1 DEF rflread, rflwrite, Transfer, RfOps
<1>4. ASSUME NEW op \in RfControls, NEW d \in Rfl, NEW name \in RfNames, rfscontrol(op, d, name) PROVE RfInv'
  <2>1. op \in RfOps \ {"open"}
    BY DEF RfOps
  <2> QED BY <1>2, <1>4, <2>1 DEF rfscontrol
<1> QED BY <1>1, <1>3, <1>4

\* What the server does to a file: it holds one byte or is absent.
LEMMA AfterType ==
    ASSUME RfInv, NEW m \in RfRequests
    PROVE  After(m) \in {Absent} \cup {<<v>> : v \in Nat} /\ Byte(After(m)) \in Nat
<1>1. rffiles[m.name] \in {Absent} \cup {<<v>> : v \in Nat} /\ m.seq \in Nat
  BY DEF RfInv, RfTypeOK, RfRequests
<1>2. After(m) \in {Absent} \cup {<<v>> : v \in Nat}
  BY <1>1 DEF After, Empty, Absent
<1> QED BY <1>2 DEF Byte

\* The server answers with the byte it found, which the call had seen, and the call
\* sees the byte it leaves.
LEMMA ServeInv ==
    ASSUME RfInv, NEW m \in rfnet, Serve(m)
    PROVE  RfInv'
<1> DEFINE r == [op |-> "reply", to |-> m.op, seq |-> m.seq, bad |-> Refused(m), data |-> Byte(rffiles[m.name])]
           n == Byte(After(m))
<1>1. m \in RfRequests
  BY Messages DEF Serve, RfInv, RfTypeOK
<1>2. Byte(rffiles[m.name]) \in Nat /\ Refused(m) \in BOOLEAN
  BY <1>1 DEF Byte, Refused, RfInv, RfTypeOK, RfRequests
<1>3. r \in RfReplies /\ r.seq = m.seq /\ r.data = Byte(rffiles[m.name])
  BY <1>1, <1>2 DEF RfReplies, RfRequests
<1>4. /\ rffiles' = [rffiles EXCEPT ![m.name] = After(m)]
      /\ rfnet' = rfnet \cup {r}
      /\ rfcall' = IF rfcall = RfIdle \/ rfcall.req.name # m.name THEN rfcall
                   ELSE [rfcall EXCEPT !.seen = @ \cup {n}]
      /\ UNCHANGED <<rfltab, rf_seq, rfdata>>
  BY DEF Serve, Byte
<1>5. After(m) \in {Absent} \cup {<<v>> : v \in Nat} /\ n \in Nat
  BY <1>1, AfterType
<1>6. m.name \in RfNames /\ m.seq \in Nat /\ rffiles \in [RfNames -> {Absent} \cup {<<v>> : v \in Nat}]
  BY <1>1 DEF RfInv, RfTypeOK, RfRequests
<1>7. rffiles' \in [RfNames -> {Absent} \cup {<<v>> : v \in Nat}] /\ Byte(rffiles'[m.name]) = n
      /\ \A x \in RfNames : x # m.name => rffiles'[x] = rffiles[x]
  BY <1>4, <1>5, <1>6
<1> HIDE DEF r, n
<1>8. CASE rfcall = RfIdle
  BY <1>3, <1>4, <1>6, <1>7, <1>8 DEF RfInv, RfTypeOK, Named, Numbered, Seen, RfReadFresh
<1>9. CASE rfcall # RfIdle
  <2>1. rfcall \in RfCalls /\ rfcall.req \in RfRequests /\ rfcall.seen \in SUBSET Nat
        /\ rfcall.req.name \in RfNames
    BY <1>9 DEF RfInv, RfTypeOK, RfCalls, RfRequests
  <2>2. /\ rfcall' \in RfCalls /\ rfcall'.op = rfcall.op /\ rfcall'.req = rfcall.req
        /\ rfcall.seen \subseteq rfcall'.seen /\ (m.name = rfcall.req.name => n \in rfcall'.seen)
    BY <1>4, <1>5, <1>9, <2>1 DEF RfCalls
  <2>3. rfcall' # RfIdle
    BY <2>2, Messages
  <2>4. Byte(rffiles'[rfcall'.req.name]) \in rfcall'.seen
    BY <1>7, <1>9, <2>1, <2>2 DEF RfInv, Seen, Byte
  <2>5. ASSUME NEW x \in rfnet' \cap RfReplies, x.seq = rfcall'.req.seq PROVE x.data \in rfcall'.seen
    <3>1. CASE x \in rfnet
      BY <1>9, <2>2, <2>5, <3>1 DEF RfInv, Seen
    <3>2. CASE x = r
      <4>1. m = rfcall.req
        BY <1>1, <1>3, <1>9, <2>2, <2>5, <3>2 DEF RfInv, Numbered
      <4> QED BY <1>3, <1>9, <2>2, <3>2, <4>1 DEF RfInv, Seen
    <3> QED BY <1>4, <2>5, <3>1, <3>2
  <2>6. Seen'
    BY <2>3, <2>4, <2>5 DEF Seen, Byte
  <2>7. Numbered'
    <3>1. r \notin RfRequests
      BY <1>3, Messages
    <3> QED BY <1>3, <1>4, <1>9, <2>2, <3>1 DEF RfInv, Numbered
  <2>8. Named'
    BY <1>4, <1>9, <2>2 DEF RfInv, Named
  <2>9. RfTypeOK'
    BY <1>3, <1>4, <1>7, <2>2 DEF RfInv, RfTypeOK
  <2> QED BY <1>4, <2>6, <2>7, <2>8, <2>9 DEF RfInv, RfReadFresh
<1> QED BY <1>8, <1>9

\* The end of a call, with the reply to it or without one.
LEMMA ReturnInv ==
    ASSUME RfInv, rfcall # RfIdle, NEW r, RfReturn(r), UNCHANGED <<rf_seq, rfnet, rffiles>>,
           r.op = "reply" => r \in rfnet \cap RfReplies /\ r.seq = rfcall.req.seq
    PROVE  RfInv'
<1>1. rfcall \in RfCalls /\ rfcall.req.dev \in Rfl /\ rfcall' = RfIdle
  BY DEF RfInv, RfTypeOK, RfCalls, RfRequests, RfReturn
<1> DEFINE d == rfcall.req.dev
<1>2. rfltab \in [Rfl -> RfBlocks]
  BY DEF RfInv, RfTypeOK
<1>3. /\ rfltab' \in [Rfl -> RfBlocks]
      /\ \A e \in Rfl : /\ rfltab'[e].name = rfltab[e].name
                        /\ rfltab'[e].state = "USED" =>
                              rfltab[e].state = "USED" \/ (rfcall.op = "open" /\ e = d)
  <2>1. \/ UNCHANGED rfltab
        \/ rfcall.op = "open" /\ rfltab' = [rfltab EXCEPT ![d].state = "USED", ![d].pos = 0]
        \/ rfltab' = [rfltab EXCEPT ![d].pos = @ + 1]
    BY DEF RfReturn
  <2>2. rfltab[d] \in RfBlocks
    BY <1>1, <1>2
  <2>3. CASE rfcall.op = "open" /\ rfltab' = [rfltab EXCEPT ![d].state = "USED", ![d].pos = 0]
    <3> DEFINE b == [rfltab[d] EXCEPT !.state = "USED", !.pos = 0]
    <3>1. b \in RfBlocks /\ b.name = rfltab[d].name
      BY <2>2 DEF RfBlocks
    <3>2. rfltab' = [rfltab EXCEPT ![d] = b]
      BY <1>1, <1>2, <2>2, <2>3 DEF RfBlocks
    <3> HIDE DEF b
    <3> QED BY <1>1, <1>2, <2>3, <3>1, <3>2
  <2>4. CASE rfltab' = [rfltab EXCEPT ![d].pos = @ + 1]
    <3> DEFINE b == [rfltab[d] EXCEPT !.pos = @ + 1]
    <3>1. b \in RfBlocks /\ b.name = rfltab[d].name /\ b.state = rfltab[d].state
      <4>1. ASSUME NEW x \in RfBlocks, NEW n \in Nat
            PROVE  [x EXCEPT !.pos = n] \in RfBlocks /\ [x EXCEPT !.pos = n].name = x.name
                   /\ [x EXCEPT !.pos = n].state = x.state
        BY DEF RfBlocks
      <4>2. rfltab[d].pos + 1 \in Nat
        <5>1. rfltab[d].pos \in Nat
          BY <2>2, Zenon DEF RfBlocks
        <5>2. \A k \in Nat : k + 1 \in Nat
          OBVIOUS
        <5> QED BY <5>1, <5>2, Zenon
      <4> QED BY <2>2, <4>1, <4>2
    <3>2. rfltab' = [rfltab EXCEPT ![d] = b]
      BY <2>4
    <3> HIDE DEF b
    <3> QED BY <1>1, <1>2, <3>1, <3>2
  <2> QED BY <1>2, <2>1, <2>3, <2>4
<1>4. rfdata'.got \in rfdata'.fits
  <2>1. CASE r.op = "reply" /\ ~r.bad /\ rfcall.op = "read"
    <3>1. rfdata' = [got |-> r.data, fits |-> rfcall.seen]
      BY <2>1 DEF RfReturn
    <3>2. r.data \in rfcall.seen
      BY <2>1 DEF RfInv, Seen
    <3> QED BY <3>1, <3>2
  <2>2. CASE rfdata' = NoRead
    BY <2>2 DEF NoRead
  <2> QED BY <2>1, <2>2 DEF RfReturn
<1>5. Named'
  BY <1>1, <1>3 DEF RfInv, Named
<1> QED BY <1>1, <1>3, <1>4, <1>5 DEF RfInv, RfTypeOK, Numbered, Seen, RfReadFresh

\* A try that brought nothing: one more, or the end.
LEMMA ResendInv ==
    ASSUME RfInv, rfcall # RfIdle, Resend, UNCHANGED <<rf_seq, rfnet, rffiles>>
    PROVE  RfInv'
<1>1. CASE rfcall.tries < RF_RETRIES
  <2>1. rfcall \in RfCalls /\ rfcall' = [rfcall EXCEPT !.tries = @ + 1] /\ UNCHANGED <<rfltab, rfdata>>
    BY <1>1 DEF RfInv, RfTypeOK, Resend
  <2>2. rfcall' \in RfCalls /\ rfcall'.op = rfcall.op /\ rfcall'.req = rfcall.req /\ rfcall'.seen = rfcall.seen
    BY <2>1 DEF RfCalls
  <2> QED BY <2>1, <2>2 DEF RfInv, RfTypeOK, Named, Numbered, Seen, RfReadFresh, Byte
<1>2. CASE ~(rfcall.tries < RF_RETRIES)
  <2>1. RfReturn([op |-> "timeout"])
    BY <1>2 DEF Resend
  <2> QED BY <2>1, ReturnInv
<1> QED BY <1>1, <1>2

\* A read of a remote file returns what the file held at some moment of the call, for any
\* number of files, processes, retries and late replies: rfscomm compares the sequence
\* number, and never uses one again.
THEOREM RemoteReadCorrect == RfsSpec => []RfReadFresh
<1>1. RfsInit => RfInv
  <2> SUFFICES ASSUME RfsInit PROVE RfInv
    OBVIOUS
  <2>1. RfTypeOK
    BY DEF RfsInit, RfTypeOK, RfBlocks
  <2> QED BY <2>1 DEF RfsInit, RfInv, Named, Numbered, Seen, RfReadFresh, NoRead
<1>2. RfInv /\ [RfsNext]_rfsVars => RfInv'
  <2> SUFFICES ASSUME RfInv, [RfsNext]_rfsVars PROVE RfInv'
    OBVIOUS
  <2>1. CASE UNCHANGED rfsVars
    BY <2>1 DEF rfsVars, RfInv, RfTypeOK, Named, Numbered, Seen, RfReadFresh, Byte
  <2>2. ASSUME NEW d \in Rfl, rflseek(d, 0) \/ rflclose(d) PROVE RfInv'
    <3>1. /\ rfcall = RfIdle /\ rfltab[d] \in RfBlocks /\ rfltab \in [Rfl -> RfBlocks]
          /\ UNCHANGED <<rf_seq, rfcall, rfnet, rffiles, rfdata>>
      BY <2>2 DEF rflseek, rflclose, RfInv, RfTypeOK
    <3>2. PICK b \in RfBlocks : /\ b.name = rfltab[d].name /\ (b.state = "USED" => rfltab[d].state = "USED")
                                /\ rfltab' = [rfltab EXCEPT ![d] = b]
      BY <2>2, <3>1 DEF rflseek, rflclose, RfBlocks
    <3>3. rfltab' \in [Rfl -> RfBlocks] /\ Named'
      BY <3>1, <3>2 DEF Named, RfInv
    <3> QED BY <3>1, <3>3 DEF RfInv, RfTypeOK, Numbered, Seen, RfReadFresh
  <2>3. ASSUME NEW r \in rfnet, Receive(r) PROVE RfInv'
    <3>1. rfcall # RfIdle /\ r.op = "reply" /\ r \in RfReplies /\ UNCHANGED <<rf_seq, rfnet, rffiles>>
      BY <2>3, Messages DEF Receive, RfInv, RfTypeOK
    <3>2. CASE Answers(r)
      BY <2>3, <3>1, <3>2, ReturnInv DEF Receive, Answers
    <3>3. CASE ~Answers(r)
      BY <2>3, <3>1, <3>3, ResendInv DEF Receive
    <3> QED BY <3>2, <3>3
  <2>4. CASE Timeout
    BY <2>4, ResendInv DEF Timeout
  <2> QED BY <2>1, <2>2, <2>3, <2>4, ServeInv, CallInv DEF RfsNext
<1>3. RfInv => RfReadFresh
  BY DEF RfInv
<1> QED BY <1>1, <1>2, <1>3, PTL DEF RfsSpec

-----------------------------------------------------------------------------
(* The remote disk *)

RdTypes == {"O", "R", "W", "C", "D"}
RdRequests == [type : RdTypes, blk : Nat, val : Nat, seq : Nat]
RdReplies == [type : RdTypes, seq : Nat, val : Nat, good : BOOLEAN, short : BOOLEAN, status : Nat]
Exchanges == [pc : {"idle", "send", "recv", "OK", "SYSERR", "TIMEOUT"}, type : RdTypes, blk : Nat, val : Nat,
              seq : Nat, i : Nat, got : BOOLEAN, own : BOOLEAN]
CommTypeOK ==
    /\ rdseq \in Nat /\ cur \in Exchanges /\ resp \in Nat /\ srvseq \in Nat
    /\ requests \subseteq RdRequests /\ replies \subseteq RdReplies
    /\ DOMAIN file \subseteq DiskBlocks /\ file \in [DOMAIN file -> Nat]

\* A request is well formed: the first one opens the disk, and a write stores its own
\* sequence number.
Formed(m) == (m.seq = 1 => m.type = "O") /\ (m.type = "W" => m.val = m.seq /\ m.blk \in DiskBlocks)

\* The messages on the network belong to the exchange under way or to earlier ones.
Recent ==
    /\ rdseq = cur.seq + 1 /\ Formed(cur) /\ (cur.pc # "idle" => cur.seq >= 1)
    /\ \A m \in requests \cup replies : m.seq \in 1..cur.seq
    /\ \A m \in requests : /\ Formed(m)
                           /\ m.seq = cur.seq => m.type = cur.type /\ m.blk = cur.blk /\ m.val = cur.val
    /\ \A m \in replies : m.seq = cur.seq => m.type = cur.type
    /\ \A m \in replies : m.good /\ m.type = "R" => ~m.short

\* No block holds a value newer than a request that the server would still carry out.
Forward ==
    /\ \A b \in DOMAIN file : file[b] <= cur.seq
    /\ \A m \in requests : m.seq # 1 /\ m.seq >= srvseq => \A b \in DOMAIN file : file[b] <= m.seq

\* The server has carried out the exchange under way: whatever else it would still carry
\* out leaves the block alone.
Settled(v) ==
    /\ \A m \in requests : m.seq = cur.seq \/ m.seq = 1 \/ m.seq < srvseq
    /\ cur.type = "R" => cur.blk \in DOMAIN file /\ file[cur.blk] = v
    /\ cur.type = "W" => cur.blk \in DOMAIN file /\ file[cur.blk] = cur.val
Done ==
    /\ \A m \in replies : m.seq = cur.seq /\ m.good => Settled(m.val)
    /\ cur.pc = "OK" /\ cur.own /\ cur.got => Settled(resp)

CommInv == CommTypeOK /\ Recent /\ Forward /\ Done

\* What one step may do to the file and to the outcome of the exchange.
NeverBack ==
    /\ \A b \in DOMAIN file : b \in DOMAIN file' /\ file'[b] # file[b] => file'[b] > file[b]
    /\ cur'.pc = "OK" /\ cur'.own /\ cur'.got =>
          /\ cur'.type = "R" => cur'.blk \in DOMAIN file' /\ file'[cur'.blk] = resp'
          /\ cur'.type = "W" => cur'.blk \in DOMAIN file' /\ file'[cur'.blk] = cur'.val

USE CommAssumption

\* An outcome the server has settled is what the property asks of it.
LEMMA DoneSound ==
    ASSUME Done', \A b \in DOMAIN file : b \in DOMAIN file' /\ file'[b] # file[b] => file'[b] > file[b]
    PROVE  NeverBack
BY DEF Done, Settled, NeverBack

\* A step that leaves the file alone does not go back.
LEMMA FileSame ==
    ASSUME Done', UNCHANGED file
    PROVE  NeverBack
BY DoneSound

\* The facts about messages that every step uses.
LEMMA CommFacts ==
    ASSUME CommInv
    PROVE  /\ cur.seq \in Nat /\ rdseq \in Nat /\ srvseq \in Nat /\ rdseq = cur.seq + 1
           /\ \A m \in requests : m.seq \in Nat /\ m.seq >= 1 /\ m.seq <= cur.seq
           /\ \A m \in replies : m.seq \in Nat /\ m.seq >= 1 /\ m.seq <= cur.seq
           /\ \A b \in DOMAIN file : file[b] \in Nat
BY DEF CommInv, CommTypeOK, Recent, Exchanges, RdRequests, RdReplies

\* A count that starts again leaves the disk safe when there are no older requests.
LEMMA CountBack ==
    ASSUME NEW n \in {0, 1}, Count(n), ~stale', n < srvseq
    PROVE  \A m \in requests : m.seq = 1 \/ m.seq = cur.seq
<1>1. ~(n \in {0, 1} /\ n < srvseq /\ \E m \in requests : m.seq \notin {1, cur.seq})
  BY Zenon DEF Count
<1> QED BY <1>1

\* The server carries out a request: the messages.  What it does to the file is left to
\* the handlers.
LEMMA ServeMessages ==
    ASSUME CommInv, NEW m \in requests, Fresh(m), NEW a \in RdReplies,
           Count(m.seq), ~stale', replies' = replies \cup {a},
           UNCHANGED <<rdseq, cur, resp, requests>>,
           a.seq = m.seq, a.type = m.type, a.good /\ a.type = "R" => ~a.short,
           DOMAIN file' \subseteq DiskBlocks, file' \in [DOMAIN file' -> Nat]
    PROVE  CommTypeOK' /\ Recent'
<1>1. m \in RdRequests /\ m.seq \in Nat
  BY DEF CommInv, CommTypeOK, RdRequests
<1>2. CommTypeOK'
  BY <1>1 DEF CommInv, CommTypeOK, Count
<1>3. Formed(cur)'
  BY DEF CommInv, Recent, Formed
<1>4. \A n \in requests' : Formed(n)
  BY DEF CommInv, Recent
<1>5. m.seq \in 1..cur.seq /\ (m.seq = cur.seq => m.type = cur.type)
  BY DEF CommInv, Recent
<1> QED BY <1>2, <1>3, <1>4, <1>5 DEF CommInv, Recent, Formed

\* A request that leaves the file alone.
LEMMA ServeKeep ==
    ASSUME CommInv, NEW m \in requests, Fresh(m), NEW a \in RdReplies,
           Count(m.seq), ~stale', replies' = replies \cup {a},
           UNCHANGED <<rdseq, cur, resp, requests, file>>,
           a.seq = m.seq, a.type = m.type, a.good /\ a.type = "R" => ~a.short,
           a.good /\ m.type = "R" => m.blk \in DOMAIN file /\ file[m.blk] = a.val,
           a.good => m.type # "W"
    PROVE  CommInv' /\ NeverBack
<1>1. CommTypeOK' /\ Recent'
  BY ServeMessages DEF CommInv, CommTypeOK
<1>2. /\ cur.seq \in Nat /\ m.seq \in Nat /\ m.seq >= 1 /\ m.seq <= cur.seq
      /\ \A n \in requests : n.seq \in Nat /\ n.seq >= 1 /\ n.seq <= cur.seq
      /\ \A b \in DOMAIN file : file[b] \in Nat
      /\ srvseq \in Nat
  BY CommFacts
<1>0. srvseq' = m.seq /\ requests' = requests
  BY DEF Count
<1>8. m.seq < srvseq => m.seq = 1 /\ \A n \in requests : n.seq = 1 \/ n.seq = cur.seq
  <2>1. m.seq < srvseq => m.seq = 1
    BY <1>2 DEF Fresh
  <2> QED BY <2>1, CountBack
<1>3. Forward'
  <2>1. \A b \in DOMAIN file : file[b] <= cur.seq
    BY DEF CommInv, Forward
  <2>2. ASSUME NEW n \in requests, n.seq # 1, n.seq >= m.seq, NEW b \in DOMAIN file
        PROVE  file[b] <= n.seq
    <3>1. CASE m.seq < srvseq
      BY <1>8, <2>1, <2>2, <3>1
    <3>2. CASE m.seq >= srvseq
      <4>1. n.seq >= srvseq
        BY <1>2, <2>2, <3>2
      <4> QED BY <2>2, <4>1 DEF CommInv, Forward
    <3> QED BY <1>2, <3>1, <3>2
  <2> QED BY <1>0, <2>1, <2>2 DEF Forward
<1>5. ASSUME NEW v, Settled(v) PROVE Settled(v)'
  <2>1. \A n \in requests : n.seq = cur.seq \/ n.seq = 1 \/ n.seq < srvseq
    BY <1>5 DEF Settled
  <2>2. \A n \in requests : n.seq = cur.seq \/ n.seq = 1 \/ n.seq < m.seq
    BY <1>2, <1>8, <2>1
  <2> QED BY <1>0, <1>5, <2>2 DEF Settled
<1>6. ASSUME a.seq = cur.seq, a.good PROVE Settled(a.val)'
  <2>1. m.type = cur.type /\ m.blk = cur.blk
    BY <1>6 DEF CommInv, Recent
  <2>2. \A n \in requests : n.seq = cur.seq \/ n.seq = 1 \/ n.seq < m.seq
    BY <1>2, <1>6
  <2> QED BY <1>0, <1>6, <2>1, <2>2 DEF Settled
<1>7. Done'
  <2>1. ASSUME NEW n \in replies', n.seq = cur.seq, n.good PROVE Settled(n.val)'
    <3>1. CASE n = a
      BY <1>6, <2>1, <3>1
    <3>2. CASE n \in replies
      <4>1. Settled(n.val)
        BY <2>1, <3>2 DEF CommInv, Done
      <4> QED BY <1>5, <4>1
    <3> QED BY <2>1, <3>1, <3>2
  <2>2. ASSUME cur.pc = "OK", cur.own, cur.got PROVE Settled(resp)'
    <3>1. Settled(resp)
      BY <2>2 DEF CommInv, Done
    <3>2. \A v : v = resp => Settled(v)'
      BY <1>5, <3>1
    <3> QED BY <3>2 DEF Settled
  <2> QED BY <2>1, <2>2 DEF Done, Settled
<1> QED BY <1>1, <1>3, <1>7, FileSame DEF CommInv

\* A request that changes the file, a write or a delete: if the exchange under way is
\* settled, the request is a copy of its own.
LEMMA ServeChange ==
    ASSUME CommInv, NEW m \in requests, Fresh(m), NEW a \in RdReplies,
           Count(m.seq), ~stale', replies' = replies \cup {a},
           UNCHANGED <<rdseq, cur, resp, requests>>,
           a.seq = m.seq, a.type = m.type, a.good /\ a.type = "R" => ~a.short,
           m.type \in {"W", "D"},
           DOMAIN file' \subseteq DiskBlocks, file' \in [DOMAIN file' -> Nat],
           \A b \in DOMAIN file' : file'[b] <= m.seq,
           \A b \in DOMAIN file : b \in DOMAIN file' /\ file'[b] # file[b] => file'[b] > file[b],
           m.type = "W" => m.blk \in DOMAIN file' /\ file'[m.blk] = m.val
    PROVE  CommInv' /\ NeverBack
<1>1. CommTypeOK' /\ Recent'
  BY ServeMessages
<1>2. /\ cur.seq \in Nat /\ m.seq \in Nat /\ m.seq <= cur.seq
      /\ \A n \in requests : n.seq \in Nat /\ n.seq <= cur.seq
      /\ srvseq \in Nat /\ \A b \in DOMAIN file' : file'[b] \in Nat
  BY CommFacts
<1>0. srvseq' = m.seq /\ requests' = requests
  BY DEF Count
<1>3. Forward'
  BY <1>0, <1>2 DEF Forward
<1>4. m.seq # 1 /\ m.seq >= srvseq
  BY DEF CommInv, Recent, Formed, Fresh
<1>5. ASSUME m.seq = cur.seq, NEW v PROVE Settled(v)'
  <2>1. m.type = cur.type /\ m.blk = cur.blk /\ m.val = cur.val
    BY <1>5 DEF CommInv, Recent
  <2>2. \A n \in requests : n.seq = cur.seq \/ n.seq < m.seq
    BY <1>2, <1>5
  <2> QED BY <1>0, <1>5, <2>1, <2>2 DEF Settled
<1>6. ASSUME NEW v, Settled(v) PROVE m.seq = cur.seq
  BY <1>2, <1>4, <1>6 DEF Settled
<1>7. Done'
  <2>1. ASSUME NEW n \in replies', n.seq = cur.seq, n.good PROVE m.seq = cur.seq
    BY <1>6, <2>1 DEF CommInv, Done
  <2>2. ASSUME cur.pc = "OK", cur.own, cur.got PROVE m.seq = cur.seq
    BY <1>6, <2>2 DEF CommInv, Done
  <2>3. ASSUME NEW n \in replies', n.seq = cur.seq, n.good PROVE Settled(n.val)'
    BY <1>5, <2>1, <2>3
  <2>4. ASSUME cur.pc = "OK", cur.own, cur.got PROVE Settled(resp)'
    <3>1. \A v : v = resp => Settled(v)'
      BY <1>5, <2>2, <2>4
    <3> QED BY <3>1 DEF Settled
  <2> QED BY <2>3, <2>4 DEF Done, Settled
<1> QED BY <1>1, <1>3, <1>7, DoneSound DEF CommInv

\* The status of an answer, success or error, is a number.
LEMMA StatusType == ntohs(htons(0)) \in Nat /\ ntohs(uint16(htonl(1))) \in Nat
<1>1. htons(0) = 0 /\ htonl(1) = 16777216
  BY DEF htons, htonl
<1>2. uint16(16777216) = 0
  BY DEF uint16
<1>3. ntohs(0) = 0
  BY DEF ntohs, htons
<1> QED BY <1>1, <1>2, <1>3

\* The server's loop, whatever the request.
LEMMA ServerInv ==
    ASSUME CommInv, NEW m \in requests, ServerDo(m), ~stale'
    PROVE  CommInv' /\ NeverBack
<1>1. /\ m \in RdRequests /\ Fresh(m) /\ Count(m.seq) /\ ~stale'
      /\ UNCHANGED <<rdseq, cur, resp, requests>> /\ Formed(m)
  BY DEF ServerDo, CommInv, CommTypeOK, Recent
<1> DEFINE s0 == ntohs(htons(0))
           s1 == ntohs(uint16(htonl(1)))
           okay(v) == Answer(m, TRUE, v, s0)
           err == Answer(m, FALSE, 0, s1)
<1>2. s0 \in Nat /\ s1 \in Nat
  BY StatusType
<1>3. (\A v : sndok(m, v) => replies' = replies \cup {okay(v)}) /\ (snderr(m) => replies' = replies \cup {err})
  BY DEF sndok, snderr
<1> HIDE DEF s0, s1
<1>4. ASSUME NEW v \in Nat
      PROVE  /\ okay(v) \in RdReplies /\ okay(v).seq = m.seq /\ okay(v).type = m.type
             /\ okay(v).good = TRUE /\ okay(v).val = v
             /\ okay(v).good /\ okay(v).type = "R" => ~okay(v).short
  BY <1>1, <1>2 DEF Answer, RdRequests, RdReplies
<1>5. err \in RdReplies /\ err.seq = m.seq /\ err.type = m.type /\ err.good = FALSE
  BY <1>1, <1>2 DEF Answer, RdRequests, RdReplies
<1> HIDE DEF okay, err
<1>6. CASE m.type = "O" /\ rdopen(m)
  <2>1. UNCHANGED file /\ replies' = replies \cup {okay(0)}
    BY <1>3, <1>6 DEF rdopen
  <2> QED BY <1>1, <1>4, <1>6, <2>1, ServeKeep
<1>7. CASE m.type = "R" /\ rdread(m)
  <2>1. UNCHANGED file
    BY <1>7 DEF rdread
  <2>2. CASE opened /\ m.blk \in DOMAIN file
    <3>1. file[m.blk] \in Nat
      BY <2>2, CommFacts
    <3>2. replies' = replies \cup {okay(file[m.blk])}
      BY <1>3, <1>7, <2>2 DEF rdread
    <3> QED BY <1>1, <1>4, <1>7, <2>1, <2>2, <3>1, <3>2, ServeKeep, ZenonT(30)
  <2>3. CASE ~(opened /\ m.blk \in DOMAIN file)
    <3>1. replies' = replies \cup {err}
      BY <1>3, <1>7, <2>3 DEF rdread
    <3> QED BY <1>1, <1>5, <2>1, <3>1, ServeKeep
  <2> QED BY <2>2, <2>3
<1>8. CASE m.type = "W" /\ rdwrite(m)
  <2>1. CASE opened
    <3>1. file' = Extended(m.blk, m.val) /\ replies' = replies \cup {okay(0)}
      BY <1>3, <1>8, <2>1 DEF rdwrite
    <3>2. m.blk \in DiskBlocks /\ m.blk \in Nat /\ m.val = m.seq /\ m.seq \in Nat /\ m.seq # 1 /\ m.seq >= srvseq
      BY <1>1, <1>8 DEF Formed, RdRequests, Fresh
    <3>3. DOMAIN file' = {y \in DiskBlocks : y \in DOMAIN file \/ y <= m.blk}
      BY <3>1 DEF Extended
    <3>4. \A x \in DOMAIN file' : file'[x] = IF x = m.blk THEN m.val ELSE IF x \in DOMAIN file THEN file[x] ELSE 0
      BY <3>1, <3>3 DEF Extended
    <3>5. file' \in [DOMAIN file' -> Nat]
      <4>1. file' = [x \in DOMAIN file' |-> IF x = m.blk THEN m.val ELSE IF x \in DOMAIN file THEN file[x] ELSE 0]
        BY <3>1, <3>3 DEF Extended
      <4>2. \A x \in DOMAIN file' : file'[x] \in Nat
        BY <3>2, <3>4, CommFacts
      <4> QED BY <4>1, <4>2
    <3>6. \A b \in DOMAIN file : file[b] <= m.seq /\ file[b] \in Nat
      BY <3>2, CommFacts DEF CommInv, Forward
    <3>7. \A b \in DOMAIN file' : file'[b] <= m.seq
      BY <3>2, <3>4, <3>6
    <3>8. \A b \in DOMAIN file : b \in DOMAIN file' /\ file'[b] # file[b] => file'[b] > file[b]
      BY <3>2, <3>4, <3>6
    <3>9. m.blk \in DOMAIN file' /\ file'[m.blk] = m.val /\ DOMAIN file' \subseteq DiskBlocks
      BY <3>2, <3>3, <3>4
    <3> QED BY <1>1, <1>4, <1>8, <3>1, <3>5, <3>7, <3>8, <3>9, ServeChange
  <2>2. CASE ~opened
    <3>1. replies' = replies \cup {err} /\ UNCHANGED file
      BY <1>3, <1>8, <2>2 DEF rdwrite
    <3> QED BY <1>1, <1>5, <3>1, ServeKeep
  <2> QED BY <2>1, <2>2
<1>9. CASE m.type = "C" /\ rdclose(m)
  <2>1. UNCHANGED file /\ (replies' = replies \cup {okay(0)} \/ replies' = replies \cup {err})
    BY <1>3, <1>9 DEF rdclose
  <2>2. CASE replies' = replies \cup {okay(0)}
    BY <1>1, <1>4, <1>9, <2>1, <2>2, ServeKeep
  <2>3. CASE replies' = replies \cup {err}
    BY <1>1, <1>5, <1>9, <2>1, <2>3, ServeKeep
  <2> QED BY <2>1, <2>2, <2>3
<1>10. CASE m.type = "D" /\ rddelete(m)
  <2>1. /\ file' = [x \in {} |-> 0]
        /\ replies' = replies \cup {okay(0)} \/ replies' = replies \cup {err}
    BY <1>3, <1>10 DEF rddelete
  <2>2. DOMAIN file' = {} /\ file' \in [DOMAIN file' -> Nat]
    BY <2>1
  <2>3. CASE replies' = replies \cup {okay(0)}
    BY <1>1, <1>4, <1>10, <2>2, <2>3, ServeChange
  <2>4. CASE replies' = replies \cup {err}
    BY <1>1, <1>5, <1>10, <2>2, <2>4, ServeChange
  <2> QED BY <2>1, <2>3, <2>4
<1> QED BY <1>6, <1>7, <1>8, <1>9, <1>10 DEF ServerDo

\* Messages that are lost.
LEMMA LoseInv ==
    ASSUME CommInv, requests' \subseteq requests, replies' \subseteq replies,
           UNCHANGED <<rdseq, cur, resp, srvseq, file>>
    PROVE  CommInv' /\ NeverBack
<1>1. \A v : Settled(v) => Settled(v)'
  BY DEF Settled
<1>2. Done'
  <2>1. \A m \in replies' : m.seq = cur.seq /\ m.good => Settled(m.val)'
    BY <1>1 DEF CommInv, Done
  <2>2. cur.pc = "OK" /\ cur.own /\ cur.got => Settled(resp)'
    BY DEF CommInv, Done, Settled
  <2> QED BY <2>1, <2>2 DEF Done, Settled
<1>3. CommTypeOK' /\ Recent' /\ Forward'
  BY DEF CommInv, CommTypeOK, Recent, Forward, Formed
<1> QED BY <1>2, <1>3, FileSame DEF CommInv

\* The server comes back: of the requests on the network, it would carry out those of the
\* exchange under way and the first.
LEMMA RestartInv ==
    ASSUME CommInv, ServerRestart, ~stale'
    PROVE  CommInv' /\ NeverBack
<1>1. srvseq' = 0 /\ UNCHANGED <<rdseq, cur, resp, requests, replies, file>>
  BY DEF ServerRestart, Count
<1>2. \A m \in requests : m.seq = 1 \/ m.seq = cur.seq \/ srvseq = 0
  <2>1. Count(0) /\ (0 < srvseq \/ srvseq = 0)
    BY CommFacts DEF ServerRestart
  <2> QED BY <2>1, CountBack
<1>3. \A v : Settled(v) => Settled(v)'
  <2>1. srvseq = 0 => \A m \in requests : ~(m.seq < srvseq)
    BY CommFacts
  <2> QED BY <1>1, <1>2, <2>1 DEF Settled
<1>4. Done'
  <2>1. \A m \in replies' : m.seq = cur'.seq /\ m.good => Settled(m.val)'
    BY <1>1, <1>3 DEF CommInv, Done
  <2>2. cur'.pc = "OK" /\ cur'.own /\ cur'.got => Settled(resp)'
    <3>1. \A v : v = resp => (Settled(v) => Settled(v)')
      BY <1>3
    <3>2. cur.pc = "OK" /\ cur.own /\ cur.got => Settled(resp)
      BY DEF CommInv, Done
    <3> QED BY <1>1, <3>1, <3>2 DEF Settled
  <2> QED BY <1>1, <2>1, <2>2 DEF Done, Settled
<1>5. Forward'
  <2>1. \A b \in DOMAIN file : file[b] <= cur.seq
    BY DEF CommInv, Forward
  <2>2. ASSUME NEW m \in requests, m.seq # 1, NEW b \in DOMAIN file PROVE file[b] <= m.seq
    <3>1. CASE m.seq = cur.seq
      BY <2>1, <3>1
    <3>2. CASE srvseq = 0
      BY <2>2, <3>2, CommFacts DEF CommInv, Forward
    <3> QED BY <1>2, <2>2, <3>1, <3>2
  <2> QED BY <1>1, <2>1, <2>2 DEF Forward
<1>6. CommTypeOK' /\ Recent'
  BY <1>1 DEF CommInv, CommTypeOK, Recent, Formed
<1> QED BY <1>1, <1>4, <1>5, <1>6, FileSame DEF CommInv

\* A step inside an exchange that is not at its end: the loop of rdscomm.
LEMMA LoopInv ==
    ASSUME CommInv, cur.pc # "idle", NEW pc \in {"send", "recv", "SYSERR", "TIMEOUT"}, NEW i \in Nat,
           cur' = [cur EXCEPT !.pc = pc, !.i = i],
           requests' \subseteq requests \cup {Request(cur)}, replies' \subseteq replies, resp' \in Nat,
           UNCHANGED <<rdseq, srvseq, file>>
    PROVE  CommInv' /\ NeverBack
<1>1. /\ cur' \in Exchanges /\ cur'.type = cur.type /\ cur'.blk = cur.blk /\ cur'.val = cur.val
      /\ cur'.seq = cur.seq /\ cur'.pc = pc
  BY DEF CommInv, CommTypeOK, Exchanges
<1> DEFINE q == Request(cur)
<1>2. q \in RdRequests /\ q.type = cur.type /\ q.blk = cur.blk /\ q.val = cur.val /\ q.seq = cur.seq
  BY DEF CommInv, CommTypeOK, Exchanges, Request, RdRequests
<1> HIDE DEF q
<1>3. requests' \subseteq requests \cup {q}
  BY DEF q
<1>4. \A v : Settled(v) => Settled(v)'
  BY <1>1, <1>2, <1>3 DEF Settled
<1>5. Done'
  <2>1. \A m \in replies' : m.seq = cur'.seq /\ m.good => Settled(m.val)'
    BY <1>1, <1>4 DEF CommInv, Done
  <2> QED BY <1>1, <2>1 DEF Done
<1>6. CommTypeOK'
  BY <1>1, <1>2, <1>3 DEF CommInv, CommTypeOK
<1>7. Forward'
  BY <1>1, <1>2, <1>3 DEF CommInv, Forward
<1>8. Recent'
  <2>1. cur.seq \in Nat /\ Formed(cur)' /\ Formed(q)
    BY <1>1, <1>2, CommFacts DEF CommInv, Recent, Formed
  <2>2. cur.seq >= 1 /\ q.seq \in 1..cur.seq
    BY <1>2, <2>1 DEF CommInv, Recent
  <2> QED BY <1>1, <1>2, <1>3, <2>1, <2>2 DEF CommInv, Recent
<1> QED BY <1>5, <1>6, <1>7, <1>8, FileSame DEF CommInv

\* A reply ends the exchange: if it is the server's good answer to the request of the
\* exchange, the server has settled it.
LEMMA AcceptInv ==
    ASSUME CommInv, NEW m \in replies, cur.pc = "recv",
           cur' = [cur EXCEPT !.pc = Outcome(m), !.got = m.good, !.own = m.seq = cur.seq],
           resp' = IF m.short THEN resp ELSE m.val,
           UNCHANGED <<rdseq, requests, replies, srvseq, file>>
    PROVE  CommInv' /\ NeverBack
<1>1. m \in RdReplies /\ m.good \in BOOLEAN /\ Outcome(m) \in {"OK", "SYSERR"} /\ resp' \in Nat
  BY DEF CommInv, CommTypeOK, RdReplies, Outcome
<1>2. /\ cur' \in Exchanges /\ cur'.type = cur.type /\ cur'.blk = cur.blk /\ cur'.val = cur.val
      /\ cur'.seq = cur.seq /\ cur'.pc # "idle" /\ (cur'.own <=> m.seq = cur.seq) /\ (cur'.got <=> m.good)
  BY <1>1 DEF CommInv, CommTypeOK, Exchanges
<1>3. \A v : Settled(v) => Settled(v)'
  BY <1>2 DEF Settled
<1>4. Done'
  <2>1. \A n \in replies' : n.seq = cur'.seq /\ n.good => Settled(n.val)'
    BY <1>2, <1>3 DEF CommInv, Done
  <2>2. ASSUME cur'.own, cur'.got PROVE Settled(resp)'
    <3>1. Settled(m.val) /\ m.type = cur.type /\ (m.type = "R" => ~m.short)
      BY <1>2, <2>2 DEF CommInv, Done, Recent
    <3>2. cur.type = "R" => resp' = m.val
      BY <3>1
    <3> QED BY <1>2, <3>1, <3>2 DEF Settled
  <2> QED BY <2>1, <2>2 DEF Done, Settled
<1>5. CommTypeOK'
  BY <1>1, <1>2 DEF CommInv, CommTypeOK
<1>6. Recent' /\ Forward'
  BY <1>2 DEF CommInv, Recent, Forward, Formed
<1> QED BY <1>4, <1>5, <1>6, FileSame DEF CommInv

\* A new exchange: no message of it is on the network.
LEMMA CallExchange ==
    ASSUME CommInv, NEW t \in RdTypes, NEW b \in DiskBlocks, rdscommCall(t, b)
    PROVE  CommInv' /\ NeverBack
<1> DEFINE c == [pc |-> "send", type |-> t, blk |-> b, val |-> IF t = "W" THEN rdseq ELSE 0, seq |-> rdseq,
                 i |-> 0, got |-> FALSE, own |-> FALSE]
<1>1. /\ cur' = c /\ rdseq' = rdseq + 1 /\ (rdseq = 1 => t = "O")
      /\ UNCHANGED <<resp, requests, replies, srvseq, file>>
  BY DEF rdscommCall
<1>2. rdseq \in Nat /\ rdseq >= 1 /\ cur.seq \in Nat /\ rdseq = cur.seq + 1 /\ b \in Nat
  BY CommFacts
<1>3. c \in Exchanges /\ c.seq = rdseq /\ c.pc = "send" /\ c.type = t /\ c.blk = b /\ (t = "W" => c.val = rdseq)
  BY <1>2 DEF Exchanges, RdTypes
<1> HIDE DEF c
<1>4. CommTypeOK'
  BY <1>1, <1>2, <1>3 DEF CommInv, CommTypeOK
<1>5. /\ \A m \in requests' : m \in requests /\ m.seq \in Nat /\ m.seq >= 1 /\ m.seq < rdseq
      /\ \A m \in replies' : m \in replies /\ m.seq \in Nat /\ m.seq >= 1 /\ m.seq < rdseq
  BY <1>1, <1>2, CommFacts
<1>6. Recent'
  <2>1. Formed(cur)' /\ \A m \in requests' : Formed(m)
    BY <1>1, <1>3, <1>5 DEF CommInv, Recent, Formed
  <2>2. \A m \in requests' \cup replies' : m.seq \in 1..cur'.seq /\ m.seq # cur'.seq
    BY <1>1, <1>2, <1>3, <1>5
  <2> QED BY <1>1, <1>2, <1>3, <1>5, <2>1, <2>2 DEF CommInv, Recent
<1>7. Forward'
  BY <1>1, <1>2, <1>3, <1>5, CommFacts DEF CommInv, Forward
<1>8. Done'
  BY <1>1, <1>2, <1>3, <1>5 DEF Done
<1> QED BY <1>1, <1>4, <1>6, <1>7, <1>8, FileSame DEF CommInv

\* A step of the exchange, of the server or of the network.
LEMMA ExchangeStep ==
    ASSUME CommInv, CommNext, ~stale'
    PROVE  CommInv' /\ NeverBack
<1>2. CASE rdscommSend
  <2>1. cur.i \in Nat /\ cur \in Exchanges /\ resp \in Nat
    BY DEF CommInv, CommTypeOK, Exchanges
  <2>2. \A pc : [cur EXCEPT !.pc = pc] = [cur EXCEPT !.pc = pc, !.i = cur.i]
    BY <2>1 DEF Exchanges
  <2>3. CASE cur.i < RD_RETRIES
    <3>1. cur' = [cur EXCEPT !.pc = "recv", !.i = cur.i]
      BY <1>2, <2>2, <2>3 DEF rdscommSend
    <3> QED BY <1>2, <2>1, <2>3, <3>1, LoopInv DEF rdscommSend
  <2>4. CASE ~(cur.i < RD_RETRIES)
    <3>1. cur' = [cur EXCEPT !.pc = "TIMEOUT", !.i = cur.i]
      BY <1>2, <2>2, <2>4 DEF rdscommSend
    <3> QED BY <1>2, <2>1, <2>4, <3>1, LoopInv DEF rdscommSend
  <2> QED BY <2>3, <2>4
<1>3. CASE rdscommTimeout
  <2>1. cur.i + 1 \in Nat /\ resp \in Nat
    BY DEF CommInv, CommTypeOK, Exchanges
  <2> QED BY <1>3, <2>1, LoopInv DEF rdscommTimeout
<1>4. ASSUME NEW m \in replies, rdscommReceive(m) PROVE CommInv' /\ NeverBack
  <2>1. CASE m.seq > cur.seq \/ ~TypeFits(m)
    <3>1. cur.i + 1 \in Nat /\ resp' \in Nat
      BY <1>4 DEF rdscommReceive, CommInv, CommTypeOK, Exchanges, RdReplies
    <3>2. PICK pc \in {"send", "recv"} : cur' = [cur EXCEPT !.pc = pc, !.i = cur.i + 1]
      BY <1>4, <2>1 DEF rdscommReceive
    <3> QED BY <1>4, <3>1, <3>2, LoopInv DEF rdscommReceive
  <2>2. CASE ~(m.seq > cur.seq \/ ~TypeFits(m))
    BY <1>4, <2>2, AcceptInv DEF rdscommReceive
  <2> QED BY <2>1, <2>2
<1>5. CASE rdscommFail
  <2>1. cur.i \in Nat /\ cur \in Exchanges /\ resp \in Nat
    BY DEF CommInv, CommTypeOK, Exchanges
  <2>2. cur' = [cur EXCEPT !.pc = "SYSERR", !.i = cur.i]
    BY <1>5, <2>1 DEF rdscommFail, Exchanges
  <2> QED BY <1>5, <2>1, <2>2, LoopInv DEF rdscommFail
<1>6. ASSUME NEW m \in requests, Lose(m) PROVE CommInv' /\ NeverBack
  BY <1>6, LoseInv DEF Lose
<1>7. ASSUME NEW t \in {"O", "R", "W", "C", "D"}, NEW b \in DiskBlocks, rdscommCall(t, b)
      PROVE  CommInv' /\ NeverBack
  BY <1>7, CallExchange DEF RdTypes
<1> QED BY <1>2, <1>3, <1>4, <1>5, <1>6, <1>7, ServerInv, RestartInv DEF CommNext

\* The remote disk's exchanges, for any number of blocks, retries, exchanges and restarts
\* and however long messages are delayed: until the server's count starts again
\* with older requests on the network, rdserver never goes back to an older request, and an
\* exchange that ends with the good answer to its own request has read or written what the
\* file holds.
THEOREM ExchangeCorrect == CommSpec => ExchangeSound
<1>1. CommInit => CommInv
  <2> SUFFICES ASSUME CommInit PROVE CommInv
    OBVIOUS
  <2>1. Quiet \in Exchanges /\ Quiet.seq = 0 /\ Quiet.type = "O" /\ Quiet.pc = "idle"
    BY DEF Quiet, Exchanges, RdTypes
  <2>2. /\ DOMAIN file = {x \in DiskBlocks : x < EOF} /\ file \in [DOMAIN file -> Nat]
        /\ \A b \in DOMAIN file : file[b] = 0
    BY DEF CommInit
  <2> QED BY <2>1, <2>2 DEF CommInit, CommInv, CommTypeOK, Recent, Forward, Done, Formed
<1>2. ASSUME CommInv, CommNext, ~stale' PROVE CommInv' /\ NeverBack
  BY <1>2, ExchangeStep
<1>3. CommInv /\ UNCHANGED commVars => CommInv'
  BY LoseInv DEF commVars
<1>4. (stale \/ CommInv) /\ [CommNext]_commVars => (stale' \/ CommInv') /\ [~stale' => NeverBack]_commVars
  <2>1. UNCHANGED commVars => stale' = stale
    BY DEF commVars
  <2>2. CommNext => ~stale
    BY DEF CommNext
  <2> QED BY <1>2, <1>3, <2>1, <2>2
<1>5. CommSpec => [][~stale' => NeverBack]_commVars
  BY <1>1, <1>4, PTL DEF CommSpec
<1> QED BY <1>5 DEF ExchangeSound, NeverBack

=============================================================================
