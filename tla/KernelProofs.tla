---------------------------- MODULE KernelProofs ----------------------------
(***************************************************************************)
(* Three of the kernel's allocators, for every value of their constants.    *)
(*                                                                         *)
(* The table of backing stores: allocate_bs, deallocate_bs, open_bs and     *)
(* close_bs keep their promises although isallocated and usecount are read  *)
(* and written outside bs_sem. The argument needs the order of the          *)
(* semaphore's queue: an allocate_bs that saw an entry free before it       *)
(* waited is always ahead of the deallocate_bs of that entry.               *)
(*                                                                         *)
(* The heaps: whatever is allocated and freed, in any order, the blocks in  *)
(* use and the blocks of the free list partition the region, and the list   *)
(* stays sorted with no two neighbours touching.                            *)
(*                                                                         *)
(* The buffer pool: the semaphore, the list of free buffers and the         *)
(* buffers held always add up.                                              *)
(***************************************************************************)
EXTENDS BackingStore, Memory, FiniteSetTheorems, WellFoundedInduction, TLAPS

USE BackingStoreAssumption

Entries == [isopen : BOOLEAN, isallocated : BOOLEAN, usecount : Int, npages : Nat]
Calls == [pc : {"idle", "initwait", "init", "opening", "scan", "wait", "in", "mark", "unmark", "blocks"},
          op : {"none", "init", "alloc", "free", "open", "close", "page"}, at : Nat]
BsTypeOK ==
    /\ active \in BOOLEAN /\ bstab \in [BsIds -> Entries] /\ bscall \in [BsProcs -> Calls]
    /\ given \in [BsProcs -> SUBSET BsIds] /\ opened \in [BsProcs -> SUBSET BsIds]

\* The operation and the place of a call fit the store that it is about.
Fits(c) ==
    /\ c.pc \in {"wait", "in", "mark", "unmark", "blocks"} => c.at \in BsIds
    /\ c.pc = "idle" <=> c.op = "none"
    /\ c.op = "init" => c.pc \in {"initwait", "init", "opening"}
    /\ c.pc \in {"scan", "mark"} => c.op = "alloc"
    /\ c.pc = "unmark" => c.op = "free"
    /\ c.pc = "blocks" => c.op = "page"
    /\ c.op \in {"free", "open", "close", "page"} => c.pc \in {"wait", "in", "unmark", "blocks"}
BsLocals == \A p \in BsProcs : Fits(bscall[p])

AtPc(pcs) == {p \in BsProcs : bscall[p].pc \in pcs}

\* A semaphore of count 1 that the processes of W wait for and one of H has: its queue
\* holds W, each process once.
SemOK(sem, W, H) ==
    /\ sem.n \in Int /\ sem.n <= 1 /\ sem.q \in Seq(BsProcs)
    /\ Len(sem.q) = IF sem.n < 0 THEN -sem.n ELSE 0
    /\ \A i, j \in 1..Len(sem.q) : sem.q[i] = sem.q[j] => i = j
    /\ \A p \in BsProcs : p \in W <=> \E i \in 1..Len(sem.q) : sem.q[i] = p
    /\ W \in SUBSET BsProcs /\ H \in SUBSET BsProcs
    /\ \A p, q \in H : p = q
    /\ sem.n = 1 => H = {}

InitSem == SemOK(bsinit, AtPc({"initwait"}), AtPc({"init", "opening"}))
BsSem == SemOK(bssem, AtPc({"wait"}), AtPc({"in"})) /\ (bssem.n < 1 => AtPc({"in"}) # {})

\* Until psinit is done nothing else has begun, and after it nobody opens the disk again.
Started ==
    /\ active => AtPc({"opening"}) = {}
    /\ ~active => /\ \A p \in BsProcs : /\ bscall[p].pc \in {"idle", "initwait", "init", "opening"}
                                        /\ given[p] = {} /\ opened[p] = {}
                  /\ \A s \in BsIds : bstab[s] = ClosedEntry

NewEntry == [isopen |-> TRUE, isallocated |-> FALSE, usecount |-> 0, npages |-> BsPages]
LeftEntry == [isopen |-> FALSE, isallocated |-> TRUE, usecount |-> 0, npages |-> 0]

Owners(s) == {p \in BsProcs : s \in given[p]}
Users(s) == {p \in BsProcs : s \in opened[p]}
In(pc, s) == {p \in BsProcs : bscall[p].pc = pc /\ bscall[p].at = s}

\* A store is being taken, owned, being given back, or free; its use count is exact.
StoreOK(s) ==
    /\ \A p, q \in Owners(s) : p = q
    /\ \A p, q \in In("mark", s) : p = q
    /\ In("mark", s) # {} => Owners(s) = {} /\ bstab[s] = NewEntry
    /\ In("unmark", s) # {} => bstab[s] = LeftEntry
    /\ Owners(s) # {} /\ In("unmark", s) = {} =>
          bstab[s].isopen /\ bstab[s].isallocated /\ bstab[s].npages = BsPages
    /\ Owners(s) = {} /\ In("mark", s) = {} => bstab[s] = ClosedEntry
    /\ bstab[s].usecount = Cardinality(Users(s))

\* What a call knows of its store.
CallOK(p) ==
    LET c == bscall[p]
    IN  /\ c.op = "free" => c.at \in given[p] /\ bstab[c.at].usecount = 0
        /\ c.op = "free" => \A q \in BsProcs : ~(bscall[q].op = "open" /\ bscall[q].at = c.at)
        /\ c.op = "open" => c.at \notin opened[p]
        /\ c.op = "close" => c.at \in opened[p]
        /\ c.op = "page" => c.at \in given[p] \cup opened[p]

\* q gets bs_sem before p.
Ahead(q, p) ==
    \/ bscall[q].pc = "in"
    \/ \E i, j \in 1..Len(bssem.q) : i < j /\ bssem.q[i] = q /\ bssem.q[j] = p
\* An allocate_bs that is about to look at a store comes before its deallocate_bs.
Order ==
    \A p, q \in BsProcs :
        bscall[p].op = "free" /\ bscall[q].op = "alloc" /\ bscall[q].pc \in {"wait", "in"}
          /\ bscall[q].at = bscall[p].at => bscall[p].pc = "wait" /\ Ahead(q, p)

BsInv ==
    /\ BsTypeOK /\ BsLocals /\ InitSem /\ BsSem /\ Started /\ Order
    /\ \A s \in BsIds : StoreOK(s)
    /\ \A p \in BsProcs : CallOK(p)

-----------------------------------------------------------------------------
(* Semaphores *)

\* wait: the caller gets the semaphore, or is the last of its queue.
LEMMA SemWait ==
    ASSUME NEW sem, NEW W, NEW H, SemOK(sem, W, H), NEW p \in BsProcs, p \notin W
    PROVE  /\ sem.n > 0 => SemOK(BsWait(sem, p), W, H \cup {p})
           /\ sem.n <= 0 => /\ SemOK(BsWait(sem, p), W \cup {p}, H)
                            /\ BsWait(sem, p).q = Append(sem.q, p)
<1> DEFINE k == Len(sem.q)
<1>1. /\ sem.n \in Int /\ sem.n <= 1 /\ sem.q \in Seq(BsProcs) /\ k \in Nat
      /\ k = IF sem.n < 0 THEN -sem.n ELSE 0
  BY DEF SemOK
<1>2. ASSUME sem.n > 0 PROVE SemOK(BsWait(sem, p), W, H \cup {p})
  <2>1. BsWait(sem, p).n = 0 /\ BsWait(sem, p).q = sem.q /\ sem.n = 1 /\ H = {}
    BY <1>1, <1>2 DEF BsWait, SemOK
  <2> QED BY <1>1, <2>1 DEF SemOK
<1>3. ASSUME sem.n <= 0 PROVE /\ SemOK(BsWait(sem, p), W \cup {p}, H)
                              /\ BsWait(sem, p).q = Append(sem.q, p)
  <2> DEFINE r == Append(sem.q, p)
  <2>1. BsWait(sem, p).n = sem.n - 1 /\ BsWait(sem, p).q = r
    BY <1>1, <1>3 DEF BsWait
  <2>2. /\ r \in Seq(BsProcs) /\ Len(r) = k + 1 /\ r[k + 1] = p
        /\ \A i \in 1..k : r[i] = sem.q[i]
    BY <1>1
  <2> HIDE DEF r
  <2>3. \A i \in 1..k + 1 : i \in 1..k \/ i = k + 1
    BY <1>1
  <2>4. \A i \in 1..k : i \in 1..k + 1 /\ k + 1 \in 1..k + 1
    BY <1>1
  <2>5. \A i \in 1..k : sem.q[i] # p /\ sem.q[i] \in BsProcs
    BY <1>1 DEF SemOK
  <2>6. \A i, j \in 1..k + 1 : r[i] = r[j] => i = j
    <3>1. \A i, j \in 1..k : sem.q[i] = sem.q[j] => i = j
      BY DEF SemOK
    <3> QED BY <2>2, <2>3, <2>5, <3>1
  <2>7. \A x \in BsProcs : x \in W \cup {p} <=> \E i \in 1..k + 1 : r[i] = x
    <3>1. \A x \in BsProcs : x \in W <=> \E i \in 1..k : sem.q[i] = x
      BY DEF SemOK
    <3>2. k + 1 \in 1..k + 1
      BY <1>1
    <3> QED BY <2>2, <2>3, <2>4, <3>1, <3>2
  <2>8. sem.n - 1 \in Int /\ sem.n - 1 <= 1 /\ sem.n - 1 # 1 /\ k + 1 = IF sem.n - 1 < 0 THEN -(sem.n - 1) ELSE 0
    BY <1>1, <1>3
  <2>9. W \cup {p} \in SUBSET BsProcs /\ H \in SUBSET BsProcs /\ \A x, y \in H : x = y
    BY DEF SemOK
  <2> DEFINE t == BsWait(sem, p)
             V == W \cup {p}
  <2>10. t.n = sem.n - 1 /\ t.q = r /\ Len(t.q) = k + 1
    BY <2>1, <2>2
  <2>11. \A x \in BsProcs : x \in V <=> \E i \in 1..k + 1 : r[i] = x
    BY <2>7
  <2>12. V \in SUBSET BsProcs
    BY <2>9
  <2> HIDE DEF t, V, k
  <2>13. SemOK(t, V, H)
    BY <2>2, <2>6, <2>8, <2>9, <2>10, <2>11, <2>12 DEF SemOK
  <2> QED BY <2>1, <2>13 DEF t, V, r
<1> QED BY <1>2, <1>3

\* signal: the first of the queue gets the semaphore; without one it is free.
LEMMA SemSignal ==
    ASSUME NEW sem, NEW W, NEW H, SemOK(sem, W, H), H # {}
    PROVE  /\ sem.n \in Int /\ sem.n <= 0
           /\ sem.n = 0 => SemOK(BsSignal(sem), W, {}) /\ BsSignal(sem).n = 1 /\ BsSignal(sem).q = sem.q
           /\ sem.n < 0 => /\ Head(sem.q) \in W /\ Head(sem.q) = sem.q[1]
                           /\ SemOK(BsSignal(sem), W \ {Head(sem.q)}, {Head(sem.q)})
                           /\ BsSignal(sem).n = sem.n + 1
                           /\ Len(BsSignal(sem).q) = Len(sem.q) - 1 /\ Len(sem.q) \in Nat \ {0}
                           /\ \A i \in 1..Len(sem.q) - 1 : BsSignal(sem).q[i] = sem.q[i + 1]
<1> DEFINE k == Len(sem.q)
<1>1. /\ sem.n \in Int /\ sem.n <= 0 /\ sem.q \in Seq(BsProcs) /\ k \in Nat
      /\ k = IF sem.n < 0 THEN -sem.n ELSE 0
      /\ BsSignal(sem).n = sem.n + 1
  BY DEF SemOK, BsSignal
<1>2. ASSUME sem.n = 0 PROVE SemOK(BsSignal(sem), W, {}) /\ BsSignal(sem).n = 1 /\ BsSignal(sem).q = sem.q
  BY <1>1, <1>2 DEF BsSignal, SemOK
<1>3. ASSUME sem.n < 0
      PROVE  /\ Head(sem.q) \in W /\ Head(sem.q) = sem.q[1]
             /\ SemOK(BsSignal(sem), W \ {Head(sem.q)}, {Head(sem.q)})
             /\ Len(BsSignal(sem).q) = Len(sem.q) - 1 /\ Len(sem.q) \in Nat \ {0}
             /\ \A i \in 1..Len(sem.q) - 1 : BsSignal(sem).q[i] = sem.q[i + 1]
  <2> DEFINE r == Tail(sem.q)
             h == Head(sem.q)
  <2>1. BsSignal(sem).q = r /\ k = -sem.n /\ k >= 1 /\ sem.q # <<>>
    BY <1>1, <1>3 DEF BsSignal
  <2>2. /\ r \in Seq(BsProcs) /\ Len(r) = k - 1 /\ h = sem.q[1] /\ h \in BsProcs
        /\ \A i \in 1..k - 1 : r[i] = sem.q[i + 1]
    BY <1>1, <2>1
  <2> HIDE DEF r, h
  <2>3. 1 \in 1..k /\ \A i \in 1..k - 1 : i + 1 \in 1..k /\ i + 1 # 1
    BY <1>1, <2>1
  <2>4. \A i \in 1..k : i = 1 \/ (i - 1 \in 1..k - 1 /\ i = (i - 1) + 1)
    BY <1>1
  <2>5. \A i, j \in 1..k : sem.q[i] = sem.q[j] => i = j
    BY DEF SemOK
  <2>6. \A x \in BsProcs : x \in W <=> \E i \in 1..k : sem.q[i] = x
    BY DEF SemOK
  <2>7. h \in W
    BY <2>2, <2>3, <2>6
  <2>8. \A i, j \in 1..k - 1 : r[i] = r[j] => i = j
    <3> SUFFICES ASSUME NEW i \in 1..k - 1, NEW j \in 1..k - 1, r[i] = r[j] PROVE i = j
      OBVIOUS
    <3>1. i + 1 = j + 1
      BY <2>2, <2>3, <2>5
    <3> QED BY <3>1
  <2>9. \A x \in BsProcs : x \in W \ {h} <=> \E i \in 1..k - 1 : r[i] = x
    <3>1. ASSUME NEW x \in BsProcs, x \in W, x # h PROVE \E i \in 1..k - 1 : r[i] = x
      <4>1. PICK i \in 1..k : sem.q[i] = x
        BY <2>6, <3>1
      <4>2. i # 1 /\ i - 1 \in 1..k - 1
        BY <2>2, <2>4, <3>1, <4>1
      <4>3. r[i - 1] = sem.q[i]
        BY <2>2, <2>4, <4>2
      <4> QED BY <4>1, <4>2, <4>3
    <3>2. ASSUME NEW x \in BsProcs, NEW i \in 1..k - 1, r[i] = x PROVE x \in W /\ x # h
      BY <2>2, <2>3, <2>5, <2>6, <3>2
    <3> QED BY <3>1, <3>2
  <2>10. /\ sem.n + 1 \in Int /\ sem.n + 1 <= 1 /\ sem.n + 1 # 1
         /\ k - 1 = IF sem.n + 1 < 0 THEN -(sem.n + 1) ELSE 0
    BY <1>1, <1>3, <2>1
  <2>11. W \ {h} \in SUBSET BsProcs /\ {h} \in SUBSET BsProcs /\ \A x, y \in {h} : x = y
    BY <2>2 DEF SemOK
  <2>12. SemOK(BsSignal(sem), W \ {h}, {h})
    BY <1>1, <2>1, <2>2, <2>8, <2>9, <2>10, <2>11 DEF SemOK
  <2> QED BY <1>1, <2>1, <2>2, <2>7, <2>12, SMTT(30) DEF h
<1> QED BY <1>1, <1>2, <1>3

\* A semaphore that somebody leaves without a signal stays one.
LEMMA SemLess ==
    ASSUME NEW sem, NEW W, NEW H, NEW K, SemOK(sem, W, H), K \subseteq H
    PROVE  SemOK(sem, W, K)
BY DEF SemOK

\* The places of psinit.
InitPcs == {"initwait", "init", "opening"}

\* The semaphore bs_init_sem does not see what happens outside psinit.
LEMMA InitSame ==
    ASSUME InitSem, UNCHANGED bsinit,
           \A q \in BsProcs : bscall'[q].pc = bscall[q].pc
                             \/ (bscall'[q].pc \notin InitPcs /\ bscall[q].pc \notin InitPcs)
    PROVE  InitSem'
<1>1. AtPc({"initwait"})' = AtPc({"initwait"}) /\ AtPc({"init", "opening"})' = AtPc({"init", "opening"})
  BY DEF AtPc, InitPcs
<1> QED BY <1>1 DEF InitSem, SemOK

\* bs_sem does not see what happens outside its sections.
LEMMA BsSame ==
    ASSUME BsSem, UNCHANGED bssem,
           \A q \in BsProcs : bscall'[q].pc = bscall[q].pc
                             \/ (bscall'[q].pc \notin {"wait", "in"} /\ bscall[q].pc \notin {"wait", "in"})
    PROVE  BsSem' /\ \A q, r \in BsProcs : Ahead(q, r) => Ahead(q, r)'
<1>1. AtPc({"wait"})' = AtPc({"wait"}) /\ AtPc({"in"})' = AtPc({"in"})
  BY DEF AtPc
<1>2. BsSem'
  BY <1>1 DEF BsSem
<1> QED BY <1>2 DEF Ahead

\* A call enters its section, or waits behind everybody who is there.
LEMMA EnterEffect ==
    ASSUME BsTypeOK, BsSem, NEW p \in BsProcs, NEW op \in {"alloc", "free", "open", "close", "page"},
           NEW s \in BsIds, bscall[p].pc \in {"idle", "scan"}, EnterBs(p, op, s)
    PROVE  /\ BsSem' /\ bscall' \in [BsProcs -> Calls]
           /\ \A q \in BsProcs \ {p} : bscall'[q] = bscall[q]
           /\ bscall'[p].op = op /\ bscall'[p].at = s /\ bscall'[p].pc \in {"wait", "in"}
           /\ \A q, r \in BsProcs \ {p} : Ahead(q, r) => Ahead(q, r)'
           /\ bscall'[p].pc = "wait" =>
                 \A q \in BsProcs \ {p} : bscall[q].pc \in {"wait", "in"} => Ahead(q, p)'
           /\ bscall'[p].pc = "in" => \A q \in BsProcs \ {p} : bscall[q].pc \notin {"wait", "in"}
<1> DEFINE c == [pc |-> IF bssem.n > 0 THEN "in" ELSE "wait", op |-> op, at |-> s]
           W == AtPc({"wait"})
           H == AtPc({"in"})
<1>1. /\ bssem' = BsWait(bssem, p) /\ bscall' = [bscall EXCEPT ![p] = c]
      /\ bscall \in [BsProcs -> Calls]
  BY DEF EnterBs, BsTypeOK
<1>2. c \in Calls /\ c.op = op /\ c.at = s
  BY DEF Calls, BsIds
<1>3. c.pc = IF bssem.n > 0 THEN "in" ELSE "wait"
  OBVIOUS
<1> HIDE DEF c
<1>4. bscall' \in [BsProcs -> Calls] /\ bscall'[p] = c /\ \A q \in BsProcs \ {p} : bscall'[q] = bscall[q]
  BY <1>1, <1>2
<1>5. SemOK(bssem, W, H) /\ p \notin W /\ p \notin H /\ bssem.n \in Int
  BY DEF BsSem, AtPc, SemOK
<1>6. CASE bssem.n > 0
  <2>1. AtPc({"wait"})' = W /\ AtPc({"in"})' = H \cup {p}
    BY <1>3, <1>4, <1>6 DEF AtPc
  <2>2. SemOK(bssem', W, H \cup {p})
    BY <1>1, <1>5, <1>6, SemWait
  <2>3. bssem'.q = bssem.q
    BY <1>1, <1>6 DEF BsWait
  <2>4. BsSem'
    BY <2>1, <2>2 DEF BsSem
  <2>5. H = {} /\ W = {}
    BY <1>5, <1>6 DEF SemOK
  <2> QED BY <1>2, <1>3, <1>4, <1>6, <2>3, <2>4, <2>5 DEF Ahead, AtPc
<1>7. CASE bssem.n <= 0
  <2> DEFINE k == Len(bssem.q)
  <2>1. AtPc({"wait"})' = W \cup {p} /\ AtPc({"in"})' = H
    BY <1>3, <1>4, <1>5, <1>7 DEF AtPc
  <2>2. SemOK(bssem', W \cup {p}, H) /\ bssem'.q = Append(bssem.q, p)
    BY <1>1, <1>5, <1>7, SemWait
  <2>3. BsSem'
    <3>1. H # {}
      BY <1>5, <1>7 DEF BsSem
    <3>2. SemOK(bssem, AtPc({"wait"}), AtPc({"in"}))' /\ (AtPc({"in"}) # {})'
      BY <2>1, <2>2, <3>1
    <3> QED BY <3>2 DEF BsSem
  <2>4. bssem.q \in Seq(BsProcs) /\ k \in Nat /\ \A q \in W : \E i \in 1..k : bssem.q[i] = q
    BY <1>5 DEF SemOK
  <2>5. Len(bssem'.q) = k + 1 /\ bssem'.q[k + 1] = p /\ \A i \in 1..k : bssem'.q[i] = bssem.q[i]
    BY <2>2, <2>4
  <2>6. k + 1 \in 1..k + 1 /\ \A i \in 1..k : i \in 1..k + 1 /\ i < k + 1
    BY <2>4
  <2>7. \A q, r \in BsProcs \ {p} : Ahead(q, r) => Ahead(q, r)'
    BY <1>4, <2>5, <2>6 DEF Ahead
  <2>8. ASSUME NEW q \in BsProcs \ {p}, bscall[q].pc \in {"wait", "in"} PROVE Ahead(q, p)'
    <3>1. CASE bscall[q].pc = "in"
      BY <1>4, <3>1 DEF Ahead
    <3>2. CASE bscall[q].pc = "wait"
      <4>1. PICK i \in 1..k : bssem.q[i] = q
        BY <2>4, <3>2 DEF AtPc
      <4>2. i \in 1..Len(bssem'.q) /\ k + 1 \in 1..Len(bssem'.q) /\ i < k + 1 /\ bssem'.q[i] = q
        BY <2>5, <2>6, <4>1
      <4> QED BY <2>5, <4>2 DEF Ahead
    <3> QED BY <2>8, <3>1, <3>2
  <2> QED BY <1>2, <1>3, <1>4, <1>5, <1>7, <2>3, <2>7, <2>8
<1> QED BY <1>5, <1>6, <1>7

\* A call leaves its section: the others keep their calls, and the first of the queue,
\* behind nobody, goes in.
LEMMA LeaveEffect ==
    ASSUME BsTypeOK, BsSem, NEW p \in BsProcs, bscall[p].pc = "in", NEW c \in Calls,
           c.pc \notin {"wait", "in"}, LeaveBs(p, c)
    PROVE  /\ BsSem' /\ bscall' \in [BsProcs -> Calls] /\ bscall'[p] = c
           /\ \A q \in BsProcs \ {p} :
                 /\ bscall'[q].op = bscall[q].op /\ bscall'[q].at = bscall[q].at
                 /\ \/ bscall'[q].pc = bscall[q].pc
                    \/ /\ bscall[q].pc = "wait" /\ bscall'[q].pc = "in"
                       /\ \A r \in BsProcs \ {p} : ~Ahead(r, q)
           /\ \A q, r \in BsProcs \ {p} : bscall'[r].pc = "wait" /\ Ahead(q, r) => Ahead(q, r)'
<1> DEFINE W == AtPc({"wait"})
           H == AtPc({"in"})
           h == Head(bssem.q)
           k == Len(bssem.q)
           d == [bscall EXCEPT ![p] = c]
<1>1. /\ bssem' = BsSignal(bssem) /\ bscall' = BsWoken(bssem, "in", d)
      /\ bscall \in [BsProcs -> Calls]
  BY DEF LeaveBs, BsTypeOK
<1>2. SemOK(bssem, W, H) /\ p \in H /\ p \notin W
  BY DEF BsSem, AtPc
<1>3. H = {p}
  BY <1>2 DEF SemOK
<1>4. /\ bssem.n \in Int /\ bssem.n <= 0
      /\ bssem.n = 0 => SemOK(BsSignal(bssem), W, {}) /\ BsSignal(bssem).n = 1 /\ BsSignal(bssem).q = bssem.q
      /\ bssem.n < 0 => /\ h \in W /\ h = bssem.q[1]
                        /\ SemOK(BsSignal(bssem), W \ {h}, {h})
                        /\ BsSignal(bssem).n = bssem.n + 1
                        /\ Len(BsSignal(bssem).q) = k - 1 /\ k \in Nat \ {0}
                        /\ \A i \in 1..k - 1 : BsSignal(bssem).q[i] = bssem.q[i + 1]
  BY <1>2, SemSignal
<1>5. d \in [BsProcs -> Calls] /\ d[p] = c /\ \A q \in BsProcs \ {p} : d[q] = bscall[q]
  BY <1>1
<1> HIDE DEF d, h
<1>6. CASE bssem.n = 0
  <2>1. bscall' = d
    BY <1>1, <1>6 DEF BsWoken
  <2>2. AtPc({"wait"})' = W /\ AtPc({"in"})' = {}
    BY <1>3, <1>5, <2>1 DEF AtPc
  <2>3. BsSem'
    BY <1>1, <1>4, <1>6, <2>2 DEF BsSem
  <2>4. \A q \in BsProcs \ {p} : bscall[q].pc # "in"
    BY <1>3 DEF AtPc
  <2> QED BY <1>1, <1>4, <1>5, <1>6, <2>1, <2>3, <2>4 DEF Ahead
<1>7. CASE bssem.n < 0
  <2>1. bscall' = [d EXCEPT ![h].pc = "in"]
    BY <1>1, <1>7 DEF BsWoken, h
  <2>2. h \in BsProcs /\ h # p /\ bscall[h].pc = "wait" /\ d[h] = bscall[h]
    BY <1>2, <1>4, <1>5, <1>7 DEF AtPc
  <2>3. /\ bscall' \in [BsProcs -> Calls] /\ bscall'[p] = c
        /\ bscall'[h].pc = "in" /\ bscall'[h].op = bscall[h].op /\ bscall'[h].at = bscall[h].at
        /\ \A q \in BsProcs \ {p, h} : bscall'[q] = bscall[q]
    BY <1>5, <2>1, <2>2 DEF Calls
  <2>4. AtPc({"wait"})' = W \ {h} /\ AtPc({"in"})' = {h}
    BY <1>3, <2>2, <2>3 DEF AtPc
  <2>5. BsSem'
    BY <1>1, <1>4, <1>7, <2>4 DEF BsSem
  <2>6. \A q \in BsProcs \ {p} : bscall[q].pc # "in"
    BY <1>3 DEF AtPc
  <2>7. /\ \A i, j \in 1..k : bssem.q[i] = bssem.q[j] => i = j
        /\ k \in Nat /\ k >= 1 /\ bssem.q[1] = h
    BY <1>2, <1>4, <1>7 DEF SemOK
  <2>8. \A r \in BsProcs \ {p} : ~Ahead(r, h)
    <3>1. \A i, j \in 1..k : i < j => bssem.q[j] # h
      BY <2>7
    <3> QED BY <2>6, <3>1 DEF Ahead
  <2>9. ASSUME NEW q \in BsProcs \ {p}, NEW r \in BsProcs \ {p}, bscall'[r].pc = "wait", Ahead(q, r)
        PROVE  Ahead(q, r)'
    <3>1. PICK i \in 1..k, j \in 1..k : i < j /\ bssem.q[i] = q /\ bssem.q[j] = r
      BY <2>6, <2>9 DEF Ahead
    <3>2. CASE q = h
      BY <2>3, <3>2 DEF Ahead
    <3>3. CASE q # h
      <4>1. i # 1 /\ j # 1
        BY <2>7, <3>1, <3>3
      <4>2. /\ i - 1 \in 1..k - 1 /\ j - 1 \in 1..k - 1 /\ i - 1 < j - 1
            /\ (i - 1) + 1 = i /\ (j - 1) + 1 = j
        BY <2>7, <3>1, <4>1
      <4>3. bssem'.q[i - 1] = q /\ bssem'.q[j - 1] = r /\ Len(bssem'.q) = k - 1
        BY <1>1, <1>4, <1>7, <3>1, <4>2
      <4> QED BY <4>2, <4>3 DEF Ahead
    <3> QED BY <3>2, <3>3
  <2> QED BY <2>2, <2>3, <2>5, <2>8, <2>9
<1> QED BY <1>4, <1>6, <1>7

-----------------------------------------------------------------------------
(* Stores *)

\* A store that the step does not touch.
LEMMA StoreSame ==
    ASSUME NEW s \in BsIds, StoreOK(s), bstab'[s] = bstab[s],
           \A q \in BsProcs : s \in given'[q] <=> s \in given[q],
           \A q \in BsProcs : s \in opened'[q] <=> s \in opened[q],
           \A q \in BsProcs : \/ bscall'[q].pc = bscall[q].pc /\ bscall'[q].at = bscall[q].at
                             \/ /\ ~(bscall'[q].pc \in {"mark", "unmark"} /\ bscall'[q].at = s)
                                /\ ~(bscall[q].pc \in {"mark", "unmark"} /\ bscall[q].at = s)
    PROVE  StoreOK(s)'
<1>1. /\ Owners(s)' = Owners(s) /\ Users(s)' = Users(s)
      /\ In("mark", s)' = In("mark", s) /\ In("unmark", s)' = In("unmark", s)
  <2>1. Owners(s)' = Owners(s)
    BY DEF Owners
  <2>2. Users(s)' = Users(s)
    BY DEF Users
  <2>3. In("mark", s)' = In("mark", s)
    BY DEF In
  <2>4. In("unmark", s)' = In("unmark", s)
    BY DEF In
  <2> QED BY <2>1, <2>2, <2>3, <2>4
<1> QED BY <1>1 DEF StoreOK

\* A call that the step does not touch.
LEMMA CallSame ==
    ASSUME BsInv, NEW p \in BsProcs, NEW q \in BsProcs \ {p},
           \A r \in BsProcs \ {p} : bscall'[r].op = bscall[r].op /\ bscall'[r].at = bscall[r].at,
           bscall[q].op \in {"free", "page"} => given'[q] = given[q], opened'[q] = opened[q],
           bscall[q].op = "free" => /\ bstab'[bscall[q].at].usecount = bstab[bscall[q].at].usecount
                                    /\ ~(bscall'[p].op = "open" /\ bscall'[p].at = bscall[q].at)
    PROVE  CallOK(q)'
<1>1. CallOK(q) /\ q # p /\ bscall'[q].op = bscall[q].op /\ bscall'[q].at = bscall[q].at
  BY DEF BsInv
<1>2. ASSUME bscall[q].op = "free", NEW r \in BsProcs
      PROVE  ~(bscall'[r].op = "open" /\ bscall'[r].at = bscall[q].at)
  BY <1>1, <1>2 DEF CallOK
<1> QED BY <1>1, <1>2 DEF CallOK

\* A step of a call that stays outside the sections of both semaphores.
LEMMA PlainCommon ==
    ASSUME BsInv, NEW p \in BsProcs, NEW c \in Calls, bscall' = [bscall EXCEPT ![p] = c], Fits(c),
           bscall[p].pc \notin {"wait", "in"} \cup InitPcs, c.pc \notin {"wait", "in"} \cup InitPcs,
           c.op # "free", active, UNCHANGED <<active, bsinit, bssem>>,
           bstab' \in [BsIds -> Entries], given' \in [BsProcs -> SUBSET BsIds], UNCHANGED opened
    PROVE  /\ BsTypeOK' /\ BsLocals' /\ InitSem' /\ BsSem' /\ Started' /\ Order'
           /\ bscall'[p] = c /\ \A q \in BsProcs \ {p} : bscall'[q] = bscall[q]
<1>1. bscall' \in [BsProcs -> Calls] /\ bscall'[p] = c /\ \A q \in BsProcs \ {p} : bscall'[q] = bscall[q]
  BY DEF BsInv, BsTypeOK
<1>2. BsTypeOK'
  BY <1>1 DEF BsInv, BsTypeOK
<1>3. BsLocals'
  BY <1>1 DEF BsInv, BsLocals, Fits
<1>4. InitSem'
  BY <1>1, InitSame DEF BsInv
<1>5. BsSem' /\ \A q, r \in BsProcs : Ahead(q, r) => Ahead(q, r)'
  BY <1>1, BsSame DEF BsInv
<1>6. Started'
  BY <1>1 DEF BsInv, Started, AtPc, InitPcs
<1>7. Order'
  BY <1>1, <1>5 DEF BsInv, Order
<1> QED BY <1>1, <1>2, <1>3, <1>4, <1>5, <1>6, <1>7

\* A call that leaves its section.
LEMMA LeaveCommon ==
    ASSUME BsInv, NEW p \in BsProcs, NEW c \in Calls, bscall[p].pc = "in", LeaveBs(p, c), Fits(c),
           c.pc \notin {"wait", "in"} \cup InitPcs,
           c.op = "free" => bscall[p].op = "free" /\ c.at = bscall[p].at, UNCHANGED <<active, bsinit, given>>,
           bstab' \in [BsIds -> Entries], opened' \in [BsProcs -> SUBSET BsIds]
    PROVE  /\ BsTypeOK' /\ BsLocals' /\ InitSem' /\ BsSem' /\ Started' /\ Order'
           /\ bscall'[p] = c
           /\ \A q \in BsProcs \ {p} :
                 /\ bscall'[q].op = bscall[q].op /\ bscall'[q].at = bscall[q].at
                 /\ bscall'[q].pc = bscall[q].pc \/ (bscall[q].pc = "wait" /\ bscall'[q].pc = "in")
<1>1. /\ BsSem' /\ bscall' \in [BsProcs -> Calls] /\ bscall'[p] = c
      /\ \A q \in BsProcs \ {p} :
            /\ bscall'[q].op = bscall[q].op /\ bscall'[q].at = bscall[q].at
            /\ \/ bscall'[q].pc = bscall[q].pc
               \/ /\ bscall[q].pc = "wait" /\ bscall'[q].pc = "in"
                  /\ \A r \in BsProcs \ {p} : ~Ahead(r, q)
      /\ \A q, r \in BsProcs \ {p} : bscall'[r].pc = "wait" /\ Ahead(q, r) => Ahead(q, r)'
  BY LeaveEffect DEF BsInv
<1>2. BsTypeOK'
  BY <1>1 DEF BsInv, BsTypeOK
<1>3. BsLocals'
  <2>1. ASSUME NEW q \in BsProcs \ {p} PROVE Fits(bscall'[q])
    BY <1>1 DEF BsInv, BsLocals, Fits
  <2>2. Fits(bscall'[p])
    BY <1>1
  <2> QED BY <2>1, <2>2 DEF BsLocals, Fits
<1>4. InitSem'
  BY <1>1, InitSame DEF BsInv, InitPcs
<1>5. active
  BY DEF BsInv, Started
<1>6. Started'
  BY <1>1, <1>5 DEF BsInv, Started, AtPc, InitPcs
<1>7. Order'
  <2> SUFFICES ASSUME NEW q \in BsProcs, NEW r \in BsProcs, bscall'[q].op = "free", bscall'[r].op = "alloc",
                      bscall'[r].pc \in {"wait", "in"}, bscall'[r].at = bscall'[q].at
               PROVE  bscall'[q].pc = "wait" /\ Ahead(r, q)'
    BY DEF Order
  <2>1. r # p /\ bscall[r].op = "alloc" /\ bscall[r].pc \in {"wait", "in"} /\ bscall[r].at = bscall'[r].at
    BY <1>1
  <2>2. bscall[q].op = "free" /\ bscall[q].at = bscall'[q].at
    BY <1>1
  <2>3. bscall[q].pc = "wait" /\ Ahead(r, q)
    BY <2>1, <2>2 DEF BsInv, Order
  <2>4. q # p
    BY <2>3
  <2> QED BY <1>1, <2>1, <2>3, <2>4
<1> QED BY <1>1, <1>2, <1>3, <1>4, <1>6, <1>7

\* A call that enters its section, or waits to.
LEMMA EnterInv ==
    ASSUME BsInv, NEW p \in BsProcs, NEW op \in {"alloc", "free", "open", "close", "page"}, NEW s \in BsIds,
           bscall[p].pc \in {"idle", "scan"}, EnterBs(p, op, s), active,
           UNCHANGED <<active, bsinit, bstab, given, opened>>,
           op = "alloc" => ~bstab[s].isallocated,
           op = "free" => /\ s \in given[p] /\ bstab[s].usecount = 0
                          /\ \A q \in BsProcs : ~(bscall[q].op = "open" /\ bscall[q].at = s),
           op = "open" => /\ s \notin opened[p]
                          /\ \A q \in BsProcs : ~(bscall[q].op = "free" /\ bscall[q].at = s),
           op = "close" => s \in opened[p],
           op = "page" => s \in given[p] \cup opened[p]
    PROVE  BsInv'
<1>1. /\ BsSem' /\ bscall' \in [BsProcs -> Calls]
      /\ \A q \in BsProcs \ {p} : bscall'[q] = bscall[q]
      /\ bscall'[p].op = op /\ bscall'[p].at = s /\ bscall'[p].pc \in {"wait", "in"}
      /\ \A q, r \in BsProcs \ {p} : Ahead(q, r) => Ahead(q, r)'
      /\ bscall'[p].pc = "wait" => \A q \in BsProcs \ {p} : bscall[q].pc \in {"wait", "in"} => Ahead(q, p)'
      /\ bscall'[p].pc = "in" => \A q \in BsProcs \ {p} : bscall[q].pc \notin {"wait", "in"}
  BY EnterEffect DEF BsInv
<1>2. BsTypeOK'
  BY <1>1 DEF BsInv, BsTypeOK
<1>3. BsLocals'
  <2>1. Fits(bscall'[p])
    BY <1>1 DEF Fits
  <2>2. \A q \in BsProcs \ {p} : Fits(bscall'[q])
    BY <1>1 DEF BsInv, BsLocals
  <2> QED BY <2>1, <2>2 DEF BsLocals, Fits
<1>4. InitSem'
  BY <1>1, InitSame DEF BsInv, InitPcs
<1>5. Started'
  BY <1>1 DEF BsInv, Started, AtPc
<1>6. \A t \in BsIds : StoreOK(t)'
  <2> TAKE t \in BsIds
  <2>1. StoreOK(t)
    BY DEF BsInv
  <2> QED BY <1>1, <2>1, StoreSame
<1>7. \A q \in BsProcs : CallOK(q)'
  <2>1. CallOK(p)'
    BY <1>1 DEF CallOK
  <2>2. ASSUME NEW q \in BsProcs \ {p} PROVE CallOK(q)'
    BY <1>1, CallSame
  <2> QED BY <2>1, <2>2
<1>8. Order'
  <2> SUFFICES ASSUME NEW q \in BsProcs, NEW r \in BsProcs, bscall'[q].op = "free", bscall'[r].op = "alloc",
                      bscall'[r].pc \in {"wait", "in"}, bscall'[r].at = bscall'[q].at
               PROVE  bscall'[q].pc = "wait" /\ Ahead(r, q)'
    BY DEF Order
  <2>1. CASE q = p
    BY <1>1, <2>1
  <2>2. CASE r = p
    <3>1. q # p /\ bscall[q].op = "free" /\ bscall[q].at = s
      BY <1>1, <2>2
    <3>2. s \in given[q]
      BY <3>1 DEF BsInv, CallOK
    <3>3. q \in Owners(s) /\ StoreOK(s)
      BY <3>2 DEF Owners, BsInv
    <3>4. bstab[s].isallocated
      BY <3>3 DEF StoreOK, LeftEntry
    <3> QED BY <1>1, <2>2, <3>4
  <2>3. CASE q # p /\ r # p
    BY <1>1, <2>3 DEF BsInv, Order
  <2> QED BY <2>1, <2>2, <2>3
<1> QED BY <1>1, <1>2, <1>3, <1>4, <1>5, <1>6, <1>7, <1>8 DEF BsInv

\* The number of users of a store, as they come and go.
LEMMA UserCount ==
    ASSUME NEW s
    PROVE  /\ IsFiniteSet(Users(s)) /\ Cardinality(Users(s)) \in Nat
           /\ Users(s) # {} => Cardinality(Users(s)) > 0
<1>1. Users(s) \in SUBSET BsProcs
  BY DEF Users
<1>2. IsFiniteSet(Users(s))
  BY <1>1, FS_Subset
<1> QED BY <1>2, FS_CardinalityType, FS_EmptySet

\* An entry is what its store is: taken by one call, or owned, or free.
LEMMA StoreCases ==
    ASSUME BsInv, NEW s \in BsIds
    PROVE  /\ Owners(s) # {} => bstab[s].isallocated
           /\ bstab[s].isallocated => Owners(s) # {} /\ In("mark", s) = {}
           /\ \A p \in In("unmark", s) : p \in Owners(s) /\ Users(s) = {}
           /\ bstab[s].usecount # 0 => bstab[s].isopen /\ bstab[s].isallocated
<1>1. StoreOK(s)
  BY DEF BsInv
<1>2. Owners(s) # {} => bstab[s].isallocated
  BY <1>1 DEF StoreOK, LeftEntry
<1>3. bstab[s].isallocated => Owners(s) # {} /\ In("mark", s) = {}
  BY <1>1 DEF StoreOK, NewEntry, ClosedEntry
<1>4. ASSUME NEW p \in In("unmark", s) PROVE p \in Owners(s) /\ Users(s) = {}
  <2>1. p \in BsProcs /\ bscall[p].pc = "unmark" /\ bscall[p].at = s /\ CallOK(p) /\ Fits(bscall[p])
    BY <1>4 DEF In, BsInv, BsLocals
  <2>2. p \in Owners(s) /\ bstab[s].usecount = 0
    BY <2>1 DEF Owners, CallOK, Fits
  <2>3. Cardinality(Users(s)) = 0
    BY <1>1, <2>2 DEF StoreOK
  <2>4. IsFiniteSet(Users(s))
    BY UserCount
  <2> QED BY <2>2, <2>3, <2>4, FS_EmptySet
<1>5. bstab[s].usecount # 0 => bstab[s].isopen /\ bstab[s].isallocated
  BY <1>1 DEF StoreOK, NewEntry, LeftEntry, ClosedEntry
<1> QED BY <1>2, <1>3, <1>4, <1>5

\* A step that changes no entry and no history: the call goes on or ends.
LEMMA LeaveInv ==
    ASSUME BsInv, NEW p \in BsProcs, NEW c \in Calls, bscall[p].pc = "in", LeaveBs(p, c), Fits(c),
           UNCHANGED <<active, bsinit, bstab, given, opened>>,
           \/ c.pc \in {"idle", "scan"}
           \/ c.pc = "blocks" /\ bscall[p].op = "page" /\ c.at = bscall[p].at
    PROVE  BsInv'
<1>1. c.pc \notin {"wait", "in"} \cup InitPcs /\ c.op \in {"none", "alloc", "page"} /\ c.pc \notin {"mark", "unmark"}
      /\ (c.op = "page" => bscall[p].op = "page" /\ c.at = bscall[p].at)
  BY DEF InitPcs, Fits
<1>2. /\ BsTypeOK' /\ BsLocals' /\ InitSem' /\ BsSem' /\ Started' /\ Order'
      /\ bscall'[p] = c
      /\ \A q \in BsProcs \ {p} :
            /\ bscall'[q].op = bscall[q].op /\ bscall'[q].at = bscall[q].at
            /\ bscall'[q].pc = bscall[q].pc \/ (bscall[q].pc = "wait" /\ bscall'[q].pc = "in")
  BY <1>1, LeaveCommon DEF BsInv, BsTypeOK
<1>3. ASSUME NEW t \in BsIds PROVE StoreOK(t)'
  <2>1. StoreOK(t)
    BY DEF BsInv
  <2> QED BY <1>1, <1>2, <2>1, StoreSame
<1>4. CallOK(p)'
  BY <1>1, <1>2 DEF CallOK, BsInv
<1>5. ASSUME NEW q \in BsProcs \ {p} PROVE CallOK(q)'
  BY <1>1, <1>2, CallSame
<1> QED BY <1>2, <1>3, <1>4, <1>5 DEF BsInv

\* The end of a call outside the semaphore, and the search for the next candidate.
LEMMA PlainInv ==
    ASSUME BsInv, NEW p \in BsProcs, NEW c \in Calls, bscall' = [bscall EXCEPT ![p] = c], Fits(c), active,
           bscall[p].pc \in {"idle", "scan", "blocks"}, c.pc \in {"idle", "scan"},
           UNCHANGED <<active, bsinit, bssem, bstab, given, opened>>
    PROVE  BsInv'
<1>1. c.op \in {"none", "alloc"} /\ bscall[p].pc \notin {"wait", "in"} \cup InitPcs
      /\ c.pc \notin {"wait", "in"} \cup InitPcs
  BY DEF Fits, InitPcs
<1>2. /\ BsTypeOK' /\ BsLocals' /\ InitSem' /\ BsSem' /\ Started' /\ Order'
      /\ bscall'[p] = c /\ \A q \in BsProcs \ {p} : bscall'[q] = bscall[q]
  BY <1>1, PlainCommon DEF BsInv, BsTypeOK
<1>3. ASSUME NEW t \in BsIds PROVE StoreOK(t)'
  <2>1. StoreOK(t)
    BY DEF BsInv
  <2> QED BY <1>1, <1>2, <2>1, StoreSame
<1>4. CallOK(p)'
  BY <1>1, <1>2 DEF CallOK
<1>5. ASSUME NEW q \in BsProcs \ {p} PROVE CallOK(q)'
  BY <1>1, <1>2, CallSame
<1> QED BY <1>2, <1>3, <1>4, <1>5 DEF BsInv

\* The entries that the calls leave behind.
LEMMA EntryTypes ==
    /\ ClosedEntry \in Entries /\ NewEntry \in Entries /\ LeftEntry \in Entries
    /\ ~ClosedEntry.isopen /\ ~ClosedEntry.isallocated /\ ClosedEntry.usecount = 0 /\ ClosedEntry.npages = 0
    /\ NewEntry.isopen /\ ~NewEntry.isallocated /\ NewEntry.usecount = 0 /\ NewEntry.npages = BsPages
    /\ ~LeftEntry.isopen /\ LeftEntry.isallocated /\ LeftEntry.usecount = 0 /\ LeftEntry.npages = 0
BY DEF ClosedEntry, NewEntry, LeftEntry, Entries

\* Entries with the same fields are the same.
LEMMA SameEntry ==
    ASSUME NEW d \in Entries, NEW e \in Entries, d.isopen <=> e.isopen, d.isallocated <=> e.isallocated,
           d.usecount = e.usecount, d.npages = e.npages
    PROVE  d = e
BY DEF Entries

\* isopen and npages of one entry are set.
LEMMA OpenUpdate ==
    ASSUME NEW s \in BsIds, bstab \in [BsIds -> Entries], NEW b \in BOOLEAN, NEW n \in Nat,
           bstab' = [bstab EXCEPT ![s].isopen = b, ![s].npages = n]
    PROVE  /\ bstab' \in [BsIds -> Entries] /\ \A t \in BsIds \ {s} : bstab'[t] = bstab[t]
           /\ bstab'[s].isopen = b /\ bstab'[s].isallocated = bstab[s].isallocated /\ bstab'[s].usecount = bstab[s].usecount /\ bstab'[s].npages = n
<1> PICK e \in Entries : e = bstab[s]
  OBVIOUS
<1> DEFINE x == [e EXCEPT !.isopen = b, !.npages = n]
<1>1. bstab' = [bstab EXCEPT ![s] = x]
  BY DEF Entries
<1>2. x.isopen = b /\ x.isallocated = e.isallocated /\ x.usecount = e.usecount /\ x.npages = n
  BY DEF Entries
<1>3. x \in Entries
  <2>1. [e EXCEPT !.isopen = b] \in Entries /\ n \in Int
    BY DEF Entries
  <2> QED BY <2>1 DEF Entries
<1> HIDE DEF x
<1>4. bstab'[s] = x /\ bstab' \in [BsIds -> Entries] /\ \A t \in BsIds \ {s} : bstab'[t] = bstab[t]
  BY <1>1, <1>3
<1> QED BY <1>2, <1>4

\* isallocated and usecount of one entry are set.
LEMMA AllocUpdate ==
    ASSUME NEW s \in BsIds, bstab \in [BsIds -> Entries], NEW b \in BOOLEAN, NEW n \in Nat,
           bstab' = [bstab EXCEPT ![s].isallocated = b, ![s].usecount = n]
    PROVE  /\ bstab' \in [BsIds -> Entries] /\ \A t \in BsIds \ {s} : bstab'[t] = bstab[t]
           /\ bstab'[s].isopen = bstab[s].isopen /\ bstab'[s].isallocated = b /\ bstab'[s].usecount = n /\ bstab'[s].npages = bstab[s].npages
<1> PICK e \in Entries : e = bstab[s]
  OBVIOUS
<1> DEFINE x == [e EXCEPT !.isallocated = b, !.usecount = n]
<1>1. bstab' = [bstab EXCEPT ![s] = x]
  BY DEF Entries
<1>2. x.isopen = e.isopen /\ x.isallocated = b /\ x.usecount = n /\ x.npages = e.npages
  BY DEF Entries
<1>3. x \in Entries
  <2>1. [e EXCEPT !.isallocated = b] \in Entries /\ n \in Int
    BY DEF Entries
  <2> QED BY <2>1 DEF Entries
<1> HIDE DEF x
<1>4. bstab'[s] = x /\ bstab' \in [BsIds -> Entries] /\ \A t \in BsIds \ {s} : bstab'[t] = bstab[t]
  BY <1>1, <1>3
<1> QED BY <1>2, <1>4

\* The entry of a store without users is closed, and is still marked.
LEMMA LeftUpdate ==
    ASSUME NEW s \in BsIds, bstab \in [BsIds -> Entries], bstab[s].isallocated, bstab[s].usecount = 0,
           bstab' = [bstab EXCEPT ![s].isopen = FALSE, ![s].npages = 0]
    PROVE  bstab' \in [BsIds -> Entries] /\ bstab'[s] = LeftEntry /\ \A t \in BsIds \ {s} : bstab'[t] = bstab[t]
<1>1. PICK b \in BOOLEAN : b = FALSE
  OBVIOUS
<1> PICK n \in Nat : n = 0
  OBVIOUS
<1>2. bstab' = [bstab EXCEPT ![s].isopen = b, ![s].npages = n]
  BY <1>1
<1>3. /\ bstab' \in [BsIds -> Entries] /\ \A t \in BsIds \ {s} : bstab'[t] = bstab[t]
      /\ bstab'[s].isopen = b /\ bstab'[s].isallocated = bstab[s].isallocated
      /\ bstab'[s].usecount = bstab[s].usecount /\ bstab'[s].npages = n
  <2>1. bstab \in [BsIds -> Entries]
    OBVIOUS
  <2> QED BY <1>2, <2>1, OpenUpdate
<1>4. bstab'[s] \in Entries /\ LeftEntry \in Entries
  BY <1>3, EntryTypes
<1>5. (bstab'[s].isopen <=> LeftEntry.isopen) /\ (bstab'[s].isallocated <=> LeftEntry.isallocated)
  BY <1>1, <1>3, EntryTypes, Zenon
<1>6. bstab'[s].usecount = LeftEntry.usecount /\ bstab'[s].npages = LeftEntry.npages
  BY <1>1, <1>3, EntryTypes, ZenonT(30)
<1>7. bstab'[s] = LeftEntry
  BY <1>4, <1>5, <1>6, SameEntry
<1> QED BY <1>3, <1>7

\* An entry that is closed already loses its mark: it is free.
LEMMA FreeUpdate ==
    ASSUME NEW s \in BsIds, bstab \in [BsIds -> Entries], bstab[s] = LeftEntry,
           bstab' = [bstab EXCEPT ![s].isallocated = FALSE, ![s].usecount = 0]
    PROVE  bstab' \in [BsIds -> Entries] /\ bstab'[s] = ClosedEntry /\ \A t \in BsIds \ {s} : bstab'[t] = bstab[t]
<1>1. PICK b \in BOOLEAN : b = FALSE
  OBVIOUS
<1> PICK n \in Nat : n = 0
  OBVIOUS
<1>2. bstab' = [bstab EXCEPT ![s].isallocated = b, ![s].usecount = n]
  BY <1>1
<1>3. /\ bstab' \in [BsIds -> Entries] /\ \A t \in BsIds \ {s} : bstab'[t] = bstab[t]
      /\ bstab'[s].isopen = bstab[s].isopen /\ bstab'[s].isallocated = b
      /\ bstab'[s].usecount = n /\ bstab'[s].npages = bstab[s].npages
  <2>1. bstab \in [BsIds -> Entries]
    OBVIOUS
  <2> QED BY <1>2, <2>1, AllocUpdate
<1>4. bstab'[s] \in Entries /\ ClosedEntry \in Entries
  BY <1>3, EntryTypes
<1>5. (bstab'[s].isopen <=> ClosedEntry.isopen) /\ (bstab'[s].isallocated <=> ClosedEntry.isallocated)
  BY <1>1, <1>3, EntryTypes, Zenon
<1>6. bstab'[s].usecount = ClosedEntry.usecount /\ bstab'[s].npages = ClosedEntry.npages
  BY <1>1, <1>3, EntryTypes, Zenon
<1>7. bstab'[s] = ClosedEntry
  BY <1>4, <1>5, <1>6, SameEntry
<1> QED BY <1>3, <1>7

\* The use count of one entry changes.
LEMMA CountUpdate ==
    ASSUME NEW s \in BsIds, bstab \in [BsIds -> Entries], NEW n \in Int,
           bstab' = [bstab EXCEPT ![s].usecount = n]
    PROVE  /\ bstab' \in [BsIds -> Entries] /\ \A t \in BsIds \ {s} : bstab'[t] = bstab[t]
           /\ bstab'[s].isopen = bstab[s].isopen /\ bstab'[s].isallocated = bstab[s].isallocated
           /\ bstab'[s].usecount = n /\ bstab'[s].npages = bstab[s].npages
<1> PICK e \in Entries : e = bstab[s]
  OBVIOUS
<1> DEFINE x == [e EXCEPT !.usecount = n]
<1>1. bstab' = [bstab EXCEPT ![s] = x]
  BY DEF Entries
<1>2. x \in Entries /\ x.isopen = e.isopen /\ x.isallocated = e.isallocated /\ x.usecount = n /\ x.npages = e.npages
  BY DEF Entries
<1> HIDE DEF x
<1>3. bstab'[s] = x /\ bstab' \in [BsIds -> Entries] /\ \A t \in BsIds \ {s} : bstab'[t] = bstab[t]
  BY <1>1, <1>2
<1> QED BY <1>2, <1>3

\* get_bs opens an entry: nobody owns it, and no deallocate_bs is between closing it and
\* clearing isallocated, because the queue let this call in first.
LEMMA OpenInv ==
    ASSUME BsInv, NEW p \in BsProcs, get_bs(p)
    PROVE  BsInv'
<1> PICK s \in BsIds : s = bscall[p].at
  BY DEF get_bs, BsInv, BsLocals, Fits
<1> DEFINE c == bscall[p]
           scan == [c EXCEPT !.pc = "scan", !.at = s + 1]
           mark == [c EXCEPT !.pc = "mark"]
<1>1. /\ c \in Calls /\ c.pc = "in" /\ c.op = "alloc" /\ s + 1 \in Nat
      /\ UNCHANGED <<active, bsinit, given, opened>>
  BY DEF get_bs, BsInv, BsTypeOK, BsLocals, Fits, Calls, BsIds
<1>2. /\ scan \in Calls /\ scan.pc = "scan" /\ scan.op = "alloc"
      /\ mark \in Calls /\ mark.pc = "mark" /\ mark.op = "alloc" /\ mark.at = s
  <2>1. /\ scan \in Calls /\ scan.pc = "scan" /\ scan.op = "alloc"
    BY <1>1 DEF Calls
  <2>2. mark \in Calls /\ mark.pc = "mark" /\ mark.op = "alloc" /\ mark.at = s
    BY <1>1 DEF Calls
  <2> QED BY <2>1, <2>2
<1>3. Fits(scan) /\ Fits(mark)
  BY <1>1, <1>2 DEF Fits
<1>4. CASE Taken(s)
  <2>1. LeaveBs(p, scan) /\ UNCHANGED bstab
    BY <1>4 DEF get_bs
  <2> HIDE DEF scan
  <2> QED BY <1>1, <1>2, <1>3, <2>1, LeaveInv
<1>5. CASE ~Taken(s)
  <2>1. LeaveBs(p, mark) /\ bstab' = [bstab EXCEPT ![s].isopen = TRUE, ![s].npages = BsPages]
    BY <1>5 DEF get_bs
  <2>2. StoreOK(s) /\ ~bstab[s].isopen
    BY <1>1, <1>5 DEF BsInv, Taken
  <2>3. In("unmark", s) = {}
    <3> SUFFICES ASSUME NEW q \in In("unmark", s) PROVE FALSE
      OBVIOUS
    <3>1. bscall[q].pc = "unmark" /\ bscall[q].at = s /\ bscall[q].op = "free" /\ q \in BsProcs
      BY DEF In, BsInv, BsLocals, Fits
    <3> QED BY <1>1, <3>1 DEF BsInv, Order
  <2>4. Owners(s) = {} /\ In("mark", s) = {} /\ bstab[s] = ClosedEntry
    BY <2>2, <2>3 DEF StoreOK, NewEntry
  <2>5. bstab' \in [BsIds -> Entries] /\ bstab'[s] = NewEntry /\ \A t \in BsIds \ {s} : bstab'[t] = bstab[t]
    <3>1. bstab \in [BsIds -> Entries] /\ TRUE \in BOOLEAN /\ BsPages \in Nat
      BY DEF BsInv, BsTypeOK
    <3>2. /\ bstab' \in [BsIds -> Entries] /\ \A t \in BsIds \ {s} : bstab'[t] = bstab[t]
          /\ bstab'[s].isopen /\ bstab'[s].isallocated = bstab[s].isallocated
          /\ bstab'[s].usecount = bstab[s].usecount /\ bstab'[s].npages = BsPages
      <4>1. PICK b \in BOOLEAN : b = TRUE
        OBVIOUS
      <4>2. bstab' = [bstab EXCEPT ![s].isopen = b, ![s].npages = BsPages]
        BY <2>1, <4>1
      <4> QED BY <3>1, <4>1, <4>2, OpenUpdate, ZenonT(30)
    <3>3. bstab'[s] = NewEntry
      BY <2>4, <3>2, EntryTypes, SameEntry
    <3> QED BY <3>2, <3>3
  <2> HIDE DEF mark
  <2>6. /\ BsTypeOK' /\ BsLocals' /\ InitSem' /\ BsSem' /\ Started' /\ Order'
        /\ bscall'[p] = mark
        /\ \A q \in BsProcs \ {p} :
              /\ bscall'[q].op = bscall[q].op /\ bscall'[q].at = bscall[q].at
              /\ bscall'[q].pc = bscall[q].pc \/ (bscall[q].pc = "wait" /\ bscall'[q].pc = "in")
    BY <1>1, <1>2, <1>3, <2>1, <2>5, LeaveCommon DEF BsInv, BsTypeOK, InitPcs
  <2>7. ASSUME NEW t \in BsIds PROVE StoreOK(t)'
    <3>1. CASE t # s
      <4>1. StoreOK(t)
        BY DEF BsInv
      <4> QED BY <1>1, <1>2, <2>5, <2>6, <3>1, <4>1, StoreSame
    <3>2. CASE t = s
      <4>1. In("mark", s)' = {p}
        BY <1>1, <1>2, <2>4, <2>6 DEF In
      <4>2. In("unmark", s)' = {}
        BY <1>1, <1>2, <2>3, <2>6 DEF In
      <4>3. Owners(s)' = {} /\ Users(s)' = Users(s)
        BY <1>1, <2>4 DEF Owners, Users
      <4>4. bstab'[s].usecount = Cardinality(Users(s))
        BY <2>2, <2>4, <2>5 DEF StoreOK, ClosedEntry, NewEntry
      <4> QED BY <2>5, <3>2, <4>1, <4>2, <4>3, <4>4 DEF StoreOK
    <3> QED BY <3>1, <3>2
  <2>8. CallOK(p)'
    BY <1>2, <2>6 DEF CallOK
  <2>9. ASSUME NEW q \in BsProcs \ {p} PROVE CallOK(q)'
    <3>1. bscall[q].op = "free" => bscall[q].at \in BsIds \ {s}
      BY <2>4 DEF BsInv, CallOK, Owners, BsTypeOK
    <3> QED BY <1>1, <1>2, <2>5, <2>6, <3>1, CallSame
  <2> QED BY <2>6, <2>7, <2>8, <2>9 DEF BsInv
<1> QED BY <1>4, <1>5

\* allocate_bs marks its entry and gives the store to the caller.
LEMMA MarkInv ==
    ASSUME BsInv, NEW p \in BsProcs, MarkAllocated(p)
    PROVE  BsInv'
<1> PICK s \in BsIds : s = bscall[p].at
  BY DEF MarkAllocated, BsInv, BsLocals, Fits
<1>1. /\ bscall[p].pc = "mark" /\ bscall' = [bscall EXCEPT ![p] = NoCall]
      /\ bstab' = [bstab EXCEPT ![s].isallocated = TRUE, ![s].usecount = 0]
      /\ given' = [given EXCEPT ![p] = @ \cup {s}] /\ UNCHANGED <<active, bsinit, bssem, bscalls, opened>>
  BY DEF MarkAllocated
<1>2. bstab \in [BsIds -> Entries] /\ given \in [BsProcs -> SUBSET BsIds] /\ active
  BY <1>1 DEF BsInv, BsTypeOK, Started
<1>3. p \in In("mark", s) /\ StoreOK(s)
  BY <1>1 DEF In, BsInv
<1>4. /\ Owners(s) = {} /\ bstab[s] = NewEntry /\ In("unmark", s) = {} /\ In("mark", s) = {p}
  <2>1. Owners(s) = {} /\ bstab[s] = NewEntry /\ In("mark", s) = {p}
    BY <1>3 DEF StoreOK
  <2> QED BY <2>1, StoreCases
<1>5. /\ bstab' \in [BsIds -> Entries] /\ \A t \in BsIds \ {s} : bstab'[t] = bstab[t]
      /\ bstab'[s].isopen /\ bstab'[s].isallocated /\ bstab'[s].usecount = 0 /\ bstab'[s].npages = BsPages
  <2>1. TRUE \in BOOLEAN /\ 0 \in Nat
    OBVIOUS
  <2>2. /\ bstab' \in [BsIds -> Entries] /\ \A t \in BsIds \ {s} : bstab'[t] = bstab[t]
        /\ bstab'[s].isopen = bstab[s].isopen /\ bstab'[s].isallocated
        /\ bstab'[s].usecount = 0 /\ bstab'[s].npages = bstab[s].npages
    <3>1. PICK b \in BOOLEAN : b = TRUE
      OBVIOUS
    <3>2. bstab' = [bstab EXCEPT ![s].isallocated = b, ![s].usecount = 0]
      BY <1>1, <3>1
    <3> QED BY <1>2, <2>1, <3>1, <3>2, AllocUpdate, ZenonT(30)
  <2> QED BY <1>4, <2>2 DEF NewEntry
<1>6. /\ given' \in [BsProcs -> SUBSET BsIds] /\ given'[p] = given[p] \cup {s}
      /\ \A q \in BsProcs \ {p} : given'[q] = given[q]
  BY <1>1, <1>2
<1>7. NoCall \in Calls /\ Fits(NoCall) /\ NoCall.pc = "idle" /\ NoCall.op = "none"
  BY DEF NoCall, Calls, Fits
<1>8. /\ BsTypeOK' /\ BsLocals' /\ InitSem' /\ BsSem' /\ Started' /\ Order'
      /\ bscall'[p] = NoCall /\ \A q \in BsProcs \ {p} : bscall'[q] = bscall[q]
  BY <1>1, <1>2, <1>5, <1>6, <1>7, PlainCommon DEF InitPcs
<1>9. ASSUME NEW t \in BsIds PROVE StoreOK(t)'
  <2>1. CASE t # s
    <3>1. StoreOK(t)
      BY DEF BsInv
    <3>2. /\ bstab'[t] = bstab[t] /\ \A q \in BsProcs : t \in given'[q] <=> t \in given[q]
          /\ \A q \in BsProcs : t \in opened'[q] <=> t \in opened[q]
      BY <1>1, <1>5, <1>6, <2>1
    <3>3. \A q \in BsProcs :
             \/ bscall'[q].pc = bscall[q].pc /\ bscall'[q].at = bscall[q].at
             \/ /\ ~(bscall'[q].pc \in {"mark", "unmark"} /\ bscall'[q].at = t)
                /\ ~(bscall[q].pc \in {"mark", "unmark"} /\ bscall[q].at = t)
      BY <1>7, <1>8, <2>1
    <3> QED BY <3>1, <3>2, <3>3, StoreSame
  <2>2. CASE t = s
    <3>1. Owners(s)' = {p}
      BY <1>4, <1>6 DEF Owners
    <3>2. In("mark", s)' = {} /\ In("unmark", s)' = {}
      BY <1>4, <1>7, <1>8 DEF In
    <3>3. Users(s)' = Users(s) /\ bstab'[s].usecount = Cardinality(Users(s))
      BY <1>1, <1>3, <1>4, <1>5 DEF Users, StoreOK, NewEntry
    <3> QED BY <1>5, <2>2, <3>1, <3>2, <3>3 DEF StoreOK
  <2> QED BY <2>1, <2>2
<1>10. CallOK(p)'
  BY <1>7, <1>8 DEF CallOK
<1>11. ASSUME NEW q \in BsProcs \ {p} PROVE CallOK(q)'
  <2>1. bscall[q].op = "free" => bscall[q].at \in BsIds \ {s}
    BY <1>4 DEF BsInv, CallOK, Owners, BsTypeOK
  <2>2. \A r \in BsProcs \ {p} : bscall'[r].op = bscall[r].op /\ bscall'[r].at = bscall[r].at
    BY <1>8
  <2>3. given'[q] = given[q] /\ opened'[q] = opened[q] /\ bscall'[p].op # "open"
    BY <1>1, <1>6, <1>7, <1>8
  <2>4. bscall[q].op = "free" => bstab'[bscall[q].at].usecount = bstab[bscall[q].at].usecount
    BY <1>5, <2>1
  <2> QED BY <2>2, <2>3, <2>4, CallSame
<1> QED BY <1>8, <1>9, <1>10, <1>11 DEF BsInv

\* deallocate_bs closes the entry under the semaphore: its store has no user, and no
\* allocate_bs waits to look at it.
LEMMA ReleaseInv ==
    ASSUME BsInv, NEW p \in BsProcs, release_bs(p)
    PROVE  BsInv'
<1> PICK s \in BsIds : s = bscall[p].at
  BY DEF release_bs, BsInv, BsLocals, Fits
<1> DEFINE c == [bscall[p] EXCEPT !.pc = "unmark"]
<1>1. /\ bscall[p].pc = "in" /\ bscall[p].op = "free" /\ LeaveBs(p, c)
      /\ bstab' = IF bstab[s].isopen THEN [bstab EXCEPT ![s].isopen = FALSE, ![s].npages = 0] ELSE bstab
      /\ UNCHANGED <<active, bsinit, bscalls, given, opened>>
  BY DEF release_bs
<1>2. bstab \in [BsIds -> Entries] /\ bscall[p] \in Calls /\ StoreOK(s) /\ CallOK(p)
  BY DEF BsInv, BsTypeOK
<1>3. c \in Calls /\ c.pc = "unmark" /\ c.op = "free" /\ c.at = s
  BY <1>1, <1>2 DEF Calls
<1>4. Fits(c)
  BY <1>3 DEF Fits
<1> HIDE DEF c
<1>5. p \in Owners(s) /\ bstab[s].usecount = 0
  BY <1>1, <1>2 DEF CallOK, Owners
<1>6. In("unmark", s) = {} /\ In("mark", s) = {}
  <2>1. \A q \in In("unmark", s) : q = p
    BY <1>2, <1>5, StoreCases DEF StoreOK
  <2>2. p \notin In("unmark", s)
    BY <1>1 DEF In
  <2> QED BY <1>2, <1>5, <2>1, <2>2 DEF StoreOK
<1>7. bstab[s].isopen /\ bstab[s].isallocated
  BY <1>2, <1>5, <1>6 DEF StoreOK
<1>8. bstab' \in [BsIds -> Entries] /\ bstab'[s] = LeftEntry /\ \A t \in BsIds \ {s} : bstab'[t] = bstab[t]
  <2>1. bstab' = [bstab EXCEPT ![s].isopen = FALSE, ![s].npages = 0]
    BY <1>1, <1>7
  <2> QED BY <1>2, <1>5, <1>7, <2>1, LeftUpdate
<1>9. /\ BsTypeOK' /\ BsLocals' /\ InitSem' /\ BsSem' /\ Started' /\ Order'
      /\ bscall'[p] = c
      /\ \A q \in BsProcs \ {p} :
            /\ bscall'[q].op = bscall[q].op /\ bscall'[q].at = bscall[q].at
            /\ bscall'[q].pc = bscall[q].pc \/ (bscall[q].pc = "wait" /\ bscall'[q].pc = "in")
  <2>1. /\ c.pc \notin {"wait", "in"} \cup InitPcs /\ c.at = bscall[p].at
        /\ opened' \in [BsProcs -> SUBSET BsIds]
    BY <1>1, <1>3 DEF BsInv, BsTypeOK, InitPcs
  <2> QED BY <1>1, <1>3, <1>4, <1>8, <2>1, LeaveCommon
<1>10. ASSUME NEW t \in BsIds PROVE StoreOK(t)'
  <2>1. CASE t # s
    <3>1. StoreOK(t)
      BY DEF BsInv
    <3> QED BY <1>1, <1>3, <1>8, <1>9, <2>1, <3>1, StoreSame
  <2>2. CASE t = s
    <3>1. In("mark", s)' = {}
      BY <1>3, <1>6, <1>9 DEF In
    <3>2. In("unmark", s)' = {p}
      BY <1>3, <1>6, <1>9 DEF In
    <3>3. Owners(s)' = Owners(s) /\ Users(s)' = Users(s)
      BY <1>1 DEF Owners, Users
    <3>4. bstab'[s].usecount = Cardinality(Users(s))
      BY <1>2, <1>5, <1>8 DEF StoreOK, LeftEntry
    <3>5. \A q, r \in Owners(s) : q = r
      BY <1>2 DEF StoreOK
    <3> QED BY <1>5, <1>8, <2>2, <3>1, <3>2, <3>3, <3>4, <3>5 DEF StoreOK
  <2> QED BY <2>1, <2>2
<1>11. CallOK(p)'
  <2>1. ASSUME NEW q \in BsProcs PROVE ~(bscall'[q].op = "open" /\ bscall'[q].at = s)
    BY <1>1, <1>2, <1>3, <1>9 DEF CallOK
  <2>2. bscall'[p].op = "free" /\ bscall'[p].at = s
    BY <1>3, <1>9
  <2>3. s \in given'[p] /\ bstab'[s].usecount = 0
    BY <1>1, <1>5, <1>8 DEF Owners, LeftEntry
  <2> QED BY <2>1, <2>2, <2>3 DEF CallOK
<1>12. ASSUME NEW q \in BsProcs \ {p} PROVE CallOK(q)'
  <2>1. bscall[q].op = "free" => bscall[q].at \in BsIds \ {s}
    BY <1>2, <1>5 DEF BsInv, CallOK, Owners, BsTypeOK, StoreOK
  <2> QED BY <1>1, <1>3, <1>8, <1>9, <2>1, CallSame
<1> QED BY <1>9, <1>10, <1>11, <1>12 DEF BsInv

\* deallocate_bs clears the mark: the store is free.
LEMMA UnmarkInv ==
    ASSUME BsInv, NEW p \in BsProcs, Unmark(p)
    PROVE  BsInv'
<1> PICK s \in BsIds : s = bscall[p].at
  BY DEF Unmark, BsInv, BsLocals, Fits
<1>1. /\ bscall[p].pc = "unmark" /\ bscall' = [bscall EXCEPT ![p] = NoCall]
      /\ bstab' = [bstab EXCEPT ![s].isallocated = FALSE, ![s].usecount = 0]
      /\ given' = [given EXCEPT ![p] = @ \ {s}] /\ UNCHANGED <<active, bsinit, bssem, bscalls, opened>>
  BY DEF Unmark
<1>2. bstab \in [BsIds -> Entries] /\ given \in [BsProcs -> SUBSET BsIds] /\ active
  BY <1>1 DEF BsInv, BsTypeOK, Started
<1>3. p \in In("unmark", s) /\ StoreOK(s)
  BY <1>1 DEF In, BsInv
<1>4. p \in Owners(s) /\ bstab[s] = LeftEntry
  BY <1>3, StoreCases DEF StoreOK
<1>5. Owners(s) = {p} /\ In("mark", s) = {} /\ In("unmark", s) = {p}
  BY <1>3, <1>4, StoreCases DEF StoreOK
<1>6. bstab' \in [BsIds -> Entries] /\ bstab'[s] = ClosedEntry /\ \A t \in BsIds \ {s} : bstab'[t] = bstab[t]
  BY <1>1, <1>2, <1>4, FreeUpdate
<1>7. /\ given' \in [BsProcs -> SUBSET BsIds] /\ given'[p] = given[p] \ {s}
      /\ \A q \in BsProcs \ {p} : given'[q] = given[q]
  BY <1>1, <1>2
<1>8. NoCall \in Calls /\ Fits(NoCall) /\ NoCall.pc = "idle" /\ NoCall.op = "none"
  BY DEF NoCall, Calls, Fits
<1>9. /\ BsTypeOK' /\ BsLocals' /\ InitSem' /\ BsSem' /\ Started' /\ Order'
      /\ bscall'[p] = NoCall /\ \A q \in BsProcs \ {p} : bscall'[q] = bscall[q]
  BY <1>1, <1>2, <1>6, <1>7, <1>8, PlainCommon DEF InitPcs
<1>10. ASSUME NEW t \in BsIds PROVE StoreOK(t)'
  <2>1. CASE t # s
    <3>1. StoreOK(t)
      BY DEF BsInv
    <3>2. /\ bstab'[t] = bstab[t] /\ \A q \in BsProcs : t \in given'[q] <=> t \in given[q]
          /\ \A q \in BsProcs : t \in opened'[q] <=> t \in opened[q]
      BY <1>1, <1>6, <1>7, <2>1
    <3>3. \A q \in BsProcs :
             \/ bscall'[q].pc = bscall[q].pc /\ bscall'[q].at = bscall[q].at
             \/ /\ ~(bscall'[q].pc \in {"mark", "unmark"} /\ bscall'[q].at = t)
                /\ ~(bscall[q].pc \in {"mark", "unmark"} /\ bscall[q].at = t)
      BY <1>8, <1>9, <2>1
    <3> QED BY <3>1, <3>2, <3>3, StoreSame
  <2>2. CASE t = s
    <3>1. Owners(s)' = {}
      BY <1>5, <1>7 DEF Owners
    <3>2. In("mark", s)' = {} /\ In("unmark", s)' = {}
      BY <1>5, <1>8, <1>9 DEF In
    <3>3. Users(s)' = Users(s) /\ bstab'[s].usecount = Cardinality(Users(s))
      BY <1>1, <1>3, <1>4, <1>6, EntryTypes DEF Users, StoreOK
    <3> QED BY <1>6, <2>2, <3>1, <3>2, <3>3 DEF StoreOK
  <2> QED BY <2>1, <2>2
<1>11. CallOK(p)'
  BY <1>8, <1>9 DEF CallOK
<1>12. ASSUME NEW q \in BsProcs \ {p} PROVE CallOK(q)'
  <2>1. bscall[q].op = "free" => bscall[q].at \in BsIds \ {s}
    BY <1>5 DEF BsInv, CallOK, Owners, BsTypeOK
  <2>2. \A r \in BsProcs \ {p} : bscall'[r].op = bscall[r].op /\ bscall'[r].at = bscall[r].at
    BY <1>9
  <2>3. given'[q] = given[q] /\ opened'[q] = opened[q] /\ bscall'[p].op # "open"
    BY <1>1, <1>7, <1>8, <1>9
  <2>4. bscall[q].op = "free" => bstab'[bscall[q].at].usecount = bstab[bscall[q].at].usecount
    BY <1>6, <2>1
  <2> QED BY <2>2, <2>3, <2>4, CallSame
<1> QED BY <1>9, <1>10, <1>11, <1>12 DEF BsInv

\* A change of the use count of a store under the semaphore that follows the set of its
\* users; no deallocate_bs of the store is under way.
CountStep(p, s) ==
    /\ bscall[p].pc = "in" /\ LeaveBs(p, NoCall) /\ UNCHANGED <<active, bsinit, given>>
    /\ bstab[s].isallocated
    /\ \A q \in BsProcs : ~(bscall[q].op = "free" /\ bscall[q].at = s)
    /\ bstab' \in [BsIds -> Entries] /\ \A t \in BsIds \ {s} : bstab'[t] = bstab[t]
    /\ bstab'[s].isopen = bstab[s].isopen /\ bstab'[s].isallocated = bstab[s].isallocated
    /\ bstab'[s].usecount = Cardinality(Users(s)') /\ bstab'[s].npages = bstab[s].npages
    /\ opened' \in [BsProcs -> SUBSET BsIds] /\ \A q \in BsProcs \ {p} : opened'[q] = opened[q]
    /\ \A t \in BsIds \ {s} : t \in opened'[p] <=> t \in opened[p]

\* Such a step keeps the invariant.
LEMMA CountInv ==
    ASSUME BsInv, NEW p \in BsProcs, NEW s \in BsIds, CountStep(p, s)
    PROVE  BsInv'
<1> USE DEF CountStep
<1>1. NoCall \in Calls /\ Fits(NoCall) /\ NoCall.pc = "idle" /\ NoCall.op = "none"
  BY DEF NoCall, Calls, Fits
<1>2. /\ bstab' \in [BsIds -> Entries] /\ \A t \in BsIds \ {s} : bstab'[t] = bstab[t]
      /\ bstab'[s].isopen = bstab[s].isopen /\ bstab'[s].isallocated = bstab[s].isallocated
      /\ bstab'[s].usecount = Cardinality(Users(s)') /\ bstab'[s].npages = bstab[s].npages
  OBVIOUS
<1>3. /\ BsTypeOK' /\ BsLocals' /\ InitSem' /\ BsSem' /\ Started' /\ Order'
      /\ bscall'[p] = NoCall
      /\ \A q \in BsProcs \ {p} :
            /\ bscall'[q].op = bscall[q].op /\ bscall'[q].at = bscall[q].at
            /\ bscall'[q].pc = bscall[q].pc \/ (bscall[q].pc = "wait" /\ bscall'[q].pc = "in")
  BY <1>1, <1>2, LeaveCommon DEF InitPcs
<1>4. StoreOK(s) /\ Owners(s) # {} /\ In("mark", s) = {} /\ In("unmark", s) = {}
  <2>1. \A q \in In("unmark", s) : bscall[q].op = "free" /\ bscall[q].at = s /\ q \in BsProcs
    BY DEF In, BsInv, BsLocals, Fits
  <2> QED BY <2>1, StoreCases DEF BsInv
<1>5. ASSUME NEW t \in BsIds PROVE StoreOK(t)'
  <2>1. CASE t # s
    <3>1. StoreOK(t)
      BY DEF BsInv
    <3>2. \A q \in BsProcs : t \in opened'[q] <=> t \in opened[q]
      BY <2>1
    <3> QED BY <1>1, <1>2, <1>3, <2>1, <3>1, <3>2, StoreSame
  <2>2. CASE t = s
    <3>1. In("mark", s)' = {} /\ In("unmark", s)' = {}
      BY <1>1, <1>3, <1>4 DEF In
    <3>2. Owners(s)' = Owners(s)
      BY DEF Owners
    <3> QED BY <1>2, <1>4, <2>2, <3>1, <3>2 DEF StoreOK
  <2> QED BY <2>1, <2>2
<1>6. CallOK(p)'
  BY <1>1, <1>3 DEF CallOK
<1>7. ASSUME NEW q \in BsProcs \ {p} PROVE CallOK(q)'
  <2>1. bscall[q].op = "free" => bscall[q].at \in BsIds \ {s}
    BY DEF BsInv, CallOK, BsTypeOK
  <2> QED BY <1>1, <1>2, <1>3, <2>1, CallSame
<1> QED BY <1>3, <1>5, <1>6, <1>7 DEF BsInv

\* open_bs counts its caller, close_bs no longer does.
LEMMA CountersInv ==
    ASSUME BsInv, NEW p \in BsProcs, OpenCount(p) \/ CloseCount(p)
    PROVE  BsInv'
<1> PICK s \in BsIds : s = bscall[p].at
  BY DEF OpenCount, CloseCount, BsInv, BsLocals, Fits
<1>1. /\ bscall[p].pc = "in" /\ LeaveBs(p, NoCall) /\ UNCHANGED <<active, bsinit, given>>
  BY DEF OpenCount, CloseCount
<1>2. /\ bstab \in [BsIds -> Entries] /\ opened \in [BsProcs -> SUBSET BsIds] /\ StoreOK(s) /\ CallOK(p) /\ bstab[s].usecount = Cardinality(Users(s))
      /\ IsFiniteSet(Users(s)) /\ Cardinality(Users(s)) \in Nat
  BY UserCount DEF BsInv, BsTypeOK, StoreOK
<1>3. CASE OpenCount(p)
  <2>1. bscall[p].op = "open"
    BY <1>3 DEF OpenCount
  <2>2. CASE bstab[s].isallocated
    <3>1. bstab' = [bstab EXCEPT ![s].usecount = @ + 1] /\ opened' = [opened EXCEPT ![p] = @ \cup {s}]
      BY <1>3, <2>2 DEF OpenCount
    <3>2. /\ opened' \in [BsProcs -> SUBSET BsIds] /\ opened'[p] = opened[p] \cup {s}
          /\ \A q \in BsProcs \ {p} : opened'[q] = opened[q]
      BY <1>2, <3>1
    <3>3. Users(s)' = Users(s) \cup {p} /\ p \notin Users(s)
      BY <1>2, <2>1, <3>2 DEF Users, CallOK
    <3> PICK U : U = Users(s)
      OBVIOUS
    <3>4. Cardinality(U \cup {p}) = Cardinality(U) + 1
      BY <1>2, <3>3, FS_AddElement
    <3>6. bstab[s].usecount + 1 \in Int
      BY <1>2
    <3> PICK n \in Int : n = bstab[s].usecount + 1
      BY <3>6
    <3>7. bstab' = [bstab EXCEPT ![s].usecount = n]
      BY <3>1
    <3>8. n = Cardinality(Users(s)')
      BY <1>2, <3>3, <3>4
    <3>9. \A t \in BsIds \ {s} : t \in opened'[p] <=> t \in opened[p]
      BY <3>2
    <3>10. /\ bstab' \in [BsIds -> Entries] /\ \A t \in BsIds \ {s} : bstab'[t] = bstab[t]
           /\ bstab'[s].isopen = bstab[s].isopen /\ bstab'[s].isallocated = bstab[s].isallocated
           /\ bstab'[s].usecount = n /\ bstab'[s].npages = bstab[s].npages
      BY <1>2, <3>7, CountUpdate
    <3>5. \A q \in BsProcs : ~(bscall[q].op = "free" /\ bscall[q].at = s)
      BY <2>1 DEF BsInv, CallOK
    <3>11. CountStep(p, s)
      BY <1>1, <2>2, <3>2, <3>5, <3>8, <3>9, <3>10 DEF CountStep
    <3> QED BY <3>11, CountInv
  <2>3. CASE ~bstab[s].isallocated
    <3>1. UNCHANGED <<bstab, opened>>
      BY <1>3, <2>3 DEF OpenCount
    <3>2. NoCall \in Calls /\ Fits(NoCall) /\ NoCall.pc = "idle"
      BY DEF NoCall, Calls, Fits
    <3> QED BY <1>1, <3>1, <3>2, LeaveInv
  <2> QED BY <2>2, <2>3
<1>4. CASE CloseCount(p)
  <2>1. /\ bscall[p].op = "close" /\ opened' = [opened EXCEPT ![p] = @ \ {s}] /\ s \in opened[p]
    BY <1>2, <1>4 DEF CloseCount, CallOK
  <2>2. p \in Users(s) /\ bstab[s].usecount # 0
    <3>1. p \in Users(s)
      BY <2>1 DEF Users
    <3> QED BY <1>2, <3>1, UserCount
  <2>3. bstab[s].isallocated
    BY <2>2, StoreCases
  <2>4. bstab' = [bstab EXCEPT ![s].usecount = @ - 1]
    BY <1>4, <2>3 DEF CloseCount
  <2>5. /\ opened' \in [BsProcs -> SUBSET BsIds] /\ opened'[p] = opened[p] \ {s}
        /\ \A q \in BsProcs \ {p} : opened'[q] = opened[q]
    BY <1>2, <2>1
  <2>6. Users(s)' = Users(s) \ {p}
    BY <2>5 DEF Users
  <2> PICK U : U = Users(s)
    OBVIOUS
  <2>7. Cardinality(U \ {p}) = Cardinality(U) - 1
    BY <1>2, <2>2, FS_RemoveElement
  <2>9. bstab[s].usecount - 1 \in Int
    BY <1>2
  <2> PICK n \in Int : n = bstab[s].usecount - 1
    BY <2>9
  <2>10. bstab' = [bstab EXCEPT ![s].usecount = n]
    BY <2>4
  <2>11. n = Cardinality(Users(s)')
    BY <1>2, <2>6, <2>7
  <2>12. \A t \in BsIds \ {s} : t \in opened'[p] <=> t \in opened[p]
    BY <2>5
  <2>13. /\ bstab' \in [BsIds -> Entries] /\ \A t \in BsIds \ {s} : bstab'[t] = bstab[t]
         /\ bstab'[s].isopen = bstab[s].isopen /\ bstab'[s].isallocated = bstab[s].isallocated
         /\ bstab'[s].usecount = n /\ bstab'[s].npages = bstab[s].npages
    BY <1>2, <2>10, CountUpdate
  <2>8. \A q \in BsProcs : ~(bscall[q].op = "free" /\ bscall[q].at = s)
    BY <2>2 DEF BsInv, CallOK
  <2>14. CountStep(p, s)
    BY <1>1, <2>3, <2>5, <2>8, <2>11, <2>12, <2>13 DEF CountStep
  <2> QED BY <2>14, CountInv
<1> QED BY <1>3, <1>4

\* A step of psinit that leaves the table alone.
LEMMA InitStep ==
    ASSUME BsInv, NEW p \in BsProcs, NEW c \in Calls, bscall' = [bscall EXCEPT ![p] = c], Fits(c),
           bscall[p].pc \notin {"wait", "in", "mark", "unmark"}, c.pc \notin {"wait", "in", "mark", "unmark"},
           c.op \in {"none", "init", "alloc"}, InitSem', active => c.pc # "opening", c.pc = "scan" => active,
           UNCHANGED <<active, bssem, bstab, given, opened>>
    PROVE  BsInv'
<1>1. bscall' \in [BsProcs -> Calls] /\ bscall'[p] = c /\ \A q \in BsProcs \ {p} : bscall'[q] = bscall[q]
  BY DEF BsInv, BsTypeOK
<1>2. BsTypeOK'
  BY <1>1 DEF BsInv, BsTypeOK
<1>3. BsLocals'
  BY <1>1 DEF BsInv, BsLocals, Fits
<1>4. BsSem' /\ \A q, r \in BsProcs : Ahead(q, r) => Ahead(q, r)'
  BY <1>1, BsSame DEF BsInv
<1>5. c.pc \in {"idle", "initwait", "init", "opening", "scan"}
  BY DEF Calls, Fits
<1>6. Started'
  BY <1>1, <1>5 DEF BsInv, Started, AtPc
<1>7. Order'
  BY <1>1, <1>4 DEF BsInv, Order
<1>8. ASSUME NEW t \in BsIds PROVE StoreOK(t)'
  <2>1. StoreOK(t)
    BY DEF BsInv
  <2> QED BY <1>1, <2>1, StoreSame
<1>9. CallOK(p)'
  BY <1>1 DEF CallOK
<1>10. ASSUME NEW q \in BsProcs \ {p} PROVE CallOK(q)'
  BY <1>1, CallSame
<1> QED BY <1>2, <1>3, <1>4, <1>6, <1>7, <1>8, <1>9, <1>10 DEF BsInv

\* What psinit returns to.
LEMMA AfterType ==
    ASSUME NEW op \in {"init", "alloc"}
    PROVE  /\ AfterPsinit(op) \in Calls /\ Fits(AfterPsinit(op)) /\ AfterPsinit(op).pc \in {"idle", "scan"}
           /\ AfterPsinit(op).op \in {"none", "alloc"}
BY DEF AfterPsinit, NoCall, Calls, Fits

\* psinit waits for bs_init_sem and then looks at the state of the page server.
LEMMA PsinitInv ==
    ASSUME BsInv, NEW p \in BsProcs, (\E op \in {"init", "alloc"} : psinit(p, op)) \/ psinitCheck(p)
    PROVE  BsInv'
<1>1. bscall \in [BsProcs -> Calls] /\ Fits(bscall[p]) /\ bscall[p] \in Calls
  BY DEF BsInv, BsTypeOK, BsLocals
<1> DEFINE W == AtPc({"initwait"})
           H == AtPc({"init", "opening"})
<1>2. SemOK(bsinit, W, H) /\ bsinit.n \in Int
  BY DEF BsInv, InitSem, SemOK
<1>3. ASSUME NEW op \in {"init", "alloc"}, psinit(p, op) PROVE BsInv'
  <2> DEFINE c == [pc |-> IF bsinit.n > 0 THEN "init" ELSE "initwait", op |-> op, at |-> 0]
  <2>1. /\ bscall[p].pc = "idle" /\ bsinit' = BsWait(bsinit, p) /\ bscall' = [bscall EXCEPT ![p] = c]
        /\ UNCHANGED <<active, bssem, bstab, given, opened>>
    BY <1>3 DEF psinit, BsCalled
  <2>2. c \in Calls /\ c.op = op /\ c.pc = IF bsinit.n > 0 THEN "init" ELSE "initwait"
    BY DEF Calls
  <2>3. Fits(c)
    BY DEF Fits
  <2> HIDE DEF c
  <2>4. p \notin W /\ p \notin H
    BY <2>1 DEF AtPc
  <2>5. bscall'[p] = c /\ \A q \in BsProcs \ {p} : bscall'[q] = bscall[q]
    BY <1>1, <2>1
  <2>6. InitSem'
    <3>1. CASE bsinit.n > 0
      <4>1. AtPc({"initwait"})' = W /\ AtPc({"init", "opening"})' = H \cup {p}
        BY <2>2, <2>4, <2>5, <3>1 DEF AtPc
      <4>2. SemOK(bsinit', W, H \cup {p})
        BY <1>2, <2>1, <2>4, <3>1, SemWait
      <4> QED BY <4>1, <4>2 DEF InitSem
    <3>2. CASE bsinit.n <= 0
      <4>1. AtPc({"initwait"})' = W \cup {p} /\ AtPc({"init", "opening"})' = H
        BY <1>2, <2>2, <2>4, <2>5, <3>2 DEF AtPc
      <4>2. SemOK(bsinit', W \cup {p}, H)
        BY <1>2, <2>1, <2>4, <3>2, SemWait
      <4> QED BY <4>1, <4>2 DEF InitSem
    <3> QED BY <1>2, <3>1, <3>2
  <2> QED BY <2>1, <2>2, <2>3, <2>6, InitStep
<1>4. ASSUME psinitCheck(p) PROVE BsInv'
  <2>1. /\ bscall[p].pc = "init" /\ UNCHANGED <<active, bsinit, bssem, bstab, given, opened>>
        /\ bscall[p].op \in {"init", "alloc"}
    BY <1>1, <1>4 DEF psinitCheck, Fits, Calls
  <2>2. CASE active
    <3> DEFINE c == AfterPsinit(bscall[p].op)
    <3>1. bscall' = [bscall EXCEPT ![p] = c]
      BY <1>4, <2>2 DEF psinitCheck
    <3>2. c \in Calls /\ Fits(c) /\ c.pc \in {"idle", "scan"} /\ c.op \in {"none", "alloc"}
      BY <2>1, AfterType
    <3> HIDE DEF c
    <3>3. bscall'[p] = c /\ \A q \in BsProcs \ {p} : bscall'[q] = bscall[q]
      BY <1>1, <3>1
    <3>4. AtPc({"initwait"})' = W /\ AtPc({"init", "opening"})' \subseteq H
      BY <2>1, <3>2, <3>3 DEF AtPc
    <3>5. SemOK(bsinit, W, AtPc({"init", "opening"})')
      BY <1>2, <3>4, SemLess
    <3>6. InitSem'
      BY <2>1, <3>4, <3>5 DEF InitSem
    <3> QED BY <2>1, <2>2, <3>1, <3>2, <3>6, InitStep
  <2>3. CASE ~active
    <3> DEFINE c == [bscall[p] EXCEPT !.pc = "opening"]
    <3>1. bscall' = [bscall EXCEPT ![p] = c]
      BY <1>4, <2>3 DEF psinitCheck
    <3>2. c \in Calls /\ c.pc = "opening" /\ c.op = bscall[p].op
      BY <1>1 DEF Calls
    <3> HIDE DEF c
    <3>3. Fits(c)
      BY <2>1, <3>2 DEF Fits
    <3>4. bscall'[p] = c /\ \A q \in BsProcs \ {p} : bscall'[q] = bscall[q]
      BY <1>1, <3>1
    <3>5. AtPc({"initwait"})' = W /\ AtPc({"init", "opening"})' = H
      BY <2>1, <3>2, <3>4 DEF AtPc
    <3>6. InitSem'
      BY <1>2, <2>1, <3>5 DEF InitSem
    <3> QED BY <2>1, <2>3, <3>1, <3>2, <3>3, <3>6, InitStep
  <2> QED BY <2>2, <2>3
<1> QED BY <1>3, <1>4

\* An entry of a table that psinit has just cleared.
LEMMA ClearedStore ==
    ASSUME NEW s \in BsIds, bstab'[s] = ClosedEntry, \A q \in BsProcs : given'[q] = {} /\ opened'[q] = {},
           \A q \in BsProcs : bscall'[q].pc \notin {"mark", "unmark"}
    PROVE  StoreOK(s)'
<1>1. Owners(s)' = {} /\ Users(s)' = {}
  BY DEF Owners, Users
<1>2. In("mark", s)' = {} /\ In("unmark", s)' = {}
  BY DEF In
<1>3. bstab'[s].usecount = Cardinality({})
  BY FS_EmptySet, EntryTypes
<1> QED BY <1>1, <1>2, <1>3 DEF StoreOK

\* The semaphore that psinit creates: free, without a queue.
LEMMA FreshSem ==
    ASSUME bssem' = [n |-> 1, q |-> <<>>], \A q \in BsProcs : bscall'[q].pc \notin {"wait", "in"}
    PROVE  BsSem'
<1>1. AtPc({"wait"})' = {} /\ AtPc({"in"})' = {}
  BY DEF AtPc
<1>2. bssem'.n = 1 /\ bssem'.q = <<>> /\ bssem'.q \in Seq(BsProcs) /\ Len(bssem'.q) = 0
  OBVIOUS
<1> QED BY <1>1, <1>2 DEF BsSem, SemOK

\* The one psinit that opens the disk clears a table nobody has used, and lets the next
\* caller of psinit look.
LEMMA PsinitDone ==
    ASSUME BsInv, NEW p \in BsProcs, psinitDone(p)
    PROVE  BsInv'
<1> DEFINE W == AtPc({"initwait"})
           H == AtPc({"init", "opening"})
           h == Head(bsinit.q)
           c == AfterPsinit(bscall[p].op)
           d == [bscall EXCEPT ![p] = c]
<1>1. /\ bscall[p].pc = "opening" /\ bssem' = [n |-> 1, q |-> <<>>] /\ bstab' = [s \in BsIds |-> ClosedEntry]
      /\ active' = TRUE /\ bsinit' = BsSignal(bsinit) /\ bscall' = BsWoken(bsinit, "init", d)
      /\ UNCHANGED <<given, opened>> /\ bscall \in [BsProcs -> Calls] /\ Fits(bscall[p]) /\ bscall[p] \in Calls
      /\ given \in [BsProcs -> SUBSET BsIds] /\ opened \in [BsProcs -> SUBSET BsIds]
  BY DEF psinitDone, BsInv, BsTypeOK, BsLocals
<1>2. SemOK(bsinit, W, H) /\ p \in H /\ p \notin W
  BY <1>1 DEF BsInv, InitSem, AtPc
<1>3. H = {p}
  BY <1>2 DEF SemOK
<1>4. /\ bsinit.n \in Int /\ bsinit.n <= 0
      /\ bsinit.n = 0 => SemOK(BsSignal(bsinit), W, {})
      /\ bsinit.n < 0 => h \in W /\ SemOK(BsSignal(bsinit), W \ {h}, {h})
  BY <1>2, SemSignal
<1>5. ~active /\ \A q \in BsProcs : /\ bscall[q].pc \in {"idle", "initwait", "init", "opening"}
                                    /\ given[q] = {} /\ opened[q] = {}
  <2>1. p \in AtPc({"opening"})
    BY <1>1 DEF AtPc
  <2> QED BY <2>1 DEF BsInv, Started
<1>6. c \in Calls /\ Fits(c) /\ c.pc \in {"idle", "scan"} /\ c.op \in {"none", "alloc"}
  <2>1. bscall[p].op \in {"init", "alloc"}
    BY <1>1 DEF Fits, Calls
  <2> QED BY <2>1, AfterType
<1> HIDE DEF c
<1>7. d \in [BsProcs -> Calls] /\ d[p] = c /\ \A q \in BsProcs \ {p} : d[q] = bscall[q]
  BY <1>1, <1>6
<1> HIDE DEF d, h
<1>8. /\ InitSem' /\ bscall' \in [BsProcs -> Calls] /\ bscall'[p] = c
      /\ \A q \in BsProcs \ {p} : /\ bscall'[q].op = bscall[q].op /\ bscall'[q].at = bscall[q].at
                                  /\ \/ bscall'[q].pc = bscall[q].pc
                                     \/ bscall[q].pc = "initwait" /\ bscall'[q].pc = "init"
  <2>1. CASE bsinit.n = 0
    <3>1. bscall' = d
      BY <1>1, <2>1 DEF BsWoken
    <3>2. AtPc({"initwait"})' = W /\ AtPc({"init", "opening"})' = {}
      BY <1>1, <1>3, <1>6, <1>7, <3>1 DEF AtPc
    <3>3. InitSem'
      BY <1>1, <1>4, <2>1, <3>2 DEF InitSem
    <3> QED BY <1>7, <3>1, <3>3
  <2>2. CASE bsinit.n < 0
    <3>1. bscall' = [d EXCEPT ![h].pc = "init"]
      BY <1>1, <2>2 DEF BsWoken, h
    <3>2. h \in BsProcs /\ h # p /\ bscall[h].pc = "initwait" /\ d[h] = bscall[h]
      BY <1>2, <1>4, <1>7, <2>2 DEF AtPc
    <3>3. /\ bscall' \in [BsProcs -> Calls] /\ bscall'[p] = c
          /\ bscall'[h].pc = "init" /\ bscall'[h].op = bscall[h].op /\ bscall'[h].at = bscall[h].at
          /\ \A q \in BsProcs \ {p, h} : bscall'[q] = bscall[q]
      BY <1>7, <3>1, <3>2 DEF Calls
    <3>4. AtPc({"initwait"})' = W \ {h} /\ AtPc({"init", "opening"})' = {h}
      BY <1>3, <1>6, <3>2, <3>3 DEF AtPc
    <3>5. InitSem'
      BY <1>1, <1>4, <2>2, <3>4 DEF InitSem
    <3> QED BY <3>2, <3>3, <3>5
  <2> QED BY <1>4, <2>1, <2>2
<1>9. ASSUME NEW q \in BsProcs
      PROVE  bscall'[q].pc \in {"idle", "initwait", "init", "scan"} /\ Fits(bscall'[q])
             /\ bscall'[q].op \in {"none", "init", "alloc"}
  <2>1. CASE q = p
    BY <1>6, <1>8, <2>1
  <2>2. CASE q # p
    <3>1. bscall[q].pc # "opening" /\ Fits(bscall[q]) /\ bscall[q] \in Calls
      BY <1>1, <1>3, <2>2 DEF AtPc, BsInv, BsLocals
    <3>2. bscall'[q].pc \in {"idle", "initwait", "init"}
      BY <1>5, <1>8, <2>2, <3>1
    <3>3. bscall[q].op \in {"none", "init", "alloc"}
      BY <1>5, <3>1 DEF Fits, Calls
    <3>4. Fits(bscall'[q])
      BY <1>5, <1>8, <2>2, <3>1, <3>2, <3>3 DEF Fits
    <3> QED BY <1>8, <2>2, <3>2, <3>3, <3>4
  <2> QED BY <2>1, <2>2
<1>10. bstab' \in [BsIds -> Entries] /\ \A s \in BsIds : bstab'[s] = ClosedEntry
  BY <1>1, EntryTypes
<1>11. BsTypeOK'
  BY <1>1, <1>8, <1>10 DEF BsTypeOK
<1>12. BsLocals'
  BY <1>9 DEF BsLocals, Fits
<1>13. BsSem'
  BY <1>1, <1>9, FreshSem
<1>14. Started'
  BY <1>1, <1>9 DEF Started, AtPc
<1>15. Order'
  BY <1>9 DEF Order
<1>16. ASSUME NEW s \in BsIds PROVE StoreOK(s)'
  BY <1>1, <1>5, <1>9, <1>10, ClearedStore
<1>17. ASSUME NEW q \in BsProcs PROVE CallOK(q)'
  BY <1>9 DEF CallOK
<1> QED BY <1>8, <1>11, <1>12, <1>13, <1>14, <1>15, <1>16, <1>17 DEF BsInv

-----------------------------------------------------------------------------
(* The steps *)

\* The search of allocate_bs stops at an entry of the table.
LEMMA LeastCandidate ==
    ASSUME NEW S \in SUBSET Nat, S # {}
    PROVE  Min(S) \in S
<1> DEFINE R == {ss \in Nat \X Nat : ss[1] < ss[2]}
<1>1. IsWellFoundedOn(R, Nat)
  BY NatLessThanWellFounded, Zenon DEF OpToRel
<1>2. PICK x \in S : \A y \in S : ~(<<y, x>> \in R)
  <2> HIDE DEF R
  <2> QED BY <1>1, WFMin
<1>3. ASSUME NEW y \in S PROVE x <= y
  <2>1. y \in Nat /\ x \in Nat /\ <<y, x>> \in Nat \X Nat
    OBVIOUS
  <2>2. y < x => <<y, x>>[1] < <<y, x>>[2]
    BY <2>1
  <2>3. y < x => <<y, x>> \in R
    BY <2>1, <2>2, Zenon
  <2> QED BY <1>2, <2>1, <2>3
<1> QED BY <1>3 DEF Min

\* allocate_bs begins its search, and looks for the next entry.
LEMMA SearchInv ==
    ASSUME BsInv, NEW p \in BsProcs, allocate_bs(p) \/ ScanStores(p)
    PROVE  BsInv'
<1>1. NoCall \in Calls /\ Fits(NoCall) /\ NoCall.pc = "idle"
  BY DEF NoCall, Calls, Fits
<1>2. CASE allocate_bs(p)
  <2> PICK op \in {"init", "alloc"} : op = "alloc"
    OBVIOUS
  <2> PICK c \in Calls : c = AfterPsinit(op)
    BY AfterType
  <2>1. bscall' = [bscall EXCEPT ![p] = c] /\ Fits(c) /\ c.pc \in {"idle", "scan"}
    BY <1>2, AfterType DEF allocate_bs
  <2> QED BY <1>2, <2>1, PlainInv DEF allocate_bs, BsCalled
<1>3. CASE ScanStores(p)
  <2>1. bscall[p].pc = "scan" /\ UNCHANGED <<active, bsinit, bstab, given, opened>> /\ active
    BY <1>3 DEF ScanStores, BsInv, Started
  <2>2. CASE Candidates(p) = {}
    <3>1. bscall' = [bscall EXCEPT ![p] = NoCall] /\ UNCHANGED bssem
      BY <1>3, <2>2 DEF ScanStores
    <3> QED BY <1>1, <2>1, <3>1, PlainInv
  <2>3. CASE Candidates(p) # {}
    <3>1. Candidates(p) \in SUBSET Nat
      BY DEF Candidates, BsIds
    <3>2. Min(Candidates(p)) \in Candidates(p)
      BY <2>3, <3>1, LeastCandidate
    <3> PICK s \in BsIds : s = Min(Candidates(p))
      BY <3>2 DEF Candidates
    <3>3. ~bstab[s].isallocated
      BY <3>2 DEF Candidates
    <3> PICK op \in {"alloc", "free", "open", "close", "page"} : op = "alloc"
      OBVIOUS
    <3>4. EnterBs(p, op, s)
      BY <1>3, <2>3 DEF ScanStores
    <3> QED BY <2>1, <3>3, <3>4, EnterInv
  <2> QED BY <2>2, <2>3
<1> QED BY <1>2, <1>3

\* The calls that begin by waiting for bs_sem.  Without BsShared no store is opened while
\* its owner gives it back.
LEMMA StartInv ==
    ASSUME ~BsShared, BsInv, NEW p \in BsProcs, NEW s \in BsIds,
           deallocate_bs(p, s) \/ open_bs(p, s) \/ close_bs(p, s) \/ PageStart(p, s)
    PROVE  BsInv'
<1>1. bscall[p].pc = "idle" /\ UNCHANGED <<active, bsinit, bstab, given, opened>>
  BY DEF deallocate_bs, open_bs, close_bs, PageStart, BsCalled
<1>2. active
  BY DEF BsInv, Started, deallocate_bs, open_bs, close_bs, PageStart
<1>3. CASE deallocate_bs(p, s)
  <2> PICK op \in {"alloc", "free", "open", "close", "page"} : op = "free"
    OBVIOUS
  <2>1. /\ EnterBs(p, op, s) /\ s \in given[p] /\ bstab[s].usecount = 0
        /\ \A q \in BsProcs : ~(bscall[q].op = "open" /\ bscall[q].at = s)
    BY <1>3 DEF deallocate_bs, Busy
  <2> QED BY <1>1, <1>2, <2>1, EnterInv
<1>4. CASE open_bs(p, s)
  <2> PICK op \in {"alloc", "free", "open", "close", "page"} : op = "open"
    OBVIOUS
  <2>1. /\ EnterBs(p, op, s) /\ s \notin opened[p]
        /\ \A q \in BsProcs : ~(bscall[q].op = "free" /\ bscall[q].at = s)
    BY <1>4 DEF open_bs, Busy
  <2> QED BY <1>1, <1>2, <2>1, EnterInv
<1>5. CASE close_bs(p, s)
  <2> PICK op \in {"alloc", "free", "open", "close", "page"} : op = "close"
    OBVIOUS
  <2>1. EnterBs(p, op, s) /\ s \in opened[p]
    BY <1>5 DEF close_bs
  <2> QED BY <1>1, <1>2, <2>1, EnterInv
<1>6. CASE PageStart(p, s)
  <2> PICK op \in {"alloc", "free", "open", "close", "page"} : op = "page"
    OBVIOUS
  <2>1. EnterBs(p, op, s) /\ s \in given[p] \cup opened[p]
    BY <1>6 DEF PageStart
  <2> QED BY <1>1, <1>2, <2>1, EnterInv
<1> QED BY <1>3, <1>4, <1>5, <1>6

\* read_bs and write_bs: the check of the entry and the transfer.
LEMMA PageInv ==
    ASSUME BsInv, NEW p \in BsProcs, (\E page \in {0, BsPages} : PageCheck(p, page)) \/ PageTransfer(p)
    PROVE  BsInv'
<1>1. NoCall \in Calls /\ Fits(NoCall) /\ NoCall.pc = "idle"
  BY DEF NoCall, Calls, Fits
<1>2. bscall[p] \in Calls /\ Fits(bscall[p])
  BY DEF BsInv, BsTypeOK, BsLocals
<1>3. ASSUME NEW page \in {0, BsPages}, PageCheck(p, page) PROVE BsInv'
  <2> DEFINE d == [bscall[p] EXCEPT !.pc = "blocks"]
  <2>1. bscall[p].pc = "in" /\ bscall[p].op = "page" /\ UNCHANGED <<active, bsinit, bstab, given, opened>>
    BY <1>3 DEF PageCheck
  <2>2. d \in Calls /\ d.pc = "blocks" /\ d.op = "page" /\ d.at = bscall[p].at
    BY <1>2, <2>1 DEF Calls
  <2>3. LeaveBs(p, NoCall) \/ LeaveBs(p, d)
    BY <1>3 DEF PageCheck
  <2> HIDE DEF d
  <2>4. Fits(d)
    BY <1>2, <2>1, <2>2 DEF Fits
  <2>5. CASE LeaveBs(p, NoCall)
    BY <1>1, <2>1, <2>5, LeaveInv
  <2>6. CASE LeaveBs(p, d)
    BY <2>1, <2>2, <2>4, <2>6, LeaveInv
  <2> QED BY <2>3, <2>5, <2>6
<1>4. CASE PageTransfer(p)
  <2>1. /\ bscall[p].pc = "blocks" /\ bscall' = [bscall EXCEPT ![p] = NoCall]
        /\ UNCHANGED <<active, bsinit, bssem, bstab, given, opened>>
    BY <1>4 DEF PageTransfer
  <2>2. active
    BY <2>1 DEF BsInv, Started
  <2> QED BY <1>1, <2>1, <2>2, PlainInv
<1> QED BY <1>3, <1>4

\* Nothing happens.
LEMMA StutterInv ==
    ASSUME BsInv, UNCHANGED bsVars PROVE BsInv'
<1>1. UNCHANGED <<active, bsinit, bssem, bstab, bscall, given, opened>>
  BY DEF bsVars
<1>2. BsTypeOK' /\ BsLocals' /\ Started' /\ Order'
  <2>1. BsTypeOK'
    BY <1>1 DEF BsInv, BsTypeOK
  <2>2. BsLocals'
    BY <1>1 DEF BsInv, BsLocals, Fits
  <2>3. Started'
    BY <1>1 DEF BsInv, Started, AtPc
  <2>4. Order'
    BY <1>1 DEF BsInv, Order, Ahead
  <2> QED BY <2>1, <2>2, <2>3, <2>4
<1>3. InitSem' /\ BsSem'
  BY <1>1, InitSame, BsSame DEF BsInv
<1>4. ASSUME NEW s \in BsIds PROVE StoreOK(s)'
  BY <1>1, StoreSame DEF BsInv
<1>5. ASSUME NEW p \in BsProcs PROVE CallOK(p)'
  BY <1>1 DEF BsInv, CallOK
<1> QED BY <1>2, <1>3, <1>4, <1>5 DEF BsInv

\* At the start nobody is in a call and every entry is closed.
LEMMA BsInitInv ==
    ASSUME BsInit PROVE BsInv
<1>1. NoCall \in Calls /\ Fits(NoCall) /\ NoCall.pc = "idle" /\ NoCall.op = "none"
  BY DEF NoCall, Calls, Fits
<1>2. \A p \in BsProcs : bscall[p] = NoCall /\ given[p] = {} /\ opened[p] = {}
  BY DEF BsInit
<1>3. BsTypeOK
  BY <1>1, EntryTypes DEF BsInit, BsTypeOK
<1>4. BsLocals
  BY <1>1, <1>2 DEF BsLocals
<1>5. /\ AtPc({"initwait"}) = {} /\ AtPc({"init", "opening"}) = {} /\ AtPc({"wait"}) = {} /\ AtPc({"in"}) = {}
      /\ AtPc({"opening"}) = {}
  BY <1>1, <1>2 DEF AtPc
<1> PICK sem : sem = [n |-> 1, q |-> <<>>]
  OBVIOUS
<1>6. sem.n = 1 /\ sem.q = <<>> /\ sem.q \in Seq(BsProcs) /\ Len(sem.q) = 0 /\ bsinit = sem /\ bssem = sem
  BY DEF BsInit
<1>7. SemOK(sem, {}, {})
  BY <1>6 DEF SemOK
<1>8. InitSem /\ BsSem
  <2>1. InitSem
    BY <1>5, <1>6, <1>7 DEF InitSem
  <2>2. bssem.n = 1
    BY DEF BsInit
  <2>3. SemOK(bssem, AtPc({"wait"}), AtPc({"in"}))
    BY <1>5, <1>6, <1>7, Zenon
  <2> QED BY <2>1, <2>2, <2>3 DEF BsSem
<1>9. Started
  BY <1>1, <1>2, <1>5 DEF BsInit, Started
<1>10. Order
  BY <1>1, <1>2 DEF Order
<1>11. ASSUME NEW s \in BsIds PROVE StoreOK(s)
  <2>1. Owners(s) = {} /\ Users(s) = {}
    BY <1>2 DEF Owners, Users
  <2>2. In("mark", s) = {} /\ In("unmark", s) = {}
    BY <1>1, <1>2 DEF In
  <2>3. bstab[s] = ClosedEntry
    BY DEF BsInit
  <2>4. bstab[s].usecount = Cardinality({})
    BY <2>3, FS_EmptySet, EntryTypes
  <2> QED BY <2>1, <2>2, <2>3, <2>4 DEF StoreOK
<1>12. ASSUME NEW p \in BsProcs PROVE CallOK(p)
  BY <1>1, <1>2 DEF CallOK
<1> QED BY <1>3, <1>4, <1>8, <1>9, <1>10, <1>11, <1>12 DEF BsInv

\* A queue without repetition is as long as the set of its members is large.
LEMMA QueueCount ==
    ASSUME NEW q \in Seq(BsProcs), NEW W \in SUBSET BsProcs,
           \A i, j \in 1..Len(q) : q[i] = q[j] => i = j,
           \A p \in BsProcs : p \in W <=> \E i \in 1..Len(q) : q[i] = p
    PROVE  Cardinality(W) = Len(q)
<1> PICK n \in Nat : n = Len(q)
  OBVIOUS
<1>1. q \in [1..n -> W]
  <2>1. q \in [1..n -> BsProcs]
    OBVIOUS
  <2>2. \A i \in 1..n : q[i] \in W
    BY <2>1
  <2> QED BY <2>1, <2>2
<1>2. ExistsBijection(1..n, W)
  <2>1. q \in Bijection(1..n, W)
    BY <1>1 DEF Bijection, Injection, Surjection, IsInjective
  <2> QED BY <2>1 DEF ExistsBijection
<1> QED BY <1>2, FS_CountingElements

\* The invariant implies what the run checks.
LEMMA BsImplies ==
    ASSUME BsInv PROVE StoresOwned
<1> DEFINE at(pcs, s) == {p \in BsProcs : bscall[p].pc \in pcs /\ bscall[p].at = s}
           holders == {p \in BsProcs : bscall[p].pc = "in"}
           waiting == {p \in BsProcs : bscall[p].pc = "wait"}
<1>1. /\ bstab \in [BsIds -> Entries] /\ given \in [BsProcs -> SUBSET BsIds] /\ opened \in [BsProcs -> SUBSET BsIds]
      /\ \A s \in BsIds : StoreOK(s) /\ bstab[s] \in Entries
  BY DEF BsInv, BsTypeOK
<1>2. \A s \in BsIds : at({"unmark"}, s) = In("unmark", s) /\ at({"mark"}, s) = In("mark", s)
  BY DEF In
<1>3. \A p, q \in BsProcs : p # q => given[p] \cap given[q] = {}
  <2> SUFFICES ASSUME NEW p \in BsProcs, NEW q \in BsProcs, NEW s, s \in given[p], s \in given[q] PROVE p = q
    OBVIOUS
  <2>1. s \in BsIds
    BY <1>1
  <2> QED BY <1>1, <2>1 DEF StoreOK, Owners
<1>4. ASSUME NEW p \in BsProcs, NEW s \in given[p], at({"unmark"}, s) = {}
      PROVE  bstab[s] = [bstab[s] EXCEPT !.isopen = TRUE, !.isallocated = TRUE, !.npages = BsPages]
  <2>1. s \in BsIds /\ p \in Owners(s) /\ In("unmark", s) = {}
    BY <1>1, <1>2, <1>4 DEF Owners
  <2> PICK e \in Entries : e = bstab[s]
    BY <1>1, <2>1
  <2>2. e.isopen /\ e.isallocated /\ e.npages = BsPages
    BY <1>1, <2>1 DEF StoreOK
  <2>3. e.isopen = TRUE /\ e.isallocated = TRUE
    BY <2>2, Zenon DEF Entries
  <2>4. e = [e EXCEPT !.isopen = TRUE, !.isallocated = TRUE, !.npages = BsPages]
    BY <2>2, <2>3 DEF Entries
  <2> QED BY <2>4
<1>5. ASSUME NEW s \in BsIds, \A p \in BsProcs : s \notin given[p], at({"mark"}, s) = {}
      PROVE  bstab[s] = ClosedEntry
  <2>1. Owners(s) = {}
    BY <1>5 DEF Owners
  <2> QED BY <1>1, <1>2, <1>5, <2>1 DEF StoreOK
<1>6. \A s \in BsIds : bstab[s].usecount = Cardinality({p \in BsProcs : s \in opened[p]})
  BY <1>1 DEF StoreOK, Users
<1>7. ASSUME NEW s \in BsIds, bstab[s].usecount > 0 \/ at({"blocks"}, s) # {}
      PROVE  bstab[s].isopen
  <2>1. CASE bstab[s].usecount > 0
    <3>1. bstab[s].usecount # 0
      BY <2>1
    <3> QED BY <3>1, StoreCases
  <2>2. CASE at({"blocks"}, s) # {}
    <3>1. PICK p \in BsProcs : bscall[p].pc = "blocks" /\ bscall[p].at = s
      BY <2>2
    <3>2. bscall[p].op = "page" /\ s \in given[p] \cup opened[p]
      BY <3>1 DEF BsInv, BsLocals, Fits, CallOK
    <3>3. CASE s \in opened[p]
      <4>1. p \in Users(s)
        BY <3>3 DEF Users
      <4>2. bstab[s].usecount # 0
        BY <1>1, <4>1, UserCount DEF StoreOK
      <4> QED BY <4>2, StoreCases
    <3>4. CASE s \in given[p]
      <4>1. p \in Owners(s)
        BY <3>4 DEF Owners
      <4>2. In("unmark", s) = {}
        <5> SUFFICES ASSUME NEW q \in In("unmark", s) PROVE FALSE
          OBVIOUS
        <5>1. q \in Owners(s) /\ bscall[q].pc = "unmark"
          BY StoreCases DEF In
        <5> QED BY <1>1, <3>1, <4>1, <5>1 DEF StoreOK
      <4> QED BY <1>1, <4>1, <4>2 DEF StoreOK
    <3> QED BY <3>2, <3>3, <3>4
  <2> QED BY <1>7, <2>1, <2>2
<1>8. Cardinality(holders) <= 1 /\ bssem.n = 1 - Cardinality(holders) - Cardinality(waiting)
  <2>1. SemOK(bssem, waiting, holders) /\ (bssem.n < 1 => holders # {})
    <3>1. AtPc({"wait"}) = waiting /\ AtPc({"in"}) = holders
      BY DEF AtPc
    <3> QED BY <3>1 DEF BsInv, BsSem
  <2> HIDE DEF holders, waiting
  <2>2. /\ bssem.n \in Int /\ bssem.n <= 1 /\ Len(bssem.q) = IF bssem.n < 0 THEN -bssem.n ELSE 0
        /\ \A p, q \in holders : p = q
        /\ bssem.n = 1 => holders = {}
    BY <2>1 DEF SemOK
  <2>3. Cardinality(waiting) = Len(bssem.q)
    BY <2>1, QueueCount DEF SemOK
  <2>4. Cardinality(holders) = IF bssem.n = 1 THEN 0 ELSE 1
    <3>1. CASE bssem.n = 1
      BY <2>2, <3>1, FS_EmptySet
    <3>2. CASE bssem.n # 1
      <4>1. PICK p : p \in holders
        BY <2>1, <2>2, <3>2
      <4>2. holders = {p}
        BY <2>2, <4>1
      <4> QED BY <3>2, <4>2, FS_Singleton
    <3> QED BY <3>1, <3>2
  <2> QED BY <2>2, <2>3, <2>4
<1> QED BY <1>3, <1>4, <1>5, <1>6, <1>7, <1>8 DEF StoresOwned

\* When no store is opened while its owner gives it back, every store that allocate_bs
\* gave belongs to one process, open and allocated, until deallocate_bs is done with it;
\* the use count is the number of processes that have it open; a transfer of a page runs
\* on an open store; a store nobody owns is free; bs_sem has one holder and psinit clears
\* the table once.  The run checks it for three processes and two stores.
THEOREM StoresOwnedCorrect ==
    ASSUME ~BsShared PROVE BsSpec => []StoresOwned
<1>1. BsInit => BsInv
  BY BsInitInv
<1>2. BsInv /\ [BsNext]_bsVars => BsInv'
  <2> SUFFICES ASSUME BsInv, [BsNext]_bsVars PROVE BsInv'
    OBVIOUS
  <2>1. CASE UNCHANGED bsVars
    BY <2>1, StutterInv
  <2>2. ASSUME NEW p \in BsProcs, (\E op \in {"init", "alloc"} : psinit(p, op)) \/ psinitCheck(p) PROVE BsInv'
    BY <2>2, PsinitInv
  <2>3. ASSUME NEW p \in BsProcs, psinitDone(p) PROVE BsInv'
    BY <2>3, PsinitDone
  <2>4. ASSUME NEW p \in BsProcs, allocate_bs(p) \/ ScanStores(p) PROVE BsInv'
    BY <2>4, SearchInv
  <2>5. ASSUME NEW p \in BsProcs, get_bs(p) PROVE BsInv'
    BY <2>5, OpenInv
  <2>6. ASSUME NEW p \in BsProcs, MarkAllocated(p) PROVE BsInv'
    BY <2>6, MarkInv
  <2>7. ASSUME NEW p \in BsProcs, NEW s \in BsIds,
               deallocate_bs(p, s) \/ open_bs(p, s) \/ close_bs(p, s) \/ PageStart(p, s)
        PROVE  BsInv'
    BY <2>7, StartInv
  <2>8. ASSUME NEW p \in BsProcs, release_bs(p) PROVE BsInv'
    BY <2>8, ReleaseInv
  <2>9. ASSUME NEW p \in BsProcs, Unmark(p) PROVE BsInv'
    BY <2>9, UnmarkInv
  <2>10. ASSUME NEW p \in BsProcs, OpenCount(p) \/ CloseCount(p) PROVE BsInv'
    BY <2>10, CountersInv
  <2>11. ASSUME NEW p \in BsProcs, (\E page \in {0, BsPages} : PageCheck(p, page)) \/ PageTransfer(p) PROVE BsInv'
    BY <2>11, PageInv
  <2> QED BY <2>1, <2>2, <2>3, <2>4, <2>5, <2>6, <2>7, <2>8, <2>9, <2>10, <2>11 DEF BsNext
<1>3. BsInv => StoresOwned
  BY BsImplies
<1> QED BY <1>1, <1>2, <1>3, PTL DEF BsSpec

-----------------------------------------------------------------------------
(* The heaps: getmem, freemem, getstk and the virtual heap allocator *)

HIDE BackingStoreAssumption

Blocks == [a : Nat, n : Nat \ {0}]
\* A free list by address: no two of its blocks overlap or touch.
Neat(l) ==
    /\ l \in Seq(Blocks)
    /\ \A i, j \in 1..Len(l) : i < j => l[i].a + l[i].n < l[j].a
FreeCells(l) == {c \in Nat : \E i \in 1..Len(l) : c \in Cells(l[i])}

\* A block and its cells.
LEMMA BlkFacts ==
    ASSUME NEW a \in Nat, NEW n \in Nat
    PROVE  /\ Blk(a, n).a = a /\ Blk(a, n).n = n /\ (n > 0 => Blk(a, n) \in Blocks)
           /\ \A c \in Nat : c \in Cells(Blk(a, n)) <=> a <= c /\ c < a + n
BY DEF Blk, Blocks, Cells

\* The cells of a block.
LEMMA CellsFacts ==
    ASSUME NEW b \in Blocks
    PROVE  /\ b.a \in Nat /\ b.n \in Nat /\ b.n > 0 /\ b = Blk(b.a, b.n)
           /\ Cells(b) \in SUBSET Nat /\ b.a \in Cells(b)
           /\ \A c \in Nat : c \in Cells(b) <=> b.a <= c /\ c < b.a + b.n
<1>1. b.a \in Nat /\ b.n \in Nat /\ b.n > 0
  BY DEF Blocks
<1> PICK a \in Nat, n \in Nat : a = b.a /\ n = b.n
  BY <1>1
<1>2. b = Blk(a, n)
  BY DEF Blocks, Blk
<1>3. \A c \in a..(a + n - 1) : c \in Nat
  BY <1>1
<1>4. \A c \in Nat : c \in a..(a + n - 1) <=> a <= c /\ c < a + n
  BY <1>1
<1> QED BY <1>1, <1>2, <1>3, <1>4 DEF Cells

\* What two sequences together hold.
LEMMA ConcatFacts ==
    ASSUME NEW C, NEW s \in Seq(C), NEW t \in Seq(C)
    PROVE  /\ s \o t \in Seq(C) /\ Len(s \o t) = Len(s) + Len(t)
           /\ \A i \in 1..Len(s) + Len(t) : (s \o t)[i] = IF i <= Len(s) THEN s[i] ELSE t[i - Len(s)]
OBVIOUS

\* RemoveAt closes the gap.
LEMMA RemoveFacts ==
    ASSUME NEW C, NEW l \in Seq(C), NEW i \in 1..Len(l)
    PROVE  /\ RemoveAt(l, i) \in Seq(C) /\ Len(RemoveAt(l, i)) = Len(l) - 1
           /\ \A j \in 1..Len(l) - 1 : RemoveAt(l, i)[j] = IF j < i THEN l[j] ELSE l[j + 1]
<1> DEFINE s == SubSeq(l, 1, i - 1)
           t == SubSeq(l, i + 1, Len(l))
<1>1. s \in Seq(C) /\ Len(s) = i - 1 /\ \A j \in 1..i - 1 : s[j] = l[j]
  OBVIOUS
<1>2. t \in Seq(C) /\ Len(t) = Len(l) - i /\ \A j \in 1..Len(l) - i : t[j] = l[i + j]
  OBVIOUS
<1>3. RemoveAt(l, i) = s \o t
  BY DEF RemoveAt
<1> HIDE DEF s, t
<1>4. s \o t \in Seq(C) /\ Len(s \o t) = Len(l) - 1
  <2>1. s \o t \in Seq(C) /\ Len(s \o t) = Len(s) + Len(t)
    BY <1>1, <1>2, ConcatFacts
  <2> QED BY <1>1, <1>2, <2>1
<1>5. ASSUME NEW j \in 1..Len(l) - 1 PROVE (s \o t)[j] = IF j < i THEN l[j] ELSE l[j + 1]
  <2>1. CASE j < i
    BY <1>1, <1>2, <2>1
  <2>2. CASE ~(j < i)
    <3> PICK m \in 1..Len(l) - i : m = j - (i - 1)
      BY <2>2
    <3>1. (s \o t)[j] = t[m]
      BY <1>1, <1>2, <2>2
    <3>2. t[m] = l[i + m] /\ i + m = j + 1
      BY <1>2
    <3> QED BY <2>2, <3>1, <3>2
  <2> QED BY <2>1, <2>2
<1> QED BY <1>3, <1>4, <1>5

\* InsertAt opens a gap.
LEMMA InsertFacts ==
    ASSUME NEW C, NEW l \in Seq(C), NEW i \in 1..Len(l) + 1, NEW e \in C
    PROVE  /\ InsertAt(l, i, e) \in Seq(C) /\ Len(InsertAt(l, i, e)) = Len(l) + 1
           /\ \A j \in 1..Len(l) + 1 :
                 InsertAt(l, i, e)[j] = IF j < i THEN l[j] ELSE IF j = i THEN e ELSE l[j - 1]
<1> DEFINE s == SubSeq(l, 1, i - 1)
           t == SubSeq(l, i, Len(l))
           u == s \o <<e>>
<1>1. s \in Seq(C) /\ Len(s) = i - 1 /\ \A j \in 1..i - 1 : s[j] = l[j]
  OBVIOUS
<1>2. t \in Seq(C) /\ Len(t) = Len(l) - i + 1 /\ \A j \in 1..Len(l) - i + 1 : t[j] = l[i - 1 + j]
  OBVIOUS
<1>3. InsertAt(l, i, e) = u \o t
  BY DEF InsertAt
<1> HIDE DEF s, t
<1>4. u \in Seq(C) /\ Len(u) = i /\ u[i] = e /\ \A j \in 1..i - 1 : u[j] = l[j]
  BY <1>1
<1> HIDE DEF u
<1>5. u \o t \in Seq(C) /\ Len(u \o t) = Len(l) + 1
  <2>1. u \o t \in Seq(C) /\ Len(u \o t) = Len(u) + Len(t)
    BY <1>2, <1>4, ConcatFacts
  <2> QED BY <1>2, <1>4, <2>1
<1>6. ASSUME NEW j \in 1..Len(l) + 1 PROVE (u \o t)[j] = IF j < i THEN l[j] ELSE IF j = i THEN e ELSE l[j - 1]
  <2>1. CASE j <= i
    <3>1. (u \o t)[j] = u[j]
      BY <1>2, <1>4, <2>1
    <3> QED BY <1>4, <2>1, <3>1
  <2>2. CASE ~(j <= i)
    <3> PICK m \in 1..Len(l) - i + 1 : m = j - i
      BY <2>2
    <3>1. (u \o t)[j] = t[m]
      BY <1>2, <1>4, <2>2
    <3>2. t[m] = l[i - 1 + m] /\ i - 1 + m = j - 1
      BY <1>2
    <3> QED BY <2>2, <3>1, <3>2
  <2> QED BY <2>1, <2>2
<1> QED BY <1>3, <1>5, <1>6

\* Leaving out block i of a list.
LEMMA DropBlock ==
    ASSUME NEW l \in Seq(Blocks), Neat(l), NEW i \in 1..Len(l)
    PROVE  Neat(RemoveAt(l, i)) /\ FreeCells(RemoveAt(l, i)) = FreeCells(l) \ Cells(l[i])
<1> DEFINE r == RemoveAt(l, i)
<1>1. /\ r \in Seq(Blocks) /\ Len(r) = Len(l) - 1
      /\ \A j \in 1..Len(l) - 1 : r[j] = IF j < i THEN l[j] ELSE l[j + 1]
  BY RemoveFacts DEF Neat
<1>2. l \in Seq(Blocks) /\ \A j, m \in 1..Len(l) : j < m => l[j].a + l[j].n < l[m].a
  BY DEF Neat
<1> HIDE DEF r
<1>3. ASSUME NEW j \in 1..Len(r), NEW m \in 1..Len(r), j < m PROVE r[j].a + r[j].n < r[m].a
  <2> PICK x \in 1..Len(l) : x = IF j < i THEN j ELSE j + 1
    BY <1>1
  <2> PICK y \in 1..Len(l) : y = IF m < i THEN m ELSE m + 1
    BY <1>1
  <2>1. x < y /\ r[j] = l[x] /\ r[m] = l[y]
    BY <1>1, <1>3
  <2> QED BY <1>2, <2>1
<1>4. Neat(r)
  BY <1>1, <1>3 DEF Neat
<1>5. \A j \in 1..Len(l) : l[j] \in Blocks
  BY <1>2
<1>6. ASSUME NEW c \in FreeCells(r) PROVE c \in FreeCells(l) /\ c \notin Cells(l[i])
  <2> PICK j \in 1..Len(r) : c \in Cells(r[j])
    BY DEF FreeCells
  <2> PICK x \in 1..Len(l) : x = IF j < i THEN j ELSE j + 1
    BY <1>1
  <2>1. x # i /\ c \in Nat /\ c \in Cells(l[x])
    BY <1>1 DEF FreeCells
  <2>2. c \in FreeCells(l)
    BY <2>1 DEF FreeCells
  <2>3. l[x].a <= c /\ c < l[x].a + l[x].n /\ (c \in Cells(l[i]) => l[i].a <= c /\ c < l[i].a + l[i].n)
    BY <1>5, <2>1, CellsFacts
  <2>4. l[x] \in Blocks /\ l[i] \in Blocks /\ l[x].a \in Nat /\ l[i].a \in Nat /\ l[x].n \in Nat /\ l[i].n \in Nat
    BY <1>5, CellsFacts
  <2>5. (x < i => l[x].a + l[x].n < l[i].a) /\ (i < x => l[i].a + l[i].n < l[x].a) /\ (x < i \/ i < x)
    BY <1>2, <2>1
  <2>6. c \notin Cells(l[i])
    BY <2>1, <2>3, <2>4, <2>5
  <2> QED BY <2>2, <2>6
<1>7. ASSUME NEW c \in FreeCells(l), c \notin Cells(l[i]) PROVE c \in FreeCells(r)
  <2> PICK x \in 1..Len(l) : c \in Cells(l[x])
    BY DEF FreeCells
  <2>1. x # i /\ c \in Nat
    BY <1>7 DEF FreeCells
  <2> PICK j \in 1..Len(r) : j = IF x < i THEN x ELSE x - 1
    BY <1>1, <2>1
  <2>2. r[j] = l[x]
    BY <1>1, <2>1
  <2> QED BY <2>1, <2>2 DEF FreeCells
<1> QED BY <1>4, <1>6, <1>7 DEF r

\* Block i of a list shrinks to b, at either end.
LEMMA ShrinkBlock ==
    ASSUME NEW l \in Seq(Blocks), Neat(l), NEW i \in 1..Len(l), NEW b \in Blocks,
           l[i].a <= b.a, b.a + b.n <= l[i].a + l[i].n
    PROVE  /\ Neat([l EXCEPT ![i] = b])
           /\ FreeCells([l EXCEPT ![i] = b]) = (FreeCells(l) \ Cells(l[i])) \cup Cells(b)
<1> DEFINE r == [l EXCEPT ![i] = b]
<1>2. l \in Seq(Blocks) /\ \A j, m \in 1..Len(l) : j < m => l[j].a + l[j].n < l[m].a
  BY DEF Neat
<1>1. r \in Seq(Blocks) /\ Len(r) = Len(l) /\ r[i] = b /\ \A j \in 1..Len(l) : j # i => r[j] = l[j]
  BY <1>2
<1> HIDE DEF r
<1>5. \A j \in 1..Len(l) : /\ l[j] \in Blocks /\ l[j].a \in Nat /\ l[j].n \in Nat
                           /\ \A c \in Nat : c \in Cells(l[j]) <=> l[j].a <= c /\ c < l[j].a + l[j].n
  BY <1>2, CellsFacts
<1>6. b.a \in Nat /\ b.n \in Nat /\ b.n > 0 /\ (\A c \in Nat : c \in Cells(b) <=> b.a <= c /\ c < b.a + b.n) /\ Cells(b) \in SUBSET Nat
  BY CellsFacts
<1> PICK ba \in Nat, bn \in Nat : ba = b.a /\ bn = b.n
  BY <1>6
<1>3. ASSUME NEW j \in 1..Len(r), NEW m \in 1..Len(r), j < m PROVE r[j].a + r[j].n < r[m].a
  <2>1. l[j].a + l[j].n < l[m].a /\ j \in 1..Len(l) /\ m \in 1..Len(l)
    BY <1>1, <1>2, <1>3
  <2> PICK aj \in Nat, nj \in Nat, am \in Nat, nm \in Nat : aj = l[j].a /\ nj = l[j].n /\ am = l[m].a /\ nm = l[m].n
    BY <1>5, <2>1
  <2>0. {aj, nj, am, ba, bn} \subseteq Nat
    OBVIOUS
  <2>2. CASE j = i
    <3>1. r[j] = b /\ r[m] = l[m]
      BY <1>1, <1>3, <2>1, <2>2
    <3>2. ba + bn <= aj + nj /\ aj + nj < am
      BY <2>1, <2>2
    <3>3. ba + bn < am
      BY ONLY <2>0, <3>2
    <3> QED BY <3>1, <3>3
  <2>3. CASE m = i
    <3>1. r[m] = b /\ r[j] = l[j]
      BY <1>1, <1>3, <2>1, <2>3
    <3>2. am <= ba /\ aj + nj < am
      BY <2>1, <2>3
    <3>3. aj + nj < ba
      BY ONLY <2>0, <3>2
    <3> QED BY <3>1, <3>3
  <2>4. CASE j # i /\ m # i
    BY <1>1, <2>1, <2>4
  <2> QED BY <2>2, <2>3, <2>4
<1>4. Neat(r)
  BY <1>1, <1>3 DEF Neat
<1>7. ASSUME NEW c \in FreeCells(r) PROVE c \in (FreeCells(l) \ Cells(l[i])) \cup Cells(b)
  <2> PICK j \in 1..Len(l) : c \in Cells(r[j])
    BY <1>1 DEF FreeCells
  <2>1. CASE j = i
    BY <1>1, <2>1
  <2>2. CASE j # i
    <3>1. c \in Nat /\ c \in Cells(l[j]) /\ c \in FreeCells(l)
      BY <1>1, <2>2 DEF FreeCells
    <3>2. (j < i => l[j].a + l[j].n < l[i].a) /\ (i < j => l[i].a + l[i].n < l[j].a) /\ (j < i \/ i < j)
      BY <1>2, <2>2
    <3>3. c \notin Cells(l[i])
      <4> PICK aj \in Nat, ej \in Nat, ai \in Nat, ei \in Nat :
                 aj = l[j].a /\ ej = l[j].a + l[j].n /\ ai = l[i].a /\ ei = l[i].a + l[i].n
        <5>1. l[j].a \in Nat /\ l[j].n \in Nat /\ l[i].a \in Nat /\ l[i].n \in Nat
          BY <1>5
        <5>2. l[j].a + l[j].n \in Nat /\ l[i].a + l[i].n \in Nat
          BY ONLY <5>1, SMTT(30)
        <5> QED BY <5>1, <5>2
      <4>1. aj <= c /\ c < ej /\ (c \in Cells(l[i]) <=> ai <= c /\ c < ei)
        BY <1>5, <3>1
      <4>2. ej < ai \/ ei < aj
        BY <3>2
      <4>3. {aj, ej, ai, ei, c} \subseteq Nat
        BY <3>1
      <4>4. ~(ai <= c /\ c < ei)
        BY ONLY <4>1, <4>2, <4>3
      <4> QED BY <4>1, <4>4
    <3> QED BY <3>1, <3>3
  <2> QED BY <2>1, <2>2
<1>8. ASSUME NEW c \in Cells(b) PROVE c \in FreeCells(r)
  BY <1>1, <1>6 DEF FreeCells
<1>9. ASSUME NEW c \in FreeCells(l), c \notin Cells(l[i]) PROVE c \in FreeCells(r)
  <2> PICK x \in 1..Len(l) : c \in Cells(l[x])
    BY DEF FreeCells
  <2>1. x # i /\ c \in Nat
    BY <1>9 DEF FreeCells
  <2> QED BY <1>1, <2>1 DEF FreeCells
<1> QED BY <1>4, <1>7, <1>8, <1>9 DEF r

\* What is taken of a list is no longer in it, and the rest is.
TakenFrom(l, r, b) ==
    /\ Neat(r) /\ b \in Blocks /\ Cells(b) \subseteq FreeCells(l) /\ FreeCells(r) = FreeCells(l) \ Cells(b)

\* The front of a block is taken, as by getmem.
LEMMA FrontTaken ==
    ASSUME NEW l \in Seq(Blocks), Neat(l), NEW i \in 1..Len(l), NEW n \in Nat \ {0}, n <= l[i].n
    PROVE  TakenFrom(l, TakeFront(l, i, n), Blk(l[i].a, n))
<1>1. l[i] \in Blocks
  BY DEF Neat
<1>2. /\ l[i].a \in Nat /\ l[i].n \in Nat /\ l[i] = Blk(l[i].a, l[i].n)
      /\ \A c \in Nat : c \in Cells(l[i]) <=> l[i].a <= c /\ c < l[i].a + l[i].n
  BY <1>1, CellsFacts
<1>3. \A c \in Cells(l[i]) : c \in FreeCells(l)
  <2>1. Cells(l[i]) \in SUBSET Nat
    BY <1>1, CellsFacts
  <2> QED BY <2>1 DEF FreeCells
<1> PICK a \in Nat, m \in Nat : a = l[i].a /\ m = l[i].n
  BY <1>2
<1> DEFINE b == Blk(a, n)
<1>4. b \in Blocks /\ \A c \in Nat : c \in Cells(b) <=> a <= c /\ c < a + n
  BY BlkFacts
<1>5. Cells(b) \in SUBSET Nat
  BY <1>4, CellsFacts
<1>6. Cells(b) \subseteq Cells(l[i])
  BY <1>2, <1>4, <1>5
<1>7. CASE n = m
  <2>1. TakeFront(l, i, n) = RemoveAt(l, i) /\ b = l[i]
    BY <1>2, <1>7 DEF TakeFront
  <2> QED BY <1>3, <1>4, <2>1, DropBlock DEF TakenFrom
<1>8. CASE n # m
  <2> DEFINE d == Blk(a + n, m - n)
  <2>1. TakeFront(l, i, n) = [l EXCEPT ![i] = d]
    BY <1>8 DEF TakeFront
  <2>2. d \in Blocks /\ d.a = a + n /\ d.n = m - n /\ \A c \in Nat : c \in Cells(d) <=> a + n <= c /\ c < (a + n) + (m - n)
    <3> PICK x \in Nat, y \in Nat : x = a + n /\ y = m - n /\ y > 0
      BY <1>8
    <3> QED BY BlkFacts
  <2>3. Cells(d) \in SUBSET Nat
    BY <2>2, CellsFacts
  <2> HIDE DEF d, b
  <2>4. Neat([l EXCEPT ![i] = d]) /\ FreeCells([l EXCEPT ![i] = d]) = (FreeCells(l) \ Cells(l[i])) \cup Cells(d)
    <3>1. l[i].a <= d.a /\ d.a + d.n <= l[i].a + l[i].n
      BY <2>2
    <3> QED BY <2>2, <3>1, ShrinkBlock
  <2>5. FreeCells(l) \in SUBSET Nat
    BY DEF FreeCells
  <2>6. \A c \in Nat : c \in Cells(l[i]) <=> c \in Cells(b) \/ c \in Cells(d)
    BY <1>2, <1>4, <2>2, SMTT(30)
  <2>7. \A c \in Nat : ~(c \in Cells(b) /\ c \in Cells(d))
    BY <1>4, <2>2
  <2>8. (FreeCells(l) \ Cells(l[i])) \cup Cells(d) = FreeCells(l) \ Cells(b)
    BY <1>3, <1>5, <2>3, <2>5, <2>6, <2>7
  <2>9. TakenFrom(l, TakeFront(l, i, n), b)
    BY <1>3, <1>4, <1>6, <2>1, <2>4, <2>8 DEF TakenFrom
  <2> QED BY <2>9 DEF b
<1> QED BY <1>7, <1>8

\* The end of a block is taken, as by getstk.
LEMMA EndTaken ==
    ASSUME NEW l \in Seq(Blocks), Neat(l), NEW i \in 1..Len(l), NEW n \in Nat \ {0}, n <= l[i].n
    PROVE  TakenFrom(l, IF l[i].n = n THEN RemoveAt(l, i) ELSE [l EXCEPT ![i] = Blk(l[i].a, l[i].n - n)],
                     Blk(l[i].a + l[i].n - n, n))
<1>1. l[i] \in Blocks
  BY DEF Neat
<1>2. /\ l[i].a \in Nat /\ l[i].n \in Nat /\ l[i] = Blk(l[i].a, l[i].n)
      /\ \A c \in Nat : c \in Cells(l[i]) <=> l[i].a <= c /\ c < l[i].a + l[i].n
  BY <1>1, CellsFacts
<1>3. \A c \in Cells(l[i]) : c \in FreeCells(l)
  <2>1. Cells(l[i]) \in SUBSET Nat
    BY <1>1, CellsFacts
  <2> QED BY <2>1 DEF FreeCells
<1> PICK a \in Nat, m \in Nat : a = l[i].a /\ m = l[i].n
  BY <1>2
<1>0. n <= m
  OBVIOUS
<1> PICK e \in Nat : e = a + m - n /\ e + n = a + m /\ a <= e /\ e = a + (m - n)
  <2>1. a + m - n \in Nat /\ (a + m - n) + n = a + m /\ a <= a + m - n /\ a + m - n = a + (m - n)
    BY <1>0
  <2> QED BY <2>1
<1> DEFINE b == Blk(e, n)
<1>4. b \in Blocks /\ \A c \in Nat : c \in Cells(b) <=> e <= c /\ c < e + n
  <2> PICK y \in Nat : y = n /\ y > 0
    OBVIOUS
  <2>1. Blk(e, y) \in Blocks /\ \A c \in Nat : c \in Cells(Blk(e, y)) <=> e <= c /\ c < e + y
    BY BlkFacts
  <2> QED BY <2>1
<1>5. Cells(b) \in SUBSET Nat
  BY <1>4, CellsFacts
<1>6. Cells(b) \subseteq Cells(l[i])
  <2> SUFFICES ASSUME NEW c \in Cells(b) PROVE c \in Cells(l[i])
    OBVIOUS
  <2>1. c \in Nat /\ e <= c /\ c < e + n
    BY <1>4, <1>5
  <2>2. a <= c /\ c < a + m
    BY <2>1
  <2> QED BY <1>2, <2>1, <2>2
<1>7. CASE n = m
  <2>1. b = l[i]
    BY <1>2, <1>7
  <2> QED BY <1>3, <1>4, <1>7, <2>1, DropBlock DEF TakenFrom
<1>8. CASE n # m
  <2> DEFINE d == Blk(a, m - n)
  <2>2. d \in Blocks /\ d.a = a /\ d.n = m - n /\ \A c \in Nat : c \in Cells(d) <=> a <= c /\ c < a + (m - n)
    <3> PICK y \in Nat : y = m - n /\ y > 0
      BY <1>8
    <3> QED BY BlkFacts, ZenonT(30)
  <2>3. Cells(d) \in SUBSET Nat
    BY <2>2, CellsFacts
  <2> HIDE DEF d, b
  <2>4. Neat([l EXCEPT ![i] = d]) /\ FreeCells([l EXCEPT ![i] = d]) = (FreeCells(l) \ Cells(l[i])) \cup Cells(d)
    <3>1. l[i].a <= d.a /\ d.a + d.n <= l[i].a + l[i].n
      BY <2>2, SMTT(30)
    <3> QED BY <2>2, <3>1, ShrinkBlock
  <2>5. FreeCells(l) \in SUBSET Nat
    BY DEF FreeCells
  <2>6. \A c \in Nat : c \in Cells(l[i]) <=> c \in Cells(b) \/ c \in Cells(d)
    <3> TAKE c \in Nat
    <3>0. {a, m, n, e, c} \subseteq Nat /\ e + n = a + m /\ e = a + (m - n) /\ n <= m
      BY <1>0
    <3>1. (a <= c /\ c < a + m) <=> (e <= c /\ c < e + n) \/ (a <= c /\ c < a + (m - n))
      BY ONLY <3>0
    <3> QED BY <1>2, <1>4, <2>2, <3>1
  <2>7. \A c \in Nat : ~(c \in Cells(b) /\ c \in Cells(d))
    BY <1>4, <2>2
  <2>8. (FreeCells(l) \ Cells(l[i])) \cup Cells(d) = FreeCells(l) \ Cells(b)
    BY <1>3, <1>5, <2>3, <2>5, <2>6, <2>7
  <2>9. TakenFrom(l, [l EXCEPT ![i] = d], b)
    BY <1>3, <1>4, <1>6, <2>4, <2>8 DEF TakenFrom
  <2> QED BY <1>8, <2>9 DEF b, d
<1> QED BY <1>7, <1>8

\* A nonempty set of naturals up to m has a largest element.
LEMMA GreatestIn ==
    ASSUME NEW m \in Nat, NEW S \in SUBSET (0..m), S # {}
    PROVE  Max(S) \in S /\ \A x \in S : x <= Max(S)
<1> DEFINE R == {ss \in Nat \X Nat : ss[1] < ss[2]}
           T == {m - x : x \in S}
<1>1. IsWellFoundedOn(R, Nat)
  BY NatLessThanWellFounded, Zenon DEF OpToRel
<1>2. T \in SUBSET Nat /\ T # {}
  <2>1. \A x \in S : m - x \in Nat
    OBVIOUS
  <2>2. PICK x : x \in S
    OBVIOUS
  <2>3. m - x \in T
    BY <2>2
  <2> QED BY <2>1, <2>3
<1>3. PICK t \in T : \A u \in T : ~(<<u, t>> \in R)
  <2> HIDE DEF R, T
  <2> QED BY <1>1, <1>2, WFMin
<1>4. PICK x \in S : t = m - x
  BY <1>3
<1>5. ASSUME NEW y \in S PROVE x >= y
  <2> PICK u \in T : u = m - y
    OBVIOUS
  <2>1. u \in Nat /\ t \in Nat /\ <<u, t>> \in Nat \X Nat
    BY <1>2
  <2>2. u < t => <<u, t>>[1] < <<u, t>>[2]
    BY <2>1
  <2>3. u < t => <<u, t>> \in R
    BY <2>1, <2>2, Zenon
  <2>4. ~(u < t)
    BY <1>3, <2>3
  <2> QED BY <1>4, <2>1, <2>4
<1>6. Max(S) \in S /\ \A y \in S : Max(S) >= y
  BY <1>5 DEF Max
<1> QED BY <1>6

\* A nonempty set of naturals has a smallest element.
LEMMA LeastIn ==
    ASSUME NEW S \in SUBSET Nat, S # {}
    PROVE  Min(S) \in S
<1> DEFINE R == {ss \in Nat \X Nat : ss[1] < ss[2]}
<1>1. IsWellFoundedOn(R, Nat)
  BY NatLessThanWellFounded, Zenon DEF OpToRel
<1>2. PICK t \in S : \A u \in S : ~(<<u, t>> \in R)
  <2> HIDE DEF R
  <2> QED BY <1>1, WFMin
<1>3. ASSUME NEW u \in S PROVE t =< u
  <2>1. u \in Nat /\ t \in Nat /\ <<u, t>> \in Nat \X Nat
    OBVIOUS
  <2>2. u < t => <<u, t>>[1] < <<u, t>>[2]
    BY <2>1
  <2>3. u < t => <<u, t>> \in R
    BY <2>1, <2>2, Zenon
  <2>4. ~(u < t)
    BY <1>2, <2>3
  <2> QED BY <2>1, <2>4
<1> QED BY <1>3 DEF Min

\* A set of naturals that holds everything below its members counts its largest one.
LEMMA PrefixCount ==
    ASSUME NEW m \in Nat, NEW S \in SUBSET (1..m), \A x \in S : \A y \in 1..m : y <= x => y \in S
    PROVE  Cardinality(S) \in 0..m /\ \A x \in 1..m : x \in S <=> x <= Cardinality(S)
<1>1. CASE S = {}
  <2>1. Cardinality(S) = 0
    BY <1>1, FS_EmptySet
  <2> QED BY <1>1, <2>1
<1>2. CASE S # {}
  <2>1. S \in SUBSET (0..m)
    OBVIOUS
  <2>2. Max(S) \in S /\ \A x \in S : x <= Max(S)
    BY <1>2, <2>1, GreatestIn
  <2> PICK z \in 1..m : z = Max(S)
    BY <2>2
  <2>3. \A x \in 1..m : x \in S <=> x <= z
    BY <2>2
  <2>4. S = 1..z
    <3>1. \A x \in 1..z : x \in 1..m /\ x <= z
      OBVIOUS
    <3>2. \A x \in S : x \in 1..m /\ x \in 1..z
      BY <2>3
    <3> QED BY <2>3, <3>1, <3>2
  <2>5. 1 \in Int /\ z \in Int
    OBVIOUS
  <2>6. Cardinality(1..z) = IF 1 > z THEN 0 ELSE z - 1 + 1
    BY <2>5, FS_Interval
  <2>7. Cardinality(S) = z
    BY <2>4, <2>6
  <2> QED BY <2>3, <2>7
<1> QED BY <1>1, <1>2

\* The blocks of a list below address x are the first ones.
LEMMA PlaceFacts ==
    ASSUME NEW l \in Seq(Blocks), Neat(l), NEW x \in Nat
    PROVE  LET k == Cardinality({j \in DOMAIN l : l[j].a < x})
           IN  k \in 0..Len(l) /\ \A j \in 1..Len(l) : l[j].a < x <=> j <= k
<1> DEFINE S == {j \in DOMAIN l : l[j].a < x}
<1>1. DOMAIN l = 1..Len(l) /\ Len(l) \in Nat
  OBVIOUS
<1>2. S \in SUBSET (1..Len(l)) /\ \A j \in 1..Len(l) : j \in S <=> l[j].a < x
  BY <1>1
<1>3. ASSUME NEW j \in S, NEW i \in 1..Len(l), i <= j PROVE i \in S
  <2>1. CASE i = j
    BY <2>1
  <2>2. CASE i # j
    <3>1. i < j /\ j \in 1..Len(l)
      BY <1>2, <1>3, <2>2
    <3>2. l[i].a + l[i].n < l[j].a /\ l[j].a < x
      BY <1>2, <3>1 DEF Neat
    <3>3. l[i] \in Blocks /\ l[j] \in Blocks
      OBVIOUS
    <3>4. l[i].a \in Nat /\ l[i].n \in Nat /\ l[j].a \in Nat /\ x \in Nat
      BY <3>3, CellsFacts
    <3>5. l[i].a < x
      BY ONLY <3>2, <3>4
    <3> QED BY <1>2, <3>5
  <2> QED BY <2>1, <2>2
<1> HIDE DEF S
<1>4. Cardinality(S) \in 0..Len(l) /\ \A j \in 1..Len(l) : j \in S <=> j <= Cardinality(S)
  BY <1>1, <1>2, <1>3, PrefixCount
<1>5. \A j \in 1..Len(l) : l[j].a < x <=> j <= Cardinality(S)
  BY <1>2, <1>4
<1> QED BY <1>4, <1>5 DEF S

\* Block b belongs between the blocks k and k + 1 of a list.
Belongs(l, k, b) == k \in 0..Len(l) /\ \A j \in 1..Len(l) : l[j].a < b.a <=> j <= k

\* If the test of freemem finds no overlap with its neighbours there is none at all.
LEMMA NoOverlap ==
    ASSUME NEW l \in Seq(Blocks), Neat(l), NEW b \in Blocks, NEW k, Belongs(l, k, b), ~Overlaps(l, k, b)
    PROVE  \A j \in 1..Len(l) : /\ j <= k => l[j].a + l[j].n <= b.a
                                /\ j < k => l[j].a + l[j].n < b.a
                                /\ k < j => b.a + b.n <= l[j].a
                                /\ k + 1 < j => b.a + b.n < l[j].a
<1> TAKE j \in 1..Len(l)
<1>1. \A i \in 1..Len(l) : l[i] \in Blocks /\ l[i].a \in Nat /\ l[i].n \in Nat /\ l[i].n > 0
  BY CellsFacts
<1>2. b.a \in Nat /\ b.n \in Nat /\ b.n > 0
  BY CellsFacts
<1>3. k \in 0..Len(l) /\ Len(l) \in Nat
  BY DEF Belongs
<1>4. k > 0 => l[k].a + l[k].n <= b.a
  <2> SUFFICES ASSUME k > 0 PROVE l[k].a + l[k].n <= b.a
    OBVIOUS
  <2>1. ~(b.a < l[k].a + l[k].n) /\ l[k].a \in Nat /\ l[k].n \in Nat
    BY <1>1, <1>3 DEF Overlaps
  <2> QED BY ONLY <1>2, <2>1
<1>5. k < Len(l) => b.a + b.n <= l[k + 1].a
  <2> SUFFICES ASSUME k < Len(l) PROVE b.a + b.n <= l[k + 1].a
    OBVIOUS
  <2>1. ~(b.a + b.n > l[k + 1].a) /\ l[k + 1].a \in Nat
    BY <1>1, <1>3 DEF Overlaps
  <2> QED BY ONLY <1>2, <2>1
<1>6. \A x, y \in 1..Len(l) : x < y => l[x].a + l[x].n < l[y].a
  BY DEF Neat
<1>7. CASE j = k
  <2>1. l[j].a + l[j].n <= b.a
    BY <1>3, <1>4, <1>7
  <2> QED BY <1>3, <1>7, <2>1
<1>8. CASE j < k
  <2>1. k \in 1..Len(l) /\ k > 0
    BY <1>3, <1>8
  <2>2. l[j].a + l[j].n < l[k].a /\ l[k].a + l[k].n <= b.a
    BY <1>4, <1>6, <1>8, <2>1
  <2>3. l[j].a \in Nat /\ l[j].n \in Nat /\ l[k].a \in Nat /\ l[k].n \in Nat
    BY <1>1, <2>1
  <2> PICK aj \in Nat, nj \in Nat, ak \in Nat, nk \in Nat, ba \in Nat :
             aj = l[j].a /\ nj = l[j].n /\ ak = l[k].a /\ nk = l[k].n /\ ba = b.a
    BY <1>2, <2>3
  <2>5. {aj, nj, ak, nk, ba} \subseteq Nat /\ aj + nj < ak /\ ak + nk <= ba
    BY <2>2
  <2>6. aj + nj < ba /\ aj + nj <= ba
    BY ONLY <2>5
  <2>4. l[j].a + l[j].n < b.a /\ l[j].a + l[j].n <= b.a
    BY <2>6
  <2> QED BY <1>3, <1>8, <2>4
<1>9. CASE j = k + 1
  <2>1. b.a + b.n <= l[j].a
    BY <1>3, <1>5, <1>9
  <2> QED BY <1>3, <1>9, <2>1
<1>10. CASE j > k + 1
  <2> PICK m \in 1..Len(l) : m = k + 1
    BY <1>3, <1>10
  <2>1. l[m].a + l[m].n < l[j].a /\ b.a + b.n <= l[m].a
    BY <1>3, <1>5, <1>6, <1>10
  <2>2. l[j].a \in Nat /\ l[m].a \in Nat /\ l[m].n \in Nat
    BY <1>1
  <2>3. b.a + b.n < l[j].a /\ b.a + b.n <= l[j].a
    BY ONLY <1>2, <2>1, <2>2
  <2> QED BY <1>3, <1>10, <2>3
<1> QED BY <1>3, <1>7, <1>8, <1>9, <1>10

\* A list in which only block j may touch the next one.
Joinable(r, j) ==
    /\ r \in Seq(Blocks) /\ j \in 1..Len(r)
    /\ \A x, y \in 1..Len(r) : x < y => IF x = j /\ y = j + 1 THEN r[x].a + r[x].n <= r[y].a
                                                              ELSE r[x].a + r[x].n < r[y].a

\* freemem joins a block with the one before it if they touch.
LEMMA JoinedBefore ==
    ASSUME NEW l \in Seq(Blocks), Neat(l), NEW b \in Blocks, NEW k, Belongs(l, k, b), ~Overlaps(l, k, b),
           k > 0, l[k].a + l[k].n = b.a
    PROVE  LET r == [l EXCEPT ![k] = Blk(l[k].a, l[k].n + b.n)]
           IN  Len(r) = Len(l) /\ Joinable(r, k) /\ FreeCells(r) = FreeCells(l) \cup Cells(b)
<1>1. k \in 1..Len(l)
  BY DEF Belongs
<1>2. /\ b.a \in Nat /\ b.n \in Nat /\ b.n > 0 /\ Cells(b) \in SUBSET Nat
      /\ \A c \in Nat : c \in Cells(b) <=> b.a <= c /\ c < b.a + b.n
  BY CellsFacts
<1>3. \A j \in 1..Len(l) : l[j] \in Blocks
  OBVIOUS
<1>4. \A j \in 1..Len(l) : /\ l[j].a \in Nat /\ l[j].n \in Nat /\ l[j].n > 0 /\ Cells(l[j]) \in SUBSET Nat
                           /\ \A c \in Nat : c \in Cells(l[j]) <=> l[j].a <= c /\ c < l[j].a + l[j].n
  BY <1>3, CellsFacts
<1> PICK ak \in Nat, nk \in Nat, ba \in Nat, bn \in Nat : ak = l[k].a /\ nk = l[k].n /\ ba = b.a /\ bn = b.n
  BY <1>1, <1>2, <1>4
<1> PICK m \in Nat : m = nk + bn
  OBVIOUS
<1>5. {ak, nk, ba, bn, m} \subseteq Nat /\ nk > 0 /\ bn > 0 /\ m > 0 /\ ak + nk = ba /\ ak + m = ba + bn
  <2>1. {ak, nk, ba, bn, m} \subseteq Nat /\ nk > 0 /\ bn > 0 /\ ak + nk = ba /\ m = nk + bn
    BY <1>1, <1>2, <1>4
  <2>2. m > 0 /\ ak + m = ba + bn
    BY ONLY <2>1
  <2> QED BY <2>1, <2>2
<1> DEFINE d == Blk(ak, m)
           r == [l EXCEPT ![k] = d]
<1>6. d \in Blocks /\ d.a = ak /\ d.n = m /\ \A c \in Nat : c \in Cells(d) <=> ak <= c /\ c < ak + m
  <2>1. /\ Blk(ak, m).a = ak /\ Blk(ak, m).n = m /\ (m > 0 => Blk(ak, m) \in Blocks)
        /\ \A c \in Nat : c \in Cells(Blk(ak, m)) <=> ak <= c /\ c < ak + m
    <3>1. ak \in Nat /\ m \in Nat
      OBVIOUS
    <3> QED BY ONLY <3>1, BlkFacts
  <2> QED BY <1>5, <2>1
<1>7. Cells(d) \in SUBSET Nat
  BY <1>6, CellsFacts
<1> HIDE DEF d
<1>8. r \in Seq(Blocks) /\ Len(r) = Len(l) /\ r[k] = d /\ \A j \in 1..Len(l) : j # k => r[j] = l[j]
  BY <1>1, <1>6
<1> HIDE DEF r
<1>9. \A j \in 1..Len(l) : (k < j => ba + bn <= l[j].a) /\ (k + 1 < j => ba + bn < l[j].a)
  BY NoOverlap
<1>10. \A x, y \in 1..Len(l) : x < y => l[x].a + l[x].n < l[y].a
  BY DEF Neat
<1>11. ASSUME NEW x \in 1..Len(r), NEW y \in 1..Len(r), x < y
       PROVE  IF x = k /\ y = k + 1 THEN r[x].a + r[x].n <= r[y].a ELSE r[x].a + r[x].n < r[y].a
  <2>0. x \in 1..Len(l) /\ y \in 1..Len(l) /\ x # y
    BY <1>8, <1>11
  <2>1. CASE x = k
    <3>1. r[x].a + r[x].n = ba + bn /\ r[y] = l[y]
      BY <1>5, <1>6, <1>8, <2>0, <2>1
    <3>2. ba + bn <= l[y].a /\ (y # k + 1 => ba + bn < l[y].a)
      BY <1>1, <1>9, <1>11, <2>0, <2>1
    <3> QED BY <2>1, <3>1, <3>2
  <2>2. CASE y = k
    <3>1. r[y].a = l[k].a /\ r[x] = l[x]
      BY <1>6, <1>8, <2>0, <2>2
    <3>2. l[x].a + l[x].n < l[k].a
      BY <1>10, <1>11, <2>0, <2>2
    <3> QED BY <2>0, <2>2, <3>1, <3>2
  <2>3. CASE x # k /\ y # k
    BY <1>8, <1>10, <1>11, <2>0, <2>3
  <2> QED BY <2>1, <2>2, <2>3
<1>12. Joinable(r, k)
  BY <1>1, <1>8, <1>11 DEF Joinable
<1>13. \A c \in Nat : c \in Cells(d) <=> c \in Cells(l[k]) \/ c \in Cells(b)
  <2> TAKE c \in Nat
  <2>1. (ak <= c /\ c < ak + m) <=> (ak <= c /\ c < ak + nk) \/ (ba <= c /\ c < ba + bn)
    <3>1. c \in Nat
      OBVIOUS
    <3> QED BY ONLY <1>5, <3>1
  <2> QED BY <1>1, <1>2, <1>4, <1>6, <2>1
<1>14. ASSUME NEW c \in FreeCells(r) PROVE c \in FreeCells(l) \cup Cells(b)
  <2> PICK j \in 1..Len(l) : c \in Cells(r[j])
    BY <1>8 DEF FreeCells
  <2>0. c \in Nat
    BY DEF FreeCells
  <2>1. c \in Cells(l[j]) \/ c \in Cells(b)
    BY <1>8, <1>13, <2>0
  <2> QED BY <2>0, <2>1 DEF FreeCells
<1>15. ASSUME NEW c \in FreeCells(l) \cup Cells(b) PROVE c \in FreeCells(r)
  <2>0. c \in Nat
    BY <1>2 DEF FreeCells
  <2>1. CASE c \in Cells(d)
    BY <1>1, <1>8, <2>0, <2>1 DEF FreeCells
  <2>2. CASE c \notin Cells(d)
    <3> PICK j \in 1..Len(l) : c \in Cells(l[j])
      BY <1>13, <2>0, <2>2 DEF FreeCells
    <3>1. j # k
      BY <1>13, <2>0, <2>2
    <3> QED BY <1>8, <2>0, <3>1 DEF FreeCells
  <2> QED BY <2>1, <2>2
<1> QED BY <1>8, <1>12, <1>14, <1>15 DEF r, d

\* Otherwise the block goes between the two.
LEMMA JoinedApart ==
    ASSUME NEW l \in Seq(Blocks), Neat(l), NEW b \in Blocks, NEW k, Belongs(l, k, b), ~Overlaps(l, k, b),
           ~(k > 0 /\ l[k].a + l[k].n = b.a)
    PROVE  LET r == InsertAt(l, k + 1, b)
           IN  Len(r) = Len(l) + 1 /\ Joinable(r, k + 1) /\ FreeCells(r) = FreeCells(l) \cup Cells(b)
<1>0. k \in 0..Len(l) /\ Len(l) \in Nat
  BY DEF Belongs
<1> PICK i \in 1..Len(l) + 1 : i = k + 1
  BY <1>0
<1> DEFINE r == InsertAt(l, i, b)
<1>1. /\ r \in Seq(Blocks) /\ Len(r) = Len(l) + 1
      /\ \A j \in 1..Len(l) + 1 : r[j] = IF j < i THEN l[j] ELSE IF j = i THEN b ELSE l[j - 1]
  BY InsertFacts
<1> HIDE DEF r
<1>2. b.a \in Nat /\ b.n \in Nat /\ b.n > 0 /\ Cells(b) \in SUBSET Nat
  BY CellsFacts
<1>3. \A j \in 1..Len(l) : l[j] \in Blocks /\ l[j].a \in Nat /\ l[j].n \in Nat
  BY CellsFacts
<1>4. \A j \in 1..Len(l) : /\ j <= k => l[j].a + l[j].n <= b.a
                           /\ j < k => l[j].a + l[j].n < b.a
                           /\ k < j => b.a + b.n <= l[j].a
                           /\ k + 1 < j => b.a + b.n < l[j].a
  BY NoOverlap
<1>5. \A j \in 1..Len(l) : j < i => l[j].a + l[j].n < b.a
  <2> SUFFICES ASSUME NEW j \in 1..Len(l), j < i PROVE l[j].a + l[j].n < b.a
    OBVIOUS
  <2>1. CASE j < k
    BY <1>4, <2>1
  <2>2. CASE j = k
    <3>1. l[j].a + l[j].n <= b.a /\ l[j].a + l[j].n # b.a /\ l[j].a \in Nat /\ l[j].n \in Nat
      BY <1>0, <1>3, <1>4, <2>2
    <3> PICK e \in Nat, f \in Nat : e = l[j].a + l[j].n /\ f = b.a
      BY <1>2, <3>1
    <3>2. e <= f /\ e # f
      BY <3>1
    <3> QED BY <3>2
  <2> QED BY <1>0, <2>1, <2>2
<1>6. \A x, y \in 1..Len(l) : x < y => l[x].a + l[x].n < l[y].a
  BY DEF Neat
<1>7. ASSUME NEW x \in 1..Len(r), NEW y \in 1..Len(r), x < y
      PROVE  IF x = i /\ y = i + 1 THEN r[x].a + r[x].n <= r[y].a ELSE r[x].a + r[x].n < r[y].a
  <2>0. x \in 1..Len(l) + 1 /\ y \in 1..Len(l) + 1 /\ x # y
    BY <1>1, <1>7
  <2>1. CASE x = i
    <3> PICK z \in 1..Len(l) : z = y - 1
      BY <1>7, <2>0, <2>1
    <3>1. r[x] = b /\ r[y] = l[z] /\ k < z /\ (y # i + 1 => k + 1 < z)
      BY <1>0, <1>1, <1>7, <2>0, <2>1
    <3> QED BY <1>4, <2>1, <3>1
  <2>2. CASE y = i
    <3>1. x \in 1..Len(l) /\ r[y] = b /\ r[x] = l[x] /\ x < i
      BY <1>0, <1>1, <1>7, <2>0, <2>2
    <3> QED BY <1>5, <2>0, <2>2, <3>1
  <2>3. CASE x # i /\ y # i
    <3> PICK u \in 1..Len(l) : u = IF x < i THEN x ELSE x - 1
      BY <1>0, <2>0, <2>3
    <3> PICK v \in 1..Len(l) : v = IF y < i THEN y ELSE y - 1
      BY <1>0, <2>0, <2>3
    <3>1. r[x] = l[u] /\ r[y] = l[v] /\ u < v
      BY <1>0, <1>1, <1>7, <2>0, <2>3
    <3> QED BY <1>6, <2>3, <3>1
  <2> QED BY <2>1, <2>2, <2>3
<1>8. Joinable(r, i)
  BY <1>1, <1>7 DEF Joinable
<1>9. ASSUME NEW c \in FreeCells(r) PROVE c \in FreeCells(l) \cup Cells(b)
  <2> PICK j \in 1..Len(l) + 1 : c \in Cells(r[j])
    BY <1>1 DEF FreeCells
  <2>0. c \in Nat
    BY DEF FreeCells
  <2>1. CASE j = i
    BY <1>1, <2>1
  <2>2. CASE j # i
    <3> PICK u \in 1..Len(l) : u = IF j < i THEN j ELSE j - 1
      BY <1>0, <2>2
    <3>1. r[j] = l[u]
      BY <1>1, <2>2
    <3> QED BY <2>0, <3>1 DEF FreeCells
  <2> QED BY <2>1, <2>2
<1>10. ASSUME NEW c \in FreeCells(l) PROVE c \in FreeCells(r)
  <2> PICK j \in 1..Len(l) : c \in Cells(l[j])
    BY DEF FreeCells
  <2> PICK u \in 1..Len(r) : u = IF j < i THEN j ELSE j + 1
    BY <1>0, <1>1
  <2>1. r[u] = l[j]
    BY <1>0, <1>1
  <2> QED BY <2>1 DEF FreeCells
<1>11. ASSUME NEW c \in Cells(b) PROVE c \in FreeCells(r)
  <2>1. i \in 1..Len(r) /\ r[i] = b
    BY <1>1
  <2> QED BY <1>2, <2>1 DEF FreeCells
<1> QED BY <1>1, <1>8, <1>9, <1>10, <1>11 DEF r

\* The second join: block j and the next one become one block if they touch.
LEMMA JoinedNext ==
    ASSUME NEW r \in Seq(Blocks), NEW j, Joinable(r, j)
    PROVE  LET t == IF j < Len(r) /\ r[j].a + r[j].n = r[j + 1].a
                    THEN RemoveAt([r EXCEPT ![j] = Blk(r[j].a, r[j].n + r[j + 1].n)], j + 1) ELSE r
           IN  Neat(t) /\ FreeCells(t) = FreeCells(r)
<1>1. j \in 1..Len(r) /\ Len(r) \in Nat
  BY DEF Joinable
<1>2. \A x, y \in 1..Len(r) : x < y => IF x = j /\ y = j + 1 THEN r[x].a + r[x].n <= r[y].a
                                                             ELSE r[x].a + r[x].n < r[y].a
  BY DEF Joinable
<1>3. \A x \in 1..Len(r) : r[x] \in Blocks
  OBVIOUS
<1>4. \A x \in 1..Len(r) : /\ r[x].a \in Nat /\ r[x].n \in Nat /\ r[x].n > 0 /\ Cells(r[x]) \in SUBSET Nat
                           /\ \A c \in Nat : c \in Cells(r[x]) <=> r[x].a <= c /\ c < r[x].a + r[x].n
  BY <1>3, CellsFacts
<1>5. CASE ~(j < Len(r) /\ r[j].a + r[j].n = r[j + 1].a)
  <2>1. ASSUME NEW x \in 1..Len(r), NEW y \in 1..Len(r), x < y PROVE r[x].a + r[x].n < r[y].a
    <3>1. CASE x = j /\ y = j + 1
      <4>1. r[x].a + r[x].n <= r[y].a /\ r[x].a + r[x].n # r[y].a
        BY <1>1, <1>2, <1>5, <2>1, <3>1
      <4> PICK e \in Nat, f \in Nat : e = r[x].a + r[x].n /\ f = r[y].a
        <5>1. r[x].a \in Nat /\ r[x].n \in Nat /\ r[y].a \in Nat
          BY <1>4
        <5>2. r[x].a + r[x].n \in Nat
          BY ONLY <5>1
        <5> QED BY <5>1, <5>2
      <4>2. e <= f /\ e # f
        BY <4>1
      <4>3. e < f
        BY <4>2
      <4> QED BY <4>3
    <3>2. CASE ~(x = j /\ y = j + 1)
      BY <1>2, <2>1, <3>2
    <3> QED BY <3>1, <3>2
  <2>2. Neat(r)
    BY <2>1 DEF Neat
  <2> QED BY <1>5, <2>2
<1>6. CASE j < Len(r) /\ r[j].a + r[j].n = r[j + 1].a
  <2> PICK i \in 1..Len(r) : i = j + 1
    BY <1>1, <1>6
  <2> PICK aj \in Nat, nj \in Nat, ai \in Nat, ni \in Nat : aj = r[j].a /\ nj = r[j].n /\ ai = r[i].a /\ ni = r[i].n
    BY <1>1, <1>4
  <2> PICK m \in Nat : m = nj + ni
    OBVIOUS
  <2>1. {aj, nj, ai, ni, m} \subseteq Nat /\ nj > 0 /\ ni > 0 /\ aj + nj = ai /\ m = nj + ni
    BY <1>1, <1>4, <1>6
  <2>2. m > 0 /\ aj + m = ai + ni
    BY ONLY <2>1
  <2> DEFINE d == Blk(aj, m)
             q == [r EXCEPT ![j] = d]
             t == RemoveAt(q, i)
  <2>3. d \in Blocks /\ d.a = aj /\ d.n = m /\ \A c \in Nat : c \in Cells(d) <=> aj <= c /\ c < aj + m
    <3>1. /\ Blk(aj, m).a = aj /\ Blk(aj, m).n = m /\ (m > 0 => Blk(aj, m) \in Blocks)
          /\ \A c \in Nat : c \in Cells(Blk(aj, m)) <=> aj <= c /\ c < aj + m
      BY BlkFacts, ZenonT(30)
    <3> QED BY <2>2, <3>1
  <2> HIDE DEF d
  <2>4. q \in Seq(Blocks) /\ Len(q) = Len(r) /\ q[j] = d /\ \A x \in 1..Len(r) : x # j => q[x] = r[x]
    BY <1>1, <2>3
  <2> HIDE DEF q
  <2>5. /\ t \in Seq(Blocks) /\ Len(t) = Len(r) - 1
        /\ \A x \in 1..Len(r) - 1 : t[x] = IF x < i THEN q[x] ELSE q[x + 1]
    <3>1. i \in 1..Len(q)
      BY <2>4
    <3>2. /\ t \in Seq(Blocks) /\ Len(t) = Len(q) - 1
          /\ \A x \in 1..Len(q) - 1 : t[x] = IF x < i THEN q[x] ELSE q[x + 1]
      BY <2>4, <3>1, RemoveFacts
    <3> QED BY <2>4, <3>2
  <2> HIDE DEF t
  <2>6. t[j] = d /\ \A x \in 1..Len(r) - 1 : x # j => t[x] = IF x < j THEN r[x] ELSE r[x + 1]
    <3>1. j \in 1..Len(r) - 1 /\ j < i
      BY <1>1, <1>6
    <3>2. t[j] = d
      BY <2>4, <2>5, <3>1
    <3>3. ASSUME NEW x \in 1..Len(r) - 1, x # j PROVE t[x] = IF x < j THEN r[x] ELSE r[x + 1]
      <4>1. CASE x < j
        <5>1. x < i /\ x \in 1..Len(r)
          BY <1>1, <4>1
        <5> QED BY <2>4, <2>5, <3>3, <4>1, <5>1
      <4>2. CASE ~(x < j)
        <5> PICK y \in 1..Len(r) : y = x + 1
          BY <1>1
        <5>1. ~(x < i) /\ y # j
          BY <1>1, <3>3, <4>2
        <5>2. t[x] = q[y] /\ q[y] = r[y]
          BY <2>4, <2>5, <5>1
        <5> QED BY <4>2, <5>2
      <4> QED BY <4>1, <4>2
    <3> QED BY <3>2, <3>3
  <2>7. ASSUME NEW x \in 1..Len(t), NEW y \in 1..Len(t), x < y PROVE t[x].a + t[x].n < t[y].a
    <3>0. x \in 1..Len(r) - 1 /\ y \in 1..Len(r) - 1 /\ x # y /\ j \in 1..Len(r) - 1
      BY <1>1, <1>6, <2>5, <2>7
    <3>1. CASE x = j
      <4> PICK z \in 1..Len(r) : z = y + 1
        BY <3>0
      <4>3. i < z /\ i # j /\ y # j /\ ~(y < j)
        BY <1>1, <2>7, <3>0, <3>1
      <4>4. t[y] = r[z]
        BY <2>6, <3>0, <4>3
      <4>5. t[x].a + t[x].n = aj + m
        BY <2>3, <2>6, <3>1
      <4>1. t[x].a + t[x].n = ai + ni /\ t[y] = r[z] /\ i < z /\ i # j
        BY <2>2, <4>3, <4>4, <4>5
      <4>2. r[i].a + r[i].n < r[z].a
        BY <1>2, <4>1
      <4> QED BY <4>1, <4>2
    <3>2. CASE y = j
      <4>1. x \in 1..Len(r) /\ t[y].a = r[j].a /\ t[x] = r[x] /\ x < j /\ x # j
        BY <1>1, <2>3, <2>6, <2>7, <3>0, <3>2, SMTT(30)
      <4>2. r[x].a + r[x].n < r[j].a
        BY <1>1, <1>2, <4>1
      <4> QED BY <4>1, <4>2
    <3>3. CASE x # j /\ y # j
      <4>0. Len(r) \in Nat /\ x \in 1..Len(r) - 1 /\ y \in 1..Len(r) - 1
        BY <3>0
      <4> PICK u \in 1..Len(r) : u = IF x < j THEN x ELSE x + 1
        <5>1. (IF x < j THEN x ELSE x + 1) \in 1..Len(r)
          BY ONLY <4>0
        <5> QED BY ONLY <5>1
      <4> PICK v \in 1..Len(r) : v = IF y < j THEN y ELSE y + 1
        <5>1. (IF y < j THEN y ELSE y + 1) \in 1..Len(r)
          BY ONLY <4>0
        <5> QED BY ONLY <5>1
      <4>2. t[x] = r[u]
        BY <2>6, <3>0, <3>3
      <4>3. t[y] = r[v]
        BY <2>6, <3>0, <3>3
      <4>4. u < v /\ u # j
        <5>1. x \in Int /\ y \in Int /\ j \in Int /\ x < y /\ x # j
          BY <1>1, <2>7, <3>0, <3>3
        <5>2. u = (IF x < j THEN x ELSE x + 1) /\ v = (IF y < j THEN y ELSE y + 1)
          OBVIOUS
        <5> QED BY ONLY <5>1, <5>2
      <4>1. t[x] = r[u] /\ t[y] = r[v] /\ u < v /\ u # j
        BY <4>2, <4>3, <4>4
      <4> QED BY <1>2, <4>1
    <3> QED BY <3>1, <3>2, <3>3
  <2>8. Neat(t)
    BY <2>5, <2>7 DEF Neat
  <2>9. \A c \in Nat : c \in Cells(d) <=> c \in Cells(r[j]) \/ c \in Cells(r[i])
    <3> TAKE c \in Nat
    <3>1. (aj <= c /\ c < aj + m) <=> (aj <= c /\ c < aj + nj) \/ (ai <= c /\ c < ai + ni)
      <4>1. c \in Nat
        OBVIOUS
      <4> QED BY ONLY <2>1, <2>2, <4>1
    <3> QED BY <1>1, <1>4, <2>3, <3>1
  <2>10. ASSUME NEW c \in FreeCells(t) PROVE c \in FreeCells(r)
    <3> PICK x \in 1..Len(r) - 1 : c \in Cells(t[x])
      BY <2>5 DEF FreeCells
    <3>0. c \in Nat
      BY DEF FreeCells
    <3>1. CASE x = j
      <4>1. c \in Cells(r[j]) \/ c \in Cells(r[i])
        BY <2>6, <2>9, <3>0, <3>1
      <4> QED BY <1>1, <3>0, <4>1 DEF FreeCells
    <3>2. CASE x # j
      <4> PICK u \in 1..Len(r) : u = IF x < j THEN x ELSE x + 1
        BY <1>1, SMTT(30)
      <4>1. t[x] = r[u]
        BY <2>6, <3>2
      <4> QED BY <3>0, <4>1 DEF FreeCells
    <3> QED BY <3>1, <3>2
  <2>11. ASSUME NEW c \in FreeCells(r) PROVE c \in FreeCells(t)
    <3> PICK x \in 1..Len(r) : c \in Cells(r[x])
      BY DEF FreeCells
    <3>0. c \in Nat
      BY DEF FreeCells
    <3>1. CASE x \in {j, i}
      <4>1. c \in Cells(d)
        BY <2>9, <3>0, <3>1
      <4>2. j \in 1..Len(t)
        BY <1>1, <1>6, <2>5
      <4> QED BY <2>6, <3>0, <4>1, <4>2 DEF FreeCells
    <3>2. CASE x \notin {j, i}
      <4> PICK u \in 1..Len(r) - 1 : u = IF x < j THEN x ELSE x - 1
        BY <1>1, <1>6, <3>2
      <4>1. t[u] = r[x] /\ u \in 1..Len(t)
        BY <1>1, <2>5, <2>6, <3>2, SMTT(30)
      <4> QED BY <3>0, <4>1 DEF FreeCells
    <3> QED BY <3>1, <3>2
  <2>12. Neat(t) /\ FreeCells(t) = FreeCells(r)
    BY <2>8, <2>10, <2>11
  <2>13. t = RemoveAt([r EXCEPT ![j] = Blk(r[j].a, r[j].n + r[j + 1].n)], j + 1)
    BY DEF t, q, d
  <2> QED BY <1>6, <2>12, <2>13
<1> QED BY <1>5, <1>6

\* freemem keeps the list in order and adds exactly the cells of the block.
LEMMA JoinedList ==
    ASSUME NEW l \in Seq(Blocks), Neat(l), NEW b \in Blocks, NEW k, Belongs(l, k, b), ~Overlaps(l, k, b)
    PROVE  Neat(JoinAfter(l, k, b)) /\ FreeCells(JoinAfter(l, k, b)) = FreeCells(l) \cup Cells(b)
<1> DEFINE r == JoinBefore(l, k, b)
           j == IF Len(r) = Len(l) THEN k ELSE k + 1
<1>1. Joinable(r, j) /\ FreeCells(r) = FreeCells(l) \cup Cells(b)
  <2>1. CASE k > 0 /\ l[k].a + l[k].n = b.a
    <3>1. r = [l EXCEPT ![k] = Blk(l[k].a, l[k].n + b.n)]
      BY <2>1 DEF JoinBefore
    <3>2. Len(r) = Len(l) /\ Joinable(r, k) /\ FreeCells(r) = FreeCells(l) \cup Cells(b)
      <4> HIDE DEF r
      <4> QED BY <2>1, <3>1, JoinedBefore, Zenon
    <3> QED BY <3>2
  <2>2. CASE ~(k > 0 /\ l[k].a + l[k].n = b.a)
    <3>1. r = InsertAt(l, k + 1, b)
      BY <2>2 DEF JoinBefore
    <3>2. Len(r) = Len(l) + 1 /\ Joinable(r, k + 1) /\ FreeCells(r) = FreeCells(l) \cup Cells(b)
      BY <2>2, <3>1, JoinedApart
    <3>3. Len(r) # Len(l)
      <4>1. Len(l) \in Nat
        OBVIOUS
      <4> QED BY <3>2, <4>1
    <3> QED BY <3>2, <3>3
  <2> QED BY <2>1, <2>2
<1>2. JoinAfter(l, k, b) = IF j < Len(r) /\ r[j].a + r[j].n = r[j + 1].a
                           THEN RemoveAt([r EXCEPT ![j] = Blk(r[j].a, r[j].n + r[j + 1].n)], j + 1) ELSE r
  BY DEF JoinAfter
<1>3. r \in Seq(Blocks)
  BY <1>1 DEF Joinable
<1> HIDE DEF r, j
<1> QED BY <1>1, <1>2, <1>3, JoinedNext

\* A heap over the region S: its free list l holds m cells in all, and the blocks of U are in use.
HeapOK(l, m, U, S) ==
    /\ Neat(l) /\ U \subseteq Blocks
    /\ \A u \in U : Cells(u) \cap FreeCells(l) = {}
    /\ \A u, v \in U : u # v => Cells(u) \cap Cells(v) = {}
    /\ \A u \in U : Cells(u) \subseteq S
    /\ FreeCells(l) \subseteq S
    /\ \A c \in S : c \in FreeCells(l) \/ \E u \in U : c \in Cells(u)
    /\ m = Cardinality(FreeCells(l))

\* The number of cells of a block.
LEMMA CellCount ==
    ASSUME NEW b \in Blocks
    PROVE  IsFiniteSet(Cells(b)) /\ Cardinality(Cells(b)) = b.n /\ b.n \in Nat
<1>1. b.a \in Nat /\ b.n \in Nat /\ b.n > 0
  BY CellsFacts
<1> PICK x \in Int, y \in Int : x = b.a /\ y = b.a + b.n - 1
  BY <1>1
<1>2. IsFiniteSet(x..y) /\ Cardinality(x..y) = IF x > y THEN 0 ELSE y - x + 1
  BY FS_Interval
<1>3. ~(x > y) /\ y - x + 1 = b.n
  BY <1>1
<1> QED BY <1>1, <1>2, <1>3 DEF Cells

\* A block that was free is in use.
LEMMA HeapTake ==
    ASSUME NEW l, NEW m, NEW U, NEW S, IsFiniteSet(S), HeapOK(l, m, U, S), NEW r, NEW b, TakenFrom(l, r, b)
    PROVE  HeapOK(r, m - b.n, U \cup {b}, S) /\ b \notin U
<1> DEFINE F == FreeCells(l)
           G == FreeCells(r)
<1>1. Neat(r) /\ b \in Blocks /\ Cells(b) \subseteq F /\ G = F \ Cells(b)
  BY DEF TakenFrom
<1>2. /\ U \subseteq Blocks
      /\ \A u \in U : Cells(u) \cap F = {}
      /\ \A u, v \in U : u # v => Cells(u) \cap Cells(v) = {}
      /\ \A u \in U : Cells(u) \subseteq S
      /\ F \subseteq S
      /\ \A c \in S : c \in F \/ \E u \in U : c \in Cells(u)
      /\ m = Cardinality(F)
  BY DEF HeapOK
<1> HIDE DEF F, G
<1>3. b \notin U
  <2>1. b.a \in Cells(b)
    BY <1>1, CellsFacts
  <2> QED BY <1>1, <1>2, <2>1
<1>4. Cardinality(G) = m - b.n
  <2>1. F \cap Cells(b) = Cells(b)
    BY <1>1
  <2>2. IsFiniteSet(F)
    BY <1>2, FS_Subset
  <2>3. Cardinality(F \ Cells(b)) = Cardinality(F) - Cardinality(F \cap Cells(b))
    BY <2>2, FS_Difference
  <2>4. Cardinality(Cells(b)) = b.n
    BY <1>1, CellCount
  <2> QED BY <1>1, <1>2, <2>1, <2>3, <2>4
<1>5. \A u \in U \cup {b} : Cells(u) \cap G = {} /\ Cells(u) \subseteq S
  BY <1>1, <1>2
<1>6. \A u, v \in U \cup {b} : u # v => Cells(u) \cap Cells(v) = {}
  BY <1>1, <1>2
<1>7. G \subseteq S /\ \A c \in S : c \in G \/ \E u \in U \cup {b} : c \in Cells(u)
  BY <1>1, <1>2
<1> QED BY <1>1, <1>2, <1>3, <1>4, <1>5, <1>6, <1>7 DEF HeapOK, G

\* A block that was in use is free.
LEMMA HeapGive ==
    ASSUME NEW l, NEW m, NEW U, NEW S, IsFiniteSet(S), HeapOK(l, m, U, S), NEW b \in U,
           NEW r, Neat(r), FreeCells(r) = FreeCells(l) \cup Cells(b)
    PROVE  HeapOK(r, m + b.n, U \ {b}, S)
<1> DEFINE F == FreeCells(l)
           G == FreeCells(r)
<1>2. /\ U \subseteq Blocks /\ b \in Blocks
      /\ \A u \in U : Cells(u) \cap F = {}
      /\ \A u, v \in U : u # v => Cells(u) \cap Cells(v) = {}
      /\ \A u \in U : Cells(u) \subseteq S
      /\ F \subseteq S
      /\ \A c \in S : c \in F \/ \E u \in U : c \in Cells(u)
      /\ m = Cardinality(F)
  BY DEF HeapOK
<1>1. G = F \cup Cells(b)
  OBVIOUS
<1> HIDE DEF F, G
<1>4. Cardinality(G) = m + b.n
  <2>1. F \cap Cells(b) = {}
    BY <1>2
  <2>2. IsFiniteSet(F) /\ IsFiniteSet(Cells(b)) /\ Cardinality(Cells(b)) = b.n /\ b.n \in Nat
    BY <1>2, FS_Subset, CellCount
  <2>3. Cardinality(F \cup Cells(b)) = Cardinality(F) + Cardinality(Cells(b)) - Cardinality(F \cap Cells(b))
    BY <2>2, FS_Union
  <2>4. Cardinality(F \cap Cells(b)) = 0 /\ Cardinality(F) \in Nat
    BY <2>1, <2>2, FS_EmptySet, FS_CardinalityType
  <2> QED BY <1>1, <1>2, <2>2, <2>3, <2>4
<1>5. \A u \in U \ {b} : Cells(u) \cap G = {} /\ Cells(u) \subseteq S
  BY <1>1, <1>2
<1>6. \A u, v \in U \ {b} : u # v => Cells(u) \cap Cells(v) = {}
  BY <1>2
<1>7. G \subseteq S /\ \A c \in S : c \in G \/ \E u \in U \ {b} : c \in Cells(u)
  BY <1>1, <1>2
<1> QED BY <1>1, <1>2, <1>4, <1>5, <1>6, <1>7 DEF HeapOK, G

-----------------------------------------------------------------------------
(* Steps of the heaps *)

USE MemoryAssumption

InUse(h) == {r.b : r \in {x \in live : x.h = h}}
Region(h) == Start(h)..(Start(h) + Size(h) - 1)
MemTypes ==
    /\ live \subseteq [h : Heaps, b : Blocks] /\ flist \in [Heaps -> Seq(Blocks)]
    /\ mlength \in [Heaps -> Int] /\ vinit \in BOOLEAN
MemInv ==
    /\ MemTypes
    /\ \A h \in Heaps : h = "k" \/ vinit => HeapOK(flist[h], mlength[h], InUse(h), Region(h))
    /\ ~vinit => InUse("v") = {}

\* The regions of the heaps are finite.
LEMMA Regions ==
    ASSUME NEW h \in Heaps
    PROVE  /\ Start(h) \in Nat /\ Size(h) \in Nat \ {0} /\ IsFiniteSet(Region(h))
           /\ \A c \in Nat : c \in Region(h) <=> Start(h) <= c /\ c < Start(h) + Size(h)
<1>1. Start(h) \in Nat /\ Size(h) \in Nat \ {0}
  BY DEF Start, Size, Heaps, MemoryAssumption
<1> PICK x \in Int, y \in Int : x = Start(h) /\ y = Start(h) + Size(h) - 1
  BY <1>1
<1>2. IsFiniteSet(x..y)
  BY FS_Interval
<1> QED BY <1>1, <1>2 DEF Region

\* A block b of heap h is taken: what remains of its free list is r.
Took(h, r, b) ==
    /\ TakenFrom(flist[h], r, b)
    /\ flist' = [flist EXCEPT ![h] = r] /\ mlength' = [mlength EXCEPT ![h] = @ - b.n]
    /\ live' = live \cup {[h |-> h, b |-> b]} /\ vinit' = vinit

\* Such a step keeps the heaps, and the block is a new one.
LEMMA TookInv ==
    ASSUME MemInv, NEW h \in Heaps, h = "k" \/ vinit, NEW r, NEW b, Took(h, r, b)
    PROVE  MemInv' /\ [h |-> h, b |-> b] \notin live
<1>1. /\ live \subseteq [h : Heaps, b : Blocks] /\ flist \in [Heaps -> Seq(Blocks)]
      /\ mlength \in [Heaps -> Int] /\ vinit \in BOOLEAN
  BY DEF MemInv, MemTypes
<1>2. /\ TakenFrom(flist[h], r, b) /\ r \in Seq(Blocks) /\ b \in Blocks
      /\ flist' = [flist EXCEPT ![h] = r] /\ mlength' = [mlength EXCEPT ![h] = @ - b.n]
      /\ live' = live \cup {[h |-> h, b |-> b]} /\ vinit' = vinit
  BY DEF Took, TakenFrom, Neat
<1>3. HeapOK(flist[h], mlength[h], InUse(h), Region(h)) /\ IsFiniteSet(Region(h))
  BY Regions DEF MemInv
<1>4. HeapOK(r, mlength[h] - b.n, InUse(h) \cup {b}, Region(h)) /\ b \notin InUse(h)
  BY <1>2, <1>3, HeapTake
<1>5. InUse(h)' = InUse(h) \cup {b} /\ \A g \in Heaps : g # h => InUse(g)' = InUse(g)
  <2> PICK e : e = [h |-> h, b |-> b]
    OBVIOUS
  <2>1. e.h = h /\ e.b = b /\ live' = live \cup {e}
    BY <1>2
  <2>2. InUse(h)' = InUse(h) \cup {b}
    BY <2>1 DEF InUse
  <2>3. ASSUME NEW g \in Heaps, g # h PROVE InUse(g)' = InUse(g)
    BY <2>1, <2>3 DEF InUse
  <2> QED BY <2>2, <2>3
<1>6. b.n \in Nat
  BY <1>2, CellsFacts
<1>7. MemTypes'
  BY <1>1, <1>2, <1>6 DEF MemTypes
<1>8. flist'[h] = r /\ mlength'[h] = mlength[h] - b.n /\ \A g \in Heaps : g # h => flist'[g] = flist[g] /\ mlength'[g] = mlength[g]
  BY <1>1, <1>2
<1>9. ASSUME NEW g \in Heaps, g = "k" \/ vinit' PROVE HeapOK(flist[g], mlength[g], InUse(g), Region(g))'
  <2>1. Region(g)' = Region(g)
    BY DEF Region, Start, Size
  <2>2. CASE g = h
    BY <1>4, <1>5, <1>8, <2>1, <2>2
  <2>3. CASE g # h
    <3>1. HeapOK(flist[g], mlength[g], InUse(g), Region(g))
      BY <1>2, <1>9 DEF MemInv
    <3> QED BY <1>5, <1>8, <2>1, <2>3, <3>1
  <2> QED BY <2>2, <2>3
<1>10. ~vinit' => InUse("v")' = {}
  <2> SUFFICES ASSUME ~vinit' PROVE InUse("v")' = {}
    OBVIOUS
  <2>1. "v" # h /\ "v" \in Heaps
    BY <1>2 DEF Heaps
  <2>2. InUse("v") = {}
    BY <1>2 DEF MemInv
  <2> QED BY <1>5, <2>1, <2>2
<1>11. [h |-> h, b |-> b] \notin live
  BY <1>4 DEF InUse
<1> QED BY <1>7, <1>9, <1>10, <1>11 DEF MemInv

\* A request is rounded up to a positive number of blocks.
LEMMA Rounded ==
    ASSUME NEW x \in Nat \ {0} PROVE roundmb(x) \in Nat \ {0}
<1>1. MB \in Nat \ {0}
  BY DEF MemoryAssumption
<1> PICK y \in Nat : y = x + MB - 1
  BY <1>1
<1>2. y >= MB
  BY <1>1
<1>3. y \div MB \in Nat /\ y \div MB >= 1
  BY <1>1, <1>2
<1> QED BY <1>3 DEF roundmb

\* getmem takes the front of the first block that is large enough.
LEMMA GetmemInv ==
    ASSUME MemInv, NEW h \in Heaps, h = "k" \/ vinit, NEW x \in Nat \ {0}, getmem(h, x), vinit' = vinit
    PROVE  MemInv' /\ \E b \in Blocks : [h |-> h, b |-> b] \notin live /\ live' = live \cup {[h |-> h, b |-> b]}
<1> DEFINE fit == {i \in DOMAIN flist[h] : flist[h][i].n >= roundmb(x)}
<1> PICK n \in Nat \ {0} : n = roundmb(x)
  BY Rounded
<1> PICK l \in Seq(Blocks) : l = flist[h]
  BY DEF MemInv, MemTypes
<1>1. Neat(l)
  BY DEF MemInv, HeapOK
<1>2. fit # {} /\ fit \in SUBSET Nat
  <2>1. fit # {}
    BY DEF getmem
  <2>2. DOMAIN l = 1..Len(l)
    OBVIOUS
  <2> QED BY <2>1, <2>2
<1>3. Min(fit) \in fit
  <2> HIDE DEF fit
  <2> QED BY <1>2, LeastIn
<1> PICK i : i = Min(fit)
  OBVIOUS
<1>10. i \in 1..Len(l) /\ l[i].n >= n
  <2>1. i \in DOMAIN l /\ l[i].n >= n
    BY <1>3
  <2> QED BY <2>1
<1> HIDE DEF fit
<1>4. l[i] \in Blocks /\ l[i].n \in Nat
  <2>1. l[i] \in Blocks
    BY <1>10
  <2> QED BY <2>1, CellsFacts
<1>5. n <= l[i].n
  BY <1>4, <1>10
<1> DEFINE r == TakeFront(l, i, n)
           b == Blk(l[i].a, n)
<1>6. TakenFrom(l, r, b)
  BY <1>1, <1>5, <1>10, FrontTaken
<1>7. b.n = n
  BY DEF Blk
<1>8. flist' = [flist EXCEPT ![h] = r] /\ mlength' = [mlength EXCEPT ![h] = @ - n] /\ live' = live \cup {[h |-> h, b |-> b]}
  BY DEF getmem, fit
<1> HIDE DEF r, b
<1>9. Took(h, r, b)
  BY <1>6, <1>7, <1>8 DEF Took
<1>11. MemInv' /\ [h |-> h, b |-> b] \notin live
  BY <1>9, TookInv
<1>12. b \in Blocks
  BY <1>6 DEF TakenFrom
<1> QED BY <1>8, <1>11, <1>12

\* getstk takes the end of the last block that is large enough.
LEMMA GetstkInv ==
    ASSUME MemInv, NEW x \in Nat \ {0}, getstk(x)
    PROVE  MemInv'
<1> PICK h \in Heaps : h = "k"
  BY DEF Heaps
<1> DEFINE fit == {i \in DOMAIN flist[h] : flist[h][i].n >= roundmb(x)}
<1> PICK n \in Nat \ {0} : n = roundmb(x)
  BY Rounded
<1> PICK l \in Seq(Blocks) : l = flist[h]
  BY DEF MemInv, MemTypes
<1>1. Neat(l)
  BY DEF MemInv, HeapOK
<1>2. fit # {} /\ fit \in SUBSET (0..Len(l)) /\ Len(l) \in Nat
  <2>1. fit # {}
    BY DEF getstk
  <2>2. DOMAIN l = 1..Len(l) /\ Len(l) \in Nat
    OBVIOUS
  <2> QED BY <2>1, <2>2
<1>3. Max(fit) \in fit
  <2> HIDE DEF fit
  <2> QED BY <1>2, GreatestIn
<1> PICK i : i = Max(fit)
  OBVIOUS
<1>10. i \in 1..Len(l) /\ l[i].n >= n
  <2>1. i \in DOMAIN l /\ l[i].n >= n
    BY <1>3
  <2> QED BY <2>1
<1> HIDE DEF fit
<1>4. l[i] \in Blocks /\ l[i].n \in Nat
  <2>1. l[i] \in Blocks
    BY <1>10
  <2> QED BY <2>1, CellsFacts
<1>5. n <= l[i].n
  BY <1>4, <1>10
<1> DEFINE r == IF l[i].n = n THEN RemoveAt(l, i) ELSE [l EXCEPT ![i] = Blk(l[i].a, l[i].n - n)]
           b == Blk(l[i].a + l[i].n - n, n)
<1>6. TakenFrom(l, r, b)
  BY <1>1, <1>5, <1>10, EndTaken
<1>7. b.n = n
  BY DEF Blk
<1>8. /\ flist' = [flist EXCEPT ![h] = r] /\ mlength' = [mlength EXCEPT ![h] = @ - n] /\ live' = live \cup {[h |-> h, b |-> b]}
      /\ vinit' = vinit
  BY DEF getstk, fit
<1> HIDE DEF r, b
<1>9. Took(h, r, b)
  BY <1>6, <1>7, <1>8 DEF Took
<1> QED BY <1>9, TookInv

\* The owner of a block gives it back.
LEMMA FreeInv ==
    ASSUME MemInv, NEW e \in live, Free(e) PROVE MemInv'
<1>1. /\ live \subseteq [h : Heaps, b : Blocks] /\ flist \in [Heaps -> Seq(Blocks)]
      /\ mlength \in [Heaps -> Int] /\ vinit \in BOOLEAN
  BY DEF MemInv, MemTypes
<1> PICK h \in Heaps, b \in Blocks : h = e.h /\ b = e.b /\ e = [h |-> h, b |-> b]
  BY <1>1
<1>2. /\ HeapAccepts(h, b) /\ mlength' = [mlength EXCEPT ![h] = @ + b.n]
      /\ flist' = [flist EXCEPT ![h] = JoinAfter(@, Place(h, b), b)]
      /\ live' = live \ {e} /\ vinit' = vinit
  BY DEF Free, freemem
<1>3. b \in InUse(h)
  BY DEF InUse
<1>4. h = "k" \/ vinit
  BY <1>3 DEF MemInv, Heaps
<1>5. HeapOK(flist[h], mlength[h], InUse(h), Region(h)) /\ IsFiniteSet(Region(h))
  BY <1>4, Regions DEF MemInv
<1> PICK l \in Seq(Blocks) : l = flist[h]
  BY <1>1
<1>6. Neat(l)
  BY <1>5 DEF HeapOK
<1> PICK k : k = Place(h, b)
  OBVIOUS
<1>7. Belongs(l, k, b) /\ ~Overlaps(l, k, b)
  <2> PICK x \in Nat : x = b.a
    BY CellsFacts
  <2>1. LET z == Cardinality({j \in DOMAIN l : l[j].a < x})
        IN  z \in 0..Len(l) /\ \A j \in 1..Len(l) : l[j].a < x <=> j <= z
    BY <1>6, PlaceFacts
  <2>2. k = Cardinality({j \in DOMAIN l : l[j].a < x})
    BY DEF Place
  <2>3. ~Overlaps(l, k, b)
    BY <1>2 DEF HeapAccepts
  <2> QED BY <2>1, <2>2, <2>3 DEF Belongs
<1> DEFINE r == JoinAfter(l, k, b)
<1>8. Neat(r) /\ FreeCells(r) = FreeCells(l) \cup Cells(b)
  BY <1>6, <1>7, JoinedList
<1>9. flist' = [flist EXCEPT ![h] = r]
  BY <1>2
<1> HIDE DEF r
<1>10. HeapOK(r, mlength[h] + b.n, InUse(h) \ {b}, Region(h))
  BY <1>3, <1>5, <1>8, HeapGive
<1>11. InUse(h)' = InUse(h) \ {b} /\ \A g \in Heaps : g # h => InUse(g)' = InUse(g)
  <2>1. ASSUME NEW y \in live, y.h = h, y.b = b PROVE y = e
    BY <1>1, <2>1
  <2>2. InUse(h)' = InUse(h) \ {b}
    <3>1. ASSUME NEW z \in InUse(h)' PROVE z \in InUse(h) \ {b}
      BY <1>2, <2>1 DEF InUse
    <3>2. ASSUME NEW z \in InUse(h) \ {b} PROVE z \in InUse(h)'
      BY <1>2 DEF InUse
    <3> QED BY <3>1, <3>2
  <2>3. ASSUME NEW g \in Heaps, g # h PROVE InUse(g)' = InUse(g)
    <3>1. {y \in live' : y.h = g} = {y \in live : y.h = g}
      BY <1>2, <2>3
    <3> QED BY <3>1 DEF InUse
  <2> QED BY <2>2, <2>3
<1>12. b.n \in Nat /\ r \in Seq(Blocks)
  BY <1>8, CellsFacts DEF Neat
<1>13. MemTypes'
  BY <1>1, <1>2, <1>9, <1>12 DEF MemTypes
<1>14. flist'[h] = r /\ mlength'[h] = mlength[h] + b.n /\ \A g \in Heaps : g # h => flist'[g] = flist[g] /\ mlength'[g] = mlength[g]
  BY <1>1, <1>2, <1>9
<1>15. ASSUME NEW g \in Heaps, g = "k" \/ vinit' PROVE HeapOK(flist[g], mlength[g], InUse(g), Region(g))'
  <2>1. Region(g)' = Region(g)
    BY DEF Region, Start, Size
  <2>2. CASE g = h
    BY <1>10, <1>11, <1>14, <2>1, <2>2
  <2>3. CASE g # h
    <3>1. HeapOK(flist[g], mlength[g], InUse(g), Region(g))
      BY <1>2, <1>15 DEF MemInv
    <3> QED BY <1>11, <1>14, <2>1, <2>3, <3>1
  <2> QED BY <2>2, <2>3
<1>16. ~vinit' => InUse("v")' = {}
  <2> SUFFICES ASSUME ~vinit' PROVE InUse("v")' = {}
    OBVIOUS
  <2>1. "v" # h /\ "v" \in Heaps
    BY <1>2, <1>4 DEF Heaps
  <2>2. InUse("v") = {}
    BY <1>2 DEF MemInv
  <2> QED BY <1>11, <2>1, <2>2
<1> QED BY <1>13, <1>15, <1>16 DEF MemInv

\* A heap that is one free block.
LEMMA WholeHeap ==
    ASSUME NEW h \in Heaps
    PROVE  HeapOK(<<Blk(Start(h), Size(h))>>, Size(h), {}, Region(h)) /\ <<Blk(Start(h), Size(h))>> \in Seq(Blocks)
<1>1. Start(h) \in Nat /\ Size(h) \in Nat /\ Size(h) > 0
  BY Regions
<1> PICK a \in Nat, n \in Nat : a = Start(h) /\ n = Size(h) /\ n > 0
  BY <1>1
<1> DEFINE b == Blk(a, n)
           l == <<b>>
<1>2. b \in Blocks /\ b.n = n /\ Cells(b) = Region(h)
  BY DEF Blk, Blocks, Cells, Region
<1> HIDE DEF b
<1>3. l \in Seq(Blocks) /\ Len(l) = 1 /\ l[1] = b
  BY <1>2
<1>4. Neat(l)
  BY <1>3 DEF Neat
<1>5. FreeCells(l) = Cells(b)
  <2>1. Cells(b) \in SUBSET Nat
    BY <1>2, CellsFacts
  <2> QED BY <1>3, <2>1 DEF FreeCells
<1>6. Cardinality(Cells(b)) = n
  BY <1>2, CellCount
<1> HIDE DEF l
<1>7. HeapOK(l, n, {}, Region(h))
  BY <1>2, <1>4, <1>5, <1>6 DEF HeapOK
<1> QED BY <1>3, <1>7 DEF l, b

\* The first vgetmem of a process makes its heap.
LEMMA VmeminitInv ==
    ASSUME MemInv, vmeminit PROVE MemInv'
<1> PICK h \in Heaps : h = "v"
  BY DEF Heaps
<1>1. /\ live \subseteq [h : Heaps, b : Blocks] /\ flist \in [Heaps -> Seq(Blocks)]
      /\ mlength \in [Heaps -> Int] /\ vinit \in BOOLEAN
  BY DEF MemInv, MemTypes
<1> DEFINE l == <<Blk(Start(h), Size(h))>>
<1>2. HeapOK(l, Size(h), {}, Region(h)) /\ l \in Seq(Blocks) /\ Size(h) \in Nat
  BY WholeHeap, Regions
<1>3. /\ ~vinit /\ vinit' = TRUE /\ live' = live
      /\ flist' = [flist EXCEPT ![h] = l] /\ mlength' = [mlength EXCEPT ![h] = Size(h)]
  BY DEF vmeminit, Size
<1> HIDE DEF l
<1>4. InUse(h) = {} /\ \A g \in Heaps : InUse(g)' = InUse(g)
  BY <1>3 DEF MemInv, InUse
<1>5. MemTypes'
  BY <1>1, <1>2, <1>3 DEF MemTypes
<1>6. flist'[h] = l /\ mlength'[h] = Size(h) /\ \A g \in Heaps : g # h => flist'[g] = flist[g] /\ mlength'[g] = mlength[g]
  BY <1>1, <1>3
<1>7. ASSUME NEW g \in Heaps PROVE HeapOK(flist[g], mlength[g], InUse(g), Region(g))'
  <2>1. Region(g)' = Region(g)
    BY DEF Region, Start, Size
  <2>2. CASE g = h
    BY <1>2, <1>4, <1>6, <2>1, <2>2
  <2>3. CASE g # h
    <3>1. HeapOK(flist[g], mlength[g], InUse(g), Region(g))
      BY <2>3 DEF MemInv, Heaps
    <3> QED BY <1>4, <1>6, <2>1, <2>3, <3>1
  <2> QED BY <2>2, <2>3
<1> QED BY <1>3, <1>5, <1>7 DEF MemInv

\* Steps of the buffer pool leave the heaps alone.
LEMMA MemSame ==
    ASSUME MemInv, UNCHANGED <<flist, mlength, vinit, live>> PROVE MemInv'
BY DEF MemInv, MemTypes, InUse, Region, Start, Size

\* The heaps at boot.
LEMMA MemStart ==
    ASSUME MemoryInit PROVE MemInv
<1> PICK h \in Heaps : h = "k"
  BY DEF Heaps
<1> DEFINE l == <<Blk(Start(h), Size(h))>>
<1>1. HeapOK(l, Size(h), {}, Region(h)) /\ l \in Seq(Blocks) /\ Size(h) \in Nat
  BY WholeHeap, Regions
<1>2. flist = [g \in Heaps |-> IF g = h THEN l ELSE <<>>] /\ mlength = [g \in Heaps |-> IF g = h THEN Size(h) ELSE 0]
  BY DEF MemoryInit, Size
<1>3. vinit = FALSE /\ live = {}
  BY DEF MemoryInit
<1> HIDE DEF l
<1>4. flist[h] = l /\ mlength[h] = Size(h) /\ \A g \in Heaps : InUse(g) = {}
  BY <1>2, <1>3 DEF InUse
<1>5. MemTypes
  <2>1. <<>> \in Seq(Blocks)
    OBVIOUS
  <2>2. flist \in [Heaps -> Seq(Blocks)]
    BY <1>1, <1>2, <2>1
  <2>3. mlength \in [Heaps -> Int]
    BY <1>1, <1>2
  <2> QED BY <1>3, <2>2, <2>3 DEF MemTypes
<1>6. InUse("v") = {}
  BY <1>3 DEF InUse
<1>7. \A g \in Heaps : g = "k" \/ vinit => HeapOK(flist[g], mlength[g], InUse(g), Region(g))
  BY <1>1, <1>3, <1>4
<1> QED BY <1>5, <1>6, <1>7 DEF MemInv

\* The invariant says what HeapPartitioned says.
LEMMA Partition ==
    ASSUME MemInv PROVE HeapPartitioned
<1> SUFFICES ASSUME NEW h \in Heaps, h = "k" \/ vinit
             PROVE  LET inUse == {r.b : r \in {x \in live : x.h = h}}
                        free == {flist[h][i] : i \in DOMAIN flist[h]}
                    IN  /\ UNION {Cells(b) : b \in inUse \cup free} = Start(h)..(Start(h) + Size(h) - 1)
                        /\ \A b, c \in inUse \cup free : b # c => Cells(b) \cap Cells(c) = {}
                        /\ inUse \cap free = {}
                        /\ mlength[h] = Cardinality(UNION {Cells(b) : b \in free})
                        /\ \A i \in 1..Len(flist[h]) - 1 : flist[h][i].a + flist[h][i].n < flist[h][i + 1].a
                        /\ \A b \in free, a \in Start(h)..(Start(h) + Size(h)), n \in 1..2 :
                              Cells(Blk(a, n)) \cap Cells(b) # {} => ~HeapAccepts(h, Blk(a, n))
  BY DEF HeapPartitioned
<1> PICK l \in Seq(Blocks) : l = flist[h]
  BY DEF MemInv, MemTypes
<1> PICK U : U = InUse(h)
  OBVIOUS
<1> DEFINE F == {l[i] : i \in DOMAIN l}
<1>1. HeapOK(l, mlength[h], U, Region(h))
  BY DEF MemInv
<1>2. /\ Neat(l) /\ U \subseteq Blocks
      /\ \A u \in U : Cells(u) \cap FreeCells(l) = {}
      /\ \A u, v \in U : u # v => Cells(u) \cap Cells(v) = {}
      /\ \A u \in U : Cells(u) \subseteq Region(h)
      /\ FreeCells(l) \subseteq Region(h)
      /\ \A c \in Region(h) : c \in FreeCells(l) \/ \E u \in U : c \in Cells(u)
      /\ mlength[h] = Cardinality(FreeCells(l))
  BY <1>1 DEF HeapOK
<1>3. DOMAIN l = 1..Len(l) /\ \A i \in 1..Len(l) : l[i] \in Blocks
  OBVIOUS
<1>4. \A b \in Blocks : Cells(b) \in SUBSET Nat /\ b.a \in Cells(b)
  BY CellsFacts
<1>5. /\ \A b \in F : b \in Blocks /\ \A c \in Cells(b) : c \in FreeCells(l)
      /\ \A c \in FreeCells(l) : \E b \in F : c \in Cells(b)
  BY <1>3, <1>4 DEF FreeCells
<1>6. \A i, j \in 1..Len(l) : i < j => l[i].a + l[i].n < l[j].a
  BY <1>2 DEF Neat
<1>7. ASSUME NEW i \in 1..Len(l), NEW j \in 1..Len(l), i < j PROVE Cells(l[i]) \cap Cells(l[j]) = {}
  <2> SUFFICES ASSUME NEW c \in Cells(l[i]), c \in Cells(l[j]) PROVE FALSE
    OBVIOUS
  <2>1. c \in Nat
    BY <1>3, <1>4
  <2>2. c < l[i].a + l[i].n /\ l[j].a <= c
    BY <1>3, <2>1, CellsFacts
  <2>3. l[i].a + l[i].n < l[j].a
    BY <1>6, <1>7
  <2>4. l[i].a \in Nat /\ l[i].n \in Nat /\ l[j].a \in Nat
    BY <1>3, CellsFacts
  <2> QED BY ONLY <2>1, <2>2, <2>3, <2>4
<1>8. \A b, c \in F : b # c => Cells(b) \cap Cells(c) = {}
  <2> SUFFICES ASSUME NEW i \in 1..Len(l), NEW j \in 1..Len(l), l[i] # l[j] PROVE Cells(l[i]) \cap Cells(l[j]) = {}
    BY <1>3, ZenonT(30)
  <2>1. i < j \/ j < i
    <3>1. i # j
      OBVIOUS
    <3> QED BY <3>1
  <2> QED BY <1>7, <2>1
<1>9. ASSUME NEW i \in 1..Len(l), NEW a \in Start(h)..(Start(h) + Size(h)), NEW n \in 1..2,
             Cells(Blk(a, n)) \cap Cells(l[i]) # {}
      PROVE  ~HeapAccepts(h, Blk(a, n))
  <2> SUFFICES ASSUME HeapAccepts(h, Blk(a, n)) PROVE FALSE
    OBVIOUS
  <2>1. a \in Nat /\ n \in Nat /\ n > 0
    BY Regions
  <2> PICK b \in Blocks : b = Blk(a, n)
    BY <2>1, BlkFacts
  <2> PICK k : k = Place(h, b)
    OBVIOUS
  <2>2. Belongs(l, k, b) /\ ~Overlaps(l, k, b)
    <3> PICK x \in Nat : x = b.a
      BY CellsFacts
    <3>1. LET z == Cardinality({j \in DOMAIN l : l[j].a < x})
          IN  z \in 0..Len(l) /\ \A j \in 1..Len(l) : l[j].a < x <=> j <= z
      BY <1>2, PlaceFacts, SMTT(30)
    <3>2. k = Cardinality({j \in DOMAIN l : l[j].a < x})
      BY DEF Place
    <3>3. ~Overlaps(l, k, b)
      BY DEF HeapAccepts
    <3> QED BY <3>1, <3>2, <3>3 DEF Belongs
  <2>3. (i <= k => l[i].a + l[i].n <= b.a) /\ (k < i => b.a + b.n <= l[i].a) /\ k \in Nat
    BY <1>2, <2>2, NoOverlap, SMTT(30) DEF Belongs
  <2> PICK c \in Nat : c \in Cells(b) /\ c \in Cells(l[i])
    BY <1>4, <1>9
  <2>4. b.a <= c /\ c < b.a + b.n /\ l[i].a <= c /\ c < l[i].a + l[i].n /\ c \in Nat
    BY <1>3, CellsFacts
  <2>5. b.a \in Nat /\ b.n \in Nat /\ l[i].a \in Nat /\ l[i].n \in Nat /\ i \in Nat
    BY <1>3, CellsFacts
  <2> QED BY ONLY <2>3, <2>4, <2>5
<1>10. U = {r.b : r \in {x \in live : x.h = h}}
  BY DEF InUse
<1> HIDE DEF F
<1>11. UNION {Cells(b) : b \in F} = FreeCells(l)
  BY <1>5
<1>12. UNION {Cells(b) : b \in U \cup F} = Region(h)
  BY <1>2, <1>5
<1>13. \A b, c \in U \cup F : b # c => Cells(b) \cap Cells(c) = {}
  BY <1>2, <1>5, <1>8
<1>14. U \cap F = {}
  BY <1>2, <1>4, <1>5
<1>15. \A i \in 1..Len(l) - 1 : l[i].a + l[i].n < l[i + 1].a
  <2> TAKE i \in 1..Len(l) - 1
  <2> PICK j \in 1..Len(l) : j = i + 1
    OBVIOUS
  <2>1. i \in 1..Len(l) /\ i < j
    OBVIOUS
  <2> QED BY <1>6, <2>1
<1>16. \A b \in F, a \in Start(h)..(Start(h) + Size(h)), n \in 1..2 :
          Cells(Blk(a, n)) \cap Cells(b) # {} => ~HeapAccepts(h, Blk(a, n))
  BY <1>3, <1>9 DEF F
<1>17. F = {flist[h][i] : i \in DOMAIN flist[h]}
  BY DEF F
<1> QED BY <1>2, <1>10, <1>11, <1>12, <1>13, <1>14, <1>15, <1>16, <1>17 DEF Region

-----------------------------------------------------------------------------
(* The buffer pool *)

\* The buffers of the list are different and not held; each is promised to somebody who
\* passed the semaphore or will pass it.
PoolList ==
    /\ Len(pool.free) = (IF pool.sem > 0 THEN pool.sem ELSE 0) + pool.granted
    /\ \A i, j \in 1..Len(pool.free) : pool.free[i] = pool.free[j] => i = j
    /\ \A i \in 1..Len(pool.free) : pool.free[i] \notin pool.held
    /\ IsFiniteSet(pool.held) /\ Len(pool.free) + Cardinality(pool.held) = NBUFS
PoolRecords == [used : BOOLEAN, base : Nat, free : Seq(Nat), sem : Int, granted : Nat, held : SUBSET Nat]
PoolInv ==
    /\ pool \in PoolRecords
    /\ ~pool.used => pool.granted = 0 /\ pool.held = {}
    /\ pool.used => PoolList

\* The first buffer of a pool's list is taken for one who was promised it.
LEMMA TakeBufInv ==
    ASSUME NEW p, NEW n \in Int, NEW g \in Nat, PoolInv, pool.used,
           p = [pool EXCEPT !.sem = n, !.granted = g],
           Len(pool.free) - 1 = (IF n > 0 THEN n ELSE 0) + g, pool' = TakeBuf(p)
    PROVE  PoolInv'
<1> PICK f \in Seq(Nat), held \in SUBSET Nat : f = pool.free /\ held = pool.held
  BY DEF PoolInv, PoolRecords
<1>1. /\ \A i, j \in 1..Len(f) : f[i] = f[j] => i = j
      /\ \A i \in 1..Len(f) : f[i] \notin held
      /\ IsFiniteSet(held) /\ Len(f) + Cardinality(held) = NBUFS
      /\ Len(f) - 1 = (IF n > 0 THEN n ELSE 0) + g
  BY DEF PoolInv, PoolList
<1>2. Len(f) \in Nat /\ Len(f) >= 1
  BY <1>1, SMTT(30)
<1>3. /\ Tail(f) \in Seq(Nat) /\ Len(Tail(f)) = Len(f) - 1 /\ \A i \in 1..Len(f) - 1 : Tail(f)[i] = f[i + 1]
      /\ Head(f) = f[1] /\ Head(f) \in Nat
  <2>1. f \in Seq(Nat) /\ Len(f) \in Nat /\ Len(f) >= 1
    BY <1>2
  <2>2. Tail(f) \in Seq(Nat) /\ Len(Tail(f)) = Len(f) - 1
    BY ONLY <2>1
  <2>3. \A i \in 1..Len(f) - 1 : Tail(f)[i] = f[i + 1]
    BY ONLY <2>1
  <2>4. Head(f) = f[1] /\ Head(f) \in Nat
    BY ONLY <2>1
  <2> QED BY <2>2, <2>3, <2>4
<1> PICK t \in Seq(Nat), b \in Nat : t = Tail(f) /\ b = Head(f)
  BY <1>3
<1>4. pool' = [pool EXCEPT !.sem = n, !.granted = g, !.free = t, !.held = held \cup {b}]
  BY DEF TakeBuf, PoolInv, PoolRecords
<1>5. /\ pool' \in PoolRecords
      /\ pool'.used = pool.used /\ pool'.free = t /\ pool'.sem = n /\ pool'.granted = g /\ pool'.held = held \cup {b}
  <2>1. pool \in PoolRecords /\ held \cup {b} \in SUBSET Nat
    BY DEF PoolInv
  <2> QED BY <1>4, <2>1 DEF PoolRecords
<1>6. /\ Len(t) = Len(f) - 1 /\ 1 \in 1..Len(f)
      /\ \A i \in 1..Len(t) : \E x \in 1..Len(f) : x = i + 1 /\ x # 1 /\ t[i] = f[x]
  <2>1. Len(t) = Len(f) - 1 /\ 1 \in 1..Len(f)
    BY <1>2, <1>3
  <2>2. ASSUME NEW i \in 1..Len(t) PROVE \E x \in 1..Len(f) : x = i + 1 /\ x # 1 /\ t[i] = f[x]
    <3>0. i \in 1..Len(t) /\ Len(t) = Len(f) - 1 /\ Len(f) \in Nat
      BY <1>2, <2>1
    <3>1. i \in 1..Len(f) - 1 /\ i + 1 \in 1..Len(f) /\ i + 1 # 1
      BY ONLY <3>0
    <3>2. t[i] = f[i + 1]
      BY <1>3, <3>1
    <3> QED BY <3>1, <3>2
  <2> QED BY <2>1, <2>2
<1>7. \A i, j \in 1..Len(t) : t[i] = t[j] => i = j
  <2> SUFFICES ASSUME NEW i \in 1..Len(t), NEW j \in 1..Len(t), t[i] = t[j] PROVE i = j
    OBVIOUS
  <2> PICK x \in 1..Len(f) : x = i + 1 /\ t[i] = f[x]
    BY <1>6
  <2> PICK y \in 1..Len(f) : y = j + 1 /\ t[j] = f[y]
    BY <1>6
  <2>1. x = y
    BY <1>1
  <2> QED BY <2>1
<1>8. \A i \in 1..Len(t) : t[i] \notin held \cup {b}
  <2> TAKE i \in 1..Len(t)
  <2> PICK x \in 1..Len(f) : x # 1 /\ t[i] = f[x]
    BY <1>6
  <2>1. f[x] \notin held /\ f[x] # f[1] /\ f[1] = b
    BY <1>1, <1>3, <1>6
  <2> QED BY <2>1
<1>9. b \notin held
  BY <1>1, <1>2, <1>3
<1>10. IsFiniteSet(held \cup {b}) /\ Cardinality(held \cup {b}) = Cardinality(held) + 1 /\ Cardinality(held) \in Nat
  BY <1>1, <1>9, FS_AddElement, FS_CardinalityType
<1>11. Len(t) + Cardinality(held \cup {b}) = NBUFS
  <2>1. /\ Len(f) \in Nat /\ Len(t) = Len(f) - 1 /\ Cardinality(held) \in Nat
        /\ Cardinality(held \cup {b}) = Cardinality(held) + 1 /\ Len(f) + Cardinality(held) = NBUFS
    BY <1>1, <1>2, <1>6, <1>10
  <2> QED BY ONLY <2>1
<1>13. Len(t) = (IF n > 0 THEN n ELSE 0) + g
  BY <1>1, <1>6
<1>12. PoolList'
  <2>1. Len(pool'.free) = (IF pool'.sem > 0 THEN pool'.sem ELSE 0) + pool'.granted
    BY <1>5, <1>13
  <2>2. \A i, j \in 1..Len(pool'.free) : pool'.free[i] = pool'.free[j] => i = j
    <3>1. pool'.free = t
      BY <1>5
    <3> QED BY ONLY <1>7, <3>1
  <2>3. \A i \in 1..Len(pool'.free) : pool'.free[i] \notin pool'.held
    BY <1>5, <1>8
  <2>4. IsFiniteSet(pool'.held) /\ Len(pool'.free) + Cardinality(pool'.held) = NBUFS
    BY <1>5, <1>10, <1>11
  <2> QED BY <2>1, <2>2, <2>3, <2>4 DEF PoolList
<1> QED BY <1>5, <1>12 DEF PoolInv

\* getbuf, and getbuf of a process that waited.
LEMMA GetbufInv ==
    ASSUME PoolInv, getbuf \/ getbufResume PROVE PoolInv'
<1>1. /\ pool \in PoolRecords
      /\ pool.used
      /\ Len(pool.free) = (IF pool.sem > 0 THEN pool.sem ELSE 0) + pool.granted
  <2>1. pool \in PoolRecords
    BY DEF PoolInv
  <2>2. pool.used
    BY <2>1 DEF PoolInv, PoolRecords, getbuf, getbufResume
  <2> QED BY <2>1, <2>2 DEF PoolInv, PoolList
<1> PICK sem \in Int, g \in Nat, m \in Nat : sem = pool.sem /\ g = pool.granted /\ m = Len(pool.free)
  BY <1>1 DEF PoolRecords
<1>2. CASE getbuf /\ sem > 0
  <2> PICK n \in Int : n = sem - 1
    OBVIOUS
  <2>1. pool' = TakeBuf([pool EXCEPT !.sem = n]) /\ [pool EXCEPT !.sem = n] = [pool EXCEPT !.sem = n, !.granted = g]
    BY <1>1, <1>2 DEF getbuf, PoolRecords
  <2>2. m - 1 = (IF n > 0 THEN n ELSE 0) + g
    BY <1>1, <1>2, SMTT(30)
  <2> QED BY <1>1, <2>1, <2>2, TakeBufInv
<1>3. CASE getbuf /\ ~(sem > 0)
  <2> PICK n \in Int : n = sem - 1
    OBVIOUS
  <2>1. pool' = [pool EXCEPT !.sem = n]
    BY <1>3 DEF getbuf
  <2>2. /\ pool' \in PoolRecords
        /\ pool'.used /\ pool'.free = pool.free /\ pool'.sem = n /\ pool'.granted = pool.granted
        /\ pool'.held = pool.held
    BY <1>1, <2>1 DEF PoolRecords
  <2>3. (IF pool'.sem > 0 THEN pool'.sem ELSE 0) = 0 /\ (IF pool.sem > 0 THEN pool.sem ELSE 0) = 0
    BY <1>3, <2>2
  <2>4. PoolList'
    BY <1>1, <2>2, <2>3 DEF PoolInv, PoolList
  <2> QED BY <2>2, <2>4 DEF PoolInv
<1>4. CASE getbufResume
  <2>1. g > 0 /\ pool' = TakeBuf([pool EXCEPT !.granted = g - 1])
    BY <1>4 DEF getbufResume
  <2> PICK z \in Nat : z = g - 1
    BY <2>1
  <2>2. pool' = TakeBuf([pool EXCEPT !.sem = sem, !.granted = z])
    <3>1. [pool EXCEPT !.sem = sem, !.granted = z] = [pool EXCEPT !.granted = z]
      BY <1>1 DEF PoolRecords
    <3> QED BY <2>1, <3>1
  <2>3. m - 1 = (IF sem > 0 THEN sem ELSE 0) + z
    BY <1>1, SMTT(30)
  <2> QED BY <1>1, <2>2, <2>3, TakeBufInv
<1> QED BY <1>2, <1>3, <1>4

\* freebuf puts the buffer in front of the list.
LEMMA FreebufInv ==
    ASSUME PoolInv, NEW b, freebuf(b) PROVE PoolInv'
<1>1. pool \in PoolRecords
  BY DEF PoolInv
<1> PICK f \in Seq(Nat), held \in SUBSET Nat, sem \in Int, g \in Nat :
           f = pool.free /\ held = pool.held /\ sem = pool.sem /\ g = pool.granted
  BY <1>1 DEF PoolRecords
<1>2. b \in held /\ b \in Nat
  BY DEF freebuf
<1>3. pool.used
  BY <1>1, <1>2 DEF PoolInv
<1>4. /\ \A i, j \in 1..Len(f) : f[i] = f[j] => i = j
      /\ \A i \in 1..Len(f) : f[i] \notin held
      /\ IsFiniteSet(held) /\ Len(f) + Cardinality(held) = NBUFS
      /\ Len(f) = (IF sem > 0 THEN sem ELSE 0) + g
  BY <1>3 DEF PoolInv, PoolList
<1> PICK u \in Seq(Nat) : u = <<b>>
  <2>1. <<b>> \in Seq(Nat)
    BY ONLY <1>2
  <2> QED BY <2>1
<1> PICK t \in Seq(Nat) : t = u \o f
  BY ConcatFacts
<1>5. Len(t) = Len(f) + 1 /\ t[1] = b /\ \A i \in 1..Len(f) + 1 : i # 1 => t[i] = f[i - 1]
  <2>1. Len(u \o f) = Len(u) + Len(f) /\ \A i \in 1..Len(u) + Len(f) : (u \o f)[i] = IF i <= Len(u) THEN u[i] ELSE f[i - Len(u)]
    BY ConcatFacts
  <2>5. u = <<b>>
    OBVIOUS
  <2>6. Len(u) = 1 /\ u[1] = b
    BY ONLY <2>5
  <2>2. t = u \o f /\ Len(u) = 1 /\ u[1] = b /\ Len(f) \in Nat
    BY <2>6
  <2>3. Len(t) = Len(f) + 1 /\ \A i \in 1..Len(f) + 1 : t[i] = IF i <= 1 THEN u[i] ELSE f[i - 1]
    BY ONLY <2>1, <2>2
  <2>4. 1 \in 1..Len(f) + 1 /\ \A i \in 1..Len(f) + 1 : i <= 1 <=> i = 1
    BY ONLY <2>2
  <2> QED BY <2>2, <2>3, <2>4
<1> PICK z \in Nat : z = IF sem < 0 THEN g + 1 ELSE g
  OBVIOUS
<1> PICK n \in Int : n = sem + 1
  OBVIOUS
<1>6. pool' = [pool EXCEPT !.held = held \ {b}, !.free = t, !.sem = n, !.granted = z]
  BY <1>1 DEF freebuf, PoolRecords
<1>7. /\ pool' \in PoolRecords
      /\ pool'.used = pool.used /\ pool'.free = t /\ pool'.sem = n /\ pool'.granted = z /\ pool'.held = held \ {b}
  BY <1>1, <1>6 DEF PoolRecords
<1>8. Len(t) = (IF n > 0 THEN n ELSE 0) + z
  <2>1. /\ Len(t) = Len(f) + 1 /\ Len(f) = (IF sem > 0 THEN sem ELSE 0) + g /\ z = (IF sem < 0 THEN g + 1 ELSE g)
        /\ sem \in Int /\ g \in Nat /\ z \in Nat /\ n = sem + 1
    BY <1>4, <1>5
  <2> QED BY ONLY <2>1
<1>9. \A i, j \in 1..Len(t) : t[i] = t[j] => i = j
  <2> SUFFICES ASSUME NEW i \in 1..Len(t), NEW j \in 1..Len(t), t[i] = t[j] PROVE i = j
    OBVIOUS
  <2>3. i \in 1..Len(t) /\ j \in 1..Len(t) /\ Len(t) = Len(f) + 1 /\ Len(f) \in Nat
    BY <1>5
  <2>0. i \in 1..Len(f) + 1 /\ j \in 1..Len(f) + 1 /\ (i # 1 => i - 1 \in 1..Len(f)) /\ (j # 1 => j - 1 \in 1..Len(f))
    BY ONLY <2>3
  <2>1. CASE i = 1 \/ j = 1
    <3>1. \A x \in 1..Len(f) : f[x] # b
      BY <1>2, <1>4
    <3>2. ASSUME NEW x \in 1..Len(t), x # 1 PROVE t[x] # b
      <4>1. x \in 1..Len(t) /\ Len(t) = Len(f) + 1 /\ Len(f) \in Nat /\ x # 1
        BY <1>5, <3>2
      <4>2. x \in 1..Len(f) + 1 /\ x - 1 \in 1..Len(f)
        BY ONLY <4>1
      <4> QED BY <1>5, <3>1, <3>2, <4>2
    <3>3. t[1] = b
      BY <1>5
    <3> QED BY <2>1, <3>2, <3>3
  <2>2. CASE i # 1 /\ j # 1
    <3>1. i - 1 = j - 1
      BY <1>4, <1>5, <2>0, <2>2
    <3> QED BY <3>1
  <2> QED BY <2>1, <2>2
<1>10. \A i \in 1..Len(t) : t[i] \notin held \ {b}
  <2> TAKE i \in 1..Len(t)
  <2>0. i \in 1..Len(f) + 1 /\ (i # 1 => i - 1 \in 1..Len(f))
    BY <1>5
  <2> QED BY <1>4, <1>5, <2>0
<1>11. IsFiniteSet(held \ {b}) /\ Cardinality(held \ {b}) = Cardinality(held) - 1 /\ Cardinality(held) \in Nat
  BY <1>2, <1>4, FS_RemoveElement, FS_CardinalityType
<1>12. Len(t) + Cardinality(held \ {b}) = NBUFS
  BY <1>4, <1>5, <1>11
<1>13. PoolList'
  <2>1. Len(pool'.free) = (IF pool'.sem > 0 THEN pool'.sem ELSE 0) + pool'.granted
    BY <1>7, <1>8
  <2>2. \A i, j \in 1..Len(pool'.free) : pool'.free[i] = pool'.free[j] => i = j
    BY <1>7, <1>9
  <2>3. \A i \in 1..Len(pool'.free) : pool'.free[i] \notin pool'.held
    BY <1>7, <1>10
  <2>4. IsFiniteSet(pool'.held) /\ Len(pool'.free) + Cardinality(pool'.held) = NBUFS
    BY <1>7, <1>11, <1>12
  <2> QED BY <2>1, <2>2, <2>3, <2>4 DEF PoolList
<1> QED BY <1>3, <1>7, <1>13 DEF PoolInv

\* mkbufpool cuts its block into buffers.
LEMMA MkbufpoolInv ==
    ASSUME MemInv, PoolInv, mkbufpool PROVE MemInv' /\ PoolInv'
<1>1. NBUFS \in Nat \ {0} /\ MB \in Nat \ {0}
  BY DEF MemoryAssumption
<1> PICK x \in Nat \ {0} : x = NBUFS * MB
  BY <1>1
<1> PICK h \in Heaps : h = "k"
  BY DEF Heaps
<1>2. getmem(h, x) /\ vinit' = vinit
  BY DEF mkbufpool
<1>3. MemInv' /\ \E b \in Blocks : [h |-> h, b |-> b] \notin live /\ live' = live \cup {[h |-> h, b |-> b]}
  BY <1>2, GetmemInv
<1> PICK b \in Blocks : [h |-> h, b |-> b] \notin live /\ live' = live \cup {[h |-> h, b |-> b]}
  BY <1>3
<1> DEFINE e == CHOOSE r \in live' : r \notin live
<1>4. e = [h |-> h, b |-> b]
  OBVIOUS
<1>5. e.b.a \in Nat
  <2>1. b.a \in Nat
    BY CellsFacts
  <2> QED BY <1>4, <2>1
<1> PICK base \in Nat : base = e.b.a
  BY <1>5
<1> DEFINE f == [i \in 1..NBUFS |-> base + i - 1]
<1>6. pool' = [used |-> TRUE, base |-> base, free |-> f, sem |-> NBUFS, granted |-> 0, held |-> {}]
  BY DEF mkbufpool
<1>7. f \in Seq(Nat) /\ Len(f) = NBUFS /\ \A i \in 1..NBUFS : f[i] = base + i - 1
  <2>1. \A i \in 1..NBUFS : base + i - 1 \in Nat
    BY <1>1
  <2> QED BY <1>1, <2>1
<1> HIDE DEF f, e
<1>8. \A i, j \in 1..NBUFS : f[i] = f[j] => i = j
  <2> SUFFICES ASSUME NEW i \in 1..NBUFS, NEW j \in 1..NBUFS, f[i] = f[j] PROVE i = j
    OBVIOUS
  <2>2. f[i] = base + i - 1 /\ f[j] = base + j - 1
    BY <1>7
  <2>1. base + i - 1 = base + j - 1 /\ i \in Int /\ j \in Int /\ base \in Nat
    <3>1. base + i - 1 = base + j - 1
      BY <2>2
    <3>2. i \in Int /\ j \in Int
      BY <1>1
    <3> QED BY <3>1, <3>2
  <2> QED BY ONLY <2>1
<1>9. Cardinality({}) = 0 /\ IsFiniteSet({})
  BY FS_EmptySet
<1>10. /\ pool'.free = f /\ pool'.sem = NBUFS /\ pool'.granted = 0 /\ pool'.held = {} /\ pool'.used = TRUE
       /\ pool' \in PoolRecords
  BY <1>1, <1>6, <1>7 DEF PoolRecords
<1>11. Len(f) = (IF NBUFS > 0 THEN NBUFS ELSE 0) + 0 /\ Len(f) + 0 = NBUFS
  BY <1>1, <1>7
<1>12. PoolList'
  BY <1>7, <1>8, <1>9, <1>10, <1>11 DEF PoolList
<1> QED BY <1>3, <1>10, <1>12 DEF PoolInv

\* The pool is untouched.
LEMMA PoolSame ==
    ASSUME PoolInv, pool' = pool PROVE PoolInv'
BY DEF PoolInv, PoolList

\* Every step keeps the heaps and the pool.
LEMMA MemoryStep ==
    ASSUME MemInv, PoolInv, [MemoryNext]_memoryVars PROVE MemInv' /\ PoolInv'
<1>0. "k" \in Heaps /\ "v" \in Heaps
  BY DEF Heaps
<1>1. ASSUME NEW r \in Requests, getmem("k", r) /\ UNCHANGED <<vinit, pool>> PROVE MemInv' /\ PoolInv'
  <2> PICK h \in Heaps : h = "k"
    BY <1>0
  <2>1. r \in Nat \ {0} /\ getmem(h, r) /\ vinit' = vinit
    BY <1>1 DEF MemoryAssumption
  <2> QED BY <1>1, <2>1, GetmemInv, PoolSame
<1>2. ASSUME NEW r \in Requests, vinit /\ getmem("v", r) /\ UNCHANGED <<vinit, pool>> PROVE MemInv' /\ PoolInv'
  <2> PICK h \in Heaps : h = "v"
    BY <1>0
  <2>1. r \in Nat \ {0} /\ getmem(h, r) /\ vinit' = vinit
    BY <1>2 DEF MemoryAssumption
  <2> QED BY <1>2, <2>1, GetmemInv, PoolSame
<1>3. ASSUME NEW r \in Requests, getstk(r) PROVE MemInv' /\ PoolInv'
  <2>1. r \in Nat \ {0} /\ pool' = pool
    BY <1>3 DEF MemoryAssumption, getstk
  <2> QED BY <1>3, <2>1, GetstkInv, PoolSame
<1>4. CASE vmeminit
  BY <1>4, VmeminitInv, PoolSame DEF vmeminit
<1>5. CASE mkbufpool
  BY <1>5, MkbufpoolInv
<1>6. CASE getbuf
  BY <1>6, GetbufInv, MemSame DEF getbuf
<1>7. CASE getbufResume
  BY <1>7, GetbufInv, MemSame DEF getbufResume
<1>8. ASSUME NEW r \in live \ PoolBlock, Free(r) PROVE MemInv' /\ PoolInv'
  BY <1>8, FreeInv, PoolSame DEF Free
<1>9. ASSUME NEW b \in pool.held, freebuf(b) PROVE MemInv' /\ PoolInv'
  BY <1>9, FreebufInv, MemSame DEF freebuf
<1>10. CASE UNCHANGED memoryVars
  BY <1>10, MemSame, PoolSame DEF memoryVars
<1> QED BY <1>1, <1>2, <1>3, <1>4, <1>5, <1>6, <1>7, <1>8, <1>9, <1>10 DEF MemoryNext

\* At boot there is no pool.
LEMMA PoolStart ==
    ASSUME MemoryInit PROVE PoolInv
BY DEF MemoryInit, NoPool, PoolInv, PoolRecords

\* For heaps of any size and any requests: getmem, getstk, vgetmem and freemem never give a
\* cell two owners and never lose one, the length in the head of each list is right, free
\* blocks never touch, and a block that overlaps a free one is refused.
THEOREM HeapCorrect == MemorySpec => []HeapPartitioned
<1>1. MemoryInit => MemInv /\ PoolInv
  BY MemStart, PoolStart
<1>2. MemInv /\ PoolInv /\ [MemoryNext]_memoryVars => MemInv' /\ PoolInv'
  BY MemoryStep
<1>3. MemInv => HeapPartitioned
  BY Partition
<1> QED BY <1>1, <1>2, <1>3, PTL DEF MemorySpec

\* For pools of any size: whoever passed the semaphore in getbuf finds a buffer on the list,
\* although a process that waited takes it only when it runs again.
THEOREM PoolCorrect == MemorySpec => []PoolBacked
<1>1. MemoryInit => MemInv /\ PoolInv
  BY MemStart, PoolStart
<1>2. MemInv /\ PoolInv /\ [MemoryNext]_memoryVars => MemInv' /\ PoolInv'
  BY MemoryStep
<1>3. PoolInv => PoolBacked
  <2> SUFFICES ASSUME PoolInv, pool.used
               PROVE  /\ Len(pool.free) = (IF pool.sem > 0 THEN pool.sem ELSE 0) + pool.granted
                      /\ ToSet(pool.free) \cap pool.held = {}
                      /\ Len(pool.free) + Cardinality(pool.held) = NBUFS
    BY DEF PoolBacked
  <2>1. PoolList /\ pool.free \in Seq(Nat)
    BY DEF PoolInv, PoolRecords
  <2>2. ToSet(pool.free) \cap pool.held = {}
    BY <2>1 DEF PoolList, ToSet
  <2> QED BY <2>1, <2>2 DEF PoolList
<1> QED BY <1>1, <1>2, <1>3, PTL DEF MemorySpec

=============================================================================
