-------------------------- MODULE PagingDataProofs --------------------------
(***************************************************************************)
(* No write to a heap page is lost: the frame, the victim's frame or the   *)
(* backing store of the page holds what the process last wrote, through    *)
(* evictions, page table deletions and the reuse of frames and stores.     *)
(***************************************************************************)
EXTENDS PagingTableProofs

USE DEF frameVars, tableVars, dataVars, storeVars, procVars

-----------------------------------------------------------------------------
(* The invariant. *)

\* evictFrame, called by a, is writing page v of p to its store.
Leaver(a, p, v) == /\ th[a].pc = "write_bs"
                   /\ ft.ipt[th[a].fr].pid = p /\ ft.ipt[th[a].fr].vpn = v
Leaving(p, v) == \E a \in Actors : Leaver(a, p, v)

\* A page of the heap of a process that runs, and that has a store.
HeapPage(p, v) == Running(p) /\ v < proc[p].hsize /\ BsOf(p, v) \in Stores
Stored(p, v) == disk[BsOf(p, v)][BsOff(v)] = val[p][v]

\* A mapped page is current in its frame, and in its store as well unless its
\* entry says that it needs to be written; any other page is in its store.
PageKept(p, v) ==
  HeapPage(p, v) =>
    /\ Mapped(p, v) => /\ mem[FrameOf(p, v)] = val[p][v]
                       /\ ~NeedsWrite(EntryOf(p, v)) => Stored(p, v)
    /\ ~Mapped(p, v) /\ ~Leaving(p, v) => Stored(p, v)
Kept == \A p \in Procs, v \in Pages : PageKept(p, v)

\* A page on its way out is current in the victim's frame and goes to its own
\* store; the entry whose bits are reset afterwards is no longer in use.
PageOut(a, p, v) ==
  Leaver(a, p, v) =>
    /\ th[a].bsd = BsOf(p, v) /\ th[a].off = BsOff(v) /\ th[a].bsd \in Stores
    /\ ~Mapped(p, v) /\ mem[th[a].fr] = val[p][v]
    /\ th[a].ept \in Frames /\ pt[th[a].ept][th[a].epti].pt_pres = 0
WriteOut == \A a \in Actors, p \in Procs, v \in Pages : PageOut(a, p, v)

\* A page on its way in comes from its own store.
PageIn(p, l) == l.pc = "read_bs" => l.bsd = BsOf(p, l.v) /\ l.off = BsOff(l.v)
ReadIn == \A p \in Procs : PageIn(p, th[p])

DataInv == Kept /\ WriteOut /\ ReadIn

-----------------------------------------------------------------------------
(* Facts about a state. *)

\* A page below the size of the heap is in one of the stores of the heap.
LEMMA StoreOfPage ==
  ASSUME NEW h \in 0 .. MAXHEAP, NEW v \in Pages, v < h
  PROVE  v \div MAX_PAGES_PER_BS \in 0 .. bsReq(h) - 1 /\ v \div MAX_PAGES_PER_BS \in Stores
<1> DEFINE m == MAX_PAGES_PER_BS
           k == v \div m
           q == (h - 1) \div m
<1>1. m \in Nat /\ m > 0 /\ MAXHEAP \in Nat
  BY SizesAssumption
<1>2. v \in Nat /\ h \in Nat /\ h # 0 /\ v <= h - 1
  BY <1>1 DEF Pages
<1>3. k \in Nat /\ q \in Nat
  BY <1>1, <1>2
<1>4. k <= q
  <2>1. m * k <= v
    <3> DEFINE y == m * k
               r == v % m
    <3>1. v = y + r
      BY <1>1, <1>2, DivMod
    <3>2. r \in Nat /\ y \in Nat
      BY <1>1, <1>2, <1>3
    <3> HIDE DEF y, r
    <3>3. y <= v
      BY <3>1, <3>2
    <3> QED BY <3>3 DEF y
  <2>2. h - 1 < m * q + m
    <3> DEFINE y == m * q
               r == (h - 1) % m
    <3>1. h - 1 \in Nat
      BY <1>2
    <3>2. h - 1 = y + r
      BY <1>1, <3>1, DivMod
    <3>3. r \in Nat /\ r < m /\ y \in Nat
      BY <1>1, <1>3, <3>1
    <3> HIDE DEF y, r
    <3>4. h - 1 < y + m
      BY <1>1, <1>2, <3>2, <3>3
    <3> QED BY <3>4 DEF y
  <2> HIDE DEF k, q, m
  <2>3. SUFFICES ASSUME q + 1 <= k PROVE FALSE
    BY <1>3
  <2>4. m * (q + 1) <= m * k /\ m * (q + 1) = m * q + m
    BY <1>1, <1>3, <2>3
  <2> DEFINE x == m * (q + 1)
             y == m * k
             z == m * q + m
  <2>5. x \in Nat /\ y \in Nat /\ z \in Nat
    BY <1>1, <1>3
  <2>6. x <= y /\ x = z /\ y <= v /\ h - 1 < z
    BY <2>1, <2>2, <2>4
  <2> HIDE DEF x, y, z
  <2> QED BY <1>2, <2>5, <2>6
<1>5. k \in 0 .. bsReq(h) - 1
  <2>1. bsReq(h) = 1 + q
    BY <1>2 DEF bsReq
  <2> HIDE DEF k, q, m
  <2> QED BY <1>3, <1>4, <2>1
<1>6. k \in Stores
  <2> HIDE DEF k
  <2>1. bsReq(h) \in 0 .. MAX_BS_ENTRIES
    BY BsReqBound
  <2> QED BY <1>3, <1>5, <2>1, SizesAssumption DEF Stores
<1> QED BY <1>5, <1>6

\* No two pages are kept in the same place.
LEMMA OwnPlace ==
  ASSUME IInv, OwnInv, NEW p \in Procs, NEW q \in Procs, NEW v \in Pages, NEW w \in Pages,
         Live(p), Live(q), v < proc[p].hsize, w < proc[q].hsize,
         BsOf(p, v) \in Stores, BsOf(p, v) = BsOf(q, w), BsOff(v) = BsOff(w)
  PROVE  p = q /\ v = w
<1> DEFINE m == MAX_PAGES_PER_BS
           k == v \div m
           l == w \div m
           s == BsOf(p, v)
<1>1. proc[p].hsize \in 0 .. MAXHEAP /\ proc[q].hsize \in 0 .. MAXHEAP
  BY DEF IInv, TypeOK
<1>2. k \in StoreIdx(p) /\ k \in Stores /\ l \in StoreIdx(q) /\ l \in Stores
  BY <1>1, StoreOfPage DEF StoreIdx
<1>3. Has(p, k, s) /\ Has(q, l, s)
  BY <1>2 DEF Has, BsOf
<1>4. p = q /\ k = l
  <2> HIDE DEF k, l, s
  <2> QED BY <1>2, <1>3 DEF OwnInv, StoreMap, s
<1>5. v \in Nat /\ w \in Nat /\ m \in Nat \ {0}
  BY SizesAssumption DEF Pages
<1>6. v = m * k + (v % m) /\ w = m * l + (w % m)
  BY <1>5, DivMod
<1>7. v % m = w % m
  BY DEF BsOff
<1> HIDE DEF k, l, m
<1>8. v = w
  BY <1>4, <1>6, <1>7, Zenon
<1> QED BY <1>4, <1>8

\* The victim's frame belongs to a page of a live process.
LEMMA LeaverFacts ==
  ASSUME IInv, TableInv, NEW a \in Actors, NEW p, NEW v, Leaver(a, p, v)
  PROVE  /\ th[a].fr \in Frames /\ p \in Procs /\ v \in Pages /\ Live(p) /\ v < proc[p].hsize
         /\ Transit(a) /\ ~Queued(a) /\ Taken(th[a].fr) /\ BeingEvicted(p)
<1>1. th[a].fr \in Frames /\ Transit(a)
  BY DEF IInv, LocalsOK, Leaver, Transit
<1>2. ft.ipt[th[a].fr].status = "PAGE"
  BY DEF TableInv, TransitOK, OnItsWay, Leaver
<1>3. ~Queued(a)
  BY DEF IInv, SemaphoreOK, Queued, Leaver
<1> QED BY <1>1, <1>2, <1>3 DEF TableInv, PagesMapped, Leaver, Taken, BeingEvicted

-----------------------------------------------------------------------------
(* Steps that leave the mapping alone. *)

\* No entry is marked clean.
NoCleaner == \A f \in Frames, j \in Slots : ~NeedsWrite(pt'[f][j]) => ~NeedsWrite(pt[f][j])

\* A page stays where it is, with its contents.
Stays(p, v) ==
  /\ Running(p) /\ proc'[p] = proc[p] /\ val'[p][v] = val[p][v]
  /\ disk'[BsOf(p, v)][BsOff(v)] = disk[BsOf(p, v)][BsOff(v)]
  /\ Mapped(p, v)' <=> Mapped(p, v)
  /\ Mapped(p, v) => /\ FrameOf(p, v)' = FrameOf(p, v)
                     /\ mem'[FrameOf(p, v)] = mem[FrameOf(p, v)]
                     /\ ~NeedsWrite(EntryOf(p, v))' => ~NeedsWrite(EntryOf(p, v))
  /\ Leaving(p, v) => Leaving(p, v)'

\* A page that a step leaves alone is as well kept after it as before.
LEMMA StaysKept ==
  ASSUME NEW p \in Procs, NEW v \in Pages, PageKept(p, v), Stays(p, v)
  PROVE  PageKept(p, v)'
<1>1. HeapPage(p, v)' => HeapPage(p, v)
  BY DEF HeapPage, Stays, BsOf
<1>2. BsOf(p, v)' = BsOf(p, v)
  BY DEF Stays, BsOf
<1>3. Stored(p, v) => Stored(p, v)'
  BY <1>2 DEF Stays, Stored
<1>4. Mapped(p, v) => mem'[FrameOf(p, v)'] = mem[FrameOf(p, v)]
  BY DEF Stays
<1> QED BY <1>1, <1>3, <1>4 DEF PageKept, Stays

\* An entry is found through the page directory, which stays the same.
LEMMA EntryStays ==
  ASSUME IInv, NEW p \in Procs, NEW v \in Pages, Mapped(p, v), NoCleaner,
         pd'[p][vaddr2pdi(v)].pd_base = pd[p][vaddr2pdi(v)].pd_base
  PROVE  ~NeedsWrite(EntryOf(p, v))' => ~NeedsWrite(EntryOf(p, v))
<1> DEFINE t == pd[p][vaddr2pdi(v)].pd_base
           j == vaddr2pti(v)
<1>1. t \in Frames /\ j \in Slots
  BY Walk
<1>2. EntryOf(p, v) = pt[t][j] /\ EntryOf(p, v)' = pt'[t][j]
  BY DEF EntryOf
<1>3. NeedsWrite(EntryOf(p, v))' <=> NeedsWrite(pt'[t][j])
  BY <1>2 DEF NeedsWrite
<1> HIDE DEF t, j
<1> QED BY <1>1, <1>2, <1>3 DEF NoCleaner

\* What a calm step that neither begins nor ends a write leaves alone.
LEMMA CalmViews ==
  ASSUME IInv, IInv', TableInv, NEW a \in Actors, Calm(a),
         th[a].pc # "write_bs", th'[a].pc # "write_bs"
  PROVE  /\ \A b \in Actors, p \in Procs, v \in Pages : Leaver(b, p, v)' <=> Leaver(b, p, v)
         /\ \A b \in Actors : th'[b].pc = "write_bs" => th'[b] = th[b]
         /\ \A p \in Procs, v \in Pages :
              (Mapped(p, v)' <=> Mapped(p, v)) /\ (Mapped(p, v) => FrameOf(p, v)' = FrameOf(p, v))
         /\ \A p \in Procs : Running(p)' => Running(p)
<1>1. \A b \in Actors : th'[b].pc = "write_bs" \/ th[b].pc = "write_bs" => th'[b] = th[b]
  BY DEF Calm, Others
<1>2. \A b \in Actors, p \in Procs, v \in Pages : Leaver(b, p, v)' <=> Leaver(b, p, v)
  <2>1. \A b \in Actors : th[b].pc = "write_bs" => th[b].fr \in Frames
    BY DEF IInv, LocalsOK
  <2> QED BY <1>1, <2>1 DEF Calm, SameView, SameEntry, Leaver
<1>3. \A p \in Procs, v \in Pages :
        (Mapped(p, v)' <=> Mapped(p, v)) /\ (Mapped(p, v) => FrameOf(p, v)' = FrameOf(p, v))
  BY ViewWalk DEF Calm, SameView
<1>4. \A p \in Procs : Running(p)' => Running(p)
  BY DEF Calm, SameView, Others, Running, Live
<1> QED BY <1>1, <1>2, <1>3, <1>4

\* The process that reads a page, if there is one, goes on reading it.
LEMMA CalmRead ==
  ASSUME DataInv, NEW a \in Actors, Others(a), th'[a].pc # "read_bs", proc' = proc
  PROVE  ReadIn'
<1>1. \A p \in Procs : PageIn(p, th'[p])
  BY Kinds DEF DataInv, ReadIn, PageIn, Others
<1> QED BY <1>1 DEF ReadIn, PageIn, BsOf

\* A page on its way out stays as it is.
LEMMA OutStays ==
  ASSUME IInv, NEW b \in Actors, NEW p \in Procs, NEW v \in Pages,
         PageOut(b, p, v), Leaver(b, p, v)' => Leaver(b, p, v),
         Leaver(b, p, v)' => /\ th'[b] = th[b] /\ proc'[p] = proc[p] /\ val'[p][v] = val[p][v]
                             /\ ~Mapped(p, v)' /\ mem'[th[b].fr] = mem[th[b].fr] /\ SameBits
  PROVE  PageOut(b, p, v)'
<1>1. th[b].epti \in Slots
  BY DEF IInv, TypeOK, Thread
<1> QED BY <1>1 DEF PageOut, SameBits, BsOf

\* A calm step that does not touch the data.
LEMMA CalmData ==
  ASSUME IInv, IInv', TableInv, DataInv, NEW a \in Actors, Calm(a),
         th[a].pc # "write_bs", th'[a].pc \notin {"write_bs", "read_bs"},
         NoCleaner, UNCHANGED <<mem, disk, val>>
  PROVE  DataInv'
<1>1. /\ \A b \in Actors, p \in Procs, v \in Pages : Leaver(b, p, v)' <=> Leaver(b, p, v)
      /\ \A b \in Actors : th'[b].pc = "write_bs" => th'[b] = th[b]
      /\ \A p \in Procs, v \in Pages :
           (Mapped(p, v)' <=> Mapped(p, v)) /\ (Mapped(p, v) => FrameOf(p, v)' = FrameOf(p, v))
      /\ \A p \in Procs : Running(p)' => Running(p)
  BY CalmViews
<1>2. UNCHANGED <<pd, proc>> /\ SameBits /\ Others(a)
  BY DEF Calm, SameView
<1>3. Kept'
  <2> SUFFICES ASSUME NEW p \in Procs, NEW v \in Pages, Running(p)' PROVE PageKept(p, v)'
    BY DEF Kept, PageKept, HeapPage
  <2>1. Stays(p, v)
    BY <1>1, <1>2, EntryStays DEF Stays, Leaving
  <2> QED BY <2>1, StaysKept DEF DataInv, Kept
<1>4. WriteOut'
  <2> SUFFICES ASSUME NEW b \in Actors, NEW p \in Procs, NEW v \in Pages PROVE PageOut(b, p, v)'
    BY DEF WriteOut
  <2>1. PageOut(b, p, v)
    BY DEF DataInv, WriteOut
  <2>2. Leaver(b, p, v)' => th'[b] = th[b] /\ ~Mapped(p, v)'
    BY <1>1, <2>1 DEF Leaver, PageOut
  <2> QED BY <1>1, <1>2, <2>1, <2>2, OutStays
<1>5. ReadIn'
  BY <1>2, CalmRead
<1> QED BY <1>3, <1>4, <1>5 DEF DataInv

\* Nothing changes.
LEMMA StillData == ASSUME DataInv, Still PROVE DataInv'
<1>1. \A p \in Procs, v \in Pages :
        /\ Mapped(p, v)' = Mapped(p, v) /\ FrameOf(p, v)' = FrameOf(p, v)
        /\ EntryOf(p, v)' = EntryOf(p, v) /\ BsOf(p, v)' = BsOf(p, v)
        /\ Running(p)' = Running(p) /\ Leaving(p, v)' = Leaving(p, v)
  BY DEF Still, Mapped, FrameOf, EntryOf, BsOf, Running, Live, Leaving, Leaver
<1>2. Kept'
  BY <1>1 DEF Still, DataInv, Kept, PageKept, HeapPage, Stored, NeedsWrite
<1>3. WriteOut' /\ ReadIn'
  BY <1>1 DEF Still, DataInv, WriteOut, PageOut, Leaver, ReadIn, PageIn, BsOf
<1> QED BY <1>2, <1>3 DEF DataInv

\* getNewFrame: the clock forgets the dirty bit of an entry only when it sets
\* pt_avail instead.
LEMMA FrameData ==
  ASSUME IInv, IInv', TableInv, DataInv, NEW a \in Actors, FrameStep(a), ~Evict(a), ~WriteBs(a)
  PROVE  DataInv'
<1> USE DEF At
<1>1. SUFFICES ASSUME ~Still
               PROVE  /\ th[a].pc # "write_bs" /\ th'[a].pc \notin {"write_bs", "read_bs"}
                      /\ NoCleaner /\ UNCHANGED <<mem, disk, val>>
  <2>1. CASE Still
    BY <2>1, StillData
  <2>2. CASE ~Still
    <3>1. Calm(a)
      BY <2>2, FrameCalm
    <3> QED BY <1>1, <2>2, <3>1, CalmData
  <2> QED BY <2>1, <2>2
<1>2. pt' = pt => NoCleaner
  BY DEF NoCleaner
<1>3. CASE TakeFree(a)
  BY <1>2, <1>3, TakeFreeEffect
<1>4. CASE PickVictim(a)
  BY <1>2, <1>4, PickVictimEffect
<1>5. CASE NoFrameAvailable(a)
  BY <1>1, <1>2, <1>5, NoFrameEffect, IdleFields
<1>6. CASE StartScan(a)
  BY <1>2, <1>6, StartScanEffect
<1>7. CASE Scan(a)
  <2> DEFINE c == nextframe.gca
             t == pd[ft.ipt[c].pid][vaddr2pdi(ft.ipt[c].vpn)].pd_base
             j == vaddr2pti(ft.ipt[c].vpn)
  <2>1. /\ th[a].pc = "scan" /\ th'[a].pc \in {"scan", "init", "evict"}
        /\ UNCHANGED <<mem, disk, val>>
        /\ pt' = pt \/ pt' = [pt EXCEPT ![t][j] = Aged(pt[t][j])]
    BY <1>1, <1>7, ScanEffect
  <2>2. \A x \in PTE : ~NeedsWrite(Aged(x)) => ~NeedsWrite(x)
    <3> SUFFICES ASSUME NEW x \in PTE PROVE NeedsWrite(x) => NeedsWrite(Aged(x))
      OBVIOUS
    <3>1. \/ Aged(x) = [x EXCEPT !.pt_dirty = 0, !.pt_avail = 1]
          \/ Aged(x) = [x EXCEPT !.pt_acc = 0]
          \/ Aged(x) = x
      BY DEF Aged
    <3> QED BY <3>1 DEF NeedsWrite, PTE
  <2>3. CASE pt' # pt
    <3> DEFINE x == Aged(pt[t][j])
    <3>1. pt' = [pt EXCEPT ![t][j] = x]
      BY <2>1, <2>3
    <3>2. \A f \in Frames, k \in Slots :
            f = t /\ k = j /\ ~NeedsWrite(x) => ~NeedsWrite(pt[f][k])
      <4>1. \A f \in Frames, k \in Slots : pt[f][k] \in PTE
        BY DEF IInv, TypeOK
      <4> HIDE DEF t, j
      <4> QED BY <2>2, <4>1
    <3> HIDE DEF x, t, j
    <3>3. \A f \in Frames, k \in Slots : pt'[f][k] = pt[f][k] \/ (f = t /\ k = j /\ pt'[f][k] = x)
      BY <3>1 DEF IInv, TypeOK
    <3>4. NoCleaner
      BY <3>2, <3>3 DEF NoCleaner
    <3> QED BY <2>1, <3>4
  <2> QED BY <1>2, <2>1, <2>3
<1> QED BY <1>3, <1>4, <1>5, <1>6, <1>7 DEF FrameStep

\* The MMU performs an access: a write marks the entry, and changes the one
\* frame in which the page is.
LEMMA PerformData ==
  ASSUME IInv, IInv', OwnInv, TableInv, DataInv, NEW a \in Procs, NEW u \in Pages,
         NEW w \in Values \cup {NOWRITE}, Access(a) \/ Retry(a), Mapped(a, u), Perform(a, u, w)
  PROVE  DataInv'
<1> DEFINE t == pd[a][vaddr2pdi(u)].pd_base
           j == vaddr2pti(u)
           x == Touched(pt[t][j], w)
           g == FrameOf(a, u)
<1>1. a \in Actors /\ MayRun(a) /\ th[a].pc \in {"user", "access"} /\ cpu = NOBODY /\ Live(a)
  BY UserEffect
<1>2. Calm(a) /\ th'[a] = Idle
  BY UserCalm, PerformEffect
<1>3. /\ \A b \in Actors, p \in Procs, v \in Pages : Leaver(b, p, v)' <=> Leaver(b, p, v)
      /\ \A b \in Actors : th'[b].pc = "write_bs" => th'[b] = th[b]
      /\ \A p \in Procs, v \in Pages :
           (Mapped(p, v)' <=> Mapped(p, v)) /\ (Mapped(p, v) => FrameOf(p, v)' = FrameOf(p, v))
      /\ \A p \in Procs : Running(p)' => Running(p)
  BY <1>1, <1>2, CalmViews, IdleFields
<1>4. UNCHANGED <<pd, proc, disk>> /\ SameBits /\ Others(a)
  BY <1>2, PerformEffect DEF Calm, SameView
<1>5. Running(a)
  <2>1. \A b \in Actors : th[b].pc # "kill"
    BY <1>1, EnvironmentAssumption DEF OwnInv, KillAlone
  <2> QED BY <1>1, <2>1, RunningLive
<1>6. t \in Frames /\ j \in Slots
  BY Walk
<1>7. g \in Frames /\ ft.ipt[g].pid = a /\ ft.ipt[g].vpn = u /\ ~Taken(g)
  BY <1>5 DEF TableInv, MappedPages
<1>8. /\ w # NOWRITE => NeedsWrite(x)
      /\ ~NeedsWrite(x) => ~NeedsWrite(pt[t][j])
  <2>1. pt[t][j] \in PTE
    BY <1>6 DEF IInv, TypeOK
  <2> HIDE DEF t, j
  <2> QED BY <2>1 DEF Touched, NeedsWrite, PTE
<1>9. pt' = [pt EXCEPT ![t][j] = x]
  BY DEF Perform
<1>10. NoCleaner /\ pt'[t][j] = x
  <2> HIDE DEF x, t, j
  <2>1. pt'[t][j] = x
    BY <1>6, <1>9 DEF IInv, TypeOK
  <2>2. \A f \in Frames, k \in Slots : pt'[f][k] = pt[f][k] \/ (f = t /\ k = j /\ pt'[f][k] = x)
    BY <1>9 DEF IInv, TypeOK
  <2> QED BY <1>8, <2>1, <2>2 DEF NoCleaner
<1>11. /\ w = NOWRITE => UNCHANGED <<mem, val>>
       /\ w # NOWRITE => mem' = [mem EXCEPT ![g] = w] /\ val' = [val EXCEPT ![a][u] = w]
  BY DEF Perform
<1>12. /\ \A f \in Frames : f # g => mem'[f] = mem[f]
       /\ \A p \in Procs, v \in Pages : p # a \/ v # u => val'[p][v] = val[p][v]
       /\ w # NOWRITE => mem'[g] = w /\ val'[a][u] = w
  <2> HIDE DEF g
  <2> QED BY <1>7, <1>11, SMTT(30) DEF IInv, TypeOK
<1>13. \A p \in Procs, v \in Pages : Running(p) /\ Mapped(p, v) /\ (p # a \/ v # u) =>
         FrameOf(p, v) \in Frames \ {g}
  BY <1>7 DEF TableInv, MappedPages
<1>14. EntryOf(a, u)' = x
  BY <1>4, <1>10 DEF EntryOf
<1> HIDE DEF t, j, x, g
<1>15. Kept'
  <2> SUFFICES ASSUME NEW p \in Procs, NEW v \in Pages, Running(p)' PROVE PageKept(p, v)'
    BY DEF Kept, PageKept, HeapPage
  <2>1. PageKept(p, v) /\ Running(p)
    BY <1>3 DEF DataInv, Kept
  <2>2. CASE w = NOWRITE \/ p # a \/ v # u
    <3>1. val'[p][v] = val[p][v] /\ (Mapped(p, v) => mem'[FrameOf(p, v)] = mem[FrameOf(p, v)])
      BY <1>11, <1>12, <1>13, <2>1, <2>2
    <3>2. Stays(p, v)
      BY <1>3, <1>4, <1>10, <2>1, <3>1, EntryStays DEF Stays, Leaving
    <3> QED BY <2>1, <3>2, StaysKept
  <2>3. CASE w # NOWRITE /\ p = a /\ v = u
    <3>1. Mapped(p, v)' /\ mem'[FrameOf(p, v)'] = val'[p][v]
      BY <1>3, <1>12, <2>3 DEF g
    <3>2. NeedsWrite(EntryOf(p, v))'
      BY <1>8, <1>14, <2>3 DEF NeedsWrite
    <3> QED BY <3>1, <3>2 DEF PageKept
  <2> QED BY <2>2, <2>3
<1>16. WriteOut'
  <2> SUFFICES ASSUME NEW b \in Actors, NEW p \in Procs, NEW v \in Pages PROVE PageOut(b, p, v)'
    BY DEF WriteOut
  <2>1. PageOut(b, p, v)
    BY DEF DataInv, WriteOut
  <2>2. Leaver(b, p, v)' => Leaver(b, p, v) /\ th'[b] = th[b] /\ ~Mapped(p, v) /\ ~Mapped(p, v)'
    BY <1>3, <2>1 DEF Leaver, PageOut
  <2>3. Leaver(b, p, v) => th[b].fr \in Frames /\ th[b].fr # g
    BY <1>7, LeaverFacts
  <2>4. Leaver(b, p, v)' => val'[p][v] = val[p][v] /\ mem'[th[b].fr] = mem[th[b].fr]
    BY <1>12, <2>2, <2>3
  <2> QED BY <1>4, <2>1, <2>2, <2>4, OutStays
<1>17. ReadIn'
  BY <1>1, <1>2, <1>4, CalmRead, IdleFields
<1> QED BY <1>15, <1>16, <1>17 DEF DataInv

\* A fault, and pf_handler up to its first call of getNewFrame.
LEMMA UserData ==
  ASSUME IInv, IInv', OwnInv, TableInv, DataInv, NEW a \in Procs,
         Access(a) \/ Retry(a) \/ PfHandler(a)
  PROVE  DataInv'
<1>0. Calm(a) /\ a \in Actors
  BY UserCalm, Kinds
<1>1. pt' = pt => NoCleaner
  BY DEF NoCleaner
<1>2. CASE Access(a) \/ Retry(a)
  <2>1. PICK u \in Pages, w \in Values \cup {NOWRITE} :
          \/ Mapped(a, u) /\ Perform(a, u, w)
          \/ ~Mapped(a, u) /\ PageFault(a, u, w)
    BY <1>2, UserEffect
  <2>2. CASE Mapped(a, u) /\ Perform(a, u, w)
    BY <1>2, <2>2, PerformData
  <2>3. CASE PageFault(a, u, w)
    <3>1. th[a].pc \in {"user", "access"} /\ th'[a].pc = "pf" /\ UNCHANGED <<pt, mem, disk, val>>
      BY <1>2, <2>3, UserEffect, PageFaultEffect
    <3> QED BY <1>0, <1>1, <3>1, CalmData
  <2> QED BY <2>1, <2>2, <2>3
<1>3. CASE PfHandler(a)
  <2>1. th[a].pc = "pf" /\ th'[a].pc \in {"exit", "alloc"} /\ UNCHANGED <<pt, mem, disk, val>>
    BY <1>3, PfHandlerEffect DEF At
  <2> QED BY <1>0, <1>1, <2>1, CalmData
<1> QED BY <1>2, <1>3

\* The remote disk has the page that leaves, and only its place has changed.
LEMMA WriteBsData ==
  ASSUME IInv, IInv', OwnInv, TableInv, DataInv, NEW a \in Actors, WriteBs(a)
  PROVE  DataInv'
<1> DEFINE l == th[a]
           fr == l.fr
           q == ft.ipt[fr].pid
           u == ft.ipt[fr].vpn
           x == [pt[l.ept][l.epti] EXCEPT !.pt_dirty = 0, !.pt_avail = 0]
<1>1. /\ At(a, "write_bs") /\ Others(a) /\ th'[a].pc = "init" /\ fr \in Frames
      /\ disk' = [disk EXCEPT ![l.bsd][l.off] = mem[fr]]
      /\ pt' = [pt EXCEPT ![l.ept][l.epti] = x]
      /\ UNCHANGED <<ft, pd, mem, val, proc>>
  BY WriteBsEffect
<1>2. th[a].pc = "write_bs" /\ MayRun(a) /\ Transit(a) /\ Leaver(a, q, u)
  BY <1>1 DEF At, Transit, Leaver
<1>3. q \in Procs /\ u \in Pages /\ Live(q) /\ u < proc[q].hsize
  BY <1>2, LeaverFacts
<1>4. /\ l.bsd = BsOf(q, u) /\ l.off = BsOff(u) /\ l.bsd \in Stores
      /\ ~Mapped(q, u) /\ mem[fr] = val[q][u]
      /\ l.ept \in Frames /\ pt[l.ept][l.epti].pt_pres = 0
  BY <1>2, <1>3 DEF DataInv, WriteOut, PageOut
<1>5. /\ \A b \in Actors : b # a => ~Transit(b) /\ th[b].pc # "kill"
      /\ \A p \in Procs : Running(p) <=> Live(p)
  BY <1>2, FrameInHand
<1>6. l.epti \in Slots /\ l.off \in 0 .. MAX_PAGES_PER_BS - 1
  BY DEF IInv, TypeOK, Thread
<1>7. SameBits
  <2>1. x.pt_pres = pt[l.ept][l.epti].pt_pres /\ x.pt_base = pt[l.ept][l.epti].pt_base
    OBVIOUS
  <2> HIDE DEF x, l
  <2> QED BY <1>1, <2>1, BitsKept
<1>8. \A p \in Procs, v \in Pages :
        (Mapped(p, v)' <=> Mapped(p, v)) /\ (Mapped(p, v) => FrameOf(p, v)' = FrameOf(p, v))
  BY <1>1, <1>7, ViewWalk
<1>9. \A f \in Frames, j \in Slots : pt[f][j].pt_pres = 1 => pt'[f][j] = pt[f][j]
  <2> DEFINE t == l.ept
             k == l.epti
  <2>1. pt' = [pt EXCEPT ![t][k] = x] /\ pt[t][k].pt_pres = 0 /\ pt \in [Frames -> [Slots -> PTE]]
    BY <1>1, <1>4 DEF IInv, TypeOK
  <2> HIDE DEF t, k, x
  <2> QED BY <2>1
<1>10. \A b \in Actors : th'[b].pc \notin {"write_bs", "read_bs"}
  BY <1>1, <1>5 DEF Others, Transit
<1>11. /\ disk'[l.bsd][l.off] = mem[fr]
       /\ \A s \in Stores, o \in 0 .. MAX_PAGES_PER_BS - 1 :
            s # l.bsd \/ o # l.off => disk'[s][o] = disk[s][o]
  <2> DEFINE r == l.bsd
             y == l.off
             z == mem[fr]
  <2>1. disk' = [disk EXCEPT ![r][y] = z] /\ r \in Stores /\ y \in 0 .. MAX_PAGES_PER_BS - 1
    BY <1>1, <1>4, <1>6
  <2>2. disk \in [Stores -> [0 .. MAX_PAGES_PER_BS - 1 -> Values]]
    BY DEF IInv, TypeOK
  <2> HIDE DEF r, y, z
  <2>3. /\ disk'[r][y] = z
        /\ \A s \in Stores, o \in 0 .. MAX_PAGES_PER_BS - 1 : s # r \/ o # y => disk'[s][o] = disk[s][o]
    BY <2>1, <2>2
  <2> QED BY <2>3 DEF r, y, z
<1>12. Kept'
  <2> SUFFICES ASSUME NEW p \in Procs, NEW v \in Pages, HeapPage(p, v)' PROVE PageKept(p, v)'
    BY DEF Kept, PageKept
  <2>1. Live(p) /\ Running(p) /\ v < proc[p].hsize /\ BsOf(p, v) \in Stores
    BY <1>1, <1>5 DEF HeapPage, Running, Live, BsOf
  <2>2. CASE p = q /\ v = u
    <3>1. ~Mapped(p, v)'
      BY <1>4, <1>8, <2>2
    <3>2. Stored(p, v)'
      BY <1>1, <1>4, <1>11, <2>2 DEF Stored, BsOf
    <3> QED BY <3>1, <3>2 DEF PageKept
  <2>3. CASE p # q \/ v # u
    <3>1. BsOf(p, v) # l.bsd \/ BsOff(v) # l.off
      <4> HIDE DEF l, fr, q, u
      <4> QED BY <1>3, <1>4, <2>1, <2>3, OwnPlace
    <3>2. BsOff(v) \in 0 .. MAX_PAGES_PER_BS - 1
      BY SizesAssumption DEF BsOff, Pages
    <3>3. disk'[BsOf(p, v)][BsOff(v)] = disk[BsOf(p, v)][BsOff(v)]
      <4> HIDE DEF l, fr
      <4> QED BY <1>11, <2>1, <3>1, <3>2
    <3>4. Mapped(p, v) => EntryOf(p, v)' = EntryOf(p, v)
      <4> DEFINE f == pd[p][vaddr2pdi(v)].pd_base
                 j == vaddr2pti(v)
      <4>1. Mapped(p, v) => f \in Frames /\ j \in Slots /\ pt[f][j].pt_pres = 1
        BY Walk, Zenon
      <4>2. Mapped(p, v) => pt'[f][j] = pt[f][j]
        BY <1>9, <4>1, Zenon
      <4>3. pd' = pd
        BY <1>1
      <4> QED BY ONLY <4>2, <4>3, Zenon DEF EntryOf
    <3>5. Mapped(p, v) => (NeedsWrite(EntryOf(p, v))' <=> NeedsWrite(EntryOf(p, v)))
      BY <3>4 DEF NeedsWrite
    <3>6. ~Leaving(p, v)
      BY <1>2, <1>5, <2>3 DEF Leaving, Leaver, Transit
    <3>7. Stays(p, v)
      BY <1>1, <1>8, <2>1, <3>3, <3>5, <3>6 DEF Stays
    <3> QED BY <3>7, StaysKept DEF DataInv, Kept
  <2> QED BY <2>2, <2>3
<1>13. WriteOut' /\ ReadIn'
  BY <1>10, Kinds DEF WriteOut, PageOut, Leaver, ReadIn, PageIn
<1> QED BY <1>12, <1>13 DEF DataInv

-----------------------------------------------------------------------------
(* The end of a process and the beginning of one. *)

\* A step that changes frame entries and processes only, and none of those that
\* a page on its way depends on.
LEMMA QuietData ==
  ASSUME IInv, TableInv, DataInv, UNCHANGED <<pd, pt, mem, disk, val>>,
         \A p \in Procs : Running(p)' => Running(p) /\ proc'[p] = proc[p],
         \A b \in Actors : th'[b].pc = "write_bs" \/ th[b].pc = "write_bs" =>
           th'[b] = th[b] /\ SameEntry(ft, ft', th[b].fr),
         \A p \in Procs : BeingEvicted(p) => proc'[p] = proc[p],
         \A p \in Procs : th'[p].pc = "read_bs" => th'[p] = th[p] /\ proc'[p] = proc[p]
  PROVE  DataInv'
<1>1. \A b \in Actors, p \in Procs, v \in Pages : Leaver(b, p, v)' <=> Leaver(b, p, v)
  BY DEF Leaver, SameEntry
<1>2. \A p \in Procs, v \in Pages : /\ Mapped(p, v)' = Mapped(p, v) /\ FrameOf(p, v)' = FrameOf(p, v)
                                    /\ NeedsWrite(EntryOf(p, v))' = NeedsWrite(EntryOf(p, v))
  BY DEF Mapped, FrameOf, EntryOf, NeedsWrite
<1>3. Kept'
  <2> SUFFICES ASSUME NEW p \in Procs, NEW v \in Pages, Running(p)' PROVE PageKept(p, v)'
    BY DEF Kept, PageKept, HeapPage
  <2>1. Stays(p, v)
    BY <1>1, <1>2 DEF Stays, Leaving
  <2> QED BY <2>1, StaysKept DEF DataInv, Kept
<1>4. WriteOut'
  <2> SUFFICES ASSUME NEW b \in Actors, NEW p \in Procs, NEW v \in Pages PROVE PageOut(b, p, v)'
    BY DEF WriteOut
  <2>1. PageOut(b, p, v)
    BY DEF DataInv, WriteOut
  <2>2. Leaver(b, p, v)' => Leaver(b, p, v) /\ th'[b] = th[b] /\ proc'[p] = proc[p] /\ ~Mapped(p, v)'
    BY <1>1, <1>2, <2>1, LeaverFacts DEF Leaver, PageOut
  <2>3. SameBits
    BY DEF SameBits
  <2> QED BY <2>1, <2>2, <2>3, OutStays
<1>5. ReadIn'
  BY DEF DataInv, ReadIn, PageIn, BsOf
<1> QED BY <1>3, <1>4, <1>5 DEF DataInv

\* freeProcFrames does not clear the frame of a page on its way.
LEMMA KillFrameData ==
  ASSUME IInv, OwnInv, TableInv, DataInv, NEW a \in Actors, KillFrame(a)
  PROVE  DataInv'
<1> DEFINE f == th[a].i
           q == th[a].pid
<1>1. SUFFICES ASSUME ~Still PROVE DataInv'
  BY StillData
<1>2. /\ th[a].pc = "kill" /\ th'[a].pc = "kill" /\ th'[a].pid = q /\ Others(a)
      /\ ft.ipt[f].pid # q => SameEntry(ft, ft', f)
      /\ \A g \in Frames : g # f => SameEntry(ft, ft', g)
      /\ UNCHANGED <<pd, pt, mem, disk, val, proc>>
  BY <1>1, KillFrameEffect DEF At
<1>3. \A p \in Procs : Running(p)' => Running(p)
  BY <1>2 DEF Running, Live, Others
<1>4. \A b \in Actors : th'[b].pc = "write_bs" \/ th[b].pc = "write_bs" =>
        th'[b] = th[b] /\ SameEntry(ft, ft', th[b].fr)
  <2> SUFFICES ASSUME NEW b \in Actors, th'[b].pc = "write_bs" \/ th[b].pc = "write_bs"
               PROVE  th'[b] = th[b] /\ SameEntry(ft, ft', th[b].fr)
    OBVIOUS
  <2>1. th'[b] = th[b] /\ th[b].pc = "write_bs"
    BY <1>2 DEF Others
  <2>2. th[b].fr \in Frames
    BY <2>1 DEF IInv, LocalsOK
  <2>3. ft.ipt[th[b].fr].pid # q
    BY <1>2, <2>1 DEF OwnInv, KillAlone, BeingEvicted
  <2> QED BY <1>2, <2>1, <2>2, <2>3
<1>5. \A p \in Procs : th'[p].pc = "read_bs" => th'[p] = th[p]
  BY <1>2, Kinds DEF Others
<1> QED BY <1>2, <1>3, <1>4, <1>5, QuietData

\* The end of kill.
LEMMA FinishKillData ==
  ASSUME IInv, IInv', OwnInv, TableInv, DataInv, NEW a \in Actors, FinishKill(a)
  PROVE  DataInv'
<1> DEFINE q == th[a].pid
<1>1. /\ th[a].pc = "kill" /\ q \in Procs
      /\ proc'[q] = [proc[q] EXCEPT !.prstate = "free"]
      /\ \A p \in Procs : p # q => proc'[p] = proc[p]
      /\ th'[a] = Idle /\ th'[q] = Idle
      /\ \A b \in Actors : b # a /\ b # q => th'[b] = th[b]
      /\ UNCHANGED <<ft, pd, pt, mem, disk, val>>
  BY FinishKillEffect DEF At
<1>2. proc'[q].prstate = "free" /\ q \in Actors
  BY <1>1, Kinds DEF IInv, TypeOK
<1>3. th[q].pc \notin {"write_bs", "read_bs"} /\ (q = a \/ th[q].pc # "kill") /\ ~BeingEvicted(q)
  <2>1. Queued(q) => th[q].pc \in {"pf", "alloc"}
    BY <1>2 DEF IInv, SemaphoreOK, Queued
  <2> QED BY <1>1, <2>1 DEF OwnInv, KillAlone, OutsideFaultPath
<1> HIDE DEF q
<1>4. \A p \in Procs : Running(p)' => Running(p) /\ p # q
  <2>1. \A p \in Procs : p = q => ~Live(p)'
    BY <1>2 DEF Live
  <2>2. \A b \in Actors : th[b].pc = "kill" => b = a \/ th'[b] = th[b]
    BY <1>1, <1>3
  <2>3. \A p \in Procs : p # q => Live(p)' = Live(p)
    BY <1>1 DEF Live
  <2> QED BY <1>1, <2>1, <2>2, <2>3 DEF Running, q
<1>5. \A b \in Actors : th'[b].pc = "write_bs" \/ th[b].pc = "write_bs" =>
        th'[b] = th[b] /\ SameEntry(ft, ft', th[b].fr)
  BY <1>1, <1>3, IdleFields DEF SameEntry
<1>6. \A p \in Procs : th'[p].pc = "read_bs" => th'[p] = th[p] /\ proc'[p] = proc[p]
  BY <1>1, IdleFields, Kinds
<1>7. \A p \in Procs : BeingEvicted(p) => proc'[p] = proc[p]
  BY <1>1, <1>3
<1> QED BY <1>1, <1>4, <1>5, <1>6, <1>7, QuietData

\* The end of vcreate: the heap starts with what its stores hold.
LEMMA FinishVcreateData ==
  ASSUME IInv, IInv', OwnInv, TableInv, DataInv, NEW a \in Creators, FinishVcreate(a)
  PROVE  DataInv'
<1> DEFINE q == th[a].pid
           h == th[a].h
           map == pbsdFor(h)
           new == [v \in Pages |-> LET s == map[v \div MAX_PAGES_PER_BS]
                                   IN  IF v < h /\ s \in Stores THEN disk[s][BsOff(v)] ELSE 0]
<1>1. SUFFICES ASSUME ~Still PROVE DataInv'
  BY StillData
<1>2. /\ th[a].pc = "init_pd" /\ q \in Procs /\ SlotFree(q)
      /\ pd' = [pd EXCEPT ![q] = [i \in Tables |-> NoPDE]]
      /\ proc'[q] = [prstate |-> "live", hsize |-> h, pbsd |-> map]
      /\ \A p \in Procs : p # q => proc'[p] = proc[p]
      /\ val' = [val EXCEPT ![q] = new]
      /\ th'[a] = Idle /\ th'[q] = Idle
      /\ \A b \in Actors : b # a /\ b # q => th'[b] = th[b]
      /\ UNCHANGED <<ft, pt, mem, disk>>
  BY <1>1, FinishVcreateEffect DEF At
<1>3. ~Live(q) /\ th[q].pc = "user" /\ a \in Actors /\ q \in Actors
  BY <1>2, Kinds DEF IInv, LocalsOK, SlotFree, Live
<1>4. /\ \A p \in Procs : p # q => pd'[p] = pd[p] /\ val'[p] = val[p]
      /\ val'[q] = new /\ \A i \in Tables : pd'[q][i].pd_pres = 0
  <2> HIDE DEF q, new
  <2> QED BY <1>2 DEF IInv, TypeOK, NoPDE
<1>5. proc'[q].hsize = h /\ proc'[q].pbsd = map
  BY <1>2
<1>6. \A v \in Pages : new[v] = IF v < h /\ map[v \div MAX_PAGES_PER_BS] \in Stores
                                THEN disk[map[v \div MAX_PAGES_PER_BS]][BsOff(v)] ELSE 0
  OBVIOUS
<1> HIDE DEF q, h, map, new
<1>7. \A b \in Actors : th'[b].pc = "write_bs" \/ th[b].pc = "write_bs" => th'[b] = th[b]
  BY <1>2, <1>3, IdleFields
<1>8. \A b \in Actors, p \in Procs, v \in Pages : Leaver(b, p, v)' <=> Leaver(b, p, v)
  <2>1. ft' = ft
    BY <1>2
  <2> QED BY <1>7, <2>1 DEF Leaver
<1>9. \A p \in Procs, v \in Pages : p # q =>
        /\ Mapped(p, v)' = Mapped(p, v) /\ FrameOf(p, v)' = FrameOf(p, v)
        /\ NeedsWrite(EntryOf(p, v))' = NeedsWrite(EntryOf(p, v))
  BY <1>2, <1>4 DEF Mapped, FrameOf, EntryOf, NeedsWrite
<1>10. \A p \in Procs : p # q => (Running(p)' => Running(p))
  BY <1>2, <1>3 DEF Running, Live
<1>11. Kept'
  <2> SUFFICES ASSUME NEW p \in Procs, NEW v \in Pages, HeapPage(p, v)' PROVE PageKept(p, v)'
    BY DEF Kept, PageKept
  <2>1. CASE p # q
    <3>1. Running(p)
      BY <1>10, <2>1 DEF HeapPage
    <3>2. Stays(p, v)
      BY <1>2, <1>4, <1>8, <1>9, <2>1, <3>1 DEF Stays, Leaving
    <3> QED BY <3>2, StaysKept DEF DataInv, Kept
  <2>2. CASE p = q
    <3>1. ~Mapped(p, v)'
      BY <1>4, <2>2, Walk DEF Mapped
    <3>2. BsOf(p, v)' = map[v \div MAX_PAGES_PER_BS] /\ v < h /\ BsOf(p, v)' \in Stores
      BY <1>5, <2>2 DEF HeapPage, BsOf
    <3>3. Stored(p, v)'
      BY <1>2, <1>4, <1>6, <2>2, <3>2 DEF Stored
    <3> QED BY <3>1, <3>3 DEF PageKept
  <2> QED BY <2>1, <2>2
<1>12. WriteOut'
  <2> SUFFICES ASSUME NEW b \in Actors, NEW p \in Procs, NEW v \in Pages PROVE PageOut(b, p, v)'
    BY DEF WriteOut
  <2>1. PageOut(b, p, v)
    BY DEF DataInv, WriteOut
  <2>2. Leaver(b, p, v) => p # q /\ th'[b] = th[b]
    BY <1>3, <1>7, LeaverFacts DEF Leaver
  <2>3. Leaver(b, p, v)' => /\ Leaver(b, p, v) /\ th'[b] = th[b] /\ proc'[p] = proc[p]
                            /\ val'[p][v] = val[p][v] /\ ~Mapped(p, v)'
    BY <1>2, <1>4, <1>8, <1>9, <2>1, <2>2 DEF PageOut
  <2>4. SameBits /\ mem' = mem
    BY <1>2 DEF SameBits
  <2> QED BY <2>1, <2>3, <2>4, OutStays
<1>13. ReadIn'
  <2>1. \A p \in Procs : th'[p].pc = "read_bs" => p # q /\ th'[p] = th[p]
    BY <1>2, Kinds, IdleFields
  <2> QED BY <1>2, <2>1 DEF DataInv, ReadIn, PageIn, BsOf
<1> QED BY <1>11, <1>12, <1>13 DEF DataInv

-----------------------------------------------------------------------------
(* Steps that fill a frame. *)

\* A frame in hand that is not written out becomes a page directory, a page
\* table or the frame of a page: no page is in it, and none is on its way out.
LEMMA FillData ==
  ASSUME IInv, IInv', OwnInv, TableInv, DataInv, NEW a \in Actors, At(a, "init"), Others(a),
         th'[a].pc # "write_bs", a \in Procs => PageIn(a, th'[a]),
         UNCHANGED <<disk, val, proc>>,
         mem' = mem \/ mem' = [mem EXCEPT ![th[a].fr] = 0],
         \A p \in Procs, v \in Pages : Live(p) => SamePage(p, v)
  PROVE  DataInv'
<1> DEFINE fr == th[a].fr
<1>1. MayRun(a) /\ Transit(a) /\ th[a].pc = "init"
  BY DEF At, Transit
<1>2. /\ fr \in Frames
      /\ \A b \in Actors : b # a => ~Transit(b) /\ th[b].pc # "kill"
      /\ \A p \in Procs : Running(p) <=> Live(p)
      /\ \A p \in Procs, v \in Pages : Live(p) /\ Mapped(p, v) => FrameOf(p, v) \in Frames \ {fr}
  BY <1>1, FrameInHand
<1>3. \A f \in Frames : f # fr => mem'[f] = mem[f]
  <2> HIDE DEF fr
  <2>1. mem' = mem \/ mem' = [mem EXCEPT ![fr] = 0]
    BY DEF fr
  <2> QED BY <2>1 DEF IInv, TypeOK
<1>4. \A b \in Actors : th[b].pc # "write_bs" /\ th'[b].pc # "write_bs"
  BY <1>1, <1>2 DEF Transit, Others
<1>5. \A p \in Procs : Running(p)' => Running(p) /\ Live(p)
  BY <1>2 DEF Running, Live
<1> HIDE DEF fr
<1>6. Kept'
  <2> SUFFICES ASSUME NEW p \in Procs, NEW v \in Pages, Running(p)' PROVE PageKept(p, v)'
    BY DEF Kept, PageKept, HeapPage
  <2>1. Running(p) /\ Live(p) /\ SamePage(p, v) /\ ~Leaving(p, v)
    BY <1>4, <1>5 DEF Leaving, Leaver
  <2>2. Mapped(p, v) => mem'[FrameOf(p, v)] = mem[FrameOf(p, v)]
    BY <1>2, <1>3, <2>1
  <2>3. Mapped(p, v) => (NeedsWrite(EntryOf(p, v))' <=> NeedsWrite(EntryOf(p, v)))
    BY <2>1 DEF SamePage, NeedsWrite
  <2>4. Stays(p, v)
    BY <2>1, <2>2, <2>3 DEF Stays, SamePage
  <2> QED BY <2>4, StaysKept DEF DataInv, Kept
<1>7. WriteOut'
  BY <1>4 DEF WriteOut, PageOut, Leaver
<1>8. ReadIn'
  <2>1. \A p \in Procs : PageIn(p, th'[p])
    BY Kinds DEF DataInv, ReadIn, Others
  <2> QED BY <2>1 DEF ReadIn, PageIn, BsOf
<1> QED BY <1>6, <1>7, <1>8 DEF DataInv

\* The three steps that do so.
LEMMA NewFrameData ==
  ASSUME IInv, IInv', OwnInv, TableInv, DataInv, NEW a \in Actors,
         \/ a \in Procs /\ (NewPageTable(a) \/ LoadPage(a))
         \/ a \in Creators /\ NewPageDirectory(a)
  PROVE  DataInv'
<1>1. SUFFICES ASSUME ~Still PROVE DataInv'
  BY StillData
<1>2. CASE a \in Procs /\ NewPageTable(a)
  <2>1. /\ At(a, "init") /\ Others(a) /\ th'[a].pc = "alloc" /\ UNCHANGED <<disk, val, proc>>
        /\ mem' = [mem EXCEPT ![th[a].fr] = 0]
    BY <1>2, NewPageTableEffect
  <2>2. \A p \in Procs, v \in Pages : Live(p) => SamePage(p, v)
    BY <1>2, NewPageTableView
  <2> QED BY <2>1, <2>2, FillData DEF PageIn
<1>3. CASE a \in Procs /\ LoadPage(a)
  <2>1. /\ At(a, "init") /\ Others(a) /\ th'[a].pc = "read_bs" /\ th'[a].v = th[a].v
        /\ th'[a].bsd = BsOf(a, th[a].v) /\ th'[a].off = BsOff(th[a].v)
        /\ pt' = [pt EXCEPT ![th[a].fr] = [j \in Slots |-> NoPTE]]
        /\ UNCHANGED <<pd, mem, disk, val, proc>>
    BY <1>1, <1>3, LoadPageEffect DEF SameLocals
  <2>2. MayRun(a) /\ Transit(a)
    BY <2>1 DEF At, Transit
  <2>3. \A p \in Procs, v \in Pages : Live(p) => SamePage(p, v)
    BY <2>1, <2>2, BlankView
  <2> QED BY <2>1, <2>3, FillData DEF PageIn
<1>4. CASE a \in Creators /\ NewPageDirectory(a)
  <2>1. /\ At(a, "init") /\ Others(a) /\ th'[a].pc = "init_pd"
        /\ pt' = [pt EXCEPT ![th[a].fr] = [j \in Slots |-> NoPTE]]
        /\ mem' = [mem EXCEPT ![th[a].fr] = 0]
        /\ UNCHANGED <<pd, disk, val, proc>>
    BY <1>4, NewPageDirectoryEffect
  <2>2. MayRun(a) /\ Transit(a)
    BY <2>1 DEF At, Transit
  <2>3. \A p \in Procs, v \in Pages : Live(p) => SamePage(p, v)
    BY <2>1, <2>2, BlankView
  <2> QED BY <2>1, <2>3, FillData DEF PageIn
<1> QED BY <1>2, <1>3, <1>4

\* The page that is mapped has been read from its own store.
LEMMA ReadBsData ==
  ASSUME IInv, IInv', OwnInv, TableInv, DataInv, NEW a \in Procs, ReadBs(a)
  PROVE  DataInv'
<1> DEFINE fr == th[a].fr
           u == th[a].v
           t == th[a].pt
           j == vaddr2pti(u)
           x == [pt[t][j] EXCEPT !.pt_pres = 1, !.pt_base = fr]
<1>1. /\ At(a, "read_bs") /\ Others(a) /\ th'[a].pc = "access" /\ fr \in Frames
      /\ mem' = [mem EXCEPT ![fr] = disk[th[a].bsd][th[a].off]]
      /\ pt' = [pt EXCEPT ![t][j] = x]
      /\ UNCHANGED <<pd, disk, val, proc>>
  BY ReadBsEffect
<1>2. MayRun(a) /\ Transit(a) /\ th[a].pc = "read_bs" /\ a \in Actors
  BY <1>1, Kinds DEF At, Transit
<1>3. /\ \A b \in Actors : b # a => ~Transit(b) /\ th[b].pc # "kill"
      /\ \A p \in Procs : Running(p) <=> Live(p)
      /\ \A p \in Procs, v \in Pages : Live(p) /\ Mapped(p, v) => FrameOf(p, v) \in Frames \ {fr}
  BY <1>2, FrameInHand
<1>4. /\ u < proc[a].hsize /\ ~Mapped(a, u) /\ Live(a) /\ u \in Pages
      /\ j \in Slots /\ t \in Frames
      /\ \A p \in Procs, w \in Pages : Live(p) =>
           /\ (p # a \/ w # u) => /\ Mapped(p, w)' <=> Mapped(p, w)
                                  /\ Mapped(p, w) => FrameOf(p, w)' = FrameOf(p, w)
           /\ (p = a /\ w = u) => Mapped(p, w)' /\ FrameOf(p, w)' = fr
  BY ReadBsView
<1>5. th[a].bsd = BsOf(a, u) /\ th[a].off = BsOff(u)
  BY <1>2 DEF DataInv, ReadIn, PageIn
<1>6. mem'[fr] = disk[BsOf(a, u)][BsOff(u)] /\ \A f \in Frames : f # fr => mem'[f] = mem[f]
  <2> DEFINE z == disk[BsOf(a, u)][BsOff(u)]
  <2>1. mem' = [mem EXCEPT ![fr] = z]
    BY <1>1, <1>5
  <2> HIDE DEF z, fr
  <2>2. mem'[fr] = z /\ \A f \in Frames : f # fr => mem'[f] = mem[f]
    BY <1>1, <2>1 DEF IInv, TypeOK
  <2> QED BY <2>2 DEF z
<1>7. NoCleaner
  <2>1. NeedsWrite(x) <=> NeedsWrite(pt[t][j])
    BY DEF NeedsWrite
  <2> HIDE DEF x, t, j
  <2>2. \A f \in Frames, k \in Slots : pt'[f][k] = pt[f][k] \/ (f = t /\ k = j /\ pt'[f][k] = x)
    BY <1>1 DEF IInv, TypeOK
  <2> QED BY <2>1, <2>2 DEF NoCleaner
<1>8. \A b \in Actors : th[b].pc # "write_bs" /\ th'[b].pc \notin {"write_bs", "read_bs"}
  BY <1>1, <1>2, <1>3 DEF Transit, Others
<1>9. \A p \in Procs : Running(p)' => Running(p) /\ Live(p)
  BY <1>1, <1>3 DEF Running, Live
<1> HIDE DEF fr, t, j, x, u
<1>10. Kept'
  <2> SUFFICES ASSUME NEW p \in Procs, NEW v \in Pages, HeapPage(p, v)' PROVE PageKept(p, v)'
    BY DEF Kept, PageKept
  <2>1. Running(p) /\ Live(p) /\ PageKept(p, v) /\ ~Leaving(p, v)
    BY <1>8, <1>9 DEF HeapPage, DataInv, Kept, Leaving, Leaver
  <2>2. CASE p # a \/ v # u
    <3>1. /\ Mapped(p, v)' <=> Mapped(p, v)
          /\ Mapped(p, v) => FrameOf(p, v)' = FrameOf(p, v) /\ mem'[FrameOf(p, v)] = mem[FrameOf(p, v)]
      BY <1>3, <1>4, <1>6, <2>1, <2>2
    <3>2. Stays(p, v)
      BY <1>1, <1>7, <2>1, <3>1, EntryStays DEF Stays
    <3> QED BY <2>1, <3>2, StaysKept
  <2>3. CASE p = a /\ v = u
    <3>1. Mapped(p, v)' /\ FrameOf(p, v)' = fr /\ ~Mapped(p, v)
      BY <1>4, <2>3
    <3>2. HeapPage(p, v) /\ BsOf(p, v)' = BsOf(p, v)
      BY <1>1, <2>1 DEF HeapPage, BsOf
    <3>3. Stored(p, v)
      BY <2>1, <3>1, <3>2 DEF PageKept
    <3>4. Stored(p, v)'
      BY <1>1, <3>2, <3>3 DEF Stored
    <3>5. mem'[FrameOf(p, v)'] = val'[p][v]
      BY <1>1, <1>6, <2>3, <3>1, <3>3 DEF Stored
    <3> QED BY <3>1, <3>4, <3>5 DEF PageKept
  <2> QED BY <2>2, <2>3
<1>11. WriteOut' /\ ReadIn'
  BY <1>8, Kinds DEF WriteOut, PageOut, Leaver, ReadIn, PageIn
<1> QED BY <1>10, <1>11 DEF DataInv

-----------------------------------------------------------------------------
(* The eviction of a page. *)

\* evictFrame takes the page out of the mapping: it is on its way to its store
\* when its entry says that it needs to be written, and in its store already
\* when not.
LEMMA EvictData ==
  ASSUME IInv, IInv', OwnInv, TableInv, DataInv, NEW a \in Actors, Evict(a), ~Still
  PROVE  DataInv'
<1> DEFINE fr == th[a].fr
           q == ft.ipt[fr].pid
           u == ft.ipt[fr].vpn
           i == vaddr2pdi(u)
           j == vaddr2pti(u)
           t == pd[q][i].pd_base
           x == MarkAbsent(pt[t][j])
<1>1. /\ At(a, "evict") /\ th'[a].fr = fr /\ Others(a)
      /\ fr \in Frames /\ ft.ipt[fr].status = "PAGE"
      /\ pt' = [pt EXCEPT ![t][j] = x]
      /\ pd' = IF ft'.ipt[t].status = "NOT_USED"
               THEN [pd EXCEPT ![q][i].pd_pres = 0] ELSE pd
      /\ UNCHANGED <<mem, disk, val, proc>>
      /\ \/ th'[a].pc = "init" /\ ~NeedsWrite(pt[t][j])
         \/ /\ th'[a].pc = "write_bs" /\ th'[a].ept = t /\ th'[a].epti = j
            /\ th'[a].bsd = BsOf(q, u) /\ th'[a].off = BsOff(u)
            /\ BsValid(BsOf(q, u), BsOff(u))
  BY EvictEffect, ZenonT(30)
<1>2. /\ q \in Procs /\ Live(q) /\ u \in Pages /\ u < proc[q].hsize
      /\ Mapped(q, u) /\ FrameOf(q, u) = fr /\ t # fr
      /\ i \in Tables /\ j \in Slots /\ t \in Frames
      /\ \A b \in Actors : ~Transit(b) /\ th[b].pc # "kill"
      /\ \A p \in Procs : Running(p) <=> Live(p)
  BY <1>1, VictimMapped
<1>3. /\ \A f \in Frames : f # t => SameEntry(ft, ft', f)
      /\ \A p \in Procs, w \in Pages : Live(p) =>
           /\ Mapped(p, w)' <=> Mapped(p, w) /\ (p # q \/ w # u)
           /\ Mapped(p, w)' => FrameOf(p, w)' = FrameOf(p, w)
  BY EvictView
<1>4. EntryOf(q, u) = pt[t][j]
  BY DEF EntryOf
<1> HIDE DEF fr, q, u, i, j, t, x
<1>5. pt[t][j] \in PTE
  BY <1>2 DEF IInv, TypeOK
<1>6. x.pt_pres = 0 /\ (NeedsWrite(x) <=> NeedsWrite(pt[t][j]))
  BY <1>5 DEF x, MarkAbsent, NeedsWrite, PTE
<1>7. /\ pt'[t][j] = x
      /\ \A f \in Frames, k \in Slots : pt'[f][k] = pt[f][k] \/ (f = t /\ k = j /\ pt'[f][k] = x)
  BY <1>1, <1>2 DEF IInv, TypeOK
<1>8. NoCleaner
  BY <1>6, <1>7 DEF NoCleaner
<1>9. \A p \in Procs, k \in Tables : pd'[p][k].pd_base = pd[p][k].pd_base
  BY <1>1, <1>2 DEF IInv, TypeOK, PDE
<1>10. \A b \in Actors : /\ th[b].pc # "write_bs" /\ th'[b].pc # "read_bs"
                         /\ th'[b].pc = "write_bs" => b = a
  BY <1>1, <1>2 DEF Transit, Others
<1>11. /\ ft'.ipt[fr].pid = q /\ ft'.ipt[fr].vpn = u
  <2>1. SameEntry(ft, ft', fr)
    BY <1>1, <1>2, <1>3
  <2> QED BY <2>1 DEF SameEntry, q, u
<1>12. \A p \in Procs : Running(p)' => Running(p) /\ Live(p)
  BY <1>1, <1>2 DEF Running, Live
<1>13. Kept'
  <2> SUFFICES ASSUME NEW p \in Procs, NEW v \in Pages, HeapPage(p, v)' PROVE PageKept(p, v)'
    BY DEF Kept, PageKept
  <2>1. Running(p) /\ Live(p) /\ PageKept(p, v) /\ ~Leaving(p, v)
    BY <1>10, <1>12 DEF HeapPage, DataInv, Kept, Leaving, Leaver
  <2>2. CASE p # q \/ v # u
    <3>1. (Mapped(p, v)' <=> Mapped(p, v)) /\ (Mapped(p, v) => FrameOf(p, v)' = FrameOf(p, v))
      BY <1>3, <2>1, <2>2
    <3>2. pd'[p][vaddr2pdi(v)].pd_base = pd[p][vaddr2pdi(v)].pd_base
      BY <1>9, Walk
    <3>3. Stays(p, v)
      BY <1>1, <1>8, <2>1, <3>1, <3>2, EntryStays DEF Stays
    <3> QED BY <2>1, <3>3, StaysKept
  <2>3. CASE p = q /\ v = u
    <3>1. ~Mapped(p, v)' /\ Mapped(p, v)
      BY <1>2, <1>3, <2>1, <2>3
    <3>2. HeapPage(p, v) /\ BsOf(p, v)' = BsOf(p, v)
      BY <1>1, <2>1 DEF HeapPage, BsOf
    <3>3. CASE th'[a].pc = "write_bs"
      <4>1. Leaver(a, p, v)'
        BY <1>1, <1>11, <2>3, <3>3 DEF Leaver
      <4> QED BY <3>1, <4>1 DEF PageKept, Leaving
    <3>4. CASE ~NeedsWrite(pt[t][j])
      <4>1. Stored(p, v)
        BY <1>4, <2>1, <2>3, <3>1, <3>2, <3>4 DEF PageKept
      <4>2. Stored(p, v)'
        BY <1>1, <3>2, <4>1 DEF Stored
      <4> QED BY <3>1, <4>2 DEF PageKept
    <3> QED BY <1>1, <3>3, <3>4
  <2> QED BY <2>2, <2>3
<1>14. WriteOut'
  <2> SUFFICES ASSUME NEW b \in Actors, NEW p \in Procs, NEW v \in Pages, Leaver(b, p, v)'
               PROVE  PageOut(b, p, v)'
    BY DEF WriteOut, PageOut
  <2>1. b = a /\ p = q /\ v = u /\ th'[a].pc = "write_bs"
    BY <1>1, <1>10, <1>11 DEF Leaver
  <2>2. /\ th'[a].ept = t /\ th'[a].epti = j /\ th'[a].off = BsOff(u)
        /\ th'[a].bsd = BsOf(q, u) /\ BsOf(q, u) \in Stores
    BY <1>1, <2>1 DEF BsValid
  <2>3. BsOf(p, v)' = BsOf(q, u) /\ HeapPage(q, u)
    BY <1>1, <1>2, <2>1, <2>2 DEF BsOf, HeapPage
  <2>4. mem[fr] = val[q][u]
    BY <1>2, <2>3 DEF DataInv, Kept, PageKept
  <2>5. ~Mapped(p, v)'
    BY <1>2, <1>3, <2>1
  <2>6. pt'[t][j].pt_pres = 0
    BY <1>6, <1>7
  <2> QED BY <1>1, <1>2, <2>1, <2>2, <2>3, <2>4, <2>5, <2>6 DEF PageOut
<1>15. ReadIn'
  BY <1>10, Kinds DEF ReadIn, PageIn
<1> QED BY <1>13, <1>14, <1>15 DEF DataInv

-----------------------------------------------------------------------------
(* The theorem. *)

\* At boot no process runs.
LEMMA InitData == Init => DataInv
<1> SUFFICES ASSUME Init PROVE DataInv
  OBVIOUS
<1>1. \A p \in Procs : ~Running(p)
  BY DEF Init, Live, Running
<1>2. \A a \in Actors : th[a].pc = "user"
  BY DEF Init, Idle
<1>3. Kept
  BY <1>1 DEF Kept, PageKept, HeapPage
<1>4. WriteOut /\ ReadIn
  BY <1>2, Kinds DEF WriteOut, PageOut, Leaver, ReadIn, PageIn
<1> QED BY <1>3, <1>4 DEF DataInv

\* Every step keeps it.
LEMMA StepData ==
  IInv /\ IInv' /\ OwnInv /\ TableInv /\ DataInv /\ [Next]_vars => DataInv'
<1> SUFFICES ASSUME IInv, IInv', OwnInv, TableInv, DataInv, [Next]_vars PROVE DataInv'
  OBVIOUS
<1>0. pt' = pt => NoCleaner
  BY DEF NoCleaner
<1>1. CASE UNCHANGED vars
  BY <1>1, StillData DEF vars, Still
<1>2. CASE Next
  <2>1. ASSUME NEW p \in Procs, Access(p) \/ Retry(p) \/ FaultStep(p) PROVE DataInv'
    BY <2>1, UserData, NewFrameData, ReadBsData, Kinds DEF FaultStep
  <2>2. ASSUME NEW a \in Actors, FrameStep(a) PROVE DataInv'
    BY <2>2, FrameData, EvictData, WriteBsData, StillData
  <2>3. ASSUME NEW a \in Actors, KillStep(a) PROVE DataInv'
    BY <2>3, KillFrameData, FinishKillData DEF KillStep
  <2>4. ASSUME NEW a \in Actors, NEW p \in Procs, Kill(a, p) PROVE DataInv'
    <3>1. Calm(a)
      BY <2>4, KillCalm
    <3>2. /\ th[a].pc \in {"user", "exit"} /\ th'[a].pc = "kill"
          /\ UNCHANGED <<pt, mem, disk, val>>
      BY <2>4, KillEffect
    <3> QED BY <1>0, <3>1, <3>2, CalmData
  <2>5. ASSUME NEW a \in Creators, Vcreate(a) \/ CreateStep(a) \/ srpolicy(a) PROVE DataInv'
    <3>1. CASE Vcreate(a) /\ ~Still
      <4>1. Calm(a) /\ a \in Actors
        BY <3>1, CallCalm, Kinds
      <4>2. th[a].pc = "user" /\ th'[a].pc = "alloc" /\ UNCHANGED <<pt, mem, disk, val>>
        BY <3>1, VcreateEffect DEF At
      <4> QED BY <1>0, <4>1, <4>2, CalmData
    <3>2. CASE srpolicy(a)
      BY <3>2, StillData DEF srpolicy, Still
    <3>3. CASE NewPageDirectory(a)
      BY <3>3, NewFrameData, Kinds
    <3> QED BY <2>5, <3>1, <3>2, <3>3, FinishVcreateData, StillData DEF CreateStep
  <2> QED BY <1>2, <2>1, <2>2, <2>3, <2>4, <2>5, Zenon DEF Next
<1> QED BY <1>1, <1>2

\* The invariant says of every page where its current copy is.
LEMMA DataImplies == IInv /\ OwnInv /\ TableInv /\ DataInv => NoLostWrite
<1> SUFFICES ASSUME IInv, OwnInv, TableInv, DataInv,
                    NEW p \in Procs, Running(p), NEW v \in 0 .. proc[p].hsize - 1, BsOf(p, v) # SYSERR
             PROVE  CurrentCopy(p, v) = val[p][v]
  BY DEF NoLostWrite
<1>1. proc[p].hsize \in 0 .. MAXHEAP /\ proc[p].pbsd \in [Stores -> Stores \cup {SYSERR}]
  BY DEF IInv, TypeOK
<1>2. v \in Pages /\ v < proc[p].hsize
  BY <1>1, SizesAssumption DEF Pages
<1>3. BsOf(p, v) \in Stores
  BY <1>1, <1>2, StoreOfPage DEF BsOf
<1>4. PageKept(p, v) /\ HeapPage(p, v) /\ Live(p)
  BY <1>2, <1>3 DEF DataInv, Kept, HeapPage, Running
<1>5. ASSUME NEW a \in Actors, Writer(p, v, a) PROVE mem[th[a].fr] = val[p][v]
  <2> DEFINE q == ft.ipt[th[a].fr].pid
             w == ft.ipt[th[a].fr].vpn
  <2>1. Leaver(a, q, w) /\ th[a].bsd = BsOf(p, v) /\ th[a].off = BsOff(v)
    BY <1>5 DEF Writer, Leaver
  <2> HIDE DEF q, w
  <2>2. q \in Procs /\ w \in Pages /\ Live(q) /\ w < proc[q].hsize
    BY <2>1, LeaverFacts
  <2>3. th[a].bsd = BsOf(q, w) /\ th[a].off = BsOff(w) /\ mem[th[a].fr] = val[q][w]
    BY <2>1, <2>2 DEF DataInv, WriteOut, PageOut
  <2>4. p = q /\ v = w
    BY <1>2, <1>3, <1>4, <2>1, <2>2, <2>3, OwnPlace
  <2> QED BY <2>3, <2>4
<1>6. Leaving(p, v) => \E a \in Actors : Writer(p, v, a)
  BY <1>2 DEF Leaving, DataInv, WriteOut, PageOut, Leaver, Writer
<1>7. CASE Mapped(p, v)
  BY <1>4, <1>7 DEF CurrentCopy, PageKept
<1>8. CASE ~Mapped(p, v) /\ \E a \in Actors : Writer(p, v, a)
  <2> DEFINE c == CHOOSE a \in Actors : Writer(p, v, a)
  <2>1. c \in Actors /\ Writer(p, v, c)
    BY <1>8
  <2>2. CurrentCopy(p, v) = mem[th[c].fr]
    BY <1>8 DEF CurrentCopy
  <2> HIDE DEF c
  <2> QED BY <1>5, <2>1, <2>2
<1>9. CASE ~Mapped(p, v) /\ ~\E a \in Actors : Writer(p, v, a)
  <2>1. Stored(p, v)
    BY <1>4, <1>6, <1>9 DEF PageKept
  <2> QED BY <1>9, <2>1 DEF CurrentCopy, Stored
<1> QED BY <1>7, <1>8, <1>9

\* No write is lost, whatever the number of processes, frames, pages and stores:
\* evictFrame, decRefCount, write_bs, read_bs, vcreate and kill keep what a
\* process last wrote to a page, as long as evictFrame does not free the page
\* table that pf_handler has in hand and kill does not hit a process inside the
\* fault path or one whose page is being written.
THEOREM DataCorrect ==
  ASSUME ~KillRaces
  PROVE  Spec /\ [][TableInHandKept]_vars => []NoLostWrite
<1>1. Init => IInv /\ OwnInv /\ TableInv /\ DataInv
  BY InitInv, InitOwn, InitTable, InitData
<1>2. IInv /\ OwnInv /\ TableInv /\ DataInv /\ [TableInHandKept]_vars /\ [Next]_vars
      => (IInv /\ OwnInv /\ TableInv /\ DataInv)'
  BY StepInv, StepOwn, StepTable, StepData
<1>3. IInv /\ OwnInv /\ TableInv /\ DataInv => NoLostWrite
  BY DataImplies
<1> QED BY <1>1, <1>2, <1>3, PTL DEF Spec
=============================================================================
