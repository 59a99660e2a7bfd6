------------------------- MODULE PagingTableProofs -------------------------
(***************************************************************************)
(* The inverted page table is the inverse of the page tables, and the      *)
(* reference count of a page table is the number of its present entries,   *)
(* as long as the handler never loses the page table it has in hand.       *)
(***************************************************************************)
EXTENDS PagingStoreProofs

USE DEF frameVars, tableVars, dataVars, storeVars, procVars

-----------------------------------------------------------------------------
(* The invariant. *)

\* Frames taken out of the mapping, or not yet entered in it.
Transit(a) == th[a].pc \in {"write_bs", "init", "read_bs"}
Taken(f) == \E a \in Actors : Transit(a) /\ th[a].fr = f

\* A page frame holds a page of a live process and is mapped there, or taken.
PagesMapped ==
  \A f \in Frames : ft.ipt[f].status = "PAGE" =>
    LET p == ft.ipt[f].pid
        v == ft.ipt[f].vpn
    IN  /\ p \in Procs /\ Live(p) /\ v \in Pages /\ v < proc[p].hsize
        /\ Taken(f) \/ (Mapped(p, v) /\ FrameOf(p, v) = f)

\* A mapped page is in a frame that the inverted page table records for it.
MappedPages ==
  \A p \in Procs, v \in Pages : Running(p) /\ Mapped(p, v) =>
    LET f == FrameOf(p, v)
    IN  /\ f \in Frames /\ ft.ipt[f].status = "PAGE" /\ ft.ipt[f].pid = p
        /\ ft.ipt[f].vpn = v /\ ~Taken(f)

\* A present directory entry points to a page table of that process, no two to
\* the same one.
TablesOwned ==
  \A p \in Procs, i \in Tables : Running(p) /\ pd[p][i].pd_pres = 1 =>
    LET t == pd[p][i].pd_base
    IN  /\ t \in Frames /\ ft.ipt[t].status = "PTAB" /\ ft.ipt[t].pid = p
        /\ \A k \in Tables : pd[p][k] = pd[p][i] => k = i

\* The entry of a frame on its way.
OnItsWay(a, l) ==
  LET f == ft.ipt[l.fr]
  IN  /\ l.pc = "init" => f.status \in {"NOT_USED", "PAGE"}
      /\ l.pc = "write_bs" => f.status = "PAGE"
      /\ l.pc = "read_bs" => f.status = "PAGE" /\ f.pid = a /\ f.vpn = l.v
TransitOK == \A a \in Actors : OnItsWay(a, th[a])

\* refCount counts the present entries of a page table.
Present(f) == {j \in Slots : pt[f][j].pt_pres = 1}
Counts ==
  \A f \in Frames :
    /\ ft.ipt[f].status = "PTAB" /\ ft.ipt[f].pid \in Procs =>
         /\ Live(ft.ipt[f].pid)
         /\ ft.ipt[f].refCount = Cardinality(Present(f))
         /\ \E i \in Tables : pd[ft.ipt[f].pid][i] = [pd_pres |-> 1, pd_base |-> f]
    /\ ft.ipt[f].status # "PTAB" => ft.ipt[f].refCount = 0

\* What pf_handler knows of the page it handles: it is absent, and the page
\* table in hand is the one in the page directory.
InHand(p, l) ==
  LET e == pd[p][vaddr2pdi(l.v)]
  IN  /\ l.pc \in Handling \cup {"pf"} => ~Mapped(p, l.v)
      /\ l.pc \in Handling =>
           /\ l.v < proc[p].hsize
           /\ l.type = "PTAB" => e.pd_pres = 0
           /\ l.type = "PAGE" => e = [pd_pres |-> 1, pd_base |-> l.pt]
HandlerOK == \A p \in Procs : InHand(p, th[p])

\* The page table entry of a page, when there is one.
EntryOf(p, v) == pt[pd[p][vaddr2pdi(v)].pd_base][vaddr2pti(v)]

TableInv == PagesMapped /\ MappedPages /\ TablesOwned /\ TransitOK /\ Counts /\ HandlerOK

\* evictFrame frees a page table with its last page.  It does not free the one
\* that pf_handler has in hand for the page it is about to map.
TableInHandKept ==
  \A p \in Procs : th[p].pc \in Handling /\ th[p].type = "PAGE" /\ th'[p].pc \in Handling =>
    pd'[p][vaddr2pdi(th[p].v)] = pd[p][vaddr2pdi(th[p].v)]

-----------------------------------------------------------------------------
(* Facts about a state. *)

\* Whoever holds a frame in transit holds pf_sem.
LEMMA OneInTransit ==
  ASSUME IInv, NEW a \in Actors, ~Queued(a), th[a].pc \in FaultPath
  PROVE  \A b \in Actors : Transit(b) => b = a
<1> SUFFICES ASSUME NEW b \in Actors, Transit(b) PROVE b = a
  OBVIOUS
<1>1. ~Queued(b)
  BY DEF IInv, SemaphoreOK, Queued, Transit
<1>2. Holds(a) /\ Holds(b)
  BY <1>1 DEF Holds, Transit, FaultPath
<1> QED BY <1>2 DEF IInv, MutualExclusion

\* No kill is under way.
LEMMA RunningLive ==
  ASSUME \A b \in Actors : th[b].pc # "kill"
  PROVE  \A p \in Procs : Running(p) <=> Live(p)
BY DEF Running

\* A page is determined by its page table and its place in it.
LEMMA DivMod ==
  ASSUME NEW b \in Nat \ {0}, NEW v \in Nat
  PROVE  v = b * (v \div b) + (v % b)
<1> DEFINE m == b * (v \div b)
           r == v % b
<1>1. m \in Int
  OBVIOUS
<1>2. r = v - m
  BY Z3
<1>3. v = m + r
  <2> HIDE DEF m, r
  <2> QED BY <1>1, <1>2
<1> QED BY <1>3

\* The same for the pages of a heap.
LEMMA PageIndex ==
  \A v, w \in Pages : vaddr2pdi(v) = vaddr2pdi(w) /\ vaddr2pti(v) = vaddr2pti(w) => v = w
<1> SUFFICES ASSUME NEW v \in Pages, NEW w \in Pages,
                    vaddr2pdi(v) = vaddr2pdi(w), vaddr2pti(v) = vaddr2pti(w)
             PROVE  v = w
  OBVIOUS
<1>1. v \in Nat /\ w \in Nat /\ PAGETABSIZE \in Nat \ {0}
  BY SizesAssumption DEF Pages
<1>2. v = PAGETABSIZE * vaddr2pdi(v) + vaddr2pti(v) /\ w = PAGETABSIZE * vaddr2pdi(w) + vaddr2pti(w)
  BY <1>1, DivMod DEF vaddr2pdi, vaddr2pti
<1> QED BY <1>2, Zenon

\* The translation of a page.
LEMMA Walk ==
  ASSUME IInv, NEW p \in Procs, NEW v \in Pages
  PROVE  LET e == pd[p][vaddr2pdi(v)]
         IN  /\ e \in PDE /\ vaddr2pdi(v) \in Tables /\ vaddr2pti(v) \in Slots
             /\ Mapped(p, v) <=> /\ e.pd_pres = 1 /\ e.pd_base \in Frames
                                 /\ pt[e.pd_base][vaddr2pti(v)].pt_pres = 1
             /\ FrameOf(p, v) = pt[e.pd_base][vaddr2pti(v)].pt_base
<1> DEFINE i == vaddr2pdi(v)
           e == pd[p][i]
<1>1. v \in Int
  BY SizesAssumption DEF Pages
<1>2. i \in Tables /\ vaddr2pti(v) \in Slots
  BY <1>1, IndexType
<1>3. e \in PDE
  <2> HIDE DEF i
  <2> QED BY <1>2 DEF IInv, TypeOK
<1>4. e.pd_base # EMPTY <=> e.pd_base \in Frames
  <2>1. EMPTY \notin Frames
    BY SizesAssumption DEF Frames, EMPTY
  <2> HIDE DEF e
  <2> QED BY <1>3, <2>1 DEF PDE
<1> QED BY <1>2, <1>3, <1>4 DEF Mapped, FrameOf

\* The same in the next state.
LEMMA WalkNext ==
  ASSUME IInv', NEW p \in Procs, NEW v \in Pages
  PROVE  LET e == pd'[p][vaddr2pdi(v)]
         IN  /\ e \in PDE
             /\ Mapped(p, v)' <=> /\ e.pd_pres = 1 /\ e.pd_base \in Frames
                                  /\ pt'[e.pd_base][vaddr2pti(v)].pt_pres = 1
             /\ FrameOf(p, v)' = pt'[e.pd_base][vaddr2pti(v)].pt_base
<1> DEFINE i == vaddr2pdi(v)
           e == pd'[p][i]
<1>1. v \in Int
  BY SizesAssumption DEF Pages
<1>2. i \in Tables
  BY <1>1, IndexType
<1>3. e \in PDE
  <2> HIDE DEF i
  <2> QED BY <1>2 DEF IInv, TypeOK
<1>4. e.pd_base # EMPTY <=> e.pd_base \in Frames
  <2>1. EMPTY \notin Frames
    BY SizesAssumption DEF Frames, EMPTY
  <2> HIDE DEF e
  <2> QED BY <1>3, <2>1 DEF PDE
<1> QED BY <1>2, <1>3, <1>4 DEF Mapped, FrameOf

-----------------------------------------------------------------------------
(* Steps that change no mapping. *)

SameBits == \A f \in Frames, j \in Slots : /\ pt'[f][j].pt_pres = pt[f][j].pt_pres
                                           /\ pt'[f][j].pt_base = pt[f][j].pt_base
SameView == UNCHANGED <<pd, proc>> /\ SameBits /\ \A f \in Frames : SameEntry(ft, ft', f)

\* Setting and clearing the other bits of an entry changes no mapping.
LEMMA BitsKept ==
  ASSUME IInv, NEW t, NEW j, NEW x, pt' = [pt EXCEPT ![t][j] = x],
         x.pt_pres = pt[t][j].pt_pres, x.pt_base = pt[t][j].pt_base
  PROVE  SameBits
<1>1. pt \in [Frames -> [Slots -> PTE]]
  BY DEF IInv, TypeOK
<1> QED BY <1>1 DEF SameBits

\* The translations stay what they were.
LEMMA ViewWalk ==
  ASSUME IInv, IInv', pd' = pd, SameBits, NEW p \in Procs, NEW v \in Pages
  PROVE  (Mapped(p, v)' <=> Mapped(p, v)) /\ (Mapped(p, v) => FrameOf(p, v)' = FrameOf(p, v))
<1> DEFINE e == pd[p][vaddr2pdi(v)]
           j == vaddr2pti(v)
<1>1. j \in Slots /\ (Mapped(p, v) <=> e.pd_pres = 1 /\ e.pd_base \in Frames
                                       /\ pt[e.pd_base][j].pt_pres = 1)
      /\ FrameOf(p, v) = pt[e.pd_base][j].pt_base
  BY Walk
<1>2. (Mapped(p, v)' <=> e.pd_pres = 1 /\ e.pd_base \in Frames /\ pt'[e.pd_base][j].pt_pres = 1)
      /\ FrameOf(p, v)' = pt'[e.pd_base][j].pt_base
  BY WalkNext
<1> HIDE DEF e, j
<1>3. Mapped(p, v)' <=> Mapped(p, v)
  BY <1>1, <1>2 DEF SameBits
<1>4. Mapped(p, v) => FrameOf(p, v)' = FrameOf(p, v)
  BY <1>1, <1>2 DEF SameBits
<1> QED BY <1>3, <1>4

\* Such a step of a, which may end what a does, take an unused frame or go on
\* with the frame a has.
Calm(a) ==
  /\ SameView /\ Others(a) /\ th[a].pc # "kill"
  /\ \A f \in Frames : ft.ipt[f].status = "PAGE" =>
       (Transit(a)' /\ th'[a].fr = f <=> Transit(a) /\ th[a].fr = f)
  /\ OnItsWay(a, th'[a])
  /\ a \in Procs => InHand(a, th'[a])

\* A calm step keeps the invariant about the tables.
LEMMA CalmTable ==
  ASSUME IInv, IInv', TableInv, NEW a \in Actors, Calm(a)
  PROVE  TableInv'
<1>1. \A p \in Procs, v \in Pages : (Mapped(p, v)' <=> Mapped(p, v))
                                   /\ (Mapped(p, v) => FrameOf(p, v)' = FrameOf(p, v))
  BY ViewWalk DEF Calm, SameView
<1>2. \A f \in Frames : SameEntry(ft, ft', f)
  BY DEF Calm, SameView
<1>3. \A f \in Frames : ft.ipt[f].status = "PAGE" => (Taken(f)' <=> Taken(f))
  BY DEF Calm, Taken, Others, Transit
<1>4. \A p \in Procs : Running(p)' => Running(p)
  BY DEF Calm, SameView, Others, Running, Live
<1>5. UNCHANGED <<pd, proc>>
  BY DEF Calm, SameView
<1>6. PagesMapped'
  BY <1>1, <1>2, <1>3, <1>5 DEF TableInv, PagesMapped, SameEntry, Live
<1>7. MappedPages'
  BY <1>1, <1>2, <1>3, <1>4 DEF TableInv, MappedPages, SameEntry
<1>8. TablesOwned'
  BY <1>2, <1>4, <1>5 DEF TableInv, TablesOwned, SameEntry
<1>9. TransitOK'
  <2>1. \A b \in Actors : Transit(b)' => th'[b].fr \in Frames
    BY DEF IInv, LocalsOK, Transit
  <2>2. \A b \in Actors : OnItsWay(b, th'[b])
    BY DEF Calm, TableInv, TransitOK, Others
  <2> QED BY <1>2, <2>1, <2>2 DEF TransitOK, OnItsWay, SameEntry, Transit
<1>10. Counts'
  <2>1. \A f \in Frames : Present(f)' = Present(f)
    BY DEF Calm, SameView, SameBits, Present
  <2> QED BY <1>2, <1>5, <2>1 DEF TableInv, Counts, SameEntry, Live
<1>11. HandlerOK'
  <2>1. \A p \in Procs : InHand(p, th'[p])
    BY Kinds DEF Calm, TableInv, HandlerOK, Others
  <2>2. \A p \in Procs : th'[p].v \in Pages
    BY Kinds DEF IInv, TypeOK, Thread
  <2> QED BY <1>1, <1>5, <2>1, <2>2 DEF HandlerOK, InHand
<1> QED BY <1>6, <1>7, <1>8, <1>9, <1>10, <1>11 DEF TableInv

\* Nothing changes.
LEMMA StillTable == ASSUME IInv, TableInv, Still PROVE TableInv'
<1>1. /\ \A p \in Procs : \A v : Mapped(p, v)' = Mapped(p, v) /\ FrameOf(p, v)' = FrameOf(p, v)
      /\ \A p \in Procs : Running(p)' = Running(p) /\ Live(p)' = Live(p)
      /\ \A f \in Frames : Taken(f)' = Taken(f) /\ Present(f)' = Present(f)
  BY DEF Still, Mapped, FrameOf, Running, Live, Taken, Transit, Present
<1>2. PagesMapped' /\ MappedPages' /\ TablesOwned'
  BY <1>1 DEF Still, TableInv, PagesMapped, MappedPages, TablesOwned
<1>3. TransitOK' /\ Counts' /\ HandlerOK'
  <2>1. TransitOK'
    BY <1>1 DEF Still, TableInv, TransitOK, OnItsWay
  <2>2. Counts'
    BY <1>1 DEF Still, TableInv, Counts, Live
  <2>3. HandlerOK'
    BY <1>1 DEF Still, TableInv, HandlerOK, InHand
  <2> QED BY <2>1, <2>2, <2>3
<1> QED BY <1>2, <1>3 DEF TableInv

\* The same frame table, page tables and directories.
LEMMA SameSame ==
  ASSUME UNCHANGED <<ft, pd, pt, proc>>
  PROVE  SameView
BY DEF SameView, SameBits, SameEntry

\* A step inside getNewFrame and evictFrame that leaves the mapping alone.
LEMMA PathCalm ==
  ASSUME TableInv, NEW a \in Actors, SameView, Others(a), SameLocals(th[a], th'[a]),
         th[a].pc \in Handling \ {"read_bs"}, th'[a].pc \in {"scan", "evict", "init"},
         \/ ~Transit(a) /\ (th'[a].pc = "init" => ft.ipt[th'[a].fr].status = "NOT_USED")
         \/ Transit(a) /\ th'[a].pc = "init" /\ th'[a].fr = th[a].fr
  PROVE  Calm(a)
<1>1. \A f \in Frames : ft.ipt[f].status = "PAGE" =>
        (Transit(a)' /\ th'[a].fr = f <=> Transit(a) /\ th[a].fr = f)
  BY DEF Transit
<1>2. OnItsWay(a, th'[a])
  BY DEF TableInv, TransitOK, OnItsWay, Transit
<1>3. a \in Procs => InHand(a, th'[a])
  BY DEF TableInv, HandlerOK, InHand, SameLocals, Handling
<1> QED BY <1>1, <1>2, <1>3 DEF Calm, Handling

\* getNewFrame, and evictFrame after write_bs.
LEMMA FrameCalm ==
  ASSUME IInv, TableInv, NEW a \in Actors, FrameStep(a), ~Evict(a)
  PROVE  Calm(a) \/ Still
<1> USE DEF At
<1>1. CASE TakeFree(a)
  BY <1>1, TakeFreeEffect, SameSame, PathCalm DEF Transit, Handling
<1>2. CASE PickVictim(a)
  <2>1. SameView
    BY <1>2, PickVictimEffect DEF SameView, SameBits
  <2> QED BY <1>2, <2>1, PickVictimEffect, PathCalm DEF Transit, Handling
<1>3. CASE NoFrameAvailable(a)
  <2>1. SUFFICES ASSUME ~Still PROVE Calm(a)
    OBVIOUS
  <2>2. /\ At(a, "alloc") /\ th'[a] = Idle /\ Others(a)
        /\ UNCHANGED <<ft, pd, pt, proc>>
    BY <1>3, <2>1, NoFrameEffect
  <2> QED BY <2>2, SameSame, IdleFields DEF Calm, Transit, OnItsWay, InHand, Handling
<1>4. CASE StartScan(a)
  BY <1>4, StartScanEffect, SameSame, PathCalm DEF Transit, Handling
<1>5. CASE Scan(a)
  <2>1. SUFFICES ASSUME ~Still PROVE Calm(a)
    OBVIOUS
  <2> DEFINE c == nextframe.gca
             t == pd[ft.ipt[c].pid][vaddr2pdi(ft.ipt[c].vpn)].pd_base
             j == vaddr2pti(ft.ipt[c].vpn)
  <2>2. /\ At(a, "scan") /\ SameLocals(th[a], th'[a]) /\ Others(a)
        /\ UNCHANGED <<ft, pd, proc>>
        /\ pt' = pt \/ pt' = [pt EXCEPT ![t][j] = Aged(pt[t][j])]
        /\ \/ th'[a].pc \in {"scan", "evict"}
           \/ th'[a].pc = "init" /\ ft.ipt[th'[a].fr].status = "NOT_USED"
    BY <1>5, <2>1, ScanEffect
  <2>3. SameView
    <3>1. \A x : Aged(x).pt_pres = x.pt_pres /\ Aged(x).pt_base = x.pt_base
      BY DEF Aged
    <3>2. SameBits
      <4>1. CASE pt' = pt
        BY <4>1 DEF SameBits
      <4>2. CASE pt' # pt
        <5> DEFINE x == Aged(pt[t][j])
        <5>1. pt' = [pt EXCEPT ![t][j] = x]
          BY <2>2, <4>2
        <5>2. x.pt_pres = pt[t][j].pt_pres /\ x.pt_base = pt[t][j].pt_base
          BY <3>1
        <5> HIDE DEF x, t, j
        <5> QED BY <5>1, <5>2, BitsKept
      <4> QED BY <4>1, <4>2
    <3> QED BY <2>2, <3>2 DEF SameView, SameEntry
  <2> HIDE DEF t, j
  <2> QED BY <2>2, <2>3, PathCalm DEF Transit, Handling
<1>6. CASE WriteBs(a)
  <2> DEFINE l == th[a]
             x == [pt[l.ept][l.epti] EXCEPT !.pt_dirty = 0, !.pt_avail = 0]
  <2>1. /\ At(a, "write_bs") /\ SameLocals(l, th'[a]) /\ th'[a].fr = l.fr /\ Others(a)
        /\ th'[a].pc = "init" /\ pt' = [pt EXCEPT ![l.ept][l.epti] = x]
        /\ UNCHANGED <<ft, pd, proc>>
    BY <1>6, WriteBsEffect
  <2>2. x.pt_pres = pt[l.ept][l.epti].pt_pres /\ x.pt_base = pt[l.ept][l.epti].pt_base
    OBVIOUS
  <2>3. SameView
    <3> HIDE DEF x, l
    <3> QED BY <2>1, <2>2, BitsKept DEF SameView, SameEntry
  <2> QED BY <2>1, <2>3, PathCalm DEF Transit, Handling
<1> QED BY <1>1, <1>2, <1>3, <1>4, <1>5, <1>6 DEF FrameStep

\* User mode and pf_handler up to its first call of getNewFrame: a page that
\* faults is not mapped, and stays so while its process waits for pf_sem.
LEMMA UserCalm ==
  ASSUME IInv, TableInv, NEW p \in Procs, Access(p) \/ Retry(p) \/ PfHandler(p)
  PROVE  Calm(p)
<1> USE DEF At
<1>0. p \in Actors
  BY Kinds
<1>1. CASE Access(p) \/ Retry(p)
  <2>1. PICK v \in Pages, w \in Values \cup {NOWRITE} :
          \/ Mapped(p, v) /\ Perform(p, v, w)
          \/ ~Mapped(p, v) /\ PageFault(p, v, w)
    BY <1>1, UserEffect
  <2>2. th[p].pc \in {"user", "access"}
    BY <1>1, UserEffect
  <2>3. CASE Mapped(p, v) /\ Perform(p, v, w)
    <3> DEFINE t == pd[p][vaddr2pdi(v)].pd_base
               j == vaddr2pti(v)
               x == Touched(pt[t][j], w)
    <3>1. th'[p] = Idle /\ Others(p) /\ UNCHANGED <<ft, pd, proc>>
      BY <2>3, PerformEffect
    <3>2. pt' = [pt EXCEPT ![t][j] = x]
      BY <2>3 DEF Perform
    <3>3. x.pt_pres = pt[t][j].pt_pres /\ x.pt_base = pt[t][j].pt_base
      BY DEF Touched
    <3>4. SameView
      <4> HIDE DEF x, t, j
      <4> QED BY <3>1, <3>2, <3>3, BitsKept DEF SameView, SameEntry
    <3> QED BY <2>2, <3>1, <3>4, IdleFields DEF Calm, Transit, OnItsWay, InHand, Handling
  <2>4. CASE ~Mapped(p, v) /\ PageFault(p, v, w)
    <3>1. th'[p].pc = "pf" /\ th'[p].v = v /\ Others(p) /\ UNCHANGED <<ft, pd, pt, proc>>
      BY <2>4, PageFaultEffect
    <3> QED BY <2>2, <2>4, <3>1, SameSame DEF Calm, Transit, OnItsWay, InHand, Handling
  <2> QED BY <2>1, <2>3, <2>4
<1>2. CASE PfHandler(p)
  <2> DEFINE v == th[p].v
             e == pd[p][vaddr2pdi(v)]
  <2>1. /\ At(p, "pf") /\ Others(p) /\ UNCHANGED <<ft, pd, pt, proc>>
        /\ \/ th'[p].pc = "exit"
           \/ /\ th'[p].pc = "alloc" /\ ~isInvalidAddr(p, v) /\ th'[p].v = v
              /\ th'[p].type = (IF e.pd_pres = 0 THEN "PTAB" ELSE "PAGE")
              /\ th'[p].pt = (IF e.pd_pres = 0 THEN EMPTY ELSE e.pd_base)
    BY <1>2, PfHandlerEffect
  <2>2. v \in Pages /\ e \in PDE
    <3>1. v \in Pages
      BY <1>0 DEF IInv, TypeOK, Thread
    <3> QED BY <3>1, Walk
  <2>3. ~isInvalidAddr(p, v) => v < proc[p].hsize
    <3>1. v \in Int /\ proc[p].hsize \in Int
      BY <2>2, SizesAssumption DEF IInv, TypeOK, Pages
    <3> HIDE DEF v
    <3> QED BY <3>1 DEF isInvalidAddr
  <2>4. ~Mapped(p, v)
    BY <2>1 DEF TableInv, HandlerOK, InHand
  <2>5. e.pd_pres # 0 => e = [pd_pres |-> 1, pd_base |-> e.pd_base]
    <3> HIDE DEF e
    <3> QED BY <2>2 DEF PDE
  <2>6. th'[p].pc # "exit" => InHand(p, th'[p])
    BY <2>1, <2>3, <2>4, <2>5 DEF InHand
  <2>7. InHand(p, th'[p])
    BY <2>1, <2>6 DEF InHand, Handling
  <2> QED BY <2>1, <2>7, SameSame DEF Calm, Transit, OnItsWay
<1> QED BY <1>1, <1>2

\* vcreate up to wait(pf_sem), and srpolicy.
LEMMA CallCalm ==
  ASSUME IInv, NEW a \in Creators, Vcreate(a) \/ srpolicy(a)
  PROVE  Calm(a) \/ Still
<1>0. a \notin Procs
  BY Kinds
<1>1. CASE srpolicy(a)
  BY <1>1 DEF srpolicy, Still
<1>2. CASE Vcreate(a) /\ ~Still
  <2>1. /\ At(a, "user") /\ Others(a) /\ th'[a].pc = "alloc"
        /\ UNCHANGED <<ft, pd, pt, proc>>
    BY <1>2, VcreateEffect
  <2> QED BY <1>0, <2>1, SameSame DEF At, Calm, Transit, OnItsWay
<1> QED BY <1>1, <1>2

\* The start of kill.
LEMMA KillCalm ==
  ASSUME IInv, NEW a \in Actors, NEW p \in Procs, Kill(a, p)
  PROVE  Calm(a)
<1>1. /\ th[a].pc \in {"user", "exit"} /\ th'[a].pc = "kill" /\ Others(a)
      /\ UNCHANGED <<ft, pd, pt, proc>>
  BY KillEffect
<1> QED BY <1>1, SameSame DEF Calm, Transit, OnItsWay, InHand, Handling

-----------------------------------------------------------------------------
(* The end of a process and the beginning of one. *)

\* The victim of kill has no frame on its way.
LEMMA VictimAtRest ==
  ASSUME IInv, OwnInv, TableInv, NEW a \in Actors, th[a].pc = "kill",
         NEW b \in Actors, Transit(b), ft.ipt[th[b].fr].pid = th[a].pid
  PROVE  th[b].pc = "init"
<1>1. th[b].pc # "write_bs"
  BY DEF OwnInv, KillAlone, BeingEvicted
<1>2. th[b].pc # "read_bs"
  <2>1. SUFFICES ASSUME th[b].pc = "read_bs" PROVE FALSE
    OBVIOUS
  <2>2. th[a].pid = b
    BY <2>1 DEF TableInv, TransitOK, OnItsWay
  <2>3. OutsideFaultPath(b)
    BY <2>1, <2>2 DEF OwnInv, KillAlone
  <2>4. Queued(b) => th[b].pc \in {"pf", "alloc"}
    BY DEF IInv, SemaphoreOK, Queued
  <2> QED BY <2>1, <2>3, <2>4 DEF OutsideFaultPath
<1> QED BY <1>1, <1>2 DEF Transit

\* freeProcFrames clears a frame of its victim.
LEMMA KillFrameTable ==
  ASSUME IInv, IInv', OwnInv, TableInv, NEW a \in Actors, KillFrame(a)
  PROVE  TableInv'
<1> DEFINE f == th[a].i
           q == th[a].pid
<1>1. CASE Still
  BY <1>1, StillTable
<1>2. CASE ~Still
  <2>1. /\ th[a].pc = "kill" /\ f \in Frames /\ q \in Procs
        /\ th'[a].pc = "kill" /\ th'[a].pid = q /\ Others(a)
        /\ ft.ipt[f].pid = q => ft'.ipt[f] = Cleared
        /\ ft.ipt[f].pid # q => SameEntry(ft, ft', f)
        /\ \A g \in Frames : g # f => SameEntry(ft, ft', g)
        /\ UNCHANGED <<pd, pt, proc>>
    BY <1>2, KillFrameEffect DEF At
  <2> HIDE DEF f, q
  <2>2. Cleared.status = "NOT_USED" /\ Cleared.refCount = 0
    BY DEF Cleared
  <2>3. \A g \in Frames : \/ SameEntry(ft, ft', g)
                          \/ /\ ft.ipt[g].pid = q /\ ft'.ipt[g].status = "NOT_USED"
                             /\ ft'.ipt[g].refCount = 0
    BY <2>1, <2>2
  <2>4. /\ \A p \in Procs : \A v : Mapped(p, v)' = Mapped(p, v) /\ FrameOf(p, v)' = FrameOf(p, v)
        /\ \A p \in Procs : (Running(p)' => Running(p) /\ p # q) /\ Live(p)' = Live(p)
        /\ \A g \in Frames : (Taken(g)' <=> Taken(g)) /\ Present(g)' = Present(g)
    <3>1. \A p \in Procs : \A v : Mapped(p, v)' = Mapped(p, v) /\ FrameOf(p, v)' = FrameOf(p, v)
      BY <2>1 DEF Mapped, FrameOf
    <3>2. \A p \in Procs : (Running(p)' => Running(p) /\ p # q) /\ Live(p)' = Live(p)
      BY <2>1 DEF Running, Live, Others, q
    <3>3. \A g \in Frames : (Taken(g)' <=> Taken(g)) /\ Present(g)' = Present(g)
      BY <2>1 DEF Taken, Transit, Present, Others
    <3> QED BY <3>1, <3>2, <3>3
  <2>5. PagesMapped'
    BY <2>1, <2>3, <2>4 DEF TableInv, PagesMapped, SameEntry
  <2>6. MappedPages'
    BY <2>1, <2>3, <2>4 DEF TableInv, MappedPages, SameEntry
  <2>7. TablesOwned'
    BY <2>1, <2>3, <2>4 DEF TableInv, TablesOwned, SameEntry
  <2>8. TransitOK'
    <3> SUFFICES ASSUME NEW b \in Actors, Transit(b)' PROVE OnItsWay(b, th[b])'
      BY DEF TransitOK, OnItsWay, Transit
    <3>1. th'[b] = th[b] /\ Transit(b) /\ OnItsWay(b, th[b]) /\ th[b].fr \in Frames
      BY <2>1 DEF Transit, Others, TableInv, TransitOK, IInv, LocalsOK
    <3>2. ft.ipt[th[b].fr].pid = q => th[b].pc = "init"
      BY <2>1, <3>1, VictimAtRest DEF q
    <3> QED BY <2>3, <3>1, <3>2 DEF OnItsWay, SameEntry
  <2>9. Counts'
    BY <2>1, <2>3, <2>4 DEF TableInv, Counts, SameEntry
  <2>10. HandlerOK'
    <3>1. \A p \in Procs : InHand(p, th'[p])
      BY <2>1, Kinds DEF TableInv, HandlerOK, Others, InHand, Handling
    <3> QED BY <2>1, <2>4, <3>1 DEF HandlerOK, InHand
  <2> QED BY <2>5, <2>6, <2>7, <2>8, <2>9, <2>10 DEF TableInv
<1> QED BY <1>1, <1>2

\* The end of kill: none of the frames is the victim's.
LEMMA FinishKillTable ==
  ASSUME IInv, IInv', OwnInv, TableInv, NEW a \in Actors, FinishKill(a)
  PROVE  TableInv'
<1> DEFINE q == th[a].pid
<1>1. /\ th[a].pc = "kill" /\ th[a].i = NFRAMES /\ q \in Procs
      /\ proc'[q] = [proc[q] EXCEPT !.prstate = "free"]
      /\ \A p \in Procs : p # q => proc'[p] = proc[p]
      /\ th'[a] = Idle /\ th'[q] = Idle
      /\ \A b \in Actors : b # a /\ b # q => th'[b] = th[b]
      /\ UNCHANGED <<ft, pd, pt>>
  BY FinishKillEffect DEF At
<1>2. \A f \in Frames : ft.ipt[f].pid # q
  <2>1. \A f \in Frames : f < NFRAMES
    BY SizesAssumption DEF Frames
  <2> QED BY <1>1, <2>1 DEF OwnInv, KillProgress
<1>3. proc'[q].prstate = "free" /\ q \in Actors
  BY <1>1, Kinds DEF IInv, TypeOK
<1>4. ~Transit(a) /\ ~Transit(q)
  <2>1. Queued(q) => th[q].pc \in {"pf", "alloc"}
    BY <1>3 DEF IInv, SemaphoreOK, Queued
  <2> QED BY <1>1, <2>1 DEF OwnInv, KillAlone, OutsideFaultPath, Transit
<1> HIDE DEF q
<1>5. \A b \in Actors : Transit(b)' => th'[b] = th[b] /\ Transit(b)
  BY <1>1, IdleFields DEF Transit
<1>6. \A b \in Actors : Transit(b) => th'[b] = th[b]
  BY <1>1, <1>4 DEF Transit
<1>7. /\ \A p \in Procs : \A v : Mapped(p, v)' = Mapped(p, v) /\ FrameOf(p, v)' = FrameOf(p, v)
      /\ \A g \in Frames : (Taken(g)' <=> Taken(g)) /\ Present(g)' = Present(g)
  BY <1>1, <1>5, <1>6 DEF Mapped, FrameOf, Taken, Transit, Present
<1>8. \A p \in Procs : p # q => Live(p)' = Live(p)
  BY <1>1 DEF Live
<1>9. \A p \in Procs : Running(p)' => Running(p) /\ p # q
  <2>1. \A p \in Procs : p = q => ~Live(p)'
    BY <1>3 DEF Live
  <2>2. \A b \in Actors : th[b].pc = "kill" => b = a \/ th'[b] = th[b]
    <3>1. q = a \/ th[q].pc # "kill"
      <4>1. Queued(q) => th[q].pc \in {"pf", "alloc"}
        BY <1>3 DEF IInv, SemaphoreOK, Queued
      <4> QED BY <1>1, <4>1 DEF OwnInv, KillAlone, OutsideFaultPath, q
    <3> QED BY <1>1, <3>1
  <2> QED BY <1>1, <1>8, <2>1, <2>2 DEF Running, q
<1>10. PagesMapped'
  BY <1>1, <1>2, <1>7, <1>8 DEF TableInv, PagesMapped
<1>11. MappedPages'
  BY <1>1, <1>7, <1>9 DEF TableInv, MappedPages
<1>12. TablesOwned'
  BY <1>1, <1>9 DEF TableInv, TablesOwned
<1>13. TransitOK'
  BY <1>1, <1>5, <1>6 DEF TableInv, TransitOK, OnItsWay, Transit
<1>14. Counts'
  BY <1>1, <1>2, <1>7, <1>8 DEF TableInv, Counts
<1>15. HandlerOK'
  <2>1. \A p \in Procs : th'[p] = Idle \/ (p # q /\ th'[p] = th[p])
    BY <1>1, Kinds
  <2> QED BY <1>1, <1>7, <2>1, IdleFields DEF TableInv, HandlerOK, InHand, Handling
<1> QED BY <1>10, <1>11, <1>12, <1>13, <1>14, <1>15 DEF TableInv

\* The end of vcreate: the new process has no page table and no page.
LEMMA FinishVcreateTable ==
  ASSUME IInv, IInv', OwnInv, TableInv, NEW a \in Creators, FinishVcreate(a)
  PROVE  TableInv'
<1> DEFINE q == th[a].pid
<1>0. CASE Still
  BY <1>0, StillTable
<1>1. CASE ~Still
  <2>1. /\ th[a].pc = "init_pd" /\ q \in Procs /\ SlotFree(q)
        /\ pd' = [pd EXCEPT ![q] = [i \in Tables |-> NoPDE]]
        /\ \A p \in Procs : p # q => proc'[p] = proc[p]
        /\ th'[a] = Idle /\ th'[q] = Idle
        /\ \A b \in Actors : b # a /\ b # q => th'[b] = th[b]
        /\ UNCHANGED <<ft, pt>>
    BY <1>1, FinishVcreateEffect DEF At
  <2>2. ~Live(q) /\ th[q].pc = "user" /\ a \in Actors /\ q \in Actors
    BY <2>1, Kinds DEF IInv, LocalsOK, SlotFree, Live
  <2>3. /\ \A p \in Procs : p # q => pd'[p] = pd[p]
        /\ \A i \in Tables : pd'[q][i].pd_pres = 0
    <3> HIDE DEF q
    <3> QED BY <2>1 DEF IInv, TypeOK, NoPDE
  <2> HIDE DEF q
  <2>4. \A f \in Frames : ft.ipt[f].status \in {"PAGE", "PTAB"} => ft.ipt[f].pid # q
    BY <2>1, <2>2 DEF TableInv, PagesMapped, Counts
  <2>5. \A b \in Actors : Transit(b)' => th'[b] = th[b] /\ Transit(b)
    BY <2>1, <2>2, IdleFields DEF Transit
  <2>6. \A b \in Actors : Transit(b) => th'[b] = th[b]
    BY <2>1, <2>2, IdleFields DEF Transit
  <2>7. \A g \in Frames : (Taken(g)' <=> Taken(g)) /\ Present(g)' = Present(g)
    <3>1. \A g \in Frames : Taken(g)' <=> Taken(g)
      BY <2>5, <2>6 DEF Taken, Transit
    <3>2. \A g \in Frames : Present(g)' = Present(g)
      BY <2>1 DEF Present
    <3> QED BY <3>1, <3>2
  <2>8. \A p \in Procs : \A v : p # q => Mapped(p, v)' = Mapped(p, v) /\ FrameOf(p, v)' = FrameOf(p, v)
    BY <2>1, <2>3 DEF Mapped, FrameOf
  <2>9. \A p \in Procs, v \in Pages : p = q => ~Mapped(p, v)'
    BY <2>3, Walk DEF Mapped
  <2>10. \A p \in Procs : p # q => Live(p)' = Live(p) /\ (Running(p)' => Running(p))
    BY <2>1, <2>2 DEF Running, Live
  <2>11. PagesMapped'
    BY <2>1, <2>4, <2>7, <2>8, <2>10 DEF TableInv, PagesMapped
  <2>12. MappedPages'
    BY <2>1, <2>7, <2>8, <2>9, <2>10 DEF TableInv, MappedPages
  <2>13. TablesOwned'
    BY <2>1, <2>3, <2>10 DEF TableInv, TablesOwned
  <2>14. TransitOK'
    <3>1. ft' = ft
      BY <2>1
    <3> QED BY <2>5, <2>6, <3>1 DEF TableInv, TransitOK, OnItsWay, Transit
  <2>15. Counts'
    BY <2>1, <2>3, <2>4, <2>7, <2>10 DEF TableInv, Counts
  <2>16. HandlerOK'
    <3>1. \A p \in Procs : p # q => th'[p] = th[p]
      BY <2>1, Kinds
    <3> QED BY <2>1, <2>3, <2>8, <3>1, IdleFields DEF TableInv, HandlerOK, InHand, Handling
  <2> QED BY <2>11, <2>12, <2>13, <2>14, <2>15, <2>16 DEF TableInv
<1> QED BY <1>0, <1>1

-----------------------------------------------------------------------------
(* Steps that fill a frame. *)

\* What holds of the only frame that is on its way.
LEMMA FrameInHand ==
  ASSUME IInv, OwnInv, TableInv, NEW a \in Actors, MayRun(a), Transit(a)
  PROVE  LET fr == th[a].fr
         IN  /\ fr \in Frames /\ ft.ipt[fr].status \in {"NOT_USED", "PAGE"}
             /\ \A b \in Actors : b # a => ~Transit(b) /\ th[b].pc # "kill"
             /\ \A f \in Frames : Taken(f) <=> f = fr
             /\ \A p \in Procs : Running(p) <=> Live(p)
             /\ \A p \in Procs, i \in Tables :
                  Live(p) /\ pd[p][i].pd_pres = 1 => pd[p][i].pd_base \in Frames \ {fr}
             /\ \A p \in Procs, v \in Pages :
                  Live(p) /\ Mapped(p, v) => FrameOf(p, v) \in Frames \ {fr}
<1> DEFINE fr == th[a].fr
<1>1. fr \in Frames
  BY DEF IInv, LocalsOK, Transit
<1>2. ft.ipt[fr].status \in {"NOT_USED", "PAGE"}
  BY DEF TableInv, TransitOK, OnItsWay, Transit
<1>3. ~Queued(a) /\ th[a].pc \in FaultPath
  BY DEF MayRun, Transit, FaultPath
<1>4. \A b \in Actors : b # a => ~Transit(b) /\ th[b].pc # "kill"
  BY <1>3, OneInTransit, AloneFacts DEF OwnInv
<1>5. \A f \in Frames : Taken(f) <=> f = fr
  BY <1>4 DEF Taken
<1>6. \A p \in Procs : Running(p) <=> Live(p)
  BY <1>4, RunningLive DEF Transit
<1>7. \A p \in Procs, i \in Tables :
        Live(p) /\ pd[p][i].pd_pres = 1 => pd[p][i].pd_base \in Frames \ {fr}
  BY <1>2, <1>6 DEF TableInv, TablesOwned
<1>8. \A p \in Procs, v \in Pages : Live(p) /\ Mapped(p, v) => FrameOf(p, v) \in Frames \ {fr}
  BY <1>5, <1>6 DEF TableInv, MappedPages
<1> QED BY <1>1, <1>2, <1>4, <1>5, <1>6, <1>7, <1>8

\* A page is where it was, with the same bits.
SamePage(p, v) == /\ Mapped(p, v)' <=> Mapped(p, v)
                  /\ Mapped(p, v) => EntryOf(p, v)' = EntryOf(p, v) /\ FrameOf(p, v)' = FrameOf(p, v)

\* A frame on its way holds no page table that a process uses: blanking it
\* changes no mapping.
LEMMA BlankView ==
  ASSUME IInv, IInv', OwnInv, TableInv, NEW a \in Actors, MayRun(a), Transit(a),
         pt' = [pt EXCEPT ![th[a].fr] = [j \in Slots |-> NoPTE]]
  PROVE  /\ \A f \in Frames : f # th[a].fr => Present(f)' = Present(f)
         /\ \A f \in Frames : f = th[a].fr => Present(f)' = {}
         /\ \A p \in Procs, v \in Pages :
              Live(p) /\ pd'[p][vaddr2pdi(v)] = pd[p][vaddr2pdi(v)] => SamePage(p, v)
<1> DEFINE fr == th[a].fr
<1>1. /\ fr \in Frames
      /\ \A p \in Procs, i \in Tables :
           Live(p) /\ pd[p][i].pd_pres = 1 => pd[p][i].pd_base \in Frames \ {fr}
  BY FrameInHand
<1>2. /\ \A f \in Frames : f # fr => pt'[f] = pt[f]
      /\ \A j \in Slots : pt'[fr][j] = NoPTE
  <2> HIDE DEF fr
  <2>1. pt' = [pt EXCEPT ![fr] = [j \in Slots |-> NoPTE]]
    BY DEF fr
  <2> QED BY <1>1, <2>1 DEF IInv, TypeOK
<1>3. \A f \in Frames : f # fr => Present(f)' = Present(f)
  BY <1>2 DEF Present
<1>4. \A f \in Frames : f = fr => Present(f)' = {}
  BY <1>2 DEF Present, NoPTE
<1>5. ASSUME NEW p \in Procs, NEW v \in Pages, Live(p),
             pd'[p][vaddr2pdi(v)] = pd[p][vaddr2pdi(v)]
      PROVE  SamePage(p, v)
  <2> DEFINE i == vaddr2pdi(v)
             e == pd[p][i]
             j == vaddr2pti(v)
  <2>1. /\ i \in Tables
        /\ Mapped(p, v) <=> e.pd_pres = 1 /\ e.pd_base \in Frames /\ pt[e.pd_base][j].pt_pres = 1
        /\ FrameOf(p, v) = pt[e.pd_base][j].pt_base
    BY Walk
  <2>2. /\ Mapped(p, v)' <=> e.pd_pres = 1 /\ e.pd_base \in Frames /\ pt'[e.pd_base][j].pt_pres = 1
        /\ FrameOf(p, v)' = pt'[e.pd_base][j].pt_base
    BY <1>5, WalkNext
  <2>3. e.pd_pres = 1 => pt'[e.pd_base] = pt[e.pd_base]
    <3>1. i \in Tables /\ pd[p][i].pd_pres = 1 => pd[p][i].pd_base \in Frames \ {fr}
      BY <1>1, <1>5
    <3> QED BY <1>2, <2>1, <3>1
  <2>4. EntryOf(p, v) = pt[e.pd_base][j] /\ EntryOf(p, v)' = pt'[e.pd_base][j]
    BY <1>5 DEF EntryOf
  <2> HIDE DEF i, e, j
  <2> QED BY <2>1, <2>2, <2>3, <2>4 DEF SamePage
<1> QED BY <1>3, <1>4, <1>5

\* The frame of a page or of a page directory.
LEMMA FillTable ==
  ASSUME IInv, IInv', OwnInv, TableInv, NEW a \in Actors,
         At(a, "init"), InitFrame(a), Others(a),
         pt' = [pt EXCEPT ![th[a].fr] = [j \in Slots |-> NoPTE]], UNCHANGED <<pd, proc>>,
         \/ /\ th[a].type = "PAGE" /\ a \in Procs /\ th'[a].pc = "read_bs"
            /\ th'[a].fr = th[a].fr /\ SameLocals(th[a], th'[a])
         \/ th[a].type = "PDIR" /\ th'[a].pc = "init_pd"
  PROVE  TableInv'
<1> DEFINE fr == th[a].fr
<1>0. MayRun(a) /\ Transit(a) /\ th[a].pc = "init"
  BY DEF At, Transit
<1>1. /\ fr \in Frames
      /\ \A b \in Actors : b # a => ~Transit(b) /\ th[b].pc # "kill"
      /\ \A f \in Frames : Taken(f) <=> f = fr
      /\ \A p \in Procs : Running(p) <=> Live(p)
      /\ \A p \in Procs, i \in Tables :
           Live(p) /\ pd[p][i].pd_pres = 1 => pd[p][i].pd_base \in Frames \ {fr}
      /\ \A p \in Procs, v \in Pages : Live(p) /\ Mapped(p, v) => FrameOf(p, v) \in Frames \ {fr}
  BY <1>0, FrameInHand
<1>2. /\ \A f \in Frames : f # fr => Present(f)' = Present(f)
      /\ \A p \in Procs, v \in Pages : Live(p) =>
           (Mapped(p, v)' <=> Mapped(p, v)) /\ (Mapped(p, v) => FrameOf(p, v)' = FrameOf(p, v))
  BY <1>0, BlankView DEF SamePage
<1>3. /\ ft'.ipt[fr].status = th[a].type /\ ft'.ipt[fr].pid = Owner(a)
      /\ ft'.ipt[fr].vpn = (IF th[a].type = "PAGE" THEN th[a].v ELSE NO_VPN)
      /\ ft'.ipt[fr].refCount = 0
      /\ \A f \in Frames : f # fr => SameEntry(ft, ft', f)
  BY InitFrameEffect
<1>4. \A p \in Procs : (Running(p)' => Running(p)) /\ Live(p)' = Live(p)
  BY <1>1 DEF Running, Live
<1>5. a \in Procs => /\ Owner(a) = a /\ Live(a) /\ th[a].v \in Pages
                     /\ th[a].v < proc[a].hsize
  <2> SUFFICES ASSUME a \in Procs PROVE Owner(a) = a /\ Live(a) /\ th[a].v \in Pages
                                         /\ th[a].v < proc[a].hsize
    OBVIOUS
  <2>1. Live(a) /\ th[a].v \in Pages
    BY <1>0 DEF IInv, LocalsOK, TypeOK, SlotFree, Live, Thread
  <2>2. th[a].v < proc[a].hsize
    BY <1>0 DEF TableInv, HandlerOK, InHand, Handling
  <2> QED BY <2>1, <2>2, Kinds DEF Owner
<1>6. th[a].type = "PAGE" => \A f \in Frames : Taken(f)' <=> f = fr
  BY <1>1 DEF Taken, Transit, Others
<1>7. th[a].type # "PAGE" => \A f \in Frames : ~Taken(f)'
  BY <1>1 DEF Taken, Transit, Others
<1> HIDE DEF fr
<1>8. PagesMapped'
  <2> SUFFICES ASSUME NEW f \in Frames, ft'.ipt[f].status = "PAGE",
                      NEW p, NEW v, p = ft'.ipt[f].pid, v = ft'.ipt[f].vpn
               PROVE  /\ p \in Procs /\ Live(p)' /\ v \in Pages /\ v < proc[p].hsize
                      /\ Taken(f)' \/ (Mapped(p, v)' /\ FrameOf(p, v)' = f)
    BY DEF PagesMapped
  <2>1. CASE f = fr
    BY <1>3, <1>4, <1>5, <1>6, <2>1, Kinds
  <2>2. CASE f # fr
    <3>1. SameEntry(ft, ft', f) /\ ~Taken(f)
      BY <1>1, <1>3, <2>2
    <3>2. p \in Procs /\ Live(p) /\ v \in Pages /\ v < proc[p].hsize /\ Mapped(p, v) /\ FrameOf(p, v) = f
      BY <3>1 DEF TableInv, PagesMapped, SameEntry
    <3> QED BY <1>2, <1>4, <3>2
  <2> QED BY <2>1, <2>2
<1>9. MappedPages'
  BY <1>1, <1>2, <1>3, <1>4, <1>6, <1>7 DEF TableInv, MappedPages, SameEntry
<1>10. TablesOwned'
  BY <1>1, <1>3, <1>4 DEF TableInv, TablesOwned, SameEntry
<1>11. TransitOK'
  <2>1. ASSUME NEW b \in Actors, Transit(b)' PROVE b = a /\ th[a].type = "PAGE"
    BY <1>1, <2>1 DEF Transit, Others
  <2>2. th[a].type = "PAGE" => OnItsWay(a, th[a])'
    BY <1>3, <1>5 DEF OnItsWay, SameLocals, fr
  <2> QED BY <2>1, <2>2 DEF TransitOK, OnItsWay, Transit
<1>12. Counts'
  BY <1>2, <1>3, <1>4 DEF TableInv, Counts, SameEntry
<1>13. HandlerOK'
  <2> SUFFICES ASSUME NEW p \in Procs, th'[p].pc \in Handling \cup {"pf"} PROVE InHand(p, th[p])'
    BY DEF HandlerOK, InHand
  <2>1. th[p].pc \in Handling \cup {"pf"} /\ (th'[p].pc \in Handling => th[p].pc \in Handling)
    BY <1>0, Kinds DEF Others, Handling
  <2>2. th'[p].v = th[p].v /\ th'[p].type = th[p].type /\ th'[p].pt = th[p].pt
    BY Kinds DEF Others, SameLocals, Handling
  <2>3. Live(p) /\ th[p].v \in Pages
    BY <2>1, Kinds, ZenonT(30) DEF IInv, LocalsOK, TypeOK, SlotFree, Live, Thread, Handling
  <2>4. InHand(p, th[p])
    BY DEF TableInv, HandlerOK
  <2>5. \A v : v = th[p].v => ~Mapped(p, v)'
    BY <1>2, <2>1, <2>3, <2>4 DEF InHand
  <2> QED BY <2>1, <2>2, <2>4, <2>5 DEF InHand
<1> QED BY <1>8, <1>9, <1>10, <1>11, <1>12, <1>13 DEF TableInv

\* A new page table, where there was none, changes no mapping.
LEMMA NewPageTableView ==
  ASSUME IInv, IInv', OwnInv, TableInv, NEW a \in Procs, NewPageTable(a)
  PROVE  LET fr == th[a].fr
             i == vaddr2pdi(th[a].v)
         IN  /\ \A f \in Frames : f # fr => Present(f)' = Present(f)
             /\ \A f \in Frames : f = fr => Present(f)' = {}
             /\ Live(a) /\ th[a].v \in Pages /\ th[a].v < proc[a].hsize /\ i \in Tables
             /\ pd[a][i].pd_pres = 0 /\ ~Mapped(a, th[a].v)
             /\ pd'[a][i] = [pd_pres |-> 1, pd_base |-> fr]
             /\ \A p \in Procs, k \in Tables : p # a \/ k # i => pd'[p][k] = pd[p][k]
             /\ \A p \in Procs, v \in Pages : Live(p) => SamePage(p, v)
<1> DEFINE fr == th[a].fr
           i == vaddr2pdi(th[a].v)
           d == [pd_pres |-> 1, pd_base |-> fr]
<1>0. /\ At(a, "init") /\ th[a].type = "PTAB" /\ InitFrame(a) /\ Others(a)
      /\ pt' = [pt EXCEPT ![fr] = [j \in Slots |-> NoPTE]]
      /\ pd' = [pd EXCEPT ![a][i] = d]
      /\ th'[a].pc = "alloc" /\ th'[a].type = "PAGE" /\ th'[a].pt = fr /\ th'[a].v = th[a].v
      /\ proc' = proc
  BY NewPageTableEffect
<1>1. MayRun(a) /\ Transit(a) /\ th[a].pc = "init" /\ a \in Actors
  BY <1>0, Kinds DEF At, Transit
<1>2. /\ fr \in Frames
      /\ \A b \in Actors : b # a => ~Transit(b) /\ th[b].pc # "kill"
      /\ \A f \in Frames : Taken(f) <=> f = fr
      /\ \A p \in Procs : Running(p) <=> Live(p)
      /\ \A p \in Procs, k \in Tables :
           Live(p) /\ pd[p][k].pd_pres = 1 => pd[p][k].pd_base \in Frames \ {fr}
      /\ \A p \in Procs, v \in Pages : Live(p) /\ Mapped(p, v) => FrameOf(p, v) \in Frames \ {fr}
  BY <1>1, FrameInHand
<1>3. /\ \A f \in Frames : f # fr => Present(f)' = Present(f)
      /\ \A f \in Frames : f = fr => Present(f)' = {}
      /\ \A p \in Procs, v \in Pages :
           Live(p) /\ pd'[p][vaddr2pdi(v)] = pd[p][vaddr2pdi(v)] => SamePage(p, v)
  BY <1>0, <1>1, BlankView
<1>4. /\ Live(a) /\ th[a].v \in Pages /\ th[a].v < proc[a].hsize /\ i \in Tables
      /\ pd[a][i].pd_pres = 0 /\ ~Mapped(a, th[a].v)
  <2>1. Live(a) /\ th[a].v \in Pages
    BY <1>1 DEF IInv, LocalsOK, TypeOK, SlotFree, Live, Thread
  <2>2. th[a].v < proc[a].hsize /\ pd[a][i].pd_pres = 0 /\ ~Mapped(a, th[a].v)
    BY <1>0, <1>1 DEF TableInv, HandlerOK, InHand, Handling
  <2> QED BY <2>1, <2>2, Walk
<1>5. /\ pd'[a][i] = d
      /\ \A p \in Procs, k \in Tables : p # a \/ k # i => pd'[p][k] = pd[p][k]
  <2> HIDE DEF i, d
  <2> QED BY <1>0, <1>4 DEF IInv, TypeOK
<1>6. d.pd_pres = 1 /\ d.pd_base = fr
  OBVIOUS
<1>7. \A p \in Procs, v \in Pages : Live(p) => SamePage(p, v)
  <2> SUFFICES ASSUME NEW p \in Procs, NEW v \in Pages, Live(p)
               PROVE  SamePage(p, v)
    OBVIOUS
  <2>1. CASE p = a /\ vaddr2pdi(v) = i
    <3>1. ~Mapped(p, v)
      BY <1>4, <2>1, Walk
    <3>2. Mapped(p, v)' => pt'[fr][vaddr2pti(v)].pt_pres = 1 /\ vaddr2pti(v) \in Slots
      BY <1>5, <1>6, <2>1, Walk, WalkNext
    <3>3. \A j \in Slots : pt'[fr][j].pt_pres = 0
      <4> HIDE DEF fr
      <4> QED BY <1>0, <1>2 DEF IInv, TypeOK, NoPTE
    <3> HIDE DEF fr, i, d
    <3> QED BY <3>1, <3>2, <3>3 DEF SamePage
  <2>2. CASE p # a \/ vaddr2pdi(v) # i
    <3>1. vaddr2pdi(v) \in Tables
      BY Walk
    <3> HIDE DEF fr, i, d
    <3> QED BY <1>3, <1>5, <2>2, <3>1
  <2> QED BY <2>1, <2>2
<1> QED BY <1>3, <1>4, <1>5, <1>7

\* A new page table: it is empty and its entry in the page directory is the only
\* one that points to it.
LEMMA NewPageTableTable ==
  ASSUME IInv, IInv', OwnInv, TableInv, NEW a \in Procs, NewPageTable(a)
  PROVE  TableInv'
<1> DEFINE fr == th[a].fr
           i == vaddr2pdi(th[a].v)
           d == [pd_pres |-> 1, pd_base |-> fr]
<1>0. /\ At(a, "init") /\ th[a].type = "PTAB" /\ InitFrame(a) /\ Others(a)
      /\ pt' = [pt EXCEPT ![fr] = [j \in Slots |-> NoPTE]]
      /\ pd' = [pd EXCEPT ![a][i] = d]
      /\ th'[a].pc = "alloc" /\ th'[a].type = "PAGE" /\ th'[a].pt = fr /\ th'[a].v = th[a].v
      /\ proc' = proc
  BY NewPageTableEffect
<1>1. MayRun(a) /\ Transit(a) /\ th[a].pc = "init" /\ a \in Actors
  BY <1>0, Kinds DEF At, Transit
<1>2. /\ fr \in Frames
      /\ \A b \in Actors : b # a => ~Transit(b) /\ th[b].pc # "kill"
      /\ \A f \in Frames : Taken(f) <=> f = fr
      /\ \A p \in Procs : Running(p) <=> Live(p)
      /\ \A p \in Procs, k \in Tables :
           Live(p) /\ pd[p][k].pd_pres = 1 => pd[p][k].pd_base \in Frames \ {fr}
      /\ \A p \in Procs, v \in Pages : Live(p) /\ Mapped(p, v) => FrameOf(p, v) \in Frames \ {fr}
  BY <1>1, FrameInHand
<1>3. /\ \A f \in Frames : f # fr => Present(f)' = Present(f)
      /\ \A f \in Frames : f = fr => Present(f)' = {}
  BY NewPageTableView
<1>4. /\ ft'.ipt[fr].status = "PTAB" /\ ft'.ipt[fr].pid = a /\ ft'.ipt[fr].refCount = 0
      /\ \A f \in Frames : f # fr => SameEntry(ft, ft', f)
  BY <1>0, <1>1, InitFrameEffect, Kinds DEF Owner
<1>5. \A p \in Procs : (Running(p)' => Running(p)) /\ Live(p)' = Live(p)
  BY <1>0, <1>2 DEF Running, Live
<1>6. \A b \in Actors : ~Transit(b)'
  BY <1>0, <1>2 DEF Transit, Others
<1>7. /\ Live(a) /\ th[a].v \in Pages /\ th[a].v < proc[a].hsize /\ i \in Tables
      /\ pd[a][i].pd_pres = 0 /\ ~Mapped(a, th[a].v)
  BY NewPageTableView
<1>8. /\ pd'[a][i] = d
      /\ \A p \in Procs, k \in Tables : p # a \/ k # i => pd'[p][k] = pd[p][k]
  BY NewPageTableView
<1>9. d.pd_pres = 1 /\ d.pd_base = fr
  OBVIOUS
<1>10. \A p \in Procs, v \in Pages : Live(p) =>
         (Mapped(p, v)' <=> Mapped(p, v)) /\ (Mapped(p, v) => FrameOf(p, v)' = FrameOf(p, v))
  BY NewPageTableView DEF SamePage
<1> HIDE DEF fr, i, d
<1>11. PagesMapped'
  <2> SUFFICES ASSUME NEW f \in Frames, ft'.ipt[f].status = "PAGE",
                      NEW p, NEW v, p = ft'.ipt[f].pid, v = ft'.ipt[f].vpn
               PROVE  /\ p \in Procs /\ Live(p)' /\ v \in Pages /\ v < proc[p].hsize
                      /\ Mapped(p, v)' /\ FrameOf(p, v)' = f
    BY <1>0 DEF PagesMapped
  <2>1. SameEntry(ft, ft', f) /\ ~Taken(f)
    BY <1>2, <1>4
  <2>2. p \in Procs /\ Live(p) /\ v \in Pages /\ v < proc[p].hsize /\ Mapped(p, v) /\ FrameOf(p, v) = f
    BY <2>1 DEF TableInv, PagesMapped, SameEntry
  <2> QED BY <1>5, <1>10, <2>2
<1>12. MappedPages'
  <2>1. \A f \in Frames : ~Taken(f)'
    BY <1>6 DEF Taken
  <2> QED BY <1>2, <1>4, <1>5, <1>10, <2>1 DEF TableInv, MappedPages, SameEntry
<1>13. TablesOwned'
  <2> SUFFICES ASSUME NEW p \in Procs, NEW k \in Tables, Running(p)', pd'[p][k].pd_pres = 1
               PROVE  LET t == pd'[p][k].pd_base
                      IN  /\ t \in Frames /\ ft'.ipt[t].status = "PTAB" /\ ft'.ipt[t].pid = p
                          /\ \A l \in Tables : pd'[p][l] = pd'[p][k] => l = k
    BY DEF TablesOwned
  <2>1. Live(p) /\ Running(p)
    BY <1>2, <1>5
  <2>2. \A l \in Tables : pd[p][l].pd_pres = 1 => pd[p][l].pd_base # fr
    BY <1>2, <2>1
  <2>3. CASE p = a /\ k = i
    BY <1>2, <1>4, <1>7, <1>8, <1>9, <2>2, <2>3
  <2>4. CASE p # a \/ k # i
    <3>1. pd'[p][k] = pd[p][k] /\ pd[p][k].pd_base # fr
      BY <1>8, <2>2, <2>4
    <3>2. \A l \in Tables : pd'[p][l] = pd'[p][k] => pd[p][l] = pd[p][k]
      BY <1>8, <1>9, <3>1
    <3> QED BY <1>4, <2>1, <3>1, <3>2 DEF TableInv, TablesOwned, SameEntry
  <2> QED BY <2>3, <2>4
<1>14. TransitOK'
  BY <1>6 DEF TransitOK, OnItsWay, Transit
<1>15. Counts'
  <2> SUFFICES ASSUME NEW f \in Frames
               PROVE  /\ ft'.ipt[f].status = "PTAB" /\ ft'.ipt[f].pid \in Procs =>
                            /\ proc'[ft'.ipt[f].pid].prstate = "live"
                            /\ ft'.ipt[f].refCount = Cardinality(Present(f)')
                            /\ \E k \in Tables : pd'[ft'.ipt[f].pid][k] = [pd_pres |-> 1, pd_base |-> f]
                      /\ ft'.ipt[f].status # "PTAB" => ft'.ipt[f].refCount = 0
    BY DEF Counts, Live
  <2>1. CASE f = fr
    <3>1. pd'[a][i] = [pd_pres |-> 1, pd_base |-> f]
      BY <1>8, <2>1 DEF d
    <3>2. Cardinality(Present(f)') = 0
      BY <1>3, <2>1, FS_EmptySet
    <3> QED BY <1>0, <1>4, <1>7, <2>1, <3>1, <3>2 DEF Live
  <2>2. CASE f # fr
    <3>1. SameEntry(ft, ft', f) /\ Present(f)' = Present(f)
      BY <1>3, <1>4, <2>2
    <3>2. \A p \in Procs, k \in Tables : pd[p][k] = [pd_pres |-> 1, pd_base |-> f] => pd'[p][k] = pd[p][k]
      BY <1>7, <1>8
    <3> QED BY <1>0, <3>1, <3>2 DEF TableInv, Counts, SameEntry, Live
  <2> QED BY <2>1, <2>2
<1>16. HandlerOK'
  <2> SUFFICES ASSUME NEW p \in Procs, th'[p].pc \in Handling \cup {"pf"} PROVE InHand(p, th[p])'
    BY DEF HandlerOK, InHand
  <2>1. CASE p = a
    <3>1. \A v : v = th[a].v => ~Mapped(a, v)'
      BY <1>7, <1>10
    <3>2. pd'[a][vaddr2pdi(th'[a].v)] = [pd_pres |-> 1, pd_base |-> th'[a].pt]
      BY <1>0, <1>8 DEF i, d
    <3> QED BY <1>0, <1>7, <2>1, <3>1, <3>2 DEF InHand
  <2>2. CASE p # a
    <3>1. th'[p] = th[p] /\ InHand(p, th[p])
      BY <1>0, <2>2, Kinds DEF Others, TableInv, HandlerOK
    <3>2. Live(p) /\ th[p].v \in Pages
      BY <3>1, Kinds, ZenonT(30) DEF IInv, LocalsOK, TypeOK, SlotFree, Live, Thread, Handling
    <3>3. \A v : v = th[p].v => ~Mapped(p, v)'
      BY <1>10, <3>1, <3>2 DEF InHand
    <3>4. pd'[p][vaddr2pdi(th[p].v)] = pd[p][vaddr2pdi(th[p].v)]
      BY <1>8, <2>2, <3>2, Walk
    <3> QED BY <1>0, <3>1, <3>3, <3>4 DEF InHand
  <2> QED BY <2>1, <2>2
<1> QED BY <1>11, <1>12, <1>13, <1>14, <1>15, <1>16 DEF TableInv

\* The page is mapped where pf_handler found the page table, which holds no
\* other page of that place.
LEMMA ReadBsView ==
  ASSUME IInv, IInv', OwnInv, TableInv, NEW a \in Procs, ReadBs(a)
  PROVE  LET fr == th[a].fr
             v == th[a].v
             t == th[a].pt
             i == vaddr2pdi(v)
             j == vaddr2pti(v)
             x == [pt[t][j] EXCEPT !.pt_pres = 1, !.pt_base = fr]
         IN  /\ ft.ipt[fr].status = "PAGE" /\ ft.ipt[fr].pid = a /\ ft.ipt[fr].vpn = v
             /\ v < proc[a].hsize /\ pd[a][i] = [pd_pres |-> 1, pd_base |-> t] /\ ~Mapped(a, v)
             /\ Live(a) /\ v \in Pages
             /\ i \in Tables /\ j \in Slots
             /\ t \in Frames /\ t # fr /\ ft.ipt[t].status = "PTAB" /\ ft.ipt[t].pid = a
             /\ \A p \in Procs, k \in Tables :
                  Live(p) /\ pd[p][k].pd_pres = 1 /\ pd[p][k].pd_base = t => p = a /\ k = i
             /\ x.pt_pres = 1 /\ x.pt_base = fr /\ pt'[t][j] = x
             /\ \A f \in Frames, k \in Slots : f # t \/ k # j => pt'[f][k] = pt[f][k]
             /\ \A p \in Procs, w \in Pages : Live(p) =>
                  /\ (p # a \/ w # v) => /\ Mapped(p, w)' <=> Mapped(p, w)
                                         /\ Mapped(p, w) => FrameOf(p, w)' = FrameOf(p, w)
                  /\ (p = a /\ w = v) => Mapped(p, w)' /\ FrameOf(p, w)' = fr
<1> DEFINE fr == th[a].fr
           v == th[a].v
           t == th[a].pt
           i == vaddr2pdi(v)
           j == vaddr2pti(v)
           x == [pt[t][j] EXCEPT !.pt_pres = 1, !.pt_base = fr]
<1>0. /\ At(a, "read_bs") /\ Others(a)
      /\ ft' = incRefCount(ft, t) /\ pt' = [pt EXCEPT ![t][j] = x]
      /\ th'[a].pc = "access" /\ UNCHANGED <<pd, proc>>
  BY ReadBsEffect
<1>1. MayRun(a) /\ Transit(a) /\ th[a].pc = "read_bs" /\ a \in Actors
  BY <1>0, Kinds DEF At, Transit
<1>2. /\ fr \in Frames
      /\ \A b \in Actors : b # a => ~Transit(b) /\ th[b].pc # "kill"
      /\ \A f \in Frames : Taken(f) <=> f = fr
      /\ \A p \in Procs : Running(p) <=> Live(p)
      /\ \A p \in Procs, k \in Tables :
           Live(p) /\ pd[p][k].pd_pres = 1 => pd[p][k].pd_base \in Frames \ {fr}
      /\ \A p \in Procs, w \in Pages : Live(p) /\ Mapped(p, w) => FrameOf(p, w) \in Frames \ {fr}
  BY <1>1, FrameInHand
<1>3. /\ ft.ipt[fr].status = "PAGE" /\ ft.ipt[fr].pid = a /\ ft.ipt[fr].vpn = v
      /\ v < proc[a].hsize /\ pd[a][i] = [pd_pres |-> 1, pd_base |-> t] /\ ~Mapped(a, v)
  <2>1. ft.ipt[fr].status = "PAGE" /\ ft.ipt[fr].pid = a /\ ft.ipt[fr].vpn = v
    BY <1>1 DEF TableInv, TransitOK, OnItsWay
  <2>2. th[a].type = "PAGE"
    BY <1>1 DEF OwnInv, Roles, RoleOK
  <2>3. v < proc[a].hsize /\ pd[a][i] = [pd_pres |-> 1, pd_base |-> t] /\ ~Mapped(a, v)
    BY <1>1, <2>2 DEF TableInv, HandlerOK, InHand, Handling
  <2> QED BY <2>1, <2>3
<1>4. Live(a) /\ v \in Pages
  BY <1>1 DEF IInv, LocalsOK, TypeOK, SlotFree, Live, Thread
<1>5. i \in Tables /\ j \in Slots
  BY <1>4, Walk
<1>6. /\ t \in Frames /\ t # fr /\ ft.ipt[t].status = "PTAB" /\ ft.ipt[t].pid = a
      /\ \A p \in Procs, k \in Tables :
           Live(p) /\ pd[p][k].pd_pres = 1 /\ pd[p][k].pd_base = t => p = a /\ k = i
  <2>1. /\ t \in Frames /\ ft.ipt[t].status = "PTAB" /\ ft.ipt[t].pid = a
        /\ \A k \in Tables : pd[a][k] = pd[a][i] => k = i
    <3>1. pd[a][i].pd_pres = 1 /\ pd[a][i].pd_base = t
      BY <1>3
    <3> HIDE DEF t, i
    <3> QED BY <1>2, <1>4, <1>5, <3>1 DEF TableInv, TablesOwned
  <2> HIDE DEF t, i
  <2>2. \A p \in Procs, k \in Tables : Live(p) /\ pd[p][k].pd_pres = 1 /\ pd[p][k].pd_base = t => p = a
    BY <1>2, <2>1 DEF TableInv, TablesOwned
  <2>3. \A k \in Tables : pd[a][k].pd_pres = 1 /\ pd[a][k].pd_base = t => pd[a][k] = pd[a][i]
    <3>1. \A k \in Tables : pd[a][k] \in PDE
      BY DEF IInv, TypeOK
    <3> QED BY <1>3, <3>1 DEF PDE
  <2> QED BY <1>3, <2>1, <2>2, <2>3
<1>7. /\ x.pt_pres = 1 /\ x.pt_base = fr /\ pt'[t][j] = x
      /\ \A f \in Frames, k \in Slots : f # t \/ k # j => pt'[f][k] = pt[f][k]
  <2> HIDE DEF t, j, fr
  <2>1. pt[t][j] \in PTE
    BY <1>5, <1>6 DEF IInv, TypeOK
  <2>2. x.pt_pres = 1 /\ x.pt_base = fr
    BY <2>1 DEF PTE
  <2> HIDE DEF x
  <2> QED BY <1>0, <1>5, <1>6, <2>2 DEF IInv, TypeOK
<1>8. \A p \in Procs, w \in Pages : Live(p) =>
        /\ (p # a \/ w # v) => /\ Mapped(p, w)' <=> Mapped(p, w)
                               /\ Mapped(p, w) => FrameOf(p, w)' = FrameOf(p, w)
        /\ (p = a /\ w = v) => Mapped(p, w)' /\ FrameOf(p, w)' = fr
  <2> SUFFICES ASSUME NEW p \in Procs, NEW w \in Pages, Live(p)
               PROVE  /\ (p # a \/ w # v) => /\ Mapped(p, w)' <=> Mapped(p, w)
                                             /\ Mapped(p, w) => FrameOf(p, w)' = FrameOf(p, w)
                      /\ (p = a /\ w = v) => Mapped(p, w)' /\ FrameOf(p, w)' = fr
    OBVIOUS
  <2> DEFINE k == vaddr2pdi(w)
             l == vaddr2pti(w)
             e == pd[p][k]
  <2>1. /\ k \in Tables /\ l \in Slots
        /\ Mapped(p, w) <=> e.pd_pres = 1 /\ e.pd_base \in Frames /\ pt[e.pd_base][l].pt_pres = 1
        /\ FrameOf(p, w) = pt[e.pd_base][l].pt_base
    BY Walk
  <2>2. /\ Mapped(p, w)' <=> e.pd_pres = 1 /\ e.pd_base \in Frames /\ pt'[e.pd_base][l].pt_pres = 1
        /\ FrameOf(p, w)' = pt'[e.pd_base][l].pt_base
    <3> DEFINE d == pd'[p][k]
    <3>1. /\ Mapped(p, w)' <=> d.pd_pres = 1 /\ d.pd_base \in Frames /\ pt'[d.pd_base][l].pt_pres = 1
          /\ FrameOf(p, w)' = pt'[d.pd_base][l].pt_base
      BY <1>0, WalkNext, Zenon
    <3>2. d = e
      BY <1>0
    <3> QED BY ONLY <3>1, <3>2, Zenon
  <2>3. CASE e.pd_pres = 1 /\ e.pd_base = t /\ l = j
    <3>1. p = a /\ k = i
      <4> HIDE DEF k, i, t
      <4> QED BY <1>6, <2>1, <2>3
    <3>2. w = v
      BY <1>4, <2>3, <3>1, PageIndex
    <3> HIDE DEF k, l, e, t, j, x, fr, v, i
    <3> QED BY <1>6, <1>7, <2>2, <2>3, <3>1, <3>2
  <2>4. CASE ~(e.pd_pres = 1 /\ e.pd_base = t /\ l = j)
    <3>1. p # a \/ w # v
      <4>1. pd[a][i].pd_pres = 1 /\ pd[a][i].pd_base = t
        BY <1>3
      <4> HIDE DEF v, t
      <4> QED BY <2>4, <4>1
    <3> HIDE DEF k, l, e, t, j, x, fr, v, i
    <3> QED BY <1>7, <2>1, <2>2, <2>4, <3>1
  <2> QED BY <2>3, <2>4
<1> QED BY <1>3, <1>4, <1>5, <1>6, <1>7, <1>8

\* The inverse is kept, and the page table counts its new page.
LEMMA ReadBsTable ==
  ASSUME IInv, IInv', OwnInv, TableInv, NEW a \in Procs, ReadBs(a)
  PROVE  TableInv'
<1> DEFINE fr == th[a].fr
           v == th[a].v
           t == th[a].pt
           i == vaddr2pdi(v)
           j == vaddr2pti(v)
           x == [pt[t][j] EXCEPT !.pt_pres = 1, !.pt_base = fr]
<1>0. /\ At(a, "read_bs") /\ Others(a)
      /\ ft' = incRefCount(ft, t) /\ pt' = [pt EXCEPT ![t][j] = x]
      /\ th'[a].pc = "access" /\ UNCHANGED <<pd, proc>>
  BY ReadBsEffect
<1>1. MayRun(a) /\ Transit(a) /\ th[a].pc = "read_bs" /\ a \in Actors
  BY <1>0, Kinds DEF At, Transit
<1>2. /\ fr \in Frames
      /\ \A b \in Actors : b # a => ~Transit(b) /\ th[b].pc # "kill"
      /\ \A f \in Frames : Taken(f) <=> f = fr
      /\ \A p \in Procs : Running(p) <=> Live(p)
      /\ \A p \in Procs, k \in Tables :
           Live(p) /\ pd[p][k].pd_pres = 1 => pd[p][k].pd_base \in Frames \ {fr}
      /\ \A p \in Procs, w \in Pages : Live(p) /\ Mapped(p, w) => FrameOf(p, w) \in Frames \ {fr}
  BY <1>1, FrameInHand
<1>3. /\ ft.ipt[fr].status = "PAGE" /\ ft.ipt[fr].pid = a /\ ft.ipt[fr].vpn = v
      /\ v < proc[a].hsize /\ pd[a][i] = [pd_pres |-> 1, pd_base |-> t] /\ ~Mapped(a, v)
  BY ReadBsView
<1>4. Live(a) /\ v \in Pages
  BY ReadBsView
<1>5. i \in Tables /\ j \in Slots
  BY ReadBsView
<1>6. /\ t \in Frames /\ t # fr /\ ft.ipt[t].status = "PTAB" /\ ft.ipt[t].pid = a
      /\ \A p \in Procs, k \in Tables :
           Live(p) /\ pd[p][k].pd_pres = 1 /\ pd[p][k].pd_base = t => p = a /\ k = i
  BY ReadBsView
<1>7. /\ x.pt_pres = 1 /\ x.pt_base = fr /\ pt'[t][j] = x
      /\ \A f \in Frames, k \in Slots : f # t \/ k # j => pt'[f][k] = pt[f][k]
  BY ReadBsView
<1>8. \A p \in Procs, w \in Pages : Live(p) =>
        /\ (p # a \/ w # v) => /\ Mapped(p, w)' <=> Mapped(p, w)
                               /\ Mapped(p, w) => FrameOf(p, w)' = FrameOf(p, w)
        /\ (p = a /\ w = v) => Mapped(p, w)' /\ FrameOf(p, w)' = fr
  BY ReadBsView
<1>9. /\ \A f \in Frames : SameEntry(ft, ft', f) \/ f = t
      /\ ft'.ipt[t].status = "PTAB" /\ ft'.ipt[t].pid = a
      /\ ft'.ipt[t].refCount = (ft.ipt[t].refCount + 1) % WORD
  <2>1. ft \in FT
    BY FTType DEF IInv
  <2> HIDE DEF t
  <2> QED BY <1>0, <1>6, <2>1, IncRefCountSame DEF SameEntry
<1>10. \A p \in Procs : (Running(p)' => Running(p)) /\ Live(p)' = Live(p)
  BY <1>0, <1>2 DEF Running, Live
<1>11. \A b \in Actors : ~Transit(b)'
  BY <1>0, <1>2 DEF Transit, Others
<1>12. \A f \in Frames : ft'.ipt[f].status = ft.ipt[f].status /\ ft'.ipt[f].pid = ft.ipt[f].pid
  BY <1>6, <1>9 DEF SameEntry
<1>13. /\ \A f \in Frames : f # t => Present(f)' = Present(f)
       /\ \A f \in Frames : f = t => Present(f)' = Present(f) \cup {j}
       /\ j \notin Present(t)
  <2>1. \A f \in Frames : f # t => Present(f)' = Present(f)
    BY <1>7 DEF Present
  <2>2. \A f \in Frames : f = t => Present(f)' = Present(f) \cup {j}
    <3> HIDE DEF t, j, x
    <3> QED BY <1>5, <1>7 DEF Present
  <2>3. pt[t][j].pt_pres # 1
    <3>1. pd[a][i].pd_pres = 1 /\ pd[a][i].pd_base = t
      BY <1>3
    <3> QED BY <1>3, <1>4, <1>6, <3>1, Walk
  <2> QED BY <2>1, <2>2, <2>3 DEF Present
<1> HIDE DEF fr, v, t, i, j, x
<1>14. PagesMapped'
  <2> SUFFICES ASSUME NEW f \in Frames, ft'.ipt[f].status = "PAGE",
                      NEW p, NEW w, p = ft'.ipt[f].pid, w = ft'.ipt[f].vpn
               PROVE  /\ p \in Procs /\ Live(p)' /\ w \in Pages /\ w < proc[p].hsize
                      /\ Mapped(p, w)' /\ FrameOf(p, w)' = f
    BY <1>0 DEF PagesMapped
  <2>1. SameEntry(ft, ft', f)
    BY <1>9
  <2>2. CASE f = fr
    BY <1>3, <1>4, <1>8, <1>10, <2>1, <2>2 DEF SameEntry
  <2>3. CASE f # fr
    <3>1. p \in Procs /\ Live(p) /\ w \in Pages /\ w < proc[p].hsize /\ Mapped(p, w) /\ FrameOf(p, w) = f
      BY <1>2, <2>1, <2>3 DEF TableInv, PagesMapped, SameEntry
    <3> QED BY <1>3, <1>8, <1>10, <3>1
  <2> QED BY <2>2, <2>3
<1>15. MappedPages'
  <2> SUFFICES ASSUME NEW p \in Procs, NEW w \in Pages, Running(p)', Mapped(p, w)'
               PROVE  \E f \in Frames : /\ f = FrameOf(p, w)' /\ ft'.ipt[f].status = "PAGE"
                                        /\ ft'.ipt[f].pid = p /\ ft'.ipt[f].vpn = w /\ ~Taken(f)'
    BY DEF MappedPages
  <2>1. Running(p) /\ Live(p) /\ \A f \in Frames : ~Taken(f)'
    BY <1>2, <1>10, <1>11 DEF Taken
  <2>2. CASE p = a /\ w = v
    <3>1. SameEntry(ft, ft', fr)
      BY <1>2, <1>6, <1>9
    <3> QED BY <1>2, <1>3, <1>8, <2>1, <2>2, <3>1 DEF SameEntry
  <2>3. CASE p # a \/ w # v
    <3>1. Mapped(p, w) /\ FrameOf(p, w)' = FrameOf(p, w)
      BY <1>8, <2>1, <2>3
    <3> DEFINE f == FrameOf(p, w)
    <3>2. /\ f \in Frames /\ ft.ipt[f].status = "PAGE" /\ ft.ipt[f].pid = p /\ ft.ipt[f].vpn = w
      BY <2>1, <3>1 DEF TableInv, MappedPages
    <3> HIDE DEF f
    <3>3. SameEntry(ft, ft', f)
      BY <1>6, <1>9, <3>2
    <3>4. FrameOf(p, w)' = f
      BY <3>1 DEF f
    <3> QED BY <2>1, <3>2, <3>3, <3>4 DEF SameEntry
  <2> QED BY <2>2, <2>3
<1>16. TablesOwned'
  BY <1>0, <1>10, <1>12 DEF TableInv, TablesOwned
<1>17. TransitOK'
  BY <1>11 DEF TransitOK, OnItsWay, Transit
<1>18. Counts'
  <2> SUFFICES ASSUME NEW f \in Frames
               PROVE  /\ ft'.ipt[f].status = "PTAB" /\ ft'.ipt[f].pid \in Procs =>
                            /\ proc'[ft'.ipt[f].pid].prstate = "live"
                            /\ ft'.ipt[f].refCount = Cardinality(Present(f)')
                            /\ \E k \in Tables : pd'[ft'.ipt[f].pid][k] = [pd_pres |-> 1, pd_base |-> f]
                      /\ ft'.ipt[f].status # "PTAB" => ft'.ipt[f].refCount = 0
    BY DEF Counts, Live
  <2>1. CASE f = t
    <3> DEFINE n == Cardinality(Present(t))
    <3>1. ft.ipt[t].refCount = n
      BY <1>6 DEF TableInv, Counts
    <3>2. /\ n \in Nat /\ n + 1 <= PAGETABSIZE /\ PAGETABSIZE \in Nat /\ PAGETABSIZE < WORD
          /\ Cardinality(Present(t) \cup {j}) = n + 1
      <4>1. IsFiniteSet(Slots) /\ Cardinality(Slots) = PAGETABSIZE
        BY SizesAssumption, FS_Interval DEF Slots
      <4>2. Present(t) \in SUBSET Slots /\ Present(t) \cup {j} \in SUBSET Slots
        BY <1>5 DEF Present
      <4>3. IsFiniteSet(Present(t)) /\ n \in Nat
        BY <4>1, <4>2, FS_Subset, FS_CardinalityType
      <4>4. Cardinality(Present(t) \cup {j}) = n + 1
        BY <1>13, <4>3, FS_AddElement
      <4>5. Cardinality(Present(t) \cup {j}) <= PAGETABSIZE
        BY <4>1, <4>2, FS_Subset
      <4> QED BY <4>3, <4>4, <4>5, SizesAssumption
    <3> HIDE DEF n
    <3>3. (n + 1) % WORD = n + 1
      BY <3>2, SizesAssumption
    <3>4. Cardinality(Present(f)') = n + 1
      BY <1>13, <2>1, <3>2
    <3> QED BY <1>0, <1>3, <1>4, <1>5, <1>9, <2>1, <3>1, <3>3, <3>4 DEF Live
  <2>2. CASE f # t
    <3>1. SameEntry(ft, ft', f) /\ Present(f)' = Present(f)
      BY <1>9, <1>13, <2>2
    <3> QED BY <1>0, <3>1 DEF TableInv, Counts, SameEntry, Live
  <2> QED BY <2>1, <2>2
<1>19. HandlerOK'
  <2> SUFFICES ASSUME NEW p \in Procs, th'[p].pc \in Handling \cup {"pf"} PROVE InHand(p, th[p])'
    BY DEF HandlerOK, InHand
  <2>1. p # a
    BY <1>0 DEF Handling
  <2>2. th'[p] = th[p] /\ InHand(p, th[p])
    BY <1>0, <2>1, Kinds DEF Others, TableInv, HandlerOK
  <2>3. Live(p) /\ th[p].v \in Pages
    BY <2>2, Kinds, ZenonT(30) DEF IInv, LocalsOK, TypeOK, SlotFree, Live, Thread, Handling
  <2>4. \A w : w = th[p].v => ~Mapped(p, w)'
    BY <1>8, <2>1, <2>2, <2>3 DEF InHand
  <2> QED BY <1>0, <2>2, <2>4 DEF InHand
<1> QED BY <1>14, <1>15, <1>16, <1>17, <1>18, <1>19 DEF TableInv

-----------------------------------------------------------------------------
(* The eviction of a page. *)

\* The victim is mapped: its page table has an entry for it, and counts it.
LEMMA VictimMapped ==
  ASSUME IInv, OwnInv, TableInv, NEW a \in Actors, At(a, "evict"),
         th[a].fr \in Frames, ft.ipt[th[a].fr].status = "PAGE"
  PROVE  LET fr == th[a].fr
             q == ft.ipt[fr].pid
             v == ft.ipt[fr].vpn
             i == vaddr2pdi(v)
             j == vaddr2pti(v)
             t == pd[q][i].pd_base
         IN  /\ q \in Procs /\ Live(q) /\ v \in Pages /\ v < proc[q].hsize
             /\ Mapped(q, v) /\ FrameOf(q, v) = fr
             /\ i \in Tables /\ j \in Slots
             /\ pd[q][i] = [pd_pres |-> 1, pd_base |-> t]
             /\ t \in Frames /\ t # fr /\ ft.ipt[t].status = "PTAB" /\ ft.ipt[t].pid = q
             /\ \A p \in Procs, k \in Tables :
                  Live(p) /\ pd[p][k].pd_pres = 1 /\ pd[p][k].pd_base = t => p = q /\ k = i
             /\ ft.ipt[t].refCount = Cardinality(Present(t)) /\ j \in Present(t)
             /\ \A b \in Actors : ~Transit(b) /\ th[b].pc # "kill"
             /\ \A p \in Procs : Running(p) <=> Live(p)
             /\ pt[t][j].pt_pres = 1 /\ pt[t][j].pt_base = fr
<1> DEFINE fr == th[a].fr
           q == ft.ipt[fr].pid
           v == ft.ipt[fr].vpn
           i == vaddr2pdi(v)
           j == vaddr2pti(v)
           t == pd[q][i].pd_base
<1>1. ~Queued(a) /\ th[a].pc \in FaultPath /\ MayRun(a) /\ th[a].pc = "evict"
  BY DEF At, MayRun, FaultPath
<1>2. \A b \in Actors : ~Transit(b)
  BY <1>1, OneInTransit DEF Transit
<1>3. \A b \in Actors : th[b].pc # "kill"
  BY <1>1, AloneFacts DEF OwnInv
<1>4. \A p \in Procs : Running(p) <=> Live(p)
  BY <1>3, RunningLive
<1>5. /\ q \in Procs /\ Live(q) /\ v \in Pages /\ v < proc[q].hsize
      /\ Mapped(q, v) /\ FrameOf(q, v) = fr
  BY <1>2 DEF TableInv, PagesMapped, Taken
<1>6. /\ i \in Tables /\ j \in Slots /\ pd[q][i] \in PDE /\ pd[q][i].pd_pres = 1 /\ t \in Frames
      /\ pt[t][j].pt_pres = 1 /\ pt[t][j].pt_base = fr
  BY <1>5, Walk
<1> HIDE DEF i, j, t
<1>7. pd[q][i] = [pd_pres |-> 1, pd_base |-> t]
  BY <1>6 DEF PDE, t
<1>8. /\ ft.ipt[t].status = "PTAB" /\ ft.ipt[t].pid = q
      /\ \A k \in Tables : pd[q][k] = pd[q][i] => k = i
  <2>1. Running(q) /\ pd[q][i].pd_pres = 1 /\ pd[q][i].pd_base = t
    BY <1>4, <1>5, <1>6 DEF t
  <2> QED BY <1>5, <1>6, <2>1, ZenonT(30) DEF TableInv, TablesOwned
<1>9. \A p \in Procs, k \in Tables : Live(p) /\ pd[p][k].pd_pres = 1 /\ pd[p][k].pd_base = t => p = q /\ k = i
  <2>1. \A p \in Procs, k \in Tables : Live(p) /\ pd[p][k].pd_pres = 1 /\ pd[p][k].pd_base = t => p = q
    BY <1>4, <1>8 DEF TableInv, TablesOwned
  <2>2. \A k \in Tables : pd[q][k].pd_pres = 1 /\ pd[q][k].pd_base = t => pd[q][k] = pd[q][i]
    <3>1. \A k \in Tables : pd[q][k] \in PDE
      <4>1. pd \in [Procs -> [Tables -> PDE]] /\ q \in Procs
        BY <1>5 DEF IInv, TypeOK
      <4> QED BY ONLY <4>1
    <3> QED BY <1>7, <3>1 DEF PDE
  <2> QED BY <1>8, <2>1, <2>2
<1>10. ft.ipt[t].refCount = Cardinality(Present(t)) /\ j \in Present(t)
  BY <1>5, <1>6, <1>8 DEF TableInv, Counts, Present
<1>11. t # fr
  BY <1>8
<1> QED BY <1>2, <1>3, <1>4, <1>5, <1>6, <1>7, <1>8, <1>9, <1>10, <1>11 DEF i, j, t

\* evictFrame unmaps its victim and nothing else, and frees the page table with
\* the last entry it counts.
LEMMA EvictView ==
  ASSUME IInv, IInv', OwnInv, TableInv, NEW a \in Actors, Evict(a), ~Still
  PROVE  LET fr == th[a].fr
             q == ft.ipt[fr].pid
             v == ft.ipt[fr].vpn
             i == vaddr2pdi(v)
             j == vaddr2pti(v)
             t == pd[q][i].pd_base
             n == Cardinality(Present(t))
         IN  /\ n \in Nat /\ n > 0 /\ n <= PAGETABSIZE
             /\ \A f \in Frames : f = t => Cardinality(Present(f) \ {j}) = n - 1
             /\ \A f \in Frames : f # t => SameEntry(ft, ft', f)
             /\ n = 1 => ft'.ipt[t] = Cleared
             /\ n # 1 => /\ ft'.ipt[t].status = "PTAB" /\ ft'.ipt[t].pid = q
                         /\ ft'.ipt[t].refCount = n - 1
             /\ \A p \in Procs, k \in Tables : (p # q \/ k # i \/ n # 1) => pd'[p][k] = pd[p][k]
             /\ n = 1 => pd'[q][i].pd_pres = 0
             /\ \A f \in Frames : f # t => Present(f)' = Present(f)
             /\ \A f \in Frames : f = t => Present(f)' = Present(f) \ {j}
             /\ \A p \in Procs, w \in Pages : Live(p) =>
                  /\ Mapped(p, w)' <=> Mapped(p, w) /\ (p # q \/ w # v)
                  /\ Mapped(p, w)' => FrameOf(p, w)' = FrameOf(p, w)
<1> DEFINE fr == th[a].fr
           q == ft.ipt[fr].pid
           v == ft.ipt[fr].vpn
           i == vaddr2pdi(v)
           j == vaddr2pti(v)
           t == pd[q][i].pd_base
           x == MarkAbsent(pt[t][j])
           n == Cardinality(Present(t))
<1>0. /\ At(a, "evict") /\ SameLocals(th[a], th'[a]) /\ th'[a].fr = fr /\ Others(a)
      /\ fr \in Frames /\ ft.ipt[fr].status = "PAGE"
      /\ pt' = [pt EXCEPT ![t][j] = x]
      /\ ft' = decRefCount(ft, currpolicy, t)
      /\ pd' = IF ft'.ipt[t].status = "NOT_USED"
               THEN [pd EXCEPT ![q][i].pd_pres = 0] ELSE pd
      /\ proc' = proc /\ th'[a].pc \in {"init", "write_bs"}
  BY EvictEffect
<1>1. /\ q \in Procs /\ Live(q) /\ v \in Pages /\ v < proc[q].hsize
      /\ Mapped(q, v) /\ FrameOf(q, v) = fr
      /\ i \in Tables /\ j \in Slots
      /\ pd[q][i] = [pd_pres |-> 1, pd_base |-> t]
      /\ t \in Frames /\ t # fr /\ ft.ipt[t].status = "PTAB" /\ ft.ipt[t].pid = q
      /\ \A p \in Procs, k \in Tables :
           Live(p) /\ pd[p][k].pd_pres = 1 /\ pd[p][k].pd_base = t => p = q /\ k = i
      /\ ft.ipt[t].refCount = n /\ j \in Present(t)
      /\ \A b \in Actors : ~Transit(b) /\ th[b].pc # "kill"
      /\ \A p \in Procs : Running(p) <=> Live(p)
  BY <1>0, VictimMapped
<1>2. /\ n \in Nat /\ n > 0 /\ n <= PAGETABSIZE
      /\ \A f \in Frames : f = t => Cardinality(Present(f) \ {j}) = n - 1
  <2>1. IsFiniteSet(Slots) /\ Cardinality(Slots) = PAGETABSIZE
    BY SizesAssumption, FS_Interval DEF Slots
  <2>2. Present(t) \in SUBSET Slots
    BY DEF Present
  <2>3. IsFiniteSet(Present(t)) /\ n \in Nat /\ n <= PAGETABSIZE
    BY <2>1, <2>2, FS_Subset, FS_CardinalityType
  <2> HIDE DEF t, j
  <2>4. Cardinality(Present(t) \ {j}) = n - 1 /\ IsFiniteSet(Present(t) \ {j})
    BY <1>1, <2>3, FS_RemoveElement
  <2>5. n - 1 \in Nat
    <3>1. Cardinality(Present(t) \ {j}) \in Nat
      BY <2>4, FS_CardinalityType
    <3> QED BY <2>4, <3>1
  <2>6. n > 0
    <3> HIDE DEF n
    <3> QED BY <2>3, <2>5
  <2>7. \A f \in Frames : f = t => Cardinality(Present(f) \ {j}) = n - 1
    BY <2>4
  <2> QED BY <2>3, <2>6, <2>7
<1>3. (n + WORD - 1) % WORD = n - 1
  <2> HIDE DEF n
  <2>1. n \in Nat /\ n > 0 /\ n <= PAGETABSIZE /\ WORD \in Nat /\ PAGETABSIZE \in Nat /\ PAGETABSIZE < WORD
    BY <1>2, SizesAssumption
  <2>2. n - 1 \in 0 .. WORD - 1 /\ n + WORD - 1 = (n - 1) + WORD
    BY ONLY <2>1
  <2> QED BY <2>2, WordRemainder, Zenon
<1> HIDE DEF fr, q, v, i, j, t, x, n
<1>4. /\ \A f \in Frames : f # t => SameEntry(ft, ft', f)
      /\ n = 1 => ft'.ipt[t] = Cleared
      /\ n # 1 => /\ ft'.ipt[t].status = "PTAB" /\ ft'.ipt[t].pid = q
                  /\ ft'.ipt[t].refCount = n - 1
  <2>1. ft \in FT
    BY FTType DEF IInv
  <2>2. LET u == decRefCount(ft, currpolicy, t)
            m == (ft.ipt[t].refCount + WORD - 1) % WORD
        IN  /\ \A g \in Frames : g # t => SameEntry(ft, u, g)
            /\ IF m = 0 THEN u.ipt[t] = Cleared
               ELSE /\ u.ipt[t].status = ft.ipt[t].status /\ u.ipt[t].pid = ft.ipt[t].pid
                    /\ u.ipt[t].vpn = ft.ipt[t].vpn /\ u.ipt[t].refCount = m
    BY <1>1, <2>1, DecRefCountSame
  <2>3. (ft.ipt[t].refCount + WORD - 1) % WORD = n - 1
    BY <1>1, <1>3
  <2>4. n - 1 = 0 <=> n = 1
    BY <1>2
  <2> QED BY <1>0, <1>1, <2>2, <2>3, <2>4
<1>5. ft'.ipt[t].status = "NOT_USED" <=> n = 1
  BY <1>4 DEF Cleared
<1>6. /\ \A p \in Procs, k \in Tables : (p # q \/ k # i \/ n # 1) => pd'[p][k] = pd[p][k]
      /\ n = 1 => pd'[q][i].pd_pres = 0
  <2>1. CASE n = 1
    <3>1. pd' = [pd EXCEPT ![q][i].pd_pres = 0]
      BY <1>0, <1>5, <2>1
    <3> QED BY <1>1, <2>1, <3>1 DEF IInv, TypeOK, PDE
  <2>2. CASE n # 1
    BY <1>0, <1>5, <2>2
  <2> QED BY <2>1, <2>2
<1>7. /\ \A k \in Slots : pt'[t][k].pt_pres = 1 <=> k # j /\ pt[t][k].pt_pres = 1
      /\ \A f \in Frames, k \in Slots : f # t \/ k # j => pt'[f][k] = pt[f][k]
  <2>1. pt \in [Frames -> [Slots -> PTE]]
    BY DEF IInv, TypeOK
  <2>2. x.pt_pres = 0
    BY <1>1, <2>1 DEF x, MarkAbsent, PTE
  <2> QED BY <1>0, <1>1, <2>1, <2>2
<1>8. /\ \A f \in Frames : f # t => Present(f)' = Present(f)
      /\ \A f \in Frames : f = t => Present(f)' = Present(f) \ {j}
  BY <1>7 DEF Present
<1>9. \A p \in Procs, w \in Pages : Live(p) =>
        /\ Mapped(p, w)' <=> Mapped(p, w) /\ (p # q \/ w # v)
        /\ Mapped(p, w)' => FrameOf(p, w)' = FrameOf(p, w)
  <2> SUFFICES ASSUME NEW p \in Procs, NEW w \in Pages, Live(p)
               PROVE  /\ Mapped(p, w)' <=> Mapped(p, w) /\ (p # q \/ w # v)
                      /\ Mapped(p, w)' => FrameOf(p, w)' = FrameOf(p, w)
    OBVIOUS
  <2> DEFINE k == vaddr2pdi(w)
             l == vaddr2pti(w)
             e == pd[p][k]
             g == pd'[p][k]
  <2>1. /\ k \in Tables /\ l \in Slots
        /\ Mapped(p, w) <=> e.pd_pres = 1 /\ e.pd_base \in Frames /\ pt[e.pd_base][l].pt_pres = 1
        /\ FrameOf(p, w) = pt[e.pd_base][l].pt_base
    BY Walk
  <2>2. /\ Mapped(p, w)' <=> g.pd_pres = 1 /\ g.pd_base \in Frames /\ pt'[g.pd_base][l].pt_pres = 1
        /\ FrameOf(p, w)' = pt'[g.pd_base][l].pt_base
    BY WalkNext
  <2>3. e.pd_pres = 1 /\ e.pd_base = t => p = q /\ k = i
    BY <1>1, <2>1
  <2>4. k = i /\ l = j => w = v
    BY <1>1, PageIndex DEF i, j
  <2>5. w = v => k = i /\ l = j
    BY DEF i, j
  <2>6. p = q /\ k = i => e.pd_pres = 1 /\ e.pd_base = t
    BY <1>1
  <2>7. CASE p = q /\ k = i /\ n = 1
    <3>1. ~Mapped(p, w)'
      BY <1>6, <2>2, <2>7
    <3>2. Mapped(p, w) => w = v
      <4>1. SUFFICES ASSUME Mapped(p, w), l # j PROVE FALSE
        BY <2>4, <2>7
      <4>2. l \in Present(t) \ {j}
        BY <2>1, <2>6, <2>7, <4>1 DEF Present
      <4>3. IsFiniteSet(Present(t) \ {j}) /\ Cardinality(Present(t) \ {j}) = 0
        <5>1. IsFiniteSet(Slots)
          BY SizesAssumption, FS_Interval DEF Slots
        <5>2. Present(t) \ {j} \in SUBSET Slots
          BY DEF Present
        <5> QED BY <1>1, <1>2, <2>7, <5>1, <5>2, FS_Subset
      <4> QED BY <4>2, <4>3, FS_EmptySet
    <3> QED BY <2>7, <3>1, <3>2
  <2>8. CASE ~(p = q /\ k = i /\ n = 1)
    <3>1. g = e
      BY <1>6, <2>1, <2>8
    <3> HIDE DEF g, e, k, l
    <3>2. CASE e.pd_pres = 1 /\ e.pd_base = t
      BY <1>1, <1>7, <2>1, <2>2, <2>3, <2>4, <2>5, <3>1, <3>2
    <3>3. CASE ~(e.pd_pres = 1 /\ e.pd_base = t)
      BY <1>7, <2>1, <2>2, <2>5, <2>6, <3>1, <3>3
    <3> QED BY <3>2, <3>3
  <2> QED BY <2>7, <2>8
<1> QED BY <1>2, <1>4, <1>6, <1>8, <1>9 DEF fr, q, v, i, j, t, n

\* The inverse is kept, and so are the counts.
LEMMA EvictTable ==
  ASSUME IInv, IInv', OwnInv, TableInv, TableInHandKept, NEW a \in Actors, Evict(a), ~Still
  PROVE  TableInv'
<1> DEFINE fr == th[a].fr
           q == ft.ipt[fr].pid
           v == ft.ipt[fr].vpn
           i == vaddr2pdi(v)
           j == vaddr2pti(v)
           t == pd[q][i].pd_base
           x == MarkAbsent(pt[t][j])
           n == Cardinality(Present(t))
<1>0. /\ At(a, "evict") /\ SameLocals(th[a], th'[a]) /\ th'[a].fr = fr /\ Others(a)
      /\ fr \in Frames /\ ft.ipt[fr].status = "PAGE"
      /\ pt' = [pt EXCEPT ![t][j] = x]
      /\ ft' = decRefCount(ft, currpolicy, t)
      /\ pd' = IF ft'.ipt[t].status = "NOT_USED"
               THEN [pd EXCEPT ![q][i].pd_pres = 0] ELSE pd
      /\ proc' = proc /\ th'[a].pc \in {"init", "write_bs"}
  BY EvictEffect, ZenonT(30)
<1>1. /\ q \in Procs /\ Live(q) /\ v \in Pages /\ v < proc[q].hsize
      /\ Mapped(q, v) /\ FrameOf(q, v) = fr
      /\ i \in Tables /\ j \in Slots
      /\ pd[q][i] = [pd_pres |-> 1, pd_base |-> t]
      /\ t \in Frames /\ t # fr /\ ft.ipt[t].status = "PTAB" /\ ft.ipt[t].pid = q
      /\ \A p \in Procs, k \in Tables :
           Live(p) /\ pd[p][k].pd_pres = 1 /\ pd[p][k].pd_base = t => p = q /\ k = i
      /\ ft.ipt[t].refCount = n /\ j \in Present(t)
      /\ \A b \in Actors : ~Transit(b) /\ th[b].pc # "kill"
      /\ \A p \in Procs : Running(p) <=> Live(p)
  BY <1>0, VictimMapped
<1>2. /\ n \in Nat /\ n > 0 /\ n <= PAGETABSIZE
      /\ \A f \in Frames : f = t => Cardinality(Present(f) \ {j}) = n - 1
  BY EvictView
<1>4. /\ \A f \in Frames : f # t => SameEntry(ft, ft', f)
      /\ n = 1 => ft'.ipt[t] = Cleared
      /\ n # 1 => /\ ft'.ipt[t].status = "PTAB" /\ ft'.ipt[t].pid = q
                  /\ ft'.ipt[t].refCount = n - 1
  BY EvictView
<1>6. /\ \A p \in Procs, k \in Tables : (p # q \/ k # i \/ n # 1) => pd'[p][k] = pd[p][k]
      /\ n = 1 => pd'[q][i].pd_pres = 0
  BY EvictView
<1>8. /\ \A f \in Frames : f # t => Present(f)' = Present(f)
      /\ \A f \in Frames : f = t => Present(f)' = Present(f) \ {j}
  BY EvictView
<1>9. \A p \in Procs, w \in Pages : Live(p) =>
        /\ Mapped(p, w)' <=> Mapped(p, w) /\ (p # q \/ w # v)
        /\ Mapped(p, w)' => FrameOf(p, w)' = FrameOf(p, w)
  BY EvictView
<1> HIDE DEF fr, q, v, i, j, t, x, n
<1>10. \A p \in Procs : (Running(p)' => Running(p)) /\ Live(p)' = Live(p)
  BY <1>0, <1>1 DEF Running, Live
<1>11. \A f \in Frames : ~Taken(f) /\ (Taken(f)' <=> f = fr)
  BY <1>0, <1>1 DEF Taken, Transit, Others
<1>12. PagesMapped'
  <2> SUFFICES ASSUME NEW f \in Frames, ft'.ipt[f].status = "PAGE",
                      NEW p, NEW w, p = ft'.ipt[f].pid, w = ft'.ipt[f].vpn
               PROVE  /\ p \in Procs /\ Live(p)' /\ w \in Pages /\ w < proc[p].hsize
                      /\ Taken(f)' \/ (Mapped(p, w)' /\ FrameOf(p, w)' = f)
    BY <1>0 DEF PagesMapped
  <2>1. SameEntry(ft, ft', f)
    BY <1>4 DEF Cleared
  <2>2. p \in Procs /\ Live(p) /\ w \in Pages /\ w < proc[p].hsize /\ Mapped(p, w) /\ FrameOf(p, w) = f
    BY <1>11, <2>1 DEF TableInv, PagesMapped, SameEntry
  <2>3. f # fr => p # q \/ w # v
    BY <1>1, <2>2
  <2> QED BY <1>9, <1>10, <1>11, <2>2, <2>3
<1>13. MappedPages'
  <2> SUFFICES ASSUME NEW p \in Procs, NEW w \in Pages, Running(p)', Mapped(p, w)'
               PROVE  \E f \in Frames : /\ f = FrameOf(p, w)' /\ ft'.ipt[f].status = "PAGE"
                                        /\ ft'.ipt[f].pid = p /\ ft'.ipt[f].vpn = w /\ ~Taken(f)'
    BY DEF MappedPages
  <2> DEFINE f == FrameOf(p, w)
  <2>1. Running(p) /\ Live(p) /\ Mapped(p, w) /\ (p # q \/ w # v) /\ FrameOf(p, w)' = f
    BY <1>1, <1>9, <1>10
  <2>2. /\ f \in Frames /\ ft.ipt[f].status = "PAGE" /\ ft.ipt[f].pid = p /\ ft.ipt[f].vpn = w
    BY <2>1 DEF TableInv, MappedPages
  <2> HIDE DEF f
  <2>3. f # fr /\ f # t
    BY <1>1, <2>1, <2>2 DEF q, v
  <2> QED BY <1>4, <1>11, <2>1, <2>2, <2>3 DEF SameEntry
<1>14. TablesOwned'
  <2> SUFFICES ASSUME NEW p \in Procs, NEW k \in Tables, Running(p)', pd'[p][k].pd_pres = 1
               PROVE  LET b == pd'[p][k].pd_base
                      IN  /\ b \in Frames /\ ft'.ipt[b].status = "PTAB" /\ ft'.ipt[b].pid = p
                          /\ \A l \in Tables : pd'[p][l] = pd'[p][k] => l = k
    BY DEF TablesOwned
  <2>1. Live(p) /\ Running(p)
    BY <1>1, <1>10
  <2>2. pd'[p][k] = pd[p][k] /\ ~(p = q /\ k = i /\ n = 1)
    BY <1>6
  <2>3. \A l \in Tables : pd'[p][l] = pd'[p][k] => pd[p][l] = pd[p][k]
    BY <1>6, <2>2
  <2> DEFINE b == pd[p][k].pd_base
  <2>4. /\ b \in Frames /\ ft.ipt[b].status = "PTAB" /\ ft.ipt[b].pid = p
        /\ \A l \in Tables : pd[p][l] = pd[p][k] => l = k
    BY <2>1, <2>2 DEF TableInv, TablesOwned
  <2>5. b = t => p = q /\ n # 1
    BY <1>1, <2>1, <2>2
  <2> HIDE DEF b
  <2>6. ft'.ipt[b].status = "PTAB" /\ ft'.ipt[b].pid = p
    BY <1>4, <2>4, <2>5 DEF SameEntry
  <2> QED BY <2>2, <2>3, <2>4, <2>6 DEF b
<1>15. TransitOK'
  <2>1. \A b \in Actors : Transit(b)' => b = a
    BY <1>0, <1>1 DEF Transit, Others
  <2>2. ft'.ipt[fr].status = "PAGE"
    BY <1>0, <1>1, <1>4 DEF SameEntry
  <2> QED BY <1>0, <2>1, <2>2 DEF TransitOK, OnItsWay, Transit
<1>16. Counts'
  <2> SUFFICES ASSUME NEW f \in Frames
               PROVE  /\ ft'.ipt[f].status = "PTAB" /\ ft'.ipt[f].pid \in Procs =>
                            /\ proc'[ft'.ipt[f].pid].prstate = "live"
                            /\ ft'.ipt[f].refCount = Cardinality(Present(f)')
                            /\ \E k \in Tables : pd'[ft'.ipt[f].pid][k] = [pd_pres |-> 1, pd_base |-> f]
                      /\ ft'.ipt[f].status # "PTAB" => ft'.ipt[f].refCount = 0
    BY DEF Counts, Live
  <2>1. CASE f = t /\ n = 1
    BY <1>4, <2>1 DEF Cleared
  <2>2. CASE f = t /\ n # 1
    <3>1. pd'[q][i] = [pd_pres |-> 1, pd_base |-> f]
      BY <1>1, <1>6, <2>2
    <3>2. Cardinality(Present(f)') = n - 1
      BY <1>2, <1>8, <2>2
    <3> QED BY <1>0, <1>1, <1>4, <2>2, <3>1, <3>2 DEF Live
  <2>3. CASE f # t
    <3>1. SameEntry(ft, ft', f) /\ Present(f)' = Present(f)
      BY <1>4, <1>8, <2>3
    <3>2. \A p \in Procs, k \in Tables : pd[p][k] = [pd_pres |-> 1, pd_base |-> f] => pd'[p][k] = pd[p][k]
      BY <1>1, <1>6, <2>3
    <3>3. /\ ft.ipt[f].status = "PTAB" /\ ft.ipt[f].pid \in Procs =>
               /\ Live(ft.ipt[f].pid) /\ ft.ipt[f].refCount = Cardinality(Present(f))
               /\ \E k \in Tables : pd[ft.ipt[f].pid][k] = [pd_pres |-> 1, pd_base |-> f]
          /\ ft.ipt[f].status # "PTAB" => ft.ipt[f].refCount = 0
      BY DEF TableInv, Counts
    <3> QED BY <1>0, <3>1, <3>2, <3>3 DEF SameEntry, Live
  <2> QED BY <2>1, <2>2, <2>3
<1>17. HandlerOK'
  <2> SUFFICES ASSUME NEW p \in Procs, th'[p].pc \in Handling \cup {"pf"} PROVE InHand(p, th[p])'
    BY DEF HandlerOK, InHand
  <2>1. /\ th[p].pc \in Handling \cup {"pf"} /\ (th'[p].pc \in Handling <=> th[p].pc \in Handling)
        /\ th'[p].v = th[p].v /\ th'[p].type = th[p].type /\ th'[p].pt = th[p].pt
    BY <1>0, Kinds DEF Others, SameLocals, Handling, At
  <2>2. Live(p) /\ th[p].v \in Pages /\ vaddr2pdi(th[p].v) \in Tables
    <3>1. Live(p) /\ th[p].v \in Pages
      BY <2>1, Kinds, ZenonT(30) DEF IInv, LocalsOK, TypeOK, SlotFree, Live, Thread, Handling
    <3> QED BY <3>1, Walk
  <2>3. InHand(p, th[p])
    BY DEF TableInv, HandlerOK
  <2>4. \A w : w = th[p].v => ~Mapped(p, w)'
    BY <1>9, <2>1, <2>2, <2>3 DEF InHand
  <2>5. pd[p][vaddr2pdi(th[p].v)].pd_pres = 0 => pd'[p][vaddr2pdi(th[p].v)].pd_pres = 0
    BY <1>1, <1>6, <2>2
  <2>6. th[p].pc \in Handling /\ th[p].type = "PAGE" =>
          pd'[p][vaddr2pdi(th[p].v)] = pd[p][vaddr2pdi(th[p].v)]
    BY <2>1 DEF TableInHandKept
  <2> QED BY <1>0, <2>1, <2>3, <2>4, <2>5, <2>6 DEF InHand
<1> QED BY <1>12, <1>13, <1>14, <1>15, <1>16, <1>17 DEF TableInv

-----------------------------------------------------------------------------
(* The theorem. *)

\* At boot no heap page is mapped and only the global page tables exist.
LEMMA InitTable == Init => TableInv
<1> SUFFICES ASSUME Init PROVE TableInv
  OBVIOUS
<1>1. \A f \in Frames : ft.ipt[f] = BootFrame(f)
  BY DEF Init
<1>2. \A f \in Frames : /\ ft.ipt[f].status # "PAGE" /\ ft.ipt[f].refCount = 0
                        /\ ft.ipt[f].status = "PTAB" => ft.ipt[f].pid = GLOBAL
  <2> SUFFICES ASSUME NEW f \in Frames
               PROVE  /\ ft.ipt[f].status # "PAGE" /\ ft.ipt[f].refCount = 0
                      /\ ft.ipt[f].status = "PTAB" => ft.ipt[f].pid = GLOBAL
    OBVIOUS
  <2>1. \/ ft.ipt[f] = [Cleared EXCEPT !.status = "PTAB", !.pid = GLOBAL]
        \/ ft.ipt[f] = [Cleared EXCEPT !.status = "PDIR", !.pid = NULLPROC]
        \/ ft.ipt[f] = Cleared
    BY <1>1 DEF BootFrame
  <2>2. Cleared.refCount = 0 /\ Cleared.status = "NOT_USED"
    BY DEF Cleared
  <2>3. LET e == [Cleared EXCEPT !.status = "PTAB", !.pid = GLOBAL]
        IN  e.refCount = 0 /\ e.status = "PTAB" /\ e.pid = GLOBAL
    BY DEF Cleared
  <2>4. LET e == [Cleared EXCEPT !.status = "PDIR", !.pid = NULLPROC]
        IN  e.refCount = 0 /\ e.status = "PDIR"
    BY DEF Cleared
  <2> QED BY <2>1, <2>2, <2>3, <2>4
<1>3. GLOBAL \notin Procs
  BY SizesAssumption DEF GLOBAL, Procs
<1>4. \A p \in Procs : ~Live(p) /\ ~Running(p)
  BY DEF Init, Live, Running
<1>5. \A a \in Actors : th[a].pc = "user"
  BY DEF Init, Idle
<1>6. PagesMapped /\ MappedPages /\ TablesOwned
  BY <1>2, <1>4 DEF PagesMapped, MappedPages, TablesOwned
<1>7. TransitOK /\ HandlerOK
  BY <1>5, Kinds DEF TransitOK, OnItsWay, HandlerOK, InHand, Handling
<1>8. Counts
  BY <1>2, <1>3 DEF Counts
<1> QED BY <1>6, <1>7, <1>8 DEF TableInv

\* Every step keeps it.
LEMMA StepTable ==
  ~KillRaces /\ IInv /\ IInv' /\ OwnInv /\ TableInv /\ [TableInHandKept]_vars /\ [Next]_vars => TableInv'
<1> SUFFICES ASSUME ~KillRaces, IInv, IInv', OwnInv, TableInv, [TableInHandKept]_vars, [Next]_vars
             PROVE  TableInv'
  OBVIOUS
<1>1. CASE UNCHANGED vars
  BY <1>1, StillTable DEF vars, Still
<1>2. CASE Next /\ TableInHandKept
  <2>1. ASSUME NEW p \in Procs, Access(p) \/ Retry(p) \/ FaultStep(p) PROVE TableInv'
    <3>1. CASE Access(p) \/ Retry(p) \/ PfHandler(p)
      BY <3>1, UserCalm, CalmTable, Kinds
    <3>2. CASE NewPageTable(p)
      BY <3>2, NewPageTableTable
    <3>3. CASE LoadPage(p)
      <4>1. SUFFICES ASSUME ~Still PROVE TableInv'
        BY StillTable
      <4>2. /\ At(p, "init") /\ th[p].type = "PAGE" /\ InitFrame(p) /\ Others(p)
            /\ pt' = [pt EXCEPT ![th[p].fr] = [j \in Slots |-> NoPTE]]
            /\ th'[p].pc = "read_bs" /\ SameLocals(th[p], th'[p]) /\ th'[p].fr = th[p].fr
            /\ UNCHANGED <<pd, proc>>
        BY <3>3, <4>1, LoadPageEffect
      <4> QED BY <4>2, FillTable, Kinds
    <3>4. CASE ReadBs(p)
      BY <3>4, ReadBsTable
    <3> QED BY <2>1, <3>1, <3>2, <3>3, <3>4 DEF FaultStep
  <2>2. ASSUME NEW a \in Actors, FrameStep(a) PROVE TableInv'
    <3>1. CASE Evict(a)
      BY <1>2, <3>1, EvictTable, StillTable
    <3> QED BY <2>2, <3>1, FrameCalm, CalmTable, StillTable
  <2>3. ASSUME NEW a \in Actors, KillStep(a) PROVE TableInv'
    BY <2>3, KillFrameTable, FinishKillTable DEF KillStep
  <2>4. ASSUME NEW a \in Actors, NEW p \in Procs, Kill(a, p) PROVE TableInv'
    BY <2>4, KillCalm, CalmTable
  <2>5. ASSUME NEW a \in Creators, Vcreate(a) \/ CreateStep(a) \/ srpolicy(a) PROVE TableInv'
    <3>1. CASE Vcreate(a) \/ srpolicy(a)
      BY <3>1, CallCalm, CalmTable, StillTable, Kinds
    <3>2. CASE NewPageDirectory(a)
      <4>1. /\ At(a, "init") /\ th[a].type = "PDIR" /\ InitFrame(a) /\ Others(a)
            /\ pt' = [pt EXCEPT ![th[a].fr] = [j \in Slots |-> NoPTE]]
            /\ th'[a].pc = "init_pd" /\ UNCHANGED <<pd, proc>>
        BY <3>2, NewPageDirectoryEffect
      <4> QED BY <4>1, FillTable, Kinds
    <3>3. CASE FinishVcreate(a)
      BY <3>3, FinishVcreateTable
    <3> QED BY <2>5, <3>1, <3>2, <3>3 DEF CreateStep
  <2> QED BY <1>2, <2>1, <2>2, <2>3, <2>4, <2>5, Zenon DEF Next
<1> QED BY <1>1, <1>2

\* The invariant implies the two properties.
LEMMA TableImplies == IInv /\ TableInv => InvertedTable /\ RefCounts
<1> SUFFICES ASSUME IInv, TableInv PROVE InvertedTable /\ RefCounts
  OBVIOUS
<1>1. \A f \in Frames : Taken(f) => InTransit(f)
  BY DEF Taken, Transit, InTransit
<1>2. InvertedTable
  BY <1>1 DEF TableInv, MappedPages, PagesMapped, InvertedTable
<1>3. RefCounts
  BY DEF TableInv, Counts, Present, RefCounts
<1> QED BY <1>2, <1>3

\* The inverted page table is the inverse of the page tables, and a page table
\* counts its present entries, whatever the number of processes, frames and
\* pages: pf_handler and evictFrame keep the two together as long as evictFrame
\* does not free the page table that pf_handler has in hand and kill does not
\* hit a process inside the fault path.
THEOREM TablesCorrect ==
  ASSUME ~KillRaces
  PROVE  Spec /\ [][TableInHandKept]_vars => [](InvertedTable /\ RefCounts)
<1>1. Init => IInv /\ OwnInv /\ TableInv
  BY InitInv, InitOwn, InitTable
<1>2. IInv /\ OwnInv /\ TableInv /\ [TableInHandKept]_vars /\ [Next]_vars => (IInv /\ OwnInv /\ TableInv)'
  BY StepInv, StepOwn, StepTable
<1>3. IInv /\ TableInv => InvertedTable /\ RefCounts
  BY TableImplies
<1> QED BY <1>1, <1>2, <1>3, PTL DEF Spec

\* A present entry of a page table and the inverted page table entry of the frame
\* it names agree, both ways: what pf_handler enters and evictFrame takes out.
THEOREM InvertedTableCorrect ==
  ASSUME ~KillRaces
  PROVE  Spec /\ [][TableInHandKept]_vars => []InvertedTable
BY TablesCorrect, PTL

\* The count of a page table's frame is the number of its present entries, so
\* evictFrame frees a page table only when its last page has left.
THEOREM RefCountsCorrect ==
  ASSUME ~KillRaces
  PROVE  Spec /\ [][TableInHandKept]_vars => []RefCounts
BY TablesCorrect, PTL
=============================================================================
