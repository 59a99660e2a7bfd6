------------------------- MODULE PagingStoreProofs -------------------------
(***************************************************************************)
(* Who owns what: a kill runs alone once it has begun, frames and backing  *)
(* stores belong to live processes or to one that is being created, and    *)
(* free_bs_count counts the stores that are left.                          *)
(***************************************************************************)
EXTENDS PagingProofs

-----------------------------------------------------------------------------
(* What the functions of the inverted page table do to an entry, its links  *)
(* apart.                                                                   *)

SameEntry(t, u, f) == /\ u.ipt[f].status = t.ipt[f].status /\ u.ipt[f].pid = t.ipt[f].pid
                      /\ u.ipt[f].vpn = t.ipt[f].vpn /\ u.ipt[f].refCount = t.ipt[f].refCount

\* Links, head and tail are apart from the rest of an entry.
LEMMA LinkSame ==
  ASSUME NEW t \in FT, NEW x, NEW g, NEW f \in Frames
  PROVE  /\ SameEntry(t, SetNext(t, x, g), f) /\ SameEntry(t, SetPrev(t, x, g), f)
         /\ SameEntry(t, SetHead(t, g), f) /\ SameEntry(t, SetTail(t, g), f)
BY DEF FT, FrameRec, SameEntry, SetNext, SetPrev, SetHead, SetTail

\* Entries that differ in their links only, twice over.
LEMMA SameTrans ==
  ASSUME NEW t, NEW u, NEW w, NEW f, SameEntry(t, u, f), SameEntry(u, w, f)
  PROVE  SameEntry(t, w, f)
BY DEF SameEntry

\* freeFrameFIFO changes links only.
LEMMA FreeFrameFIFOSame ==
  ASSUME NEW t \in FT, NEW fr \in Frames, NEW f \in Frames
  PROVE  SameEntry(t, freeFrameFIFO(t, fr), f)
<1> DEFINE prev == t.ipt[fr].prevFrame
           next == t.ipt[fr].nextFrame
<1>0. EMPTY \in FrameOpt /\ prev \in FrameOpt /\ next \in FrameOpt
  BY LinksOf DEF FrameOpt
<1>1. SameEntry(t, SetHead(SetTail(t, EMPTY), EMPTY), f)
  BY <1>0, LinkType, LinkSame, SameTrans
<1>2. SameEntry(t, SetHead(SetPrev(t, next, EMPTY), next), f)
  <2> DEFINE x == SetPrev(t, next, EMPTY)
  <2>1. x \in FT /\ SameEntry(t, x, f)
    BY <1>0, LinkType, LinkSame
  <2>2. SameEntry(x, SetHead(x, next), f)
    <3> HIDE DEF x
    <3> QED BY <1>0, <2>1, LinkSame
  <2>3. SameEntry(t, SetHead(x, next), f)
    <3> HIDE DEF x
    <3> QED BY <2>1, <2>2, SameTrans
  <2> QED BY <2>3
<1>3. SameEntry(t, SetTail(SetNext(t, prev, EMPTY), prev), f)
  <2> DEFINE x == SetNext(t, prev, EMPTY)
  <2>1. x \in FT /\ SameEntry(t, x, f)
    BY <1>0, LinkType, LinkSame
  <2>2. SameEntry(x, SetTail(x, prev), f)
    <3> HIDE DEF x
    <3> QED BY <1>0, <2>1, LinkSame
  <2>3. SameEntry(t, SetTail(x, prev), f)
    <3> HIDE DEF x
    <3> QED BY <2>1, <2>2, SameTrans
  <2> QED BY <2>3
<1>4. SameEntry(t, SetPrev(SetNext(t, prev, next), next, prev), f)
  <2> DEFINE x == SetNext(t, prev, next)
  <2>1. x \in FT /\ SameEntry(t, x, f)
    BY <1>0, LinkType, LinkSame
  <2>2. SameEntry(x, SetPrev(x, next, prev), f)
    <3> HIDE DEF x
    <3> QED BY <1>0, <2>1, LinkSame
  <2>3. SameEntry(t, SetPrev(x, next, prev), f)
    <3> HIDE DEF x
    <3> QED BY <2>1, <2>2, SameTrans
  <2> QED BY <2>3
<1> QED BY <1>1, <1>2, <1>3, <1>4 DEF freeFrameFIFO

\* freeFrame clears one entry.
LEMMA FreeFrameSame ==
  ASSUME NEW t \in FT, NEW policy, NEW fr \in Frames
  PROVE  /\ freeFrame(t, policy, fr).ipt[fr] = Cleared
         /\ \A f \in Frames : f # fr => SameEntry(t, freeFrame(t, policy, fr), f)
<1> DEFINE u == IF Unlinks(t, policy, fr) THEN freeFrameFIFO(t, fr) ELSE t
<1>1. u \in FT /\ \A f \in Frames : SameEntry(t, u, f)
  BY FreeFrameFIFOType, FreeFrameFIFOSame DEF SameEntry
<1> HIDE DEF u
<1>2. \A f \in Frames : f # fr => clearFrame(u, fr).ipt[f] = u.ipt[f]
  BY <1>1 DEF clearFrame, FT
<1>3. clearFrame(u, fr).ipt[fr] = Cleared
  BY <1>1 DEF clearFrame, FT
<1> QED BY <1>1, <1>2, <1>3 DEF freeFrame, SameEntry, u

\* init_frame writes one entry.
LEMMA InitFrameSame ==
  ASSUME NEW t \in FT, NEW policy, NEW fr \in Frames, NEW type \in Statuses,
         NEW pid \in PidOpt, NEW vpn \in VpnOpt
  PROVE  LET u == init_frame(t, policy, fr, type, pid, vpn)
         IN  /\ u.ipt[fr].status = type /\ u.ipt[fr].pid = pid /\ u.ipt[fr].vpn = vpn
             /\ u.ipt[fr].refCount = 0
             /\ \A f \in Frames : f # fr => SameEntry(t, u, f)
<1> DEFINE e == [Cleared EXCEPT !.status = type, !.pid = pid, !.vpn = vpn]
           u == [t EXCEPT !.ipt[fr] = e]
<1>1. e \in FrameRec /\ e.status = type /\ e.pid = pid /\ e.vpn = vpn /\ e.refCount = 0
  BY ClearedType DEF FrameRec, PidOpt, VpnOpt, Cleared
<1> HIDE DEF e
<1>2. u \in FT /\ u.ipt[fr] = e /\ \A f \in Frames : f # fr => u.ipt[f] = t.ipt[f]
  BY <1>1 DEF FT
<1> HIDE DEF u
<1>3. \A f \in Frames : SameEntry(u, init_frame_FIFO(u, fr), f)
  <2>1. fr \in FrameOpt /\ u.flistHead \in FrameOpt
    BY <1>2, LinksOf DEF FrameOpt
  <2>2. \A f \in Frames : SameEntry(u, SetHead(SetTail(u, fr), fr), f)
    BY <1>2, <2>1, LinkType, LinkSame, SameTrans
  <2>3. \A f \in Frames : SameEntry(u, SetHead(SetPrev(SetNext(u, fr, u.flistHead), u.flistHead, fr), fr), f)
    <3> DEFINE x == SetNext(u, fr, u.flistHead)
               y == SetPrev(x, u.flistHead, fr)
    <3>1. x \in FT /\ \A f \in Frames : SameEntry(u, x, f)
      BY <1>2, <2>1, LinkType, LinkSame
    <3>2. y \in FT /\ \A f \in Frames : SameEntry(x, y, f)
      <4> HIDE DEF x
      <4> QED BY <3>1, <2>1, LinkType, LinkSame
    <3>3. \A f \in Frames : SameEntry(y, SetHead(y, fr), f)
      <4> HIDE DEF y
      <4> QED BY <3>2, <2>1, LinkSame
    <3> HIDE DEF x
    <3>4. \A f \in Frames : SameEntry(u, y, f)
      <4> HIDE DEF y
      <4> QED BY <3>1, <3>2, SameTrans
    <3>5. \A f \in Frames : SameEntry(u, SetHead(y, fr), f)
      <4> HIDE DEF y
      <4> QED BY <3>3, <3>4, SameTrans
    <3> QED BY <3>5 DEF x
  <2> QED BY <2>2, <2>3 DEF init_frame_FIFO
<1>4. /\ init_frame(t, policy, fr, type, pid, vpn) =
            IF type = "PAGE" /\ policy = "FIFO" THEN init_frame_FIFO(u, fr) ELSE u
  BY DEF init_frame, u, e
<1> QED BY <1>1, <1>2, <1>3, <1>4 DEF SameEntry

\* pickFrameFIFO changes links only.
LEMMA PickFrameSame ==
  ASSUME NEW t \in FT, t.flistTail # EMPTY, NEW f \in Frames
  PROVE  SameEntry(t, pickFrameFIFO(t), f)
<1> DEFINE prev == t.ipt[t.flistTail].prevFrame
<1>0. EMPTY \in FrameOpt /\ prev \in FrameOpt
  BY LinksOf DEF FrameOpt
<1>1. SameEntry(t, SetHead(SetTail(t, EMPTY), EMPTY), f)
  BY <1>0, LinkType, LinkSame, SameTrans
<1>2. SameEntry(t, SetNext(SetTail(t, prev), prev, EMPTY), f)
  <2> DEFINE x == SetTail(t, prev)
  <2>1. x \in FT /\ SameEntry(t, x, f)
    BY <1>0, LinkType, LinkSame
  <2>2. SameEntry(x, SetNext(x, prev, EMPTY), f)
    <3> HIDE DEF x
    <3> QED BY <1>0, <2>1, LinkSame
  <2>3. SameEntry(t, SetNext(x, prev, EMPTY), f)
    <3> HIDE DEF x
    <3> QED BY <2>1, <2>2, SameTrans
  <2> QED BY <2>3
<1> QED BY <1>1, <1>2 DEF pickFrameFIFO

\* incRefCount changes one count.
LEMMA IncRefCountSame ==
  ASSUME NEW t \in FT, NEW f \in Frames
  PROVE  LET u == incRefCount(t, f)
         IN  /\ \A g \in Frames : g # f => u.ipt[g] = t.ipt[g]
             /\ u.ipt[f].status = t.ipt[f].status /\ u.ipt[f].pid = t.ipt[f].pid
             /\ u.ipt[f].vpn = t.ipt[f].vpn
             /\ u.ipt[f].refCount = (t.ipt[f].refCount + 1) % WORD
BY DEF incRefCount, FT, FrameRec

\* decRefCount lowers one count and clears the entry when it reaches zero.
LEMMA DecRefCountSame ==
  ASSUME NEW t \in FT, NEW policy, NEW f \in Frames
  PROVE  LET u == decRefCount(t, policy, f)
             n == (t.ipt[f].refCount + WORD - 1) % WORD
         IN  /\ \A g \in Frames : g # f => SameEntry(t, u, g)
             /\ IF n = 0 THEN u.ipt[f] = Cleared
                ELSE /\ u.ipt[f].status = t.ipt[f].status /\ u.ipt[f].pid = t.ipt[f].pid
                     /\ u.ipt[f].vpn = t.ipt[f].vpn /\ u.ipt[f].refCount = n
<1> DEFINE n == (t.ipt[f].refCount + WORD - 1) % WORD
           w == [t EXCEPT !.ipt[f].refCount = (@ + WORD - 1) % WORD]
<1>1. n \in 0 .. WORD - 1
  BY WordType, SizesAssumption DEF FT, FrameRec
<1>2. w = [t EXCEPT !.ipt[f].refCount = n]
  BY DEF FT, FrameRec
<1> HIDE DEF n
<1>3. /\ w \in FT /\ w.ipt[f].refCount = n /\ w.ipt[f].status = t.ipt[f].status
      /\ w.ipt[f].pid = t.ipt[f].pid /\ w.ipt[f].vpn = t.ipt[f].vpn
      /\ \A g \in Frames : g # f => w.ipt[g] = t.ipt[g]
  BY <1>1, <1>2 DEF FT, FrameRec
<1>4. decRefCount(t, policy, f) = IF w.ipt[f].refCount = 0 THEN freeFrame(w, policy, f) ELSE w
  BY DEF decRefCount
<1> HIDE DEF w
<1>5. CASE n = 0
  <2>1. /\ freeFrame(w, policy, f).ipt[f] = Cleared
        /\ \A g \in Frames : g # f => SameEntry(w, freeFrame(w, policy, f), g)
    BY <1>3, FreeFrameSame
  <2> QED BY <1>3, <1>4, <1>5, <2>1 DEF SameEntry, n
<1>6. CASE n # 0
  BY <1>3, <1>4, <1>6 DEF SameEntry, n
<1> QED BY <1>5, <1>6

-----------------------------------------------------------------------------
(* What the steps do to the locals of the process that takes them.          *)

\* The locals that most steps leave alone.
SameLocals(l, m) == /\ m.v = l.v /\ m.w = l.w /\ m.type = l.type
                    /\ m.pt = l.pt /\ m.pid = l.pid /\ m.h = l.h
Others(a) == \A b \in Actors : b # a => th'[b] = th[b]
\* Nothing that matters here changes: the kernel stops, or srpolicy.
Still == UNCHANGED <<ft, pd, pt, mem, disk, bstab, free_bs_count, proc, pf_sem, cpu, th, val>>

USE DEF frameVars, tableVars, dataVars, storeVars, procVars

\* A step that assigns to the locals of one process.
LEMMA OneStep ==
  ASSUME IInv, NEW a \in Actors, NEW l, th' = [th EXCEPT ![a] = l]
  PROVE  th'[a] = l /\ Others(a) /\ th[a] \in Thread
BY DEF IInv, TypeOK, Others

\* The locals of a process that is outside the fault path.
LEMMA IdleFields ==
  /\ Idle.pc = "user" /\ Idle.type = "NOT_USED" /\ Idle.pid = NO_PROCESS
  /\ \A l, v, w : LET m == [Idle EXCEPT !.pc = l, !.v = v, !.w = w]
                  IN  m.pc = l /\ m.v = v /\ m.w = w /\ m.pid = NO_PROCESS /\ m.type = "NOT_USED"
  /\ [Idle EXCEPT !.pc = "exit"].pc = "exit"
  /\ \A q : LET m == [Idle EXCEPT !.pc = "kill", !.pid = q] IN m.pc = "kill" /\ m.pid = q /\ m.i = 0
  /\ \A q, h : LET m == [Idle EXCEPT !.pc = "alloc", !.type = "PDIR", !.pid = q, !.h = h]
                   n == [Idle EXCEPT !.pc = "init_pd", !.pid = q, !.h = h]
               IN  /\ m.pc = "alloc" /\ m.type = "PDIR" /\ m.pid = q /\ m.h = h
                   /\ n.pc = "init_pd" /\ n.pid = q /\ n.h = h
BY DEF Idle

\* Stopping, srpolicy and a call of vcreate that fails change nothing here.
LEMMA StopStill == ASSUME NEW why, Stop(why) PROVE Still
BY DEF Stop, Still

\* An access, first or repeated, is performed by the MMU or faults.
LEMMA UserEffect ==
  ASSUME IInv, NEW p \in Procs, Access(p) \/ Retry(p)
  PROVE  /\ p \in Actors /\ MayRun(p) /\ th[p].pc \in {"user", "access"} /\ cpu = NOBODY /\ Live(p)
         /\ \E v \in Pages, w \in Values \cup {NOWRITE} :
              \/ Mapped(p, v) /\ Perform(p, v, w)
              \/ ~Mapped(p, v) /\ PageFault(p, v, w)
<1>1. p \in Actors /\ p \notin Creators
  BY EnvironmentAssumption DEF Actors
<1>2. CASE Access(p)
  <2>1. PICK v \in 0 .. proc[p].hsize, w \in Values \cup {NOWRITE} :
          \/ Mapped(p, v) /\ Perform(p, v, w)
          \/ ~Mapped(p, v) /\ PageFault(p, v, w)
    BY <1>2 DEF Access
  <2>2. v \in Pages
    BY SizesAssumption DEF IInv, TypeOK, Pages
  <2> QED BY <1>1, <1>2, <2>1, <2>2 DEF Access, At
<1>3. CASE Retry(p)
  <2>1. th[p].v \in Pages /\ th[p].w \in Values \cup {NOWRITE}
    BY <1>1 DEF IInv, TypeOK, Thread
  <2>2. At(p, "access") /\ cpu = NOBODY /\ th[p].pc = "access"
    BY <1>3 DEF Retry, At
  <2>3. Live(p)
    BY <1>1, <2>2 DEF IInv, LocalsOK, SlotFree, Live, TypeOK
  <2> QED BY <1>1, <1>3, <2>1, <2>2, <2>3 DEF Retry, At
<1> QED BY <1>2, <1>3

\* A performed access leaves the kernel.
LEMMA PerformEffect ==
  ASSUME IInv, NEW p \in Procs, NEW v, NEW w, Perform(p, v, w)
  PROVE  /\ th'[p] = Idle /\ Others(p)
         /\ UNCHANGED <<ft, pd, disk, bstab, free_bs_count, proc, pf_sem, cpu>>
<1>1. p \in Actors /\ th' = [th EXCEPT ![p] = Idle]
  BY DEF Perform, Actors
<1> QED BY <1>1, OneStep DEF Perform

\* A fault enters pf_handler.
LEMMA PageFaultEffect ==
  ASSUME IInv, NEW p \in Procs, NEW v, NEW w, PageFault(p, v, w)
  PROVE  /\ th'[p].pc = "pf" /\ th'[p].v = v /\ th'[p].w = w /\ th'[p].pid = NO_PROCESS
         /\ Others(p) /\ wait(p) /\ cpu' \in {p, NOBODY}
         /\ UNCHANGED <<ft, pd, pt, mem, disk, val, bstab, free_bs_count, proc>>
<1>1. p \in Actors /\ th' = [th EXCEPT ![p] = [Idle EXCEPT !.pc = "pf", !.v = v, !.w = w]]
  BY DEF PageFault, Actors
<1>2. th'[p] = [Idle EXCEPT !.pc = "pf", !.v = v, !.w = w] /\ Others(p)
  BY <1>1, OneStep
<1>3. th'[p].pc = "pf" /\ th'[p].v = v /\ th'[p].w = w /\ th'[p].pid = NO_PROCESS
  BY <1>2 DEF Idle
<1>4. wait(p) /\ cpu' \in {p, NOBODY}
  BY DEF PageFault, wait
<1> QED BY <1>2, <1>3, <1>4 DEF PageFault

\* getNewFrameFIFO found an unused frame.
LEMMA TakeFreeEffect ==
  ASSUME IInv, NEW a \in Actors, TakeFree(a)
  PROVE  /\ At(a, "alloc") /\ th'[a].pc = "init" /\ SameLocals(th[a], th'[a]) /\ Others(a)
         /\ th'[a].fr \in Frames /\ ft.ipt[th'[a].fr].status = "NOT_USED"
         /\ cpu' = a
         /\ UNCHANGED <<ft, pd, pt, mem, disk, val, bstab, free_bs_count, proc, pf_sem>>
<1>1. PICK f \in Frames : Free(f) /\ th' = [th EXCEPT ![a] = [th[a] EXCEPT !.fr = f, !.pc = "init"]]
  BY DEF TakeFree, FirstFree
<1>2. th'[a] = [th[a] EXCEPT !.fr = f, !.pc = "init"] /\ Others(a) /\ th[a] \in Thread
  BY <1>1, OneStep
<1>3. th'[a].pc = "init" /\ th'[a].fr = f /\ SameLocals(th[a], th'[a])
  BY <1>2 DEF Thread, SameLocals
<1> QED BY <1>1, <1>2, <1>3 DEF TakeFree, Free

\* getNewFrameFIFO took the tail of the queue as its victim.
LEMMA PickVictimEffect ==
  ASSUME IInv, NEW a \in Actors, PickVictim(a)
  PROVE  /\ At(a, "alloc") /\ th'[a].pc = "evict" /\ SameLocals(th[a], th'[a]) /\ Others(a)
         /\ th'[a].fr \in Frames /\ \A f \in Frames : SameEntry(ft, ft', f)
         /\ cpu' = a
         /\ UNCHANGED <<pd, pt, mem, disk, val, bstab, free_bs_count, proc, pf_sem>>
<1>1. ft \in FT /\ ft.flistTail # EMPTY /\ ft' = pickFrameFIFO(ft)
  BY FTType DEF PickVictim, IInv
<1>2. ft.flistTail \in Frames
  BY <1>1, LinksOf DEF FrameOpt
<1>3. \A f \in Frames : SameEntry(ft, ft', f)
  BY <1>1, PickFrameSame
<1>4. th' = [th EXCEPT ![a] = [th[a] EXCEPT !.fr = ft.flistTail, !.pc = "evict"]]
  BY DEF PickVictim
<1>5. th'[a] = [th[a] EXCEPT !.fr = ft.flistTail, !.pc = "evict"] /\ Others(a) /\ th[a] \in Thread
  BY <1>4, OneStep
<1>6. th'[a].pc = "evict" /\ th'[a].fr = ft.flistTail /\ SameLocals(th[a], th'[a])
  BY <1>5 DEF Thread, SameLocals
<1> QED BY <1>2, <1>3, <1>5, <1>6 DEF PickVictim

\* getNewFrameFIFO returned SYSERR: vcreate gives up, or the kernel stops.
LEMMA NoFrameEffect ==
  ASSUME IInv, NEW a \in Actors, NoFrameAvailable(a)
  PROVE  \/ Still
         \/ /\ At(a, "alloc") /\ th[a].type = "PDIR" /\ th'[a] = Idle /\ Others(a)
            /\ signal /\ cpu' = NOBODY
            /\ UNCHANGED <<ft, pd, pt, mem, disk, val, bstab, free_bs_count, proc>>
<1>1. CASE Stop("wild")
  BY <1>1, StopStill
<1>2. CASE ~Stop("wild")
  <2>1. th' = [th EXCEPT ![a] = Idle]
    BY <1>2 DEF NoFrameAvailable
  <2> QED BY <1>2, <2>1, OneStep DEF NoFrameAvailable
<1> QED BY <1>1, <1>2

\* getNewFrameGCA starts.
LEMMA StartScanEffect ==
  ASSUME IInv, NEW a \in Actors, StartScan(a)
  PROVE  /\ At(a, "alloc") /\ th'[a].pc = "scan" /\ SameLocals(th[a], th'[a]) /\ Others(a)
         /\ cpu' = a
         /\ UNCHANGED <<ft, pd, pt, mem, disk, val, bstab, free_bs_count, proc, pf_sem>>
<1>1. th' = [th EXCEPT ![a] = [th[a] EXCEPT !.pc = "scan", !.i = 0]]
  BY DEF StartScan
<1>2. th'[a] = [th[a] EXCEPT !.pc = "scan", !.i = 0] /\ Others(a) /\ th[a] \in Thread
  BY <1>1, OneStep
<1>3. th'[a].pc = "scan" /\ SameLocals(th[a], th'[a])
  BY <1>2 DEF Thread, SameLocals
<1> QED BY <1>2, <1>3 DEF StartScan

\* One iteration of getNewFrameGCA: an unused frame, a victim, or neither.
\* Only entries that belong to a page frame are aged.
LEMMA ScanEffect ==
  ASSUME IInv, NEW a \in Actors, Scan(a)
  PROVE  LET c == nextframe.gca
             q == ft.ipt[c].pid
             v == ft.ipt[c].vpn
             t == pd[q][vaddr2pdi(v)].pd_base
             j == vaddr2pti(v)
         IN  \/ Still
             \/ /\ At(a, "scan") /\ SameLocals(th[a], th'[a]) /\ Others(a)
                /\ cpu' = a /\ c \in Frames
                /\ UNCHANGED <<ft, pd, mem, disk, val, bstab, free_bs_count, proc, pf_sem>>
                /\ \/ /\ th'[a].pc = "init" /\ th'[a].fr = c /\ ft.ipt[c].status = "NOT_USED"
                      /\ pt' = pt
                   \/ th'[a].pc = "scan" /\ pt' = pt
                   \/ /\ ft.ipt[c].status = "PAGE" /\ t \in Frames
                      /\ pt' = [pt EXCEPT ![t][j] = Aged(pt[t][j])]
                      /\ th'[a].pc = "scan" \/ (th'[a].pc = "evict" /\ th'[a].fr = c)
<1> DEFINE c == nextframe.gca
           q == ft.ipt[c].pid
           v == ft.ipt[c].vpn
           t == pd[q][vaddr2pdi(v)].pd_base
           j == vaddr2pti(v)
           l1 == [th[a] EXCEPT !.fr = c, !.pc = "init"]
           l2 == [th[a] EXCEPT !.fr = c, !.pc = "evict"]
           l3 == [th[a] EXCEPT !.i = @ + 1]
<1>1. CASE Stop("panic") \/ Stop("wild")
  BY <1>1, StopStill
<1>2. CASE ~(Stop("panic") \/ Stop("wild"))
  <2>1. /\ At(a, "scan") /\ cpu' = a
        /\ UNCHANGED <<ft, pd, mem, disk, val, bstab, free_bs_count, proc, pf_sem>>
        /\ \/ th' = [th EXCEPT ![a] = l1] /\ ft.ipt[c].status = "NOT_USED" /\ pt' = pt
           \/ th' = [th EXCEPT ![a] = l3] /\ pt' = pt
           \/ /\ ft.ipt[c].status = "PAGE" /\ t \in Frames
              /\ pt' = [pt EXCEPT ![t][j] = Aged(pt[t][j])]
              /\ th' = [th EXCEPT ![a] = l2] \/ th' = [th EXCEPT ![a] = l3]
    BY <1>2 DEF Scan
  <2>2. c \in Frames /\ th[a] \in Thread /\ th[a].pc = "scan"
    BY <2>1 DEF IInv, TypeOK, At
  <2>3. /\ l1.pc = "init" /\ l1.fr = c /\ SameLocals(th[a], l1)
        /\ l2.pc = "evict" /\ l2.fr = c /\ SameLocals(th[a], l2)
    <3> HIDE DEF c
    <3> QED BY <2>2 DEF Thread, SameLocals
  <2>4. l3.pc = "scan" /\ SameLocals(th[a], l3)
    BY <2>2 DEF Thread, SameLocals
  <2> HIDE DEF l1, l2, l3, t, j, v, q, c
  <2> QED BY <2>1, <2>2, <2>3, <2>4, OneStep DEF t, j, v, q, c
<1> QED BY <1>1, <1>2

\* evictFrame up to write_bs: the entry of the victim is made absent and its
\* page table loses a reference.
LEMMA EvictEffect ==
  ASSUME IInv, NEW a \in Actors, Evict(a)
  PROVE  LET fr == th[a].fr
             q == ft.ipt[fr].pid
             v == ft.ipt[fr].vpn
             t == pd[q][vaddr2pdi(v)].pd_base
             j == vaddr2pti(v)
             u == decRefCount(ft, currpolicy, t)
         IN  \/ Still
             \/ /\ At(a, "evict") /\ SameLocals(th[a], th'[a]) /\ th'[a].fr = fr /\ Others(a)
                /\ fr \in Frames /\ ft.ipt[fr].status = "PAGE"
                /\ t \in Frames /\ ft.ipt[t].status = "PTAB"
                /\ pt' = [pt EXCEPT ![t][j] = MarkAbsent(pt[t][j])]
                /\ ft' = u
                /\ pd' = IF u.ipt[t].status = "NOT_USED"
                         THEN [pd EXCEPT ![q][vaddr2pdi(v)].pd_pres = 0] ELSE pd
                /\ UNCHANGED <<mem, disk, val, bstab, free_bs_count, proc, pf_sem>>
                /\ \/ th'[a].pc = "init" /\ cpu' = a /\ ~NeedsWrite(pt[t][j])
                   \/ /\ th'[a].pc = "write_bs" /\ cpu' = NOBODY /\ NeedsWrite(pt[t][j])
                      /\ th'[a].ept = t /\ th'[a].epti = j
                      /\ th'[a].bsd = BsOf(q, v) /\ th'[a].off = BsOff(v)
                      /\ BsValid(BsOf(q, v), BsOff(v))
<1> DEFINE fr == th[a].fr
           q == ft.ipt[fr].pid
           v == ft.ipt[fr].vpn
           t == pd[q][vaddr2pdi(v)].pd_base
           j == vaddr2pti(v)
           u == decRefCount(ft, currpolicy, t)
           s == BsOf(q, v)
           o == BsOff(v)
           l1 == [th[a] EXCEPT !.pc = "init"]
           l2 == [th[a] EXCEPT !.pc = "write_bs", !.ept = t, !.epti = j, !.bsd = s, !.off = o]
<1>1. CASE Stop("panic") \/ Stop("wild")
  BY <1>1, StopStill
<1>2. CASE ~(Stop("panic") \/ Stop("wild"))
  <2>1. /\ At(a, "evict")
        /\ ft.ipt[fr].status = "PAGE" /\ t \in Frames /\ ft.ipt[t].status = "PTAB"
        /\ pt' = [pt EXCEPT ![t][j] = MarkAbsent(pt[t][j])]
        /\ ft' = u
        /\ pd' = IF u.ipt[t].status = "NOT_USED"
                 THEN [pd EXCEPT ![q][vaddr2pdi(v)].pd_pres = 0] ELSE pd
        /\ UNCHANGED <<mem, disk, val, bstab, free_bs_count, proc, pf_sem>>
        /\ \/ th' = [th EXCEPT ![a] = l1] /\ cpu' = a /\ ~NeedsWrite(pt[t][j])
           \/ /\ th' = [th EXCEPT ![a] = l2] /\ cpu' = NOBODY /\ NeedsWrite(pt[t][j])
              /\ BsValid(s, o)
    BY <1>2 DEF Evict, VictimStore
  <2>2. fr \in Frames /\ th[a] \in Thread
    BY <2>1 DEF IInv, TypeOK, LocalsOK, At
  <2>3. /\ l1.pc = "init" /\ l1.fr = th[a].fr /\ SameLocals(th[a], l1)
        /\ l2.pc = "write_bs" /\ l2.fr = th[a].fr /\ SameLocals(th[a], l2)
        /\ l2.ept = t /\ l2.epti = j /\ l2.bsd = s /\ l2.off = o
    <3> HIDE DEF t, j, s, o
    <3> QED BY <2>2 DEF Thread, SameLocals
  <2>4. \/ th'[a] = l1 /\ Others(a) /\ cpu' = a /\ ~NeedsWrite(pt[t][j])
        \/ /\ th'[a] = l2 /\ Others(a) /\ cpu' = NOBODY /\ NeedsWrite(pt[t][j])
           /\ BsValid(s, o)
    <3> HIDE DEF l1, l2, t, j, s, o
    <3> QED BY <2>1, OneStep
  <2> HIDE DEF l1, l2
  <2> QED BY <2>1, <2>2, <2>3, <2>4
<1> QED BY <1>1, <1>2

\* The end of evictFrame after write_bs.
LEMMA WriteBsEffect ==
  ASSUME IInv, NEW a \in Actors, WriteBs(a)
  PROVE  LET l == th[a]
         IN  /\ At(a, "write_bs") /\ SameLocals(l, th'[a]) /\ th'[a].fr = l.fr /\ Others(a)
             /\ l.fr \in Frames /\ th'[a].pc = "init" /\ cpu' = a
             /\ disk' = [disk EXCEPT ![l.bsd][l.off] = mem[l.fr]]
             /\ pt' = [pt EXCEPT ![l.ept][l.epti] =
                         [pt[l.ept][l.epti] EXCEPT !.pt_dirty = 0, !.pt_avail = 0]]
             /\ UNCHANGED <<ft, pd, mem, val, bstab, free_bs_count, proc, pf_sem>>
<1> DEFINE l == th[a]
           m == [l EXCEPT !.pc = "init", !.ept = EMPTY, !.epti = 0, !.bsd = 0, !.off = 0]
<1>1. /\ At(a, "write_bs") /\ cpu' = a /\ th' = [th EXCEPT ![a] = m]
      /\ disk' = [disk EXCEPT ![l.bsd][l.off] = mem[l.fr]]
      /\ pt' = [pt EXCEPT ![l.ept][l.epti] =
                  [pt[l.ept][l.epti] EXCEPT !.pt_dirty = 0, !.pt_avail = 0]]
      /\ UNCHANGED <<ft, pd, mem, val, bstab, free_bs_count, proc, pf_sem>>
  BY DEF WriteBs
<1>2. l \in Thread /\ l.fr \in Frames
  BY <1>1 DEF IInv, TypeOK, LocalsOK, At
<1>3. m.pc = "init" /\ m.fr = l.fr /\ SameLocals(l, m)
  BY <1>2 DEF Thread, SameLocals
<1> HIDE DEF m
<1>4. th'[a] = m /\ Others(a)
  BY <1>1, OneStep
<1> QED BY <1>1, <1>2, <1>3, <1>4

\* pf_handler kills the process for an address beyond its heap, or goes on to
\* allocate a page table or a page.
LEMMA PfHandlerEffect ==
  ASSUME IInv, NEW p \in Procs, PfHandler(p)
  PROVE  LET e == pd[p][vaddr2pdi(th[p].v)]
         IN  /\ At(p, "pf") /\ Others(p) /\ cpu' \in {p, NOBODY}
             /\ UNCHANGED <<ft, pd, pt, mem, disk, val, bstab, free_bs_count, proc>>
             /\ \/ th'[p].pc = "exit"
                \/ /\ th'[p].pc = "alloc" /\ ~isInvalidAddr(p, th[p].v) /\ th'[p].v = th[p].v
                   /\ th'[p].type = (IF e.pd_pres = 0 THEN "PTAB" ELSE "PAGE")
                   /\ th'[p].pt = (IF e.pd_pres = 0 THEN EMPTY ELSE e.pd_base)
<1> DEFINE e == pd[p][vaddr2pdi(th[p].v)]
           y == IF e.pd_pres = 0 THEN "PTAB" ELSE "PAGE"
           x == IF e.pd_pres = 0 THEN EMPTY ELSE e.pd_base
           l1 == [Idle EXCEPT !.pc = "exit"]
           l2 == [th[p] EXCEPT !.pc = "alloc", !.type = y, !.pt = x]
<1>1. /\ At(p, "pf") /\ cpu' \in {p, NOBODY}
      /\ UNCHANGED <<ft, pd, pt, mem, disk, val, bstab, free_bs_count, proc>>
      /\ \/ th' = [th EXCEPT ![p] = l1]
         \/ th' = [th EXCEPT ![p] = l2] /\ ~isInvalidAddr(p, th[p].v)
  BY DEF PfHandler
<1>2. p \in Actors /\ th[p] \in Thread
  BY DEF IInv, TypeOK, Actors
<1>3. l1.pc = "exit" /\ l2.pc = "alloc" /\ l2.v = th[p].v /\ l2.type = y /\ l2.pt = x
  <2> HIDE DEF x, y
  <2> QED BY <1>2 DEF Thread, Idle
<1>4. \/ th'[p] = l1 /\ Others(p)
      \/ th'[p] = l2 /\ ~isInvalidAddr(p, th[p].v) /\ Others(p)
  <2> HIDE DEF l1, l2
  <2> QED BY <1>1, <1>2, OneStep
<1> HIDE DEF l1, l2
<1> QED BY <1>1, <1>3, <1>4

\* init_frame at the end of getNewFrame writes the entry of the new frame.
LEMMA InitFrameEffect ==
  ASSUME IInv, NEW a \in Actors, At(a, "init"), InitFrame(a)
  PROVE  /\ th[a].fr \in Frames
         /\ ft'.ipt[th[a].fr].status = th[a].type /\ ft'.ipt[th[a].fr].pid = Owner(a)
         /\ ft'.ipt[th[a].fr].vpn = (IF th[a].type = "PAGE" THEN th[a].v ELSE NO_VPN)
         /\ ft'.ipt[th[a].fr].refCount = 0
         /\ \A f \in Frames : f # th[a].fr => SameEntry(ft, ft', f)
<1> DEFINE vpn == IF th[a].type = "PAGE" THEN th[a].v ELSE NO_VPN
<1>1. th[a] \in Thread /\ th[a].fr \in Frames /\ ft \in FT
  BY FTType DEF IInv, TypeOK, LocalsOK, At
<1>2. th[a].type \in Statuses /\ vpn \in VpnOpt
  BY <1>1 DEF Thread, VpnOpt
<1>3. Owner(a) \in PidOpt
  BY <1>1 DEF Owner, PidOpt, Thread, Actors
<1>4. ft' = init_frame(ft, currpolicy, th[a].fr, th[a].type, Owner(a), vpn)
  BY DEF InitFrame
<1>5. /\ ft'.ipt[th[a].fr].status = th[a].type /\ ft'.ipt[th[a].fr].pid = Owner(a)
      /\ ft'.ipt[th[a].fr].vpn = vpn
      /\ ft'.ipt[th[a].fr].refCount = 0
      /\ \A f \in Frames : f # th[a].fr => SameEntry(ft, ft', f)
  <2> DEFINE fr == th[a].fr
             type == th[a].type
             own == Owner(a)
             w == init_frame(ft, currpolicy, fr, type, own, vpn)
  <2>1. fr \in Frames /\ type \in Statuses /\ own \in PidOpt /\ vpn \in VpnOpt /\ ft \in FT
    BY <1>1, <1>2, <1>3
  <2> HIDE DEF vpn, fr, type, own
  <2>2. /\ w.ipt[fr].status = type /\ w.ipt[fr].pid = own /\ w.ipt[fr].vpn = vpn
        /\ w.ipt[fr].refCount = 0
        /\ \A f \in Frames : f # fr => SameEntry(ft, w, f)
    BY <2>1, InitFrameSame
  <2> QED BY <1>4, <2>2 DEF fr, type, own
<1> QED BY <1>1, <1>5

\* newPageTable: the frame is a page table, entered in the page directory.
LEMMA NewPageTableEffect ==
  ASSUME IInv, NEW p \in Procs, NewPageTable(p)
  PROVE  LET fr == th[p].fr
         IN  /\ At(p, "init") /\ th[p].type = "PTAB" /\ InitFrame(p) /\ Others(p)
             /\ fr \in Frames /\ cpu' = p
             /\ pt' = [pt EXCEPT ![fr] = [j \in Slots |-> NoPTE]]
             /\ mem' = [mem EXCEPT ![fr] = 0]
             /\ pd' = [pd EXCEPT ![p][vaddr2pdi(th[p].v)] = [pd_pres |-> 1, pd_base |-> fr]]
             /\ th'[p].pc = "alloc" /\ th'[p].type = "PAGE" /\ th'[p].pt = fr
             /\ th'[p].v = th[p].v
             /\ UNCHANGED <<disk, val, bstab, free_bs_count, proc, pf_sem>>
<1> DEFINE fr == th[p].fr
           l == [th[p] EXCEPT !.pt = fr, !.fr = EMPTY, !.type = "PAGE", !.pc = "alloc", !.i = 0]
<1>1. /\ At(p, "init") /\ th[p].type = "PTAB" /\ InitFrame(p) /\ cpu' = p
      /\ pt' = [pt EXCEPT ![fr] = [j \in Slots |-> NoPTE]]
      /\ mem' = [mem EXCEPT ![fr] = 0]
      /\ pd' = [pd EXCEPT ![p][vaddr2pdi(th[p].v)] = [pd_pres |-> 1, pd_base |-> fr]]
      /\ th' = [th EXCEPT ![p] = l]
      /\ UNCHANGED <<disk, val, bstab, free_bs_count, proc, pf_sem>>
  BY DEF NewPageTable
<1>2. p \in Actors /\ th[p] \in Thread /\ fr \in Frames
  BY <1>1 DEF IInv, TypeOK, Actors, LocalsOK, At
<1>3. l.pc = "alloc" /\ l.type = "PAGE" /\ l.pt = fr /\ l.v = th[p].v
  <2> HIDE DEF fr
  <2> QED BY <1>2 DEF Thread
<1> HIDE DEF l
<1>4. th'[p] = l /\ Others(p)
  BY <1>1, <1>2, OneStep
<1> QED BY <1>1, <1>2, <1>3, <1>4

\* pf_handler up to read_bs: the frame holds the page from here on.
LEMMA LoadPageEffect ==
  ASSUME IInv, NEW p \in Procs, LoadPage(p)
  PROVE  LET fr == th[p].fr
             s == BsOf(p, th[p].v)
             o == BsOff(th[p].v)
         IN  \/ Still
             \/ /\ At(p, "init") /\ th[p].type = "PAGE" /\ InitFrame(p) /\ Others(p)
                /\ fr \in Frames /\ cpu' = NOBODY /\ BsValid(s, o)
                /\ pt' = [pt EXCEPT ![fr] = [j \in Slots |-> NoPTE]]
                /\ th'[p].pc = "read_bs" /\ SameLocals(th[p], th'[p]) /\ th'[p].fr = fr
                /\ th'[p].bsd = s /\ th'[p].off = o
                /\ UNCHANGED <<pd, mem, disk, val, bstab, free_bs_count, proc, pf_sem>>
<1> DEFINE fr == th[p].fr
           s == BsOf(p, th[p].v)
           o == BsOff(th[p].v)
           l == [th[p] EXCEPT !.pc = "read_bs", !.bsd = s, !.off = o, !.i = 0]
<1>1. CASE Stop("panic")
  BY <1>1, StopStill
<1>2. CASE ~Stop("panic")
  <2>1. /\ At(p, "init") /\ th[p].type = "PAGE" /\ InitFrame(p) /\ cpu' = NOBODY
        /\ BsValid(s, o) /\ pt' = [pt EXCEPT ![fr] = [j \in Slots |-> NoPTE]]
        /\ th' = [th EXCEPT ![p] = l]
        /\ UNCHANGED <<pd, mem, disk, val, bstab, free_bs_count, proc, pf_sem>>
    BY <1>2 DEF LoadPage
  <2>2. p \in Actors /\ th[p] \in Thread /\ fr \in Frames
    BY <2>1 DEF IInv, TypeOK, Actors, LocalsOK, At
  <2>3. l.pc = "read_bs" /\ SameLocals(th[p], l) /\ l.fr = fr /\ l.bsd = s /\ l.off = o
    <3> HIDE DEF s, o
    <3> QED BY <2>2 DEF Thread, SameLocals
  <2> HIDE DEF l
  <2>4. th'[p] = l /\ Others(p)
    BY <2>1, <2>2, OneStep
  <2> QED BY <2>1, <2>2, <2>3, <2>4
<1> QED BY <1>1, <1>2

\* The end of pf_handler: the page is mapped.
LEMMA ReadBsEffect ==
  ASSUME IInv, NEW p \in Procs, ReadBs(p)
  PROVE  LET l == th[p]
             j == vaddr2pti(l.v)
         IN  /\ At(p, "read_bs") /\ Others(p) /\ signal /\ cpu' = NOBODY
             /\ l.fr \in Frames /\ l.bsd \in Stores
             /\ mem' = [mem EXCEPT ![l.fr] = disk[l.bsd][l.off]]
             /\ ft' = incRefCount(ft, l.pt)
             /\ pt' = [pt EXCEPT ![l.pt][j] = [pt[l.pt][j] EXCEPT !.pt_pres = 1, !.pt_base = l.fr]]
             /\ th'[p].pc = "access" /\ th'[p].v = l.v /\ th'[p].pid = NO_PROCESS
             /\ UNCHANGED <<pd, disk, val, bstab, free_bs_count, proc>>
<1> DEFINE l == th[p]
           j == vaddr2pti(l.v)
           m == [Idle EXCEPT !.pc = "access", !.v = l.v, !.w = l.w]
<1>1. /\ At(p, "read_bs") /\ signal /\ cpu' = NOBODY
      /\ mem' = [mem EXCEPT ![l.fr] = disk[l.bsd][l.off]]
      /\ ft' = incRefCount(ft, l.pt)
      /\ pt' = [pt EXCEPT ![l.pt][j] = [pt[l.pt][j] EXCEPT !.pt_pres = 1, !.pt_base = l.fr]]
      /\ th' = [th EXCEPT ![p] = m]
      /\ UNCHANGED <<pd, disk, val, bstab, free_bs_count, proc>>
  BY DEF ReadBs
<1>2. p \in Actors /\ l.fr \in Frames /\ l.bsd \in Stores
  BY <1>1 DEF IInv, LocalsOK, At, Actors
<1>3. m.pc = "access" /\ m.v = l.v /\ m.pid = NO_PROCESS
  BY DEF Idle
<1> HIDE DEF m
<1>4. th'[p] = m /\ Others(p)
  BY <1>1, <1>2, OneStep
<1> QED BY <1>1, <1>2, <1>3, <1>4

\* vcreate fails, or waits for pf_sem with a slot and enough free stores.
LEMMA VcreateEffect ==
  ASSUME IInv, NEW a \in Creators, Vcreate(a)
  PROVE  \/ Still
         \/ /\ At(a, "user") /\ cpu = NOBODY /\ Others(a) /\ wait(a) /\ cpu' \in {a, NOBODY}
            /\ th'[a].pc = "alloc" /\ th'[a].type = "PDIR" /\ th'[a].pid \in Procs
            /\ th'[a].h \in HSizes /\ bsReq(th'[a].h) <= free_bs_count /\ SlotFree(th'[a].pid)
            /\ UNCHANGED <<ft, pd, pt, mem, disk, val, bstab, free_bs_count, proc>>
<1>1. CASE UNCHANGED <<pf_sem, cpu, th>>
  BY <1>1 DEF Vcreate, Still
<1>2. CASE ~UNCHANGED <<pf_sem, cpu, th>>
  <2>1. PICK q \in Procs, h \in HSizes :
          /\ newpid(q) /\ bsReq(h) <= free_bs_count /\ wait(a)
          /\ th' = [th EXCEPT ![a] = [Idle EXCEPT !.pc = "alloc", !.type = "PDIR",
                                                  !.pid = q, !.h = h]]
    BY <1>2 DEF Vcreate
  <2> DEFINE l == [Idle EXCEPT !.pc = "alloc", !.type = "PDIR", !.pid = q, !.h = h]
  <2>2. l.pc = "alloc" /\ l.type = "PDIR" /\ l.pid = q /\ l.h = h
    BY DEF Idle
  <2> HIDE DEF l
  <2>3. th'[a] = l /\ Others(a)
    BY <2>1, OneStep DEF l, Actors
  <2>4. SlotFree(q) /\ cpu' \in {a, NOBODY}
    BY <2>1 DEF newpid, wait
  <2> QED BY <2>1, <2>2, <2>3, <2>4 DEF Vcreate
<1> QED BY <1>1, <1>2

\* init_pd has its page directory.
LEMMA NewPageDirectoryEffect ==
  ASSUME IInv, NEW a \in Creators, NewPageDirectory(a)
  PROVE  LET fr == th[a].fr
         IN  /\ At(a, "init") /\ th[a].type = "PDIR" /\ InitFrame(a) /\ Others(a)
             /\ fr \in Frames /\ cpu' \in {a, NOBODY} /\ signal
             /\ pt' = [pt EXCEPT ![fr] = [j \in Slots |-> NoPTE]]
             /\ mem' = [mem EXCEPT ![fr] = 0]
             /\ th'[a].pc = "init_pd" /\ th'[a].pid = th[a].pid /\ th'[a].h = th[a].h
             /\ UNCHANGED <<pd, disk, val, bstab, free_bs_count, proc>>
<1> DEFINE fr == th[a].fr
           l == [Idle EXCEPT !.pc = "init_pd", !.pid = th[a].pid, !.h = th[a].h]
<1>1. /\ At(a, "init") /\ th[a].type = "PDIR" /\ InitFrame(a) /\ cpu' \in {a, NOBODY} /\ signal
      /\ pt' = [pt EXCEPT ![fr] = [j \in Slots |-> NoPTE]]
      /\ mem' = [mem EXCEPT ![fr] = 0]
      /\ th' = [th EXCEPT ![a] = l]
      /\ UNCHANGED <<pd, disk, val, bstab, free_bs_count, proc>>
  BY DEF NewPageDirectory, AfterSignal
<1>2. a \in Actors /\ fr \in Frames
  BY <1>1 DEF IInv, LocalsOK, At, Actors
<1>3. l.pc = "init_pd" /\ l.pid = th[a].pid /\ l.h = th[a].h
  BY DEF Idle
<1> HIDE DEF l
<1>4. th'[a] = l /\ Others(a)
  BY <1>1, <1>2, OneStep
<1> QED BY <1>1, <1>2, <1>3, <1>4

\* The end of vcreate: the process has its heap map and its stores.
LEMMA FinishVcreateEffect ==
  ASSUME IInv, NEW a \in Creators, FinishVcreate(a)
  PROVE  LET p == th[a].pid
             h == th[a].h
             map == pbsdFor(h)
         IN  \/ Still
             \/ /\ At(a, "init_pd") /\ p \in Procs /\ h \in 0 .. MAXHEAP /\ SlotFree(p)
                /\ pd' = [pd EXCEPT ![p] = [i \in Tables |-> NoPDE]]
                /\ bstab' = bstabFor(h)
                /\ free_bs_count' = (free_bs_count + WORD - bsReq(h)) % WORD
                /\ proc'[p] = [prstate |-> "live", hsize |-> h, pbsd |-> map]
                /\ \A q \in Procs : q # p => proc'[q] = proc[q]
                /\ val' = [val EXCEPT ![p] = [v \in Pages |->
                             LET s == map[v \div MAX_PAGES_PER_BS]
                             IN  IF v < h /\ s \in Stores THEN disk[s][BsOff(v)] ELSE 0]]
                /\ th'[a] = Idle /\ th'[p] = Idle
                /\ \A b \in Actors : b # a /\ b # p => th'[b] = th[b]
                /\ cpu' = NOBODY
                /\ UNCHANGED <<ft, pt, mem, disk, pf_sem>>
<1> DEFINE p == th[a].pid
           h == th[a].h
           map == pbsdFor(h)
           new == [prstate |-> "live", hsize |-> h, pbsd |-> map]
<1>1. CASE Stop("dup_pid")
  BY <1>1, StopStill
<1>2. CASE ~Stop("dup_pid")
  <2>1. /\ At(a, "init_pd") /\ SlotFree(p)
        /\ pd' = [pd EXCEPT ![p] = [i \in Tables |-> NoPDE]]
        /\ bstab' = bstabFor(h)
        /\ free_bs_count' = (free_bs_count + WORD - bsReq(h)) % WORD
        /\ proc' = [proc EXCEPT ![p] = new]
        /\ val' = [val EXCEPT ![p] = [v \in Pages |->
                     LET s == map[v \div MAX_PAGES_PER_BS]
                     IN  IF v < h /\ s \in Stores THEN disk[s][BsOff(v)] ELSE 0]]
        /\ th' = [th EXCEPT ![a] = Idle, ![p] = Idle]
        /\ cpu' = NOBODY
        /\ UNCHANGED <<ft, pt, mem, disk, pf_sem>>
    BY <1>2 DEF FinishVcreate
  <2>2. p \in Procs /\ h \in 0 .. MAXHEAP /\ a \in Actors /\ p \in Actors /\ th[a] \in Thread
    BY <2>1 DEF IInv, LocalsOK, At, TypeOK, Thread, Actors
  <2>3. proc'[p] = new /\ \A q \in Procs : q # p => proc'[q] = proc[q]
    <3> HIDE DEF p, new
    <3> QED BY <2>1, <2>2 DEF IInv, TypeOK
  <2>4. /\ th'[a] = Idle /\ th'[p] = Idle
        /\ \A b \in Actors : b # a /\ b # p => th'[b] = th[b]
    <3> HIDE DEF p
    <3> QED BY <2>1, <2>2 DEF IInv, TypeOK
  <2> QED BY <2>1, <2>2, <2>3, <2>4
<1> QED BY <1>1, <1>2

\* kill starts, of a process that is outside the fault path when kill may not
\* race with one.
LEMMA KillEffect ==
  ASSUME IInv, NEW a \in Actors, NEW p \in Procs, Kill(a, p)
  PROVE  /\ MayRun(a) /\ Live(p) /\ Others(a) /\ cpu' \in {a, NOBODY}
         /\ th[a].pc \in {"user", "exit"} /\ (a = p \/ (a \in Creators /\ th[a].pc = "user"))
         /\ th'[a].pc = "kill" /\ th'[a].pid = p /\ th'[a].i = 0
         /\ ~KillRaces => OutsideFaultPath(p) /\ ~BeingEvicted(p) /\ cpu' = a
         /\ UNCHANGED <<ft, pd, pt, mem, disk, val, bstab, free_bs_count, proc, pf_sem>>
<1> DEFINE l == [Idle EXCEPT !.pc = "kill", !.pid = p]
<1>1. th' = [th EXCEPT ![a] = l]
  BY DEF Kill
<1>2. l.pc = "kill" /\ l.pid = p /\ l.i = 0
  BY DEF Idle
<1> HIDE DEF l
<1>3. th'[a] = l /\ Others(a)
  BY <1>1, OneStep
<1> QED BY <1>2, <1>3 DEF Kill

\* One iteration of freeProcFrames.
LEMMA KillFrameEffect ==
  ASSUME IInv, NEW a \in Actors, KillFrame(a)
  PROVE  LET f == th[a].i
         IN  \/ Still
             \/ /\ At(a, "kill") /\ f \in Frames /\ th[a].pid \in Procs
                /\ th'[a].pc = "kill" /\ th'[a].pid = th[a].pid /\ th'[a].i = f + 1
                /\ Others(a) /\ cpu' = a
                /\ ft.ipt[f].pid = th[a].pid => ft'.ipt[f] = Cleared
                /\ ft.ipt[f].pid # th[a].pid => SameEntry(ft, ft', f)
                /\ \A g \in Frames : g # f => SameEntry(ft, ft', g)
                /\ UNCHANGED <<pd, pt, mem, disk, val, bstab, free_bs_count, proc, pf_sem>>
<1> DEFINE f == th[a].i
           l == [th[a] EXCEPT !.i = f + 1]
<1>1. CASE Stop("wild")
  BY <1>1, StopStill
<1>2. CASE ~Stop("wild")
  <2>1. /\ At(a, "kill") /\ f < NFRAMES /\ cpu' = a
        /\ ft' = IF ft.ipt[f].pid = th[a].pid THEN freeFrame(ft, currpolicy, f) ELSE ft
        /\ th' = [th EXCEPT ![a] = l]
        /\ UNCHANGED <<pd, pt, mem, disk, val, bstab, free_bs_count, proc, pf_sem>>
    BY <1>2 DEF KillFrame, FramesToFree
  <2>2. th[a] \in Thread /\ ft \in FT /\ th[a].pid \in Procs
    BY <2>1, FTType DEF IInv, TypeOK, LocalsOK, At
  <2>3. f \in Frames
    BY <2>1, <2>2, SizesAssumption DEF Thread, Frames
  <2>4. l.pc = "kill" /\ l.pid = th[a].pid /\ l.i = f + 1
    BY <2>1, <2>2 DEF Thread, At
  <2> HIDE DEF l
  <2>5. th'[a] = l /\ Others(a)
    BY <2>1, OneStep
  <2>6. /\ ft.ipt[f].pid = th[a].pid => ft'.ipt[f] = Cleared
        /\ ft.ipt[f].pid # th[a].pid => SameEntry(ft, ft', f)
        /\ \A g \in Frames : g # f => SameEntry(ft, ft', g)
    <3>1. /\ freeFrame(ft, currpolicy, f).ipt[f] = Cleared
          /\ \A g \in Frames : g # f => SameEntry(ft, freeFrame(ft, currpolicy, f), g)
      BY <2>2, <2>3, FreeFrameSame
    <3>2. \A g \in Frames : SameEntry(ft, ft, g)
      BY DEF SameEntry
    <3>3. CASE ft.ipt[f].pid = th[a].pid
      <4>1. ft' = freeFrame(ft, currpolicy, f)
        BY <2>1, <3>3
      <4> QED BY <3>1, <3>3, <4>1
    <3>4. CASE ft.ipt[f].pid # th[a].pid
      <4>1. ft' = ft
        BY <2>1, <3>4
      <4>2. \A g \in Frames : SameEntry(ft, ft', g)
        BY <4>1 DEF SameEntry
      <4> QED BY <2>3, <3>4, <4>2
    <3> QED BY <3>3, <3>4
  <2> QED BY <2>1, <2>2, <2>3, <2>4, <2>5, <2>6
<1> QED BY <1>1, <1>2

\* The end of kill: the stores and the slot are free.
LEMMA FinishKillEffect ==
  ASSUME IInv, NEW a \in Actors, FinishKill(a)
  PROVE  LET p == th[a].pid
         IN  /\ At(a, "kill") /\ th[a].i = NFRAMES /\ p \in Procs
             /\ bstab' = [s \in Stores |-> IF s \in StoresOf(p)
                                           THEN [isallocated |-> FALSE, npages |-> 0]
                                           ELSE bstab[s]]
             /\ free_bs_count' = (free_bs_count + bsReq(proc[p].hsize)) % WORD
             /\ proc'[p] = [proc[p] EXCEPT !.prstate = "free"]
             /\ \A q \in Procs : q # p => proc'[q] = proc[q]
             /\ th'[a] = Idle /\ th'[p] = Idle
             /\ \A b \in Actors : b # a /\ b # p => th'[b] = th[b]
             /\ cpu' = NOBODY
             /\ UNCHANGED <<ft, pd, pt, mem, disk, val>>
<1> DEFINE p == th[a].pid
           dead == [proc[p] EXCEPT !.prstate = "free"]
<1>1. /\ At(a, "kill") /\ th[a].i = NFRAMES
      /\ bstab' = [s \in Stores |-> IF s \in StoresOf(p)
                                    THEN [isallocated |-> FALSE, npages |-> 0]
                                    ELSE bstab[s]]
      /\ free_bs_count' = (free_bs_count + bsReq(proc[p].hsize)) % WORD
      /\ proc' = [proc EXCEPT ![p] = dead]
      /\ th' = [th EXCEPT ![a] = Idle, ![p] = Idle]
      /\ cpu' = NOBODY
      /\ UNCHANGED <<ft, pd, pt, mem, disk, val>>
  BY DEF FinishKill, FramesToFree
<1>2. p \in Procs /\ p \in Actors
  BY <1>1 DEF IInv, LocalsOK, At, Actors
<1>3. proc'[p] = dead /\ \A q \in Procs : q # p => proc'[q] = proc[q]
  <2> HIDE DEF p, dead
  <2> QED BY <1>1, <1>2 DEF IInv, TypeOK
<1>4. /\ th'[a] = Idle /\ th'[p] = Idle
      /\ \A b \in Actors : b # a /\ b # p => th'[b] = th[b]
  <2> HIDE DEF p
  <2> QED BY <1>1, <1>2 DEF IInv, TypeOK
<1> QED BY <1>1, <1>2, <1>3, <1>4

-----------------------------------------------------------------------------
(* The invariant. *)

Handling == {"alloc", "scan", "evict", "write_bs", "init", "read_bs"}
Creation == {"alloc", "scan", "evict", "write_bs", "init", "init_pd"}

\* Between two points where it may block, a process keeps the processor.  So
\* does kill, once it has begun: what it found true of its victim stays true.
KillAlone ==
  \A a \in Actors :
    /\ th[a].pc \in {"scan", "evict", "init", "kill"} => cpu = a
    /\ th[a].pc = "kill" => /\ Live(th[a].pid) /\ ~BeingEvicted(th[a].pid)
                            /\ th[a].pid = a \/ OutsideFaultPath(th[a].pid)

\* vcreate allocates page directories only, pf_handler tables and pages.
RoleOK(a, l) ==
  /\ a \in Creators => /\ l.pc \in Creation \cup {"user", "kill"}
                       /\ l.pc \in Handling => l.type = "PDIR"
  /\ a \in Procs => /\ l.pc # "init_pd"
                    /\ l.pc \in Handling => l.type \in {"PTAB", "PAGE"}
                    /\ l.pc = "read_bs" => l.type = "PAGE"
Roles == \A a \in Actors : RoleOK(a, th[a])

\* A frame belongs to a live process or to one whose creation has a page
\* directory; kill leaves none behind.
FramesOwned ==
  \A f \in Frames : ft.ipt[f].pid \in Procs =>
    \/ Live(ft.ipt[f].pid)
    \/ \E a \in Creators : th[a].pc = "init_pd" /\ th[a].pid = ft.ipt[f].pid
KillProgress ==
  \A a \in Actors : th[a].pc = "kill" =>
    \A f \in Frames : f < th[a].i => ft.ipt[f].pid # th[a].pid

\* Store k of p.  No two heaps share a store, and what is allocated is
\* somebody's.
StoreIdx(p) == 0 .. bsReq(proc[p].hsize) - 1
Has(p, k, s) == Live(p) /\ k \in StoreIdx(p) /\ proc[p].pbsd[k] = s
StoreMap ==
  /\ \A p \in Procs, k \in Stores, s \in Stores : Has(p, k, s) => bstab[s].isallocated
  /\ \A p, q \in Procs, k, l \in Stores, s \in Stores :
       Has(p, k, s) /\ Has(q, l, s) => p = q /\ k = l
  /\ \A s \in Stores : bstab[s].isallocated => \E p \in Procs, k \in Stores : Has(p, k, s)

OwnInv == KillAlone /\ Roles /\ FramesOwned /\ KillProgress /\ StoreMap

\* What vcreate found when it checked is still so: the slot and enough stores.
Reserved(l) == l.pc \in Creation => bsReq(l.h) <= free_bs_count /\ SlotFree(l.pid)
Counted ==
  /\ \A p \in Procs : Live(p) => \A k \in StoreIdx(p) : proc[p].pbsd[k] \in Stores
  /\ free_bs_count = Cardinality(Unallocated)
  /\ \A a \in Creators : Reserved(th[a])

-----------------------------------------------------------------------------
(* Steps that neither begin nor end a process. *)

\* A step of a process that is not in kill: nobody is.
Walks(a) ==
  /\ MayRun(a) /\ th[a].pc \notin {"kill", "init_pd"} /\ Others(a)
  /\ th'[a].pc # "kill" /\ (th'[a].pc \in {"scan", "evict", "init"} => cpu' = a)
  /\ RoleOK(a, th[a]) => RoleOK(a, th'[a])
  /\ UNCHANGED <<proc, bstab, free_bs_count>>
  /\ \A f \in Frames : \/ ft'.ipt[f].pid \notin Procs
                       \/ ft'.ipt[f].pid = ft.ipt[f].pid
                       \/ ft'.ipt[f].pid = a /\ Live(a)
                       \/ /\ a \in Creators /\ th'[a].pc = "init_pd"
                          /\ th'[a].pid = ft'.ipt[f].pid
  /\ a \in Creators /\ Reserved(th[a]) => Reserved(th'[a])

\* While a process runs, the others are where they may block.
LEMMA AloneFacts ==
  ASSUME KillAlone, NEW a \in Actors, MayRun(a)
  PROVE  \A b \in Actors : b # a => th[b].pc \notin {"scan", "evict", "init", "kill"}
BY EnvironmentAssumption DEF KillAlone, MayRun, Actors

\* Such a step keeps the invariant.
LEMMA WalkOwn ==
  ASSUME IInv, OwnInv, NEW a \in Actors, Walks(a)
  PROVE  OwnInv'
<1>1. \A b \in Actors : th[b].pc # "kill" /\ th'[b].pc # "kill"
  BY AloneFacts DEF OwnInv, Walks, Others
<1>2. \A b \in Actors : th'[b].pc \in {"scan", "evict", "init"} => cpu' = b
  BY AloneFacts DEF OwnInv, Walks, Others
<1>3. KillAlone' /\ KillProgress'
  BY <1>1, <1>2 DEF KillAlone, KillProgress
<1>4. Roles'
  BY DEF OwnInv, Walks, Others, Roles, RoleOK
<1>5. FramesOwned'
  <2> SUFFICES ASSUME NEW f \in Frames, ft'.ipt[f].pid \in Procs
               PROVE  \/ Live(ft'.ipt[f].pid)
                      \/ \E b \in Creators : th'[b].pc = "init_pd" /\ th'[b].pid = ft'.ipt[f].pid
    BY DEF FramesOwned, Live, Walks
  <2>1. CASE ft'.ipt[f].pid = ft.ipt[f].pid
    <3>1. \A b \in Creators : th[b].pc = "init_pd" => th'[b] = th[b]
      BY DEF Walks, Others, Actors
    <3> QED BY <2>1, <3>1 DEF OwnInv, FramesOwned
  <2> QED BY <2>1 DEF Walks
<1>6. StoreMap'
  BY DEF OwnInv, StoreMap, Walks, Has, StoreIdx, Live
<1> QED BY <1>3, <1>4, <1>5, <1>6 DEF OwnInv

\* It also keeps the count of free stores.
LEMMA WalkCounted ==
  ASSUME IInv, Counted, NEW a \in Actors, Walks(a)
  PROVE  Counted'
<1>1. \A b \in Creators : Reserved(th'[b])
  BY DEF Counted, Walks, Others, Actors
<1>2. \A b \in Creators : Reserved(th[b])'
  BY <1>1 DEF Reserved, Walks, SlotFree
<1>3. Unallocated' = Unallocated
  BY DEF Unallocated, Walks
<1> QED BY <1>2, <1>3 DEF Counted, Walks, Live, StoreIdx

\* Nothing changes.
LEMMA StillOwn ==
  ASSUME IInv, Still
  PROVE  (OwnInv => OwnInv') /\ (Counted => Counted')
<1>1. OwnInv => OwnInv'
  BY DEF Still, OwnInv, KillAlone, Roles, FramesOwned, KillProgress, StoreMap, RoleOK, Live,
         BeingEvicted, OutsideFaultPath, Queued, Has, StoreIdx
<1>2. Counted => Counted'
  BY DEF Still, Counted, Live, StoreIdx, Unallocated, Reserved, SlotFree
<1> QED BY <1>1, <1>2

\* A step inside the fault path that changes no owner.
LEMMA FaultPathWalk ==
  ASSUME IInv, NEW a \in Actors, MayRun(a), th[a].pc \in Handling \ {"read_bs"}, Others(a),
         th'[a].pc \in Handling \ {"read_bs"}, SameLocals(th[a], th'[a]),
         th'[a].pc \in {"scan", "evict", "init"} => cpu' = a,
         UNCHANGED <<proc, bstab, free_bs_count>>,
         \A f \in Frames : ft'.ipt[f].pid \in {ft.ipt[f].pid, NO_PROCESS}
  PROVE  Walks(a)
<1>1. NO_PROCESS \notin Procs
  BY SizesAssumption DEF NO_PROCESS, Procs
<1>2. RoleOK(a, th[a]) => RoleOK(a, th'[a])
  BY DEF RoleOK, Handling, Creation, SameLocals
<1>3. a \in Creators /\ Reserved(th[a]) => Reserved(th'[a])
  BY DEF Reserved, Handling, Creation, SameLocals
<1> QED BY <1>1, <1>2, <1>3 DEF Walks, Handling

\* Owners of entries that agree.
LEMMA SameOwners ==
  /\ UNCHANGED ft => \A f \in Frames : ft'.ipt[f].pid \in {ft.ipt[f].pid, NO_PROCESS}
  /\ (\A f \in Frames : SameEntry(ft, ft', f)) =>
       \A f \in Frames : ft'.ipt[f].pid \in {ft.ipt[f].pid, NO_PROCESS}
BY DEF SameEntry

\* Actors are creators or processes, never both.
LEMMA Kinds ==
  /\ \A p \in Procs : p \in Actors /\ p \notin Creators
  /\ \A a \in Creators : a \in Actors /\ a \notin Procs
  /\ \A a \in Actors : a \in Procs \/ a \in Creators
BY EnvironmentAssumption DEF Actors

\* getNewFrame, evictFrame and the rest of the fault path up to init_frame.
LEMMA FrameWalk ==
  ASSUME IInv, NEW a \in Actors, FrameStep(a)
  PROVE  Walks(a) \/ Still
<1> USE DEF Handling, At
<1>1. CASE TakeFree(a)
  BY <1>1, TakeFreeEffect, FaultPathWalk, SameOwners
<1>2. CASE PickVictim(a)
  BY <1>2, PickVictimEffect, FaultPathWalk, SameOwners
<1>3. CASE NoFrameAvailable(a)
  <2>1. SUFFICES ASSUME ~Still PROVE Walks(a)
    OBVIOUS
  <2>2. /\ At(a, "alloc") /\ th'[a] = Idle /\ Others(a)
        /\ UNCHANGED <<ft, bstab, free_bs_count, proc>>
    BY <1>3, <2>1, NoFrameEffect
  <2>3. Reserved(th'[a]) /\ RoleOK(a, th'[a])
    BY <2>2, IdleFields DEF Reserved, Creation, RoleOK
  <2> QED BY <2>2, <2>3, IdleFields DEF Walks
<1>4. CASE StartScan(a)
  BY <1>4, StartScanEffect, FaultPathWalk, SameOwners
<1>5. CASE Scan(a)
  <2>1. SUFFICES ASSUME ~Still PROVE Walks(a)
    OBVIOUS
  <2>2. /\ At(a, "scan") /\ SameLocals(th[a], th'[a]) /\ Others(a)
        /\ cpu' = a /\ UNCHANGED <<ft, bstab, free_bs_count, proc>>
        /\ th'[a].pc \in {"init", "scan", "evict"}
    BY <1>5, <2>1, ScanEffect
  <2> QED BY <2>2, FaultPathWalk, SameOwners
<1>6. CASE Evict(a)
  <2>1. SUFFICES ASSUME ~Still PROVE Walks(a)
    OBVIOUS
  <2> DEFINE t == pd[ft.ipt[th[a].fr].pid][vaddr2pdi(ft.ipt[th[a].fr].vpn)].pd_base
  <2>2. /\ At(a, "evict") /\ SameLocals(th[a], th'[a]) /\ Others(a)
        /\ UNCHANGED <<bstab, free_bs_count, proc>>
        /\ t \in Frames /\ ft' = decRefCount(ft, currpolicy, t)
        /\ (th'[a].pc = "init" /\ cpu' = a) \/ th'[a].pc = "write_bs"
    BY <1>6, <2>1, EvictEffect
  <2> HIDE DEF t
  <2>3. ft \in FT
    BY FTType DEF IInv
  <2>4. \A f \in Frames : ft'.ipt[f].pid \in {ft.ipt[f].pid, NO_PROCESS}
    BY <2>2, <2>3, DecRefCountSame DEF SameEntry, Cleared
  <2> QED BY <2>2, <2>4, FaultPathWalk
<1>7. CASE WriteBs(a)
  BY <1>7, WriteBsEffect, FaultPathWalk, SameOwners
<1> QED BY <1>1, <1>2, <1>3, <1>4, <1>5, <1>6, <1>7 DEF FrameStep

\* An entry written by init_frame belongs to the process that asked.
LEMMA InitOwners ==
  ASSUME IInv, NEW a \in Actors, At(a, "init"), InitFrame(a)
  PROVE  /\ a \in Procs => Live(a) /\ \A f \in Frames : ft'.ipt[f].pid \in {ft.ipt[f].pid, a}
         /\ a \in Creators => \A f \in Frames : ft'.ipt[f].pid \in {ft.ipt[f].pid, th[a].pid}
<1>1. a \in Procs => Live(a)
  BY DEF At, IInv, LocalsOK, TypeOK, Live, SlotFree
<1>2. \A f \in Frames : ft'.ipt[f].pid \in {ft.ipt[f].pid, Owner(a)}
  BY InitFrameEffect DEF SameEntry
<1> QED BY <1>1, <1>2, Kinds DEF Owner

\* User mode and the page fault handler.
LEMMA FaultWalk ==
  ASSUME IInv, NEW p \in Procs, Access(p) \/ Retry(p) \/ FaultStep(p)
  PROVE  Walks(p) \/ Still
<1> USE DEF Handling, At
<1>0. p \in Actors /\ p \notin Creators
  BY Kinds
<1>1. CASE Access(p) \/ Retry(p)
  <2>1. PICK v \in Pages, w \in Values \cup {NOWRITE} : Perform(p, v, w) \/ PageFault(p, v, w)
    BY <1>1, UserEffect
  <2>2. MayRun(p) /\ th[p].pc \in {"user", "access"}
    BY <1>1, UserEffect
  <2>3. /\ Others(p) /\ th'[p].pc \in {"user", "pf"}
        /\ UNCHANGED <<ft, bstab, free_bs_count, proc>>
    BY <2>1, PerformEffect, PageFaultEffect, IdleFields
  <2>4. RoleOK(p, th'[p])
    BY <1>0, <2>3 DEF RoleOK
  <2> QED BY <1>0, <2>2, <2>3, <2>4 DEF Walks
<1>2. CASE PfHandler(p)
  <2>1. /\ At(p, "pf") /\ Others(p) /\ th'[p].pc \in {"exit", "alloc"}
        /\ th'[p].pc = "alloc" => th'[p].type \in {"PTAB", "PAGE"}
        /\ UNCHANGED <<ft, bstab, free_bs_count, proc>>
    BY <1>2, PfHandlerEffect
  <2>2. RoleOK(p, th'[p])
    BY <1>0, <2>1 DEF RoleOK
  <2> QED BY <1>0, <2>1, <2>2 DEF Walks
<1>3. CASE NewPageTable(p)
  <2>1. /\ At(p, "init") /\ InitFrame(p) /\ Others(p) /\ th'[p].pc = "alloc"
        /\ th'[p].type = "PAGE" /\ UNCHANGED <<bstab, free_bs_count, proc>>
    BY <1>3, NewPageTableEffect
  <2>2. RoleOK(p, th'[p])
    BY <1>0, <2>1 DEF RoleOK
  <2>3. Live(p) /\ \A f \in Frames : ft'.ipt[f].pid \in {ft.ipt[f].pid, p}
    BY <1>0, <2>1, InitOwners
  <2> QED BY <1>0, <2>1, <2>2, <2>3 DEF Walks
<1>4. CASE LoadPage(p)
  <2>1. SUFFICES ASSUME ~Still PROVE Walks(p)
    OBVIOUS
  <2>2. /\ At(p, "init") /\ InitFrame(p) /\ Others(p) /\ th'[p].pc = "read_bs"
        /\ th[p].type = "PAGE" /\ SameLocals(th[p], th'[p])
        /\ UNCHANGED <<bstab, free_bs_count, proc>>
    BY <1>4, <2>1, LoadPageEffect
  <2>3. RoleOK(p, th'[p])
    BY <1>0, <2>2 DEF RoleOK, SameLocals
  <2>4. Live(p) /\ \A f \in Frames : ft'.ipt[f].pid \in {ft.ipt[f].pid, p}
    BY <1>0, <2>2, InitOwners
  <2> QED BY <1>0, <2>2, <2>3, <2>4 DEF Walks
<1>5. CASE ReadBs(p)
  <2>1. /\ At(p, "read_bs") /\ Others(p) /\ th'[p].pc = "access"
        /\ ft' = incRefCount(ft, th[p].pt) /\ UNCHANGED <<bstab, free_bs_count, proc>>
    BY <1>5, ReadBsEffect
  <2>2. RoleOK(p, th'[p])
    BY <1>0, <2>1 DEF RoleOK
  <2>3. \A f \in Frames : ft'.ipt[f].pid = ft.ipt[f].pid
    <3>1. ft \in FT
      BY FTType DEF IInv
    <3> QED BY <2>1, <3>1 DEF incRefCount, FT, FrameRec
  <2> QED BY <1>0, <2>1, <2>2, <2>3 DEF Walks
<1> QED BY <1>1, <1>2, <1>3, <1>4, <1>5 DEF FaultStep

\* vcreate up to the end of init_pd.
LEMMA CreateWalk ==
  ASSUME IInv, NEW a \in Creators, Vcreate(a) \/ NewPageDirectory(a) \/ srpolicy(a)
  PROVE  Walks(a) \/ Still
<1> USE DEF At
<1>0. a \in Actors /\ a \notin Procs
  BY Kinds
<1>1. CASE Vcreate(a)
  <2>1. SUFFICES ASSUME ~Still PROVE Walks(a)
    OBVIOUS
  <2>2. /\ At(a, "user") /\ Others(a) /\ th'[a].pc = "alloc" /\ th'[a].type = "PDIR"
        /\ bsReq(th'[a].h) <= free_bs_count /\ SlotFree(th'[a].pid)
        /\ UNCHANGED <<ft, bstab, free_bs_count, proc>>
    BY <1>1, <2>1, VcreateEffect
  <2>3. RoleOK(a, th'[a]) /\ Reserved(th'[a])
    BY <1>0, <2>2 DEF RoleOK, Reserved, Creation
  <2> QED BY <2>2, <2>3 DEF Walks
<1>2. CASE NewPageDirectory(a)
  <2>1. /\ At(a, "init") /\ Others(a) /\ InitFrame(a) /\ th'[a].pc = "init_pd"
        /\ th'[a].pid = th[a].pid /\ th'[a].h = th[a].h
        /\ UNCHANGED <<bstab, free_bs_count, proc>>
    BY <1>2, NewPageDirectoryEffect
  <2>2. RoleOK(a, th'[a]) /\ (Reserved(th[a]) => Reserved(th'[a]))
    BY <1>0, <2>1 DEF RoleOK, Reserved, Creation, Handling
  <2>3. \A f \in Frames : ft'.ipt[f].pid \in {ft.ipt[f].pid, th[a].pid}
    BY <1>0, <2>1, InitOwners
  <2> QED BY <2>1, <2>2, <2>3 DEF Walks
<1>3. CASE srpolicy(a)
  BY <1>3 DEF srpolicy, Still
<1> QED BY <1>1, <1>2, <1>3

-----------------------------------------------------------------------------
(* Numbers of stores. *)

\* Every heap that vcreate accepts fits into the backing stores.
LEMMA BsReqBound ==
  ASSUME NEW h \in 0 .. MAXHEAP
  PROVE  bsReq(h) \in 0 .. MAX_BS_ENTRIES
<1> DEFINE m == MAX_PAGES_PER_BS
           b == MAX_BS_ENTRIES
           q == (h - 1) \div m
<1>1. m \in Nat /\ m > 0 /\ b \in Nat /\ b > 0 /\ MAXHEAP \in Nat /\ MAXHEAP < b * m
  BY SizesAssumption
<1>2. CASE h = 0
  BY <1>1, <1>2 DEF bsReq
<1>3. CASE h # 0
  <2>1. q \in Nat /\ q * m <= h - 1
    <3>0. m \in Nat /\ m > 0 /\ MAXHEAP \in Nat
      BY <1>1
    <3>1. h > 0 /\ h \in Nat
      BY <1>3, <3>0
    <3>2. q \in Nat
      BY <3>0, <3>1
    <3>3. q * m <= h - 1
      BY <3>0, <3>1, <3>2
    <3> QED BY <3>2, <3>3
  <2>2. h - 1 < b * m
    <3> DEFINE z == b * m
    <3>1. z \in Nat /\ MAXHEAP < z
      BY <1>1
    <3> HIDE DEF z
    <3>2. h - 1 < z
      BY <1>1, <3>1
    <3> QED BY <3>2 DEF z
  <2>3. q < b
    <3> HIDE DEF q, m, b
    <3>1. SUFFICES ASSUME b <= q PROVE FALSE
      BY <1>1, <2>1
    <3>2. b * m <= q * m
      BY <1>1, <2>1, <3>1
    <3> DEFINE y == b * m
               z == q * m
    <3>3. y \in Nat /\ z \in Nat
      BY <1>1, <2>1
    <3>4. y <= z /\ z <= h - 1 /\ h - 1 < y
      BY <2>1, <2>2, <3>2
    <3> HIDE DEF y, z
    <3> QED BY <3>3, <3>4
  <2> QED BY <1>1, <1>3, <2>1, <2>3 DEF bsReq
<1> QED BY <1>2, <1>3

\* The unallocated stores are finitely many.
LEMMA UnallocatedFinite ==
  /\ IsFiniteSet(Stores) /\ Cardinality(Stores) = MAX_BS_ENTRIES
  /\ IsFiniteSet(Unallocated) /\ Cardinality(Unallocated) \in 0 .. MAX_BS_ENTRIES
<1>1. IsFiniteSet(Stores) /\ Cardinality(Stores) = MAX_BS_ENTRIES
  BY SizesAssumption, FS_Interval DEF Stores
<1>2. Unallocated \in SUBSET Stores
  BY DEF Unallocated
<1>3. IsFiniteSet(Unallocated) /\ Cardinality(Unallocated) <= Cardinality(Stores)
  BY <1>1, <1>2, FS_Subset
<1>4. Cardinality(Unallocated) \in Nat
  BY <1>3, FS_CardinalityType
<1> QED BY <1>1, <1>3, <1>4, SizesAssumption

\* allocate_bs numbers the unallocated stores 0, 1, ... without gaps.
LEMMA RankFacts ==
  /\ \A s \in Unallocated : Rank(s) \in 0 .. Cardinality(Unallocated) - 1
  /\ \A r, s \in Unallocated : Rank(r) = Rank(s) => r = s
  /\ \A k \in 0 .. Cardinality(Unallocated) - 1 : \E s \in Unallocated : Rank(s) = k
<1> DEFINE m == Cardinality(Unallocated)
           B(s) == {r \in Unallocated : r < s}
<1>1. IsFiniteSet(Unallocated) /\ m \in Nat /\ Unallocated \subseteq Int
  BY UnallocatedFinite, SizesAssumption DEF Unallocated, Stores
<1>2. ASSUME NEW s \in Unallocated
      PROVE  IsFiniteSet(B(s)) /\ Rank(s) \in 0 .. m - 1
  <2>1. B(s) \in SUBSET Unallocated /\ s \notin B(s)
    BY <1>1
  <2>2. IsFiniteSet(B(s)) /\ Cardinality(B(s)) <= m /\ (m = Cardinality(B(s)) => Unallocated = B(s))
    BY <1>1, <2>1, FS_Subset
  <2>3. Cardinality(B(s)) \in Nat
    BY <2>2, FS_CardinalityType
  <2>4. Rank(s) = Cardinality(B(s))
    BY DEF Rank
  <2> HIDE DEF m
  <2> QED BY <1>1, <2>1, <2>2, <2>3, <2>4
<1>3. ASSUME NEW r \in Unallocated, NEW s \in Unallocated, r < s
      PROVE  Rank(r) # Rank(s)
  <2>0. r \in Int /\ s \in Int
    BY <1>1
  <2>1. B(r) \in SUBSET B(s) /\ r \in B(s) /\ r \notin B(r)
    <3>1. ASSUME NEW x \in B(r) PROVE x \in B(s)
      <4>1. x \in Unallocated /\ x \in Int /\ x < r
        BY <1>1, <3>1
      <4> QED BY <1>3, <2>0, <4>1
    <3>2. r \in B(s) /\ r \notin B(r)
      BY <1>3, <2>0
    <3> QED BY <3>1, <3>2
  <2>2. Cardinality(B(s)) = Cardinality(B(r)) => B(s) = B(r)
    BY <1>2, <2>1, FS_Subset
  <2> QED BY <2>1, <2>2 DEF Rank
<1>4. \A r, s \in Unallocated : Rank(r) = Rank(s) => r = s
  <2>1. SUFFICES ASSUME NEW r \in Unallocated, NEW s \in Unallocated, Rank(r) = Rank(s), r # s
                 PROVE  FALSE
    OBVIOUS
  <2>2. r < s \/ s < r
    BY <1>1, <2>1
  <2> QED BY <1>3, <2>1, <2>2
<1>5. ASSUME NEW k \in 0 .. m - 1 PROVE \E s \in Unallocated : Rank(s) = k
  <2> DEFINE T == 0 .. m - 1
             g == [s \in Unallocated |-> Rank(s)]
  <2>1. IsFiniteSet(T) /\ Cardinality(T) = m
    BY <1>1, FS_Interval
  <2>2. g \in Injection(Unallocated, T)
    BY <1>2, <1>4 DEF Injection, IsInjective
  <2>3. Cardinality(Unallocated) = Cardinality(T) <=> g \in Surjection(Unallocated, T)
    <3> HIDE DEF g, T
    <3> QED BY <2>1, <2>2, FS_Injection
  <2>4. g \in Surjection(Unallocated, T)
    BY <2>1, <2>3
  <2>5. \E s \in Unallocated : g[s] = k
    BY <2>4 DEF Surjection
  <2> QED BY <2>5
<1> QED BY <1>2, <1>4, <1>5

\* The stores with a rank below n are n stores, if there are that many.
LEMMA TakenStores ==
  ASSUME NEW n \in Nat, n <= Cardinality(Unallocated)
  PROVE  LET A == {s \in Unallocated : Rank(s) < n}
         IN  IsFiniteSet(A) /\ Cardinality(A) = n
<1> DEFINE A == {s \in Unallocated : Rank(s) < n}
           T == 0 .. n - 1
           g == [s \in A |-> Rank(s)]
           m == Cardinality(Unallocated)
<1>1. IsFiniteSet(T) /\ Cardinality(T) = n
  BY FS_Interval
<1>2. m \in Nat
  BY UnallocatedFinite
<1>3. \A s \in A : Rank(s) \in T
  BY RankFacts
<1>4. \A k \in T : \E s \in A : Rank(s) = k
  BY <1>2, RankFacts
<1>5. g \in Injection(A, T)
  BY <1>3, RankFacts DEF Injection, IsInjective
<1>6. g \in Surjection(A, T)
  BY <1>3, <1>4 DEF Surjection
<1> HIDE DEF A, T, g
<1>7. IsFiniteSet(A) /\ Cardinality(A) = Cardinality(T)
  BY <1>1, <1>5, <1>6, FS_Injection
<1> QED BY <1>1, <1>7 DEF A

\* What the new map holds: the store of rank k, when there is one.
LEMMA MapFacts ==
  ASSUME NEW h \in 0 .. MAXHEAP, NEW k \in Stores, k < bsReq(h)
  PROVE  LET s == pbsdFor(h)[k]
         IN  /\ s \in Stores => s \in Unallocated /\ Rank(s) = k
             /\ \A r \in Unallocated : Rank(r) = k => s = r
             /\ k < Cardinality(Unallocated) => s \in Stores
<1> DEFINE s == pbsdFor(h)[k]
<1>1. bsReq(h) \in Int /\ k \in Int
  BY BsReqBound, SizesAssumption DEF Stores
<1>2. s = IF \E r \in Stores : allocate_bs(k, r)
          THEN CHOOSE r \in Stores : allocate_bs(k, r) ELSE SYSERR
  BY <1>1 DEF pbsdFor
<1>3. SYSERR \notin Stores
  BY SizesAssumption DEF Stores, SYSERR
<1>4. s \in Stores => allocate_bs(k, s)
  BY <1>2, <1>3
<1>5. (\E r \in Stores : allocate_bs(k, r)) => s \in Stores
  BY <1>2
<1> HIDE DEF s
<1>6. \A r \in Unallocated : Rank(r) = k => r \in Stores /\ allocate_bs(k, r)
  BY DEF allocate_bs, Unallocated
<1>7. s \in Stores => s \in Unallocated /\ Rank(s) = k
  BY <1>4 DEF allocate_bs
<1>8. \A r \in Unallocated : Rank(r) = k => s = r
  BY <1>5, <1>6, <1>7, RankFacts
<1>9. k < Cardinality(Unallocated) => s \in Stores
  <2>1. Cardinality(Unallocated) \in Nat /\ k >= 0
    BY UnallocatedFinite DEF Stores
  <2>2. k < Cardinality(Unallocated) => k \in 0 .. Cardinality(Unallocated) - 1
    BY <1>1, <2>1
  <2> QED BY <1>5, <1>6, <2>2, RankFacts
<1> QED BY <1>7, <1>8, <1>9 DEF s

-----------------------------------------------------------------------------
(* kill. *)

\* kill starts.
LEMMA KillOwn ==
  ASSUME ~KillRaces, IInv, OwnInv, NEW a \in Actors, NEW p \in Procs, Kill(a, p)
  PROVE  OwnInv' /\ (Counted => Counted')
<1>1. /\ MayRun(a) /\ Live(p) /\ Others(a) /\ cpu' = a
      /\ th[a].pc \in {"user", "exit"}
      /\ th'[a].pc = "kill" /\ th'[a].pid = p /\ th'[a].i = 0
      /\ OutsideFaultPath(p) /\ ~BeingEvicted(p)
      /\ UNCHANGED <<ft, bstab, free_bs_count, proc, pf_sem>>
  BY KillEffect
<1>2. \A b \in Actors : b # a => th'[b] = th[b] /\ th[b].pc \notin {"scan", "evict", "init", "kill"}
  BY <1>1, AloneFacts DEF OwnInv, Others
<1>3. ~BeingEvicted(p)'
  BY <1>1, <1>2 DEF BeingEvicted
<1>4. p = a \/ OutsideFaultPath(p)'
  BY <1>1, <1>2, Kinds DEF OutsideFaultPath, Queued
<1>5. KillAlone'
  BY <1>1, <1>2, <1>3, <1>4 DEF KillAlone, Live
<1>6. Roles'
  BY <1>1, <1>2 DEF OwnInv, Roles, RoleOK, Handling
<1>7. FramesOwned'
  <2>1. \A b \in Creators : th[b].pc = "init_pd" => th'[b] = th[b]
    BY <1>1, <1>2, Kinds
  <2> QED BY <1>1, <2>1 DEF OwnInv, FramesOwned, Live
<1>8. KillProgress'
  <2>1. \A f \in Frames : ~(f < 0)
    BY SizesAssumption DEF Frames
  <2> QED BY <1>1, <1>2, <2>1 DEF KillProgress
<1>9. StoreMap'
  BY <1>1 DEF OwnInv, StoreMap, Has, StoreIdx, Live
<1>10. Counted => Counted'
  <2>1. \A b \in Creators : th'[b] = th[b] \/ th'[b].pc = "kill"
    BY <1>1, <1>2, Kinds
  <2>2. Counted => \A b \in Creators : Reserved(th[b])'
    BY <1>1, <2>1 DEF Counted, Reserved, Creation, SlotFree
  <2>3. Unallocated' = Unallocated
    BY <1>1 DEF Unallocated
  <2> QED BY <1>1, <2>2, <2>3 DEF Counted, Live, StoreIdx
<1> QED BY <1>5, <1>6, <1>7, <1>8, <1>9, <1>10 DEF OwnInv

\* freeProcFrames clears the frames of its victim, one at a time.
LEMMA KillFrameOwn ==
  ASSUME IInv, OwnInv, NEW a \in Actors, KillFrame(a)
  PROVE  OwnInv' /\ (Counted => Counted')
<1> DEFINE f == th[a].i
<1>1. CASE Still
  BY <1>1, StillOwn
<1>2. CASE ~Still
  <2>1. /\ At(a, "kill") /\ f \in Frames /\ th[a].pid \in Procs
        /\ th'[a].pc = "kill" /\ th'[a].pid = th[a].pid /\ th'[a].i = f + 1
        /\ Others(a) /\ cpu' = a
        /\ ft.ipt[f].pid = th[a].pid => ft'.ipt[f] = Cleared
        /\ ft.ipt[f].pid # th[a].pid => SameEntry(ft, ft', f)
        /\ \A g \in Frames : g # f => SameEntry(ft, ft', g)
        /\ UNCHANGED <<bstab, free_bs_count, proc, pf_sem>>
    BY <1>2, KillFrameEffect
  <2>2. \A b \in Actors : b # a => th'[b] = th[b] /\ th[b].pc \notin {"scan", "evict", "init", "kill"}
    BY <2>1, AloneFacts DEF OwnInv, Others, At
  <2>3. NO_PROCESS \notin Procs /\ Cleared.pid = NO_PROCESS
    BY SizesAssumption DEF NO_PROCESS, Procs, Cleared
  <2>4. \A g \in Frames : ft'.ipt[g].pid \in {ft.ipt[g].pid, NO_PROCESS}
    BY <2>1, <2>3 DEF SameEntry
  <2>5. ft'.ipt[f].pid # th[a].pid
    BY <2>1, <2>3 DEF SameEntry
  <2>6. th[a].pc = "kill" /\ Live(th[a].pid) /\ ~BeingEvicted(th[a].pid)
    BY <2>1 DEF OwnInv, KillAlone, At
  <2>7. ~BeingEvicted(th[a].pid)'
    <3> SUFFICES ASSUME NEW b \in Actors, th'[b].pc = "write_bs", ft'.ipt[th'[b].fr].pid = th[a].pid
                 PROVE  FALSE
      BY <2>1 DEF BeingEvicted
    <3>1. b # a /\ th'[b] = th[b]
      BY <2>1, <2>2
    <3>2. th[b].fr \in Frames /\ th[b].pc = "write_bs"
      BY <3>1 DEF IInv, LocalsOK
    <3>3. ft.ipt[th[b].fr].pid = th[a].pid
      BY <2>1, <2>3, <2>4, <3>1, <3>2
    <3> QED BY <2>6, <3>2, <3>3 DEF BeingEvicted
  <2>8. th[a].pid = a \/ OutsideFaultPath(th[a].pid)'
    BY <2>1, <2>2, <2>6, Kinds DEF OutsideFaultPath, Queued, OwnInv, KillAlone
  <2>9. KillAlone'
    BY <2>1, <2>2, <2>6, <2>7, <2>8 DEF KillAlone, Live
  <2>10. Roles'
    BY <2>1, <2>2, <2>6 DEF OwnInv, Roles, RoleOK, Handling
  <2>11. FramesOwned'
    <3>1. \A b \in Creators : th[b].pc = "init_pd" => th'[b] = th[b]
      BY <2>2, <2>6, Kinds
    <3> QED BY <2>1, <2>3, <2>4, <3>1 DEF OwnInv, FramesOwned, Live
  <2>12. KillProgress'
    <3> SUFFICES ASSUME NEW g \in Frames, g < f + 1
                 PROVE  ft'.ipt[g].pid # th[a].pid
      BY <2>1, <2>2 DEF KillProgress
    <3>1. g = f \/ g < f
      BY <2>1, SizesAssumption DEF Frames
    <3>2. CASE g < f
      <4>1. ft.ipt[g].pid # th[a].pid
        BY <2>6, <3>2 DEF OwnInv, KillProgress
      <4> QED BY <2>1, <2>3, <2>4, <4>1
    <3> QED BY <2>5, <3>1, <3>2
  <2>13. StoreMap'
    BY <2>1 DEF OwnInv, StoreMap, Has, StoreIdx, Live
  <2>14. Counted => Counted'
    <3>1. \A b \in Creators : th'[b] = th[b] \/ th'[b].pc = "kill"
      BY <2>1, <2>2, Kinds
    <3>2. Counted => \A b \in Creators : Reserved(th[b])'
      BY <2>1, <3>1 DEF Counted, Reserved, Creation, SlotFree
    <3>3. Unallocated' = Unallocated
      BY <2>1 DEF Unallocated
    <3> QED BY <2>1, <3>2, <3>3 DEF Counted, Live, StoreIdx
  <2> QED BY <2>9, <2>10, <2>11, <2>12, <2>13, <2>14 DEF OwnInv
<1> QED BY <1>1, <1>2

\* The facts about the process table after the end of kill.
LEMMA DeadFacts ==
  ASSUME IInv, NEW a \in Actors, FinishKill(a)
  PROVE  LET p == th[a].pid
         IN  /\ \A q \in Procs : Live(q)' <=> (Live(q) /\ q # p)
             /\ \A q \in Procs : SlotFree(q) => SlotFree(q)'
             /\ \A q \in Procs : \A k, s : Has(q, k, s)' <=> (Has(q, k, s) /\ q # p)
<1> DEFINE p == th[a].pid
<1>1. /\ p \in Procs /\ proc'[p] = [proc[p] EXCEPT !.prstate = "free"]
      /\ \A q \in Procs : q # p => proc'[q] = proc[q]
  BY FinishKillEffect
<1>2. proc'[p].prstate = "free"
  BY <1>1 DEF IInv, TypeOK
<1> HIDE DEF p
<1>3. \A q \in Procs : Live(q)' <=> (Live(q) /\ q # p)
  BY <1>1, <1>2 DEF Live
<1>4. \A q \in Procs : SlotFree(q) => SlotFree(q)'
  BY <1>1, <1>2 DEF SlotFree
<1>5. \A q \in Procs : \A k, s : Has(q, k, s)' <=> (Has(q, k, s) /\ q # p)
  BY <1>1, <1>3 DEF Has, StoreIdx
<1> QED BY <1>3, <1>4, <1>5 DEF p

\* A store belongs to a process exactly when it is one of StoresOf.
LEMMA StoresOfHas ==
  ASSUME IInv, NEW p \in Procs, Live(p), NEW s
  PROVE  s \in StoresOf(p) <=> \E k \in Stores : Has(p, k, s)
<1>1. proc[p].hsize \in 0 .. MAXHEAP
  BY DEF IInv, TypeOK
<1>2. bsReq(proc[p].hsize) \in 0 .. MAX_BS_ENTRIES
  BY <1>1, BsReqBound
<1>3. StoreIdx(p) \subseteq Stores
  BY <1>2, SizesAssumption DEF StoreIdx, Stores
<1> QED BY <1>3 DEF StoresOf, Has, StoreIdx

\* kill ends: what belonged to the process is free, and nothing else is.
LEMMA FinishKillOwn ==
  ASSUME IInv, OwnInv, NEW a \in Actors, FinishKill(a)
  PROVE  OwnInv'
<1> DEFINE p == th[a].pid
<1>1. /\ At(a, "kill") /\ th[a].i = NFRAMES /\ p \in Procs
      /\ bstab' = [s \in Stores |-> IF s \in StoresOf(p)
                                    THEN [isallocated |-> FALSE, npages |-> 0]
                                    ELSE bstab[s]]
      /\ th'[a] = Idle /\ th'[p] = Idle
      /\ \A b \in Actors : b # a /\ b # p => th'[b] = th[b]
      /\ UNCHANGED ft
  BY FinishKillEffect
<1>2. th[a].pc = "kill" /\ Live(p)
  BY <1>1 DEF OwnInv, KillAlone, At
<1>3. \A b \in Actors : th'[b] \in {th[b], Idle} /\ th'[b].pc \notin {"scan", "evict", "init", "kill"}
  <2>1. \A b \in Actors : b # a => th[b].pc \notin {"scan", "evict", "init", "kill"}
    BY <1>1, AloneFacts DEF OwnInv, At
  <2> QED BY <1>1, <2>1, IdleFields
<1>4. KillAlone' /\ KillProgress'
  BY <1>3 DEF KillAlone, KillProgress
<1>5. Roles'
  BY <1>3, IdleFields DEF OwnInv, Roles, RoleOK, Handling
<1> HIDE DEF p
<1>6. FramesOwned'
  <2> SUFFICES ASSUME NEW f \in Frames, ft.ipt[f].pid \in Procs
               PROVE  \/ Live(ft.ipt[f].pid)'
                      \/ \E b \in Creators : th'[b].pc = "init_pd" /\ th'[b].pid = ft.ipt[f].pid
    BY <1>1 DEF FramesOwned, Live
  <2>1. ft.ipt[f].pid # p
    <3>1. f < NFRAMES
      BY SizesAssumption DEF Frames
    <3> QED BY <1>1, <1>2, <3>1 DEF OwnInv, KillProgress, p
  <2>2. Live(ft.ipt[f].pid) => Live(ft.ipt[f].pid)'
    BY <1>1, <2>1, DeadFacts DEF p
  <2>3. \A b \in Creators : th[b].pc = "init_pd" => th'[b] = th[b]
    BY <1>1, <1>2, Kinds
  <2> QED BY <2>2, <2>3 DEF OwnInv, FramesOwned
<1>7. StoreMap'
  <2>1. \A q \in Procs : \A k, s : Has(q, k, s)' <=> (Has(q, k, s) /\ q # p)
    BY DeadFacts DEF p
  <2>2. \A s \in Stores : bstab'[s].isallocated <=> (bstab[s].isallocated /\ s \notin StoresOf(p))
    BY <1>1 DEF IInv, TypeOK
  <2>3. \A s : s \in StoresOf(p) <=> \E k \in Stores : Has(p, k, s)
    BY <1>1, <1>2, StoresOfHas
  <2>4. \A q \in Procs, k \in Stores, s \in Stores : Has(q, k, s)' => bstab'[s].isallocated
    BY <1>1, <2>1, <2>2, <2>3 DEF OwnInv, StoreMap
  <2>5. \A q, r \in Procs, k, l \in Stores, s \in Stores :
          Has(q, k, s)' /\ Has(r, l, s)' => q = r /\ k = l
    BY <2>1 DEF OwnInv, StoreMap
  <2>6. \A s \in Stores : bstab'[s].isallocated => \E q \in Procs, k \in Stores : Has(q, k, s)'
    BY <2>1, <2>2, <2>3 DEF OwnInv, StoreMap
  <2> QED BY <2>4, <2>5, <2>6 DEF StoreMap
<1> QED BY <1>4, <1>5, <1>6, <1>7 DEF OwnInv

-----------------------------------------------------------------------------
(* The end of vcreate. *)

\* The facts about the process table after the end of vcreate.
LEMMA BornFacts ==
  ASSUME IInv, NEW a \in Creators, FinishVcreate(a), ~Still
  PROVE  LET p == th[a].pid
             h == th[a].h
         IN  /\ p \in Procs /\ h \in 0 .. MAXHEAP /\ ~Live(p)
             /\ \A q \in Procs : Live(q)' <=> (Live(q) \/ q = p)
             /\ \A q \in Procs : \A k, s :
                  Has(q, k, s)' <=> IF q = p THEN k \in 0 .. bsReq(h) - 1 /\ pbsdFor(h)[k] = s
                                             ELSE Has(q, k, s)
             /\ \A s \in Stores : bstab'[s].isallocated <=>
                  (bstab[s].isallocated \/ (s \in Unallocated /\ Rank(s) < bsReq(h)))
<1> DEFINE p == th[a].pid
           h == th[a].h
<1>1. /\ p \in Procs /\ h \in 0 .. MAXHEAP /\ SlotFree(p)
      /\ proc'[p] = [prstate |-> "live", hsize |-> h, pbsd |-> pbsdFor(h)]
      /\ \A q \in Procs : q # p => proc'[q] = proc[q]
      /\ bstab' = bstabFor(h)
  BY FinishVcreateEffect
<1>2. \A q \in Procs : q = p => /\ proc'[q].prstate = "live" /\ proc'[q].hsize = h
                                /\ proc'[q].pbsd = pbsdFor(h)
  BY <1>1
<1> HIDE DEF p, h
<1>3. ~Live(p) /\ \A q \in Procs : Live(q)' <=> (Live(q) \/ q = p)
  BY <1>1, <1>2 DEF Live, SlotFree
<1>4. \A q \in Procs : \A k, s :
        Has(q, k, s)' <=> IF q = p THEN k \in 0 .. bsReq(h) - 1 /\ pbsdFor(h)[k] = s
                                   ELSE Has(q, k, s)
  <2> SUFFICES ASSUME NEW q \in Procs, NEW k, NEW s
               PROVE  Has(q, k, s)' <=> IF q = p THEN k \in 0 .. bsReq(h) - 1 /\ pbsdFor(h)[k] = s
                                                 ELSE Has(q, k, s)
    OBVIOUS
  <2>1. CASE q = p
    BY <1>2, <1>3, <2>1 DEF Has, StoreIdx, bsReq
  <2>2. CASE q # p
    BY <1>1, <2>2 DEF Has, StoreIdx, Live
  <2> QED BY <2>1, <2>2
<1>5. \A s \in Stores : bstab'[s].isallocated <=>
        (bstab[s].isallocated \/ (s \in Unallocated /\ Rank(s) < bsReq(h)))
  BY <1>1 DEF bstabFor, IInv, TypeOK
<1> QED BY <1>1, <1>3, <1>4, <1>5 DEF p, h

\* vcreate ends: the new process owns what it has been given.
LEMMA FinishVcreateOwn ==
  ASSUME IInv, OwnInv, NEW a \in Creators, FinishVcreate(a)
  PROVE  OwnInv'
<1> DEFINE p == th[a].pid
           h == th[a].h
           n == bsReq(h)
<1>1. CASE Still
  BY <1>1, StillOwn
<1>2. CASE ~Still
  <2>1. /\ At(a, "init_pd") /\ p \in Procs
        /\ th'[a] = Idle /\ th'[p] = Idle
        /\ \A b \in Actors : b # a /\ b # p => th'[b] = th[b]
        /\ UNCHANGED ft
    BY <1>2, FinishVcreateEffect
  <2>2. /\ p \in Procs /\ h \in 0 .. MAXHEAP /\ ~Live(p)
        /\ \A q \in Procs : Live(q)' <=> (Live(q) \/ q = p)
        /\ \A q \in Procs : \A k, s :
             Has(q, k, s)' <=> IF q = p THEN k \in 0 .. n - 1 /\ pbsdFor(h)[k] = s
                                        ELSE Has(q, k, s)
        /\ \A s \in Stores : bstab'[s].isallocated <=>
             (bstab[s].isallocated \/ (s \in Unallocated /\ Rank(s) < n))
    BY <1>2, BornFacts
  <2>3. \A b \in Actors : th'[b] \in {th[b], Idle} /\ th'[b].pc \notin {"scan", "evict", "init", "kill"}
    <3>1. a \in Actors
      BY Kinds
    <3>2. \A b \in Actors : b # a => th[b].pc \notin {"scan", "evict", "init", "kill"}
      BY <2>1, <3>1, AloneFacts DEF OwnInv, At
    <3> QED BY <2>1, <3>2, IdleFields
  <2>4. KillAlone' /\ KillProgress'
    BY <2>3 DEF KillAlone, KillProgress
  <2>5. Roles'
    BY <2>3, IdleFields DEF OwnInv, Roles, RoleOK, Handling
  <2>6. FramesOwned'
    <3> SUFFICES ASSUME NEW f \in Frames, NEW q \in Procs, ft.ipt[f].pid = q
                 PROVE  Live(q)' \/ \E b \in Creators : th'[b].pc = "init_pd" /\ th'[b].pid = q
      BY <2>1 DEF FramesOwned, Live
    <3>1. \A b \in Creators : b # a => th'[b] = th[b]
      BY <2>1, Kinds
    <3> QED BY <2>2, <3>1 DEF OwnInv, FramesOwned
  <2>7. StoreMap'
    <3>1. n \in 0 .. MAX_BS_ENTRIES /\ \A k \in 0 .. n - 1 : k \in Stores /\ k < n
      BY <2>2, BsReqBound, SizesAssumption DEF Stores
    <3> HIDE DEF p, h, n
    <3>2. \A k \in 0 .. n - 1, s \in Stores : pbsdFor(h)[k] = s => s \in Unallocated /\ Rank(s) = k
      BY <2>2, <3>1, MapFacts DEF n
    <3>3. \A s \in Stores : s \in Unallocated <=> ~bstab[s].isallocated
      BY DEF Unallocated
    <3>4. \A q \in Procs, k \in Stores, s \in Stores : Has(q, k, s)' => bstab'[s].isallocated
      BY <2>2, <3>1, <3>2 DEF OwnInv, StoreMap
    <3>5. \A q, r \in Procs, k, l \in Stores, s \in Stores :
            Has(q, k, s)' /\ Has(r, l, s)' => q = r /\ k = l
      BY <2>2, <3>2, <3>3 DEF OwnInv, StoreMap
    <3>6. \A s \in Stores : bstab'[s].isallocated => \E q \in Procs, k \in Stores : Has(q, k, s)'
      <4> SUFFICES ASSUME NEW s \in Stores, bstab'[s].isallocated
                   PROVE  \E q \in Procs, k \in Stores : Has(q, k, s)'
        OBVIOUS
      <4>1. CASE bstab[s].isallocated
        <5>1. PICK q \in Procs, k \in Stores : Has(q, k, s)
          BY <4>1 DEF OwnInv, StoreMap
        <5>2. q # p
          BY <2>2, <5>1 DEF Has
        <5> QED BY <2>2, <5>1, <5>2
      <4>2. CASE s \in Unallocated /\ Rank(s) < n
        <5>1. Rank(s) \in Nat
          BY RankType
        <5>2. Rank(s) \in 0 .. n - 1
          BY <3>1, <4>2, <5>1
        <5>3. pbsdFor(h)[Rank(s)] = s
          BY <2>2, <3>1, <4>2, <5>2, MapFacts DEF n
        <5> QED BY <2>2, <3>1, <5>2, <5>3
      <4> QED BY <2>2, <4>1, <4>2
    <3> QED BY <3>4, <3>5, <3>6 DEF StoreMap
  <2> QED BY <2>4, <2>5, <2>6, <2>7 DEF OwnInv
<1> QED BY <1>1, <1>2

-----------------------------------------------------------------------------
(* The count of free stores. *)

\* A count that went below zero and back wraps to where it was.
LEMMA WordRemainder ==
  ASSUME NEW z \in 0 .. WORD - 1
  PROVE  z % WORD = z /\ (z + WORD) % WORD = z
<1>1. WORD \in Nat /\ WORD > 0
  BY SizesAssumption
<1>2. z % WORD = z
  BY <1>1
<1>3. (z + WORD) % WORD = z
  BY <1>1
<1> QED BY <1>2, <1>3

\* The stores of a process are as many as its heap needs.
LEMMA StoresOfCount ==
  ASSUME IInv, OwnInv, Counted, NEW p \in Procs, Live(p)
  PROVE  /\ StoresOf(p) \subseteq Stores /\ StoresOf(p) \cap Unallocated = {}
         /\ IsFiniteSet(StoresOf(p)) /\ Cardinality(StoresOf(p)) = bsReq(proc[p].hsize)
<1> DEFINE n == bsReq(proc[p].hsize)
           T == 0 .. n - 1
           S == StoresOf(p)
           g == [k \in T |-> proc[p].pbsd[k]]
<1>1. proc[p].hsize \in 0 .. MAXHEAP
  BY DEF IInv, TypeOK
<1>2. n \in 0 .. MAX_BS_ENTRIES
  BY <1>1, BsReqBound
<1>3. T \subseteq Stores /\ IsFiniteSet(T) /\ Cardinality(T) = n
  <2>1. n \in Nat /\ n <= MAX_BS_ENTRIES /\ MAX_BS_ENTRIES \in Nat
    BY <1>2, SizesAssumption
  <2> HIDE DEF n
  <2>2. T \subseteq Stores
    BY <2>1 DEF Stores
  <2>3. 0 \in Int /\ n - 1 \in Int /\ (0 > n - 1 => n = 0)
    BY <2>1
  <2>4. IsFiniteSet(T) /\ Cardinality(T) = IF 0 > n - 1 THEN 0 ELSE n - 1 - 0 + 1
    BY <2>3, FS_Interval
  <2> QED BY <2>1, <2>2, <2>3, <2>4
<1>4. \A k \in T : Has(p, k, proc[p].pbsd[k]) /\ proc[p].pbsd[k] \in Stores
  BY DEF Has, StoreIdx, Counted
<1>5. S = {proc[p].pbsd[k] : k \in T}
  BY DEF StoresOf
<1> HIDE DEF n, T, S
<1>6. S \subseteq Stores
  BY <1>4, <1>5
<1>7. S \cap Unallocated = {}
  BY <1>3, <1>4, <1>5 DEF OwnInv, StoreMap, Unallocated
<1>8. g \in Injection(T, S) /\ g \in Surjection(T, S)
  <2>1. g \in [T -> S]
    BY <1>5
  <2>2. \A k, l \in T : g[k] = g[l] => k = l
    BY <1>3, <1>4 DEF OwnInv, StoreMap
  <2>3. \A s \in S : \E k \in T : g[k] = s
    BY <1>5
  <2> HIDE DEF g
  <2> QED BY <2>1, <2>2, <2>3 DEF Injection, IsInjective, Surjection
<1> HIDE DEF g
<1>9. IsFiniteSet(S) /\ Cardinality(S) = Cardinality(T)
  BY <1>3, <1>8, FS_Surjection
<1> QED BY <1>3, <1>6, <1>7, <1>9 DEF n, S

\* kill gives the stores back to the count.
LEMMA FinishKillCounted ==
  ASSUME IInv, OwnInv, Counted, NEW a \in Actors, FinishKill(a)
  PROVE  Counted'
<1> DEFINE p == th[a].pid
           n == bsReq(proc[p].hsize)
           S == StoresOf(p)
           U == Unallocated
<1>1. /\ At(a, "kill") /\ p \in Procs
      /\ bstab' = [s \in Stores |-> IF s \in S
                                    THEN [isallocated |-> FALSE, npages |-> 0]
                                    ELSE bstab[s]]
      /\ free_bs_count' = (free_bs_count + n) % WORD
      /\ \A q \in Procs : q # p => proc'[q] = proc[q]
      /\ th'[a] = Idle /\ th'[p] = Idle
      /\ \A b \in Actors : b # a /\ b # p => th'[b] = th[b]
  BY FinishKillEffect
<1>2. Live(p)
  BY <1>1 DEF OwnInv, KillAlone, At
<1>3. /\ S \subseteq Stores /\ S \cap U = {}
      /\ IsFiniteSet(S) /\ Cardinality(S) = n
  BY <1>1, <1>2, StoresOfCount
<1>4. Unallocated' = U \cup S
  BY <1>1, <1>3 DEF Unallocated
<1>5. IsFiniteSet(U) /\ IsFiniteSet(Stores) /\ Cardinality(Stores) = MAX_BS_ENTRIES
  BY UnallocatedFinite
<1>6. Cardinality(U) \in Nat /\ n \in Nat
  BY <1>3, <1>5, FS_CardinalityType
<1>7. Cardinality(U \cup S) = Cardinality(U) + n
  <2> HIDE DEF S, U, n
  <2>1. Cardinality(S \cup U) = Cardinality(S) + Cardinality(U) - Cardinality(S \cap U)
    BY <1>3, <1>5, FS_Union
  <2>2. Cardinality(S \cap U) = 0 /\ S \cup U = U \cup S
    BY <1>3, FS_EmptySet
  <2> QED BY <1>3, <1>6, <2>1, <2>2
<1>8. Cardinality(U \cup S) <= MAX_BS_ENTRIES
  <2>1. U \cup S \in SUBSET Stores
    BY <1>3 DEF Unallocated
  <2> HIDE DEF S, U
  <2> QED BY <1>5, <2>1, FS_Subset
<1>9. free_bs_count = Cardinality(U)
  BY DEF Counted
<1>10. free_bs_count' = Cardinality(U) + n
  <2> DEFINE z == Cardinality(U) + n
  <2>1. z \in 0 .. WORD - 1
    <3> HIDE DEF n, U, S
    <3> QED BY <1>6, <1>7, <1>8, SizesAssumption
  <2>2. free_bs_count' = z % WORD
    BY <1>1, <1>9
  <2> HIDE DEF z
  <2>3. free_bs_count' = z
    BY <2>1, <2>2, WordRemainder
  <2> QED BY <2>3 DEF z
<1>11. \A q \in Procs : Live(q)' => \A k \in StoreIdx(q)' : proc'[q].pbsd[k] \in Stores
  <2>1. \A q \in Procs : Live(q)' => q # p /\ Live(q)
    BY DeadFacts
  <2> QED BY <1>1, <2>1 DEF Counted, StoreIdx
<1>12. \A b \in Creators : Reserved(th[b])'
  <2> SUFFICES ASSUME NEW b \in Creators, th'[b].pc \in Creation
               PROVE  bsReq(th'[b].h) <= free_bs_count' /\ proc'[th'[b].pid].prstate = "free"
    BY DEF Reserved, SlotFree
  <2>1. th'[b] = th[b] /\ b # a /\ b # p /\ b \in Actors
    BY <1>1, IdleFields, Kinds DEF Creation
  <2>2. bsReq(th[b].h) <= free_bs_count /\ SlotFree(th[b].pid)
    BY <2>1 DEF Counted, Reserved
  <2>3. th[b].pid \in Procs /\ th[b].h \in Nat
    <3>1. th[b] \in Thread /\ th[b].pc # "user"
      BY <2>1, <1>1 DEF IInv, TypeOK, Creation
    <3>2. th[b].h \in 0 .. MAXHEAP
      BY <3>1 DEF Thread
    <3> QED BY <3>1, <3>2, SizesAssumption DEF IInv, LocalsOK
  <2>4. proc'[th'[b].pid].prstate = "free"
    <3>1. \A q \in Procs : SlotFree(q) => SlotFree(q)'
      BY DeadFacts
    <3>2. \A q \in Procs : SlotFree(q)' => proc'[q].prstate = "free"
      BY DEF SlotFree
    <3> QED BY <2>1, <2>2, <2>3, <3>1, <3>2
  <2>5. bsReq(th[b].h) \in Int
    BY <2>3, IndexType
  <2> HIDE DEF n, U
  <2> QED BY <1>6, <1>9, <1>10, <2>1, <2>2, <2>4, <2>5
<1> HIDE DEF n, U, S
<1> QED BY <1>4, <1>7, <1>10, <1>11, <1>12 DEF Counted

\* One process at a time calls vcreate.
OneCreator == \A a, b \in Creators : a = b

\* vcreate takes the stores it has checked for off the count.
LEMMA FinishVcreateCounted ==
  ASSUME OneCreator, IInv, Counted, NEW a \in Creators, FinishVcreate(a)
  PROVE  Counted'
<1> DEFINE p == th[a].pid
           h == th[a].h
           n == bsReq(h)
           U == Unallocated
           A == {s \in U : Rank(s) < n}
<1>1. CASE Still
  BY <1>1, StillOwn
<1>2. CASE ~Still
  <2>1. /\ At(a, "init_pd") /\ th'[a] = Idle
        /\ free_bs_count' = (free_bs_count + WORD - n) % WORD
        /\ proc'[p] = [prstate |-> "live", hsize |-> h, pbsd |-> pbsdFor(h)]
        /\ \A q \in Procs : q # p => proc'[q] = proc[q]
    BY <1>2, FinishVcreateEffect
  <2>2. /\ p \in Procs /\ h \in 0 .. MAXHEAP
        /\ \A q \in Procs : Live(q)' <=> (Live(q) \/ q = p)
        /\ \A s \in Stores : bstab'[s].isallocated <=>
             (bstab[s].isallocated \/ (s \in U /\ Rank(s) < n))
    BY <1>2, BornFacts
  <2>3. n <= free_bs_count /\ free_bs_count = Cardinality(U)
    BY <2>1 DEF Counted, Reserved, Creation, At
  <2>4. n \in Nat /\ n <= MAX_BS_ENTRIES
    BY <2>2, BsReqBound
  <2>5. IsFiniteSet(U) /\ Cardinality(U) \in 0 .. MAX_BS_ENTRIES
    BY UnallocatedFinite
  <2>6. IsFiniteSet(A) /\ Cardinality(A) = n /\ A \subseteq U
    BY <2>3, <2>4, TakenStores
  <2>7. Unallocated' = U \ A
    BY <2>2 DEF Unallocated
  <2>8. Cardinality(U \ A) = Cardinality(U) - n
    <3> HIDE DEF U, A, n
    <3>1. U \ A \in SUBSET U /\ A \cap (U \ A) = {} /\ A \cup (U \ A) = U
      BY <2>6
    <3>2. IsFiniteSet(U \ A)
      BY <2>5, <3>1, FS_Subset
    <3>3. Cardinality(U) = Cardinality(A) + Cardinality(U \ A) - Cardinality({})
      BY <2>6, <3>1, <3>2, FS_Union
    <3>4. Cardinality({}) = 0 /\ Cardinality(U \ A) \in Nat
      BY <3>2, FS_EmptySet, FS_CardinalityType
    <3> QED BY <2>4, <2>5, <2>6, <3>3, <3>4
  <2>9. free_bs_count' = Cardinality(U) - n
    <3> DEFINE z == Cardinality(U) - n
    <3>1. z \in 0 .. WORD - 1
      <4> HIDE DEF U, n
      <4> QED BY <2>3, <2>4, <2>5, SizesAssumption
    <3>2. free_bs_count + WORD - n = z + WORD
      <4> HIDE DEF U, n
      <4> QED BY <2>3, <2>4, <2>5, SizesAssumption
    <3>3. free_bs_count' = (z + WORD) % WORD
      BY <2>1, <3>2
    <3> HIDE DEF z
    <3>4. free_bs_count' = z
      BY <3>1, <3>3, WordRemainder
    <3> QED BY <3>4 DEF z
  <2>10. \A k \in 0 .. n - 1 : pbsdFor(h)[k] \in Stores
    <3> SUFFICES ASSUME NEW k \in 0 .. n - 1 PROVE pbsdFor(h)[k] \in Stores
      OBVIOUS
    <3>1. k \in Stores /\ k < n
      <4> HIDE DEF n
      <4> QED BY <2>4, SizesAssumption DEF Stores
    <3>2. k < Cardinality(U)
      <4> HIDE DEF n, U
      <4> QED BY <2>3, <2>4, <2>5, <3>1
    <3> QED BY <2>2, <3>1, <3>2, MapFacts
  <2>11. \A q \in Procs : Live(q)' => \A k \in StoreIdx(q)' : proc'[q].pbsd[k] \in Stores
    <3> SUFFICES ASSUME NEW q \in Procs, Live(q)', NEW k \in StoreIdx(q)'
                 PROVE  proc'[q].pbsd[k] \in Stores
      OBVIOUS
    <3> HIDE DEF p, h, n
    <3>1. CASE q = p
      <4>1. proc'[q].hsize = h /\ proc'[q].pbsd = pbsdFor(h)
        BY <2>1, <3>1
      <4>2. k \in 0 .. n - 1
        BY <4>1 DEF StoreIdx, n, bsReq
      <4> QED BY <2>10, <4>1, <4>2
    <3>2. CASE q # p
      BY <2>1, <2>2, <3>2 DEF Counted, StoreIdx
    <3> QED BY <3>1, <3>2
  <2>12. \A b \in Creators : Reserved(th[b])'
    BY <2>1, IdleFields DEF OneCreator, Reserved, Creation
  <2> HIDE DEF n, U, A
  <2> QED BY <2>7, <2>8, <2>9, <2>11, <2>12 DEF Counted
<1> QED BY <1>1, <1>2

-----------------------------------------------------------------------------
(* The theorems. *)

\* At boot no process, no store and no frame of a process exists.
LEMMA InitOwn == Init => OwnInv /\ Counted
<1> SUFFICES ASSUME Init PROVE OwnInv /\ Counted
  OBVIOUS
<1>1. /\ \A a \in Actors : th[a] = Idle
      /\ \A p \in Procs : proc[p].prstate = "free"
      /\ \A s \in Stores : ~bstab[s].isallocated
      /\ \A f \in Frames : ft.ipt[f].pid \notin Procs
  <2>1. \A f \in Frames : BootFrame(f).pid \notin Procs
    BY SizesAssumption DEF BootFrame, Cleared, Procs, GLOBAL, NULLPROC, NO_PROCESS
  <2> QED BY <2>1 DEF Init
<1>2. KillAlone /\ Roles /\ KillProgress /\ FramesOwned
  BY <1>1, IdleFields DEF KillAlone, Roles, RoleOK, Handling, KillProgress, FramesOwned
<1>3. \A p \in Procs : ~Live(p)
  BY <1>1 DEF Live
<1>4. StoreMap
  BY <1>1, <1>3 DEF StoreMap, Has
<1>5. Unallocated = Stores
  BY <1>1 DEF Unallocated
<1>6. free_bs_count = Cardinality(Unallocated)
  BY <1>5, UnallocatedFinite DEF Init
<1>7. \A a \in Creators : Reserved(th[a])
  BY <1>1, IdleFields, Kinds DEF Reserved, Creation
<1> QED BY <1>2, <1>3, <1>4, <1>6, <1>7 DEF OwnInv, Counted

\* Every step keeps the invariant when kill does not race with a fault.
LEMMA StepOwn == ~KillRaces /\ IInv /\ OwnInv /\ [Next]_vars => OwnInv'
<1> SUFFICES ASSUME ~KillRaces, IInv, OwnInv, [Next]_vars PROVE OwnInv'
  OBVIOUS
<1>1. ASSUME NEW p \in Procs, Access(p) \/ Retry(p) \/ FaultStep(p) PROVE OwnInv'
  BY <1>1, FaultWalk, WalkOwn, StillOwn, Kinds
<1>2. ASSUME NEW a \in Actors, FrameStep(a) PROVE OwnInv'
  BY <1>2, FrameWalk, WalkOwn, StillOwn
<1>3. ASSUME NEW a \in Actors, KillStep(a) PROVE OwnInv'
  BY <1>3, KillFrameOwn, FinishKillOwn DEF KillStep
<1>4. ASSUME NEW a \in Actors, NEW p \in Procs, Kill(a, p) PROVE OwnInv'
  BY <1>4, KillOwn
<1>5. ASSUME NEW a \in Creators, Vcreate(a) \/ CreateStep(a) \/ srpolicy(a) PROVE OwnInv'
  <2>1. CASE FinishVcreate(a)
    BY <2>1, FinishVcreateOwn
  <2> QED BY <1>5, <2>1, CreateWalk, WalkOwn, StillOwn, Kinds DEF CreateStep
<1>6. CASE UNCHANGED vars
  BY <1>6, StillOwn DEF vars, Still
<1>7. CASE Next
  BY <1>1, <1>2, <1>3, <1>4, <1>5, <1>7, Zenon DEF Next
<1> QED BY <1>6, <1>7

\* With one creator, every step keeps the count.
LEMMA StepCounted == OneCreator /\ ~KillRaces /\ IInv /\ OwnInv /\ Counted /\ [Next]_vars => Counted'
<1> SUFFICES ASSUME OneCreator, ~KillRaces, IInv, OwnInv, Counted, [Next]_vars PROVE Counted'
  OBVIOUS
<1>1. ASSUME NEW p \in Procs, Access(p) \/ Retry(p) \/ FaultStep(p) PROVE Counted'
  BY <1>1, FaultWalk, WalkCounted, StillOwn, Kinds
<1>2. ASSUME NEW a \in Actors, FrameStep(a) PROVE Counted'
  BY <1>2, FrameWalk, WalkCounted, StillOwn
<1>3. ASSUME NEW a \in Actors, KillStep(a) PROVE Counted'
  BY <1>3, KillFrameOwn, FinishKillCounted DEF KillStep
<1>4. ASSUME NEW a \in Actors, NEW p \in Procs, Kill(a, p) PROVE Counted'
  BY <1>4, KillOwn
<1>5. ASSUME NEW a \in Creators, Vcreate(a) \/ CreateStep(a) \/ srpolicy(a) PROVE Counted'
  <2>1. CASE FinishVcreate(a)
    BY <2>1, FinishVcreateCounted
  <2> QED BY <1>5, <2>1, CreateWalk, WalkCounted, StillOwn, Kinds DEF CreateStep
<1>6. CASE UNCHANGED vars
  BY <1>6, StillOwn DEF vars, Still
<1>7. CASE Next
  BY <1>1, <1>2, <1>3, <1>4, <1>5, <1>7, Zenon DEF Next
<1> QED BY <1>6, <1>7

\* Ownership: kill, once begun, runs alone, no two heaps share a backing store,
\* and every frame and every allocated store has an owner, for any number of
\* processes that call vcreate at the same time.
THEOREM OwnershipCorrect == ASSUME ~KillRaces PROVE Spec => []OwnInv
<1>1. Init => IInv /\ OwnInv
  BY InitInv, InitOwn
<1>2. IInv /\ OwnInv /\ [Next]_vars => (IInv /\ OwnInv)'
  BY StepInv, StepOwn
<1>3. IInv /\ OwnInv => OwnInv
  OBVIOUS
<1> QED BY <1>1, <1>2, <1>3, PTL DEF Spec

\* The invariant implies the two properties.
LEMMA OwnImplies == IInv /\ OwnInv /\ Counted => StoreAccounting /\ NoLeak
<1> SUFFICES ASSUME IInv, OwnInv, Counted PROVE StoreAccounting /\ NoLeak
  OBVIOUS
<1>1. \A p \in Procs : \A s : Live(p) => (s \in StoresOf(p) <=> \E k \in Stores : Has(p, k, s))
  BY StoresOfHas
<1>2. \A p \in Procs : Live(p) => StoresOf(p) \subseteq Stores
  BY StoresOfCount
<1>3. \A p, q \in Procs : Live(p) /\ Live(q) /\ p # q => StoresOf(p) \cap StoresOf(q) = {}
  BY <1>1, <1>2 DEF OwnInv, StoreMap
<1>4. {s \in Stores : bstab[s].isallocated} = UNION {StoresOf(p) : p \in {q \in Procs : Live(q)}}
  <2>1. ASSUME NEW s \in Stores, bstab[s].isallocated
        PROVE  \E p \in Procs : Live(p) /\ s \in StoresOf(p)
    BY <1>1, <2>1 DEF OwnInv, StoreMap, Has
  <2>2. ASSUME NEW p \in Procs, Live(p), NEW s \in StoresOf(p)
        PROVE  s \in Stores /\ bstab[s].isallocated
    BY <1>1, <1>2, <2>2 DEF OwnInv, StoreMap
  <2> QED BY <2>1, <2>2
<1>5. \A f \in Frames : \A p \in Procs :
        ft.ipt[f].pid = p => Live(p) \/ \E a \in Creators : th[a].pid = p
  BY DEF OwnInv, FramesOwned
<1> QED BY <1>3, <1>4, <1>5 DEF StoreAccounting, NoLeak, Counted

\* free_bs_count is the number of stores that allocate_bs can still hand out
\* and no store belongs to two processes; and after a kill its frames and
\* stores are free: vcreate, called by one process at a time, and kill, of a
\* process outside the fault path, keep the backing store table and the
\* inverted page table in step with the process table.
THEOREM StoresCorrect ==
  ASSUME OneCreator, ~KillRaces
  PROVE  Spec => [](StoreAccounting /\ NoLeak)
<1>1. Init => IInv /\ OwnInv /\ Counted
  BY InitInv, InitOwn
<1>2. IInv /\ OwnInv /\ Counted /\ [Next]_vars => (IInv /\ OwnInv /\ Counted)'
  BY StepInv, StepOwn, StepCounted
<1> QED BY <1>1, <1>2, OwnImplies, PTL DEF Spec

\* free_bs_count tells vcreate what allocate_bs can still give, and the stores of
\* two processes are disjoint.
THEOREM StoreAccountingCorrect ==
  ASSUME OneCreator, ~KillRaces
  PROVE  Spec => []StoreAccounting
BY StoresCorrect, PTL

\* Whatever a process had, frames and stores, is free again once kill is done.
THEOREM NoLeakCorrect ==
  ASSUME OneCreator, ~KillRaces
  PROVE  Spec => []NoLeak
BY StoresCorrect, PTL
=============================================================================
