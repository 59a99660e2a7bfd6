---------------------------- MODULE PagingProofs ----------------------------
(***************************************************************************)
(* Proofs about Paging, for every number of processes, frames, pages and   *)
(* backing stores, with and without the races of kill and srpolicy.        *)
(***************************************************************************)
EXTENDS Paging, SequenceTheorems, FiniteSetTheorems, TLAPS

-----------------------------------------------------------------------------
(* The functions of the inverted page table return tables. *)

FrameOpt == Frames \cup {EMPTY}
FT == [ipt : [Frames -> FrameRec], flistHead : FrameOpt, flistTail : FrameOpt]
PidOpt == Procs \cup {GLOBAL, NO_PROCESS, NULLPROC}
VpnOpt == Pages \cup {NO_VPN}

\* clearFrame stores a well-formed entry.
LEMMA ClearedType == Cleared \in FrameRec
BY SizesAssumption DEF Cleared, FrameRec, Statuses, EMPTY

\* clearFrame keeps the table well formed.
LEMMA ClearFrameType ==
  ASSUME NEW t \in FT, NEW fr
  PROVE  clearFrame(t, fr) \in FT
BY ClearedType DEF clearFrame, FT

\* A link of one frame, the head and the tail can be set to any frame number
\* or EMPTY.
LEMMA LinkType ==
  ASSUME NEW t \in FT, NEW f, NEW g \in FrameOpt
  PROVE  /\ SetNext(t, f, g) \in FT
         /\ SetPrev(t, f, g) \in FT
         /\ SetHead(t, g) \in FT
         /\ SetTail(t, g) \in FT
BY SMTT(30) DEF FT, FrameRec, FrameOpt, SetNext, SetPrev, SetHead, SetTail

\* The links stored in a table are frame numbers or EMPTY.
LEMMA LinksOf ==
  ASSUME NEW t \in FT
  PROVE  /\ t.flistHead \in FrameOpt /\ t.flistTail \in FrameOpt
         /\ \A f \in Frames : /\ t.ipt[f].nextFrame \in FrameOpt
                              /\ t.ipt[f].prevFrame \in FrameOpt
BY DEF FT, FrameRec, FrameOpt

\* freeFrameFIFO keeps the table well formed, whichever of its four cases
\* applies.
LEMMA FreeFrameFIFOType ==
  ASSUME NEW t \in FT, NEW fr \in Frames
  PROVE  freeFrameFIFO(t, fr) \in FT
<1>1. EMPTY \in FrameOpt
  BY DEF FrameOpt
<1> QED BY <1>1, LinkType, LinksOf DEF freeFrameFIFO

\* freeFrame keeps the table well formed.
LEMMA FreeFrameType ==
  ASSUME NEW t \in FT, NEW policy, NEW fr \in Frames
  PROVE  freeFrame(t, policy, fr) \in FT
BY FreeFrameFIFOType, ClearFrameType DEF freeFrame

\* init_frame keeps the table well formed.
LEMMA InitFrameType ==
  ASSUME NEW t \in FT, NEW policy, NEW fr \in Frames, NEW type \in Statuses,
         NEW pid \in PidOpt, NEW vpn \in VpnOpt
  PROVE  init_frame(t, policy, fr, type, pid, vpn) \in FT
<1> DEFINE e == [Cleared EXCEPT !.status = type, !.pid = pid, !.vpn = vpn]
           u == [t EXCEPT !.ipt[fr] = e]
<1>1. e \in FrameRec
  BY ClearedType DEF FrameRec, PidOpt, VpnOpt, Cleared
<1>2. u \in FT
  BY <1>1 DEF FT
<1>3. init_frame_FIFO(u, fr) \in FT
  <2> HIDE DEF u
  <2>1. fr \in FrameOpt
    BY DEF FrameOpt
  <2> QED BY <1>2, <2>1, LinkType, LinksOf DEF init_frame_FIFO
<1> QED BY <1>2, <1>3 DEF init_frame

\* pickFrameFIFO keeps the table well formed.
LEMMA PickFrameType ==
  ASSUME NEW t \in FT, t.flistTail # EMPTY
  PROVE  pickFrameFIFO(t) \in FT
<1>1. EMPTY \in FrameOpt /\ t.flistTail \in Frames
  BY LinksOf DEF FrameOpt
<1> QED BY <1>1, LinkType, LinksOf DEF pickFrameFIFO

\* Arithmetic modulo WORD stays in a word.
LEMMA WordType ==
  ASSUME NEW n \in Int
  PROVE  n % WORD \in 0 .. WORD - 1
BY SizesAssumption

\* incRefCount and decRefCount keep the table well formed.
LEMMA IncRefCountType ==
  ASSUME NEW t \in FT, NEW f
  PROVE  incRefCount(t, f) \in FT
BY WordType, SizesAssumption DEF incRefCount, FT, FrameRec

\* decRefCount keeps the table well formed, also when it frees the frame.
LEMMA DecRefCountType ==
  ASSUME NEW t \in FT, NEW policy, NEW f \in Frames
  PROVE  decRefCount(t, policy, f) \in FT
<1> DEFINE u == [t EXCEPT !.ipt[f].refCount = (@ + WORD - 1) % WORD]
<1>1. u \in FT
  BY WordType, SizesAssumption DEF FT, FrameRec
<1> QED BY <1>1, FreeFrameType DEF decRefCount

-----------------------------------------------------------------------------
(* Types. *)

\* The inverted page table of TypeOK is one of the tables above.
LEMMA FTType == TypeOK <=> TypeOK /\ ft \in FT
BY DEF TypeOK, FT, FrameOpt

\* Indexes computed from a page number.
LEMMA IndexType ==
  /\ \A v \in Pages : vaddr2pdi(v) \in Tables
  /\ \A v \in Int : vaddr2pti(v) \in Slots
  /\ \A v \in Int : BsOff(v) \in 0 .. MAX_PAGES_PER_BS - 1
  /\ \A h \in Nat : bsReq(h) \in Int
  /\ \A f \in Frames : NextFrame(f) \in Frames
<1>1. \A v \in Pages : vaddr2pdi(v) \in Tables
  BY DEF vaddr2pdi, Tables
<1>2. \A v \in Int : vaddr2pti(v) \in Slots
  BY SizesAssumption DEF vaddr2pti, Slots
<1>3. \A v \in Int : BsOff(v) \in 0 .. MAX_PAGES_PER_BS - 1
  BY SizesAssumption DEF BsOff
<1>4. \A h \in Nat : bsReq(h) \in Int
  BY SizesAssumption DEF bsReq
<1>5. \A f \in Frames : NextFrame(f) \in Frames
  BY SizesAssumption DEF NextFrame, Frames
<1> QED BY <1>1, <1>2, <1>3, <1>4, <1>5

\* The locals of a process outside the kernel.
LEMMA IdleType ==
  /\ Idle \in Thread
  /\ \A l \in {"access", "pf"}, v \in Pages, w \in Values \cup {NOWRITE} :
       [Idle EXCEPT !.pc = l, !.v = v, !.w = w] \in Thread
  /\ [Idle EXCEPT !.pc = "exit"] \in Thread
  /\ \A p \in Procs : [Idle EXCEPT !.pc = "kill", !.pid = p] \in Thread
  /\ \A p \in Procs \cup {NO_PROCESS}, h \in 0 .. MAXHEAP :
       /\ [Idle EXCEPT !.pc = "alloc", !.type = "PDIR", !.pid = p, !.h = h] \in Thread
       /\ [Idle EXCEPT !.pc = "init_pd", !.pid = p, !.h = h] \in Thread
<1>1. Idle \in Thread
  BY SizesAssumption
     DEF Idle, Thread, Labels, Pages, Slots, Stores, Statuses, EMPTY, SYSERR, NOWRITE,
         NO_PROCESS, Frames
<1>2. \A l \in {"access", "pf"}, v \in Pages, w \in Values \cup {NOWRITE} :
       [Idle EXCEPT !.pc = l, !.v = v, !.w = w] \in Thread
  BY <1>1 DEF Thread, Labels
<1>3. [Idle EXCEPT !.pc = "exit"] \in Thread
  BY <1>1 DEF Thread, Labels
<1>4. \A p \in Procs : [Idle EXCEPT !.pc = "kill", !.pid = p] \in Thread
  BY <1>1 DEF Thread, Labels
<1>5. \A p \in Procs \cup {NO_PROCESS}, h \in 0 .. MAXHEAP :
       /\ [Idle EXCEPT !.pc = "alloc", !.type = "PDIR", !.pid = p, !.h = h] \in Thread
       /\ [Idle EXCEPT !.pc = "init_pd", !.pid = p, !.h = h] \in Thread
  BY <1>1, ZenonT(30) DEF Thread, Labels, Statuses
<1> QED BY <1>1, <1>2, <1>3, <1>4, <1>5

\* Zero is a value of every bounded local.
LEMMA ZeroType ==
  /\ 0 \in 0 .. 3 * NFRAMES + 1
  /\ 0 \in Slots /\ 0 \in Stores /\ 0 \in 0 .. MAX_PAGES_PER_BS - 1
BY SizesAssumption DEF Slots, Stores

\* Assigning one kernel local keeps the types of all.
LEMMA LocalType ==
  ASSUME NEW l \in Thread
  PROVE  /\ \A x \in Labels : [l EXCEPT !.pc = x] \in Thread
         /\ \A x \in Statuses : [l EXCEPT !.type = x] \in Thread
         /\ \A x \in Frames \cup {EMPTY} : /\ [l EXCEPT !.pt = x] \in Thread
                                          /\ [l EXCEPT !.fr = x] \in Thread
                                          /\ [l EXCEPT !.ept = x] \in Thread
         /\ \A x \in Slots : [l EXCEPT !.epti = x] \in Thread
         /\ \A x \in Stores \cup {SYSERR} : [l EXCEPT !.bsd = x] \in Thread
         /\ \A x \in 0 .. MAX_PAGES_PER_BS - 1 : [l EXCEPT !.off = x] \in Thread
         /\ \A x \in 0 .. 3 * NFRAMES + 1 : [l EXCEPT !.i = x] \in Thread
BY DEF Thread

\* The updates of kernel locals by the steps of a fault keep their types.
LEMMA LocalsType ==
  ASSUME NEW l \in Thread
  PROVE  /\ \A f \in Frames \cup {EMPTY} :
              /\ [l EXCEPT !.fr = f, !.pc = "init"] \in Thread
              /\ [l EXCEPT !.fr = f, !.pc = "evict"] \in Thread
              /\ [l EXCEPT !.pt = f, !.fr = EMPTY, !.type = "PAGE",
                           !.pc = "alloc", !.i = 0] \in Thread
         /\ [l EXCEPT !.pc = "scan", !.i = 0] \in Thread
         /\ [l EXCEPT !.pc = "init"] \in Thread
         /\ \A f \in Frames \cup {EMPTY}, j \in Slots, s \in Stores \cup {SYSERR},
               o \in 0 .. MAX_PAGES_PER_BS - 1 :
              [l EXCEPT !.pc = "write_bs", !.ept = f, !.epti = j, !.bsd = s, !.off = o] \in Thread
         /\ [l EXCEPT !.pc = "init", !.ept = EMPTY, !.epti = 0, !.bsd = 0, !.off = 0] \in Thread
         /\ \A f \in Frames \cup {EMPTY}, y \in {"PTAB", "PAGE"} :
              [l EXCEPT !.pc = "alloc", !.type = y, !.pt = f] \in Thread
         /\ \A s \in Stores \cup {SYSERR}, o \in 0 .. MAX_PAGES_PER_BS - 1 :
              [l EXCEPT !.pc = "read_bs", !.bsd = s, !.off = o, !.i = 0] \in Thread
         /\ l.i < 3 * NFRAMES + 1 => [l EXCEPT !.i = @ + 1] \in Thread
<1>1. \A x \in {"init", "evict", "alloc", "scan", "write_bs", "read_bs"} : x \in Labels
  BY DEF Labels
<1>2. "PTAB" \in Statuses /\ "PAGE" \in Statuses
  BY DEF Statuses
<1>3. l.i < 3 * NFRAMES + 1 => l.i + 1 \in 0 .. 3 * NFRAMES + 1
  BY SizesAssumption DEF Thread
<1> QED BY <1>1, <1>2, <1>3, ZeroType, LocalType

\* The updates of a page table entry keep its type.
LEMMA PTEType ==
  /\ NoPTE \in PTE
  /\ \A e \in PTE :
       /\ \A w : Touched(e, w) \in PTE
       /\ Aged(e) \in PTE
       /\ MarkAbsent(e) \in PTE
       /\ [e EXCEPT !.pt_dirty = 0, !.pt_avail = 0] \in PTE
       /\ \A f \in Frames : [e EXCEPT !.pt_pres = 1, !.pt_base = f] \in PTE
<1>1. NoPTE \in PTE
  BY DEF NoPTE, PTE
<1>2. ASSUME NEW e \in PTE, NEW w PROVE Touched(e, w) \in PTE
  BY DEF PTE, Touched
<1>3. ASSUME NEW e \in PTE PROVE Aged(e) \in PTE
  BY DEF PTE, Aged, UM
<1>4. ASSUME NEW e \in PTE PROVE MarkAbsent(e) \in PTE
  BY DEF PTE, MarkAbsent
<1>5. ASSUME NEW e \in PTE PROVE [e EXCEPT !.pt_dirty = 0, !.pt_avail = 0] \in PTE
  BY DEF PTE
<1>6. ASSUME NEW e \in PTE, NEW f \in Frames
      PROVE  [e EXCEPT !.pt_pres = 1, !.pt_base = f] \in PTE
  BY DEF PTE
<1> QED BY <1>1, <1>2, <1>3, <1>4, <1>5, <1>6

\* Assigning to one element keeps the type of a function, also of a
\* two-dimensional one.
LEMMA ElementType ==
  ASSUME NEW S, NEW T, NEW f \in [S -> T], NEW x, NEW e,
         x \in S => e \in T
  PROVE  [f EXCEPT ![x] = e] \in [S -> T]
OBVIOUS

\* The same for an element of an element.
LEMMA Element2Type ==
  ASSUME NEW S, NEW R, NEW T, NEW f \in [S -> [R -> T]], NEW x, NEW y, NEW e,
         x \in S /\ y \in R => e \in T
  PROVE  [f EXCEPT ![x][y] = e] \in [S -> [R -> T]]
OBVIOUS

\* So do the updates of one page table entry.
LEMMA TableType ==
  ASSUME NEW f \in [Frames -> [Slots -> PTE]], NEW t, NEW j
  PROVE  /\ \A w : [f EXCEPT ![t][j] = Touched(@, w)] \in [Frames -> [Slots -> PTE]]
         /\ [f EXCEPT ![t][j] = Aged(@)] \in [Frames -> [Slots -> PTE]]
         /\ [f EXCEPT ![t][j] = MarkAbsent(@)] \in [Frames -> [Slots -> PTE]]
         /\ [f EXCEPT ![t][j] = [@ EXCEPT !.pt_dirty = 0, !.pt_avail = 0]]
              \in [Frames -> [Slots -> PTE]]
         /\ \A g \in Frames : [f EXCEPT ![t][j] = [@ EXCEPT !.pt_pres = 1, !.pt_base = g]]
                              \in [Frames -> [Slots -> PTE]]
<1>1. t \in Frames /\ j \in Slots => f[t][j] \in PTE
  OBVIOUS
<1>2. ASSUME NEW e, t \in Frames /\ j \in Slots => e \in PTE
      PROVE  [f EXCEPT ![t][j] = e] \in [Frames -> [Slots -> PTE]]
  BY <1>2
<1>3. ASSUME NEW w
      PROVE  [f EXCEPT ![t][j] = Touched(@, w)] \in [Frames -> [Slots -> PTE]]
  <2>1. t \in Frames /\ j \in Slots => Touched(f[t][j], w) \in PTE
    BY <1>1, PTEType, Zenon
  <2> QED BY <2>1
<1>4. [f EXCEPT ![t][j] = Aged(@)] \in [Frames -> [Slots -> PTE]]
  <2>1. t \in Frames /\ j \in Slots => Aged(f[t][j]) \in PTE
    BY <1>1, PTEType, Zenon
  <2> QED BY <2>1
<1>5. [f EXCEPT ![t][j] = MarkAbsent(@)] \in [Frames -> [Slots -> PTE]]
  <2>1. t \in Frames /\ j \in Slots => MarkAbsent(f[t][j]) \in PTE
    BY <1>1, PTEType, Zenon
  <2> QED BY <2>1
<1>6. [f EXCEPT ![t][j] = [@ EXCEPT !.pt_dirty = 0, !.pt_avail = 0]]
        \in [Frames -> [Slots -> PTE]]
  <2> DEFINE e == [f[t][j] EXCEPT !.pt_dirty = 0, !.pt_avail = 0]
  <2>1. t \in Frames /\ j \in Slots => e \in PTE
    BY <1>1, PTEType, Zenon
  <2>2. [f EXCEPT ![t][j] = e] \in [Frames -> [Slots -> PTE]]
    <3> HIDE DEF e
    <3> QED BY <2>1
  <2> QED BY <2>2
<1>7. ASSUME NEW g \in Frames
      PROVE  [f EXCEPT ![t][j] = [@ EXCEPT !.pt_pres = 1, !.pt_base = g]]
               \in [Frames -> [Slots -> PTE]]
  <2> DEFINE e == [f[t][j] EXCEPT !.pt_pres = 1, !.pt_base = g]
  <2>1. t \in Frames /\ j \in Slots => e \in PTE
    BY <1>1, PTEType, Zenon
  <2>2. [f EXCEPT ![t][j] = e] \in [Frames -> [Slots -> PTE]]
    <3> HIDE DEF e
    <3> QED BY <2>1
  <2> QED BY <2>2
<1> QED BY <1>3, <1>4, <1>5, <1>6, <1>7, Zenon

\* So do the updates of one page directory entry.
LEMMA DirectoryType ==
  ASSUME NEW f \in [Procs -> [Tables -> PDE]], NEW q, NEW i
  PROVE  /\ [f EXCEPT ![q][i].pd_pres = 0] \in [Procs -> [Tables -> PDE]]
         /\ \A g \in Frames : [f EXCEPT ![q][i] = [pd_pres |-> 1, pd_base |-> g]]
                              \in [Procs -> [Tables -> PDE]]
         /\ [f EXCEPT ![q] = [k \in Tables |-> NoPDE]] \in [Procs -> [Tables -> PDE]]
<1>1. [f EXCEPT ![q][i].pd_pres = 0] \in [Procs -> [Tables -> PDE]]
  <2> DEFINE e == [f[q][i] EXCEPT !.pd_pres = 0]
  <2>1. q \in Procs /\ i \in Tables => e \in PDE
    BY DEF PDE
  <2>2. [f EXCEPT ![q][i] = e] \in [Procs -> [Tables -> PDE]]
    <3> HIDE DEF e
    <3> QED BY <2>1
  <2> QED BY <2>2
<1>2. ASSUME NEW g \in Frames
      PROVE  [f EXCEPT ![q][i] = [pd_pres |-> 1, pd_base |-> g]] \in [Procs -> [Tables -> PDE]]
  <2> DEFINE e == [pd_pres |-> 1, pd_base |-> g]
  <2>1. e \in PDE
    BY DEF PDE
  <2>2. [f EXCEPT ![q][i] = e] \in [Procs -> [Tables -> PDE]]
    <3> HIDE DEF e
    <3> QED BY <2>1
  <2> QED BY <2>2
<1>3. [f EXCEPT ![q] = [k \in Tables |-> NoPDE]] \in [Procs -> [Tables -> PDE]]
  <2>1. NoPDE \in PDE
    BY DEF NoPDE, PDE
  <2> QED BY <2>1
<1> QED BY <1>1, <1>2, <1>3, Zenon

\* So do the updates of the locals of one process.
LEMMA ThreadsType ==
  ASSUME NEW f \in [Actors -> Thread], NEW a \in Actors, NEW l \in Thread
  PROVE  f[a] \in Thread /\ [f EXCEPT ![a] = l] \in [Actors -> Thread]
OBVIOUS

\* wait and signal leave a semaphore with a queue of processes.
LEMMA WaitType ==
  ASSUME TypeOK, NEW a \in Actors, wait(a)
  PROVE  /\ pf_sem' \in [scount : Int, queue : Seq(Actors)]
         /\ cpu' \in Actors \cup {NOBODY}
BY DEF TypeOK, wait

\* signal leaves a semaphore with a queue of processes.
LEMMA SignalType ==
  ASSUME TypeOK, SemaphoreOK, signal
  PROVE  pf_sem' \in [scount : Int, queue : Seq(Actors)]
BY DEF TypeOK, SemaphoreOK, signal

USE DEF frameVars, tableVars, dataVars, storeVars, procVars

\* Stopping the kernel changes nothing else.
LEMMA StopType ==
  ASSUME TypeOK, NEW why \in {"panic", "wild", "dup_pid"}, Stop(why)
  PROVE  TypeOK'
BY DEF TypeOK, Stop

\* The MMU performs an access to a mapped page.
LEMMA PerformType ==
  ASSUME TypeOK, NEW p \in Procs, NEW v \in Pages, NEW w \in Values \cup {NOWRITE},
         Perform(p, v, w)
  PROVE  TypeOK'
<1>1. pt' \in [Frames -> [Slots -> PTE]]
  <2> DEFINE t == pd[p][vaddr2pdi(v)].pd_base
             j == vaddr2pti(v)
  <2>1. pt' = [pt EXCEPT ![t][j] = Touched(@, w)] /\ pt \in [Frames -> [Slots -> PTE]]
    BY DEF Perform, TypeOK
  <2> HIDE DEF t, j
  <2> QED BY <2>1, TableType, Zenon
<1>2. mem' \in [Frames -> Values] /\ val' \in [Procs -> [Pages -> Values]]
  BY DEF TypeOK, Perform
<1>3. th' \in [Actors -> Thread]
  BY IdleType DEF TypeOK, Perform
<1> QED BY <1>1, <1>2, <1>3 DEF TypeOK, Perform

\* The MMU raises a page fault and pf_handler calls wait(pf_sem).
LEMMA PageFaultType ==
  ASSUME TypeOK, NEW p \in Procs, NEW v \in Pages, NEW w \in Values \cup {NOWRITE},
         PageFault(p, v, w)
  PROVE  TypeOK'
<1>1. th' \in [Actors -> Thread]
  BY IdleType DEF TypeOK, PageFault
<1>2. p \in Actors /\ wait(p)
  BY DEF PageFault, Actors
<1> QED BY <1>1, <1>2, WaitType DEF TypeOK, PageFault

\* User mode: an access, or the repetition of one, keeps the types.
LEMMA UserType ==
  ASSUME TypeOK, NEW p \in Procs, Access(p) \/ Retry(p)
  PROVE  TypeOK'
<1>1. ASSUME Access(p) PROVE TypeOK'
  <2>1. PICK v \in 0 .. proc[p].hsize, w \in Values \cup {NOWRITE} :
          Perform(p, v, w) \/ PageFault(p, v, w)
    BY <1>1 DEF Access
  <2>2. v \in Pages
    BY SizesAssumption DEF TypeOK, Pages
  <2> QED BY <2>1, <2>2, PerformType, PageFaultType
<1>2. ASSUME Retry(p) PROVE TypeOK'
  <2>1. th[p].v \in Pages /\ th[p].w \in Values \cup {NOWRITE}
    BY DEF TypeOK, Thread, Actors
  <2> QED BY <1>2, <2>1, PerformType, PageFaultType DEF Retry
<1> QED BY <1>1, <1>2

\* getNewFrameFIFO with an unused frame keeps the types; its cursor wraps.
LEMMA TakeFreeType ==
  ASSUME TypeOK, NEW a \in Actors, TakeFree(a)
  PROVE  TypeOK'
<1>1. PICK f \in Frames :
        /\ nextframe' = [nextframe EXCEPT !.fifo = NextFrame(f)]
        /\ th' = [th EXCEPT ![a].fr = f, ![a].pc = "init"]
  BY DEF TakeFree
<1>2. th' \in [Actors -> Thread]
  BY <1>1, LocalsType DEF TypeOK
<1>3. nextframe' \in [fifo : Frames, gca : Frames]
  BY <1>1, IndexType DEF TypeOK
<1> QED BY <1>2, <1>3 DEF TypeOK, TakeFree

\* getNewFrameFIFO with a victim keeps the types.
LEMMA PickVictimType ==
  ASSUME TypeOK, NEW a \in Actors, PickVictim(a)
  PROVE  TypeOK'
<1>1. ft' \in FT
  BY FTType, PickFrameType DEF PickVictim
<1>2. th' \in [Actors -> Thread]
  BY LocalsType DEF TypeOK, PickVictim
<1> QED BY <1>1, <1>2 DEF TypeOK, PickVictim, FT, FrameOpt

\* getNewFrameFIFO without a frame keeps the types.
LEMMA NoFrameAvailableType ==
  ASSUME TypeOK, SemaphoreOK, NEW a \in Actors, NoFrameAvailable(a)
  PROVE  TypeOK'
<1>1. CASE Stop("wild")
  BY <1>1, StopType
<1>2. CASE th[a].type = "PDIR" /\ ~Stop("wild")
  <2>1. th' \in [Actors -> Thread]
    BY <1>2, IdleType DEF TypeOK, NoFrameAvailable
  <2>2. pf_sem' \in [scount : Int, queue : Seq(Actors)]
    BY <1>2, SignalType DEF NoFrameAvailable
  <2> QED BY <1>2, <2>1, <2>2 DEF TypeOK, NoFrameAvailable
<1> QED BY <1>1, <1>2 DEF NoFrameAvailable

\* Entering the loop of getNewFrameGCA keeps the types.
LEMMA StartScanType ==
  ASSUME TypeOK, NEW a \in Actors, StartScan(a)
  PROVE  TypeOK'
<1>1. th' \in [Actors -> Thread]
  BY LocalsType DEF TypeOK, StartScan
<1> QED BY <1>1 DEF TypeOK, StartScan

\* An iteration of getNewFrameGCA keeps the types; i stays within its bound.
LEMMA ScanType ==
  ASSUME TypeOK, NEW a \in Actors, Scan(a)
  PROVE  TypeOK'
<1> DEFINE c == nextframe.gca
           f == ft.ipt[c]
           t == pd[f.pid][vaddr2pdi(f.vpn)].pd_base
           j == vaddr2pti(f.vpn)
           bits == UM(pt[t][j])
<1>1. c \in Frames /\ th[a] \in Thread
  BY DEF TypeOK
<1>2. CASE Stop("panic") \/ Stop("wild")
  BY <1>2, StopType
<1>3. CASE ~(Stop("panic") \/ Stop("wild"))
  <2>1. /\ th[a].i <= ScanLimit
        /\ nextframe' = [nextframe EXCEPT !.gca = NextFrame(c)]
        /\ \/ th' = [th EXCEPT ![a] = [@ EXCEPT !.fr = c, !.pc = "init"]]
           \/ th' = [th EXCEPT ![a] = [@ EXCEPT !.fr = c, !.pc = "evict"]]
           \/ th' = [th EXCEPT ![a].i = @ + 1]
        /\ pt' = pt \/ pt' = [pt EXCEPT ![t][j] = Aged(@)]
        /\ cpu' = a
        /\ UNCHANGED <<ft, currpolicy, pd, dataVars, storeVars, procVars, pf_sem, fatal>>
    <3>1. \/ /\ th[a].i <= ScanLimit /\ f.status = "NOT_USED"
             /\ nextframe' = [nextframe EXCEPT !.gca = NextFrame(c)]
             /\ th' = [th EXCEPT ![a] = [@ EXCEPT !.fr = c, !.pc = "init"]]
             /\ cpu' = a
             /\ UNCHANGED pt
             /\ UNCHANGED <<ft, currpolicy, pd, dataVars, storeVars, procVars, pf_sem, fatal>>
          \/ /\ th[a].i <= ScanLimit
             /\ nextframe' = [nextframe EXCEPT !.gca = NextFrame(c)]
             /\ th' = [th EXCEPT ![a].i = @ + 1]
             /\ cpu' = a
             /\ UNCHANGED pt
             /\ UNCHANGED <<ft, currpolicy, pd, dataVars, storeVars, procVars, pf_sem, fatal>>
          \/ /\ th[a].i <= ScanLimit /\ t \in Frames
             /\ nextframe' = [nextframe EXCEPT !.gca = NextFrame(c)]
             /\ pt' = [pt EXCEPT ![t][j] = Aged(@)]
             /\ th' = IF bits = "UM00" THEN [th EXCEPT ![a] = [@ EXCEPT !.fr = c, !.pc = "evict"]]
                                       ELSE [th EXCEPT ![a].i = @ + 1]
             /\ cpu' = a
             /\ UNCHANGED <<ft, currpolicy, pd, dataVars, storeVars, procVars, pf_sem, fatal>>
      BY <1>3, Zenon DEF Scan
    <3> HIDE DEF c, f, t, j, bits
    <3> QED BY <3>1
  <2>2. nextframe' \in [fifo : Frames, gca : Frames]
    BY <1>1, <2>1, IndexType DEF TypeOK
  <2>3. th' \in [Actors -> Thread]
    <3>1. th[a].i <= 3 * NFRAMES /\ th \in [Actors -> Thread]
      BY <2>1, Zenon DEF ScanLimit, TypeOK
    <3>2. th[a].i < 3 * NFRAMES + 1
      BY <1>1, <3>1, SizesAssumption DEF Thread
    <3>3. [th[a] EXCEPT !.i = @ + 1] \in Thread
      BY <1>1, <3>2, LocalsType
    <3> HIDE DEF c
    <3> QED BY <1>1, <2>1, <3>1, <3>3, LocalsType, ThreadsType, Zenon
  <2>4. pt' \in [Frames -> [Slots -> PTE]]
    <3>1. pt \in [Frames -> [Slots -> PTE]]
      BY DEF TypeOK
    <3> HIDE DEF t, j
    <3>2. [pt EXCEPT ![t][j] = Aged(@)] \in [Frames -> [Slots -> PTE]]
      BY <3>1, TableType, Zenon
    <3>3. pt' = pt \/ pt' = [pt EXCEPT ![t][j] = Aged(@)]
      BY <2>1
    <3> QED BY <3>1, <3>2, <3>3, Zenon
  <2> QED BY <2>1, <2>2, <2>3, <2>4 DEF TypeOK
<1> QED BY <1>2, <1>3

\* evictFrame up to write_bs keeps the types, with or without a write.
LEMMA EvictType ==
  ASSUME TypeOK, LocalsOK, NEW a \in Actors, Evict(a)
  PROVE  TypeOK'
<1> DEFINE fr == th[a].fr
           q == ft.ipt[fr].pid
           v == ft.ipt[fr].vpn
           t == pd[q][vaddr2pdi(v)].pd_base
           j == vaddr2pti(v)
           u == decRefCount(ft, currpolicy, t)
           s == VictimStore(a, q, v)
<1>1. CASE Stop("panic") \/ Stop("wild")
  BY <1>1, StopType
<1>2. CASE ~(Stop("panic") \/ Stop("wild"))
  <2>1. /\ t \in Frames
        /\ pt' = [pt EXCEPT ![t][j] = MarkAbsent(@)]
        /\ ft' = u
        /\ pd' = pd \/ pd' = [pd EXCEPT ![q][vaddr2pdi(v)].pd_pres = 0]
        /\ UNCHANGED <<nextframe, currpolicy, dataVars, storeVars, procVars, pf_sem, fatal>>
        /\ cpu' \in {a, NOBODY}
        /\ \/ th' = [th EXCEPT ![a].pc = "init"]
           \/ /\ BsValid(s, BsOff(v))
              /\ th' = [th EXCEPT ![a] = [@ EXCEPT !.pc = "write_bs", !.ept = t, !.epti = j,
                                                   !.bsd = s, !.off = BsOff(v)]]
    BY <1>2 DEF Evict
  <2>2. ft' \in FT
    BY <2>1, FTType, DecRefCountType
  <2>3. pt' \in [Frames -> [Slots -> PTE]]
    <3>1. pt \in [Frames -> [Slots -> PTE]]
      BY DEF TypeOK
    <3> HIDE DEF t, j
    <3> QED BY <2>1, <3>1, TableType, Zenon
  <2>4. pd' \in [Procs -> [Tables -> PDE]]
    <3>1. pd \in [Procs -> [Tables -> PDE]]
      BY DEF TypeOK
    <3>2. pd' = pd \/ pd' = [pd EXCEPT ![q][vaddr2pdi(v)].pd_pres = 0]
      BY <2>1
    <3> HIDE DEF q, v
    <3>3. [pd EXCEPT ![q][vaddr2pdi(v)].pd_pres = 0] \in [Procs -> [Tables -> PDE]]
      BY <3>1, DirectoryType, Zenon
    <3> QED BY <3>1, <3>2, <3>3, Zenon
  <2>5. th' \in [Actors -> Thread]
    <3>1. fr \in Frames /\ th \in [Actors -> Thread]
      BY Zenon DEF LocalsOK, Evict, At, TypeOK
    <3>2. v \in Int
      BY <3>1, SizesAssumption DEF TypeOK, FrameRec, Pages, NO_VPN
    <3>3. j \in Slots /\ BsOff(v) \in 0 .. MAX_PAGES_PER_BS - 1
      BY <3>2, IndexType
    <3>4. BsValid(s, BsOff(v)) => s \in Stores
      BY DEF BsValid
    <3> HIDE DEF t, j, s, v
    <3>5. [th[a] EXCEPT !.pc = "init"] \in Thread
      BY <3>1, LocalsType
    <3>6. BsValid(s, BsOff(v)) =>
            [th[a] EXCEPT !.pc = "write_bs", !.ept = t, !.epti = j,
                          !.bsd = s, !.off = BsOff(v)] \in Thread
      BY <2>1, <3>1, <3>3, <3>4, LocalsType
    <3> QED BY <2>1, <3>1, <3>5, <3>6, ThreadsType, Zenon
  <2> QED BY <2>1, <2>2, <2>3, <2>4, <2>5 DEF TypeOK, FT, FrameOpt
<1> QED BY <1>1, <1>2

\* The end of evictFrame after write_bs keeps the types.
LEMMA WriteBsType ==
  ASSUME TypeOK, LocalsOK, NEW a \in Actors, WriteBs(a)
  PROVE  TypeOK'
<1> DEFINE l == th[a]
<1>1. l \in Thread /\ l.fr \in Frames
  BY DEF TypeOK, LocalsOK, WriteBs, At
<1>2. mem[l.fr] \in Values
  BY <1>1 DEF TypeOK
<1>3. disk' \in [Stores -> [0 .. MAX_PAGES_PER_BS - 1 -> Values]]
  <2>1. /\ disk \in [Stores -> [0 .. MAX_PAGES_PER_BS - 1 -> Values]]
        /\ disk' = [disk EXCEPT ![l.bsd][l.off] = mem[l.fr]]
    BY Zenon DEF TypeOK, WriteBs
  <2> HIDE DEF l
  <2> QED BY <1>2, <2>1, Element2Type, Zenon
<1>4. pt' \in [Frames -> [Slots -> PTE]]
  <2>1. /\ pt \in [Frames -> [Slots -> PTE]]
        /\ pt' = [pt EXCEPT ![l.ept][l.epti] = [@ EXCEPT !.pt_dirty = 0, !.pt_avail = 0]]
    BY DEF TypeOK, WriteBs
  <2> HIDE DEF l
  <2> QED BY <2>1, TableType, Zenon
<1>5. th' \in [Actors -> Thread]
  BY <1>1, LocalsType DEF TypeOK, WriteBs
<1> QED BY <1>3, <1>4, <1>5 DEF TypeOK, WriteBs

\* The start of pf_handler after wait(pf_sem) keeps the types.
LEMMA PfHandlerType ==
  ASSUME TypeOK, SemaphoreOK, NEW p \in Procs, PfHandler(p)
  PROVE  TypeOK'
<1> DEFINE e == pd[p][vaddr2pdi(th[p].v)]
           y == IF e.pd_pres = 0 THEN "PTAB" ELSE "PAGE"
           x == IF e.pd_pres = 0 THEN EMPTY ELSE e.pd_base
<1>1. p \in Actors /\ th \in [Actors -> Thread] /\ th[p] \in Thread
  BY DEF TypeOK, Actors
<1>2. e \in PDE
  <2>1. th[p].v \in Pages
    BY <1>1 DEF Thread
  <2>2. vaddr2pdi(th[p].v) \in Tables /\ pd \in [Procs -> [Tables -> PDE]]
    BY <2>1, IndexType, Zenon DEF TypeOK
  <2> QED BY <2>2
<1>3. y \in {"PTAB", "PAGE"} /\ x \in Frames \cup {EMPTY}
  BY <1>2 DEF PDE
<1>4. /\ UNCHANGED <<frameVars, currpolicy, tableVars, dataVars, storeVars, procVars, fatal>>
      /\ cpu' \in {p, NOBODY}
      /\ signal \/ UNCHANGED pf_sem
      /\ \/ th' = [th EXCEPT ![p] = [Idle EXCEPT !.pc = "exit"]]
         \/ th' = [th EXCEPT ![p] = [@ EXCEPT !.pc = "alloc", !.type = y, !.pt = x]]
  BY DEF PfHandler
<1>5. th' \in [Actors -> Thread]
  <2> HIDE DEF x, y
  <2>1. [th[p] EXCEPT !.pc = "alloc", !.type = y, !.pt = x] \in Thread
    BY <1>1, <1>3, LocalsType
  <2>2. [Idle EXCEPT !.pc = "exit"] \in Thread
    BY IdleType
  <2> QED BY <1>1, <1>4, <2>1, <2>2, ThreadsType, Zenon
<1>6. pf_sem' \in [scount : Int, queue : Seq(Actors)]
  BY <1>4, SignalType DEF TypeOK
<1> QED BY <1>1, <1>4, <1>5, <1>6 DEF TypeOK

\* A frame is entered in the inverted page table for the process that asked.
LEMMA InitFrameStepType ==
  ASSUME TypeOK, LocalsOK, NEW a \in Actors, th[a].pc = "init", InitFrame(a)
  PROVE  /\ th[a] \in Thread /\ th[a].fr \in Frames
         /\ ft' \in FT
<1>1. th[a] \in Thread /\ th[a].fr \in Frames
  BY DEF TypeOK, LocalsOK
<1> DEFINE vpn == IF th[a].type = "PAGE" THEN th[a].v ELSE NO_VPN
<1>2. th[a].type \in Statuses /\ vpn \in VpnOpt
  BY <1>1 DEF Thread, VpnOpt
<1>3. Owner(a) \in PidOpt
  BY <1>1 DEF Owner, PidOpt, Thread, Actors
<1>4. ft' = init_frame(ft, currpolicy, th[a].fr, th[a].type, Owner(a), vpn)
  BY DEF InitFrame
<1> HIDE DEF vpn
<1> QED BY <1>1, <1>2, <1>3, <1>4, FTType, InitFrameType

\* A frame that is reused is blank in the views it is not used in.
LEMMA BlankType ==
  ASSUME TypeOK, NEW f
  PROVE  /\ [pt EXCEPT ![f] = [j \in Slots |-> NoPTE]] \in [Frames -> [Slots -> PTE]]
         /\ [mem EXCEPT ![f] = 0] \in [Frames -> Values]
BY PTEType, EnvironmentAssumption DEF TypeOK

\* newPageTable keeps the types.
LEMMA NewPageTableType ==
  ASSUME TypeOK, LocalsOK, NEW p \in Procs, NewPageTable(p)
  PROVE  TypeOK'
<1>1. p \in Actors /\ th[p].pc = "init" /\ InitFrame(p)
  BY DEF NewPageTable, At, Actors
<1>2. th[p] \in Thread /\ th[p].fr \in Frames /\ ft' \in FT
  BY <1>1, InitFrameStepType
<1>3. pt' \in [Frames -> [Slots -> PTE]] /\ mem' \in [Frames -> Values]
  BY BlankType DEF NewPageTable
<1>4. pd' \in [Procs -> [Tables -> PDE]]
  <2>1. pd \in [Procs -> [Tables -> PDE]]
    BY DEF TypeOK
  <2>2. pd' = [pd EXCEPT ![p][vaddr2pdi(th[p].v)] = [pd_pres |-> 1, pd_base |-> th[p].fr]]
    BY DEF NewPageTable
  <2> QED BY <1>2, <2>1, <2>2, DirectoryType, Zenon
<1>5. th' \in [Actors -> Thread]
  <2>1. [th[p] EXCEPT !.pt = th[p].fr, !.fr = EMPTY, !.type = "PAGE",
                      !.pc = "alloc", !.i = 0] \in Thread
    BY <1>2, LocalsType
  <2> QED BY <1>1, <2>1, ThreadsType, Zenon DEF NewPageTable, TypeOK
<1> QED BY <1>1, <1>2, <1>3, <1>4, <1>5 DEF TypeOK, NewPageTable, FT, FrameOpt

\* pf_handler up to read_bs keeps the types.
LEMMA LoadPageType ==
  ASSUME TypeOK, LocalsOK, NEW p \in Procs, LoadPage(p)
  PROVE  TypeOK'
<1> DEFINE s == BsOf(p, th[p].v)
           o == BsOff(th[p].v)
<1>1. CASE Stop("panic")
  BY <1>1, StopType
<1>2. CASE ~Stop("panic")
  <2>1. /\ BsValid(s, o) /\ InitFrame(p) /\ th[p].pc = "init"
        /\ pt' = [pt EXCEPT ![th[p].fr] = [j \in Slots |-> NoPTE]]
        /\ th' = [th EXCEPT ![p] = [@ EXCEPT !.pc = "read_bs", !.bsd = s, !.off = o, !.i = 0]]
        /\ cpu' = NOBODY
        /\ UNCHANGED <<nextframe, currpolicy, pd, dataVars, storeVars, procVars, pf_sem, fatal>>
    BY <1>2 DEF LoadPage, At
  <2>2. p \in Actors
    BY DEF Actors
  <2>3. th[p] \in Thread /\ th[p].fr \in Frames /\ ft' \in FT
    BY <2>1, <2>2, InitFrameStepType
  <2>4. pt' \in [Frames -> [Slots -> PTE]]
    BY <2>1, BlankType
  <2>5. th' \in [Actors -> Thread]
    <3>1. th[p].v \in Int
      BY <2>3, SizesAssumption DEF Thread, Pages
    <3>2. s \in Stores /\ o \in 0 .. MAX_PAGES_PER_BS - 1
      BY <2>1, <3>1, IndexType DEF BsValid
    <3> HIDE DEF s, o
    <3>3. [th[p] EXCEPT !.pc = "read_bs", !.bsd = s, !.off = o, !.i = 0] \in Thread
      BY <2>3, <3>2, LocalsType
    <3> QED BY <2>1, <2>2, <3>3, ThreadsType, Zenon DEF TypeOK
  <2> QED BY <2>1, <2>3, <2>4, <2>5 DEF TypeOK, FT, FrameOpt
<1> QED BY <1>1, <1>2

\* pf_handler after read_bs keeps the types.
LEMMA ReadBsType ==
  ASSUME TypeOK, SemaphoreOK, LocalsOK, NEW p \in Procs, ReadBs(p)
  PROVE  TypeOK'
<1> DEFINE l == th[p]
           j == vaddr2pti(l.v)
<1>1. /\ mem' = [mem EXCEPT ![l.fr] = disk[l.bsd][l.off]]
      /\ ft' = incRefCount(ft, l.pt)
      /\ pt' = [pt EXCEPT ![l.pt][j] = [@ EXCEPT !.pt_pres = 1, !.pt_base = l.fr]]
      /\ th' = [th EXCEPT ![p] = [Idle EXCEPT !.pc = "access", !.v = l.v, !.w = l.w]]
      /\ signal /\ cpu' = NOBODY
      /\ UNCHANGED <<nextframe, currpolicy, pd, disk, val, storeVars, procVars, fatal>>
  BY DEF ReadBs
<1>2. p \in Actors /\ l \in Thread /\ l.fr \in Frames /\ l.bsd \in Stores
  BY DEF ReadBs, At, TypeOK, LocalsOK, Actors
<1>3. /\ l.v \in Pages /\ l.w \in Values \cup {NOWRITE}
      /\ l.off \in 0 .. MAX_PAGES_PER_BS - 1
  BY <1>2 DEF Thread
<1> HIDE DEF l, j
<1>4. mem' \in [Frames -> Values]
  <2>1. disk[l.bsd][l.off] \in Values
    <3>1. disk \in [Stores -> [0 .. MAX_PAGES_PER_BS - 1 -> Values]]
      BY DEF TypeOK
    <3> QED BY <1>2, <1>3, <3>1
  <2> QED BY <1>1, <2>1 DEF TypeOK
<1>5. ft' \in FT
  BY <1>1, FTType, IncRefCountType
<1>6. pt' \in [Frames -> [Slots -> PTE]]
  BY <1>1, <1>2, TableType, Zenon DEF TypeOK
<1>7. th' \in [Actors -> Thread]
  <2>1. [Idle EXCEPT !.pc = "access", !.v = l.v, !.w = l.w] \in Thread
    BY <1>3, IdleType
  <2> QED BY <1>1, <1>2, <2>1, ThreadsType, Zenon DEF TypeOK
<1>8. pf_sem' \in [scount : Int, queue : Seq(Actors)]
  BY <1>1, SignalType
<1> QED BY <1>1, <1>4, <1>5, <1>6, <1>7, <1>8 DEF TypeOK, FT, FrameOpt

\* vcreate up to wait(pf_sem) keeps the types.
LEMMA VcreateType ==
  ASSUME TypeOK, NEW a \in Creators, Vcreate(a)
  PROVE  TypeOK'
<1>1. a \in Actors
  BY DEF Actors
<1>2. PICK p \in Procs, h \in HSizes :
        /\ nextpid' = (p % NPROC) + 1
        /\ \/ /\ created < MAXCREATE /\ created' = created + 1
              /\ wait(a)
              /\ th' = [th EXCEPT ![a] = [Idle EXCEPT !.pc = "alloc", !.type = "PDIR",
                                                      !.pid = p, !.h = h]]
           \/ UNCHANGED <<created, pf_sem, cpu, th>>
  BY Zenon DEF Vcreate
<1>3. UNCHANGED <<frameVars, currpolicy, tableVars, dataVars, storeVars, proc, fatal>>
  BY DEF Vcreate
<1>4. nextpid' \in Procs
  <2>1. nextpid' = (p % NPROC) + 1 /\ p \in Nat /\ NPROC \in Nat \ {0}
    BY <1>2, SizesAssumption DEF Procs
  <2>2. p % NPROC \in 0 .. NPROC - 1
    BY <2>1
  <2> QED BY <2>1, <2>2 DEF Procs
<1>5. created' \in 0 .. MAXCREATE
  <2>1. created \in 0 .. MAXCREATE /\ MAXCREATE \in Nat
    BY SizesAssumption DEF TypeOK
  <2>2. created' = created \/ (created < MAXCREATE /\ created' = created + 1)
    BY <1>2, Zenon
  <2> QED BY <2>1, <2>2
<1>6. pf_sem' \in [scount : Int, queue : Seq(Actors)] /\ cpu' \in Actors \cup {NOBODY}
  BY <1>1, <1>2, WaitType DEF TypeOK
<1>7. th' \in [Actors -> Thread]
  <2>1. [Idle EXCEPT !.pc = "alloc", !.type = "PDIR", !.pid = p, !.h = h] \in Thread
    BY IdleType, EnvironmentAssumption
  <2> QED BY <1>1, <1>2, <2>1, ThreadsType, Zenon DEF TypeOK
<1> QED BY <1>3, <1>4, <1>5, <1>6, <1>7 DEF TypeOK

\* init_pd after wait(pf_sem) keeps the types.
LEMMA NewPageDirectoryType ==
  ASSUME TypeOK, SemaphoreOK, LocalsOK, NEW a \in Creators, NewPageDirectory(a)
  PROVE  TypeOK'
<1>1. a \in Actors /\ th[a].pc = "init" /\ InitFrame(a)
  BY DEF NewPageDirectory, At, Actors
<1>2. th[a] \in Thread /\ ft' \in FT
  BY <1>1, InitFrameStepType
<1>3. pt' \in [Frames -> [Slots -> PTE]] /\ mem' \in [Frames -> Values]
  BY BlankType DEF NewPageDirectory
<1>4. th' \in [Actors -> Thread]
  <2>1. [Idle EXCEPT !.pc = "init_pd", !.pid = th[a].pid, !.h = th[a].h] \in Thread
    <3>1. th[a].pid \in Procs \cup {NO_PROCESS} /\ th[a].h \in 0 .. MAXHEAP
      BY <1>2 DEF Thread
    <3> QED BY <3>1, IdleType
  <2> QED BY <1>1, <2>1, ThreadsType, Zenon DEF NewPageDirectory, TypeOK
<1>5. pf_sem' \in [scount : Int, queue : Seq(Actors)]
  BY SignalType DEF NewPageDirectory
<1>6. cpu' \in Actors \cup {NOBODY}
  BY <1>1 DEF NewPageDirectory, AfterSignal
<1> QED BY <1>2, <1>3, <1>4, <1>5, <1>6 DEF TypeOK, NewPageDirectory, FT, FrameOpt

\* The stores before the k-th one are full, so what is left of the heap for
\* it is positive.
LEMMA StoreSize ==
  ASSUME NEW h \in Nat, NEW r \in Nat, r < bsReq(h)
  PROVE  Lesser(h - r * MAX_PAGES_PER_BS, MAX_PAGES_PER_BS) \in 0 .. MAX_PAGES_PER_BS
<1> DEFINE m == MAX_PAGES_PER_BS
           q == (h - 1) \div m
<1>1. m \in Nat /\ m > 0
  BY SizesAssumption
<1>2. h > 0 /\ r <= q /\ q \in Nat
  BY <1>1 DEF bsReq
<1>3. q * m <= h - 1
  BY <1>1, <1>2
<1>4. r * m <= q * m
  <2> HIDE DEF q, m
  <2> QED BY <1>1, <1>2
<1>5. r * m \in Nat /\ q * m \in Nat
  <2> HIDE DEF q, m
  <2> QED BY <1>1, <1>2
<1>6. h - r * m \in Nat
  <2> DEFINE y == r * m
             z == q * m
  <2>1. y \in Nat /\ z \in Nat /\ y <= z /\ z <= h - 1
    BY <1>3, <1>4, <1>5
  <2> HIDE DEF y, z
  <2>2. h - y \in Nat
    BY <2>1
  <2> QED BY <2>2 DEF y
<1> QED BY <1>1, <1>6 DEF Lesser

\* Backing stores are numbered by their rank among the unallocated ones.
LEMMA RankType == ASSUME NEW s PROVE Rank(s) \in Nat
<1>1. IsFiniteSet(Stores)
  BY SizesAssumption, FS_Interval DEF Stores
<1>2. IsFiniteSet({r \in Unallocated : r < s})
  BY <1>1, FS_Subset DEF Unallocated
<1> QED BY <1>2, FS_CardinalityType DEF Rank

\* vcreate after init_pd keeps the types; no store gets more pages than it has.
LEMMA FinishVcreateType ==
  ASSUME TypeOK, LocalsOK, NEW a \in Creators, FinishVcreate(a)
  PROVE  TypeOK'
<1> DEFINE p == th[a].pid
           h == th[a].h
           map == pbsdFor(h)
<1>1. a \in Actors /\ th[a] \in Thread /\ th[a].pc = "init_pd"
  BY DEF TypeOK, FinishVcreate, At, Actors
<1>2. p \in Procs /\ h \in 0 .. MAXHEAP /\ p \in Actors /\ h \in Nat
  BY <1>1, SizesAssumption DEF Thread, LocalsOK, Actors
<1>3. CASE Stop("dup_pid")
  BY <1>3, StopType
<1>4. CASE ~Stop("dup_pid")
  <2>1. /\ pd' = [pd EXCEPT ![p] = [i \in Tables |-> NoPDE]]
        /\ bstab' = bstabFor(h)
        /\ free_bs_count' = (free_bs_count + WORD - bsReq(h)) % WORD
        /\ proc' = [proc EXCEPT ![p] = [prstate |-> "live", hsize |-> h, pbsd |-> map]]
        /\ val' = [val EXCEPT ![p] = [v \in Pages |->
                     LET s == map[v \div MAX_PAGES_PER_BS]
                     IN  IF v < h /\ s \in Stores THEN disk[s][BsOff(v)] ELSE 0]]
        /\ th' = [th EXCEPT ![a] = Idle, ![p] = Idle]
        /\ cpu' = NOBODY
        /\ UNCHANGED <<frameVars, currpolicy, pt, mem, disk, created, nextpid, pf_sem, fatal>>
    BY <1>4 DEF FinishVcreate
  <2>2. pd' \in [Procs -> [Tables -> PDE]]
    BY <2>1, DirectoryType, Zenon DEF TypeOK
  <2>3. bstab' \in [Stores -> [isallocated : BOOLEAN, npages : 0 .. MAX_PAGES_PER_BS]]
    <3> SUFFICES ASSUME NEW s \in Stores
                 PROVE  bstabFor(h)[s] \in [isallocated : BOOLEAN,
                                             npages : 0 .. MAX_PAGES_PER_BS]
      BY <2>1 DEF bstabFor
    <3>1. CASE s \in Unallocated /\ Rank(s) < bsReq(h)
      <4>1. Lesser(h - Rank(s) * MAX_PAGES_PER_BS, MAX_PAGES_PER_BS) \in 0 .. MAX_PAGES_PER_BS
        BY <1>2, <3>1, RankType, StoreSize
      <4> QED BY <3>1, <4>1 DEF bstabFor
    <3>2. CASE ~(s \in Unallocated /\ Rank(s) < bsReq(h))
      BY <3>2 DEF bstabFor, TypeOK
    <3> QED BY <3>1, <3>2
  <2>4. free_bs_count' \in 0 .. WORD - 1
    <3>1. free_bs_count + WORD - bsReq(h) \in Int
      <4>1. bsReq(h) \in Int
        BY <1>2, IndexType, Zenon
      <4>2. free_bs_count \in Int /\ WORD \in Int
        BY SizesAssumption DEF TypeOK
      <4> QED BY <4>1, <4>2
    <3> QED BY <2>1, <3>1, WordType
  <2>5. map \in [Stores -> Stores \cup {SYSERR}]
    BY ZeroType DEF pbsdFor
  <2>6. proc' \in [Procs -> [prstate : {"free", "live"}, hsize : 0 .. MAXHEAP,
                             pbsd : [Stores -> Stores \cup {SYSERR}]]]
    BY <1>2, <2>1, <2>5 DEF TypeOK
  <2>7. val' \in [Procs -> [Pages -> Values]]
    <3>1. ASSUME NEW v \in Pages, NEW s \in Stores
          PROVE  disk[s][BsOff(v)] \in Values
      <4>1. BsOff(v) \in 0 .. MAX_PAGES_PER_BS - 1
        BY IndexType, SizesAssumption DEF Pages
      <4>2. disk \in [Stores -> [0 .. MAX_PAGES_PER_BS - 1 -> Values]]
        BY DEF TypeOK
      <4> QED BY <4>1, <4>2
    <3> HIDE DEF map, h
    <3> QED BY <2>1, <3>1, EnvironmentAssumption DEF TypeOK
  <2>8. th' \in [Actors -> Thread]
    BY <1>1, <1>2, <2>1, IdleType, ThreadsType, Zenon DEF TypeOK
  <2> QED BY <2>1, <2>2, <2>3, <2>4, <2>6, <2>7, <2>8 DEF TypeOK
<1> QED BY <1>3, <1>4

\* kill up to freeProcFrames keeps the types.
LEMMA KillType ==
  ASSUME TypeOK, NEW a \in Actors, NEW p \in Procs, Kill(a, p)
  PROVE  TypeOK'
<1>1. th' \in [Actors -> Thread]
  <2>1. [Idle EXCEPT !.pc = "kill", !.pid = p] \in Thread
    BY IdleType
  <2> QED BY <2>1, ThreadsType, Zenon DEF Kill, TypeOK
<1>2. cpu' \in Actors \cup {NOBODY}
  BY DEF Kill
<1> QED BY <1>1, <1>2 DEF Kill, TypeOK

\* An iteration of freeProcFrames keeps the types.
LEMMA KillFrameType ==
  ASSUME TypeOK, NEW a \in Actors, KillFrame(a)
  PROVE  TypeOK'
<1>1. CASE Stop("wild")
  BY <1>1, StopType
<1>2. CASE ~Stop("wild")
  <2>1. /\ th[a].i < NFRAMES
        /\ ft' = ft \/ ft' = freeFrame(ft, currpolicy, th[a].i)
        /\ th' = [th EXCEPT ![a].i = @ + 1]
        /\ cpu' = a
        /\ UNCHANGED <<nextframe, currpolicy, tableVars, dataVars, storeVars, procVars,
                       pf_sem, fatal>>
    BY <1>2 DEF KillFrame, FramesToFree
  <2>2. th \in [Actors -> Thread] /\ th[a] \in Thread
    BY DEF TypeOK
  <2>3. th[a].i \in Frames /\ th[a].i < 3 * NFRAMES + 1
    BY <2>1, <2>2, SizesAssumption DEF Thread, Frames
  <2>4. ft' \in FT
    BY <2>1, <2>3, FTType, FreeFrameType
  <2>5. th' \in [Actors -> Thread]
    <3>1. [th[a] EXCEPT !.i = @ + 1] \in Thread
      BY <2>2, <2>3, LocalsType
    <3> QED BY <2>1, <2>2, <3>1, ThreadsType, Zenon
  <2> QED BY <2>1, <2>4, <2>5 DEF TypeOK, FT, FrameOpt
<1> QED BY <1>1, <1>2

\* kill after freeProcFrames keeps the types.
LEMMA FinishKillType ==
  ASSUME TypeOK, LocalsOK, NEW a \in Actors, FinishKill(a)
  PROVE  TypeOK'
<1> DEFINE p == th[a].pid
           q == pf_sem.queue
<1>1. p \in Procs /\ p \in Actors
  BY DEF FinishKill, At, LocalsOK, Actors
<1>2. bstab' \in [Stores -> [isallocated : BOOLEAN, npages : 0 .. MAX_PAGES_PER_BS]]
  BY SizesAssumption DEF FinishKill, TypeOK
<1>3. free_bs_count' \in 0 .. WORD - 1
  <2>1. proc[p].hsize \in Nat
    BY <1>1, SizesAssumption DEF TypeOK
  <2>2. free_bs_count + bsReq(proc[p].hsize) \in Int
    <3>1. bsReq(proc[p].hsize) \in Int
      BY <2>1, IndexType, Zenon
    <3>2. free_bs_count \in Int
      BY SizesAssumption DEF TypeOK
    <3> QED BY <3>1, <3>2
  <2> QED BY <2>2, WordType DEF FinishKill
<1>4. proc' \in [Procs -> [prstate : {"free", "live"}, hsize : 0 .. MAXHEAP,
                           pbsd : [Stores -> Stores \cup {SYSERR}]]]
  <2>1. proc' = [proc EXCEPT ![p].prstate = "free"]
    BY DEF FinishKill
  <2>2. proc \in [Procs -> [prstate : {"free", "live"}, hsize : 0 .. MAXHEAP,
                            pbsd : [Stores -> Stores \cup {SYSERR}]]]
    BY DEF TypeOK
  <2> QED BY ONLY <1>1, <2>1, <2>2
<1>5. pf_sem' \in [scount : Int, queue : Seq(Actors)]
  <2>1. CASE UNCHANGED pf_sem
    BY <2>1 DEF TypeOK
  <2>2. CASE ~UNCHANGED pf_sem
    <3>1. PICK k \in 1 .. Len(q) :
            pf_sem' = [scount |-> pf_sem.scount + 1,
                       queue |-> SubSeq(q, 1, k - 1) \o SubSeq(q, k + 1, Len(q))]
      BY <2>2 DEF FinishKill, LeaveQueue
    <3>2. q \in Seq(Actors) /\ pf_sem.scount \in Int
      BY DEF TypeOK
    <3>3. SubSeq(q, 1, k - 1) \in Seq(Actors) /\ SubSeq(q, k + 1, Len(q)) \in Seq(Actors)
      BY <3>2
    <3> QED BY <3>1, <3>2, <3>3
  <2> QED BY <2>1, <2>2
<1>6. th' \in [Actors -> Thread]
  BY <1>1, IdleType, ThreadsType, Zenon DEF FinishKill, TypeOK
<1> QED BY <1>2, <1>3, <1>4, <1>5, <1>6 DEF FinishKill, TypeOK

\* srpolicy keeps the types.
LEMMA SrpolicyType ==
  ASSUME TypeOK, NEW a \in Creators, srpolicy(a)
  PROVE  TypeOK'
BY EnvironmentAssumption DEF srpolicy, TypeOK

-----------------------------------------------------------------------------
(* The semaphore.                                                          *)

Mutex == SemaphoreOK /\ MutualExclusion

\* The queue holds processes, and exactly those that Queued says.
LEMMA QueueFacts ==
  ASSUME TypeOK, SemaphoreOK
  PROVE  /\ pf_sem.queue \in Seq(Actors) /\ pf_sem.scount \in Int
         /\ Len(pf_sem.queue) \in Nat
         /\ \A i \in 1 .. Len(pf_sem.queue) :
              /\ pf_sem.queue[i] \in Actors
              /\ Queued(pf_sem.queue[i])
BY DEF TypeOK, Queued

\* A step that leaves pf_sem alone lets nobody in: every process keeps its
\* locals, or is not in the queue and does not enter the fault path.
LEMMA QuietStep ==
  ASSUME TypeOK, Mutex, UNCHANGED pf_sem,
         \A b \in Actors : \/ th'[b] = th[b]
                           \/ /\ ~Queued(b)
                              /\ th'[b].pc \in FaultPath => th[b].pc \in FaultPath
  PROVE  Mutex'
<1>1. \A b : Queued(b)' <=> Queued(b)
  BY DEF Queued
<1>2. \A b \in Actors : Holds(b)' => Holds(b)
  BY <1>1 DEF Holds
<1>3. \A i \in 1 .. Len(pf_sem.queue) : th'[pf_sem.queue[i]] = th[pf_sem.queue[i]]
  BY QueueFacts DEF Mutex
<1>4. SemaphoreOK'
  BY <1>2, <1>3 DEF SemaphoreOK, Mutex
<1>5. MutualExclusion'
  BY <1>2 DEF MutualExclusion, Mutex
<1> QED BY <1>4, <1>5 DEF Mutex

\* wait: the caller finds the semaphore free, or is queued behind the others.
LEMMA WaitStep ==
  ASSUME TypeOK, Mutex, NEW a \in Actors, wait(a), ~Queued(a), th[a].pc \notin FaultPath,
         th'[a].pc \in {"pf", "alloc"}, \A b \in Actors : b # a => th'[b] = th[b]
  PROVE  Mutex'
<1> DEFINE n == Len(pf_sem.queue)
           c == pf_sem.scount
<1>1. /\ pf_sem.queue \in Seq(Actors) /\ c \in Int /\ n \in Nat /\ c <= 1
      /\ n = IF c < 0 THEN -c ELSE 0
  BY QueueFacts DEF Mutex, SemaphoreOK
<1>2. CASE c = 1
  <2>1. pf_sem'.scount = 0 /\ pf_sem'.queue = pf_sem.queue /\ n = 0
    BY <1>1, <1>2 DEF wait
  <2>2. \A b \in Actors : b # a => ~Holds(b)'
    <3>1. \A b : Queued(b)' <=> Queued(b)
      BY <2>1 DEF Queued
    <3> QED BY <1>2, <3>1 DEF Holds, Mutex, SemaphoreOK
  <2>3. SemaphoreOK'
    BY <2>1 DEF SemaphoreOK
  <2> QED BY <2>2, <2>3 DEF Mutex, MutualExclusion
<1>3. CASE c <= 0
  <2>1. pf_sem'.scount = c - 1 /\ pf_sem'.queue = Append(pf_sem.queue, a)
    BY <1>1, <1>3 DEF wait
  <2>2. /\ Len(pf_sem'.queue) = n + 1
        /\ \A i \in 1 .. n : pf_sem'.queue[i] = pf_sem.queue[i]
        /\ pf_sem'.queue[n + 1] = a
    BY <1>1, <2>1
  <2>3. Queued(a)' /\ \A b : b # a => (Queued(b)' <=> Queued(b))
    <3>1. n + 1 \in 1 .. n + 1 /\ \A i \in 1 .. n : i \in 1 .. n + 1
      BY <1>1
    <3>2. \A i \in 1 .. n + 1 : i \in 1 .. n \/ i = n + 1
      BY <1>1
    <3>3. Queued(a)'
      BY <2>2, <3>1 DEF Queued
    <3>4. ASSUME NEW b, b # a PROVE Queued(b)' <=> Queued(b)
      BY <2>2, <3>1, <3>2, <3>4 DEF Queued
    <3> QED BY <3>3, <3>4
  <2>4. \A b \in Actors : Holds(b)' => Holds(b)
    BY <2>3 DEF Holds
  <2>5. \A i \in 1 .. n : pf_sem.queue[i] # a /\ pf_sem.queue[i] \in Actors
    BY QueueFacts DEF Mutex
  <2>6. SemaphoreOK'
    <3>1. \A i, j \in 1 .. n + 1 : pf_sem'.queue[i] = pf_sem'.queue[j] => i = j
      <4>1. \A i, j \in 1 .. n : pf_sem.queue[i] = pf_sem.queue[j] => i = j
        BY DEF Mutex, SemaphoreOK
      <4>2. \A i \in 1 .. n + 1 : i \in 1 .. n \/ i = n + 1
        BY <1>1
      <4> QED BY <2>2, <2>5, <4>1, <4>2
    <3>2. \A i \in 1 .. n + 1 : th'[pf_sem'.queue[i]].pc \in {"pf", "alloc"}
      <4>1. \A i \in 1 .. n : th[pf_sem.queue[i]].pc \in {"pf", "alloc"}
        BY DEF Mutex, SemaphoreOK
      <4>2. \A i \in 1 .. n + 1 : i \in 1 .. n \/ i = n + 1
        BY <1>1
      <4> QED BY <2>2, <2>5, <4>1, <4>2
    <3>3. pf_sem'.scount <= 1 /\ pf_sem'.scount # 1 /\ pf_sem'.scount < 0
          /\ n + 1 = -pf_sem'.scount
      BY <1>1, <1>3, <2>1
    <3> QED BY <2>2, <3>1, <3>2, <3>3 DEF SemaphoreOK
  <2> QED BY <2>4, <2>6 DEF Mutex, MutualExclusion
<1> QED BY <1>1, <1>2, <1>3

\* signal: the holder leaves, and the head of the queue takes its place.
LEMMA SignalStep ==
  ASSUME TypeOK, Mutex, NEW a \in Actors, signal, Holds(a), th'[a].pc \notin FaultPath,
         \A b \in Actors : b # a => th'[b] = th[b]
  PROVE  Mutex'
<1> DEFINE n == Len(pf_sem.queue)
           c == pf_sem.scount
<1>1. /\ pf_sem.queue \in Seq(Actors) /\ c \in Int /\ n \in Nat /\ c <= 0
      /\ n = IF c < 0 THEN -c ELSE 0
  BY QueueFacts DEF Mutex, SemaphoreOK
<1>2. \A b \in Actors : b # a => ~Holds(b)
  BY DEF Mutex, MutualExclusion
<1>3. ~Holds(a)'
  BY DEF Holds
<1>4. CASE c = 0
  <2>1. pf_sem'.scount = 1 /\ pf_sem'.queue = pf_sem.queue /\ n = 0
    BY <1>1, <1>4 DEF signal
  <2>2. \A b \in Actors : ~Holds(b)'
    <3>1. \A b : Queued(b)' <=> Queued(b)
      BY <2>1 DEF Queued
    <3> QED BY <1>2, <1>3, <3>1 DEF Holds
  <2>3. SemaphoreOK'
    BY <2>1, <2>2 DEF SemaphoreOK
  <2> QED BY <2>2, <2>3 DEF Mutex, MutualExclusion
<1>5. CASE c < 0
  <2>1. pf_sem'.scount = c + 1 /\ pf_sem'.queue = Tail(pf_sem.queue) /\ n > 0 /\ n = -c
    BY <1>1, <1>5 DEF signal
  <2>2. /\ Len(pf_sem'.queue) = n - 1
        /\ \A i \in 1 .. n - 1 : pf_sem'.queue[i] = pf_sem.queue[i + 1]
    BY <1>1, <2>1
  <2>3. \A b \in Actors : Holds(b)' => b = pf_sem.queue[1]
    <3> SUFFICES ASSUME NEW b \in Actors, Holds(b)' PROVE b = pf_sem.queue[1]
      OBVIOUS
    <3>1. b # a /\ th[b].pc \in FaultPath /\ ~Queued(b)'
      BY <1>3 DEF Holds
    <3>2. Queued(b)
      BY <1>2, <3>1 DEF Holds
    <3>3. PICK k \in 1 .. n : pf_sem.queue[k] = b
      BY <3>2 DEF Queued
    <3>4. k # 1 => k - 1 \in 1 .. n - 1 /\ pf_sem'.queue[k - 1] = b
      BY <1>1, <2>2, <3>3
    <3>5. k = 1
      BY <2>2, <3>1, <3>4 DEF Queued
    <3> QED BY <3>3, <3>5
  <2>4. SemaphoreOK'
    <3>1. \A i \in 1 .. n - 1 : i + 1 \in 1 .. n
      BY <1>1
    <3>2. \A i, j \in 1 .. n - 1 : pf_sem'.queue[i] = pf_sem'.queue[j] => i = j
      <4>1. \A i, j \in 1 .. n : pf_sem.queue[i] = pf_sem.queue[j] => i = j
        BY DEF Mutex, SemaphoreOK
      <4> SUFFICES ASSUME NEW i \in 1 .. n - 1, NEW j \in 1 .. n - 1,
                          pf_sem'.queue[i] = pf_sem'.queue[j]
                   PROVE  i = j
        OBVIOUS
      <4>2. i + 1 = j + 1
        BY <2>2, <3>1, <4>1
      <4> QED BY <4>2
    <3>3. \A i \in 1 .. n - 1 : th'[pf_sem'.queue[i]].pc \in {"pf", "alloc"}
      <4>1. \A i \in 1 .. n : /\ pf_sem.queue[i] \in Actors /\ pf_sem.queue[i] # a
                              /\ th[pf_sem.queue[i]].pc \in {"pf", "alloc"}
        BY QueueFacts DEF Mutex, SemaphoreOK, Holds
      <4> QED BY <2>2, <3>1, <4>1
    <3>4. /\ pf_sem'.scount <= 1 /\ pf_sem'.scount # 1
          /\ n - 1 = IF pf_sem'.scount < 0 THEN -pf_sem'.scount ELSE 0
      BY <1>1, <1>5, <2>1
    <3> QED BY <2>2, <3>2, <3>3, <3>4 DEF SemaphoreOK
  <2> QED BY <2>3, <2>4 DEF Mutex, MutualExclusion
<1> QED BY <1>1, <1>4, <1>5

\* Taking element k out of a sequence shifts the ones behind it.
LEMMA RemovalFacts ==
  ASSUME NEW S, NEW q \in Seq(S), NEW k \in 1 .. Len(q)
  PROVE  LET r == SubSeq(q, 1, k - 1) \o SubSeq(q, k + 1, Len(q))
         IN  /\ Len(r) = Len(q) - 1
             /\ \A i \in 1 .. Len(q) - 1 : r[i] = q[IF i < k THEN i ELSE i + 1]
<1> DEFINE n == Len(q)
           s1 == SubSeq(q, 1, k - 1)
           s2 == SubSeq(q, k + 1, n)
<1>1. n \in Nat /\ k \in Int /\ 1 <= k /\ k <= n /\ \A i \in 1 .. n : q[i] \in S
  BY LenProperties
<1>2. /\ s1 \in Seq(S) /\ Len(s1) = k - 1
      /\ \A i \in 1 .. k - 1 : s1[i] = q[i]
  <2>1. \A i \in 1 .. k - 1 : q[i] \in S
    BY <1>1
  <2> QED BY <1>1, <2>1, SubSeqProperties
<1>3. /\ s2 \in Seq(S) /\ Len(s2) = n - k
      /\ \A i \in 1 .. n - k : s2[i] = q[k + i]
  <2>1. \A i \in k + 1 .. n : q[i] \in S
    BY <1>1
  <2>2. /\ s2 \in Seq(S) /\ Len(s2) = IF k + 1 <= n THEN n - (k + 1) + 1 ELSE 0
        /\ \A i \in 1 .. n - (k + 1) + 1 : s2[i] = q[(k + 1) + i - 1]
    BY <1>1, <2>1, SubSeqProperties
  <2> HIDE DEF n, s2
  <2>3. Len(s2) = n - k
    BY <1>1, <2>2
  <2>4. \A i \in 1 .. n - k : i \in 1 .. n - (k + 1) + 1 /\ (k + 1) + i - 1 = k + i
    BY <1>1
  <2> QED BY <2>2, <2>3, <2>4
<1> HIDE DEF s1, s2
<1>4. /\ Len(s1 \o s2) = Len(s1) + Len(s2)
      /\ \A i \in 1 .. Len(s1) + Len(s2) :
           (s1 \o s2)[i] = IF i <= Len(s1) THEN s1[i] ELSE s2[i - Len(s1)]
  BY <1>2, <1>3, ConcatProperties
<1> HIDE DEF n
<1>5. Len(s1 \o s2) = n - 1
  BY <1>1, <1>2, <1>3, <1>4
<1>6. ASSUME NEW i \in 1 .. n - 1 PROVE (s1 \o s2)[i] = q[IF i < k THEN i ELSE i + 1]
  <2>1. i \in Int /\ i \in 1 .. Len(s1) + Len(s2)
    BY <1>1, <1>2, <1>3
  <2>2. (s1 \o s2)[i] = IF i <= k - 1 THEN s1[i] ELSE s2[i - (k - 1)]
    BY <1>2, <1>4, <2>1
  <2>3. CASE i < k
    <3>1. i <= k - 1 /\ i \in 1 .. k - 1
      BY <1>1, <2>1, <2>3
    <3> QED BY <1>2, <2>2, <2>3, <3>1
  <2>4. CASE ~(i < k)
    <3>1. ~(i <= k - 1) /\ i - (k - 1) \in 1 .. n - k /\ k + (i - (k - 1)) = i + 1
      BY <1>1, <2>1, <2>4
    <3>2. s2[i - (k - 1)] = q[k + (i - (k - 1))]
      BY <1>3, <3>1
    <3> QED BY <2>2, <2>4, <3>1, <3>2
  <2> QED BY <2>3, <2>4
<1> QED BY <1>5, <1>6 DEF n, s1, s2

\* A waiter that is killed leaves the queue from any place in it.
LEMMA LeaveStep ==
  ASSUME TypeOK, Mutex, NEW a \in Actors, NEW p \in Actors, th[a].pc = "kill",
         NEW k \in 1 .. Len(pf_sem.queue), pf_sem.queue[k] = p,
         pf_sem' = [scount |-> pf_sem.scount + 1,
                    queue |-> SubSeq(pf_sem.queue, 1, k - 1) \o
                              SubSeq(pf_sem.queue, k + 1, Len(pf_sem.queue))],
         th'[a].pc = "user", th'[p].pc = "user",
         \A b \in Actors : b # a /\ b # p => th'[b] = th[b]
  PROVE  Mutex'
<1> DEFINE q == pf_sem.queue
           n == Len(pf_sem.queue)
           c == pf_sem.scount
           r == pf_sem'.queue
           next(i) == IF i < k THEN i ELSE i + 1
<1>1. /\ q \in Seq(Actors) /\ c \in Int /\ n \in Nat /\ n > 0
      /\ c < 0 /\ n = -c /\ k \in 1 .. n
  BY QueueFacts DEF Mutex, SemaphoreOK
<1>2. Len(r) = n - 1 /\ \A i \in 1 .. n - 1 : r[i] = q[next(i)]
  BY <1>1, RemovalFacts, Zenon
<1>3. pf_sem'.scount = c + 1
  BY Zenon
<1>4. /\ q[k] = p
      /\ \A i, j \in 1 .. n : q[i] = q[j] => i = j
      /\ \A i \in 1 .. n : q[i] \in Actors /\ th[q[i]].pc \in {"pf", "alloc"}
  BY QueueFacts DEF Mutex, SemaphoreOK
<1>5. \A b : (Queued(b) <=> \E i \in 1 .. n : q[i] = b) /\ (Queued(b)' <=> \E i \in 1 .. Len(r) : r[i] = b)
  BY Zenon DEF Queued
<1>6. SemaphoreOK' <=>
        LET m == Len(r)
        IN  /\ pf_sem'.scount <= 1
            /\ m = IF pf_sem'.scount < 0 THEN -pf_sem'.scount ELSE 0
            /\ \A i, j \in 1 .. m : r[i] = r[j] => i = j
            /\ \A i \in 1 .. m : th'[r[i]].pc \in {"pf", "alloc"}
            /\ pf_sem'.scount = 1 => \A b \in Actors : ~Holds(b)'
  BY Zenon DEF SemaphoreOK
<1> HIDE DEF q, n, c, r
<1>7. ASSUME NEW i \in 1 .. n - 1 PROVE next(i) \in 1 .. n /\ next(i) # k
  <2>1. k \in 1 .. n /\ n \in Nat
    BY <1>1
  <2>2. CASE i < k
    BY <2>1, <2>2
  <2>3. CASE ~(i < k)
    BY <2>1, <2>3
  <2> QED BY <2>2, <2>3
<1>8. \A i, j \in 1 .. n - 1 : next(i) = next(j) => i = j
  BY <1>1
<1>9. \A i \in 1 .. n : i # k => \E j \in 1 .. n - 1 : i = next(j)
  <2> SUFFICES ASSUME NEW i \in 1 .. n, i # k PROVE \E j \in 1 .. n - 1 : i = next(j)
    OBVIOUS
  <2>1. CASE i < k
    <3>1. i \in 1 .. n - 1 /\ i = next(i)
      BY <1>1, <2>1
    <3> QED BY <3>1
  <2>2. CASE i > k
    <3>1. i - 1 \in 1 .. n - 1 /\ i = next(i - 1)
      BY <1>1, <2>2
    <3> QED BY <3>1
  <2> QED BY <1>1, <2>1, <2>2
<1> HIDE DEF next
<1>10. SemaphoreOK'
  <2>1. ASSUME NEW i \in 1 .. n - 1, NEW j \in 1 .. n - 1, r[i] = r[j] PROVE i = j
    <3>1. next(i) \in 1 .. n /\ next(j) \in 1 .. n
      BY <1>7, Zenon
    <3>2. q[next(i)] = q[next(j)]
      BY <1>2, <2>1, Zenon
    <3>3. next(i) = next(j)
      BY <1>4, <3>1, <3>2, Zenon
    <3> QED BY <1>8, <3>3, Zenon
  <2>2. ASSUME NEW i \in 1 .. n - 1 PROVE th'[r[i]].pc \in {"pf", "alloc"}
    <3>1. next(i) \in 1 .. n /\ next(i) # k /\ r[i] = q[next(i)]
      BY <1>2, <1>7, Zenon
    <3>2. q[next(i)] # p /\ q[next(i)] # a /\ q[next(i)] \in Actors
      <4>1. th[q[next(i)]].pc # "kill"
        BY <1>4, <3>1
      <4> QED BY <1>1, <1>4, <3>1, <4>1, Zenon
    <3>3. th'[q[next(i)]] = th[q[next(i)]]
      BY <3>2, Zenon
    <3> QED BY <1>4, <3>1, <3>3
  <2>3. /\ pf_sem'.scount <= 1 /\ pf_sem'.scount # 1
        /\ n - 1 = IF pf_sem'.scount < 0 THEN -pf_sem'.scount ELSE 0
    BY <1>1, <1>3
  <2> QED BY <1>2, <1>6, <2>1, <2>2, <2>3
<1>11. \A b \in Actors : Holds(b)' => Holds(b)
  <2> SUFFICES ASSUME NEW b \in Actors, Holds(b)' PROVE Holds(b)
    OBVIOUS
  <2>1. b # a /\ b # p /\ th[b].pc \in FaultPath /\ ~Queued(b)'
    BY DEF Holds, FaultPath
  <2>2. ~Queued(b)
    <3> SUFFICES ASSUME NEW i \in 1 .. n, q[i] = b PROVE FALSE
      BY <1>5, Zenon
    <3>1. PICK j \in 1 .. n - 1 : i = next(j)
      BY <1>4, <1>9, <2>1, Zenon
    <3>2. r[j] = b /\ j \in 1 .. Len(r)
      BY <1>2, <3>1, Zenon
    <3> QED BY <1>5, <2>1, <3>2, Zenon
  <2> QED BY <2>1, <2>2 DEF Holds
<1> QED BY <1>10, <1>11 DEF Mutex, MutualExclusion

-----------------------------------------------------------------------------
(* Kernel locals, and what each kind of step does to the invariant.         *)

\* The part of LocalsOK about the locals of one process.
Sound(a, l) ==
  /\ l.pc \in {"evict", "write_bs", "init", "read_bs"} => l.fr \in Frames
  /\ l.pc = "read_bs" => l.bsd \in Stores
  /\ l.pc = "kill" => l.pid \in Procs
  /\ a \in Creators /\ l.pc # "user" => l.pid \in Procs

\* LocalsOK, stated process by process.
LEMMA LocalsFacts ==
  /\ LocalsOK <=> /\ \A a \in Actors : Sound(a, th[a])
                  /\ \A p \in Procs : SlotFree(p) => th[p].pc = "user"
  /\ LocalsOK' <=> /\ \A a \in Actors : Sound(a, th'[a])
                   /\ \A p \in Procs : SlotFree(p)' => th'[p].pc = "user"
BY DEF LocalsOK, Sound, Actors

\* A step of one process that leaves the process table alone.
LEMMA OneThread ==
  ASSUME LocalsOK, NEW a \in Actors, UNCHANGED proc, Sound(a, th'[a]),
         th[a].pc # "user" \/ th'[a].pc = "user" \/ a \in Creators \/ ~SlotFree(a),
         \A b \in Actors : b # a => th'[b] = th[b]
  PROVE  LocalsOK'
<1>1. \A p \in Procs : SlotFree(p)' <=> SlotFree(p)
  BY DEF SlotFree
<1>2. \A p \in Procs : p \in Actors /\ p \notin Creators
  BY EnvironmentAssumption DEF Actors
<1>3. \A b \in Actors : Sound(b, th'[b])
  BY LocalsFacts, Zenon
<1>4. \A p \in Procs : SlotFree(p)' => th'[p].pc = "user"
  BY <1>1, <1>2, LocalsFacts, Zenon
<1> QED BY <1>3, <1>4, LocalsFacts, Zenon

\* What is left to show when the types are known.
Rest == Mutex /\ LocalsOK

\* The invariant is its typing part and the rest.
LEMMA RestFacts == IInv <=> TypeOK /\ Rest
BY DEF IInv, Rest, Mutex

\* The kernel stops.
LEMMA StopStep ==
  ASSUME TypeOK, Rest, NEW why, Stop(why)
  PROVE  Rest'
<1>1. Mutex'
  BY QuietStep DEF Stop, Rest
<1>2. LocalsOK'
  BY LocalsFacts, Zenon DEF Stop, Rest, SlotFree
<1> QED BY <1>1, <1>2 DEF Rest

\* A step inside the fault path, by the process that holds pf_sem.
LEMMA InsideStep ==
  ASSUME TypeOK, Rest, NEW a \in Actors, ~Queued(a), th[a].pc \in FaultPath,
         NEW l \in Thread, th' = [th EXCEPT ![a] = l], l.pc \in FaultPath,
         l.pid = th[a].pid,
         l.pc \in {"evict", "write_bs", "init", "read_bs"} => l.fr \in Frames,
         l.pc = "read_bs" => l.bsd \in Stores, UNCHANGED <<pf_sem, proc>>
  PROVE  Rest'
<1>1. th'[a] = l /\ \A b \in Actors : b # a => th'[b] = th[b]
  BY DEF TypeOK
<1>2. Mutex'
  BY <1>1, QuietStep DEF Rest
<1>3. th[a].pc # "user" /\ l.pc # "user" /\ l.pc # "kill"
  BY DEF FaultPath
<1>4. a \in Creators => l.pid \in Procs
  BY <1>3 DEF Rest, LocalsOK
<1>5. Sound(a, l)
  BY <1>3, <1>4 DEF Sound
<1>6. LocalsOK'
  BY <1>1, <1>3, <1>5, OneThread DEF Rest
<1> QED BY <1>2, <1>6 DEF Rest

\* A step outside the fault path that does not touch pf_sem.
LEMMA OutsideStep ==
  ASSUME TypeOK, Rest, NEW a \in Actors, ~Queued(a),
         NEW l \in Thread, th' = [th EXCEPT ![a] = l],
         l.pc = "user" \/ (l.pc = "kill" /\ l.pid \in Procs /\
                           (a \in Creators \/ ~SlotFree(a) \/ th[a].pc # "user")),
         UNCHANGED <<pf_sem, proc>>
  PROVE  Rest'
<1>1. th'[a] = l /\ \A b \in Actors : b # a => th'[b] = th[b]
  BY DEF TypeOK
<1>2. Mutex'
  BY <1>1, QuietStep DEF Rest, FaultPath
<1>3. Sound(a, l)
  BY DEF Sound
<1>4. LocalsOK'
  BY <1>1, <1>3, OneThread DEF Rest
<1> QED BY <1>2, <1>4 DEF Rest

\* A process calls wait(pf_sem).
LEMMA EnterStep ==
  ASSUME TypeOK, Rest, NEW a \in Actors, ~Queued(a), th[a].pc \in {"user", "access"}, wait(a),
         NEW l \in Thread, th' = [th EXCEPT ![a] = l], l.pc \in {"pf", "alloc"},
         a \in Creators => l.pid \in Procs, a \in Creators \/ ~SlotFree(a),
         UNCHANGED proc
  PROVE  Rest'
<1>1. th'[a] = l /\ \A b \in Actors : b # a => th'[b] = th[b]
  BY DEF TypeOK
<1>2. Mutex'
  <2>1. th[a].pc \notin FaultPath
    BY DEF FaultPath
  <2> QED BY <1>1, <2>1, WaitStep DEF Rest
<1>3. Sound(a, l)
  BY DEF Sound
<1>4. LocalsOK'
  BY <1>1, <1>3, OneThread DEF Rest
<1> QED BY <1>2, <1>4 DEF Rest

\* The holder of pf_sem calls signal(pf_sem).
LEMMA LeaveFaultPath ==
  ASSUME TypeOK, Rest, NEW a \in Actors, ~Queued(a), th[a].pc \in FaultPath, signal,
         NEW l \in Thread, th' = [th EXCEPT ![a] = l],
         l.pc \in {"user", "access", "exit", "init_pd"},
         a \in Creators => l.pc = "user" \/ l.pid \in Procs, UNCHANGED proc
  PROVE  Rest'
<1>1. th'[a] = l /\ \A b \in Actors : b # a => th'[b] = th[b]
  BY DEF TypeOK
<1>2. Mutex'
  <2>1. Holds(a) /\ th'[a].pc \notin FaultPath
    BY <1>1 DEF FaultPath, Holds
  <2> QED BY <1>1, <2>1, SignalStep DEF Rest
<1>3. Sound(a, l) /\ th[a].pc # "user"
  BY DEF Sound, FaultPath
<1>4. LocalsOK'
  BY <1>1, <1>3, OneThread DEF Rest
<1> QED BY <1>2, <1>4 DEF Rest

-----------------------------------------------------------------------------
(* Every action preserves the invariant.                                    *)

\* What a running process knows about itself.
LEMMA RunningFacts ==
  ASSUME TypeOK, Rest, NEW a \in Actors, NEW x, At(a, x)
  PROVE  /\ ~Queued(a) /\ th[a].pc = x /\ th[a] \in Thread
         /\ th \in [Actors -> Thread]
         /\ (x # "user" => a \in Creators \/ ~SlotFree(a))
         /\ (a \in Creators /\ x # "user" => th[a].pid \in Procs)
         /\ (x \in {"evict", "write_bs", "init", "read_bs"} => th[a].fr \in Frames)
<1>1. ~Queued(a) /\ th[a].pc = x
  BY DEF At, MayRun
<1>2. th \in [Actors -> Thread] /\ th[a] \in Thread
  BY DEF TypeOK
<1>3. a \in Creators \/ a \in Procs
  BY DEF Actors
<1> QED BY <1>1, <1>2, <1>3 DEF Rest, LocalsOK

\* An access either changes no locals of the kernel or calls wait(pf_sem).
LEMMA UserInv ==
  ASSUME TypeOK, Rest, NEW p \in Procs, Access(p) \/ Retry(p)
  PROVE  Rest'
<1>1. p \in Actors /\ p \notin Creators
  BY EnvironmentAssumption DEF Actors
<1>2. ~Queued(p) /\ th[p].pc \in {"user", "access"} /\ ~SlotFree(p)
  <2>1. CASE Access(p)
    BY <2>1 DEF Access, At, MayRun, Live, SlotFree
  <2>2. CASE Retry(p)
    <3>1. At(p, "access")
      BY <2>2 DEF Retry
    <3> QED BY <1>1, <3>1, RunningFacts
  <2> QED BY <2>1, <2>2
<1>3. PICK v \in Pages, w \in Values \cup {NOWRITE} : Perform(p, v, w) \/ PageFault(p, v, w)
  <2>1. CASE Access(p)
    <3>1. PICK v \in 0 .. proc[p].hsize, w \in Values \cup {NOWRITE} :
            Perform(p, v, w) \/ PageFault(p, v, w)
      BY <2>1 DEF Access
    <3>2. v \in Pages
      BY SizesAssumption DEF TypeOK, Pages
    <3> QED BY <3>1, <3>2
  <2>2. CASE Retry(p)
    <3>1. th[p].v \in Pages /\ th[p].w \in Values \cup {NOWRITE}
      BY <1>1 DEF TypeOK, Thread
    <3> QED BY <2>2, <3>1 DEF Retry
  <2> QED BY <2>1, <2>2
<1>4. CASE Perform(p, v, w)
  <2>1. th' = [th EXCEPT ![p] = Idle] /\ UNCHANGED <<pf_sem, proc>>
    BY <1>4 DEF Perform
  <2>2. Idle \in Thread /\ Idle.pc = "user"
    BY IdleType DEF Idle
  <2> QED BY <1>1, <1>2, <2>1, <2>2, OutsideStep
<1>5. CASE PageFault(p, v, w)
  <2> DEFINE l == [Idle EXCEPT !.pc = "pf", !.v = v, !.w = w]
  <2>1. th' = [th EXCEPT ![p] = l] /\ wait(p) /\ UNCHANGED proc
    BY <1>5 DEF PageFault
  <2>2. l \in Thread /\ l.pc = "pf"
    BY IdleType DEF Idle
  <2> HIDE DEF l
  <2> QED BY <1>1, <1>2, <2>1, <2>2, EnterStep
<1> QED BY <1>3, <1>4, <1>5

\* getNewFrameFIFO with an unused frame is a step of the holder of pf_sem.
LEMMA TakeFreeInv ==
  ASSUME TypeOK, Rest, NEW a \in Actors, TakeFree(a)
  PROVE  Rest'
<1>1. PICK f \in Frames : th' = [th EXCEPT ![a] = [@ EXCEPT !.fr = f, !.pc = "init"]]
  BY Zenon DEF TakeFree
<1> DEFINE l == [th[a] EXCEPT !.fr = f, !.pc = "init"]
<1>2. At(a, "alloc") /\ UNCHANGED <<pf_sem, proc>>
  BY DEF TakeFree
<1>3. l \in Thread /\ l.pc = "init" /\ l.fr = f /\ l.pid = th[a].pid
  <2>1. th[a] \in Thread
    BY <1>2, RunningFacts
  <2>2. l \in Thread
    BY <2>1, LocalsType
  <2>3. l.pc = "init" /\ l.fr = f /\ l.pid = th[a].pid
    BY <2>1 DEF Thread
  <2> QED BY <2>2, <2>3
<1>4. th' = [th EXCEPT ![a] = l]
  BY <1>1
<1>5. ~Queued(a) /\ th[a].pc \in FaultPath /\ "init" \in FaultPath
  BY <1>2, RunningFacts DEF FaultPath
<1> HIDE DEF l
<1> QED BY <1>2, <1>3, <1>4, <1>5, InsideStep

\* getNewFrameFIFO with a victim is a step of the holder of pf_sem.
LEMMA PickVictimInv ==
  ASSUME TypeOK, Rest, NEW a \in Actors, PickVictim(a)
  PROVE  Rest'
<1> DEFINE l == [th[a] EXCEPT !.fr = ft.flistTail, !.pc = "evict"]
<1>1. At(a, "alloc") /\ UNCHANGED <<pf_sem, proc>> /\ th' = [th EXCEPT ![a] = l]
  BY DEF PickVictim
<1>2. ft.flistTail \in Frames
  BY DEF PickVictim, TypeOK
<1>3. l \in Thread /\ l.pc = "evict" /\ l.fr = ft.flistTail /\ l.pid = th[a].pid
  <2>1. th[a] \in Thread
    BY <1>1, <1>2, RunningFacts
  <2>2. l \in Thread
    BY <1>2, <2>1, LocalsType
  <2>3. l.pc = "evict" /\ l.fr = ft.flistTail /\ l.pid = th[a].pid
    BY <2>1 DEF Thread
  <2> QED BY <2>2, <2>3
<1>4. ~Queued(a) /\ th[a].pc \in FaultPath /\ "evict" \in FaultPath
  BY <1>1, RunningFacts DEF FaultPath
<1> HIDE DEF l
<1> QED BY <1>1, <1>2, <1>3, <1>4, InsideStep

\* getNewFrame without a frame: init_pd calls signal, pf_handler stops.
LEMMA NoFrameAvailableInv ==
  ASSUME TypeOK, Rest, NEW a \in Actors, NoFrameAvailable(a)
  PROVE  Rest'
<1>1. CASE Stop("wild")
  BY <1>1, StopStep
<1>2. CASE ~Stop("wild")
  <2>1. At(a, "alloc") /\ signal /\ th' = [th EXCEPT ![a] = Idle] /\ UNCHANGED proc
    BY <1>2 DEF NoFrameAvailable
  <2>2. ~Queued(a) /\ th[a].pc \in FaultPath
    BY <2>1, RunningFacts DEF FaultPath
  <2>3. Idle \in Thread /\ Idle.pc = "user"
    BY IdleType DEF Idle
  <2> QED BY <2>1, <2>2, <2>3, LeaveFaultPath
<1> QED BY <1>1, <1>2

\* Entering the loop of getNewFrameGCA is a step of the holder of pf_sem.
LEMMA StartScanInv ==
  ASSUME TypeOK, Rest, NEW a \in Actors, StartScan(a)
  PROVE  Rest'
<1> DEFINE l == [th[a] EXCEPT !.pc = "scan", !.i = 0]
<1>1. At(a, "alloc") /\ UNCHANGED <<pf_sem, proc>> /\ th' = [th EXCEPT ![a] = l]
  BY DEF StartScan
<1>2. l \in Thread /\ l.pc = "scan" /\ l.pid = th[a].pid
  <2>1. th[a] \in Thread
    BY <1>1, RunningFacts
  <2>2. l \in Thread
    BY <2>1, LocalsType
  <2>3. l.pc = "scan" /\ l.pid = th[a].pid
    BY <2>1 DEF Thread
  <2> QED BY <2>2, <2>3
<1>3. ~Queued(a) /\ th[a].pc \in FaultPath /\ "scan" \in FaultPath
  BY <1>1, RunningFacts DEF FaultPath
<1> HIDE DEF l
<1> QED BY <1>1, <1>2, <1>3, InsideStep

\* An iteration of getNewFrameGCA is a step of the holder of pf_sem.
LEMMA ScanInv ==
  ASSUME TypeOK, Rest, NEW a \in Actors, Scan(a)
  PROVE  Rest'
<1> DEFINE c == nextframe.gca
           l1 == [th[a] EXCEPT !.fr = c, !.pc = "init"]
           l2 == [th[a] EXCEPT !.fr = c, !.pc = "evict"]
           l3 == [th[a] EXCEPT !.i = @ + 1]
<1>1. CASE Stop("panic") \/ Stop("wild")
  BY <1>1, StopStep
<1>2. CASE ~(Stop("panic") \/ Stop("wild"))
  <2>1. /\ At(a, "scan") /\ UNCHANGED <<pf_sem, proc>> /\ th[a].i <= ScanLimit
        /\ \/ th' = [th EXCEPT ![a] = l1]
           \/ th' = [th EXCEPT ![a] = l2]
           \/ th' = [th EXCEPT ![a] = l3]
    BY <1>2 DEF Scan
  <2>2. c \in Frames
    BY DEF TypeOK
  <2>3. /\ ~Queued(a) /\ th[a] \in Thread /\ th[a].pc = "scan" /\ th[a].pc \in FaultPath
        /\ "init" \in FaultPath /\ "evict" \in FaultPath
    BY <2>1, RunningFacts DEF FaultPath
  <2>4. th[a].i < 3 * NFRAMES + 1
    BY <2>1, <2>3, SizesAssumption DEF Thread, ScanLimit
  <2>5. l1 \in Thread /\ l1.pc = "init" /\ l1.fr = c /\ l1.pid = th[a].pid
    <3>1. th[a] \in Thread
      BY <2>2, <2>3
    <3>2. l1 \in Thread
      BY <2>2, <3>1, LocalsType
    <3>3. l1.pc = "init" /\ l1.fr = c /\ l1.pid = th[a].pid
      BY <3>1 DEF Thread
    <3> QED BY <3>2, <3>3
  <2>6. l2 \in Thread /\ l2.pc = "evict" /\ l2.fr = c /\ l2.pid = th[a].pid
    <3>1. th[a] \in Thread
      BY <2>2, <2>3
    <3>2. l2 \in Thread
      BY <2>2, <3>1, LocalsType
    <3>3. l2.pc = "evict" /\ l2.fr = c /\ l2.pid = th[a].pid
      BY <3>1 DEF Thread
    <3> QED BY <3>2, <3>3
  <2>7. l3 \in Thread /\ l3.pc = "scan" /\ l3.pid = th[a].pid
    BY <2>3, <2>4, LocalsType, ZenonT(30) DEF Thread
  <2> HIDE DEF l1, l2, l3, c
  <2> QED BY <2>1, <2>2, <2>3, <2>5, <2>6, <2>7, InsideStep
<1> QED BY <1>1, <1>2

\* evictFrame up to write_bs is a step of the holder of pf_sem.
LEMMA EvictInv ==
  ASSUME TypeOK, TypeOK', Rest, NEW a \in Actors, Evict(a)
  PROVE  Rest'
<1> DEFINE fr == th[a].fr
           q == ft.ipt[fr].pid
           v == ft.ipt[fr].vpn
           t == pd[q][vaddr2pdi(v)].pd_base
           j == vaddr2pti(v)
           s == VictimStore(a, q, v)
           l1 == [th[a] EXCEPT !.pc = "init"]
           l2 == [th[a] EXCEPT !.pc = "write_bs", !.ept = t, !.epti = j,
                               !.bsd = s, !.off = BsOff(v)]
<1>1. CASE Stop("panic") \/ Stop("wild")
  BY <1>1, StopStep
<1>2. CASE ~(Stop("panic") \/ Stop("wild"))
  <2>1. /\ At(a, "evict") /\ UNCHANGED <<pf_sem, proc>>
        /\ th' = [th EXCEPT ![a] = l1] \/ th' = [th EXCEPT ![a] = l2]
    BY <1>2 DEF Evict
  <2>2. /\ ~Queued(a) /\ th[a] \in Thread /\ th[a].pc \in FaultPath
        /\ th[a].fr \in Frames /\ "init" \in FaultPath /\ "write_bs" \in FaultPath
    BY <2>1, RunningFacts DEF FaultPath
  <2>3. /\ l1.pc = "init" /\ l1.fr = th[a].fr /\ l1.pid = th[a].pid
        /\ l2.pc = "write_bs" /\ l2.fr = th[a].fr /\ l2.pid = th[a].pid
    <3> HIDE DEF t, j, s, v
    <3> QED BY <2>2 DEF Thread
  <2> HIDE DEF l1, l2, t, j, s, v
  <2>4. th'[a] \in Thread /\ th'[a] \in {l1, l2}
    BY <2>1 DEF TypeOK
  <2> QED BY <2>1, <2>2, <2>3, <2>4, InsideStep
<1> QED BY <1>1, <1>2

\* The end of evictFrame is a step of the holder of pf_sem.
LEMMA WriteBsInv ==
  ASSUME TypeOK, Rest, NEW a \in Actors, WriteBs(a)
  PROVE  Rest'
<1> DEFINE l == [th[a] EXCEPT !.pc = "init", !.ept = EMPTY, !.epti = 0, !.bsd = 0, !.off = 0]
<1>1. At(a, "write_bs") /\ UNCHANGED <<pf_sem, proc>> /\ th' = [th EXCEPT ![a] = l]
  BY DEF WriteBs
<1>2. /\ ~Queued(a) /\ th[a] \in Thread /\ th[a].pc \in FaultPath
      /\ th[a].fr \in Frames /\ "init" \in FaultPath
  BY <1>1, RunningFacts DEF FaultPath
<1>3. l \in Thread
  BY <1>2, LocalsType
<1>4. l.pc = "init" /\ l.fr = th[a].fr /\ l.pid = th[a].pid
  BY <1>2 DEF Thread
<1> HIDE DEF l
<1> QED BY <1>1, <1>2, <1>3, <1>4, InsideStep

\* pf_handler goes on holding pf_sem, or signals it for an invalid address.
LEMMA PfHandlerInv ==
  ASSUME TypeOK, TypeOK', Rest, NEW p \in Procs, PfHandler(p)
  PROVE  Rest'
<1> DEFINE e == pd[p][vaddr2pdi(th[p].v)]
           y == IF e.pd_pres = 0 THEN "PTAB" ELSE "PAGE"
           x == IF e.pd_pres = 0 THEN EMPTY ELSE e.pd_base
           l1 == [Idle EXCEPT !.pc = "exit"]
           l2 == [th[p] EXCEPT !.pc = "alloc", !.type = y, !.pt = x]
<1>1. /\ At(p, "pf") /\ UNCHANGED proc
      /\ \/ signal /\ th' = [th EXCEPT ![p] = l1]
         \/ UNCHANGED pf_sem /\ th' = [th EXCEPT ![p] = l2]
  BY DEF PfHandler
<1>2. p \in Actors /\ p \notin Creators
  BY EnvironmentAssumption DEF Actors
<1>3. ~Queued(p) /\ th[p] \in Thread /\ th[p].pc \in FaultPath /\ "alloc" \in FaultPath
  BY <1>1, <1>2, RunningFacts DEF FaultPath
<1>4. l1 \in Thread /\ l1.pc = "exit"
  BY IdleType DEF Idle
<1>5. l2.pc = "alloc" /\ l2.pid = th[p].pid
  <2> HIDE DEF x, y
  <2> QED BY <1>3 DEF Thread
<1> HIDE DEF l1, l2
<1>6. CASE signal /\ th' = [th EXCEPT ![p] = l1]
  BY <1>1, <1>2, <1>3, <1>4, <1>6, LeaveFaultPath
<1>7. CASE UNCHANGED pf_sem /\ th' = [th EXCEPT ![p] = l2]
  <2>1. l2 \in Thread
    BY <1>2, <1>7 DEF TypeOK
  <2> QED BY <1>1, <1>2, <1>3, <1>5, <1>7, <2>1, InsideStep
<1> QED BY <1>1, <1>6, <1>7

\* newPageTable is a step of the holder of pf_sem.
LEMMA NewPageTableInv ==
  ASSUME TypeOK, Rest, NEW p \in Procs, NewPageTable(p)
  PROVE  Rest'
<1> DEFINE l == [th[p] EXCEPT !.pt = th[p].fr, !.fr = EMPTY, !.type = "PAGE",
                              !.pc = "alloc", !.i = 0]
<1>1. At(p, "init") /\ UNCHANGED <<pf_sem, proc>> /\ th' = [th EXCEPT ![p] = l]
  BY DEF NewPageTable
<1>2. p \in Actors
  BY DEF Actors
<1>3. /\ ~Queued(p) /\ th[p] \in Thread /\ th[p].pc \in FaultPath
      /\ th[p].fr \in Frames /\ "alloc" \in FaultPath
  BY <1>1, <1>2, RunningFacts DEF FaultPath
<1>4. l \in Thread
  BY <1>3, LocalsType
<1>5. l.pc = "alloc" /\ l.pid = th[p].pid
  BY <1>3 DEF Thread
<1> HIDE DEF l
<1> QED BY <1>1, <1>2, <1>3, <1>4, <1>5, InsideStep

\* Starting the read of a page is a step of the holder of pf_sem.
LEMMA LoadPageInv ==
  ASSUME TypeOK, TypeOK', Rest, NEW p \in Procs, LoadPage(p)
  PROVE  Rest'
<1> DEFINE s == BsOf(p, th[p].v)
           o == BsOff(th[p].v)
           l == [th[p] EXCEPT !.pc = "read_bs", !.bsd = s, !.off = o, !.i = 0]
<1>1. CASE Stop("panic")
  BY <1>1, StopStep
<1>2. CASE ~Stop("panic")
  <2>1. /\ At(p, "init") /\ BsValid(s, o) /\ UNCHANGED <<pf_sem, proc>>
        /\ th' = [th EXCEPT ![p] = l]
    BY <1>2 DEF LoadPage
  <2>2. p \in Actors
    BY DEF Actors
  <2>3. /\ ~Queued(p) /\ th[p] \in Thread /\ th[p].pc \in FaultPath
        /\ th[p].fr \in Frames /\ "read_bs" \in FaultPath
    BY <2>1, <2>2, RunningFacts DEF FaultPath
  <2>4. s \in Stores
    BY <2>1 DEF BsValid
  <2>5. l.pc = "read_bs" /\ l.pid = th[p].pid /\ l.fr = th[p].fr /\ l.bsd = s
    <3> HIDE DEF s, o
    <3> QED BY <2>3 DEF Thread
  <2> HIDE DEF l, s, o
  <2>6. l \in Thread
    BY <2>1, <2>2 DEF TypeOK
  <2> QED BY <2>1, <2>2, <2>3, <2>4, <2>5, <2>6, InsideStep
<1> QED BY <1>1, <1>2

\* pf_handler releases pf_sem when the page is mapped.
LEMMA ReadBsInv ==
  ASSUME TypeOK, Rest, NEW p \in Procs, ReadBs(p)
  PROVE  Rest'
<1> DEFINE l == [Idle EXCEPT !.pc = "access", !.v = th[p].v, !.w = th[p].w]
<1>1. At(p, "read_bs") /\ signal /\ UNCHANGED proc /\ th' = [th EXCEPT ![p] = l]
  BY DEF ReadBs
<1>2. p \in Actors /\ p \notin Creators
  BY EnvironmentAssumption DEF Actors
<1>3. ~Queued(p) /\ th[p] \in Thread /\ th[p].pc \in FaultPath
  BY <1>1, <1>2, RunningFacts DEF FaultPath
<1>4. l \in Thread /\ l.pc = "access"
  <2>1. th[p].v \in Pages /\ th[p].w \in Values \cup {NOWRITE}
    BY <1>3 DEF Thread
  <2>2. l \in Thread
    BY <2>1, IdleType
  <2>3. l.pc = "access"
    BY DEF Idle
  <2> QED BY <2>2, <2>3
<1> HIDE DEF l
<1> QED BY <1>1, <1>2, <1>3, <1>4, LeaveFaultPath

\* vcreate calls wait(pf_sem), or returns for lack of stores.
LEMMA VcreateInv ==
  ASSUME TypeOK, Rest, NEW a \in Creators, Vcreate(a)
  PROVE  Rest'
<1>1. a \in Actors /\ At(a, "user") /\ UNCHANGED proc
  BY DEF Actors, Vcreate
<1>2. PICK p \in Procs, h \in HSizes :
        \/ wait(a) /\ th' = [th EXCEPT ![a] = [Idle EXCEPT !.pc = "alloc", !.type = "PDIR",
                                                          !.pid = p, !.h = h]]
        \/ UNCHANGED <<pf_sem, th>>
  BY Zenon DEF Vcreate
<1> DEFINE l == [Idle EXCEPT !.pc = "alloc", !.type = "PDIR", !.pid = p, !.h = h]
<1>3. l \in Thread
  BY IdleType, EnvironmentAssumption
<1>4. l.pc = "alloc" /\ l.pid = p
  BY DEF Idle
<1>5. ~Queued(a) /\ th[a].pc = "user"
  BY <1>1, RunningFacts
<1>6. CASE wait(a) /\ th' = [th EXCEPT ![a] = l]
  <2> HIDE DEF l
  <2> QED BY <1>1, <1>3, <1>4, <1>5, <1>6, EnterStep
<1>7. CASE UNCHANGED <<pf_sem, th>>
  <2>1. Mutex'
    BY <1>7, QuietStep DEF Rest
  <2>2. LocalsOK'
    BY <1>1, <1>7 DEF Rest, LocalsOK, SlotFree
  <2> QED BY <2>1, <2>2 DEF Rest
<1> QED BY <1>2, <1>6, <1>7

\* init_pd releases pf_sem when it has its frame.
LEMMA NewPageDirectoryInv ==
  ASSUME TypeOK, Rest, NEW a \in Creators, NewPageDirectory(a)
  PROVE  Rest'
<1> DEFINE l == [Idle EXCEPT !.pc = "init_pd", !.pid = th[a].pid, !.h = th[a].h]
<1>1. a \in Actors /\ At(a, "init") /\ signal /\ UNCHANGED proc /\ th' = [th EXCEPT ![a] = l]
  BY DEF NewPageDirectory, Actors
<1>2. ~Queued(a) /\ th[a] \in Thread /\ th[a].pc \in FaultPath /\ th[a].pid \in Procs
  BY <1>1, RunningFacts DEF FaultPath
<1>3. l \in Thread
  <2>1. th[a].h \in 0 .. MAXHEAP
    BY <1>2 DEF Thread
  <2> QED BY <1>2, <2>1, IdleType
<1>4. l.pc = "init_pd" /\ l.pid = th[a].pid
  BY DEF Idle
<1> HIDE DEF l
<1> QED BY <1>1, <1>2, <1>3, <1>4, LeaveFaultPath

\* The new process starts outside the kernel.
LEMMA FinishVcreateInv ==
  ASSUME TypeOK, Rest, NEW a \in Creators, FinishVcreate(a)
  PROVE  Rest'
<1> DEFINE p == th[a].pid
<1>1. CASE Stop("dup_pid")
  BY <1>1, StopStep
<1>2. CASE ~Stop("dup_pid")
  <2>1. /\ At(a, "init_pd") /\ SlotFree(p) /\ UNCHANGED pf_sem
        /\ th' = [th EXCEPT ![a] = Idle, ![p] = Idle]
        /\ \E h, map : proc' = [proc EXCEPT ![p] = [prstate |-> "live", hsize |-> h,
                                                     pbsd |-> map]]
    BY <1>2, Zenon DEF FinishVcreate
  <2>2. a \in Actors /\ ~Queued(a) /\ th[a].pc = "init_pd" /\ p \in Procs /\ p \in Actors
    BY <2>1, RunningFacts DEF Actors
  <2>3. th[p].pc = "user" /\ Idle.pc = "user"
    BY <2>1, <2>2 DEF Rest, LocalsOK, Idle
  <2>4. ~Queued(p)
    BY <2>3, QueueFacts DEF Rest, Mutex, SemaphoreOK, Queued
  <2>5. /\ th'[a] = Idle /\ th'[p] = Idle
        /\ \A b \in Actors : b # a /\ b # p => th'[b] = th[b]
    BY <2>1, <2>2 DEF TypeOK
  <2>6. Mutex'
    BY <2>1, <2>2, <2>3, <2>4, <2>5, QuietStep DEF Rest, FaultPath
  <2>7. /\ proc'[p].prstate = "live"
        /\ \A q \in Procs : q # p => (SlotFree(q)' <=> SlotFree(q))
    <3>1. PICK h, map : proc' = [proc EXCEPT ![p] = [prstate |-> "live", hsize |-> h,
                                                     pbsd |-> map]]
      BY <2>1
    <3>2. \A q \in Procs : q # p => proc'[q] = proc[q]
      BY <3>1 DEF TypeOK
    <3>3. proc'[p] = [prstate |-> "live", hsize |-> h, pbsd |-> map]
      BY <2>2, <3>1 DEF TypeOK
    <3> QED BY <3>2, <3>3 DEF SlotFree
  <2>8. \A b \in Actors : Sound(b, Idle)
    BY <2>3 DEF Sound
  <2>9. LocalsOK'
    <3>1. \A b \in Actors : Sound(b, th'[b])
      BY <2>5, <2>8, LocalsFacts, Zenon DEF Rest
    <3>2. \A q \in Procs : SlotFree(q)' => th'[q].pc = "user"
      BY <2>2, <2>3, <2>5, <2>7, LocalsFacts DEF Rest, Actors, SlotFree
    <3> QED BY <3>1, <3>2, LocalsFacts, Zenon
  <2> QED BY <2>6, <2>9 DEF Rest
<1> QED BY <1>1, <1>2

\* kill starts outside the fault path.
LEMMA KillInv ==
  ASSUME TypeOK, Rest, NEW a \in Actors, NEW p \in Procs, Kill(a, p)
  PROVE  Rest'
<1> DEFINE l == [Idle EXCEPT !.pc = "kill", !.pid = p]
<1>1. /\ ~Queued(a) /\ UNCHANGED <<pf_sem, proc>> /\ th' = [th EXCEPT ![a] = l]
      /\ a \in Creators \/ ~SlotFree(a)
  BY DEF Kill, MayRun, Live, SlotFree
<1>2. l \in Thread
  BY IdleType
<1>3. l.pc = "kill" /\ l.pid = p
  BY DEF Idle
<1> HIDE DEF l
<1> QED BY <1>1, <1>2, <1>3, OutsideStep

\* freeProcFrames does not touch pf_sem.
LEMMA KillFrameInv ==
  ASSUME TypeOK, TypeOK', Rest, NEW a \in Actors, KillFrame(a)
  PROVE  Rest'
<1> DEFINE l == [th[a] EXCEPT !.i = @ + 1]
<1>1. CASE Stop("wild")
  BY <1>1, StopStep
<1>2. CASE ~Stop("wild")
  <2>1. At(a, "kill") /\ UNCHANGED <<pf_sem, proc>> /\ th' = [th EXCEPT ![a] = l]
    BY <1>2 DEF KillFrame
  <2>2. ~Queued(a) /\ th[a] \in Thread /\ th[a].pc = "kill" /\ th[a].pid \in Procs
    BY <2>1, RunningFacts DEF Rest, LocalsOK
  <2>3. l.pc = "kill" /\ l.pid = th[a].pid
    BY <2>2 DEF Thread
  <2> HIDE DEF l
  <2>4. l \in Thread
    BY <2>1 DEF TypeOK
  <2> QED BY <2>1, <2>2, <2>3, <2>4, OutsideStep
<1> QED BY <1>1, <1>2

\* The killed process leaves pf_sem, wherever in its queue it waits.
LEMMA FinishKillInv ==
  ASSUME TypeOK, Rest, NEW a \in Actors, FinishKill(a)
  PROVE  Rest'
<1> DEFINE p == th[a].pid
<1>1. /\ At(a, "kill") /\ th' = [th EXCEPT ![a] = Idle, ![p] = Idle]
      /\ proc' = [proc EXCEPT ![p].prstate = "free"]
  BY DEF FinishKill
<1>2. a \in Actors /\ ~Queued(a) /\ th[a].pc = "kill" /\ p \in Procs /\ p \in Actors
  BY <1>1, RunningFacts DEF Rest, LocalsOK, Actors
<1>3. /\ th'[a] = Idle /\ th'[p] = Idle /\ Idle.pc = "user"
      /\ \A b \in Actors : b # a /\ b # p => th'[b] = th[b]
  BY <1>1, <1>2 DEF TypeOK, Idle
<1>4. Mutex'
  <2>1. CASE ~Queued(p) /\ UNCHANGED pf_sem
    BY <1>2, <1>3, <2>1, QuietStep DEF Rest, FaultPath
  <2>2. CASE \E k \in 1 .. Len(pf_sem.queue) :
               /\ pf_sem.queue[k] = p
               /\ pf_sem' = [scount |-> pf_sem.scount + 1,
                             queue |-> SubSeq(pf_sem.queue, 1, k - 1) \o
                                       SubSeq(pf_sem.queue, k + 1, Len(pf_sem.queue))]
    <3>1. PICK k \in 1 .. Len(pf_sem.queue) :
            /\ pf_sem.queue[k] = p
            /\ pf_sem' = [scount |-> pf_sem.scount + 1,
                          queue |-> SubSeq(pf_sem.queue, 1, k - 1) \o
                                    SubSeq(pf_sem.queue, k + 1, Len(pf_sem.queue))]
      BY <2>2
    <3>2. th'[a].pc = "user" /\ th'[p].pc = "user"
      BY <1>3
    <3> HIDE DEF p
    <3> QED BY <1>2, <1>3, <3>1, <3>2, LeaveStep, Zenon DEF Rest
  <2> QED BY <2>1, <2>2, Zenon DEF FinishKill, LeaveQueue
<1>5. \A q \in Procs : q # p => (SlotFree(q)' <=> SlotFree(q))
  BY <1>1, <1>2 DEF SlotFree, TypeOK
<1>6. \A b \in Actors : Sound(b, Idle)
  BY <1>3 DEF Sound
<1>7. LocalsOK'
  <2>1. \A b \in Actors : Sound(b, th'[b])
    BY <1>3, <1>6, LocalsFacts, Zenon DEF Rest
  <2>2. \A q \in Procs : SlotFree(q)' => th'[q].pc = "user"
    BY <1>2, <1>3, <1>5, LocalsFacts DEF Rest, Actors
  <2> QED BY <2>1, <2>2, LocalsFacts, Zenon
<1> QED BY <1>4, <1>7 DEF Rest

\* srpolicy touches neither pf_sem nor the locals of a process.
LEMMA SrpolicyInv ==
  ASSUME TypeOK, Rest, NEW a \in Creators, srpolicy(a)
  PROVE  Rest'
<1>1. UNCHANGED <<pf_sem, th, proc>>
  BY DEF srpolicy
<1>2. Mutex'
  BY <1>1, QuietStep DEF Rest
<1>3. LocalsOK'
  BY <1>1 DEF Rest, LocalsOK, SlotFree
<1> QED BY <1>2, <1>3 DEF Rest

-----------------------------------------------------------------------------
(* The theorems.                                                            *)

\* After initialize_paging the invariant holds.
LEMMA InitInv == Init => IInv
<1> SUFFICES ASSUME Init PROVE IInv
  OBVIOUS
<1>1. ft \in FT
  <2>1. \A f \in Frames : BootFrame(f) \in FrameRec
    BY ClearedType, SizesAssumption DEF BootFrame, FrameRec, Statuses, Cleared
  <2> QED BY <2>1 DEF Init, FT, FrameOpt
<1>2. nextframe \in [fifo : Frames, gca : Frames]
  BY SizesAssumption DEF Init, Frames
<1>3. /\ pd \in [Procs -> [Tables -> PDE]]
      /\ pt \in [Frames -> [Slots -> PTE]]
  <2>1. NoPDE \in PDE
    BY DEF NoPDE, PDE
  <2> QED BY <2>1, PTEType DEF Init
<1>4. /\ mem \in [Frames -> Values] /\ val \in [Procs -> [Pages -> Values]]
      /\ disk \in [Stores -> [0 .. MAX_PAGES_PER_BS - 1 -> Values]]
  BY EnvironmentAssumption DEF Init
<1>5. /\ bstab \in [Stores -> [isallocated : BOOLEAN, npages : 0 .. MAX_PAGES_PER_BS]]
      /\ free_bs_count \in 0 .. WORD - 1
  BY SizesAssumption DEF Init
<1>6. proc \in [Procs -> [prstate : {"free", "live"}, hsize : 0 .. MAXHEAP,
                          pbsd : [Stores -> Stores \cup {SYSERR}]]]
  BY SizesAssumption, ZeroType DEF Init
<1>7. created \in 0 .. MAXCREATE /\ nextpid \in Procs
  BY SizesAssumption DEF Init, Procs
<1>8. th \in [Actors -> Thread]
  BY IdleType DEF Init
<1>9. /\ currpolicy \in {"FIFO", "GCA"} /\ cpu \in Actors \cup {NOBODY}
      /\ pf_sem \in [scount : Int, queue : Seq(Actors)]
      /\ fatal \in {"none", "panic", "wild", "dup_pid"}
  BY DEF Init
<1>10. TypeOK
  BY <1>1, <1>2, <1>3, <1>4, <1>5, <1>6, <1>7, <1>8, <1>9 DEF TypeOK, FT, FrameOpt
<1>11. \A a \in Actors : th[a].pc = "user"
  BY DEF Init, Idle
<1>12. SemaphoreOK /\ MutualExclusion
  BY <1>11 DEF Init, SemaphoreOK, MutualExclusion, Holds, FaultPath
<1>13. LocalsOK
  BY <1>11 DEF LocalsOK, Actors
<1> QED BY <1>10, <1>12, <1>13 DEF IInv

\* Every action of the kernel and of the processes preserves the invariant.
LEMMA StepInv == IInv /\ [Next]_vars => IInv'
<1> SUFFICES ASSUME TypeOK, Rest, [Next]_vars PROVE TypeOK' /\ Rest'
  BY RestFacts DEF IInv, Rest, Mutex
<1> USE DEF Rest, Mutex
<1>1. ASSUME NEW p \in Procs, Access(p) \/ Retry(p) PROVE TypeOK' /\ Rest'
  BY <1>1, UserType, UserInv
<1>2. ASSUME NEW p \in Procs, FaultStep(p) PROVE TypeOK' /\ Rest'
  <2>1. CASE PfHandler(p)
    BY <2>1, PfHandlerType, PfHandlerInv
  <2>2. CASE NewPageTable(p)
    BY <2>2, NewPageTableType, NewPageTableInv
  <2>3. CASE LoadPage(p)
    BY <2>3, LoadPageType, LoadPageInv
  <2>4. CASE ReadBs(p)
    BY <2>4, ReadBsType, ReadBsInv
  <2> QED BY <1>2, <2>1, <2>2, <2>3, <2>4 DEF FaultStep
<1>3. ASSUME NEW a \in Actors, FrameStep(a) PROVE TypeOK' /\ Rest'
  <2>1. CASE TakeFree(a)
    BY <2>1, TakeFreeType, TakeFreeInv
  <2>2. CASE PickVictim(a)
    BY <2>2, PickVictimType, PickVictimInv
  <2>3. CASE NoFrameAvailable(a)
    BY <2>3, NoFrameAvailableType, NoFrameAvailableInv
  <2>4. CASE StartScan(a)
    BY <2>4, StartScanType, StartScanInv
  <2>5. CASE Scan(a)
    BY <2>5, ScanType, ScanInv
  <2>6. CASE Evict(a)
    BY <2>6, EvictType, EvictInv
  <2>7. CASE WriteBs(a)
    BY <2>7, WriteBsType, WriteBsInv
  <2> QED BY <1>3, <2>1, <2>2, <2>3, <2>4, <2>5, <2>6, <2>7 DEF FrameStep
<1>4. ASSUME NEW a \in Actors, KillStep(a) PROVE TypeOK' /\ Rest'
  <2>1. CASE KillFrame(a)
    BY <2>1, KillFrameType, KillFrameInv
  <2>2. CASE FinishKill(a)
    BY <2>2, FinishKillType, FinishKillInv
  <2> QED BY <1>4, <2>1, <2>2 DEF KillStep
<1>5. ASSUME NEW a \in Actors, NEW p \in Procs, Kill(a, p) PROVE TypeOK' /\ Rest'
  BY <1>5, KillType, KillInv
<1>6. ASSUME NEW a \in Creators, CreateStep(a) PROVE TypeOK' /\ Rest'
  <2>1. CASE NewPageDirectory(a)
    BY <2>1, NewPageDirectoryType, NewPageDirectoryInv
  <2>2. CASE FinishVcreate(a)
    BY <2>2, FinishVcreateType, FinishVcreateInv
  <2> QED BY <1>6, <2>1, <2>2 DEF CreateStep
<1>7. ASSUME NEW a \in Creators, Vcreate(a) PROVE TypeOK' /\ Rest'
  BY <1>7, VcreateType, VcreateInv
<1>8. ASSUME NEW a \in Creators, srpolicy(a) PROVE TypeOK' /\ Rest'
  BY <1>8, SrpolicyType, SrpolicyInv
<1>9. CASE UNCHANGED vars
  <2>1. TypeOK'
    BY <1>9 DEF vars, TypeOK
  <2>2. Mutex'
    BY <1>9, QuietStep DEF vars
  <2>3. LocalsOK'
    BY <1>9 DEF vars, LocalsOK, SlotFree
  <2> QED BY <2>1, <2>2, <2>3
<1> HIDE DEF Rest, Mutex
<1>10. CASE Next
  BY <1>1, <1>2, <1>3, <1>4, <1>5, <1>6, <1>7, <1>8, <1>10, Zenon DEF Next
<1> QED BY <1>9, <1>10

\* The inductive invariant holds in every reachable state, for every number of
\* processes, frames, pages and stores, and whatever kill and srpolicy race
\* with.
THEOREM Invariance == Spec => []IInv
BY InitInv, StepInv, PTL DEF Spec

\* The count and the queue of pf_sem agree, nobody waits in it twice, and a
\* count of 1 means that no process is inside: wait, signal, and the removal of
\* a killed waiter by kill keep the semaphore usable.
THEOREM SemaphoreCorrect == Spec => []SemaphoreOK
<1>1. IInv => SemaphoreOK
  BY DEF IInv
<1> QED BY <1>1, Invariance, PTL

\* Type correctness: no operation of the pager stores a frame number, a page
\* number, a store number or a reference count outside its range; the
\* counters that wrap (refCount, free_bs_count, both scan cursors and the
\* loop counters) stay within their bounds.
THEOREM TypeCorrect == Spec => []TypeOK
<1>1. IInv => TypeOK
  BY DEF IInv
<1> QED BY <1>1, Invariance, PTL

\* pf_sem excludes: at most one process is between wait(pf_sem) and
\* signal(pf_sem) in pf_handler and init_pd together, also when processes are
\* killed while they hold it or wait for it.
THEOREM MutexCorrect == Spec => []MutualExclusion
<1>1. IInv => MutualExclusion
  BY DEF IInv
<1> QED BY <1>1, Invariance, PTL
=============================================================================
