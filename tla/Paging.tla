------------------------------- MODULE Paging -------------------------------
(***************************************************************************)
(* Demand paging of process heaps: the page fault handler, the inverted    *)
(* page table with FIFO and global-clock (GCA) replacement, page tables    *)
(* with reference counts, the backing store map of a process, and the      *)
(* system calls that create and destroy paged processes (system/ipt.c,     *)
(* system/paging.c, paging/bs.c, system/vcreate.c, system/kill.c,          *)
(* system/srpolicy.c).                                                     *)
(*                                                                         *)
(* The kernel runs with interrupts disabled on one processor, so it gives  *)
(* up control only where it blocks or makes another process ready: in      *)
(* wait(pf_sem), in signal(pf_sem) with a waiter, and in the remote disk   *)
(* I/O of read_bs and write_bs.  A kernel path is cut into several actions *)
(* for readability; cpu names the process inside such a path, and no other *)
(* process takes a step until the path blocks or returns (cpu = NOBODY).   *)
(***************************************************************************)
EXTENDS Integers, Sequences, FiniteSets

CONSTANTS
  NPROC,             \* process slots 1..NPROC available to vcreate
  Creators,          \* processes without a virtual heap: call vcreate, kill, srpolicy
  NOBODY,            \* no process is inside a non-preemptible kernel path
  NFRAMES,           \* frames of the inverted page table
  NUM_GLOBAL,        \* global and device page tables made at boot
  PAGETABSIZE,       \* entries of a page table
  MAX_BS_ENTRIES,    \* backing stores
  MAX_PAGES_PER_BS,  \* pages of a backing store
  Values,            \* contents of a page; the initial contents are 0
  MAXHEAP,           \* bound: heaps have at most MAXHEAP pages
  HSizes,            \* bound: the heap sizes vcreate is called with
  MAXCREATE,         \* bound: calls of vcreate that get as far as init_pd
  Policies,          \* bound: the policies srpolicy is called with
  WORD,              \* uint32 arithmetic is modulo WORD (2^32 in the code)
  KillRaces,         \* may kill hit a process inside the fault path, or one
                     \* whose page is being written out?
  SwitchWhileLive    \* may srpolicy be called while pages are resident?

Procs  == 1 .. NPROC
Actors == Procs \cup Creators
Frames == 0 .. NFRAMES - 1
Pages  == 0 .. MAXHEAP                        \* MAXHEAP itself is never a heap page
Tables == {v \div PAGETABSIZE : v \in Pages}   \* page directory entries for the heap
Slots  == 0 .. PAGETABSIZE - 1                \* entries of a page table
Stores == 0 .. MAX_BS_ENTRIES - 1

ASSUME SizesAssumption ==
  /\ NPROC \in Nat \ {0} /\ NFRAMES \in Nat /\ NUM_GLOBAL \in Nat
  /\ PAGETABSIZE \in Nat \ {0}
  /\ MAX_BS_ENTRIES \in Nat \ {0} /\ MAX_PAGES_PER_BS \in Nat \ {0}
  /\ MAXHEAP \in Nat /\ MAXHEAP < MAX_BS_ENTRIES * MAX_PAGES_PER_BS
  /\ MAXCREATE \in Nat
  /\ WORD \in Nat /\ WORD > MAX_BS_ENTRIES /\ WORD > PAGETABSIZE
  /\ NUM_GLOBAL + 1 < NFRAMES

ASSUME EnvironmentAssumption ==
  /\ 0 \in Values /\ Values \subseteq Nat
  /\ HSizes \subseteq 0 .. MAXHEAP
  /\ Policies \subseteq {"FIFO", "GCA"}
  /\ Creators \cap Procs = {} /\ NOBODY \notin Actors
  /\ KillRaces \in BOOLEAN /\ SwitchWhileLive \in BOOLEAN

EMPTY      == -1
NO_VPN     == -1
GLOBAL     == -1
NO_PROCESS == -2
NULLPROC   == 0
SYSERR     == -1
NOWRITE    == -1       \* the pending access is a read
Statuses   == {"NOT_USED", "PDIR", "PTAB", "PAGE"}

VARIABLES
  ft,            \* [ipt, flistHead, flistTail]: inverted page table, FIFO queue
  nextframe,     \* the static cursors of getNewFrameFIFO and getNewFrameGCA
  currpolicy,
  pd,            \* pd[p][i]: entry i of p's page directory, its heap part
  pt,            \* pt[f][j]: entry j of frame f read as a page table
  mem,           \* mem[f]: contents of frame f read as a page
  disk,          \* disk[s][o]: contents of page o of backing store s
  bstab,         \* bstab[s]: [isallocated, npages]
  free_bs_count,
  proc,          \* proc[p]: [prstate, hsize, pbsd]
  created,       \* bound: how often MAXCREATE has been used up
  nextpid,       \* static cursor of newpid in vcreate.c
  pf_sem,        \* [scount, queue]
  cpu,           \* the process inside a non-preemptible kernel path, or NOBODY
  th,            \* th[a]: program counter and kernel locals of a
  val,           \* history: val[p][v] is what p last wrote to its page v
  fatal          \* why the kernel went out of control: "none" while it did not

vars == <<ft, nextframe, currpolicy, pd, pt, mem, disk, bstab, free_bs_count,
          proc, created, nextpid, pf_sem, cpu, th, val, fatal>>

-----------------------------------------------------------------------------
(* State space. *)

FrameRec == [status : Statuses, pid : Procs \cup {GLOBAL, NO_PROCESS, NULLPROC},
             vpn : Pages \cup {NO_VPN}, refCount : 0 .. WORD - 1,
             nextFrame : Frames \cup {EMPTY}, prevFrame : Frames \cup {EMPTY}]
PDE == [pd_pres : {0, 1}, pd_base : Frames \cup {EMPTY}]
PTE == [pt_pres : {0, 1}, pt_acc : {0, 1}, pt_dirty : {0, 1}, pt_avail : {0, 1},
        pt_base : Frames \cup {EMPTY}]
Labels == {"user", "access", "pf", "alloc", "scan", "evict", "write_bs", "init",
           "read_bs", "init_pd", "exit", "kill"}
Thread == [pc : Labels, v : Pages, w : Values \cup {NOWRITE}, type : Statuses,
           pt : Frames \cup {EMPTY}, fr : Frames \cup {EMPTY},
           ept : Frames \cup {EMPTY}, epti : Slots,
           bsd : Stores \cup {SYSERR}, off : 0 .. MAX_PAGES_PER_BS - 1,
           pid : Procs \cup {NO_PROCESS}, h : 0 .. MAXHEAP, i : 0 .. 3 * NFRAMES + 1]
Idle == [pc |-> "user", v |-> 0, w |-> NOWRITE, type |-> "NOT_USED",
         pt |-> EMPTY, fr |-> EMPTY, ept |-> EMPTY, epti |-> 0, bsd |-> 0,
         off |-> 0, pid |-> NO_PROCESS, h |-> 0, i |-> 0]

vaddr2pdi(v) == v \div PAGETABSIZE
vaddr2pti(v) == v % PAGETABSIZE
bsReq(h) == IF h = 0 THEN 0 ELSE 1 + ((h - 1) \div MAX_PAGES_PER_BS)
NoPDE == [pd_pres |-> 0, pd_base |-> EMPTY]
NoPTE == [pt_pres |-> 0, pt_acc |-> 0, pt_dirty |-> 0, pt_avail |-> 0, pt_base |-> EMPTY]

Live(p) == proc[p].prstate = "live"
\* Seeded bug: the first address beyond the heap is accepted.
isInvalidAddrOffByOne(p, v) == v > proc[p].hsize
isInvalidAddr(p, v) == v >= proc[p].hsize

\* The translation the MMU performs for heap page v of p.
Mapped(p, v) ==
  LET e == pd[p][vaddr2pdi(v)]
  IN  /\ e.pd_pres = 1
      /\ e.pd_base # EMPTY
      /\ pt[e.pd_base][vaddr2pti(v)].pt_pres = 1
FrameOf(p, v) == pt[pd[p][vaddr2pdi(v)].pd_base][vaddr2pti(v)].pt_base

-----------------------------------------------------------------------------
(* The inverted page table and its FIFO queue: functions of the table t.    *)

Cleared == [status |-> "NOT_USED", pid |-> NO_PROCESS, vpn |-> NO_VPN,
            refCount |-> 0, nextFrame |-> EMPTY, prevFrame |-> EMPTY]

\* Seeded bug: a freed frame keeps its status.
clearFrameKeepsStatus(t, fr) == [t EXCEPT !.ipt[fr] = [Cleared EXCEPT !.status = t.ipt[fr].status]]
clearFrame(t, fr) == [t EXCEPT !.ipt[fr] = Cleared]

SetNext(t, f, g) == [t EXCEPT !.ipt[f].nextFrame = g]
SetPrev(t, f, g) == [t EXCEPT !.ipt[f].prevFrame = g]
SetHead(t, f) == [t EXCEPT !.flistHead = f]
SetTail(t, f) == [t EXCEPT !.flistTail = f]

\* freeFrameFIFO writes through prevFrame and nextFrame where it expects a
\* neighbour; with EMPTY there it writes outside the table.
Unlinkable(t, fr) ==
  /\ (fr # t.flistTail => t.ipt[fr].nextFrame # EMPTY)
  /\ (fr # t.flistHead => t.ipt[fr].prevFrame # EMPTY)

\* Seeded bug: the successor keeps its link to the removed frame.
freeFrameFIFO_NoBackLink(t, fr) ==
  LET prev == t.ipt[fr].prevFrame
      next == t.ipt[fr].nextFrame
  IN  CASE fr = t.flistHead /\ fr = t.flistTail -> SetHead(SetTail(t, EMPTY), EMPTY)
        [] fr = t.flistHead /\ fr # t.flistTail -> SetHead(SetPrev(t, next, EMPTY), next)
        [] fr # t.flistHead /\ fr = t.flistTail -> SetTail(SetNext(t, prev, EMPTY), prev)
        [] OTHER -> SetNext(t, prev, next)
\* Seeded bug: every frame is unlinked as if it were the head.
freeFrameFIFO_HeadOnly(t, fr) ==
  SetHead(SetTail(t, IF fr = t.flistTail THEN EMPTY ELSE t.flistTail), t.ipt[fr].nextFrame)
\* freeFrameFIFO: the only element, the head, the tail, or one in the middle.
freeFrameFIFO(t, fr) ==
  LET prev == t.ipt[fr].prevFrame
      next == t.ipt[fr].nextFrame
  IN  CASE fr = t.flistHead /\ fr = t.flistTail -> SetHead(SetTail(t, EMPTY), EMPTY)
        [] fr = t.flistHead /\ fr # t.flistTail -> SetHead(SetPrev(t, next, EMPTY), next)
        [] fr # t.flistHead /\ fr = t.flistTail -> SetTail(SetNext(t, prev, EMPTY), prev)
        [] OTHER -> SetPrev(SetNext(t, prev, next), next, prev)

\* freeFrameGCA does nothing, so only FIFO unlinks a page frame.
Unlinks(t, policy, fr) == policy = "FIFO" /\ t.ipt[fr].status = "PAGE"
freeFrame(t, policy, fr) ==
  clearFrame(IF Unlinks(t, policy, fr) THEN freeFrameFIFO(t, fr) ELSE t, fr)

\* Seeded bug: a page enters the queue at the end victims leave from.
init_frame_FIFO_AtTail(t, fr) ==
  IF t.flistHead = EMPTY /\ t.flistTail = EMPTY
  THEN SetHead(SetTail(t, fr), fr)
  ELSE SetTail(SetNext(SetPrev(t, fr, t.flistTail), t.flistTail, fr), fr)
\* A page enters the queue at its head.
init_frame_FIFO(t, fr) ==
  IF t.flistHead = EMPTY /\ t.flistTail = EMPTY
  THEN SetHead(SetTail(t, fr), fr)
  ELSE SetHead(SetPrev(SetNext(t, fr, t.flistHead), t.flistHead, fr), fr)

init_frame(t, policy, fr, type, pid, vpn) ==
  LET u == [t EXCEPT !.ipt[fr] = [Cleared EXCEPT !.status = type, !.pid = pid,
                                                 !.vpn = vpn]]
  IN  IF type = "PAGE" /\ policy = "FIFO" THEN init_frame_FIFO(u, fr) ELSE u

\* pickFrameFIFO: the tail is the victim; its own links are left as they are.
pickFrameFIFO(t) ==
  LET prev == t.ipt[t.flistTail].prevFrame
  IN  IF t.flistTail = t.flistHead THEN SetHead(SetTail(t, EMPTY), EMPTY)
                                   ELSE SetNext(SetTail(t, prev), prev, EMPTY)

\* Seeded bug: a page is counted twice.
incRefCountTwice(t, f) == [t EXCEPT !.ipt[f].refCount = (@ + 2) % WORD]
\* The count of present entries of the page table in frame f.
incRefCount(t, f) == [t EXCEPT !.ipt[f].refCount = (@ + 1) % WORD]

\* decRefCount without the page directory update: the page table frame is
\* freed when its count, after the decrement, is zero.
decRefCount(t, policy, f) ==
  LET u == [t EXCEPT !.ipt[f].refCount = (@ + WORD - 1) % WORD]
  IN  IF u.ipt[f].refCount = 0 THEN freeFrame(u, policy, f) ELSE u

-----------------------------------------------------------------------------
(* Processes, the semaphore, and control flow. *)

Queued(a) == \E k \in 1 .. Len(pf_sem.queue) : pf_sem.queue[k] = a
MayRun(a) == fatal = "none" /\ cpu \in {a, NOBODY} /\ ~Queued(a)
At(a, label) == MayRun(a) /\ th[a].pc = label
Owner(a) == IF a \in Creators THEN th[a].pid ELSE a

\* Seeded bug: the caller blocks only when others already wait.
waitOffByOne(a) ==
  /\ pf_sem' = [scount |-> pf_sem.scount - 1,
                queue |-> IF pf_sem.scount < 0 THEN Append(pf_sem.queue, a)
                                               ELSE pf_sem.queue]
  /\ cpu' = IF pf_sem.scount < 0 THEN NOBODY ELSE a
\* wait(pf_sem): the caller continues at once or joins the queue and blocks.
wait(a) ==
  /\ pf_sem' = [scount |-> pf_sem.scount - 1,
                queue |-> IF pf_sem.scount - 1 < 0 THEN Append(pf_sem.queue, a)
                                                   ELSE pf_sem.queue]
  /\ cpu' = IF pf_sem.scount - 1 < 0 THEN NOBODY ELSE a

\* Seeded bug: the count is raised but no waiter is made ready.
signalWakesNobody == pf_sem' = [pf_sem EXCEPT !.scount = @ + 1]
\* signal(pf_sem): a waiter, if there is one, becomes ready.
signal == pf_sem' = [scount |-> pf_sem.scount + 1,
                     queue |-> IF pf_sem.scount < 0 THEN Tail(pf_sem.queue)
                                                    ELSE pf_sem.queue]
\* Making a waiter ready calls the scheduler; otherwise the caller goes on.
AfterSignal(a) == IF pf_sem.scount < 0 THEN NOBODY ELSE a

frameVars == <<ft, nextframe>>
tableVars == <<pd, pt>>
dataVars  == <<mem, disk, val>>
storeVars == <<bstab, free_bs_count>>
procVars  == <<proc, created, nextpid>>

\* The kernel stops (panic) or writes outside its data (wild, dup_pid): the
\* model ends here.
Stop(why) ==
  /\ fatal' = why
  /\ UNCHANGED <<ft, nextframe, currpolicy, pd, pt, mem, disk, bstab,
                 free_bs_count, proc, created, nextpid, pf_sem, cpu, th, val>>

-----------------------------------------------------------------------------
(* User mode: the MMU performs an access, or raises a page fault.           *)

\* The MMU sets the accessed bit, and the dirty bit on a write.
Touched(e, w) == [e EXCEPT !.pt_acc = 1, !.pt_dirty = IF w = NOWRITE THEN @ ELSE 1]

Perform(p, v, w) ==
  LET t == pd[p][vaddr2pdi(v)].pd_base
      j == vaddr2pti(v)
  IN  /\ pt' = [pt EXCEPT ![t][j] = Touched(@, w)]
      /\ mem' = IF w = NOWRITE THEN mem ELSE [mem EXCEPT ![FrameOf(p, v)] = w]
      /\ val' = IF w = NOWRITE THEN val ELSE [val EXCEPT ![p][v] = w]
      /\ th' = [th EXCEPT ![p] = Idle]
      /\ UNCHANGED <<frameVars, currpolicy, pd, disk, storeVars, procVars,
                     pf_sem, cpu, fatal>>

\* pf_dispatcher and the first lines of pf_handler, up to wait(pf_sem).
PageFault(p, v, w) ==
  /\ wait(p)
  /\ th' = [th EXCEPT ![p] = [Idle EXCEPT !.pc = "pf", !.v = v, !.w = w]]
  /\ UNCHANGED <<frameVars, currpolicy, tableVars, dataVars, storeVars, procVars, fatal>>

\* A process touches one of its pages, or the first page beyond its heap.
Access(p) ==
  /\ At(p, "user") /\ cpu = NOBODY /\ Live(p)
  /\ \E v \in 0 .. proc[p].hsize, w \in Values \cup {NOWRITE} :
       \/ Mapped(p, v) /\ Perform(p, v, w)
       \/ ~Mapped(p, v) /\ PageFault(p, v, w)

\* The instruction that faulted is executed again when the handler returns.
Retry(p) ==
  /\ At(p, "access") /\ cpu = NOBODY
  /\ \/ Mapped(p, th[p].v) /\ Perform(p, th[p].v, th[p].w)
     \/ ~Mapped(p, th[p].v) /\ PageFault(p, th[p].v, th[p].w)

-----------------------------------------------------------------------------
(* Allocation of a frame: getNewFrame, from its call to init_frame.         *)

Free(f) == ft.ipt[f].status = "NOT_USED"
NoFrames == \A f \in Frames : ~Free(f)
\* Seeded bug: the cursor does not wrap.
NextFrameNoWrap(f) == f + 1
\* The frames from the cursor c on, in the order of the cyclic scan.
NextFrame(f) == (f + 1) % NFRAMES
Distance(c, f) == (f + NFRAMES - c) % NFRAMES
FirstFree(c, f) == Free(f) /\ \A g \in Frames : Free(g) => Distance(c, f) <= Distance(c, g)

\* getNewFrameFIFO finds an unused frame.
TakeFree(a) ==
  /\ At(a, "alloc") /\ currpolicy = "FIFO"
  /\ \E f \in Frames :
       /\ FirstFree(nextframe.fifo, f)
       /\ nextframe' = [nextframe EXCEPT !.fifo = NextFrame(f)]
       /\ th' = [th EXCEPT ![a] = [@ EXCEPT !.fr = f, !.pc = "init"]]
  /\ cpu' = a
  /\ UNCHANGED <<ft, currpolicy, tableVars, dataVars, storeVars, procVars, pf_sem, fatal>>

\* getNewFrameFIFO finds none and takes the tail of the queue as its victim.
PickVictim(a) ==
  /\ At(a, "alloc") /\ currpolicy = "FIFO" /\ NoFrames
  /\ ft.flistTail # EMPTY /\ Unlinkable(ft, ft.flistTail)
  /\ ft' = pickFrameFIFO(ft)
  /\ th' = [th EXCEPT ![a] = [@ EXCEPT !.fr = ft.flistTail, !.pc = "evict"]]
  /\ cpu' = a
  /\ UNCHANGED <<nextframe, currpolicy, tableVars, dataVars, storeVars, procVars, pf_sem, fatal>>

\* No unused frame and an empty queue: getNewFrame returns SYSERR.  init_pd
\* releases pf_sem and vcreate gives up; newPageTable and pf_handler go on
\* with SYSERR as the address of a frame.  A queue with a head and no tail, or
\* with a broken link at its tail, makes pickFrameFIFO write outside the table.
NoFrameAvailable(a) ==
  /\ At(a, "alloc") /\ currpolicy = "FIFO" /\ NoFrames
  /\ ft.flistTail = EMPTY \/ ~Unlinkable(ft, ft.flistTail)
  /\ \/ /\ ft.flistTail = EMPTY /\ ft.flistHead = EMPTY /\ th[a].type = "PDIR"
        /\ signal
        /\ cpu' = NOBODY
        /\ th' = [th EXCEPT ![a] = Idle]
        /\ UNCHANGED <<frameVars, currpolicy, tableVars, dataVars, storeVars, procVars, fatal>>
     \/ /\ ft.flistTail # EMPTY \/ ft.flistHead # EMPTY \/ th[a].type # "PDIR"
        /\ Stop("wild")

\* getNewFrameGCA starts its loop.
StartScan(a) ==
  /\ At(a, "alloc") /\ currpolicy = "GCA"
  /\ th' = [th EXCEPT ![a] = [@ EXCEPT !.pc = "scan", !.i = 0]]
  /\ cpu' = a
  /\ UNCHANGED <<frameVars, currpolicy, tableVars, dataVars, storeVars, procVars, pf_sem, fatal>>

\* getAndSetUM: the use/modify bits of an entry, and what it leaves behind.
\* A dirty bit that is cleared is remembered in pt_avail.
UM(e) == CASE e.pt_acc = 1 /\ e.pt_dirty = 1 -> "UM11"
           [] e.pt_acc = 1 /\ e.pt_dirty = 0 -> "UM10"
           [] e.pt_acc = 0 /\ e.pt_dirty = 0 -> "UM00"
           [] OTHER -> "panic"
Aged(e) == CASE UM(e) = "UM11" -> [e EXCEPT !.pt_dirty = 0, !.pt_avail = 1]
             [] UM(e) = "UM10" -> [e EXCEPT !.pt_acc = 0]
             [] OTHER -> e

\* Page frames that the clock does not look at.
Skipped(f) == f.pid \in {GLOBAL, NO_PROCESS} \/ f.vpn = NO_VPN

\* Seeded bug: the clock gives up after one round.
ScanLimitOneRound == NFRAMES
ScanLimit == 3 * NFRAMES      \* the last value of i in the loop

\* One iteration of the loop of getNewFrameGCA.
Scan(a) ==
  LET c == nextframe.gca
      f == ft.ipt[c]
      t == pd[f.pid][vaddr2pdi(f.vpn)].pd_base
      j == vaddr2pti(f.vpn)
      bits == UM(pt[t][j])
      Advance == nextframe' = [nextframe EXCEPT !.gca = NextFrame(c)]
      Rest == UNCHANGED <<ft, currpolicy, pd, dataVars, storeVars, procVars, pf_sem, fatal>>
  IN  /\ At(a, "scan")
      /\ \/ /\ th[a].i > ScanLimit
            /\ Stop("wild")                      \* evictFrame((uint32)-1)
         \/ /\ th[a].i <= ScanLimit /\ f.status = "NOT_USED"
            /\ Advance
            /\ th' = [th EXCEPT ![a] = [@ EXCEPT !.fr = c, !.pc = "init"]]
            /\ cpu' = a
            /\ UNCHANGED pt /\ Rest
         \/ /\ th[a].i <= ScanLimit
            /\ f.status \in {"PDIR", "PTAB"} \/ (f.status = "PAGE" /\ Skipped(f))
            /\ Advance
            /\ th' = [th EXCEPT ![a].i = @ + 1]
            /\ cpu' = a
            /\ UNCHANGED pt /\ Rest
         \/ /\ th[a].i <= ScanLimit /\ f.status = "PAGE"
            /\ ~Skipped(f) /\ t \in Frames /\ bits # "panic"
            /\ Advance
            /\ pt' = [pt EXCEPT ![t][j] = Aged(@)]
            /\ th' = IF bits = "UM00" THEN [th EXCEPT ![a] = [@ EXCEPT !.fr = c, !.pc = "evict"]]
                                      ELSE [th EXCEPT ![a].i = @ + 1]
            /\ cpu' = a
            /\ Rest
         \/ /\ th[a].i <= ScanLimit /\ f.status = "PAGE"
            /\ ~Skipped(f) /\ t \in Frames /\ bits = "panic"
            /\ Stop("panic")
         \/ /\ th[a].i <= ScanLimit /\ f.status = "PAGE"
            /\ ~Skipped(f) /\ t \notin Frames
            /\ Stop("wild")

\* get_bs_info: the store and the page of it that hold heap page v of p.
BsOf(p, v) == proc[p].pbsd[v \div MAX_PAGES_PER_BS]
BsOff(v) == v % MAX_PAGES_PER_BS
\* read_bs and write_bs return SYSERR, and their callers panic, otherwise.
\* isopen, which they test, changes with isallocated.
BsValid(s, o) == s \in Stores /\ bstab[s].isallocated /\ o < bstab[s].npages

\* Seeded bug: the store of the faulting process, not of the owner.
VictimStoreOfCaller(a, q, v) == BsOf(Owner(a), v)
\* The page goes to the victim's store.
VictimStore(a, q, v) == BsOf(q, v)
\* Seeded bug: the dirty bit that the clock cleared is forgotten.
NeedsWriteDirtyOnly(e) == e.pt_dirty = 1
\* Seeded bug: only pages that the clock has aged are written.
NeedsWriteAvailOnly(e) == e.pt_avail = 1
\* The page differs from its store, even if the clock has cleared the dirty bit.
NeedsWrite(e) == e.pt_dirty = 1 \/ e.pt_avail = 1
\* Seeded bug: the victim's page stays present.
MarkAbsentForgotten(e) == e
\* pt_base is read only when the entry is present, so it is reset as well.
MarkAbsent(e) == [e EXCEPT !.pt_pres = 0, !.pt_base = EMPTY]

\* evictFrame up to write_bs: the entry is marked not present, the page table
\* loses a reference, and is freed with the last one.
Evict(a) ==
  LET fr == th[a].fr
      q == ft.ipt[fr].pid
      v == ft.ipt[fr].vpn
      t == pd[q][vaddr2pdi(v)].pd_base
      j == vaddr2pti(v)
      u == decRefCount(ft, currpolicy, t)
      s == VictimStore(a, q, v)
      dirty == NeedsWrite(pt[t][j])
      sound == ft.ipt[fr].status = "PAGE" /\ t \in Frames /\ ft.ipt[t].status = "PTAB"
      Unmap == /\ pt' = [pt EXCEPT ![t][j] = MarkAbsent(@)]
               /\ ft' = u
               /\ pd' = IF u.ipt[t].status = "NOT_USED"
                        THEN [pd EXCEPT ![q][vaddr2pdi(v)].pd_pres = 0] ELSE pd
               /\ UNCHANGED <<nextframe, currpolicy, dataVars, storeVars, procVars,
                              pf_sem, fatal>>
  IN  /\ At(a, "evict")
      /\ \/ /\ sound /\ ~dirty
            /\ Unmap
            /\ th' = [th EXCEPT ![a].pc = "init"]
            /\ cpu' = a
         \/ /\ sound /\ dirty /\ BsValid(s, BsOff(v))
            /\ Unmap
            /\ th' = [th EXCEPT ![a] = [@ EXCEPT !.pc = "write_bs", !.ept = t, !.epti = j,
                                               !.bsd = s, !.off = BsOff(v)]]
            /\ cpu' = NOBODY
         \/ /\ sound /\ dirty /\ ~BsValid(s, BsOff(v))
            /\ Stop("panic")
         \/ ~sound /\ Stop("wild")

\* The remote disk has stored the page; evictFrame resets the entry's bits.
WriteBs(a) ==
  LET l == th[a]
  IN  /\ At(a, "write_bs")
      /\ disk' = [disk EXCEPT ![l.bsd][l.off] = mem[l.fr]]
      /\ pt' = [pt EXCEPT ![l.ept][l.epti] = [@ EXCEPT !.pt_dirty = 0, !.pt_avail = 0]]
      /\ th' = [th EXCEPT ![a] = [@ EXCEPT !.pc = "init", !.ept = EMPTY, !.epti = 0,
                                         !.bsd = 0, !.off = 0]]
      /\ cpu' = a
      /\ UNCHANGED <<frameVars, currpolicy, pd, mem, val, storeVars, procVars, pf_sem, fatal>>

-----------------------------------------------------------------------------
(* The page fault handler. *)

\* pf_handler after wait(pf_sem), up to the first call of getNewFrame.
PfHandler(p) ==
  LET e == pd[p][vaddr2pdi(th[p].v)]
  IN  /\ At(p, "pf")
      /\ \/ /\ isInvalidAddr(p, th[p].v)
            /\ signal
            /\ cpu' = NOBODY
            /\ th' = [th EXCEPT ![p] = [Idle EXCEPT !.pc = "exit"]]
         \/ /\ ~isInvalidAddr(p, th[p].v)
            /\ th' = [th EXCEPT ![p] =
                     [@ EXCEPT !.pc = "alloc",
                               !.type = IF e.pd_pres = 0 THEN "PTAB" ELSE "PAGE",
                               !.pt = IF e.pd_pres = 0 THEN EMPTY ELSE e.pd_base]]
            /\ cpu' = p
            /\ UNCHANGED pf_sem
      /\ UNCHANGED <<frameVars, currpolicy, tableVars, dataVars, storeVars, procVars, fatal>>

\* init_frame as getNewFrame calls it.
InitFrame(a) ==
  ft' = init_frame(ft, currpolicy, th[a].fr, th[a].type, Owner(a),
                   IF th[a].type = "PAGE" THEN th[a].v ELSE NO_VPN)

\* newPageTable has its frame; pf_handler enters it in the page directory and
\* asks for the frame of the page.
NewPageTable(p) ==
  /\ At(p, "init") /\ th[p].type = "PTAB"
  /\ InitFrame(p)
  /\ pt' = [pt EXCEPT ![th[p].fr] = [j \in Slots |-> NoPTE]]
  /\ mem' = [mem EXCEPT ![th[p].fr] = 0]
  /\ pd' = [pd EXCEPT ![p][vaddr2pdi(th[p].v)] = [pd_pres |-> 1, pd_base |-> th[p].fr]]
  /\ th' = [th EXCEPT ![p] = [@ EXCEPT !.pt = th[p].fr, !.fr = EMPTY, !.type = "PAGE",
                                     !.pc = "alloc", !.i = 0]]
  /\ cpu' = p
  /\ UNCHANGED <<nextframe, currpolicy, disk, val, storeVars, procVars, pf_sem, fatal>>

\* pf_handler has the frame of the page and starts to read it.  From here on
\* the frame holds page data, whatever page table it was before.
LoadPage(p) ==
  LET s == BsOf(p, th[p].v)
      o == BsOff(th[p].v)
  IN  /\ At(p, "init") /\ th[p].type = "PAGE"
      /\ \/ /\ BsValid(s, o)
            /\ InitFrame(p)
            /\ pt' = [pt EXCEPT ![th[p].fr] = [j \in Slots |-> NoPTE]]
            /\ th' = [th EXCEPT ![p] = [@ EXCEPT !.pc = "read_bs", !.bsd = s, !.off = o, !.i = 0]]
            /\ cpu' = NOBODY
            /\ UNCHANGED <<nextframe, currpolicy, pd, dataVars, storeVars, procVars,
                           pf_sem, fatal>>
         \/ ~BsValid(s, o) /\ Stop("panic")

\* The remote disk has delivered the page; pf_handler maps it, releases the
\* semaphore and returns.
ReadBs(p) ==
  LET l == th[p]
      j == vaddr2pti(l.v)
  IN  /\ At(p, "read_bs")
      /\ mem' = [mem EXCEPT ![l.fr] = disk[l.bsd][l.off]]
      /\ ft' = incRefCount(ft, l.pt)
      /\ pt' = [pt EXCEPT ![l.pt][j] = [@ EXCEPT !.pt_pres = 1, !.pt_base = l.fr]]
      /\ signal
      /\ cpu' = NOBODY
      /\ th' = [th EXCEPT ![p] = [Idle EXCEPT !.pc = "access", !.v = l.v, !.w = l.w]]
      /\ UNCHANGED <<nextframe, currpolicy, pd, disk, val, storeVars, procVars, fatal>>

-----------------------------------------------------------------------------
(* vcreate, kill and srpolicy. *)

SlotFree(p) == proc[p].prstate = "free"
\* newpid scans the NPROC slots from its cursor; slots are 1 .. NPROC.
PidDistance(p) == (p + NPROC - nextpid) % NPROC
newpid(p) == SlotFree(p) /\ \A q \in Procs : SlotFree(q) => PidDistance(p) <= PidDistance(q)

\* vcreate up to wait(pf_sem) in init_pd.  The slot stays free until the end
\* of vcreate, and the count of free stores is checked here only.
Vcreate(a) ==
  /\ At(a, "user") /\ cpu = NOBODY
  /\ \E p \in Procs, h \in HSizes :
       /\ newpid(p)
       /\ nextpid' = (p % NPROC) + 1
       /\ \/ /\ bsReq(h) <= free_bs_count
             /\ created < MAXCREATE /\ created' = created + 1
             /\ wait(a)
             /\ th' = [th EXCEPT ![a] = [Idle EXCEPT !.pc = "alloc", !.type = "PDIR",
                                                     !.pid = p, !.h = h]]
          \/ /\ bsReq(h) > free_bs_count
             /\ UNCHANGED <<created, pf_sem, cpu, th>>
  /\ UNCHANGED <<frameVars, currpolicy, tableVars, dataVars, storeVars, proc, fatal>>

\* init_pd has its frame and releases the semaphore.
NewPageDirectory(a) ==
  /\ At(a, "init") /\ th[a].type = "PDIR"
  /\ InitFrame(a)
  /\ signal
  /\ cpu' = AfterSignal(a)
  /\ pt' = [pt EXCEPT ![th[a].fr] = [j \in Slots |-> NoPTE]]
  /\ mem' = [mem EXCEPT ![th[a].fr] = 0]
  /\ th' = [th EXCEPT ![a] = [Idle EXCEPT !.pc = "init_pd", !.pid = th[a].pid, !.h = th[a].h]]
  /\ UNCHANGED <<nextframe, currpolicy, pd, disk, val, storeVars, procVars, fatal>>

\* bs_init: store number k of the new process is the k-th unallocated one, in
\* increasing order, or SYSERR when there are not that many.
Unallocated == {s \in Stores : ~bstab[s].isallocated}
Rank(s) == Cardinality({r \in Unallocated : r < s})
allocate_bs(k, s) == s \in Unallocated /\ Rank(s) = k
pbsdFor(h) == [k \in Stores |->
                 IF k >= bsReq(h) THEN 0
                 ELSE IF \E s \in Stores : allocate_bs(k, s)
                      THEN CHOOSE s \in Stores : allocate_bs(k, s) ELSE SYSERR]
Lesser(m, n) == IF m < n THEN m ELSE n
bstabFor(h) == [s \in Stores |->
                  IF s \in Unallocated /\ Rank(s) < bsReq(h)
                  THEN [isallocated |-> TRUE,
                        npages |-> Lesser(h - Rank(s) * MAX_PAGES_PER_BS, MAX_PAGES_PER_BS)]
                  ELSE bstab[s]]

\* The rest of vcreate: the page directory, the backing stores, the slot.
\* The new heap starts with what its stores hold.
FinishVcreate(a) ==
  LET p == th[a].pid
      h == th[a].h
      map == pbsdFor(h)
  IN  /\ At(a, "init_pd")
      /\ \/ /\ SlotFree(p)
            /\ pd' = [pd EXCEPT ![p] = [i \in Tables |-> NoPDE]]
            /\ bstab' = bstabFor(h)
            /\ free_bs_count' = (free_bs_count + WORD - bsReq(h)) % WORD
            /\ proc' = [proc EXCEPT ![p] = [prstate |-> "live", hsize |-> h, pbsd |-> map]]
            /\ val' = [val EXCEPT ![p] = [v \in Pages |->
                         LET s == map[v \div MAX_PAGES_PER_BS]
                         IN  IF v < h /\ s \in Stores THEN disk[s][BsOff(v)] ELSE 0]]
            /\ th' = [th EXCEPT ![a] = Idle, ![p] = Idle]
            /\ cpu' = NOBODY
            /\ UNCHANGED <<frameVars, currpolicy, pt, mem, disk, created, nextpid, pf_sem, fatal>>
         \/ ~SlotFree(p) /\ Stop("dup_pid")

\* Processes whose page is being written out by evictFrame.
BeingEvicted(p) == \E a \in Actors : th[a].pc = "write_bs" /\ ft.ipt[th[a].fr].pid = p
\* Between two accesses, about to exit, or waiting for pf_sem.
OutsideFaultPath(p) == th[p].pc \in {"user", "access", "exit"} \/ Queued(p)

\* kill(p), called by p itself or by another process, up to freeProcFrames.
\* send() to a parent that waits for a message runs the scheduler.
Kill(a, p) ==
  /\ MayRun(a) /\ Live(p)
  /\ \/ a = p /\ th[p].pc \in {"user", "exit"}
     \/ a \in Creators /\ th[a].pc = "user"
  /\ (th[a].pc = "user" => cpu = NOBODY)
  /\ \/ OutsideFaultPath(p) /\ ~BeingEvicted(p) /\ cpu' = a
     \/ KillRaces /\ cpu' \in {a, NOBODY}
  /\ th' = [th EXCEPT ![a] = [Idle EXCEPT !.pc = "kill", !.pid = p]]
  /\ UNCHANGED <<frameVars, currpolicy, tableVars, dataVars, storeVars, procVars, pf_sem, fatal>>

\* Seeded bug: the last frame is not looked at.
FramesToFreeOneLess == NFRAMES - 1
FramesToFree == NFRAMES       \* the bound of the loop of freeProcFrames

\* One iteration of the loop of freeProcFrames.
KillFrame(a) ==
  LET f == th[a].i
      own == ft.ipt[f].pid = th[a].pid
      unlink == own /\ Unlinks(ft, currpolicy, f)
  IN  /\ At(a, "kill") /\ f < FramesToFree
      /\ \/ /\ unlink => Unlinkable(ft, f)
            /\ ft' = IF own THEN freeFrame(ft, currpolicy, f) ELSE ft
            /\ th' = [th EXCEPT ![a].i = @ + 1]
            /\ cpu' = a
            /\ UNCHANGED <<nextframe, currpolicy, tableVars, dataVars, storeVars, procVars,
                           pf_sem, fatal>>
         \/ unlink /\ ~Unlinkable(ft, f) /\ Stop("wild")

\* Seeded bug: a killed waiter leaves the queue but not the count.
LeaveQueueOnly(p) ==
  \/ \E k \in 1 .. Len(pf_sem.queue) :
       /\ pf_sem.queue[k] = p
       /\ pf_sem' = [pf_sem EXCEPT !.queue = SubSeq(@, 1, k - 1) \o SubSeq(@, k + 1, Len(@))]
  \/ ~Queued(p) /\ UNCHANGED pf_sem
\* The switch of kill on the state of the process: one that waits for pf_sem
\* leaves its queue (getitem), which raises the count.
LeaveQueue(p) ==
  \/ \E k \in 1 .. Len(pf_sem.queue) :
       /\ pf_sem.queue[k] = p
       /\ pf_sem' = [scount |-> pf_sem.scount + 1,
                     queue |-> SubSeq(pf_sem.queue, 1, k - 1) \o
                               SubSeq(pf_sem.queue, k + 1, Len(pf_sem.queue))]
  \/ ~Queued(p) /\ UNCHANGED pf_sem

\* Seeded bug: the last store is not given back.
StoresOfOneLess(p) == {proc[p].pbsd[k] : k \in 0 .. bsReq(proc[p].hsize) - 2}
\* freeProcBS gives the stores back; then the slot is free.
StoresOf(p) == {proc[p].pbsd[k] : k \in 0 .. bsReq(proc[p].hsize) - 1}
FinishKill(a) ==
  LET p == th[a].pid
  IN  /\ At(a, "kill") /\ th[a].i = FramesToFree
      /\ bstab' = [s \in Stores |-> IF s \in StoresOf(p)
                                     THEN [isallocated |-> FALSE, npages |-> 0]
                                     ELSE bstab[s]]
      /\ free_bs_count' = (free_bs_count + bsReq(proc[p].hsize)) % WORD
      /\ proc' = [proc EXCEPT ![p].prstate = "free"]
      /\ LeaveQueue(p)
      /\ th' = [th EXCEPT ![a] = Idle, ![p] = Idle]
      /\ cpu' = NOBODY
      /\ UNCHANGED <<frameVars, currpolicy, tableVars, dataVars, created, nextpid, fatal>>

\* srpolicy changes the policy for the pages loaded from now on.
srpolicy(a) ==
  /\ At(a, "user") /\ cpu = NOBODY
  /\ SwitchWhileLive \/ \A f \in Frames : ft.ipt[f].status # "PAGE"
  /\ currpolicy' \in Policies
  /\ UNCHANGED <<frameVars, tableVars, dataVars, storeVars, procVars, pf_sem, cpu, th, fatal>>

-----------------------------------------------------------------------------
(* The specification. *)

\* initialize_paging: the global page tables take the first frames, the page
\* directory of the null process the next one, and the FIFO cursor is past it.
BootFrame(f) == CASE f < NUM_GLOBAL -> [Cleared EXCEPT !.status = "PTAB", !.pid = GLOBAL]
                  [] f = NUM_GLOBAL -> [Cleared EXCEPT !.status = "PDIR", !.pid = NULLPROC]
                  [] OTHER -> Cleared

Init ==
  /\ ft = [ipt |-> [f \in Frames |-> BootFrame(f)], flistHead |-> EMPTY, flistTail |-> EMPTY]
  /\ nextframe = [fifo |-> NUM_GLOBAL + 1, gca |-> 0]
  /\ currpolicy = "FIFO"
  /\ pd = [p \in Procs |-> [i \in Tables |-> NoPDE]]
  /\ pt = [f \in Frames |-> [j \in Slots |-> NoPTE]]
  /\ mem = [f \in Frames |-> 0]
  /\ disk = [s \in Stores |-> [o \in 0 .. MAX_PAGES_PER_BS - 1 |-> 0]]
  /\ bstab = [s \in Stores |-> [isallocated |-> FALSE, npages |-> 0]]
  /\ free_bs_count = MAX_BS_ENTRIES
  /\ proc = [p \in Procs |-> [prstate |-> "free", hsize |-> 0, pbsd |-> [k \in Stores |-> 0]]]
  /\ created = 0
  /\ nextpid = 1
  /\ pf_sem = [scount |-> 1, queue |-> <<>>]
  /\ cpu = NOBODY
  /\ th = [a \in Actors |-> Idle]
  /\ val = [p \in Procs |-> [v \in Pages |-> 0]]
  /\ fatal = "none"

FaultStep(p) == PfHandler(p) \/ NewPageTable(p) \/ LoadPage(p) \/ ReadBs(p)
FrameStep(a) == \/ TakeFree(a) \/ PickVictim(a) \/ NoFrameAvailable(a)
                \/ StartScan(a) \/ Scan(a) \/ Evict(a) \/ WriteBs(a)
KillStep(a) == KillFrame(a) \/ FinishKill(a)
CreateStep(a) == NewPageDirectory(a) \/ FinishVcreate(a)

Next ==
  \/ \E p \in Procs : Access(p) \/ Retry(p) \/ FaultStep(p)
  \/ \E a \in Actors : FrameStep(a) \/ KillStep(a) \/ \E p \in Procs : Kill(a, p)
  \/ \E a \in Creators : Vcreate(a) \/ CreateStep(a) \/ srpolicy(a)

Spec == Init /\ [][Next]_vars

\* A process that is ready to run is scheduled again and again (equal
\* priorities, round robin), and the remote disk answers.
KernelStep(a) == FrameStep(a) \/ FaultStep(a) \/ KillStep(a) \/ CreateStep(a)
Fairness == /\ \A a \in Actors : SF_vars(KernelStep(a))
            /\ \A p \in Procs : SF_vars(Retry(p)) /\ SF_vars(th[p].pc = "exit" /\ Kill(p, p))
FairSpec == Spec /\ Fairness

-----------------------------------------------------------------------------
(* Properties. *)

\* The variables keep their types, whatever the kernel does short of going
\* out of control.
TypeOK ==
  /\ ft \in [ipt : [Frames -> FrameRec], flistHead : Frames \cup {EMPTY},
             flistTail : Frames \cup {EMPTY}]
  /\ nextframe \in [fifo : Frames, gca : Frames]
  /\ currpolicy \in {"FIFO", "GCA"}
  /\ pd \in [Procs -> [Tables -> PDE]]
  /\ pt \in [Frames -> [Slots -> PTE]]
  /\ mem \in [Frames -> Values]
  /\ disk \in [Stores -> [0 .. MAX_PAGES_PER_BS - 1 -> Values]]
  /\ bstab \in [Stores -> [isallocated : BOOLEAN, npages : 0 .. MAX_PAGES_PER_BS]]
  /\ free_bs_count \in 0 .. WORD - 1
  /\ proc \in [Procs -> [prstate : {"free", "live"}, hsize : 0 .. MAXHEAP,
                         pbsd : [Stores -> Stores \cup {SYSERR}]]]
  /\ created \in 0 .. MAXCREATE
  /\ nextpid \in Procs
  /\ pf_sem \in [scount : Int, queue : Seq(Actors)]
  /\ cpu \in Actors \cup {NOBODY}
  /\ th \in [Actors -> Thread]
  /\ val \in [Procs -> [Pages -> Values]]
  /\ fatal \in {"none", "panic", "wild", "dup_pid"}

FaultPath == {"pf", "alloc", "scan", "evict", "write_bs", "init", "read_bs"}
Holds(a) == th[a].pc \in FaultPath /\ ~Queued(a)

\* pf_sem is a mutex around frame allocation: at most one process is between
\* wait(pf_sem) and signal(pf_sem), in pf_handler and init_pd together, even
\* when processes are killed while they wait for it.
MutualExclusion == \A a, b \in Actors : Holds(a) /\ Holds(b) => a = b

\* A process that kill is tearing down has no memory any more.
Running(p) == Live(p) /\ \A a \in Actors : ~(th[a].pc = "kill" /\ th[a].pid = p)

\* The current copy of a heap page is its frame while it is mapped, the
\* victim's frame while evictFrame writes it out, and its backing store
\* otherwise.  It holds what the process last wrote there: no eviction, page
\* table deletion, reuse of a frame or of a store loses a write.
Writer(p, v, a) == /\ th[a].pc = "write_bs" /\ th[a].bsd = BsOf(p, v)
                   /\ th[a].off = BsOff(v)
CurrentCopy(p, v) ==
  IF Mapped(p, v) THEN mem[FrameOf(p, v)]
  ELSE IF \E a \in Actors : Writer(p, v, a)
       THEN mem[th[CHOOSE a \in Actors : Writer(p, v, a)].fr]
       ELSE disk[BsOf(p, v)][BsOff(v)]
NoLostWrite ==
  \A p \in Procs : Running(p) =>
    \A v \in 0 .. proc[p].hsize - 1 :
      BsOf(p, v) # SYSERR => CurrentCopy(p, v) = val[p][v]

\* Frames that pf_handler or evictFrame has taken out of the mapping, or not
\* yet entered in it.
InTransit(f) == \E a \in Actors : /\ th[a].fr = f
                                  /\ th[a].pc \in {"evict", "write_bs", "init", "read_bs"}

\* The inverted page table is the inverse of the page tables: a mapped heap
\* page is in a frame that ipt records for exactly that page, and every page
\* frame not in transit is mapped by the process and page that ipt names.
InvertedTable ==
  /\ \A p \in Procs, v \in Pages :
       Running(p) /\ Mapped(p, v) =>
         LET f == ft.ipt[FrameOf(p, v)]
         IN  f.status = "PAGE" /\ f.pid = p /\ f.vpn = v
  /\ \A f \in Frames :
       ft.ipt[f].status = "PAGE" /\ ~InTransit(f) =>
         \E p \in Procs : \E v \in Pages :
           /\ ft.ipt[f].pid = p /\ ft.ipt[f].vpn = v
           /\ Mapped(p, v) /\ FrameOf(p, v) = f

\* The reference count of a page table is the number of its present entries,
\* a frame that the page directory points to is that process's page table,
\* and no other frame is counted: a table is deleted exactly when its last
\* page leaves memory, and the handler never works on a deleted one.
RefCounts ==
  \A f \in Frames :
    LET present == {j \in Slots : pt[f][j].pt_pres = 1}
    IN  /\ (ft.ipt[f].status = "PTAB" /\ ft.ipt[f].pid \in Procs =>
               /\ ft.ipt[f].refCount = Cardinality(present)
               /\ \E i \in Tables : pd[ft.ipt[f].pid][i] = [pd_pres |-> 1, pd_base |-> f])
        /\ (ft.ipt[f].status # "PTAB" => ft.ipt[f].refCount = 0)

\* The kernel never runs out of control: no panic, no access through a frame
\* number or a queue link that is not one, no slot given to two processes.
NoFatal == fatal = "none"

\* Frames and backing stores of a killed process are given back: a frame or
\* store in use belongs to a live process, a process being created, or boot.
NoLeak ==
  /\ \A f \in Frames : \A p \in Procs :
       ft.ipt[f].pid = p => Live(p) \/ \E a \in Creators : th[a].pid = p
  /\ {s \in Stores : bstab[s].isallocated} =
       UNION {StoresOf(p) : p \in {q \in Procs : Live(q)}}

\* free_bs_count is the number of stores that allocate_bs can still hand out,
\* and no store belongs to two processes.
StoreAccounting ==
  /\ free_bs_count = Cardinality(Unallocated)
  /\ \A p, q \in Procs : Live(p) /\ Live(q) /\ p # q => StoresOf(p) \cap StoresOf(q) = {}

-----------------------------------------------------------------------------
(* The inductive strengthening of TypeOK and MutualExclusion.               *)

\* pf_sem: a negative count is the number of waiters, nobody waits twice or
\* without having called wait, and a count of 1 means that nobody is inside.
SemaphoreOK ==
  LET n == Len(pf_sem.queue)
  IN  /\ pf_sem.scount <= 1
      /\ n = IF pf_sem.scount < 0 THEN -pf_sem.scount ELSE 0
      /\ \A i, j \in 1 .. n : pf_sem.queue[i] = pf_sem.queue[j] => i = j
      /\ \A i \in 1 .. n : th[pf_sem.queue[i]].pc \in {"pf", "alloc"}
      /\ pf_sem.scount = 1 => \A a \in Actors : ~Holds(a)

\* Kernel locals that are used are set: a frame number after allocation, the
\* store of a read, the pid of vcreate and of kill; a free slot runs nothing.
LocalsOK ==
  /\ \A a \in Actors :
       /\ th[a].pc \in {"evict", "write_bs", "init", "read_bs"} => th[a].fr \in Frames
       /\ th[a].pc = "read_bs" => th[a].bsd \in Stores
       /\ th[a].pc = "kill" => th[a].pid \in Procs
  /\ \A a \in Creators : th[a].pc # "user" => th[a].pid \in Procs
  /\ \A p \in Procs : SlotFree(p) => th[p].pc = "user"

IInv == TypeOK /\ SemaphoreOK /\ MutualExclusion /\ LocalsOK
=============================================================================
