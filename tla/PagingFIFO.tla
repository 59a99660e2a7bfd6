----------------------------- MODULE PagingFIFO -----------------------------
(***************************************************************************)
(* The doubly linked list of ipt.c implements the queue of FrameQueue.     *)
(***************************************************************************)
EXTENDS Paging

\* The frames met when nextFrame is followed from flistHead, at most NFRAMES.
NextOf(f) == IF f = EMPTY THEN EMPTY ELSE ft.ipt[f].nextFrame
Follow[n \in 1 .. NFRAMES] == IF n = 1 THEN ft.flistHead ELSE NextOf(Follow[n - 1])
Resident == [n \in 1 .. Cardinality({n \in 1 .. NFRAMES : Follow[n] # EMPTY}) |-> Follow[n]]

\* The frame that pickFrameFIFO took out and init_frame has not reused yet.
Victims == {f \in Frames :
              /\ currpolicy = "FIFO" /\ ft.ipt[f].status = "PAGE"
              /\ \E a \in Actors : /\ th[a].pc \in {"evict", "write_bs", "init"}
                                   /\ th[a].fr = f}
Victim == IF Victims = {} THEN EMPTY ELSE CHOOSE f \in Victims : TRUE

\* Under FIFO the list that flistHead, flistTail, nextFrame and prevFrame
\* describe is sound: both directions agree, it ends at flistTail, and it
\* holds every page frame except the victim of an eviction, once.
QueueLinks ==
  currpolicy = "FIFO" =>
    LET list == Resident
        last == Len(list)
        page == {f \in Frames : ft.ipt[f].status = "PAGE"}
    IN  /\ {list[n] : n \in 1 .. last} = page \ Victims
        /\ last = Cardinality(page \ Victims)
        /\ (last = 0 => ft.flistTail = EMPTY)
        /\ (last > 0 => /\ ft.flistTail = list[last]
                        /\ ft.ipt[list[1]].prevFrame = EMPTY)
        /\ \A n \in 2 .. last : ft.ipt[list[n]].prevFrame = list[n - 1]

Abstract == INSTANCE FrameQueue WITH
              Frame <- Frames, NoVictim <- EMPTY, queue <- Resident, victim <- Victim

\* Every step of the kernel on the frame queue is a step of the abstract FIFO
\* queue or leaves it unchanged: under FIFO pages are evicted in the order they were
\* loaded, through faults, evictions, page table deletions and kills, and the clock
\* leaves the queue alone.
FIFOReplacement == Abstract!Spec

\* A page fault is served: the process that entered pf_handler leaves it.
FaultServed == \A p \in Procs : th[p].pc = "pf" ~> th[p].pc \in {"user", "access", "exit"}

\* vcreate returns: a creator waiting for pf_sem is not left there.
VcreateReturns == \A a \in Creators : th[a].pc = "alloc" ~> th[a].pc = "user"
=============================================================================
