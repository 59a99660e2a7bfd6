---------------------------- MODULE BackingStore ----------------------------
(***************************************************************************)
(* The table of backing stores between the calls of several processes.      *)
(* psinit opens the remote disk under bs_init_sem; entries are opened and   *)
(* closed under bs_sem.  allocate_bs and deallocate_bs run with interrupts  *)
(* off and read isallocated and usecount without the semaphore, but give up *)
(* the processor when they wait for it and when they signal it; the other   *)
(* calls can be preempted anywhere.                                         *)
(***************************************************************************)
EXTENDS Integers, Sequences, FiniteSets, FiniteSetsExt

CONSTANTS BsProcs,         \* processes
          MAX_BS_ENTRIES,  \* entries of bstab
          BsPages,         \* argument of allocate_bs
          BsShared,        \* a store may be opened while its owner deallocates it
          MaxBsCalls       \* bound: calls in a behaviour

ASSUME BackingStoreAssumption ==
    /\ IsFiniteSet(BsProcs) /\ MAX_BS_ENTRIES \in Nat \ {0} /\ BsPages \in Nat \ {0}
    /\ BsShared \in BOOLEAN /\ MaxBsCalls \in Nat

VARIABLES active,   \* PAGE_SERVER_STATUS
          bsinit,   \* bs_init_sem: count and waiting processes
          bssem,    \* bs_sem
          bstab,    \* the table
          bscall,   \* the call each process is in
          bscalls,  \* calls so far (bound)
          given,    \* history: stores allocate_bs gave to each process
          opened    \* history: stores open_bs opened for each process

bsVars == <<active, bsinit, bssem, bstab, bscall, bscalls, given, opened>>

BsIds == 0..MAX_BS_ENTRIES - 1
ClosedEntry == [isopen |-> FALSE, isallocated |-> FALSE, usecount |-> 0, npages |-> 0]
NoCall == [pc |-> "idle", op |-> "none", at |-> 0]

BsInit ==
    /\ active = FALSE
    /\ bsinit = [n |-> 1, q |-> <<>>] /\ bssem = [n |-> 1, q |-> <<>>]
    /\ bstab = [s \in BsIds |-> ClosedEntry]
    /\ bscall = [p \in BsProcs |-> NoCall]
    /\ bscalls = 0
    /\ given = [p \in BsProcs |-> {}] /\ opened = [p \in BsProcs |-> {}]

\* wait: pass or join the queue.  signal: the first of the queue goes on, at pc `next`.
BsWait(sem, p) == IF sem.n > 0 THEN [sem EXCEPT !.n = @ - 1] ELSE [n |-> sem.n - 1, q |-> Append(sem.q, p)]
BsSignal(sem) == [n |-> sem.n + 1, q |-> IF sem.n < 0 THEN Tail(sem.q) ELSE sem.q]
BsWoken(sem, next, call) == IF sem.n < 0 THEN [call EXCEPT ![Head(sem.q)].pc = next] ELSE call

BsCalled(p) == bscall[p].pc = "idle" /\ bscalls < MaxBsCalls /\ bscalls' = bscalls + 1
\* The process enters, or waits to enter, the part of the call that bs_sem protects.
EnterBs(p, op, s) ==
    /\ bssem' = BsWait(bssem, p)
    /\ bscall' = [bscall EXCEPT ![p] = [pc |-> IF bssem.n > 0 THEN "in" ELSE "wait", op |-> op, at |-> s]]
LeaveBs(p, then) ==
    /\ bssem' = BsSignal(bssem)
    /\ bscall' = BsWoken(bssem, "in", [bscall EXCEPT ![p] = then])

-----------------------------------------------------------------------------
(* psinit, called by main or by an allocate_bs that finds the server inactive *)

psinit(p, op) ==
    /\ BsCalled(p) /\ (op = "init" \/ ~active)
    /\ bsinit' = BsWait(bsinit, p)
    /\ bscall' = [bscall EXCEPT ![p] = [pc |-> IF bsinit.n > 0 THEN "init" ELSE "initwait", op |-> op, at |-> 0]]
    /\ UNCHANGED <<active, bssem, bstab, given, opened>>

AfterPsinit(op) == IF op = "alloc" THEN [pc |-> "scan", op |-> op, at |-> 0] ELSE NoCall

\* The disk is opened, which blocks; or psinit returns at once, without a signal.
psinitCheck(p) ==
    /\ bscall[p].pc = "init"
    /\ bscall' = [bscall EXCEPT ![p] = IF active THEN AfterPsinit(@.op) ELSE [@ EXCEPT !.pc = "opening"]]
    /\ UNCHANGED <<active, bsinit, bssem, bstab, bscalls, given, opened>>

psinitDone(p) ==
    /\ bscall[p].pc = "opening"
    /\ bssem' = [n |-> 1, q |-> <<>>]
    /\ bstab' = [s \in BsIds |-> ClosedEntry]
    /\ active' = TRUE
    /\ bsinit' = BsSignal(bsinit)
    /\ bscall' = BsWoken(bsinit, "init", [bscall EXCEPT ![p] = AfterPsinit(@.op)])
    /\ UNCHANGED <<bscalls, given, opened>>

-----------------------------------------------------------------------------
allocate_bs(p) ==
    /\ BsCalled(p) /\ active
    /\ bscall' = [bscall EXCEPT ![p] = AfterPsinit("alloc")]
    /\ UNCHANGED <<active, bsinit, bssem, bstab, given, opened>>

\* The loop goes on to the next entry that is not allocated and tries to open it.
Candidates(p) == {i \in BsIds : i >= bscall[p].at /\ ~bstab[i].isallocated}
ScanStores(p) ==
    /\ bscall[p].pc = "scan"
    /\ IF Candidates(p) = {} THEN bscall' = [bscall EXCEPT ![p] = NoCall] /\ UNCHANGED bssem
       ELSE EnterBs(p, "alloc", Min(Candidates(p)))
    /\ UNCHANGED <<active, bsinit, bstab, bscalls, given, opened>>

\* Seeded bug: get_bs does not look at isopen.
TakenNever(s) == FALSE
Taken(s) == bstab[s].isopen
get_bs(p) ==
    LET s == bscall[p].at
    IN  /\ bscall[p].pc = "in" /\ bscall[p].op = "alloc"
        /\ IF Taken(s)
           THEN LeaveBs(p, [bscall[p] EXCEPT !.pc = "scan", !.at = s + 1]) /\ UNCHANGED bstab
           ELSE /\ bstab' = [bstab EXCEPT ![s].isopen = TRUE, ![s].npages = BsPages]
                /\ LeaveBs(p, [bscall[p] EXCEPT !.pc = "mark"])
        /\ UNCHANGED <<active, bsinit, bscalls, given, opened>>

MarkAllocated(p) ==
    /\ bscall[p].pc = "mark"
    /\ bstab' = [bstab EXCEPT ![bscall[p].at].isallocated = TRUE, ![bscall[p].at].usecount = 0]
    /\ given' = [given EXCEPT ![p] = @ \cup {bscall[p].at}]
    /\ bscall' = [bscall EXCEPT ![p] = NoCall]
    /\ UNCHANGED <<active, bsinit, bssem, bscalls, opened>>

\* The owner gives its store back; a store in use is refused.
Busy(op, s) == \E q \in BsProcs : bscall[q].op = op /\ bscall[q].at = s
deallocate_bs(p, s) ==
    /\ BsCalled(p) /\ s \in given[p]
    /\ bstab[s].isallocated /\ bstab[s].usecount = 0
    /\ BsShared \/ ~Busy("open", s)
    /\ EnterBs(p, "free", s)
    /\ UNCHANGED <<active, bsinit, bstab, given, opened>>

release_bs(p) ==
    /\ bscall[p].pc = "in" /\ bscall[p].op = "free"
    /\ bstab' = IF bstab[bscall[p].at].isopen
                THEN [bstab EXCEPT ![bscall[p].at].isopen = FALSE, ![bscall[p].at].npages = 0]
                ELSE bstab
    /\ LeaveBs(p, [bscall[p] EXCEPT !.pc = "unmark"])
    /\ UNCHANGED <<active, bsinit, bscalls, given, opened>>

Unmark(p) ==
    /\ bscall[p].pc = "unmark"
    /\ bstab' = [bstab EXCEPT ![bscall[p].at].isallocated = FALSE, ![bscall[p].at].usecount = 0]
    /\ given' = [given EXCEPT ![p] = @ \ {bscall[p].at}]
    /\ bscall' = [bscall EXCEPT ![p] = NoCall]
    /\ UNCHANGED <<active, bsinit, bssem, bscalls, opened>>

-----------------------------------------------------------------------------
open_bs(p, s) ==
    /\ BsCalled(p) /\ active /\ s \notin opened[p]
    /\ BsShared \/ ~Busy("free", s)
    /\ EnterBs(p, "open", s)
    /\ UNCHANGED <<active, bsinit, bstab, given, opened>>

OpenCount(p) ==
    LET s == bscall[p].at
    IN  /\ bscall[p].pc = "in" /\ bscall[p].op = "open"
        /\ IF bstab[s].isallocated
           THEN /\ bstab' = [bstab EXCEPT ![s].usecount = @ + 1]
                /\ opened' = [opened EXCEPT ![p] = @ \cup {s}]
           ELSE UNCHANGED <<bstab, opened>>
        /\ LeaveBs(p, NoCall)
        /\ UNCHANGED <<active, bsinit, bscalls, given>>

\* A process closes what it has opened.
close_bs(p, s) ==
    /\ BsCalled(p) /\ s \in opened[p]
    /\ EnterBs(p, "close", s)
    /\ UNCHANGED <<active, bsinit, bstab, given, opened>>

CloseCount(p) ==
    LET s == bscall[p].at
    IN  /\ bscall[p].pc = "in" /\ bscall[p].op = "close"
        /\ bstab' = IF bstab[s].isallocated THEN [bstab EXCEPT ![s].usecount = @ - 1] ELSE bstab
        /\ opened' = [opened EXCEPT ![p] = @ \ {s}]
        /\ LeaveBs(p, NoCall)
        /\ UNCHANGED <<active, bsinit, bscalls, given>>

\* read_bs and write_bs have the same control: the entry is checked under the semaphore,
\* the eight blocks of the page go to or come from the disk after it.
PageStart(p, s) ==
    /\ BsCalled(p) /\ s \in given[p] \cup opened[p]
    /\ EnterBs(p, "page", s)
    /\ UNCHANGED <<active, bsinit, bstab, given, opened>>

PageCheck(p, page) ==
    LET e == bstab[bscall[p].at]
    IN  /\ bscall[p].pc = "in" /\ bscall[p].op = "page"
        /\ LeaveBs(p, IF e.isopen /\ page < e.npages THEN [bscall[p] EXCEPT !.pc = "blocks"] ELSE NoCall)
        /\ UNCHANGED <<active, bsinit, bstab, bscalls, given, opened>>

PageTransfer(p) ==
    /\ bscall[p].pc = "blocks"
    /\ bscall' = [bscall EXCEPT ![p] = NoCall]
    /\ UNCHANGED <<active, bsinit, bssem, bstab, bscalls, given, opened>>

BsNext ==
    \E p \in BsProcs :
        \/ \E op \in {"init", "alloc"} : psinit(p, op)
        \/ psinitCheck(p) \/ psinitDone(p)
        \/ allocate_bs(p) \/ ScanStores(p) \/ get_bs(p) \/ MarkAllocated(p)
        \/ \E s \in BsIds : deallocate_bs(p, s) \/ open_bs(p, s) \/ close_bs(p, s) \/ PageStart(p, s)
        \/ release_bs(p) \/ Unmark(p) \/ OpenCount(p) \/ CloseCount(p)
        \/ \E page \in {0, BsPages} : PageCheck(p, page)
        \/ PageTransfer(p)

BsSpec == BsInit /\ [][BsNext]_bsVars

-----------------------------------------------------------------------------
\* A store that allocate_bs gave is its owner's alone, open and allocated, until the owner
\* gives it back; a page is transferred only while the store is open; a store nobody owns
\* is free for the next allocation.  The use count is the number of processes that have
\* the store open, and such a store is never given back.  psinit never wipes a table in
\* use, and bs_sem has one holder at most.
StoresOwned ==
    LET at(pcs, s) == {p \in BsProcs : bscall[p].pc \in pcs /\ bscall[p].at = s}
        holders == {p \in BsProcs : bscall[p].pc = "in"}
        waiting == {p \in BsProcs : bscall[p].pc = "wait"}
    IN  /\ \A p, q \in BsProcs : p # q => given[p] \cap given[q] = {}
        /\ \A p \in BsProcs : \A s \in given[p] : at({"unmark"}, s) = {} =>
              bstab[s] = [bstab[s] EXCEPT !.isopen = TRUE, !.isallocated = TRUE, !.npages = BsPages]
        /\ \A s \in BsIds : (\A p \in BsProcs : s \notin given[p]) /\ at({"mark"}, s) = {} => bstab[s] = ClosedEntry
        /\ \A s \in BsIds : bstab[s].usecount = Cardinality({p \in BsProcs : s \in opened[p]})
        /\ \A s \in BsIds : bstab[s].usecount > 0 \/ at({"blocks"}, s) # {} => bstab[s].isopen
        /\ Cardinality(holders) <= 1 /\ bssem.n = 1 - Cardinality(holders) - Cardinality(waiting)

=============================================================================
