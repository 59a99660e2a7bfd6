------------------------------- MODULE Memory -------------------------------
(***************************************************************************)
(* Storage: the kernel heap (getmem, getstk, freemem), the virtual heap of  *)
(* a paged process (vgetmem, vfreemem: the same lists in the process's own  *)
(* address space, initialised by the first vgetmem) and buffer pools, whose *)
(* memory comes from the kernel heap.  A free list is the sequence of its   *)
(* blocks by address; addresses and lengths are in units of MB bytes, the   *)
(* size of a struct memblk.                                                 *)
(***************************************************************************)
EXTENDS Integers, Sequences, FiniteSets, SequencesExt, FiniteSetsExt

CONSTANTS HEAP,       \* length of the kernel heap, in blocks
          VHEAP,      \* length of the virtual heap, in blocks
          MB,         \* bytes in a memory block (8)
          Requests,   \* numbers of bytes asked for
          NBUFS       \* buffers of one block each in the pool

ASSUME MemoryAssumption ==
    /\ HEAP \in Nat \ {0} /\ VHEAP \in Nat \ {0} /\ MB \in Nat \ {0}
    /\ Requests \subseteq Nat \ {0} /\ NBUFS \in 1..HEAP

VARIABLES flist,    \* memlist and the process's vmemlist: the free blocks
          mlength,  \* the length kept in the head of each list
          vinit,    \* prptr->vmeminit
          live,     \* blocks in use, as their owners know them
          pool      \* the buffer pool, or its absence

memoryVars == <<flist, mlength, vinit, live, pool>>

Heaps == {"k", "v"}
Start(h) == IF h = "k" THEN 8 ELSE 64
Size(h) == IF h = "k" THEN HEAP ELSE VHEAP
Blk(a, n) == [a |-> a, n |-> n]
Cells(b) == b.a..(b.a + b.n - 1)

\* roundmb: up to a whole number of blocks.
roundmb(bytes) == (bytes + MB - 1) \div MB

\* getmem: the first block that is large enough gives its front.
\* Seeded bug: the length of what is left over is not reduced.
TakeFrontLong(l, i, n) == [l EXCEPT ![i] = Blk(@.a + n, @.n)]
TakeFront(l, i, n) == IF l[i].n = n THEN RemoveAt(l, i) ELSE [l EXCEPT ![i] = Blk(@.a + n, @.n - n)]
getmem(h, bytes) ==
    LET n == roundmb(bytes)
        fit == {i \in DOMAIN flist[h] : flist[h][i].n >= n}
    IN  /\ fit # {}
        /\ flist' = [flist EXCEPT ![h] = TakeFront(@, Min(fit), n)]
        /\ mlength' = [mlength EXCEPT ![h] = @ - n]
        /\ live' = live \cup {[h |-> h, b |-> Blk(flist[h][Min(fit)].a, n)]}

\* getstk: the last block that is large enough gives its end.
getstk(bytes) ==
    LET n == roundmb(bytes)
        fit == {i \in DOMAIN flist["k"] : flist["k"][i].n >= n}
        i == Max(fit)
        b == flist["k"][i]
    IN  /\ fit # {}
        /\ flist' = [flist EXCEPT !["k"] = IF b.n = n THEN RemoveAt(@, i) ELSE [@ EXCEPT ![i] = Blk(b.a, b.n - n)]]
        /\ mlength' = [mlength EXCEPT !["k"] = @ - n]
        /\ live' = live \cup {[h |-> "k", b |-> Blk(b.a + b.n - n, n)]}
        /\ UNCHANGED <<vinit, pool>>

\* freemem: insert by address, refuse an overlap, join with the block before and after.
JoinBefore(l, i, b) ==
    IF i > 0 /\ l[i].a + l[i].n = b.a THEN [l EXCEPT ![i] = Blk(@.a, @.n + b.n)] ELSE InsertAt(l, i + 1, b)
JoinAfter(l, i, b) ==
    LET l1 == JoinBefore(l, i, b)
        j == IF Len(l1) = Len(l) THEN i ELSE i + 1
    IN  IF j < Len(l1) /\ l1[j].a + l1[j].n = l1[j + 1].a
        THEN RemoveAt([l1 EXCEPT ![j] = Blk(@.a, @.n + l1[j + 1].n)], j + 1) ELSE l1
Overlaps(l, i, b) == (i > 0 /\ b.a < l[i].a + l[i].n) \/ (i < Len(l) /\ b.a + b.n > l[i + 1].a)
Place(h, b) == Cardinality({j \in DOMAIN flist[h] : flist[h][j].a < b.a})
HeapAccepts(h, b) == /\ b.n > 0 /\ Start(h) <= b.a /\ b.a <= Start(h) + Size(h)
                 /\ ~Overlaps(flist[h], Place(h, b), b)
freemem(h, b) ==
    /\ HeapAccepts(h, b)
    /\ mlength' = [mlength EXCEPT ![h] = @ + b.n]
    /\ flist' = [flist EXCEPT ![h] = JoinAfter(@, Place(h, b), b)]

\* The owner of a block gives it back.
Free(r) == /\ freemem(r.h, r.b)
           /\ live' = live \ {r} /\ UNCHANGED <<vinit, pool>>

\* vmeminit: the first vgetmem of a process makes its whole heap one free block.
vmeminit ==
    /\ ~vinit /\ vinit' = TRUE
    /\ flist' = [flist EXCEPT !["v"] = <<Blk(Start("v"), VHEAP)>>]
    /\ mlength' = [mlength EXCEPT !["v"] = VHEAP]
    /\ UNCHANGED <<live, pool>>

-----------------------------------------------------------------------------
\* mkbufpool: one allocation, cut into buffers that are linked through their first word.
NoPool == [used |-> FALSE, base |-> 0, free |-> <<>>, sem |-> 0, granted |-> 0, held |-> {}]
mkbufpool ==
    /\ ~pool.used
    /\ getmem("k", NBUFS * MB)
    /\ LET base == (CHOOSE r \in live' : r \notin live).b.a
       IN  pool' = [used |-> TRUE, base |-> base, free |-> [i \in 1..NBUFS |-> base + i - 1],
                    sem |-> NBUFS, granted |-> 0, held |-> {}]
    /\ UNCHANGED vinit

\* getbuf: wait on the pool's semaphore, then take the first buffer; a process that had
\* to wait takes its buffer when it runs again (granted).
TakeBuf(p) == [p EXCEPT !.free = Tail(@), !.held = @ \cup {Head(p.free)}]
\* Seeded bug: a buffer that is on the list is taken although others wait for it.
getbufEarly ==
    /\ pool.used /\ pool.sem > -2
    /\ pool' = IF pool.free # <<>> THEN TakeBuf([pool EXCEPT !.sem = @ - 1]) ELSE [pool EXCEPT !.sem = @ - 1]
    /\ UNCHANGED <<flist, mlength, vinit, live>>
getbuf ==
    /\ pool.used /\ pool.sem > -2
    /\ pool' = IF pool.sem > 0 THEN TakeBuf([pool EXCEPT !.sem = @ - 1]) ELSE [pool EXCEPT !.sem = @ - 1]
    /\ UNCHANGED <<flist, mlength, vinit, live>>
getbufResume ==
    /\ pool.granted > 0
    /\ pool' = TakeBuf([pool EXCEPT !.granted = @ - 1])
    /\ UNCHANGED <<flist, mlength, vinit, live>>

\* freebuf: the pool identifier in front of the buffer names its list; signal.
freebuf(b) ==
    /\ b \in pool.held
    /\ pool' = [pool EXCEPT !.held = @ \ {b}, !.free = <<b>> \o @, !.sem = @ + 1,
                            !.granted = IF pool.sem < 0 THEN @ + 1 ELSE @]
    /\ UNCHANGED <<flist, mlength, vinit, live>>

\* Pools are never given back, so the block of a pool has no owner that frees it.
PoolBlock == IF pool.used THEN {[h |-> "k", b |-> Blk(pool.base, NBUFS)]} ELSE {}

MemoryInit ==
    /\ flist = [h \in Heaps |-> IF h = "k" THEN <<Blk(Start("k"), HEAP)>> ELSE <<>>]
    /\ mlength = [h \in Heaps |-> IF h = "k" THEN HEAP ELSE 0]
    /\ vinit = FALSE /\ live = {} /\ pool = NoPool

MemoryNext ==
    \/ \E r \in Requests : \/ getmem("k", r) /\ UNCHANGED <<vinit, pool>>
                           \/ vinit /\ getmem("v", r) /\ UNCHANGED <<vinit, pool>>
                           \/ getstk(r)
    \/ vmeminit \/ mkbufpool \/ getbuf \/ getbufResume
    \/ \E r \in live \ PoolBlock : Free(r)
    \/ \E b \in pool.held : freebuf(b)

MemorySpec == MemoryInit /\ [][MemoryNext]_memoryVars

-----------------------------------------------------------------------------
\* The blocks in use and the free blocks are disjoint and together they are the whole heap,
\* and the head of the list holds the amount that is free: no byte has two owners and none
\* is lost, after any sequence of allocations from both ends and of frees.  No two free
\* blocks touch, so a request fails only if no run of free memory is long enough, and a
\* block that overlaps a free one, one freed twice in particular, is refused.
HeapPartitioned ==
    \A h \in Heaps : h = "k" \/ vinit =>
        LET inUse == {r.b : r \in {x \in live : x.h = h}}
            free == {flist[h][i] : i \in DOMAIN flist[h]}
        IN  /\ UNION {Cells(b) : b \in inUse \cup free} = Start(h)..(Start(h) + Size(h) - 1)
            /\ \A b, c \in inUse \cup free : b # c => Cells(b) \cap Cells(c) = {}
            /\ inUse \cap free = {}
            /\ mlength[h] = Cardinality(UNION {Cells(b) : b \in free})
            /\ \A i \in 1..Len(flist[h]) - 1 : flist[h][i].a + flist[h][i].n < flist[h][i + 1].a
            /\ \A b \in free, a \in Start(h)..(Start(h) + Size(h)), n \in 1..2 :
                  Cells(Blk(a, n)) \cap Cells(b) # {} => ~HeapAccepts(h, Blk(a, n))

\* Whoever passed the wait of getbuf finds a buffer: the semaphore never promises more
\* buffers than the list holds, and the buffers are free or held, never both.
PoolBacked ==
    pool.used => /\ Len(pool.free) = (IF pool.sem > 0 THEN pool.sem ELSE 0) + pool.granted
                 /\ ToSet(pool.free) \cap pool.held = {}
                 /\ Len(pool.free) + Cardinality(pool.held) = NBUFS

=============================================================================
