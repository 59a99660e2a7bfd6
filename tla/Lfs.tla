-------------------------------- MODULE Lfs --------------------------------
(***************************************************************************)
(* The local file system.  A file is a list of index blocks, each covering  *)
(* LF_IDATA bytes with LF_IBLEN data blocks; free index and data blocks are *)
(* on two lists.  The directory holds the heads of all these lists; it is   *)
(* kept in memory and written back now and then.  An open file has one      *)
(* index and one data block in its control block.                           *)
(***************************************************************************)
EXTENDS Integers, Sequences, FiniteSets, SequencesExt

CONSTANTS Names, Nlfl,          \* file names; number of file pseudo-devices
          LF_BLKSIZ, LF_IBLEN,  \* bytes in a data block, data blocks in an index block
          IBlocks, DBlocks,     \* numbers of index and data blocks: 0..IBlocks-1, ...
          LF_NUM_DIR_ENT,
          LfConcurrent,         \* calls may interleave where the code allows it
          MaxPuts               \* bound: bytes written

ASSUME LfsAssumption ==
    /\ {Nlfl, LF_BLKSIZ, LF_IBLEN, IBlocks, DBlocks} \subseteq Nat \ {0}
    /\ LF_NUM_DIR_ENT \in Nat /\ LfConcurrent \in BOOLEAN /\ MaxPuts \in Nat

NULL == -1                      \* LF_INULL, LF_DNULL
DFILL == -2                     \* what lfdballoc fills a block with
LF_IDATA == LF_BLKSIZ * LF_IBLEN
Slots == 0..Nlfl - 1

VARIABLES fs,       \* the directory in memory and the disk, see LfsInit
          lfltab,   \* control blocks of the open files
          opening,  \* calls of lfsopen between their search of lfltab and lf_mutex
          putting,  \* calls of lflputc between lfdballoc's write of the directory and its end
          text,     \* history: contents of each file, byte by byte
          puts      \* bytes written so far (bound); also the byte written next
lfsVars == <<fs, lfltab, opening, putting, text, puts>>

Blank == [i \in 0..LF_BLKSIZ - 1 |-> DFILL]
Closed == [state |-> "FREE", name |-> "", ent |-> 0, pos |-> 0, inum |-> NULL, dnum |-> NULL,
           iblock |-> [next |-> NULL, offset |-> 0, dba |-> [i \in 0..LF_IBLEN - 1 |-> NULL]],
           dblock |-> Blank, byte |-> LF_BLKSIZ, ibdirty |-> FALSE, dbdirty |-> FALSE]

lfibclear(offset) == [next |-> NULL, offset |-> offset, dba |-> [i \in 0..LF_IBLEN - 1 |-> NULL]]

\* lfscreate: all blocks are on the free lists.
Formatted == [dfree |-> 0, ifree |-> 0, files |-> <<>>]
NextOf(i, n) == IF i = n - 1 THEN NULL ELSE i + 1

\* lfsinit and lflinit, with the directory read by the first open.  A data block holds bytes
\* and, while it is free, the number of the next free one.
LfsInit ==
    /\ fs = [dir |-> Formatted, ddir |-> Formatted, dirdirty |-> FALSE,
             ib |-> [i \in 0..IBlocks - 1 |-> [lfibclear(0) EXCEPT !.next = NextOf(i, IBlocks)]],
             db |-> [d \in 0..DBlocks - 1 |-> [next |-> NextOf(d, DBlocks), data |-> Blank]],
             panic |-> FALSE]
    /\ lfltab = [s \in Slots |-> Closed]
    /\ opening = {} /\ putting = {}
    /\ text = [n \in Names |-> <<>>] /\ puts = 0

-----------------------------------------------------------------------------
(* Blocks.  f is the file system, c a control block; both together: w = [f |-> .., c |-> ..] *)

lfibput(f, inum, iblock) == [f EXCEPT !.ib[inum] = iblock]
lfibget(f, inum) == f.ib[inum]
WriteData(f, d, data) == [f EXCEPT !.db[d] = [next |-> NULL, data |-> data]]
WriteDir(f) == [f EXCEPT !.ddir = f.dir, !.dirdirty = FALSE]

\* The directory, the data block and the index block, each if it has changed.
lfflush(w) ==
    LET f1 == IF w.f.dirdirty THEN WriteDir(w.f) ELSE w.f
        f2 == IF w.c.dbdirty THEN WriteData(f1, w.c.dnum, w.c.dblock) ELSE f1
        f3 == IF w.c.ibdirty THEN lfibput(f2, w.c.inum, w.c.iblock) ELSE f2
    IN  [f |-> f3, c |-> [w.c EXCEPT !.ibdirty = FALSE, !.dbdirty = FALSE]]

\* Both allocators take the head of their list and write the directory.  None left: panic.
lfiballoc(f) ==
    IF f.dir.ifree = NULL THEN [f EXCEPT !.panic = TRUE]
    ELSE WriteDir([f EXCEPT !.dir.ifree = lfibget(f, f.dir.ifree).next])
lfdballoc(f) ==
    IF f.dir.dfree = NULL THEN [f EXCEPT !.panic = TRUE]
    ELSE WriteDir([f EXCEPT !.dir.dfree = f.db[f.dir.dfree].next])

\* Seeded bug: the head of the free list is not moved.
lfdbfreeUnlinked(f, d) == [f EXCEPT !.db[d].next = f.dir.dfree]
lfdbfree(f, d) ==
    LET f1 == [f EXCEPT !.db[d].next = f.dir.dfree, !.dir.dfree = d]
    IN  [f1 EXCEPT !.ddir = f1.dir]

\* The first index block: the one in memory unless the position lies before it.
FirstIndex(w) ==
    LET c == w.c
        ilist == w.f.dir.files[c.ent].ilist
        alloc == lfiballoc(w.f)
    IN  CASE c.inum = NULL /\ ilist = NULL /\ ~alloc.panic ->
               [f |-> [alloc EXCEPT !.dir.files[c.ent].ilist = w.f.dir.ifree],
                c |-> [c EXCEPT !.iblock = lfibclear(0), !.ibdirty = TRUE, !.inum = w.f.dir.ifree]]
          [] c.inum = NULL /\ ilist = NULL /\ alloc.panic -> [w EXCEPT !.f = alloc]
          [] ilist # NULL /\ (c.inum = NULL \/ c.pos < c.iblock.offset) ->
               [w EXCEPT !.c.iblock = lfibget(w.f, ilist), !.c.inum = ilist]
          [] OTHER -> w

\* One turn of the loop over the index list; at its end a new index block extends the file.
NextIndex(w, i) ==
    LET c == w.c
        next == c.iblock.next
        alloc == lfiballoc(w.f)
    IN  CASE w.f.panic \/ (c.pos \div LF_IDATA) * LF_IDATA <= c.iblock.offset -> w
          [] next # NULL -> [w EXCEPT !.c.iblock = lfibget(w.f, next), !.c.inum = next, !.c.dnum = NULL]
          [] alloc.panic -> [w EXCEPT !.f = alloc]
          [] OTHER ->
               [f |-> lfibput(alloc, c.inum, [c.iblock EXCEPT !.next = w.f.dir.ifree]),
                c |-> [c EXCEPT !.inum = w.f.dir.ifree, !.iblock = lfibclear(c.iblock.offset + LF_IDATA),
                                !.ibdirty = TRUE, !.dnum = NULL]]

\* The data block; a new one is filled, not read.  Seeded bug: the block in memory is kept.
DataBlockAny(w) ==
    LET c == w.c
        dindex == (c.pos % LF_IDATA) \div LF_BLKSIZ
        d == c.iblock.dba[dindex]
    IN  [w EXCEPT !.c.dnum = d, !.c.byte = c.pos % LF_BLKSIZ]
DataBlock(w) ==
    LET c == w.c
        dindex == (c.pos % LF_IDATA) \div LF_BLKSIZ
        d == c.iblock.dba[dindex]
        alloc == lfdballoc(w.f)
        at == [w EXCEPT !.c.byte = c.pos % LF_BLKSIZ]
    IN  CASE w.f.panic -> w
          [] d = NULL /\ alloc.panic -> [w EXCEPT !.f = alloc]
          [] d = NULL /\ ~alloc.panic ->
               [f |-> alloc, c |-> [at.c EXCEPT !.dblock = Blank, !.iblock.dba[dindex] = w.f.dir.dfree,
                                                !.ibdirty = TRUE, !.dnum = w.f.dir.dfree]]
          [] d # NULL /\ d # c.dnum ->
               [at EXCEPT !.c.dblock = w.f.db[d].data, !.c.dbdirty = FALSE, !.c.dnum = d]
          [] OTHER -> at

Turns == [i \in 1..IBlocks |-> i]
lfsetup(w) ==
    LET w1 == IF w.c.ibdirty \/ w.c.dbdirty THEN lfflush(w) ELSE w
    IN  DataBlock(FoldLeft(NextIndex, FirstIndex(w1), Turns))

\* One index block of lftruncate's loop: its data blocks are freed and, at the end of the
\* file's list, the free list is linked behind it.
FreeIndex(t, i) ==
    IF t.next = t.stop THEN t
    ELSE LET blk == lfibget(t.f, t.next)
             freed == FoldLeft(LAMBDA f, k : IF blk.dba[k - 1] = NULL THEN f ELSE lfdbfree(f, blk.dba[k - 1]),
                               t.f, [k \in 1..LF_IBLEN |-> k])
             next == IF blk.next = NULL THEN t.stop ELSE blk.next
         IN  [t EXCEPT !.f = lfibput(freed, t.next, [lfibclear(0) EXCEPT !.next = next]), !.next = next]

lftruncate(w) ==
    LET w1 == IF w.c.ibdirty \/ w.c.dbdirty THEN lfflush(w) ELSE w
        first == w1.f.dir.files[w.c.ent].ilist
        f1 == [w1.f EXCEPT !.dir.files[w.c.ent].ilist = NULL, !.dir.files[w.c.ent].size = 0]
        t == FoldLeft(FreeIndex, [f |-> f1, next |-> first, stop |-> f1.dir.ifree], Turns)
    IN  IF w.f.dir.files[w.c.ent].size = 0 THEN w
        ELSE [f |-> [t.f EXCEPT !.dir.ifree = first, !.dirdirty = TRUE],
              c |-> [w1.c EXCEPT !.pos = 0, !.inum = NULL, !.dnum = NULL, !.byte = LF_BLKSIZ]]

-----------------------------------------------------------------------------
(* Calls *)

World(s) == [f |-> fs, c |-> lfltab[s]]
SetWorld(s, w) == fs' = w.f /\ lfltab' = [lfltab EXCEPT ![s] = w.c]
Size(s) == fs.dir.files[lfltab[s].ent].size
Alone == LfConcurrent \/ (opening = {} /\ putting = {})
Usable(s) == Alone /\ lfltab[s].state = "USED" /\ \A q \in putting : q.slot # s
DirFree == putting = {}                         \* lf_mutex is free
lfgetmode == {"any", "old", "new"}              \* O and N exclude each other; R and W are not used

\* lfsopen up to wait(lf_mutex): the name must not be open and a slot must be free.
OpenSearch(n, mode) ==
    /\ Alone /\ Cardinality(opening) < 2
    /\ \A s \in Slots : lfltab[s].state = "USED" => lfltab[s].name # n
    /\ \E s \in Slots :
          /\ lfltab[s].state = "FREE" /\ \A r \in 0..s - 1 : lfltab[r].state = "USED"
          /\ opening' = opening \cup {[name |-> n, slot |-> s, mode |-> mode]}
    /\ UNCHANGED <<fs, lfltab, putting, text, puts>>

\* The rest of lfsopen: find or create the directory entry and set the control block.
Entries(n) == {e \in DOMAIN fs.dir.files : fs.dir.files[e].name = n}
OpenFile(o) ==
    LET found == Entries(o.name) # {}
        len == Len(fs.dir.files)
        ok == IF found THEN o.mode # "new" ELSE o.mode # "old" /\ len < LF_NUM_DIR_ENT
        ent == IF found THEN CHOOSE e \in Entries(o.name) : TRUE ELSE len + 1
    IN  /\ o \in opening /\ DirFree
        /\ opening' = opening \ {o}
        /\ IF ~ok THEN UNCHANGED <<fs, lfltab>>
           ELSE /\ fs' = IF found THEN fs
                         ELSE [fs EXCEPT !.dir.files = Append(@, [name |-> o.name, size |-> 0, ilist |-> NULL])]
                /\ lfltab' = [lfltab EXCEPT ![o.slot] =
                      [Closed EXCEPT !.state = "USED", !.name = o.name, !.ent = ent]]
        /\ UNCHANGED <<putting, text, puts>>

\* lflclose; it writes the directory without lf_mutex.  What it leaves in the control block
\* is not used again: lfsopen invalidates it.  Seeded bug: nothing is written.
CloseLazy(w) == w
CloseFlush(w) == IF w.f.dirdirty \/ w.c.dbdirty \/ w.c.ibdirty THEN lfflush(w) ELSE w
lflclose(s) ==
    /\ Usable(s)
    /\ LET w == CloseFlush(World(s)) IN SetWorld(s, [f |-> w.f, c |-> Closed])
    /\ UNCHANGED <<opening, putting, text, puts>>

lflgetc(s) ==
    LET needs == lfltab[s].byte >= LF_BLKSIZ
        w == IF needs THEN lfsetup(World(s)) ELSE World(s)
    IN  /\ Usable(s) /\ lfltab[s].pos < Size(s)
        /\ needs => DirFree
        /\ SetWorld(s, [w EXCEPT !.c.pos = @ + 1, !.c.byte = @ + 1])
        /\ UNCHANGED <<opening, putting, text, puts>>

\* The end of lflputc: the size, the byte and the position.
PutByte(w, b) ==
    LET c == w.c
        grows == c.pos >= w.f.dir.files[c.ent].size
    IN  [f |-> IF grows THEN [w.f EXCEPT !.dir.files[c.ent].size = @ + 1, !.dirdirty = TRUE] ELSE w.f,
         c |-> [c EXCEPT !.dblock[c.byte] = b, !.byte = @ + 1, !.pos = @ + 1, !.dbdirty = TRUE]]
Written(s, b) ==
    LET p == lfltab[s].pos + 1
        old == text[lfltab[s].name]
    IN  text' = [text EXCEPT ![lfltab[s].name] = IF p > Len(old) THEN Append(old, b) ELSE [old EXCEPT ![p] = b]]

\* lflputc.  When lfsetup allocates, another call may run between the allocator's write of
\* the directory and the statement after it that clears lf_dirdirty: see PutRest.
lflputc(s) ==
    LET b == puts + 1
        needs == lfltab[s].byte >= LF_BLKSIZ
        w == IF needs THEN lfsetup(World(s)) ELSE World(s)
        allocates == w.f.dir.dfree # fs.dir.dfree
    IN  /\ Usable(s) /\ puts < MaxPuts /\ puts' = b
        /\ needs => DirFree
        /\ IF w.f.panic THEN fs' = w.f /\ UNCHANGED <<lfltab, putting, text>>
           ELSE IF allocates
           THEN /\ SetWorld(s, w) /\ putting' = {[slot |-> s, byte |-> b]}
                /\ UNCHANGED text
           ELSE SetWorld(s, PutByte(w, b)) /\ Written(s, b) /\ UNCHANGED putting
        /\ UNCHANGED opening

PutRest(q) ==
    /\ q \in putting
    /\ SetWorld(q.slot, PutByte([World(q.slot) EXCEPT !.f.dirdirty = FALSE], q.byte))
    /\ Written(q.slot, q.byte)
    /\ putting' = {} /\ UNCHANGED <<opening, puts>>

lflseek(s, offset) ==
    /\ Usable(s) /\ offset <= Size(s)
    /\ lfltab' = [lfltab EXCEPT ![s].pos = offset, ![s].byte = LF_BLKSIZ]
    /\ UNCHANGED <<fs, opening, putting, text, puts>>

\* lflcontrol: truncation is its only function.
lflcontrol(s) ==
    /\ Usable(s) /\ DirFree
    /\ SetWorld(s, lftruncate(World(s)))
    /\ text' = [text EXCEPT ![lfltab[s].name] = <<>>]
    /\ UNCHANGED <<opening, putting, puts>>

LfsNext ==
    /\ ~fs.panic
    /\ \/ \E n \in Names, mode \in lfgetmode : OpenSearch(n, mode)
       \/ \E o \in opening : OpenFile(o)
       \/ \E s \in Slots : lflclose(s)
       \/ \E s \in Slots : lflgetc(s)
       \/ \E s \in Slots : lflputc(s)
       \/ \E q \in putting : PutRest(q)
       \/ \E s \in Slots, offset \in 0..MaxPuts : lflseek(s, offset)
       \/ \E s \in Slots : lflcontrol(s)

LfsSpec == LfsInit /\ [][LfsNext]_lfsVars

-----------------------------------------------------------------------------
(* Properties *)

\* Whatever was written, overwritten, sought and truncated before, a read at any position of
\* an open file returns the byte written there last: lfsetup finds the right index and data
\* block and has saved the ones it replaces.
LfReadsBack ==
    \A s \in Slots : lfltab[s].state = "USED" /\ (\A q \in putting : q.slot # s) /\ ~fs.panic =>
        /\ Size(s) = Len(text[lfltab[s].name])
        /\ \A p \in 0..Size(s) - 1 :
              LET c == lfltab[s]
                  w == lfsetup([World(s) EXCEPT !.c.pos = p])
              IN  w.c.dblock[w.c.byte] = text[c.name][p + 1]

\* The chain of index blocks from i, taking the index block in memory for the one on disk.
IndexChain(f, i, mem) ==
    LET blk(k) == IF k \in DOMAIN mem THEN mem[k] ELSE f.ib[k]
        step(chain, k) == IF Last(chain) = NULL THEN chain ELSE Append(chain, blk(Last(chain)).next)
    IN  Front(FoldLeft(step, <<i>>, Append(Turns, IBlocks + 1)))
FreeData(f) ==
    LET step(chain, k) == IF Last(chain) = NULL THEN chain ELSE Append(chain, f.db[Last(chain)].next)
    IN  Front(FoldLeft(step, <<f.dir.dfree>>, [i \in 1..DBlocks + 1 |-> i]))
InMemory == [i \in {lfltab[s].inum : s \in {t \in Slots : lfltab[t].state = "USED" /\ lfltab[t].inum # NULL}} |->
             lfltab[CHOOSE s \in Slots : lfltab[s].state = "USED" /\ lfltab[s].inum = i].iblock]

\* No block has two owners and none is lost: every index block is on the free list or in one
\* file, every data block free or in one index block of a file.
LfBlocksPartitioned ==
    ~fs.panic =>
    LET chains == <<IndexChain(fs, fs.dir.ifree, <<>>)>> \o
                  [e \in DOMAIN fs.dir.files |-> IndexChain(fs, fs.dir.files[e].ilist, InMemory)]
        index == FlattenSeq(chains)
        used == FlattenSeq(Tail(chains))
        blk(i) == IF i \in DOMAIN InMemory THEN InMemory[i] ELSE fs.ib[i]
        pointers(i) == SelectSeq([k \in 1..LF_IBLEN |-> blk(i).dba[k - 1]], LAMBDA d : d # NULL)
        data == FreeData(fs) \o FlattenSeq([k \in DOMAIN used |-> pointers(used[k])])
    IN  /\ Len(index) = IBlocks /\ IsInjective(index)
        /\ Len(data) = DBlocks /\ IsInjective(data)

\* A closed file is on the disk: read through the directory on the disk, as after a restart,
\* it has the contents it had when it was closed.  (A file that is still empty may be missing.)
LfDurable ==
    \A n \in Names :
        (\A s \in Slots : ~(lfltab[s].state = "USED" /\ lfltab[s].name = n)) /\ ~fs.panic =>
        LET on == {e \in DOMAIN fs.ddir.files : fs.ddir.files[e].name = n}
            c(e, p) == [Closed EXCEPT !.ent = e, !.pos = p]
            w(e, p) == lfsetup([f |-> [fs EXCEPT !.dir = fs.ddir], c |-> c(e, p)])
        IN  IF on = {} THEN text[n] = <<>>
            ELSE \A e \in on :
                    /\ fs.ddir.files[e].size = Len(text[n])
                    /\ \A p \in 0..Len(text[n]) - 1 : w(e, p).c.dblock[w(e, p).c.byte] = text[n][p + 1]
=============================================================================
