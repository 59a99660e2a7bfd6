----------------------------- MODULE RemoteDisk -----------------------------
(***************************************************************************)
(* The remote disk driver (device/rds): clients call rdsread, rdswrite,    *)
(* rdscontrol, rdsopen and rdsclose; the high-priority process rdsprocess  *)
(* takes requests off a doubly linked list, talks to the server through    *)
(* rdscomm and leaves the buffers in a cache.  A buffer is a node of the    *)
(* request list (sentinels RH, RT), of the cache (CH, CT) or of the free    *)
(* list, exactly as in struct rdbuff, so wrong link updates are visible.   *)
(*                                                                         *)
(* A client runs only while rdsprocess is blocked (RD_PRIO is above every  *)
(* user priority); it can be preempted between two of its steps.            *)
(***************************************************************************)
EXTENDS Integers, Sequences, FiniteSets

CONSTANTS Clients,      \* processes that use the disk
          Blocks,       \* block numbers, 0 among them
          NBuf,         \* RD_BUFFS
          MaxWrites,    \* bound: calls of rdswrite in a behaviour
          MaxReads,     \* bound: calls of rdsread in a behaviour
          MaxCtl,       \* bound: calls of rdsopen, rdsclose and rdscontrol
          Ops,          \* the calls clients make
          Readers,      \* clients that read
          Parents,      \* clients with a child that may exit at any time
          Serial        \* are the calls serialised, as pf_sem does?

ASSUME DiskAssumption ==
    /\ NBuf \in Nat \ {0} /\ 0 \in Blocks /\ Blocks \subseteq Nat
    /\ MaxWrites \in Nat /\ MaxReads \in Nat /\ MaxCtl \in Nat
    /\ Ops \subseteq {"read", "write", "sync", "del", "open", "close", "badid"}
    /\ Readers \subseteq Clients /\ Parents \subseteq Clients /\ Serial \in BOOLEAN

VARIABLES state,    \* rd_state
          next,     \* rd_next of buffers and sentinels
          prev,     \* rd_prev of buffers and sentinels
          free,     \* rd_free
          buf,      \* the other fields of each buffer
          avail,    \* rd_availsem: count and queue of waiting clients
          req,      \* rd_reqsem: its count
          comm,     \* where rdsprocess is, and its request
          msg,      \* the message waiting for each client
          call,     \* what each client is doing
          disk,     \* contents of the disk at the server
          used,     \* calls made so far, by kind (bounds)
          fatal,    \* a panic or a wild pointer access has happened
          latest,   \* history: value of the last rdswrite of each block
          ok,       \* history: values a running read may return
          torn      \* history: a disk was deleted under queued or running requests, or its
                    \* device stayed open

vars == <<state, next, prev, free, buf, avail, req, comm, msg, call, disk, used, fatal, latest, ok, torn>>

-----------------------------------------------------------------------------
Bufs == 1..NBuf
NIL == 0
RH == -1
RT == -2
CH == -3
CT == -4
Nodes == Bufs \cup {RH, RT, CH, CT}
\* A message is the address of a buffer, OK, or the identifier of an exited child.
None == 0
MsgOK == -1
MsgPid == -2
Idle == [pc |-> "idle", op |-> "none", blk |-> 0, val |-> 0, b |-> NIL]

\* The buffers from node n along the links nx, up to the first node that is no buffer
\* (at most NBuf + 1: a longer walk is a cycle).
WalkFrom(nx, n) ==
    LET W[m \in Nodes \cup {NIL}, k \in 0..NBuf + 1] ==
            IF m \notin Bufs \/ k = 0 THEN <<>> ELSE <<m>> \o W[nx[m], k - 1]
    IN  W[n, NBuf + 1]
Requests == WalkFrom(next, next[RH])
Cache == WalkFrom(next, next[CH])
FreeList == WalkFrom(next, free)
Elems(s) == {s[i] : i \in DOMAIN s}

\* The first node of a walk that is one of these buffers, or NIL.
First(s, these) ==
    LET hits == {i \in DOMAIN s : s[i] \in these}
    IN  IF hits = {} THEN NIL ELSE s[CHOOSE i \in hits : \A j \in hits : i <= j]

\* Take node b out of the list its links name.
\* Seeded bug: the successor keeps its link to b.
UnlinkForward(b) == next' = [next EXCEPT ![prev[b]] = next[b]] /\ UNCHANGED prev
Unlink(b) == /\ next' = [next EXCEPT ![prev[b]] = next[b]]
             /\ prev' = [prev EXCEPT ![next[b]] = prev[b]]

\* Insert a request just before the tail.
\* Seeded bug: the old last node is not linked to the new one.
PutRequestShort(n, p, b) == [nx |-> [n EXCEPT ![b] = n[p[RT]]], pv |-> [p EXCEPT ![b] = p[RT], ![RT] = b]]
PutRequest(n, p, b) ==
    [nx |-> [n EXCEPT ![b] = n[p[RT]], ![p[RT]] = b], pv |-> [p EXCEPT ![b] = p[RT], ![RT] = b]]

\* Move b from the request list to the front of the cache.
ToCache(b) ==
    LET n1 == [next EXCEPT ![prev[b]] = next[b]]
        p1 == [prev EXCEPT ![next[b]] = prev[b]]
    IN  [nx |-> [n1 EXCEPT ![b] = n1[CH], ![CH] = b],
         pv |-> [p1 EXCEPT ![b] = CH, ![n1[CH]] = b]]

\* signal(rd_availsem): the first waiter becomes ready to take a buffer.
SignalAvail(a, cl) ==
    IF a.n < 0
    THEN [a |-> [n |-> a.n + 1, q |-> Tail(a.q)], c |-> [cl EXCEPT ![Head(a.q)].pc = "got"]]
    ELSE [a |-> [a EXCEPT !.n = @ + 1], c |-> cl]

\* send: refused when the receiver already holds a message.
Send(ms, c, x) == IF ms[c] = None THEN [ms EXCEPT ![c] = x] ELSE ms

Init ==
    /\ state = "FREE"
    /\ next = [n \in Nodes |-> CASE n = RH -> RT [] n = CH -> CT [] n \in {RT, CT} -> NIL
                                 [] OTHER -> IF n = NBuf THEN NIL ELSE n + 1]
    /\ prev = [n \in Nodes |-> CASE n = RT -> RH [] n = CT -> CH [] OTHER -> NIL]
    /\ free = 1
    /\ buf = [b \in Bufs |-> [op |-> "none", ref |-> 0, blk |-> 0, status |-> "INVALID",
                              pid |-> None, data |-> 0]]
    /\ avail = [n |-> NBuf, q |-> <<>>]
    /\ req = 0
    /\ comm = [pc |-> "wait", b |-> NIL, op |-> "none", blk |-> 0, val |-> 0]
    /\ msg = [c \in Clients |-> None]
    /\ call = [c \in Clients |-> Idle]
    /\ disk = [b \in Blocks |-> 0]
    /\ used = [read |-> 0, write |-> 0, ctl |-> 0]
    /\ fatal = FALSE
    /\ latest = [b \in Blocks |-> 0]
    /\ ok = [c \in Clients |-> {}]
    /\ torn = FALSE

-----------------------------------------------------------------------------
\* rdsprocess runs first whenever it can: clients move only while it is blocked.
CommBlocked == comm.pc \in {"reply", "sleep"} \/ (comm.pc = "wait" /\ req = 0)
\* Under pf_sem one client at a time is inside the driver.
MayEnter(c) == /\ ~fatal /\ CommBlocked /\ call[c].pc = "idle"
               /\ Serial => \A d \in Clients : call[d].pc = "idle"

\* wait(rd_availsem) on the way into rdsbufalloc: nothing blocks while it is positive.
WaitAvail(c, op, b, v) ==
    /\ avail' = IF avail.n > 0 THEN [avail EXCEPT !.n = @ - 1]
                ELSE [n |-> avail.n - 1, q |-> Append(avail.q, c)]
    /\ call' = [call EXCEPT ![c] = [pc |-> IF avail.n > 0 THEN "got" ELSE "alloc",
                                    op |-> op, blk |-> b, val |-> v, b |-> NIL]]

\* The block as the cache and the request list give it to a reader, or None.
CachedCopy(b) == First(Cache, {x \in Bufs : buf[x].blk = b})
QueuedCopy(b) == First(WalkFrom(prev, prev[RT]), {x \in Bufs : buf[x].blk = b})
HitOf(b) == IF CachedCopy(b) # NIL /\ buf[CachedCopy(b)].status = "VALID" THEN CachedCopy(b)
            ELSE IF QueuedCopy(b) # NIL /\ buf[QueuedCopy(b)].op = "write" THEN QueuedCopy(b)
            ELSE NIL

\* rdsread up to rdsbufalloc: a valid cached copy or the newest queued write answers.
rdsreadStart(c, b) ==
    /\ MayEnter(c) /\ c \in Readers /\ state = "OPEN" /\ used.read < MaxReads
    /\ used' = [used EXCEPT !.read = @ + 1]
    /\ ok' = [ok EXCEPT ![c] = {latest[b]}]
    /\ IF HitOf(b) # NIL
       THEN /\ call' = [call EXCEPT ![c] = [Idle EXCEPT !.pc = "done", !.val = buf[HitOf(b)].data]]
            /\ UNCHANGED avail
       ELSE WaitAvail(c, "read", b, 0)
    /\ UNCHANGED <<state, next, prev, free, buf, req, comm, msg, disk, fatal, latest, torn>>

\* A cached buffer that no reader is using may be taken for another request.
\* Seeded bug: an off-by-one in the comparison of the reference count.
UnreferencedLess(b) == buf[b].ref < 0
Unreferenced(b) == buf[b].ref <= 0

\* semreset(rd_availsem, semcount(rd_availsem) - 1): refused when the result is negative.
ClaimCached == IF avail.n >= 1 THEN [avail EXCEPT !.n = @ - 1] ELSE avail

\* History: the write of v to b has taken effect for later reads.
Wrote(b, v) ==
    /\ latest' = [latest EXCEPT ![b] = v]
    /\ ok' = [d \in Clients |-> IF call[d].op = "read" /\ call[d].blk = b THEN ok[d] \cup {v} ELSE ok[d]]

\* rdswrite up to the buffer: replace a queued write, take over an unreferenced cached
\* copy (one unit of rd_availsem goes with it), or wait for a buffer.
rdswriteStart(c, b) ==
    /\ MayEnter(c) /\ state = "OPEN" /\ used.write < MaxWrites
    /\ used' = [used EXCEPT !.write = @ + 1]
    /\ LET v == used.write + 1
           q == First(Requests, {x \in Bufs : buf[x].blk = b /\ buf[x].op = "write"})
           h == CachedCopy(b)
       IN  /\ IF q # NIL
              THEN buf' = [buf EXCEPT ![q].data = v] /\ Wrote(b, v) /\ UNCHANGED <<next, prev, avail, call>>
              ELSE IF h # NIL /\ Unreferenced(h)
              THEN /\ Unlink(h)
                   /\ avail' = ClaimCached
                   /\ call' = [call EXCEPT ![c] = [pc |-> "fill", op |-> "write", blk |-> b, val |-> v, b |-> h]]
                   /\ UNCHANGED <<buf, latest, ok>>
              ELSE WaitAvail(c, "write", b, v) /\ UNCHANGED <<buf, next, prev, latest, ok>>
    /\ UNCHANGED <<state, free, req, comm, msg, disk, fatal, torn>>

\* rdscontrol(RDS_CTL_SYNC) up to rdsbufalloc.
SyncStart(c) ==
    /\ MayEnter(c) /\ state = "OPEN" /\ "sync" \in Ops /\ used.ctl < MaxCtl
    /\ used' = [used EXCEPT !.ctl = @ + 1]
    /\ WaitAvail(c, "sync", 0, 0)
    /\ UNCHANGED <<state, next, prev, free, buf, req, comm, msg, disk, fatal, latest, ok, torn>>

\* rdsbufalloc after wait: the head of the free list, else the oldest unreferenced
\* cached buffer, else panic.
Oldest == First(WalkFrom(prev, prev[CT]), {x \in Bufs : Unreferenced(x)})
rdsbufalloc(c) ==
    /\ ~fatal /\ CommBlocked /\ call[c].pc = "got"
    /\ IF free # NIL
       THEN /\ free' = next[free]
            /\ call' = [call EXCEPT ![c].pc = "fill", ![c].b = free]
            /\ UNCHANGED <<next, prev, fatal>>
       ELSE IF Oldest # NIL
       THEN /\ Unlink(Oldest)
            /\ call' = [call EXCEPT ![c].pc = "fill", ![c].b = Oldest]
            /\ UNCHANGED <<free, fatal>>
       ELSE fatal' = TRUE /\ UNCHANGED <<free, next, prev, call>>
    /\ UNCHANGED <<state, buf, avail, req, comm, msg, disk, used, latest, ok, torn>>

\* signal(rd_reqsem) for a new request.  A sync calls resume(rd_comproc) instead, which
\* has no effect: rdsprocess is not suspended.
\* Seeded bug: a write does not signal.
KickReadOnly(o) == IF o = "read" THEN req + 1 ELSE req
\* Seeded bug: a read does not signal.
KickWriteOnly(o) == IF o = "write" THEN req + 1 ELSE req
Kick(o) == IF o = "sync" THEN req ELSE req + 1

\* The buffer becomes a request at the tail of the queue.  A read or a sync clears old
\* messages and will wait for one; a write returns.
Fill(c) ==
    /\ ~fatal /\ CommBlocked /\ call[c].pc = "fill"
    /\ LET b == call[c].b
           o == call[c].op
           l == PutRequest(next, prev, b)
       IN  /\ next' = l.nx /\ prev' = l.pv
           /\ buf' = [buf EXCEPT ![b] = [op |-> o, ref |-> IF o = "write" THEN 0 ELSE 1, blk |-> call[c].blk,
                            status |-> IF o = "write" THEN "VALID" ELSE "INVALID", pid |-> c,
                            data |-> IF o = "write" THEN call[c].val ELSE buf[b].data]]
           /\ req' = Kick(o)
           /\ IF o = "write" THEN Wrote(call[c].blk, call[c].val) ELSE UNCHANGED <<latest, ok>>
           /\ IF o = "write" THEN call' = [call EXCEPT ![c] = Idle] /\ UNCHANGED msg
              ELSE call' = [call EXCEPT ![c].pc = "recv"] /\ msg' = [msg EXCEPT ![c] = None]
    /\ UNCHANGED <<state, free, avail, comm, disk, used, fatal, torn>>

\* receive returns: any message is taken for the address of a buffer.  The data is
\* copied and the reference given up.
rdsreadReceive(c) ==
    /\ ~fatal /\ CommBlocked /\ call[c].pc = "recv" /\ call[c].op = "read" /\ msg[c] # None
    /\ msg' = [msg EXCEPT ![c] = None]
    /\ LET b == msg[c]
       IN  IF b \in Bufs
           THEN /\ buf' = [buf EXCEPT ![b].ref = @ - 1]
                /\ call' = [call EXCEPT ![c].val = buf[b].data, ![c].b = b,
                              ![c].pc = IF buf[b].ref - 1 <= 0 THEN "loop" ELSE "done"]
                /\ UNCHANGED fatal
           ELSE fatal' = TRUE /\ UNCHANGED <<buf, call>>
    /\ UNCHANGED <<state, next, prev, free, avail, req, comm, disk, used, latest, ok, torn>>

\* One turn of the loop over the cache: the pointer it compares never advances.
rdsreadLoop(c) ==
    /\ ~fatal /\ CommBlocked /\ call[c].pc = "loop"
    /\ LET b == call[c].b
           h == next[CH]
       IN  IF h = b
           THEN call' = [call EXCEPT ![c].pc = "done"] /\ UNCHANGED <<next, prev, free, fatal>>
           ELSE /\ h \in Bufs /\ buf[h].blk = call[c].blk
                /\ IF next[b] = NIL
                   THEN fatal' = TRUE /\ UNCHANGED <<next, prev, free>>
                   ELSE /\ next' = [next EXCEPT ![prev[b]] = next[b], ![b] = free]
                        /\ prev' = [prev EXCEPT ![next[b]] = prev[b]]
                        /\ free' = b /\ UNCHANGED fatal
                /\ UNCHANGED call
    /\ UNCHANGED <<state, buf, avail, req, comm, msg, disk, used, latest, ok, torn>>

\* The call returns to its caller: the data of a read is in the caller's buffer.
Return(c) ==
    /\ ~fatal /\ CommBlocked
    /\ \/ call[c].pc = "done"
       \/ call[c].pc = "recv" /\ call[c].op = "sync" /\ msg[c] # None
    /\ call' = [call EXCEPT ![c] = Idle] /\ msg' = [msg EXCEPT ![c] = None]
    /\ ok' = [ok EXCEPT ![c] = {}]
    /\ UNCHANGED <<state, next, prev, free, buf, avail, req, comm, disk, used, fatal, latest, torn>>

\* A child of c exits: kill sends the parent a message.
ChildExit(c) ==
    /\ ~fatal /\ c \in Parents /\ CommBlocked /\ msg[c] = None
    /\ msg' = [msg EXCEPT ![c] = MsgPid]
    /\ UNCHANGED <<state, next, prev, free, buf, avail, req, comm, call, disk, used, fatal, latest, ok, torn>>

-----------------------------------------------------------------------------
\* rdsopen: the state is PEND while the server is asked.  An identifier that is empty or
\* too long is refused after the state has been set.
OpenStart(c) ==
    /\ MayEnter(c) /\ "open" \in Ops /\ state = "FREE" /\ used.ctl < MaxCtl
    /\ used' = [used EXCEPT !.ctl = @ + 1]
    /\ state' = "PEND"
    /\ call' = [call EXCEPT ![c] = [Idle EXCEPT !.pc = "open"]]
    /\ UNCHANGED <<next, prev, free, buf, avail, req, comm, msg, disk, fatal, latest, ok, torn>>
OpenReply(c) ==
    /\ ~fatal /\ CommBlocked /\ call[c].pc = "open"
    /\ state' \in {"OPEN", "FREE"}
    /\ call' = [call EXCEPT ![c] = Idle]
    /\ UNCHANGED <<next, prev, free, buf, avail, req, comm, msg, disk, used, fatal, latest, ok, torn>>
OpenBadId(c) ==
    /\ MayEnter(c) /\ "badid" \in Ops /\ state = "FREE" /\ used.ctl < MaxCtl
    /\ used' = [used EXCEPT !.ctl = @ + 1]
    /\ state' = "PEND"
    /\ UNCHANGED <<next, prev, free, buf, avail, req, comm, msg, call, disk, fatal, latest, ok, torn>>

\* rdsclose: refused while requests are queued; else every cached buffer goes to the free
\* list.  rd_availsem already counts the unreferenced ones.
rdsclosable == state = "OPEN" /\ next[RH] = RT
rdsclose ==
    LET s == Cache
        f == [i \in 0..Len(s) |-> IF i = 0 THEN free ELSE s[i]]
    IN  /\ next' = [n \in Nodes |-> IF n = CH THEN CT
                       ELSE IF n \in Elems(s) THEN f[(CHOOSE i \in DOMAIN s : s[i] = n) - 1] ELSE next[n]]
        /\ prev' = [prev EXCEPT ![CT] = CH]
        /\ free' = f[Len(s)]
        /\ buf' = [b \in Bufs |-> IF b \in Elems(s) THEN [buf[b] EXCEPT !.status = "INVALID"] ELSE buf[b]]
        /\ state' = "FREE"
Close(c) ==
    /\ MayEnter(c) /\ "close" \in Ops /\ used.ctl < MaxCtl /\ rdsclosable
    /\ used' = [used EXCEPT !.ctl = @ + 1]
    /\ rdsclose
    /\ UNCHANGED <<avail, req, comm, msg, call, disk, fatal, latest, ok, torn>>

\* rdscontrol(RDS_CTL_DEL): an exchange with the server, which removes the disk if the
\* request gets there.
DeleteStart(c) ==
    /\ MayEnter(c) /\ "del" \in Ops /\ used.ctl < MaxCtl /\ state = "OPEN"
    /\ used' = [used EXCEPT !.ctl = @ + 1]
    /\ call' = [call EXCEPT ![c] = [Idle EXCEPT !.pc = "delete"]]
    /\ UNCHANGED <<state, next, prev, free, buf, avail, req, comm, msg, disk, fatal, latest, ok, torn>>
DeleteAtServer(c) ==
    /\ ~fatal /\ CommBlocked /\ call[c].pc = "delete"
    /\ disk' = [b \in Blocks |-> 0] /\ latest' = [b \in Blocks |-> 0]
    /\ torn' = (torn \/ next[RH] # RT \/ comm.pc = "reply")
    /\ call' = [call EXCEPT ![c].pc = "deleted"]
    /\ UNCHANGED <<state, next, prev, free, buf, avail, req, comm, msg, used, fatal, ok>>
\* With the server's answer the device is closed if its request queue is empty, and left
\* open otherwise.  Without one, after SYSERR or TIMEOUT, it is left open with its cache.
DeleteEnd(c) ==
    /\ ~fatal /\ CommBlocked
    /\ \/ /\ call[c].pc = "deleted" /\ rdsclosable
          /\ rdsclose /\ UNCHANGED torn
       \/ /\ call[c].pc = "deleted"
          /\ torn' = TRUE /\ UNCHANGED <<next, prev, free, buf, state>>
       \/ /\ call[c].pc = "delete"
          /\ UNCHANGED <<next, prev, free, buf, state, torn>>
    /\ call' = [call EXCEPT ![c] = Idle]
    /\ UNCHANGED <<avail, req, comm, msg, disk, used, fatal, latest, ok>>

-----------------------------------------------------------------------------
\* rdsprocess takes the head of the request list.  A read is sent to the server; a write
\* is copied to the message, moved to the cache and made available before it is sent; a
\* sync is answered and freed.  A sentinel taken for a buffer matches no operation.
CommIdle(pc) == [pc |-> pc, b |-> NIL, op |-> "none", blk |-> 0, val |-> 0]
rdsprocessTake ==
    /\ ~fatal /\ comm.pc = "wait" /\ req > 0
    /\ req' = req - 1
    /\ LET b == next[RH]
       IN  \/ /\ b \notin Bufs
              /\ comm' = CommIdle("sleep")
              /\ UNCHANGED <<next, prev, free, buf, avail, call, msg>>
           \/ /\ b \in Bufs /\ buf[b].op = "read"
              /\ comm' = [pc |-> "reply", b |-> b, op |-> "read", blk |-> buf[b].blk, val |-> 0]
              /\ UNCHANGED <<next, prev, free, buf, avail, call, msg>>
           \/ /\ b \in Bufs /\ buf[b].op = "write"
              /\ comm' = [pc |-> "reply", b |-> b, op |-> "write", blk |-> buf[b].blk, val |-> buf[b].data]
              /\ next' = ToCache(b).nx /\ prev' = ToCache(b).pv
              /\ buf' = [buf EXCEPT ![b].ref = 0]
              /\ avail' = SignalAvail(avail, call).a /\ call' = SignalAvail(avail, call).c
              /\ UNCHANGED <<free, msg>>
           \/ /\ b \in Bufs /\ buf[b].op = "sync"
              /\ comm' = CommIdle("sleep")
              /\ msg' = Send(msg, buf[b].pid, MsgOK)
              /\ next' = [next EXCEPT ![prev[b]] = next[b], ![b] = free]
              /\ prev' = [prev EXCEPT ![next[b]] = prev[b]]
              /\ free' = b
              /\ avail' = SignalAvail(avail, call).a /\ call' = SignalAvail(avail, call).c
              /\ UNCHANGED buf
    /\ UNCHANGED <<state, disk, used, fatal, latest, ok, torn>>

\* The reply to a read: the buffer moves to the cache, one unit of rd_availsem is given
\* although the reader still holds the buffer, the reader is told, and the first queued
\* request for the same block, of whatever kind, is answered and unlinked with the links
\* of the cached buffer.
rdsprocessReadReply ==
    /\ ~fatal /\ comm.pc = "reply" /\ comm.op = "read"
    /\ comm' = CommIdle("sleep")
    /\ LET b  == comm.b
           l  == ToCache(b)
           s1 == SignalAvail(avail, call)
           m1 == Send(msg, buf[b].pid, b)
           q  == First(WalkFrom(l.nx, l.nx[RH]), {x \in Bufs : buf[x].blk = buf[b].blk})
           s2 == SignalAvail(s1.a, s1.c)
       IN  IF q = NIL
           THEN /\ next' = l.nx /\ prev' = l.pv
                /\ buf' = [buf EXCEPT ![b].ref = 1, ![b].data = disk[comm.blk]]
                /\ avail' = s1.a /\ call' = s1.c /\ msg' = m1
                /\ UNCHANGED free
           ELSE /\ next' = [l.nx EXCEPT ![l.pv[q]] = l.nx[b], ![q] = free]
                /\ prev' = [l.pv EXCEPT ![l.nx[q]] = l.pv[b]]
                /\ buf' = [buf EXCEPT ![b].ref = 2, ![b].data = disk[comm.blk]]
                /\ avail' = s2.a /\ call' = s2.c /\ msg' = Send(m1, buf[q].pid, b)
                /\ free' = q
    /\ UNCHANGED <<state, req, disk, used, fatal, latest, ok, torn>>

\* The server has carried out the write and answered.
rdsprocessWriteReply ==
    /\ ~fatal /\ comm.pc = "reply" /\ comm.op = "write"
    /\ disk' = [disk EXCEPT ![comm.blk] = comm.val]
    /\ comm' = CommIdle("sleep")
    /\ UNCHANGED <<state, next, prev, free, buf, avail, req, msg, call, used, fatal, latest, ok, torn>>

\* sleepms(1) at the end of the loop.
rdsprocessSleep ==
    /\ ~fatal /\ comm.pc = "sleep"
    /\ comm' = CommIdle("wait")
    /\ UNCHANGED <<state, next, prev, free, buf, avail, req, msg, call, disk, used, fatal, latest, ok, torn>>

rdsprocess == rdsprocessTake \/ rdsprocessReadReply \/ rdsprocessWriteReply \/ rdsprocessSleep

Client(c) == rdsbufalloc(c) \/ Fill(c) \/ rdsreadReceive(c) \/ rdsreadLoop(c) \/ Return(c) \/ OpenReply(c)
\* The calls the paging system makes, and the others.
PageCall(c) == (\E b \in Blocks : rdsreadStart(c, b) \/ rdswriteStart(c, b)) \/ OpenStart(c) \/ Close(c)
OtherCall(c) == SyncStart(c) \/ OpenBadId(c) \/ ChildExit(c)
                \/ DeleteStart(c) \/ DeleteAtServer(c) \/ DeleteEnd(c)

Next == rdsprocess \/ \E c \in Clients : Client(c) \/ PageCall(c) \/ OtherCall(c)
Spec == Init /\ [][Next]_vars

\* The driver as the paging system uses it, without rdscontrol, where rdsprocess, the
\* network, the server and the scheduler make progress.
PageNext == rdsprocess \/ \E c \in Clients : Client(c) \/ PageCall(c)
FairSpec == /\ Init /\ [][PageNext]_vars
            /\ WF_vars(rdsprocess) /\ \A c \in Clients : WF_vars(Client(c))

-----------------------------------------------------------------------------
\* rdsread copies to the caller a value the block had during the call: the newest write
\* that was accepted before the call, or one accepted while it ran, wherever the block
\* is at the time: cache, request list or server.
ReadCoherent ==
    ~torn => \A c \in Clients : call[c].pc \in {"done", "loop"} => call[c].val \in ok[c]

\* A write that rdswrite accepted is not lost: the newest value of every block is on a
\* queued write request, in the message being sent, or at the server.
NoLostWrite ==
    ~torn => \A k \in Blocks :
        \/ disk[k] = latest[k]
        \/ comm.pc = "reply" /\ comm.op = "write" /\ comm.blk = k /\ comm.val = latest[k]
        \/ \E b \in Elems(Requests) : buf[b].op = "write" /\ buf[b].blk = k /\ buf[b].data = latest[k]

\* The doubly linked lists read the same in both directions, every buffer is on one list
\* exactly or in the hands of one call, and whoever passed wait(rd_availsem) finds a buffer,
\* as the comment at rdsbufalloc.c:30 says ("at least one such entry must exist"): no panic.
Reversed(s) == [i \in 1..Len(s) |-> s[Len(s) + 1 - i]]
BuffersPartitioned ==
    /\ WalkFrom(prev, prev[RT]) = Reversed(Requests) /\ WalkFrom(prev, prev[CT]) = Reversed(Cache)
    /\ \A b \in Bufs :
          Cardinality({l \in {"r", "c", "f"} : b \in Elems(CASE l = "r" -> Requests [] l = "c" -> Cache
                                                                [] OTHER -> FreeList)})
          + Cardinality({c \in Clients : call[c].pc = "fill" /\ call[c].b = b}) = 1
    /\ Cardinality({c \in Clients : call[c].pc = "got"}) <=
           Len(FreeList) + Cardinality({b \in Elems(Cache) : buf[b].ref <= 0})
    /\ ~fatal

\* Every call of the driver returns.
CallsReturn == \A c \in Clients : call[c].pc # "idle" ~> call[c].pc = "idle"

\* Once the clients stop writing, the server holds what they wrote last.
EventuallyStored == <>[](disk = latest)

=============================================================================
