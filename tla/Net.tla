-------------------------------- MODULE Net --------------------------------
(***************************************************************************)
(* UDP and ICMP endpoints over one pool of packet buffers.  netin reads a   *)
(* frame into a buffer and hands it to an endpoint, which queues it for the *)
(* process that waits with recvtime; an echo request is answered through    *)
(* the IP output queue, which the process ipout empties.                    *)
(* Addresses are the data: an endpoint is <<remote, local port>>, with 0    *)
(* for any remote; frames that ip_in, arp_in or netin only free are junk.   *)
(* Of the pool only the count of free buffers matters; a buffer in use is   *)
(* the packet in it, wherever that is.                                      *)
(***************************************************************************)
EXTENDS Integers, Sequences, FiniteSets

CONSTANTS NetProcs,     \* processes that use the network
          Endpoints,    \* the <<remote, port>> pairs they register
          Pinged,       \* the <<host, 0>> pairs they ping
          Senders,      \* the <<remote, port>> pairs of arriving datagrams
          UDP_SLOTS, UDP_QSIZ,      \* UDP endpoints, packets queued at each
          ICMP_SLOTS, ICMP_QSIZ,    \* ping slots, packets queued at each
          IP_OQSIZ,     \* packets in the IP output queue
          MaxPackets,   \* bound: packets queued at endpoints
          MaxNetCalls   \* bound: endpoints registered and packets sent by the processes

ASSUME NetAssumption ==
    /\ {UDP_SLOTS, UDP_QSIZ, ICMP_SLOTS, ICMP_QSIZ, IP_OQSIZ} \subseteq Nat \ {0}
    /\ MaxPackets \in Nat /\ MaxNetCalls \in Nat

VARIABLES free,     \* netbufpool: the count of its semaphore
          udptab, icmptab,
          ipoqueue, \* ring of the output queue and its semaphore
          netin, ipout, \* where the two processes are; netin holds a buffer except at "get",
                        \* ipout at "resolve"
          user,     \* where each process is, its endpoint, mailbox and last packet; it holds
                    \* a buffer at "resolve"
          serial,   \* history: packets queued at endpoints so far, to number them
          calls,    \* endpoints registered and packets sent so far (bound)
          overrun   \* history: the queue that was first written or read beyond its limits

netVars == <<free, udptab, icmptab, ipoqueue, netin, ipout, user, serial, calls, overrun>>

\* net_init: one buffer for every place in a queue, and one for netin.
nbufs == UDP_SLOTS * UDP_QSIZ + ICMP_SLOTS * ICMP_QSIZ + 1
NoPacket == [proto |-> "none", key |-> <<0, 0>>, n |-> 0]
Reply == [NoPacket EXCEPT !.proto = "reply"]
getbuf == free > 0 /\ free' = free - 1
freebuf == free' = free + 1

Slot(size) == [state |-> "FREE", key |-> <<0, 0>>, cnt |-> 0, head |-> 0, tail |-> 0,
               q |-> [i \in 0..size - 1 |-> NoPacket], pid |-> "none"]

NoUser == [pc |-> "idle", proto |-> "udp", slot |-> 0, msg |-> "none", last |-> 0]

NetInit ==
    /\ free = nbufs
    /\ udptab = [s \in 0..UDP_SLOTS - 1 |-> Slot(UDP_QSIZ)]
    /\ icmptab = [s \in 0..ICMP_SLOTS - 1 |-> Slot(ICMP_QSIZ)]
    /\ ipoqueue = [q |-> [i \in 0..IP_OQSIZ - 1 |-> NoPacket], head |-> 0, tail |-> 0, sem |-> 0]
    /\ netin = "get" /\ ipout = "wait"
    /\ user = [p \in NetProcs |-> NoUser]
    /\ serial = 0 /\ calls = 0 /\ overrun = "none"

-----------------------------------------------------------------------------
(* Queues of an endpoint. *)

Put(e, packet, qsiz) == [e EXCEPT !.cnt = @ + 1, !.q[e.tail] = packet, !.tail = (@ + 1) % qsiz,
                             !.state = IF @ = "RECV" THEN "USED" ELSE @]
\* The head wraps at the bound the receiving function compares it with.  The entry it leaves
\* behind is not read again before the queue is overrun.
Take(e, wrap) == [e EXCEPT !.cnt = @ - 1, !.q[e.head] = NoPacket, !.head = IF @ + 1 >= wrap THEN 0 ELSE @ + 1]
\* The positions the next n packets are taken from.
Heads(e, n, wrap) == {(e.head + i) % wrap : i \in 0..n - 1}

\* send(pid, OK) to the process that waits at endpoint e; a pending message is kept.
Notify(e) == [p \in NetProcs |->
    IF e.state = "RECV" /\ p = e.pid /\ user[p].msg = "none"
    THEN [user[p] EXCEPT !.msg = "OK"] ELSE user[p]]

Packet(proto, k) == [proto |-> proto, key |-> k, n |-> serial + 1]

\* udp_in looks for the first endpoint that matches and has room.
\* Seeded bug: the room in the queue is not checked.
UdpMatchFull(k) == {s \in DOMAIN udptab : /\ udptab[s].state # "FREE" /\ udptab[s].key[2] = k[2]
                                          /\ udptab[s].key[1] \in {0, k[1]}}
UdpMatch(k) == {s \in DOMAIN udptab : /\ udptab[s].state # "FREE" /\ udptab[s].key[2] = k[2]
                                      /\ udptab[s].key[1] \in {0, k[1]}
                                      /\ udptab[s].cnt < UDP_QSIZ}
udp_in(k, others) ==    \* others: the buffers that are free while udp_in has its own
    IF UdpMatch(k) # {}
    THEN LET s == CHOOSE x \in UdpMatch(k) : \A y \in UdpMatch(k) : x <= y IN
         /\ udptab' = [udptab EXCEPT ![s] = Put(@, Packet("udp", k), UDP_QSIZ)]
         /\ user' = Notify(udptab[s]) /\ serial' = serial + 1 /\ free' = others
    ELSE free' = others + 1 /\ UNCHANGED <<udptab, user, serial>>

\* icmp_in, echo reply: the identifier is the slot, the address must be the slot's.  The room
\* in the queue is not checked: a full one is overwritten, and its oldest packet lost.
icmp_reply(s, k) ==
    IF icmptab[s].state # "FREE" /\ icmptab[s].key = k
    THEN /\ icmptab' = [icmptab EXCEPT ![s] = Put(@, Packet("icmp", k), ICMP_QSIZ)]
         /\ user' = Notify(icmptab[s]) /\ serial' = serial + 1 /\ UNCHANGED free
         /\ overrun' = IF icmptab[s].cnt >= ICMP_QSIZ THEN "ping queue" ELSE overrun
    ELSE freebuf /\ UNCHANGED <<icmptab, user, serial, overrun>>

\* icmp_in, echo request: make a reply and hand it to ip_enqueue, which frees it if the
\* output queue is full; then free the request.  Full is judged by the semaphore, which does
\* not count the packet that ipout has been granted and not taken yet.
OutputFull == ipoqueue.sem >= IP_OQSIZ
InRing == ipoqueue.sem + IF ipout = "took" THEN 1 ELSE 0
ip_enqueue(reply) ==
    /\ ipoqueue' = IF OutputFull THEN ipoqueue
                   ELSE [ipoqueue EXCEPT !.q[ipoqueue.tail] = reply, !.tail = (@ + 1) % IP_OQSIZ, !.sem = @ + 1]
    /\ overrun' = IF ~OutputFull /\ InRing = IP_OQSIZ THEN "output queue" ELSE overrun
icmp_request ==
    /\ ip_enqueue(Reply)
    /\ free' = free - (IF OutputFull THEN 0 ELSE 1) + 1

-----------------------------------------------------------------------------
(* netin *)

NetinGet ==
    /\ netin = "get" /\ getbuf
    /\ netin' = "read"
    /\ UNCHANGED <<udptab, icmptab, ipoqueue, ipout, user, serial, calls, overrun>>

Arrive == netin = "read"
NetinIdle == netin' = "get"

NetinJunk ==
    /\ Arrive /\ NetinIdle /\ freebuf
    /\ UNCHANGED <<udptab, icmptab, ipoqueue, ipout, user, serial, calls, overrun>>

NetinUdp(k) ==
    /\ Arrive /\ NetinIdle /\ serial < MaxPackets
    /\ udp_in(k, free)
    /\ UNCHANGED <<icmptab, ipoqueue, ipout, calls, overrun>>

NetinEchoReply(s) ==
    /\ Arrive /\ NetinIdle /\ serial < MaxPackets
    /\ icmp_reply(s, icmptab[s].key)
    /\ UNCHANGED <<udptab, ipoqueue, ipout, calls>>

\* icmp_mkpkt waits for a buffer if there is none, with the request in hand.
NetinEchoRequest ==
    /\ Arrive
    /\ IF free > 0
       THEN icmp_request /\ NetinIdle
       ELSE netin' = "mkpkt" /\ UNCHANGED <<free, ipoqueue, overrun>>
    /\ UNCHANGED <<udptab, icmptab, ipout, user, serial, calls>>

NetinMkpkt ==
    /\ netin = "mkpkt" /\ free > 0
    /\ icmp_request /\ NetinIdle
    /\ UNCHANGED <<udptab, icmptab, ipout, user, serial, calls>>

-----------------------------------------------------------------------------
(* ipout: it may be interrupted between the semaphore and the queue. *)

IpoutWait ==
    /\ ipout = "wait" /\ ipoqueue.sem > 0
    /\ ipoqueue' = [ipoqueue EXCEPT !.sem = @ - 1]
    /\ ipout' = "took"
    /\ UNCHANGED <<free, udptab, icmptab, netin, user, serial, calls, overrun>>

IpoutTake ==
    /\ ipout = "took" /\ ipout' = "resolve"
    /\ ipoqueue' = [ipoqueue EXCEPT !.head = (@ + 1) % IP_OQSIZ, !.q[ipoqueue.head] = NoPacket]
    /\ UNCHANGED <<free, udptab, icmptab, netin, user, serial, calls, overrun>>

\* arp_resolve answers or fails; ip_out writes the packet; the buffer is freed either way.
IpoutDone ==
    /\ ipout = "resolve" /\ ipout' = "wait"
    /\ freebuf
    /\ UNCHANGED <<udptab, icmptab, ipoqueue, netin, user, serial, calls, overrun>>

-----------------------------------------------------------------------------
(* Processes *)

\* udp_register: an endpoint that is registered already is refused.
udp_register(p, k) ==
    /\ user[p].pc = "idle"
    /\ calls < MaxNetCalls /\ calls' = calls + 1
    /\ \A s \in DOMAIN udptab : udptab[s].state # "FREE" => udptab[s].key # k
    /\ \E s \in DOMAIN udptab :
         /\ udptab[s].state = "FREE" /\ \A t \in 0..s - 1 : udptab[t].state # "FREE"
         /\ udptab' = [udptab EXCEPT ![s] = [Slot(UDP_QSIZ) EXCEPT !.state = "USED", !.key = k]]
         /\ user' = [user EXCEPT ![p].pc = "open", ![p].proto = "udp", ![p].slot = s, ![p].last = serial]
    /\ UNCHANGED <<free, icmptab, ipoqueue, netin, ipout, serial, overrun>>

icmp_register(p, k) ==
    /\ user[p].pc = "idle"
    /\ calls < MaxNetCalls /\ calls' = calls + 1
    /\ \A s \in DOMAIN icmptab : icmptab[s].state # "FREE" => icmptab[s].key # k
    /\ \E s \in DOMAIN icmptab :
         /\ icmptab[s].state = "FREE" /\ \A t \in 0..s - 1 : icmptab[t].state # "FREE"
         /\ icmptab' = [icmptab EXCEPT ![s] = [Slot(ICMP_QSIZ) EXCEPT !.state = "USED", !.key = k]]
         /\ user' = [user EXCEPT ![p].pc = "open", ![p].proto = "icmp", ![p].slot = s, ![p].last = serial]
    /\ UNCHANGED <<free, udptab, ipoqueue, netin, ipout, serial, overrun>>

Entry(p) == IF user[p].proto = "udp" THEN udptab[user[p].slot] ELSE icmptab[user[p].slot]
SetEntry(p, e) == IF user[p].proto = "udp"
                  THEN udptab' = [udptab EXCEPT ![user[p].slot] = e] /\ UNCHANGED icmptab
                  ELSE icmptab' = [icmptab EXCEPT ![user[p].slot] = e] /\ UNCHANGED udptab
\* udp_recv compares the head with UDP_QSIZ, icmp_recv and icmp_release with ICMP_SLOTS.
Wrap(p) == IF user[p].proto = "udp" THEN UDP_QSIZ ELSE ICMP_SLOTS

\* With ICMP_QSIZ < ICMP_SLOTS the head leaves the queue: what is read there is no packet.
TakesInside(p, n) == Heads(Entry(p), n, Wrap(p)) \subseteq DOMAIN Entry(p).q
Astray == overrun' = "ping head" /\ UNCHANGED <<free, udptab, icmptab, user>>

\* The end of udp_recv, udp_recvaddr and icmp_recv: take the packet at the head, free it.
Dequeue(p, e) ==
    /\ SetEntry(p, [Take(e, Wrap(p)) EXCEPT !.state = "USED"])
    /\ freebuf
    /\ user' = [user EXCEPT ![p].pc = "open", ![p].msg = "none", ![p].last = e.q[e.head].n]
    /\ UNCHANGED overrun
ReceivePacket(p) == IF TakesInside(p, 1) THEN Dequeue(p, Entry(p)) ELSE Astray

\* udp_recv or icmp_recv: take a packet that is there, or wait.
recv(p) ==
    /\ user[p].pc = "open" /\ Entry(p).state = "USED"
    /\ IF Entry(p).cnt > 0
       THEN ReceivePacket(p)
       ELSE /\ SetEntry(p, [Entry(p) EXCEPT !.state = "RECV", !.pid = p])
            /\ user' = [user EXCEPT ![p].pc = "wait", ![p].msg = "none"]
            /\ UNCHANGED <<free, overrun>>
    /\ UNCHANGED <<ipoqueue, netin, ipout, serial, calls>>

\* recvtime returns: with OK the packet is taken, otherwise the call fails.
recvWake(p) ==
    /\ user[p].pc = "wait" /\ user[p].msg # "none"
    /\ IF user[p].msg = "OK"
       THEN ReceivePacket(p)
       ELSE /\ SetEntry(p, [Entry(p) EXCEPT !.state = "USED"])
            /\ user' = [user EXCEPT ![p].pc = "open", ![p].msg = "none"]
            /\ UNCHANGED <<free, overrun>>
    /\ UNCHANGED <<ipoqueue, netin, ipout, serial, calls>>

recvTimeout(p) ==
    /\ user[p].pc = "wait" /\ user[p].msg = "none"
    /\ SetEntry(p, [Entry(p) EXCEPT !.state = "USED"])
    /\ user' = [user EXCEPT ![p].pc = "open"]
    /\ UNCHANGED <<free, ipoqueue, netin, ipout, serial, calls, overrun>>

\* Another message, such as the one kill sends to a parent, arrives first.
StrayMessage(p) ==
    /\ user[p].pc = "wait" /\ user[p].msg = "none"
    /\ user' = [user EXCEPT ![p].msg = "stray"]
    /\ UNCHANGED <<free, udptab, icmptab, ipoqueue, netin, ipout, serial, calls, overrun>>

\* udp_send, udp_sendto and icmp_send: get a buffer, fill it, resolve the next hop and
\* write; ip_send frees the buffer on every path.
sendStart(p) ==
    /\ user[p].pc = "open"
    /\ calls < MaxNetCalls /\ calls' = calls + 1
    /\ getbuf
    /\ user' = [user EXCEPT ![p].pc = "resolve"]
    /\ UNCHANGED <<udptab, icmptab, ipoqueue, netin, ipout, serial, overrun>>

udp_send(p) == user[p].proto = "udp" /\ sendStart(p)
icmp_send(p) == user[p].proto = "icmp" /\ sendStart(p)

sendDone(p) ==
    /\ user[p].pc = "resolve"
    /\ freebuf
    /\ user' = [user EXCEPT ![p].pc = "open"]
    /\ UNCHANGED <<udptab, icmptab, ipoqueue, netin, ipout, serial, calls, overrun>>

\* ip_send to this machine's own address: straight to ip_local and udp_in.
sendLoopback(p, k) ==
    /\ calls < MaxNetCalls /\ calls' = calls + 1
    /\ user[p].pc = "open" /\ user[p].proto = "udp" /\ free > 0 /\ serial < MaxPackets
    /\ udp_in(k, free - 1)
    /\ UNCHANGED <<icmptab, ipoqueue, netin, ipout, overrun>>

\* udp_release and icmp_release free the packets that were never read.
\* Seeded bug: the last queued packet is not freed.
DiscardedShort(p) == IF Entry(p).cnt > 0 THEN Entry(p).cnt - 1 ELSE 0
Discarded(p) == Entry(p).cnt
release(p) ==
    /\ user[p].pc = "open"
    /\ IF TakesInside(p, Entry(p).cnt)
       THEN /\ free' = free + Discarded(p)
            /\ SetEntry(p, Slot(IF user[p].proto = "udp" THEN UDP_QSIZ ELSE ICMP_QSIZ))
            /\ user' = [user EXCEPT ![p] = NoUser]
            /\ UNCHANGED overrun
       ELSE Astray
    /\ UNCHANGED <<ipoqueue, netin, ipout, serial, calls>>

\* A queue that was overrun has lost a buffer and will hand out another one twice, or frees
\* what is no buffer: what becomes of the pool from there on is not followed.
NetNext ==
    /\ overrun = "none"
    /\ \/ NetinGet \/ NetinJunk \/ NetinEchoRequest \/ NetinMkpkt
       \/ \E k \in Senders : NetinUdp(k)
       \/ \E s \in DOMAIN icmptab : NetinEchoReply(s)
       \/ IpoutWait \/ IpoutTake \/ IpoutDone
       \/ \E p \in NetProcs :
            \/ \E k \in Endpoints : udp_register(p, k)
            \/ \E k \in Pinged : icmp_register(p, k)
            \/ recv(p) \/ recvWake(p) \/ recvTimeout(p) \/ StrayMessage(p)
            \/ udp_send(p) \/ icmp_send(p) \/ sendDone(p) \/ release(p)
            \/ \E k \in Senders : sendLoopback(p, k)

-----------------------------------------------------------------------------
\* The packets queued at an endpoint, oldest first: those before its tail.
Queued(e, qsiz) == [i \in 1..e.cnt |-> e.q[(e.tail - e.cnt + i - 1) % qsiz]]
In(queue) == {queue[i] : i \in DOMAIN queue}

\* Until a ping queue or the output queue is overrun, every packet buffer is in one place: the
\* pool, the queue of one endpoint, the output queue, or the hands of netin, ipout or a sender.
\* None is lost by the early returns of ip_in, icmp_in and ip_send, by a full UDP queue or by
\* udp_release, and none is freed twice.
NetBufsConserved ==
    LET stored == UNION {In(Queued(udptab[s], UDP_QSIZ)) : s \in DOMAIN udptab}
                  \cup UNION {In(Queued(icmptab[s], ICMP_QSIZ)) : s \in DOMAIN icmptab}
        replies == Cardinality({i \in DOMAIN ipoqueue.q : ipoqueue.q[i] # NoPacket})
        senders == Cardinality({p \in NetProcs : user[p].pc = "resolve"})
    IN  overrun = "none" =>
          free + Cardinality(stored) + replies + senders
            + (IF netin = "get" THEN 0 ELSE 1) + (IF ipout = "resolve" THEN 1 ELSE 0) = nbufs

\* Until then, an endpoint holds only packets addressed to it, in the order of arrival and
\* newer than the last one its process received: none is delivered twice, out of order, or to
\* a process that registered the slot later.  No wakeup is lost: a process that waits without
\* a message waits at an endpoint that knows it and has nothing queued.
DatagramsInOrder ==
    \A p \in NetProcs : user[p].pc # "idle" /\ overrun = "none" =>
        LET e == Entry(p)
            queue == Queued(e, IF user[p].proto = "udp" THEN UDP_QSIZ ELSE ICMP_QSIZ)
        IN  /\ \A i \in DOMAIN queue :
                  /\ queue[i].n > user[p].last /\ queue[i].proto = user[p].proto
                  /\ queue[i].key[2] = e.key[2] /\ e.key[1] \in {0, queue[i].key[1]}
            /\ \A i, j \in DOMAIN queue : i < j => queue[i].n < queue[j].n
            /\ user[p].pc = "wait" /\ user[p].msg = "none" => e.state = "RECV" /\ e.pid = p /\ queue = <<>>

=============================================================================
