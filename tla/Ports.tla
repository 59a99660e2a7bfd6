-------------------------------- MODULE Ports --------------------------------
(***************************************************************************)
(* Message ports: a port is a list of message nodes between a semaphore of  *)
(* free places (ptssem) and one of messages (ptrsem).  All nodes come from  *)
(* one list (ptfree).  A process that waited in ptsend or ptrecv runs again *)
(* later, when the port may have been reset, deleted or created anew: the   *)
(* sequence number it remembered tells.  While a port is cleared its        *)
(* messages are disposed of by a caller's function that may block (LIMBO).  *)
(***************************************************************************)
EXTENDS Integers, Sequences, FiniteSets, SequencesExt, FiniteSetsExt

CONSTANTS PortUsers,  \* processes
          NPORTS,     \* entries of porttab
          NNODES,     \* nodes ptinit makes (PT_MSGS)
          PortCap,    \* argument of ptcreate
          MaxPortOps  \* bound: creations, resets and deletions

ASSUME PortsAssumption ==
    NPORTS \in Nat \ {0} /\ NNODES \in Nat \ {0} /\ PortCap \in Nat /\ MaxPortOps \in Nat

VARIABLES port,      \* porttab: state, sequence number, head, tail and the two semaphores
          ptnext,    \* ptnext of every node (0: NULL)
          ptmsg,     \* ptmsg of every node
          ptfree,    \* head of the list of free nodes
          ptnextid,  \* where ptcreate looks first
          user,      \* what each process does in a port call
          portops,   \* creations, resets and deletions so far (bound)
          sent       \* history: messages accepted and not yet received, in order

portsVars == <<port, ptnext, ptmsg, ptfree, ptnextid, user, portops, sent>>

PortIds == 0..NPORTS - 1
PtNodes == 1..NNODES
Away == [pc |-> "idle", at |-> 0, seq |-> 0, for |-> "none"]

\* The nodes from n along ptnext.
PortList(n) ==
    LET L[m \in 0..NNODES, i \in 0..NNODES + 1] ==
            IF m = 0 \/ i = 0 THEN <<>> ELSE <<m>> \o L[ptnext[m], i - 1]
    IN  L[n, NNODES + 1]

\* ptinit
PortsInit ==
    /\ port = [x \in PortIds |-> [st |-> "FREE", seq |-> 0, head |-> 0, tail |-> 0,
                                  s |-> [n |-> 0, q |-> <<>>], r |-> [n |-> 0, q |-> <<>>]]]
    /\ ptnext = [m \in PtNodes |-> IF m = NNODES THEN 0 ELSE m + 1]
    /\ ptmsg = [m \in PtNodes |-> 0]
    /\ ptfree = 1
    /\ ptnextid = 0
    /\ user = [u \in PortUsers |-> Away]
    /\ portops = 0
    /\ sent = [x \in PortIds |-> <<>>]

FreePorts == {i \in 0..NPORTS - 1 : port[(ptnextid + i) % NPORTS].st = "FREE"}
ptcreate ==
    /\ FreePorts # {} /\ portops < MaxPortOps
    /\ LET x == (ptnextid + Min(FreePorts)) % NPORTS
       IN  /\ port' = [port EXCEPT ![x] = [st |-> "ALLOC", seq |-> @.seq + 1, head |-> 0, tail |-> 0,
                                           s |-> [n |-> PortCap, q |-> <<>>], r |-> [n |-> 0, q |-> <<>>]]]
           /\ ptnextid' = (x + 1) % NPORTS
    /\ portops' = portops + 1
    /\ UNCHANGED <<ptnext, ptmsg, ptfree, user, sent>>

\* wait on a semaphore of the port: pass, or be queued until it is signalled or reset.
\* `kind` is "s" for ptsend and "r" for ptrecv.
PortEnter(u, x, kind) ==
    /\ user[u].pc = "idle" /\ port[x].st = "ALLOC"
    /\ LET sm == port[x][kind]
       IN  /\ port' = [port EXCEPT ![x][kind] = [n |-> sm.n - 1, q |-> IF sm.n > 0 THEN sm.q ELSE Append(sm.q, u)]]
           /\ user' = [user EXCEPT ![u] = [pc |-> IF sm.n > 0 THEN "go" ELSE "wait", at |-> x,
                                           seq |-> port[x].seq, for |-> kind]]
    /\ UNCHANGED <<ptnext, ptmsg, ptfree, ptnextid, portops, sent>>

\* signal
PortSignal(pt, us, x, kind) ==
    LET sm == pt[x][kind]
    IN  [p |-> [pt EXCEPT ![x][kind] = [n |-> sm.n + 1, q |-> IF sm.n < 0 THEN Tail(sm.q) ELSE sm.q]],
         u |-> IF sm.n < 0 THEN [us EXCEPT ![Head(sm.q)].pc = "go"] ELSE us]

\* After the wait: the port must be the one the process came for.
\* Seeded bug: the sequence number is not compared.
StillMineByState(u) == port[user[u].at].st = "ALLOC"
StillMine(u) == port[user[u].at].st = "ALLOC" /\ port[user[u].at].seq = user[u].seq
PortGone(u) ==
    /\ user[u].pc = "go" /\ ~StillMine(u)
    /\ user' = [user EXCEPT ![u] = Away]
    /\ UNCHANGED <<port, ptnext, ptmsg, ptfree, ptnextid, portops, sent>>

\* ptsend: a free node goes to the end of the port's list; with none left, panic (no step).
\* Seeded bug: the tail is not moved when the list was not empty.
LinkLastStuck(pt, m) == IF pt.tail = 0 THEN [pt EXCEPT !.head = m, !.tail = m] ELSE pt
LinkLast(pt, m) == IF pt.tail = 0 THEN [pt EXCEPT !.head = m, !.tail = m] ELSE [pt EXCEPT !.tail = m]
ptsend(u, v) ==
    /\ user[u].pc = "go" /\ user[u].for = "s" /\ StillMine(u) /\ ptfree # 0
    /\ LET x == user[u].at
           m == ptfree
           g == PortSignal([port EXCEPT ![x] = LinkLast(@, m)], [user EXCEPT ![u] = Away], x, "r")
       IN  /\ ptfree' = ptnext[m]
           /\ ptmsg' = [ptmsg EXCEPT ![m] = v]
           /\ ptnext' = IF port[x].tail = 0 THEN [ptnext EXCEPT ![m] = 0]
                        ELSE [ptnext EXCEPT ![m] = 0, ![port[x].tail] = m]
           /\ port' = g.p /\ user' = g.u
           /\ sent' = [sent EXCEPT ![x] = Append(@, v)]
    /\ UNCHANGED <<ptnextid, portops>>

\* ptrecv: the first node of the port's list gives its message and returns to ptfree.
ptrecv(u) ==
    /\ user[u].pc = "go" /\ user[u].for = "r" /\ StillMine(u) /\ port[user[u].at].head # 0
    /\ LET x == user[u].at
           m == port[x].head
           p1 == IF m = port[x].tail THEN [port EXCEPT ![x].head = 0, ![x].tail = 0]
                 ELSE [port EXCEPT ![x].head = ptnext[m]]
           g == PortSignal(p1, [user EXCEPT ![u] = Away], x, "s")
       IN  /\ ptnext' = [ptnext EXCEPT ![m] = ptfree]
           /\ ptfree' = m
           /\ port' = g.p /\ user' = g.u
           /\ sent' = [sent EXCEPT ![x] = Tail(@)]
    /\ UNCHANGED <<ptmsg, ptnextid, portops>>

\* _ptclear, first half: the port is in limbo while the messages are disposed of.
ptclear(x) ==
    /\ port[x].st = "ALLOC" /\ portops < MaxPortOps
    /\ port' = [port EXCEPT ![x].st = "LIMBO", ![x].seq = @ + 1]
    /\ portops' = portops + 1
    /\ UNCHANGED <<ptnext, ptmsg, ptfree, ptnextid, user, sent>>

\* _ptclear, second half: the list returns to ptfree and everyone who waits is released.
ptclearEnd(x, newstate) ==
    /\ port[x].st = "LIMBO"
    /\ IF port[x].head = 0 THEN UNCHANGED <<ptnext, ptfree>>
       ELSE /\ ptnext' = [ptnext EXCEPT ![port[x].tail] = ptfree]
            /\ ptfree' = port[x].head
    /\ port' = [port EXCEPT ![x].st = newstate,
                            ![x].head = IF newstate = "ALLOC" THEN 0 ELSE @,
                            ![x].tail = IF newstate = "ALLOC" THEN 0 ELSE @,
                            ![x].s = [n |-> PortCap, q |-> <<>>], ![x].r = [n |-> 0, q |-> <<>>]]
    /\ user' = [u \in PortUsers |->
                  IF Contains(port[x].s.q \o port[x].r.q, u) THEN [user[u] EXCEPT !.pc = "go"] ELSE user[u]]
    /\ sent' = [sent EXCEPT ![x] = <<>>]
    /\ UNCHANGED <<ptmsg, portops>>

\* ptreset leaves the port allocated and empty; ptdelete frees it and ptcreate looks there
\* first.
ptreset(x) == ptclearEnd(x, "ALLOC") /\ UNCHANGED ptnextid
ptdelete(x) == ptclearEnd(x, "FREE") /\ ptnextid' = x

PortsNext ==
    \/ ptcreate
    \/ \E u \in PortUsers : \/ \E x \in PortIds : PortEnter(u, x, "s") \/ PortEnter(u, x, "r")
                            \/ PortGone(u) \/ ptrecv(u) \/ \E v \in 1..2 : ptsend(u, v)
    \/ \E x \in PortIds : ptclear(x) \/ ptreset(x) \/ ptdelete(x)

\* ptcount
ptcount(x) == IF port[x].r.n < 0 THEN port[x].r.n
              ELSE port[x].r.n + (IF port[x].s.n < 0 THEN -port[x].s.n ELSE 0)

-----------------------------------------------------------------------------
\* The list of a port's nodes spells the messages that were sent and not received since the
\* port was created or last reset, and no node is lost or on two lists.
PortLists ==
    LET lists == <<PortList(ptfree)>> \o [i \in 1..NPORTS |->
                    IF port[i - 1].st = "FREE" THEN <<>> ELSE PortList(port[i - 1].head)]
    IN  /\ \A x \in PortIds : port[x].st = "ALLOC" =>
              [i \in DOMAIN PortList(port[x].head) |-> ptmsg[PortList(port[x].head)[i]]] = sent[x]
        /\ \A m \in PtNodes : Cardinality({i \in DOMAIN lists : Contains(lists[i], m)}) = 1

\* Semaphores and list agree: a receiver that passed its wait finds a message, a sender
\* that passed its wait has a place, and ptcount is as its comment says: the messages not
\* yet promised to a receiver and the blocked senders, or minus the blocked receivers.
PortCounts ==
    \A x \in PortIds : port[x].st = "ALLOC" =>
        LET in == Len(PortList(port[x].head))
            go(kind) == Cardinality({u \in PortUsers : user[u].pc = "go" /\ user[u].for = kind
                                        /\ user[u].at = x /\ user[u].seq = port[x].seq})
        IN  /\ go("r") <= in /\ in + go("s") <= PortCap
            /\ ptcount(x) = IF Len(port[x].r.q) > 0 THEN -Len(port[x].r.q)
                            ELSE in - go("r") + Len(port[x].s.q)

\* A port delivers what it accepted, in order, once, and its semaphores let through exactly
\* the calls it has room or messages for, whatever resets and deletions cut across waiting
\* senders and receivers.
PortDelivers == PortLists /\ PortCounts

=============================================================================
