-------------------------------- MODULE Arp --------------------------------
(***************************************************************************)
(* The ARP cache.  arp_resolve, in the process that sends a packet, enters  *)
(* the address as pending and waits for a message; arp_in, in netin, fills  *)
(* the entry in and wakes the process, and adds hosts that ask for this     *)
(* machine's address, taking the place of a resolved entry if it must.      *)
(* Host h has the hardware address h; 0 is the cleared hardware address.    *)
(***************************************************************************)
EXTENDS Integers, FiniteSets

CONSTANTS ArpHosts,     \* IP addresses on the network, numbers from 1
          Resolvers,    \* processes that send packets
          ARP_SIZ,      \* entries in the cache
          ARP_RETRY,    \* requests sent for one resolution
          MaxArp        \* bound: resolutions and incoming ARP packets

ASSUME ArpAssumption == ArpHosts \subseteq Nat \ {0} /\ {ARP_SIZ, ARP_RETRY} \subseteq Nat \ {0} /\ MaxArp \in Nat

VARIABLES arpcache,
          res,      \* where each process is in arp_resolve, and the address it got; .doubt is
                    \* history: what makes that address doubtful
          abandoned, \* history: pending entries whose process has left on another message
          arps      \* resolutions and packets so far (bound)

arpVars == <<arpcache, res, abandoned, arps>>

ArpSlots == 0..ARP_SIZ - 1
Cleared == [state |-> "FREE", addr |-> 0, mac |-> 0, pid |-> "none"]
NoRes == [pc |-> "idle", host |-> 0, slot |-> 0, i |-> 0, msg |-> "none", mac |-> 0,
          doubt |-> {}]

ArpInit ==
    /\ arpcache = [s \in ArpSlots |-> Cleared]
    /\ res = [p \in Resolvers |-> NoRes]
    /\ abandoned = {} /\ arps = 0

ArpBusy == arps < MaxArp /\ arps' = arps + 1

First(S) == CHOOSE s \in S : \A t \in S : s <= t

\* The entries in use for an address.
ArpFind(h) == {s \in ArpSlots : arpcache[s].state # "FREE" /\ arpcache[s].addr = h}

\* arp_alloc: the first free entry, else the first resolved one; none if all are pending.
arp_alloc == LET free == {s \in ArpSlots : arpcache[s].state = "FREE"}
                 resolved == {s \in ArpSlots : arpcache[s].state = "RESOLVED"}
             IN  IF free # {} THEN {First(free)} ELSE IF resolved # {} THEN {First(resolved)} ELSE {}

-----------------------------------------------------------------------------
\* arp_resolve finds the address in the cache: resolved, or pending, which is an error.
arp_resolveHit(p, h) ==
    /\ res[p].pc = "idle" /\ ArpBusy
    /\ \E s \in ArpFind(h) :
         res' = [res EXCEPT ![p] = IF arpcache[s].state = "RESOLVED"
                                   THEN [NoRes EXCEPT !.pc = "OK", !.host = h, !.mac = arpcache[s].mac]
                                   ELSE [NoRes EXCEPT !.pc = "SYSERR"]]
    /\ UNCHANGED <<arpcache, abandoned>>

\* arp_alloc clears the entry it returns.  If that was resolved and its process has not run
\* since, the process will read another host's address, or none.
Stolen(r) == [p \in Resolvers |-> IF r[p].pc = "wait" /\ r[p].slot \in arp_alloc
                                  THEN [r[p] EXCEPT !.doubt = @ \cup {"stolen"}] ELSE r[p]]

\* It is not there: make a pending entry and send the first request.
arp_resolveMiss(p, h) ==
    /\ res[p].pc = "idle" /\ ArpBusy
    /\ ArpFind(h) = {}
    /\ IF arp_alloc = {}
       THEN res' = [res EXCEPT ![p] = [NoRes EXCEPT !.pc = "SYSERR"]] /\ UNCHANGED arpcache
       ELSE \E s \in arp_alloc :
              /\ arpcache' = [arpcache EXCEPT ![s] = [state |-> "PENDING", addr |-> h, mac |-> 0, pid |-> p]]
              /\ res' = [Stolen(res) EXCEPT ![p] = [NoRes EXCEPT !.pc = "wait", !.host = h, !.slot = s]]
    /\ UNCHANGED abandoned

\* recvtime times out: send again, or clear the entry and give up.
\* Seeded bug: the entry stays pending when the process gives up.
GiveUpKeep(p) == arpcache
GiveUp(p) == [arpcache EXCEPT ![res[p].slot].state = "FREE"]
arp_resolveTimeout(p) ==
    /\ res[p].pc = "wait" /\ res[p].msg = "none"
    /\ IF res[p].i + 1 < ARP_RETRY
       THEN res' = [res EXCEPT ![p].i = @ + 1] /\ UNCHANGED arpcache
       ELSE res' = [res EXCEPT ![p] = [NoRes EXCEPT !.pc = "TIMEOUT"]] /\ arpcache' = GiveUp(p)
    /\ UNCHANGED <<abandoned, arps>>

\* Another process sends a message, as kill does to the parent.
ArpStray(p, m) ==
    /\ res[p].pc = "wait" /\ res[p].msg = "none"
    /\ res' = [res EXCEPT ![p].msg = m, ![p].doubt = @ \cup {"message"}]
    /\ UNCHANGED <<arpcache, abandoned, arps>>

\* SYSERR ends the call; any other message is taken for that of arp_in, and the hardware
\* address returned that is in the entry now.  Neither touches the entry.
arp_resolveWake(p) ==
    /\ res[p].pc = "wait" /\ res[p].msg # "none"
    /\ res' = [res EXCEPT ![p] = IF res[p].msg = "SYSERR" THEN [NoRes EXCEPT !.pc = "SYSERR"]
                                 ELSE [res[p] EXCEPT !.pc = "OK", !.msg = "none", !.mac = arpcache[res[p].slot].mac]]
    /\ abandoned' = abandoned \cup {s \in {res[p].slot} : arpcache[s].state = "PENDING" /\ arpcache[s].pid = p}
    /\ UNCHANGED <<arpcache, arps>>

arp_return(p) ==
    /\ res[p].pc \in {"OK", "SYSERR", "TIMEOUT"}
    /\ res' = [res EXCEPT ![p] = NoRes]
    /\ UNCHANGED <<arpcache, abandoned, arps>>

-----------------------------------------------------------------------------
\* arp_in finds the sender: take its hardware address, and send OK to the process if the entry
\* was pending.  The process may have left since and be waiting for another address.
Learn(s, h) ==
    /\ arpcache' = [arpcache EXCEPT ![s].mac = h, ![s].state = "RESOLVED"]
    /\ res' = [p \in Resolvers |->
                  IF arpcache[s].state = "PENDING" /\ p = arpcache[s].pid /\ res[p].pc = "wait" /\ res[p].msg = "none"
                  THEN [res[p] EXCEPT !.msg = "OK", !.doubt = IF res[p].slot = s THEN @ ELSE @ \cup {"message"}]
                  ELSE res[p]]
    /\ abandoned' = abandoned \ {s}

\* A reply, or a request for another machine: nothing is added to the cache.
arp_inReply(h) ==
    /\ ArpBusy
    /\ IF ArpFind(h) # {} THEN Learn(First(ArpFind(h)), h) ELSE UNCHANGED <<arpcache, res, abandoned>>

\* A request for this machine: the sender is added, and answered.
arp_inRequest(h) ==
    /\ ArpBusy
    /\ IF ArpFind(h) # {} THEN Learn(First(ArpFind(h)), h)
       ELSE /\ arpcache' = [s \in ArpSlots |-> IF s \in arp_alloc
                                                THEN [state |-> "RESOLVED", addr |-> h, mac |-> h, pid |-> "none"]
                                                ELSE arpcache[s]]
            /\ res' = Stolen(res) /\ UNCHANGED abandoned

ArpNext ==
    \/ \E h \in ArpHosts : arp_inReply(h) \/ arp_inRequest(h)
    \/ \E p \in Resolvers :
         \/ \E h \in ArpHosts : arp_resolveHit(p, h) \/ arp_resolveMiss(p, h)
         \/ arp_resolveTimeout(p) \/ arp_resolveWake(p) \/ arp_return(p)
         \/ \E m \in {"SYSERR", "stray"} : ArpStray(p, m)

ArpSpec == ArpInit /\ [][ArpNext]_arpVars

-----------------------------------------------------------------------------
\* An address is in the cache once, and a resolved entry holds that host's hardware
\* address, however resolutions, timeouts, replies and requests for other hosts interleave.
\* A pending entry has its process still waiting for it, unless that has left on a message that
\* did not come from this entry.  The hardware address arp_resolve returns is the host's,
\* unless such a message ended the wait or the resolved entry was given to another host first.
ArpSound ==
    /\ \A s, t \in ArpSlots : arpcache[s].state # "FREE" /\ arpcache[t].state # "FREE" /\ s # t =>
           arpcache[s].addr # arpcache[t].addr
    /\ \A s \in ArpSlots : arpcache[s].state = "RESOLVED" => arpcache[s].mac = arpcache[s].addr
    /\ \A s \in abandoned : arpcache[s].state = "PENDING"
    /\ \A s \in ArpSlots : arpcache[s].state = "PENDING" /\ s \notin abandoned =>
           \E p \in Resolvers : /\ p = arpcache[s].pid /\ res[p].pc = "wait"
                                /\ res[p].slot = s /\ res[p].host = arpcache[s].addr
    /\ \A p \in Resolvers : res[p].pc = "OK" /\ res[p].doubt = {} => res[p].mac = res[p].host

=============================================================================
