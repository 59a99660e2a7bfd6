------------------------------ MODULE NetBoot ------------------------------
(***************************************************************************)
(* Starting on the network: netstart obtains an address with DHCP           *)
(* (getlocalip) or panics, the command ipaddr obtains one again, and a file *)
(* can be fetched with TFTP (tftpget).                                      *)
(* The servers are external.  Messages may be lost, delayed, repeated and   *)
(* reordered.                                                               *)
(***************************************************************************)
EXTENDS Integers, Sequences, FiniteSets

CONSTANTS DhcpServers,
          Anonymous,            \* servers whose offers do not carry their identity
          NoBoot,               \* servers whose acknowledgements name no boot server
          DHCP_RETRY, TFTP_MAXRETRIES,
          FileBlocks,           \* blocks of the file: the last one is short
          Rooms,                \* room in the caller's buffers, in blocks
          BLOCKMOD              \* block numbers wrap around (2^16 in the code)

ASSUME NetBootAssumption ==
    /\ {DHCP_RETRY, TFTP_MAXRETRIES, FileBlocks, BLOCKMOD} \subseteq Nat \ {0}
    /\ "none" \notin DhcpServers
    /\ Rooms \subseteq Nat /\ Anonymous \subseteq DhcpServers /\ NoBoot \subseteq DhcpServers

VARIABLES dhcp,     \* getlocalip: phase, counters, the message it sends, its UDP slot; netstart returned
          ipaddr,   \* NetData: the server the address came from, or "none"
          tftp,     \* tftpget_mb: phase, retries, block expected, blocks stored, its slot
          bnet      \* messages in the network; one that was received may come again
bootVars == <<dhcp, ipaddr, tftp, bnet>>

Disc == [kind |-> "discover"]
Req(s) == [kind |-> "request", server |-> s]
NetBootInit ==
    /\ dhcp = [phase |-> "off", i |-> 0, j |-> 0, msg |-> Disc, slot |-> FALSE, up |-> FALSE]
    /\ ipaddr = "none"
    /\ tftp = [phase |-> "off", tries |-> 0, expected |-> 1, blocks |-> <<>>, room |-> 0, slot |-> FALSE]
    /\ bnet = {}

-----------------------------------------------------------------------------
(* DHCP *)

\* Register a slot and send the first discover.  The pair of ports is the same in every call:
\* while a slot has it udp_register refuses, and getlocalip returns SYSERR at once.
getlocalip ==
    /\ ~dhcp.slot
    /\ dhcp' = [dhcp EXCEPT !.phase = "wait", !.slot = TRUE, !.i = 0, !.j = 0, !.msg = Disc]
    /\ bnet' = bnet \cup {Disc}
    /\ UNCHANGED <<ipaddr, tftp>>
netstart == dhcp.phase = "off" /\ getlocalip
xsh_ipaddr == dhcp.up /\ dhcp.phase # "wait" /\ getlocalip

\* Each message received or timeout counts for j; after three the message is sent again.
NextTurn(d) ==
    IF d.j + 1 < 3 THEN [d EXCEPT !.j = @ + 1]
    ELSE IF d.i + 1 < DHCP_RETRY THEN [d EXCEPT !.j = 0, !.i = @ + 1]
    ELSE [d EXCEPT !.phase = "failed", !.slot = FALSE]
Resent(d) == IF d.phase = "wait" /\ d.j = 0 THEN {d.msg} ELSE {}

\* An offer is answered with a request (dhcp_bld_req); without the server's identity
\* getlocalip gives up without releasing its slot.
GotOffer(m) ==
    IF m.server \in Anonymous
    THEN dhcp' = [dhcp EXCEPT !.phase = "gave up"] /\ UNCHANGED <<ipaddr, bnet>>
    ELSE LET d == NextTurn([dhcp EXCEPT !.msg = Req(m.server)])
         IN  dhcp' = d /\ bnet' = bnet \cup {Req(m.server)} \cup Resent(d) /\ UNCHANGED ipaddr

\* An acknowledgement configures the interface and releases the slot, even if the boot server
\* cannot be found.
Released(d) == [d EXCEPT !.slot = FALSE]
GotAck(m) ==
    /\ dhcp' = IF m.server \in NoBoot THEN [Released(dhcp) EXCEPT !.phase = "failed"]
               ELSE [Released(dhcp) EXCEPT !.phase = "done", !.up = TRUE]
    /\ ipaddr' = m.server /\ UNCHANGED bnet

Skipped ==
    /\ dhcp' = NextTurn(dhcp) /\ bnet' = bnet \cup Resent(NextTurn(dhcp))
    /\ UNCHANGED ipaddr

IsAck(m) == m.kind = "ack"
DhcpReceive(m) ==
    /\ dhcp.phase = "wait" /\ m \in bnet /\ m.kind \in {"offer", "ack", "nak"}
    /\ IF m.kind = "offer" THEN GotOffer(m) ELSE IF IsAck(m) THEN GotAck(m) ELSE Skipped
    /\ UNCHANGED tftp

DhcpTimeout == dhcp.phase = "wait" /\ Skipped /\ UNCHANGED tftp

\* Another message than udp_in's wakes udp_recv, which returns SYSERR: getlocalip returns
\* without releasing its slot.
DhcpInterrupted ==
    /\ dhcp.phase = "wait"
    /\ dhcp' = [dhcp EXCEPT !.phase = "interrupted"]
    /\ UNCHANGED <<ipaddr, tftp, bnet>>

DhcpServer(m) ==
    /\ m \in bnet
    /\ \/ \E s \in DhcpServers : m = Disc /\ bnet' = bnet \cup {[kind |-> "offer", server |-> s]}
       \/ \E kind \in {"ack", "nak"} :
             m.kind = "request" /\ bnet' = bnet \cup {[kind |-> kind, server |-> m.server]}
    /\ UNCHANGED <<dhcp, ipaddr, tftp>>

-----------------------------------------------------------------------------
(* TFTP *)

TftpReq == [kind |-> "rrq"]
Ack(n) == [kind |-> "tack", block |-> n]
Outgoing == IF tftp.blocks = <<>> THEN TftpReq ELSE Ack((tftp.expected - 1) % BLOCKMOD)

tftpget ==
    /\ tftp.phase = "off" /\ dhcp.up
    /\ \E room \in Rooms : tftp' = [tftp EXCEPT !.phase = "wait", !.tries = 1, !.slot = TRUE, !.room = room]
    /\ bnet' = bnet \cup {TftpReq}
    /\ UNCHANGED <<dhcp, ipaddr>>

\* tftp_send1 returns only the block that is expected; the loop of tftpget_mb stores it, sends
\* the acknowledgement and, after a short block or with the buffers full, ends.
\* Seeded bug: any data block is taken.
ExpectedAny(m) == m.kind = "data"
Expected(m) == m.kind = "data" /\ m.number = tftp.expected
TftpReceive(m) ==
    LET full == Len(tftp.blocks) = tftp.room
        got == [tftp EXCEPT !.blocks = Append(@, m.is), !.tries = 1, !.expected = (@ + 1) % BLOCKMOD]
    IN  /\ tftp.phase = "wait" /\ m \in bnet /\ Expected(m)
        /\ tftp' = IF full THEN [tftp EXCEPT !.phase = "done", !.slot = FALSE]
                   ELSE IF m.is = FileBlocks THEN [got EXCEPT !.phase = "done", !.slot = FALSE]
                   ELSE got
        /\ bnet' = IF full THEN bnet ELSE bnet \cup {Ack(tftp.expected)}
        /\ UNCHANGED <<dhcp, ipaddr>>

\* No answer in time: up to TFTP_MAXRETRIES copies of the message are sent.
TftpTimeout ==
    /\ tftp.phase = "wait"
    /\ tftp' = IF tftp.tries < TFTP_MAXRETRIES THEN [tftp EXCEPT !.tries = @ + 1]
               ELSE [tftp EXCEPT !.phase = "failed", !.slot = FALSE]
    /\ bnet' = IF tftp.tries < TFTP_MAXRETRIES THEN bnet \cup {Outgoing} ELSE bnet
    /\ UNCHANGED <<dhcp, ipaddr>>

\* An error message ends the transfer.
TftpError ==
    /\ tftp.phase = "wait"
    /\ tftp' = [tftp EXCEPT !.phase = "failed", !.slot = FALSE]
    /\ UNCHANGED <<dhcp, ipaddr, bnet>>

\* The server sends the block after the one acknowledged; the block numbers it can mean are
\* those equal modulo BLOCKMOD.
TftpServer(m) ==
    /\ m \in bnet /\ m.kind \in {"rrq", "tack"}
    /\ \E n \in 1..FileBlocks :
          /\ IF m.kind = "rrq" THEN n = 1 ELSE n % BLOCKMOD = (m.block + 1) % BLOCKMOD /\ n > 1
          /\ bnet' = bnet \cup {[kind |-> "data", number |-> n % BLOCKMOD, is |-> n]}
    /\ UNCHANGED <<dhcp, ipaddr, tftp>>

NetBootNext ==
    \/ netstart
    \/ xsh_ipaddr
    \/ \E m \in bnet : DhcpReceive(m)
    \/ DhcpTimeout
    \/ DhcpInterrupted
    \/ \E m \in bnet : DhcpServer(m)
    \/ tftpget
    \/ \E m \in bnet : TftpReceive(m)
    \/ TftpTimeout
    \/ TftpError
    \/ \E m \in bnet : TftpServer(m)

NetBootSpec == NetBootInit /\ [][NetBootNext]_bootVars

-----------------------------------------------------------------------------
\* Whatever is lost, repeated or late, the address comes from a server this client sent a
\* request to.  The UDP slot is kept by exactly two returns of getlocalip, an offer that cannot
\* be answered and an error of udp_recv; from then on every other call is refused.  The blocks
\* stored by tftpget are those of the file in their order, none missing and none twice; a
\* transfer that ends well has the whole file or has filled the buffers, and its slot is free.
BootClean ==
    /\ ipaddr # "none" => Req(ipaddr) \in bnet /\ [kind |-> "ack", server |-> ipaddr] \in bnet
    /\ dhcp.up => ipaddr # "none"
    /\ dhcp.slot <=> dhcp.phase \in {"wait", "gave up", "interrupted"}
    /\ \A n \in DOMAIN tftp.blocks : tftp.blocks[n] = n
    /\ tftp.phase = "done" => Len(tftp.blocks) \in {FileBlocks, tftp.room} /\ ~tftp.slot
=============================================================================
