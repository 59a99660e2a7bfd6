------------------------------- MODULE RdsComm -------------------------------
(***************************************************************************)
(* One remote disk exchange after another: rdscomm in the kernel sends a    *)
(* request with the next sequence number and waits for the reply, up to     *)
(* RD_RETRIES times; the Unix server (rdserver) checks the sequence number, *)
(* carries the request out on the file of the disk and answers.  UDP loses, *)
(* repeats and delays messages, for as long as it likes: one that was sent  *)
(* may arrive any number of times until it is lost.  The server may be      *)
(* restarted: it then has no file open and has forgotten the sequence       *)
(* number.                                                                  *)
(***************************************************************************)
EXTENDS Integers, FiniteSets

CONSTANTS DiskBlocks,   \* block numbers; the file holds the first EOF of them at first
          EOF,          \* blocks in the file at first
          RD_RETRIES,   \* attempts of one exchange
          MaxExchange,  \* bound: exchanges in a behaviour
          MaxRestart    \* bound: restarts of the server

ASSUME CommAssumption ==
    /\ DiskBlocks \subseteq Nat /\ EOF \in Nat /\ RD_RETRIES \in Nat \ {0}
    /\ MaxExchange \in Nat /\ MaxRestart \in Nat

VARIABLES rdseq,    \* rdptr->rd_seq
          cur,      \* the exchange rdscomm is in, and its outcome
          resp,     \* data area of the reply buffer of the caller
          requests, \* requests on the network
          replies,  \* replies on the network
          srvseq,   \* the server's seq
          opened,   \* the server has the file of the disk open
          exists,   \* the file exists
          file,     \* the file: the value of every block it holds
          restarts, \* restarts so far (bound)
          stale     \* history: the server's count began again with older requests on the network

commVars == <<rdseq, cur, resp, requests, replies, srvseq, opened, exists, file, restarts, stale>>

Quiet == [pc |-> "idle", type |-> "O", blk |-> 0, val |-> 0, seq |-> 0, i |-> 0, got |-> FALSE, own |-> FALSE]

CommInit ==
    /\ rdseq = 1
    /\ cur = Quiet
    /\ resp = 0
    /\ requests = {} /\ replies = {}
    /\ srvseq = 0 /\ opened = FALSE /\ exists = TRUE
    /\ file = [b \in {x \in DiskBlocks : x < EOF} |-> 0]
    /\ restarts = 0 /\ stale = FALSE

-----------------------------------------------------------------------------
Request(e) == [type |-> e.type, blk |-> e.blk, val |-> e.val, seq |-> e.seq]

\* rdscomm is called: the first exchange opens the disk, later ones read, write, close or
\* delete it.  A write stores a new value.
rdscommCall(t, b) ==
    /\ cur.pc \in {"idle", "OK", "SYSERR", "TIMEOUT"} /\ rdseq <= MaxExchange
    /\ (rdseq = 1) => (t = "O")
    /\ cur' = [pc |-> "send", type |-> t, blk |-> b, val |-> IF t = "W" THEN rdseq ELSE 0, seq |-> rdseq,
               i |-> 0, got |-> FALSE, own |-> FALSE]
    /\ rdseq' = rdseq + 1
    /\ UNCHANGED <<resp, requests, replies, srvseq, opened, exists, file, restarts, stale>>

\* The top of the retry loop: transmit, then wait for a reply; or give up.
rdscommSend ==
    /\ cur.pc = "send"
    /\ IF cur.i < RD_RETRIES
       THEN /\ requests' = requests \cup {Request(cur)}
            /\ cur' = [cur EXCEPT !.pc = "recv"]
       ELSE cur' = [cur EXCEPT !.pc = "TIMEOUT"] /\ UNCHANGED requests
    /\ UNCHANGED <<rdseq, resp, replies, srvseq, opened, exists, file, restarts, stale>>

\* udp_recv times out, perhaps with the request or its reply still on the way.
rdscommTimeout ==
    /\ cur.pc = "recv"
    /\ cur' = [cur EXCEPT !.pc = "send", !.i = @ + 1]
    /\ UNCHANGED <<rdseq, resp, requests, replies, srvseq, opened, exists, file, restarts, stale>>

\* udp_sendto or udp_recv fails, the latter when the process is sent another message.
rdscommFail ==
    /\ cur.pc \in {"send", "recv"}
    /\ cur' = [cur EXCEPT !.pc = "SYSERR"]
    /\ UNCHANGED <<rdseq, resp, requests, replies, srvseq, opened, exists, file, restarts, stale>>

\* A reply arrives.  A lower sequence number only stops the next transmission; a higher
\* one, or a wrong type, is skipped; otherwise the status decides.
TypeFits(m) == m.type = cur.type
Outcome(m) == IF m.status # 0 THEN "SYSERR" ELSE "OK"
rdscommReceive(m) ==
    /\ cur.pc = "recv" /\ m \in replies
    /\ resp' = IF m.short THEN resp ELSE m.val
    /\ cur' = IF m.seq > cur.seq \/ ~TypeFits(m)
              THEN [cur EXCEPT !.pc = IF m.seq < cur.seq /\ cur.i + 1 < RD_RETRIES THEN "recv" ELSE "send",
                               !.i = @ + 1]
              ELSE [cur EXCEPT !.pc = Outcome(m), !.got = m.good, !.own = m.seq = cur.seq]
    /\ UNCHANGED <<rdseq, requests, replies, srvseq, opened, exists, file, restarts, stale>>

-----------------------------------------------------------------------------
\* htons and htonl as the little-endian build computes them, on 16-bit and 32-bit fields.
htonl(x) == (x % 256) * 16777216 + ((x \div 256) % 256) * 65536 + ((x \div 65536) % 256) * 256 + (x \div 16777216)
htons(x) == (x % 256) * 256 + ((x \div 256) % 256)
uint16(x) == x % 65536
ntohs(x) == htons(x)

\* sndok and snderr copy the header of the request and set the status; snderr stores
\* htonl(1) in the 16-bit field.  Only the answer to a read that succeeded has a data area.
Answer(m, good, v, status) ==
    [type |-> m.type, seq |-> m.seq, val |-> v, good |-> good, short |-> ~good \/ m.type # "R",
     status |-> status]
sndok(m, v) == replies' = replies \cup {Answer(m, TRUE, v, ntohs(htons(0)))}
snderr(m) == replies' = replies \cup {Answer(m, FALSE, 0, ntohs(uint16(htonl(1))))}

\* The server's count becomes n.  When it starts again, requests of earlier exchanges that
\* are still on the network will be carried out.
Count(n) ==
    /\ srvseq' = n
    /\ stale' = (stale \/ (n \in {0, 1} /\ n < srvseq /\ \E m \in requests : m.seq \notin {1, cur.seq}))

\* main's loop: a request with a lower sequence number is ignored, except that number 1
\* starts a new count.
\* Seeded bug: an old request is carried out again.
FreshAny(m) == TRUE
Fresh(m) == m.seq = 1 \/ m.seq >= srvseq

\* rdofile opens the file of the disk; the table has room for the one disk there is.
rdofile == opened' = TRUE /\ exists' = TRUE

\* The handlers.  A disk that is open already answers at once; otherwise its file is
\* opened, or created empty.
rdopen(m) ==
    /\ IF opened THEN UNCHANGED <<opened, exists>> ELSE rdofile
    /\ sndok(m, 0)
    /\ UNCHANGED file

\* A read of a disk that is not open, or beyond the end of its file, fails.
rdread(m) ==
    /\ IF opened /\ m.blk \in DOMAIN file THEN sndok(m, file[m.blk]) ELSE snderr(m)
    /\ UNCHANGED <<opened, exists, file>>

\* A write extends the file if need be; the hole it may leave reads as zero.
Extended(b, v) ==
    [x \in {y \in DiskBlocks : y \in DOMAIN file \/ y <= b} |->
       IF x = b THEN v ELSE IF x \in DOMAIN file THEN file[x] ELSE 0]
rdwrite(m) ==
    /\ IF opened THEN file' = Extended(m.blk, m.val) /\ sndok(m, 0)
       ELSE snderr(m) /\ UNCHANGED file
    /\ UNCHANGED <<opened, exists>>

rdclose(m) ==
    /\ IF opened THEN opened' = FALSE /\ sndok(m, 0) ELSE snderr(m) /\ UNCHANGED opened
    /\ UNCHANGED <<exists, file>>

\* A delete closes the disk first, and fails if there is no file to remove.
rddelete(m) ==
    /\ opened' = FALSE /\ exists' = FALSE /\ file' = [x \in {} |-> 0]
    /\ IF exists THEN sndok(m, 0) ELSE snderr(m)

\* main takes the sequence number and dispatches on the type of the request.
ServerDo(m) ==
    /\ Fresh(m)
    /\ Count(m.seq)
    /\ \/ m.type = "O" /\ rdopen(m)
       \/ m.type = "R" /\ rdread(m)
       \/ m.type = "W" /\ rdwrite(m)
       \/ m.type = "C" /\ rdclose(m)
       \/ m.type = "D" /\ rddelete(m)
    /\ UNCHANGED <<rdseq, cur, resp, requests, restarts>>

\* The server is stopped and started again.
ServerRestart ==
    /\ restarts < MaxRestart
    /\ UNCHANGED <<rdseq, cur, resp, requests, replies, exists, file>>
    /\ restarts' = restarts + 1 /\ Count(0) /\ opened' = FALSE

\* A request is lost, or will not arrive again.  A lost reply is one that never arrives.
Lose(m) ==
    /\ requests' = requests \ {m}
    /\ UNCHANGED <<rdseq, cur, resp, replies, srvseq, opened, exists, file, restarts, stale>>

\* Once requests of earlier exchanges may be carried out again, the disk is beyond saving.
CommNext ==
    /\ ~stale
    /\ \/ \E t \in {"O", "R", "W", "C", "D"}, b \in DiskBlocks : (t \in {"R", "W"} \/ b = 0) /\ rdscommCall(t, b)
       \/ rdscommSend \/ rdscommTimeout \/ rdscommFail
       \/ \E m \in replies : rdscommReceive(m)
       \/ \E m \in requests : ServerDo(m) \/ Lose(m)
       \/ ServerRestart

CommSpec == CommInit /\ [][CommNext]_commVars

-----------------------------------------------------------------------------
\* Until the server's count starts again with requests of earlier exchanges on the network,
\* a copy of an older request that arrives after a newer one was carried out does not change
\* the file; and an exchange that ends OK with the server's good answer to its own request
\* has done its job, however many copies of the request were sent or lost and whether the
\* server was restarted between: what was read is in the file, and what was written is there.
ExchangeSound ==
    [][~stale' =>
       /\ \A b \in DOMAIN file : b \in DOMAIN file' /\ file'[b] # file[b] => file'[b] > file[b]
       /\ cur'.pc = "OK" /\ cur'.own /\ cur'.got =>
              /\ cur'.type = "R" => cur'.blk \in DOMAIN file' /\ file'[cur'.blk] = resp'
              /\ cur'.type = "W" => cur'.blk \in DOMAIN file' /\ file'[cur'.blk] = cur'.val]_commVars

=============================================================================
