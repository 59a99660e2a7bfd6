-------------------------------- MODULE Rfs --------------------------------
(***************************************************************************)
(* The remote file system: each call sends one request to the file server   *)
(* and waits for the reply, RF_RETRIES times.  Calls are serialised by      *)
(* rf_mutex, which is held during the whole exchange.  The network loses,   *)
(* delays, repeats and reorders messages.  The server is not part of the    *)
(* repository: it is modelled by what the client expects of it.             *)
(***************************************************************************)
EXTENDS Integers, Sequences, FiniteSets

CONSTANTS RfNames, Nrfl,        \* names of files, number of file pseudo-devices
          RF_RETRIES,
          RfModes,              \* modes of open: sets of "r", "w", "n", "o"
          RfControls,           \* control functions called: "trunc", "delete", "size"
          MaxRfSeq              \* bound: exchanges

ASSUME RfsAssumption ==
    /\ {Nrfl, RF_RETRIES} \subseteq Nat \ {0} /\ MaxRfSeq \in Nat
    /\ RfControls \subseteq {"trunc", "delete", "size"}
    /\ RfModes \subseteq SUBSET {"r", "w", "n", "o"}

VARIABLES rfltab,   \* control blocks of the open files
          rf_seq,
          rfcall,   \* the call that holds rf_mutex, or RfIdle
          rfnet,    \* messages in the network; one that was received may come again
          rffiles,  \* the server's files: sequences of bytes
          rfdata    \* history: result of the last read and what it may be
rfsVars == <<rfltab, rf_seq, rfcall, rfnet, rffiles, rfdata>>

Rfl == 0..Nrfl - 1
RfIdle == [op |-> "idle"]
NoRead == [got |-> 0, fits |-> {0}]
Absent == <<>>
\* An open or a truncated file is one byte long here, 0; a byte is the number of its write.
Empty == <<0>>

RfsInit ==
    /\ rfltab = [d \in Rfl |-> [state |-> "FREE", name |-> "", pos |-> 0, mode |-> {}]]
    /\ rf_seq = 1
    /\ rfcall = RfIdle /\ rfnet = {} /\ rfdata = NoRead
    /\ rffiles = [n \in RfNames |-> Absent]

\* Neither "r" nor "w" allows both.
rfsgetmode(mode) == IF mode \cap {"r", "w"} = {} THEN mode \cup {"r", "w"} ELSE mode

\* rfscomm: a new sequence number and the first copy of the request.
RfRequest(op, d, name, mode) ==
    [op |-> op, dev |-> d, seq |-> rf_seq, name |-> name, mode |-> mode, pos |-> rfltab[d].pos]
Start(op, d, name, mode) ==
    /\ rfcall = RfIdle /\ rf_seq <= MaxRfSeq
    /\ rf_seq' = rf_seq + 1
    /\ rfcall' = [op |-> op, req |-> RfRequest(op, d, name, mode), tries |-> 1,
                  seen |-> {IF rffiles[name] = Absent THEN 0 ELSE rffiles[name][1]}]
    /\ rfnet' = rfnet \cup {RfRequest(op, d, name, mode)}
    /\ UNCHANGED <<rffiles, rfdata>>

\* rfsopen takes the first free control block; its name is stored even if the open fails.
rfsopen(name, mode) ==
    \E d \in Rfl :
        /\ rfltab[d].state = "FREE" /\ \A e \in 0..d - 1 : rfltab[e].state # "FREE"
        /\ ~({"n", "o"} \subseteq mode)
        /\ Start("open", d, name, rfsgetmode(mode))
        /\ rfltab' = [rfltab EXCEPT ![d].name = name, ![d].mode = rfsgetmode(mode)]

\* rflread and rflwrite, rflgetc and rflputc through them.  Files of one byte: each call
\* is for the byte at position 0.
Transfer(op, bit, d) ==
    /\ rfltab[d].state = "USED" /\ bit \in rfltab[d].mode /\ rfltab[d].pos = 0
    /\ Start(op, d, rfltab[d].name, {})
    /\ UNCHANGED rfltab
rflread(d) == Transfer("read", "r", d)
rflwrite(d) == Transfer("write", "w", d)

\* rfscontrol sends a header only (rfsndmsg); the size request is like a read without data,
\* and requests for directories change no file.
rfscontrol(op, d, name) ==
    /\ Start(op, d, name, {}) /\ UNCHANGED rfltab

rflseek(d, pos) ==
    /\ rfcall = RfIdle /\ rfltab[d].state = "USED"
    /\ rfltab' = [rfltab EXCEPT ![d].pos = pos]
    /\ UNCHANGED <<rf_seq, rfcall, rfnet, rffiles, rfdata>>

rflclose(d) ==
    /\ rfcall = RfIdle /\ rfltab[d].state = "USED"
    /\ rfltab' = [rfltab EXCEPT ![d].state = "FREE"]
    /\ UNCHANGED <<rf_seq, rfcall, rfnet, rffiles, rfdata>>

-----------------------------------------------------------------------------
(* The server and the network *)

After(m) ==
    CASE m.op = "open" /\ rffiles[m.name] = Absent /\ "o" \notin m.mode -> Empty
      [] m.op = "write" /\ rffiles[m.name] # Absent -> <<m.seq>>
      [] m.op = "trunc" /\ rffiles[m.name] # Absent -> Empty
      [] m.op = "delete" -> Absent
      [] OTHER -> rffiles[m.name]
Refused(m) ==
    \/ rffiles[m.name] = Absent /\ (m.op # "open" \/ "o" \in m.mode)
    \/ rffiles[m.name] # Absent /\ m.op = "open" /\ "n" \in m.mode

\* A request arrives, perhaps late or once more, and is answered.
Serve(m) ==
    /\ m \in rfnet /\ m.op \in {"open", "read", "write", "trunc", "delete", "size"}
    /\ rffiles' = [rffiles EXCEPT ![m.name] = After(m)]
    /\ rfnet' = rfnet \cup {[op |-> "reply", to |-> m.op, seq |-> m.seq, bad |-> Refused(m),
                             data |-> IF rffiles[m.name] = Absent THEN 0 ELSE rffiles[m.name][1]]}
    /\ rfcall' = IF rfcall = RfIdle \/ rfcall.req.name # m.name THEN rfcall
                 ELSE [rfcall EXCEPT !.seen = @ \cup {IF After(m) = Absent THEN 0 ELSE After(m)[1]}]
    /\ UNCHANGED <<rfltab, rf_seq, rfdata>>

\* The end of a call: rf_mutex is released, the control block follows the reply.
RfReturn(r) ==
    LET d == rfcall.req.dev
        ok == r.op = "reply" /\ ~r.bad
    IN  /\ rfcall' = RfIdle
        /\ rfltab' = CASE ~ok -> rfltab
                       [] rfcall.op = "open" -> [rfltab EXCEPT ![d].state = "USED", ![d].pos = 0]
                       [] rfcall.op \in {"read", "write"} -> [rfltab EXCEPT ![d].pos = @ + 1]
                       [] OTHER -> rfltab
        /\ rfdata' = IF ok /\ rfcall.op = "read" THEN [got |-> r.data, fits |-> rfcall.seen] ELSE NoRead

\* The next try sends one more copy of the request; a copy in the network may arrive any
\* number of times, so it is there already.
Resend ==
    IF rfcall.tries < RF_RETRIES
    THEN /\ rfcall' = [rfcall EXCEPT !.tries = @ + 1]
         /\ UNCHANGED <<rfltab, rfdata>>
    ELSE RfReturn([op |-> "timeout"])
\* A reply arrives.  One with another sequence number or another type costs a retry.
\* Seeded bug: only the type of the reply is compared.
AnswersType(r) == r.to = rfcall.op
Answers(r) == r.to = rfcall.op /\ r.seq = rfcall.req.seq
Receive(r) ==
    /\ rfcall # RfIdle /\ r \in rfnet /\ r.op = "reply"
    /\ IF Answers(r) THEN RfReturn(r) ELSE Resend
    /\ UNCHANGED <<rf_seq, rfnet, rffiles>>

Timeout == rfcall # RfIdle /\ Resend /\ UNCHANGED <<rf_seq, rfnet, rffiles>>

RfsNext ==
    \/ \E name \in RfNames, mode \in RfModes : rfsopen(name, mode)
    \/ \E d \in Rfl : rflread(d)
    \/ \E d \in Rfl : rflwrite(d)
    \/ \E op \in RfControls, d \in Rfl, name \in RfNames : rfscontrol(op, d, name)
    \/ \E d \in Rfl : rflseek(d, 0)
    \/ \E d \in Rfl : rflclose(d)
    \/ \E m \in rfnet : Serve(m)
    \/ \E r \in rfnet : Receive(r)
    \/ Timeout

RfsSpec == RfsInit /\ [][RfsNext]_rfsVars

-----------------------------------------------------------------------------
\* A read returns what the file held at its position at some moment of the call, whatever
\* replies to earlier calls are still on their way: rfscomm matches the sequence number, and
\* a number is never used twice.
RfReadFresh == rfdata.got \in rfdata.fits
=============================================================================
