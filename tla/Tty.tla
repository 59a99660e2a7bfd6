-------------------------------- MODULE Tty --------------------------------
(***************************************************************************)
(* The console driver.  The upper half (ttyputc, ttygetc, ttycontrol) and   *)
(* the interrupt handler share an input, an output and an echo queue, all   *)
(* circular; semaphores count what can be read and what can be written.     *)
(* A process that waited for a semaphore uses the queue when it runs again, *)
(* and the handler may run before: it takes the semaphores for the number   *)
(* of characters in the queues.  In cooked mode a line becomes readable     *)
(* when it is complete.                                                     *)
(***************************************************************************)
EXTENDS Integers, Sequences, SequencesExt

CONSTANTS TY_IBUFLEN, TY_OBUFLEN, TY_EBUFLEN, \* sizes of the queues
          UART_FIFO_SIZE,   \* characters the UART takes at a time
          Letters,          \* ordinary characters
          MaxChars,         \* bound: characters typed and written
          MaxBlocked        \* bound: processes blocked on a semaphore of the console, or woken

ASSUME TtyAssumption ==
    /\ {TY_IBUFLEN, TY_OBUFLEN, TY_EBUFLEN, UART_FIFO_SIZE} \subseteq Nat \ {0}
    /\ {MaxChars, MaxBlocked} \subseteq Nat

VARIABLES ibuff, ihead, itail, isem, icursor, imode, iecho,
          iwoken,   \* processes that the input semaphore let go and that have not run yet
          ohead, otail, osem, obuff,
          owoken,   \* the same for the output semaphore
          ehead, etail, \* echo queue; what is echoed is left out
          oheld,
          etbei,    \* the UART's transmit interrupt is enabled
          keys, outs, \* characters typed and written so far
          typed,    \* history: characters typed, after editing, that no process has read
          sent,     \* history: last character the UART got from the output queue
          echoes,   \* history: echoed characters the UART has not got yet
          fault     \* history: the first thing to go wrong in a queue, or "none"

inVars == <<ibuff, ihead, itail, isem, icursor, imode, iecho, iwoken, typed, keys>>
outVars == <<ohead, otail, osem, obuff, owoken, sent, outs>>
echoVars == <<ehead, etail, echoes>>
ttyVars == <<inVars, outVars, echoVars, oheld, etbei, fault>>

TtyInit ==
    /\ ibuff = [i \in 0..TY_IBUFLEN - 1 |-> "nul"] /\ ihead = 0 /\ itail = 0 /\ isem = 0
    /\ icursor = 0 /\ imode = "COOKED" /\ iecho = TRUE /\ iwoken = 0
    /\ obuff = [i \in 0..TY_OBUFLEN - 1 |-> 0] /\ ohead = 0 /\ otail = 0 /\ osem = TY_OBUFLEN
    /\ owoken = 0 /\ ehead = 0 /\ etail = 0 /\ oheld = FALSE /\ etbei = TRUE
    /\ keys = 0 /\ outs = 0 /\ typed = <<>> /\ sent = 0 /\ echoes = 0 /\ fault = "none"

Next1(i, len) == (i + 1) % len
Least(a, b) == IF a < b THEN a ELSE b

\* A semaphore's count: available if positive, processes waiting if negative.
Available(sem) == IF sem < 0 THEN 0 ELSE sem
Waiting(sem) == IF sem < 0 THEN -sem ELSE 0
More == keys + outs + owoken + Waiting(osem) < MaxChars

-----------------------------------------------------------------------------
(* Input *)

\* signaln of the input semaphore.
Isignal(n) == isem' = isem + n /\ iwoken' = iwoken + Least(n, Waiting(isem))

\* eputc, n times: no check for room.  With n = 0 nothing is echoed and nothing kicked.
eputc(n) ==
    /\ etail' = (etail + n) % TY_EBUFLEN
    /\ echoes' = echoes + n
    /\ etbei' = (etbei \/ n > 0)
    /\ UNCHANGED ehead
Echo(n) == IF iecho THEN eputc(n) ELSE eputc(0)

Store(key) ==
    /\ ibuff' = [ibuff EXCEPT ![itail] = key] /\ itail' = Next1(itail, TY_IBUFLEN)
    /\ typed' = Append(typed, key)

\* Raw characters and end-of-file: the tail does not wrap (in raw mode the output tail is
\* compared with the end of its buffer).
StoreOne(key) ==
    /\ ibuff' = [ibuff EXCEPT ![itail] = key] /\ itail' = itail + 1 /\ typed' = Append(typed, key)
    /\ Isignal(1)

ttyhandle_raw(key) ==
    IF Available(isem) >= TY_IBUFLEN THEN UNCHANGED <<ibuff, itail, isem, iwoken, typed>>
    ELSE StoreOne(key)

\* Cbreak mode stores and echoes, and does not signal.
ttyhandle_cbreak(key) ==
    IF Available(isem) >= TY_IBUFLEN THEN eputc(1) /\ UNCHANGED <<ibuff, itail, typed>>
    ELSE Store(key) /\ Echo(1)

\* Line kill: the tail goes back over the line; if that passes the start of the buffer the
\* head, not the tail, is moved by the length of the buffer.
ttyhandle_kill ==
    /\ itail' = itail - icursor
    /\ ihead' = IF itail < icursor THEN ihead + TY_IBUFLEN ELSE ihead
    /\ icursor' = 0 /\ typed' = SubSeq(typed, 1, Len(typed) - icursor)
    /\ eputc(2)
    /\ UNCHANGED <<ibuff, isem, iwoken>>

ttyhandle_erase ==
    /\ IF icursor > 0
       THEN /\ icursor' = icursor - 1 /\ typed' = Front(typed)
            /\ itail' = IF itail = 0 THEN TY_IBUFLEN - 1 ELSE itail - 1
            /\ Echo(3)
       ELSE UNCHANGED <<icursor, typed, itail, etbei, echoVars>>
    /\ UNCHANGED <<ibuff, ihead, isem, iwoken>>

\* End of line: the whole line becomes readable.  There is no check for room.
\* Seeded bug: the end of the line itself is not counted.
LineLenShort == icursor
LineLen == icursor + 1
ttyhandle_eol ==
    /\ Store("nl")
    /\ Isignal(LineLen)
    /\ icursor' = 0
    /\ Echo(2)
    /\ UNCHANGED ihead

\* End-of-file counts only at the start of a line.
ttyhandle_eof ==
    /\ Echo(2)
    /\ IF icursor # 0 THEN UNCHANGED <<ibuff, itail, isem, iwoken, typed>> ELSE StoreOne("eof")
    /\ UNCHANGED <<ihead, icursor>>

ttyhandle_char(key) ==
    /\ Store(key)
    /\ icursor' = icursor + 1
    /\ Echo(1)
    /\ UNCHANGED <<ihead, isem, iwoken>>

\* What goes wrong with the character that has arrived: the echo queue overruns, the tail of
\* the input queue has left its buffer, a character that was not read is overwritten, or a
\* character was stored that no reader is told of.
InputFault ==
    CASE echoes' >= TY_EBUFLEN -> "echo queue"
      [] itail' \notin 0..TY_IBUFLEN - 1 -> "input tail"
      [] Len(typed') > TY_IBUFLEN -> "input queue"
      [] imode = "CBREAK" /\ typed' # typed -> "cbreak"
      [] OTHER -> "none"

\* ttyhandle_in: one arriving character.
ttyhandle_in(key) ==
    /\ More /\ keys' = keys + 1
    /\ \/ /\ imode = "RAW"
          /\ ttyhandle_raw(key) /\ UNCHANGED <<ihead, icursor, oheld, etbei, echoVars>>
       \/ /\ imode # "RAW" /\ key \in {"start", "stop"}
          /\ oheld' = (key = "stop") /\ etbei' = (etbei \/ key = "start")
          /\ UNCHANGED <<ibuff, ihead, itail, isem, iwoken, icursor, typed, echoVars>>
       \/ /\ imode # "RAW" /\ key \notin {"start", "stop"} /\ oheld' = FALSE
          /\ IF imode = "CBREAK"
             THEN ttyhandle_cbreak(key) /\ UNCHANGED <<ihead, isem, iwoken, icursor>>
             ELSE IF key = "kill" THEN ttyhandle_kill
             ELSE IF key = "bs" THEN ttyhandle_erase
             ELSE IF key = "nl" THEN ttyhandle_eol
             ELSE IF Available(isem) + icursor >= TY_IBUFLEN - 1
                  THEN eputc(1) /\ UNCHANGED <<ibuff, ihead, itail, isem, iwoken, icursor, typed>>
             ELSE IF key = "eof" THEN ttyhandle_eof
             ELSE ttyhandle_char(key)
    /\ fault' = InputFault
    /\ UNCHANGED <<imode, iecho, outVars>>

\* The character at the head is read.
TakeChar == ihead' = Next1(ihead, TY_IBUFLEN) /\ typed' = Tail(typed)

\* wait, in ttygetc and in ttycontrol: what a blocked process was called for shows only when
\* it runs again.
InputWait ==
    /\ isem <= 0 /\ Waiting(isem) + iwoken < MaxBlocked
    /\ isem' = isem - 1
    /\ UNCHANGED <<ihead, iwoken, typed>>
ttygetc ==
    /\ \/ isem > 0 /\ isem' = isem - 1 /\ TakeChar /\ UNCHANGED iwoken
       \/ InputWait
       \/ iwoken > 0 /\ iwoken' = iwoken - 1 /\ TakeChar /\ UNCHANGED isem
    /\ UNCHANGED <<ibuff, itail, icursor, imode, iecho, keys, outVars, echoVars, oheld, etbei, fault>>

\* TC_NEXTC waits, looks at the place behind the last character, and signals.
NextChar ==
    /\ iwoken > 0
    /\ isem' = isem + 1 /\ iwoken' = IF isem < 0 THEN iwoken ELSE iwoken - 1
    /\ UNCHANGED <<ibuff, ihead, itail, icursor, imode, iecho, keys, typed>>

\* ttycontrol sets a mode at any time, in the middle of a line too.
ttycontrol ==
    /\ \/ NextChar
       \/ /\ \/ imode' \in {"RAW", "COOKED", "CBREAK"} /\ UNCHANGED iecho
             \/ iecho' \in BOOLEAN /\ UNCHANGED imode
          /\ UNCHANGED <<ibuff, ihead, itail, isem, iwoken, icursor, typed, keys>>
    /\ UNCHANGED <<outVars, echoVars, oheld, etbei, fault>>

-----------------------------------------------------------------------------
(* Output: characters are numbered in the order they are stored. *)

PutChar ==
    /\ outs' = outs + 1
    /\ obuff' = [obuff EXCEPT ![otail] = outs']
    /\ otail' = Next1(otail, TY_OBUFLEN)
    /\ etbei' = TRUE

ttyputc ==
    /\ \/ /\ osem > 0 /\ More
          /\ osem' = osem - 1 /\ PutChar /\ UNCHANGED owoken
       \/ /\ osem <= 0 /\ More /\ owoken + Waiting(osem) < MaxBlocked
          /\ osem' = osem - 1 /\ UNCHANGED <<outs, obuff, otail, etbei, owoken>>
       \/ /\ owoken > 0
          /\ owoken' = owoken - 1 /\ PutChar /\ UNCHANGED osem
    /\ UNCHANGED <<ohead, sent, inVars, echoVars, oheld, fault>>

\* ttyhandle_out: the UART takes the echo queue first, then the output queue: as many
\* characters as the semaphore lacks, those of the writers included that wait or have been
\* woken and have stored nothing.  What it takes beyond the characters stored is stale.
OutAvail == TY_OBUFLEN - osem
ttyhandle_out ==
    LET avail == (etail + TY_EBUFLEN - ehead) % TY_EBUFLEN
        n == Least(avail, UART_FIFO_SIZE)
        k == Least(OutAvail, UART_FIFO_SIZE - n)
    IN  /\ etbei
        /\ ~oheld
        /\ IF ehead = etail /\ osem >= TY_OBUFLEN
           THEN etbei' = FALSE /\ UNCHANGED <<outVars, echoVars, fault>>
           ELSE /\ ehead' = (ehead + n) % TY_EBUFLEN /\ echoes' = echoes - n
                /\ ohead' = (ohead + k) % TY_OBUFLEN
                /\ osem' = osem + k /\ owoken' = owoken + Least(k, Waiting(osem))
                /\ sent' = IF k = 0 THEN sent ELSE obuff[(ohead + k - 1) % TY_OBUFLEN]
                /\ fault' = IF k > outs - sent THEN "output queue" ELSE "none"
                /\ UNCHANGED <<etbei, etail, otail, obuff, outs>>
        /\ UNCHANGED <<inVars, oheld>>

\* ttyhandler: the UART has received a character, or its output FIFO is empty.
ttyhandler ==
    \/ \E key \in Letters \cup {"nl", "bs", "kill", "eof", "start", "stop"} : ttyhandle_in(key)
    \/ ttyhandle_out

TtyNext == fault = "none" /\ (ttyhandler \/ ttygetc \/ ttyputc \/ ttycontrol)

TtySpec == TtyInit /\ [][TtyNext]_ttyVars

-----------------------------------------------------------------------------
\* As long as no queue has overrun, the input queue holds what was typed, after editing and
\* in order, whatever the mode is changed to: the part that the semaphore and the processes
\* it woke stand for, then the line in the making.  The characters written reach the UART
\* once each and in order: the output queue holds what follows the last character sent, its
\* room is what the semaphore and the woken writers stand for, the echo queue loses nothing,
\* and the transmit interrupt is on while anything is left to send.
TtyQueues ==
    fault = "none" =>
        /\ Available(isem) + iwoken + icursor = Len(typed)
        /\ \A i \in 1..Len(typed) : ibuff[(ihead + i - 1) % TY_IBUFLEN] = typed[i]
        /\ Available(osem) + owoken = TY_OBUFLEN - (outs - sent)
        /\ \A i \in 1..outs - sent : obuff[(ohead + i - 1) % TY_OBUFLEN] = sent + i
        /\ echoes = (etail + TY_EBUFLEN - ehead) % TY_EBUFLEN
        /\ outs > sent \/ echoes > 0 => etbei
=============================================================================
