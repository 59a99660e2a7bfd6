------------------------------- MODULE Kernel -------------------------------
(***************************************************************************)
(* The process manager: process table, ready list, scheduler, semaphores,  *)
(* delta list of sleeping processes, messages, creation and killing.       *)
(* Every call runs with interrupts disabled, so it is one step, except     *)
(* where it calls resched and the processor goes to another process: what  *)
(* the call does after resched is a continuation (todo) that runs when the *)
(* process is current again.  The linked lists of queuetab are sequences   *)
(* of process identifiers with the qkey of each process beside them.       *)
(***************************************************************************)
EXTENDS Integers, Sequences, FiniteSets, SequencesExt

CONSTANTS NPROC,      \* size of proctab; process 0 is the null process
          NSEM,       \* size of semtab
          Prios,      \* priorities create and chprio are called with
          Delays,     \* arguments of sleepms and recvtime, zero excluded
          MaxCount,   \* bound: largest count a semaphore is given
          MaxChprio,  \* bound: calls of chprio
          MaxCalls    \* bound: calls and clock ticks in a behaviour

ASSUME KernelAssumption ==
    /\ NPROC \in Nat \ {0, 1} /\ NSEM \in Nat \ {0} /\ MaxCount \in Nat /\ MaxChprio \in Nat /\ MaxCalls \in Nat
    /\ Prios \subseteq Nat \ {0} /\ Delays \subseteq Nat \ {0}

VARIABLES k,        \* scheduler: process states, priorities, keys, queues, current process
          sem,      \* semtab: state, count and queue of each semaphore
          nextsem,  \* newsem's static index
          mbox,     \* prhasmsg of each process
          parent,   \* prparent
          todo,     \* what a process still does when it runs again
          nextpid,  \* newpid's static index
          prcount,  \* number of processes
          halted,   \* xdone has stopped the machine
          due,      \* history: ticks a delayed process still has to wait
          torn,     \* history: a kill hit a process that was killing or being killed
          reprio,   \* history: calls of chprio
          calls     \* calls and ticks so far (bound)

kernelVars == <<k, sem, nextsem, mbox, parent, todo, nextpid, prcount, halted, due, torn, reprio, calls>>

Pids == 0..NPROC - 1
Sems == 0..NSEM - 1
Nothing == [op |-> "none", pid |-> 0]
RemovePid(s, p) == IF Contains(s, p) THEN RemoveAt(s, CHOOSE i \in DOMAIN s : s[i] = p) ELSE s

-----------------------------------------------------------------------------
\* insert: descending keys, behind every process with an equal key.
insert(s, p) ==
    LET i == Cardinality({j \in DOMAIN s.rdy : s.key[s.rdy[j]] >= s.prio[p]})
    IN  [s EXCEPT !.key[p] = s.prio[p], !.rdy = InsertAt(s.rdy, i + 1, p)]

\* resched: the current process keeps the processor only if its priority is above that of
\* the first ready process; deferred while ndefers is positive.
FirstKey(s) == IF s.rdy = <<>> THEN -1 ELSE s.key[Head(s.rdy)]
Dispatch(s) == [s EXCEPT !.cur = Head(s.rdy), !.rdy = Tail(s.rdy), !.st[Head(s.rdy)] = "CURR"]
resched(s) ==
    IF s.ndefers > 0 THEN [s EXCEPT !.attempt = TRUE]
    ELSE IF s.st[s.cur] # "CURR" THEN Dispatch(s)
    ELSE IF s.prio[s.cur] > FirstKey(s) THEN s
    ELSE Dispatch(insert([s EXCEPT !.st[s.cur] = "READY"], s.cur))

\* resched_cntl(DEFER_START) and resched_cntl(DEFER_STOP).
DeferStart(s) == [s EXCEPT !.ndefers = @ + 1, !.attempt = IF s.ndefers = 0 THEN FALSE ELSE @]
\* Seeded bug: the attempt that was deferred is forgotten.
DeferStopForget(s) == [s EXCEPT !.ndefers = @ - 1]
DeferStop(s) == LET t == [s EXCEPT !.ndefers = @ - 1]
                IN  IF t.ndefers = 0 /\ t.attempt THEN resched(t) ELSE t

ready(s, p) == resched(insert([s EXCEPT !.st[p] = "READY"], p))

\* insertd: the delta list; each key counts from its predecessor's time.
insertd(s, p, d) ==
    LET Sum[i \in 0..Len(s.slp)] == IF i = 0 THEN 0 ELSE Sum[i - 1] + s.key[s.slp[i]]
        i == Cardinality({j \in DOMAIN s.slp : Sum[j] <= d})
        t == [s EXCEPT !.key[p] = d - Sum[i], !.slp = InsertAt(s.slp, i + 1, p)]
    IN  IF i = Len(s.slp) THEN t ELSE [t EXCEPT !.key[s.slp[i + 1]] = @ - (d - Sum[i])]

\* unsleep: the successor inherits the remaining delay.
\* Seeded bug: the successor's delay is not adjusted.
unsleepShort(s, p) == [s EXCEPT !.slp = RemovePid(@, p)]
unsleep(s, p) ==
    LET i == CHOOSE j \in DOMAIN s.slp : s.slp[j] = p
        t == [s EXCEPT !.slp = RemovePid(@, p)]
    IN  IF i = Len(s.slp) THEN t ELSE [t EXCEPT !.key[s.slp[i + 1]] = @ + s.key[p]]

\* ready every process of a sequence, in order, with rescheduling deferred.
ReadyAll(s, q) ==
    LET R[i \in 0..Len(q)] == IF i = 0 THEN DeferStart(s) ELSE ready(R[i - 1], q[i])
    IN  DeferStop(R[Len(q)])

\* wakeup: every process at the front of the delta list whose time has come.
wakeup(s) ==
    LET n == CHOOSE i \in 0..Len(s.slp) :
                 /\ \A j \in 1..i : s.key[s.slp[j]] <= 0
                 /\ i < Len(s.slp) => s.key[s.slp[i + 1]] > 0
    IN  ReadyAll([s EXCEPT !.slp = SubSeq(@, n + 1, Len(@))], SubSeq(s.slp, 1, n))

-----------------------------------------------------------------------------
\* The null process is ready and the first user process runs.
KernelInit ==
    /\ k = [st |-> [p \in Pids |-> CASE p = 0 -> "READY" [] p = 1 -> "CURR" [] OTHER -> "FREE"],
            prio |-> [p \in Pids |-> IF p = 1 THEN 1 ELSE 0], key |-> [p \in Pids |-> 0],
            rdy |-> <<0>>, slp |-> <<>>, cur |-> 1, ndefers |-> 0, attempt |-> FALSE]
    /\ sem = [s \in Sems |-> [st |-> "FREE", n |-> 0, q |-> <<>>]]
    /\ nextsem = 0
    /\ mbox = [p \in Pids |-> FALSE]
    /\ parent = [p \in Pids |-> 0]
    /\ todo = [p \in Pids |-> Nothing]
    /\ nextpid = 2 % NPROC
    /\ prcount = 2
    /\ halted = FALSE
    /\ due = [p \in Pids |-> 0]
    /\ torn = FALSE
    /\ reprio = 0
    /\ calls = 0

me == k.cur
\* The current process is free to make a call (the null process makes none).
Calls == ~halted /\ me # 0 /\ todo[me] = Nothing

\* The caller leaves the processor in state st.
Block(st) == [k EXCEPT !.st[me] = st]

\* getpid of the first free entry from nextpid on.
FreeSlots == {i \in 0..NPROC - 1 : k.st[(nextpid + i) % NPROC] = "FREE"}
newpid == (nextpid + (CHOOSE i \in FreeSlots : \A j \in FreeSlots : i <= j)) % NPROC

create(pr) ==
    /\ Calls /\ FreeSlots # {}
    /\ LET p == newpid
       IN  /\ nextpid' = p + 1
           /\ k' = [k EXCEPT !.st[p] = "SUSP", !.prio[p] = pr]
           /\ parent' = [parent EXCEPT ![p] = me]
           /\ mbox' = [mbox EXCEPT ![p] = FALSE]
           /\ todo' = [todo EXCEPT ![p] = Nothing]
           /\ torn' = (torn \/ \E q \in Pids : todo[q] = [op |-> "kill", pid |-> p])
    /\ prcount' = prcount + 1
    /\ UNCHANGED <<sem, nextsem, halted, due, reprio>>

suspend(p) ==
    /\ Calls /\ p # 0 /\ k.st[p] \in {"CURR", "READY"}
    /\ k' = IF k.st[p] = "READY" THEN [k EXCEPT !.st[p] = "SUSP", !.rdy = RemovePid(@, p)]
            ELSE resched(Block("SUSP"))
    /\ UNCHANGED <<sem, nextsem, mbox, parent, todo, nextpid, prcount, halted, due, torn, reprio>>

resume(p) ==
    /\ Calls /\ k.st[p] = "SUSP"
    /\ k' = ready(k, p)
    /\ UNCHANGED <<sem, nextsem, mbox, parent, todo, nextpid, prcount, halted, due, torn, reprio>>

yield ==
    /\ Calls
    /\ k' = resched(k)
    /\ UNCHANGED <<sem, nextsem, mbox, parent, todo, nextpid, prcount, halted, due, torn, reprio>>

\* chprio changes the priority and leaves the ready list and the processor alone.
chprio(p, pr) ==
    /\ Calls /\ reprio < MaxChprio /\ k.st[p] # "FREE" /\ p # 0 /\ k.prio[p] # pr
    /\ k' = [k EXCEPT !.prio[p] = pr]
    /\ reprio' = reprio + 1
    /\ UNCHANGED <<sem, nextsem, mbox, parent, todo, nextpid, prcount, halted, due, torn>>

-----------------------------------------------------------------------------
\* newsem: the first free entry from nextsem on.
FreeSems == {i \in 0..NSEM - 1 : sem[(nextsem + i) % NSEM].st = "FREE"}
newsem == (nextsem + (CHOOSE i \in FreeSems : \A j \in FreeSems : i <= j)) % NSEM

semcreate(n) ==
    /\ Calls /\ FreeSems # {}
    /\ sem' = [sem EXCEPT ![newsem].st = "USED", ![newsem].n = n]
    /\ nextsem' = (newsem + 1) % NSEM
    /\ UNCHANGED <<k, mbox, parent, todo, nextpid, prcount, halted, due, torn, reprio>>

semwait(s) ==
    /\ Calls /\ sem[s].st = "USED"
    /\ IF sem[s].n > 0
       THEN sem' = [sem EXCEPT ![s].n = @ - 1] /\ UNCHANGED k
       ELSE /\ sem' = [sem EXCEPT ![s].n = @ - 1, ![s].q = Append(@, me)]
            /\ k' = resched(Block("WAIT"))
    /\ UNCHANGED <<nextsem, mbox, parent, todo, nextpid, prcount, halted, due, torn, reprio>>

\* signaln(s, n); signal(s) is signaln(s, 1): one ready reschedules in both.
semsignal(s, n) ==
    /\ Calls /\ sem[s].st = "USED" /\ sem[s].n + n <= MaxCount
    /\ LET w == IF sem[s].n >= 0 THEN 0 ELSE IF n < -sem[s].n THEN n ELSE -sem[s].n
       IN  /\ k' = ReadyAll(k, SubSeq(sem[s].q, 1, w))
           /\ sem' = [sem EXCEPT ![s].n = @ + n, ![s].q = SubSeq(@, w + 1, Len(@))]
    /\ UNCHANGED <<nextsem, mbox, parent, todo, nextpid, prcount, halted, due, torn, reprio>>

\* semdelete releases every waiting process; so does semreset, which sets the count.
semdelete(s) ==
    /\ Calls /\ sem[s].st = "USED"
    /\ k' = ReadyAll(k, sem[s].q)
    /\ sem' = [sem EXCEPT ![s].st = "FREE", ![s].n = 0, ![s].q = <<>>]
    /\ UNCHANGED <<nextsem, mbox, parent, todo, nextpid, prcount, halted, due, torn, reprio>>
semreset(s, n) ==
    /\ Calls /\ sem[s].st = "USED"
    /\ k' = ReadyAll(k, sem[s].q)
    /\ sem' = [sem EXCEPT ![s].n = n, ![s].q = <<>>]
    /\ UNCHANGED <<nextsem, mbox, parent, todo, nextpid, prcount, halted, due, torn, reprio>>

-----------------------------------------------------------------------------
sleepms(d) ==
    /\ Calls
    /\ k' = resched([insertd(k, me, d) EXCEPT !.st[me] = "SLEEP"])
    /\ due' = [due EXCEPT ![me] = d]
    /\ UNCHANGED <<sem, nextsem, mbox, parent, todo, nextpid, prcount, halted, torn, reprio>>

\* clkhandler: one tick for the first process of the delta list; the end of the time slice
\* (preempt) may come at any tick.
clkhandler ==
    /\ ~halted /\ todo[me] = Nothing
    /\ LET t == IF k.slp = <<>> THEN k ELSE [k EXCEPT !.key[Head(k.slp)] = @ - 1]
           w == IF k.slp # <<>> /\ t.key[Head(k.slp)] <= 0 THEN wakeup(t) ELSE t
       IN  k' \in {w, resched(w)}
    /\ due' = [p \in Pids |-> IF due[p] > 0 THEN due[p] - 1 ELSE 0]
    /\ UNCHANGED <<sem, nextsem, mbox, parent, todo, nextpid, prcount, halted, torn, reprio>>

\* History: a process that left the delta list waits for no tick.
Undelayed(s, d) == [p \in Pids |-> IF Contains(s.slp, p) THEN d[p] ELSE 0]

\* send's effect on a receiver: a full mailbox or a free entry refuses the message.
Accepts(p) == k.st[p] # "FREE" /\ ~mbox[p]
Deliver(s, p) ==
    IF s.st[p] = "RECV" THEN ready(s, p)
    ELSE IF s.st[p] = "RECTIM" THEN ready(unsleep(s, p), p) ELSE s
send(p) ==
    /\ Calls /\ Accepts(p)
    /\ mbox' = [mbox EXCEPT ![p] = TRUE]
    /\ k' = Deliver(k, p)
    /\ due' = Undelayed(k', due)
    /\ UNCHANGED <<sem, nextsem, parent, todo, nextpid, prcount, halted, torn, reprio>>

\* receive takes the message that is there, or waits and takes it when it runs again.
receive ==
    /\ Calls
    /\ IF mbox[me]
       THEN mbox' = [mbox EXCEPT ![me] = FALSE] /\ UNCHANGED <<k, todo>>
       ELSE /\ k' = resched(Block("RECV")) /\ todo' = [todo EXCEPT ![me].op = "recv"]
            /\ UNCHANGED mbox
    /\ UNCHANGED <<sem, nextsem, parent, nextpid, prcount, halted, due, torn, reprio>>

recvtime(d) ==
    /\ Calls /\ ~mbox[me]
    /\ k' = resched([insertd(k, me, d) EXCEPT !.st[me] = "RECTIM"])
    /\ todo' = [todo EXCEPT ![me].op = "rectim"]
    /\ due' = [due EXCEPT ![me] = d]
    /\ UNCHANGED <<sem, nextsem, mbox, parent, nextpid, prcount, halted, torn, reprio>>

\* The rest of receive and recvtime: a message that came after the timer counts too.
Received ==
    /\ ~halted /\ todo[me].op \in {"recv", "rectim"}
    /\ mbox' = [mbox EXCEPT ![me] = FALSE]
    /\ todo' = [todo EXCEPT ![me] = Nothing]
    /\ UNCHANGED <<k, sem, nextsem, parent, nextpid, prcount, halted, due, torn, reprio>>

recvclr ==
    /\ Calls /\ mbox[me]
    /\ mbox' = [mbox EXCEPT ![me] = FALSE]
    /\ UNCHANGED <<k, sem, nextsem, parent, todo, nextpid, prcount, halted, due, torn, reprio>>

-----------------------------------------------------------------------------
\* kill, after the message to the parent: the process leaves the queue of its state.
\* Seeded bug: the count of a semaphore is not corrected for a waiting process.
KillSemsKeep(s, sm, p) == [x \in Sems |-> [sm[x] EXCEPT !.q = RemovePid(@, p)]]
KillSems(s, sm, p) ==
    [x \in Sems |-> IF s.st[p] = "WAIT" /\ Contains(sm[x].q, p)
                    THEN [sm[x] EXCEPT !.n = @ + 1, !.q = RemovePid(@, p)] ELSE sm[x]]
KillState(s, p) ==
    LET t == [s EXCEPT !.st[p] = "FREE"]
    IN  CASE s.st[p] = "CURR" -> resched(t)
          [] s.st[p] \in {"SLEEP", "RECTIM"} -> unsleep(t, p)
          [] s.st[p] = "READY" -> [t EXCEPT !.rdy = RemovePid(@, p)]
          [] OTHER -> t

\* kill(p); userret is kill of the caller.  If the message wakes the parent and the
\* processor goes to another process, the rest is left for later.
kill(p) ==
    /\ Calls /\ p # 0 /\ k.st[p] # "FREE"
    /\ prcount' = prcount - 1
    /\ torn' = (torn \/ todo[p].op = "kill" \/ \E q \in Pids : todo[q] = [op |-> "kill", pid |-> p])
    /\ IF prcount - 1 <= 1
       THEN halted' = TRUE /\ UNCHANGED <<k, sem, mbox, todo, due>>
       ELSE LET to == parent[p]
                s  == IF Accepts(to) THEN Deliver(k, to) ELSE k
            IN  /\ mbox' = IF Accepts(to) THEN [mbox EXCEPT ![to] = TRUE] ELSE mbox
                /\ IF s.cur = me
                   THEN /\ k' = KillState(s, p) /\ sem' = KillSems(s, sem, p)
                        /\ todo' = [todo EXCEPT ![p] = Nothing]
                   ELSE /\ k' = s /\ todo' = [todo EXCEPT ![me] = [op |-> "kill", pid |-> p]]
                        /\ UNCHANGED sem
                /\ due' = Undelayed(k', due)
                /\ UNCHANGED halted
    /\ UNCHANGED <<nextsem, parent, nextpid, reprio>>
\* Seeded bug: the process is counted out again when its kill is completed.
KillRestTwice ==
    /\ ~halted /\ todo[me].op = "kill"
    /\ k' = KillState(k, todo[me].pid) /\ sem' = KillSems(k, sem, todo[me].pid)
    /\ due' = Undelayed(k', due)
    /\ todo' = [todo EXCEPT ![me] = Nothing, ![todo[me].pid] = Nothing]
    /\ prcount' = prcount - 1
    /\ UNCHANGED <<nextsem, mbox, parent, nextpid, halted, torn, reprio>>
KillRest ==
    /\ ~halted /\ todo[me].op = "kill"
    /\ LET p == todo[me].pid
       IN  /\ k' = KillState(k, p) /\ sem' = KillSems(k, sem, p)
           /\ due' = Undelayed(k', due)
           /\ todo' = [todo EXCEPT ![me] = Nothing, ![p] = Nothing]
           /\ torn' = (torn \/ (p # me /\ todo[p].op = "kill"))
    /\ UNCHANGED <<nextsem, mbox, parent, nextpid, prcount, halted, reprio>>

KernelCall ==
    \/ \E pr \in Prios : create(pr) \/ \E p \in Pids : chprio(p, pr)
    \/ \E p \in Pids : suspend(p) \/ resume(p) \/ send(p) \/ kill(p)
    \/ \E n \in 0..MaxCount : semcreate(n) \/ \E s \in Sems : semreset(s, n)
    \/ \E s \in Sems : semwait(s) \/ semdelete(s) \/ \E n \in 1..2 : semsignal(s, n)
    \/ \E d \in Delays : sleepms(d) \/ recvtime(d)
    \/ yield \/ clkhandler \/ receive \/ recvclr

KernelNext ==
    \/ calls < MaxCalls /\ calls' = calls + 1 /\ KernelCall
    \/ UNCHANGED calls /\ (Received \/ KillRest)

KernelSpec == KernelInit /\ [][KernelNext]_kernelVars

-----------------------------------------------------------------------------
\* Every process is on exactly the queues its state asks for, once: the ready list, the
\* delta list, the queue of one semaphore, or none; one process is current; and the
\* count of a semaphore is minus the number of processes that wait for it, or nobody waits.
\* A process that went to sleep in receive runs again only with a message.
Times(s, p) == Cardinality({i \in DOMAIN s : s[i] = p})
QueuesMatchStates ==
    /\ \A p \in Pids :
          /\ Times(k.rdy, p) = (IF k.st[p] = "READY" THEN 1 ELSE 0)
          /\ Times(k.slp, p) = (IF k.st[p] \in {"SLEEP", "RECTIM"} THEN 1 ELSE 0)
          /\ Cardinality({s \in Sems : Times(sem[s].q, p) = 1}) = (IF k.st[p] = "WAIT" THEN 1 ELSE 0)
          /\ (k.st[p] = "CURR") <=> (p = k.cur)
    /\ \A s \in Sems : Len(sem[s].q) = (IF sem[s].n < 0 THEN -sem[s].n ELSE 0)
    /\ \A p \in Pids : todo[p].op = "recv" /\ k.st[p] \in {"CURR", "READY", "SUSP"} => mbox[p]

\* resched.c:9, "Reschedule processor to highest priority eligible process": between two
\* calls no ready process has a higher priority than the current one, until chprio has
\* been called, which reorders nothing.
RunsHighest == ~halted /\ reprio = 0 => \A p \in Pids : k.st[p] = "READY" => k.prio[p] <= k.prio[k.cur]

\* A delayed process waits exactly the time it asked for, whatever processes are put
\* before or behind it in the delta list, woken early by a message or killed.
SleepExact ==
    \A i \in DOMAIN k.slp :
        due[k.slp[i]] = LET S[j \in 0..i] == IF j = 0 THEN 0 ELSE S[j - 1] + k.key[k.slp[j]] IN S[i]

\* As long as no kill met another kill of the same process, prcount counts the processes
\* (a process whose kill has begun no longer counts), so the machine stops exactly when
\* the last user process exits.
Dying == {todo[p].pid : p \in {q \in Pids : todo[q].op = "kill"}}
PrcountExact == ~torn /\ ~halted => prcount = Cardinality({p \in Pids : k.st[p] # "FREE"} \ Dying)

=============================================================================
