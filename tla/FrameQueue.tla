----------------------------- MODULE FrameQueue -----------------------------
(***************************************************************************)
(* What the FIFO replacement policy promises, without the linked list: the *)
(* resident pages form a queue in the order they were loaded, newest       *)
(* first; the victim of an eviction is the oldest one; frames of a killed  *)
(* process leave from any position.                                        *)
(***************************************************************************)
EXTENDS Integers, Sequences, SequencesExt

CONSTANTS Frame, NoVictim
VARIABLES queue,     \* the frames of resident pages, newest first
          victim     \* the frame taken out for eviction, or NoVictim

vars == <<queue, victim>>

Init == queue = <<>> /\ victim = NoVictim

\* A page is loaded into a frame that was unused.
Load(f) ==
  /\ victim = NoVictim /\ f \notin ToSet(queue)
  /\ queue' = <<f>> \o queue
  /\ UNCHANGED victim

\* The oldest resident page is chosen for eviction.
Evict ==
  /\ victim = NoVictim /\ queue # <<>>
  /\ victim' = Last(queue)
  /\ queue' = Front(queue)

\* The victim's frame is used again, for a page or for a table.
Reuse ==
  /\ victim # NoVictim
  /\ victim' = NoVictim
  /\ queue' \in {queue, <<victim>> \o queue}

\* A frame of a killed process is given back.
Release(k) ==
  /\ queue' = RemoveAt(queue, k)
  /\ UNCHANGED victim

Next == \/ \E f \in Frame : Load(f)
        \/ Evict
        \/ Reuse
        \/ \E k \in DOMAIN queue : Release(k)

Spec == Init /\ [][Next]_vars
=============================================================================
