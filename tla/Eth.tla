-------------------------------- MODULE Eth --------------------------------
(***************************************************************************)
(* The Ethernet driver: rings of descriptors shared with the device.  A     *)
(* descriptor belongs to the device while its OWN bit is set.  Processes    *)
(* wait for room (txsem) or for a frame (rxsem); the interrupt handler walks  *)
(* the rings and signals the semaphores.  Frames are numbered.              *)
(***************************************************************************)
EXTENDS Integers, Sequences, SequencesExt, FiniteSets, FiniteSetsExt

CONSTANTS TxRingSize, RxRingSize, \* descriptors in the rings
          ETH_NUM_MCAST,    \* multicast addresses the driver can hold
          Groups,           \* multicast addresses
          MaxFrames         \* bound: frames in each direction

ASSUME EthAssumption == {TxRingSize, RxRingSize} \subseteq Nat \ {0} /\ {ETH_NUM_MCAST, MaxFrames} \subseteq Nat

VARIABLES txRing, txHead, txTail, txsem,
          txDma,    \* device: next descriptor to transmit, last frame on the wire
          rxRing, rxHead, rxTail, rxsem,
          rxDma,    \* device: next descriptor to fill, frames received so far
          sr,       \* status register: interrupts pending
          mca,      \* ed_mca, the multicast addresses in use
          frames,   \* frames handed to ethwrite so far
          read,     \* frames ethread has returned
          full      \* history: the handler has found the whole receive ring unread

ethVars == <<txRing, txHead, txTail, txsem, txDma, rxRing, rxHead, rxTail, rxsem, rxDma, sr, mca, frames, read, full>>
txVars == <<txRing, txHead, txTail, txsem, txDma, frames>>
rxVars == <<rxRing, rxHead, rxTail, rxsem, rxDma, read, full>>

\* ethinit: the device owns every receive descriptor.
EthInit ==
    /\ txRing = [i \in 0..TxRingSize - 1 |-> [own |-> FALSE, frame |-> 0]]
    /\ txHead = 0 /\ txTail = 0 /\ txsem = TxRingSize
    /\ txDma = [next |-> 0, last |-> 0]
    /\ rxRing = [i \in 0..RxRingSize - 1 |-> [own |-> TRUE, frame |-> 0, dst |-> "us"]]
    /\ rxHead = 0 /\ rxTail = 0 /\ rxsem = 0
    /\ rxDma = [next |-> 0, last |-> 0]
    /\ sr = {} /\ mca = <<>> /\ frames = 0 /\ read = <<>> /\ full = FALSE

-----------------------------------------------------------------------------
\* ethwrite; its callers have interrupts disabled.
ethwrite ==
    /\ txsem > 0 /\ frames < MaxFrames
    /\ txsem' = txsem - 1
    /\ frames' = frames + 1
    /\ txRing' = [txRing EXCEPT ![txTail] = [own |-> TRUE, frame |-> frames']]
    /\ txTail' = (txTail + 1) % TxRingSize
    /\ UNCHANGED <<txHead, txDma, sr, mca, rxVars>>

\* The device transmits the next descriptor it owns and raises the interrupt.
DmaTransmit ==
    /\ txRing[txDma.next].own
    /\ txRing' = [txRing EXCEPT ![txDma.next].own = FALSE]
    /\ txDma' = [next |-> (txDma.next + 1) % TxRingSize, last |-> txRing[txDma.next].frame]
    /\ sr' = sr \cup {"TI"}
    /\ UNCHANGED <<txHead, txTail, txsem, mca, frames, rxVars>>

\* The descriptors the handler frees: from the head up to the tail or to one the device
\* still owns.  Head and tail are equal when the ring is empty, and when it is full.
\* Seeded bug: the handler does not look at the OWN bit.
TxReapedAll == {n \in 0..TxRingSize - 1 : \A i \in 0..n - 1 : (txHead + i) % TxRingSize # txTail}
TxReaped == {n \in 0..TxRingSize - 1 :
               \A i \in 0..n - 1 : LET d == (txHead + i) % TxRingSize IN d # txTail /\ ~txRing[d].own}
ethhandlerTx ==
    /\ "TI" \in sr
    /\ sr' = sr \ {"TI"}
    /\ txHead' = (txHead + Max(TxReaped)) % TxRingSize
    /\ txsem' = txsem + Max(TxReaped)
    /\ UNCHANGED <<txRing, txTail, txDma, mca, frames, rxVars>>

-----------------------------------------------------------------------------
\* A frame arrives: the device fills the next descriptor it owns and raises the interrupt,
\* or drops the frame when it owns none.
Unread == Cardinality({i \in DOMAIN rxRing : ~rxRing[i].own})
DmaReceive(dst) ==
    /\ rxDma.last < MaxFrames
    /\ rxRing[rxDma.next].own
    /\ rxRing' = [rxRing EXCEPT ![rxDma.next] = [own |-> FALSE, frame |-> rxDma.last + 1, dst |-> dst]]
    /\ rxDma' = [next |-> (rxDma.next + 1) % RxRingSize, last |-> rxDma.last + 1]
    /\ sr' = sr \cup {"RI"}
    /\ UNCHANGED <<rxHead, rxTail, rxsem, read, full, mca, txVars>>

\* The receive half of the handler, which runs when no transmit interrupt is pending: it
\* counts descriptors until one the device owns, or one more than the ring holds.
RxCounted == {n \in 0..RxRingSize + 1 : \A i \in 0..n - 1 : ~rxRing[(rxTail + i) % RxRingSize].own}
ethhandlerRx ==
    /\ "TI" \notin sr /\ "RI" \in sr
    /\ sr' = sr \ {"RI"}
    /\ rxTail' = (rxTail + Max(RxCounted)) % RxRingSize
    /\ rxsem' = rxsem + Max(RxCounted)
    /\ full' = (full \/ Unread = RxRingSize)
    /\ UNCHANGED <<rxRing, rxHead, rxDma, read, mca, txVars>>

\* One round of ethread: the frame at the head is returned if it is for this machine, and
\* its descriptor goes back to the device either way.
Accepted(d) == d.dst \in {"us", "bcast"} \cup Range(mca)
ethread ==
    /\ rxsem > 0
    /\ rxsem' = rxsem - 1
    /\ read' = IF Accepted(rxRing[rxHead]) THEN Append(read, rxRing[rxHead].frame) ELSE read
    /\ rxHead' = (rxHead + 1) % RxRingSize
    /\ rxRing' = [rxRing EXCEPT ![rxHead].own = TRUE]
    /\ UNCHANGED <<rxTail, rxDma, full, sr, mca, txVars>>

\* ethmcast_add appends while there is room, ethmcast_remove closes the gap.
ethmcast_add(g) ==
    /\ Len(mca) < ETH_NUM_MCAST
    /\ mca' = Append(mca, g)
    /\ UNCHANGED <<sr, txVars, rxVars>>
ethmcast_remove(g) ==
    /\ Contains(mca, g)
    /\ mca' = RemoveFirst(mca, g)
    /\ UNCHANGED <<sr, txVars, rxVars>>

ethcontrol(g) == ethmcast_add(g) \/ ethmcast_remove(g)

EthNext ==
    \/ ethwrite \/ DmaTransmit \/ ethhandlerTx
    \/ \E d \in {"us", "other"} \cup Groups : DmaReceive(d)
    \/ ethhandlerRx \/ ethread
    \/ \E g \in Groups : ethcontrol(g)

EthSpec == EthInit /\ [][EthNext]_ethVars

-----------------------------------------------------------------------------
\* Frames go out once each and in order: ethwrite never reuses a descriptor that the
\* device has not sent, so the frames waiting are those between the last one sent and the
\* last one written, and the room txsem promises is room in the ring.  Until the handler
\* runs with the whole ring unread, and counts one descriptor twice (ethhandler.c:91),
\* ethread returns a received frame once, in order, and never a descriptor the device
\* owns: the semaphore never counts more frames than there are unread.
RingsInOrder ==
    LET waiting == {i \in DOMAIN txRing : txRing[i].own}
    IN  /\ {txRing[i].frame : i \in waiting} = txDma.last + 1..frames
        /\ Cardinality(waiting) = frames - txDma.last
        /\ txsem <= TxRingSize - Cardinality(waiting)
        /\ ~full => /\ rxsem <= Unread
                    /\ \A i, j \in DOMAIN read : i < j => read[i] < read[j]

=============================================================================
