------------------------------ MODULE Network ------------------------------
(***************************************************************************)
(* The network components and the console in one specification: the initial *)
(* state chooses the component that runs, so that one model-checking run    *)
(* covers each of them with its own bounds.                                 *)
(***************************************************************************)
EXTENDS Net, Arp, Ip, Eth, NetBoot, Tty, TLC

VARIABLE part   \* the component that runs
layerVars == <<part, netVars, arpVars, ipVars, ethVars, bootVars, ttyVars>>

LayerInit ==
    /\ part \in {"udp", "arp", "ip", "ethernet", "boot", "console"}
    /\ NetInit /\ ArpInit /\ IpInit /\ EthInit /\ NetBootInit /\ TtyInit

LayerNext ==
    /\ \/ part = "udp" /\ NetNext /\ UNCHANGED <<arpVars, ipVars, ethVars, bootVars, ttyVars>>
       \/ part = "arp" /\ ArpNext /\ UNCHANGED <<netVars, ipVars, ethVars, bootVars, ttyVars>>
       \/ part = "ip" /\ IpNext /\ UNCHANGED <<netVars, arpVars, ethVars, bootVars, ttyVars>>
       \/ part = "ethernet" /\ EthNext /\ UNCHANGED <<netVars, arpVars, ipVars, bootVars, ttyVars>>
       \/ part = "boot" /\ NetBootNext /\ UNCHANGED <<netVars, arpVars, ipVars, ethVars, ttyVars>>
       \/ part = "console" /\ TtyNext /\ UNCHANGED <<netVars, arpVars, ipVars, ethVars, bootVars>>
    /\ UNCHANGED part

LayerSpec == LayerInit /\ [][LayerNext]_layerVars

-----------------------------------------------------------------------------
(* An instance's endpoints and peers, and its symmetry *)

EndpointPairs == {<<0, 1>>, <<1, 1>>}
PingedPairs == {<<1, 0>>, <<2, 0>>}
SenderPairs == {<<1, 1>>, <<2, 1>>}
Symmetry == Permutations(NetProcs)
=============================================================================
