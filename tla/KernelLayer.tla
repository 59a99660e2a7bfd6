---------------------------- MODULE KernelLayer ----------------------------
(***************************************************************************)
(* The kernel's components in one specification: the initial state chooses  *)
(* the component that runs, so that one model-checking run covers each of   *)
(* them with its own bounds.                                                *)
(***************************************************************************)
EXTENDS Kernel, Memory, Ports, BackingStore

VARIABLE part   \* the component that runs
layerVars == <<part, kernelVars, memoryVars, portsVars, bsVars>>

LayerInit ==
    /\ part \in {"kernel", "memory", "ports", "stores"}
    /\ KernelInit /\ MemoryInit /\ PortsInit /\ BsInit

LayerNext ==
    /\ \/ part = "kernel" /\ KernelNext /\ UNCHANGED <<memoryVars, portsVars, bsVars>>
       \/ part = "memory" /\ MemoryNext /\ UNCHANGED <<kernelVars, portsVars, bsVars>>
       \/ part = "ports" /\ PortsNext /\ UNCHANGED <<kernelVars, memoryVars, bsVars>>
       \/ part = "stores" /\ BsNext /\ UNCHANGED <<kernelVars, memoryVars, portsVars>>
    /\ UNCHANGED part

LayerSpec == LayerInit /\ [][LayerNext]_layerVars
=============================================================================
