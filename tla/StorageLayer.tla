---------------------------- MODULE StorageLayer ----------------------------
(***************************************************************************)
(* The storage components in one specification: the initial state chooses   *)
(* the component that runs, so that one model-checking run covers each of   *)
(* them with its own bounds.                                                *)
(***************************************************************************)
EXTENDS RemoteDisk, RdsComm, Lfs, Rfs, Nam

VARIABLE part   \* the component that runs
layerVars == <<part, vars, commVars, lfsVars, rfsVars, namVars>>

LayerInit ==
    /\ part \in {"disk", "exchange", "local", "remote", "names"}
    /\ Init /\ CommInit /\ LfsInit /\ RfsInit /\ NamInit

LayerNext ==
    /\ \/ part = "disk" /\ Next /\ UNCHANGED <<commVars, lfsVars, rfsVars, namVars>>
       \/ part = "exchange" /\ CommNext /\ UNCHANGED <<vars, lfsVars, rfsVars, namVars>>
       \/ part = "local" /\ LfsNext /\ UNCHANGED <<vars, commVars, rfsVars, namVars>>
       \/ part = "remote" /\ RfsNext /\ UNCHANGED <<vars, commVars, lfsVars, namVars>>
       \/ part = "names" /\ NamNext /\ UNCHANGED <<vars, commVars, lfsVars, rfsVars>>
    /\ UNCHANGED part

LayerSpec == LayerInit /\ [][LayerNext]_layerVars

-----------------------------------------------------------------------------
(* The namespace of an instance: some of the configured devices, mounts with and without a   *)
(* replacement, strings at the limits of their fields and just over them                     *)

Devices == <<[name |-> <<"console">>, dev |-> "CONSOLE"], [name |-> <<"null", "dev">>, dev |-> "NULLDEV"],
             [name |-> <<"namespace">>, dev |-> "NAMESPACE"]>>
Widths == [s \in {"/", "~", ":", "dev", "null", "root", "local", "remote", "console", "namespace", "p63", "p64", "r95", "r96"} |->
              CASE s \in {"/", "~", ":"} -> 1 [] s = "dev" -> 3 [] s \in {"null", "root"} -> 4 [] s = "local" -> 5
                [] s = "remote" -> 6 [] s = "console" -> 7 [] s = "namespace" -> 9
                [] s = "p63" -> 63 [] s = "p64" -> 64 [] s = "r95" -> 95 [] s = "r96" -> 96]
MountPrefixes == {<<"p63">>, <<"p64">>, <<"/", "dev", "/", "console">>}
MountReplacements == {<<>>, <<"r95">>, <<"r96">>}
LookedUp == {<<"/", "dev", "/", "console">>, <<"/", "dev", "/", "null">>, <<"/", "dev", "/", "null", "dev">>,
             <<"/", "dev", "/", "namespace">>, <<"/", "dev", "/">>, <<"/", "local", "/", "root">>,
             <<"~", "/">>, <<"/", "root">>, <<"p63">>}
=============================================================================
