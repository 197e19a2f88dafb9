------------------------------ MODULE HostTop ------------------------------
(***************************************************************************)
(* HDL/pnm_host_top.v: the masters, the arbiter and the result FIFO        *)
(* (HostPath) in front of the registers and the flit builder (HostBridge). *)
(* An access through the arbiter either reads the FIFO or works on the     *)
(* route registers, and neither side changes what the other looks at: the  *)
(* builder sees accesses in any order with a free cycle between two, the   *)
(* arbiter sees every access answered at once.  So the two sides are       *)
(* explored one at a time.                                                 *)
(***************************************************************************)
EXTENDS HostPath, HostBridge

VARIABLE side      \* the side explored: "path" or "bridge"

topVars == <<vars, bridgeVars, side>>

TopInit ==
    /\ Init /\ BridgeInit
    /\ \/ side = "bridge"
       \/ /\ side = "path" /\ route_dest = CHOOSE d \in Dest : TRUE
          /\ route_payload = [i \in 0..(Buf - 1) |-> CHOOSE b \in Data : TRUE]

TopNext ==
    \/ side = "path" /\ Next /\ UNCHANGED <<bridgeVars, side>>
    \/ side = "bridge" /\ BridgeNext /\ UNCHANGED <<vars, side>>

TopSpec == TopInit /\ [][TopNext]_topVars

TopFairSpec == TopSpec /\ WF_topVars(TopNext)

-----------------------------------------------------------------------------
TopTypeOK == TypeOK /\ BridgeTypeOK /\ side \in {"path", "bridge"}
=============================================================================
