------------------------------ MODULE Harness ------------------------------
(***************************************************************************)
(* The gateware and the programs that run it, side by side: the doorbell   *)
(* and the virtual unit that judges the same packets (Doorbell); the       *)
(* fabric with the harness that judges its logs (Cosim); real inference    *)
(* with routers and experts in gateware (RealInfer), whose decisions       *)
(* pnmgate -network then sends over the fabric.  They share no state, so a *)
(* behaviour is one of one of the three.                                   *)
(***************************************************************************)
EXTENDS Doorbell, Cosim, RealInfer

HarnessVars == <<vars, cosimVars, inferVars, asicVars>>

HarnessInit ==
  /\ Init /\ InferInit
  /\ \/ phase = "off" /\ Idle(CHOOSE j \in Jobs : TRUE)
     \/ CosimInit

HarnessNext ==
  \/ phase = "off" /\ session = 0 /\ Next /\ UNCHANGED <<cosimVars, inferVars, asicVars>>
  \/ CosimNext /\ UNCHANGED <<vars, inferVars, asicVars>>
  \/ phase = "off" /\ packet = <<>> /\ InferNext /\ UNCHANGED <<vars, cosimVars>>

HarnessSpec == HarnessInit /\ [][HarnessNext]_HarnessVars

-----------------------------------------------------------------------------
HarnessTypeOK == TypeOK /\ CosimTypeOK /\ InferTypeOK
=============================================================================
