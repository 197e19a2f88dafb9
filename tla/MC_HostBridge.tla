---------------------------- MODULE MC_HostBridge ---------------------------
(***************************************************************************)
(* Three payload bytes of buffer, so packets carry zero, one or two bytes, *)
(* some staged for this packet and some left from an earlier one.          *)
(***************************************************************************)
EXTENDS HostBridge
=============================================================================
