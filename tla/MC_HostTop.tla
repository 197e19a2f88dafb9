----------------------------- MODULE MC_HostTop -----------------------------
(***************************************************************************)
(* A result FIFO of two bytes and four returned bytes: it fills, wraps,    *)
(* drops and empties while the two masters race for its head.  A payload   *)
(* buffer of three bytes, so packets carry zero, one or two, some staged   *)
(* for this packet and some left from an earlier one.                      *)
(***************************************************************************)
EXTENDS HostTop
=============================================================================
