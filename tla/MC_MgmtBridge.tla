--------------------------- MODULE MC_MgmtBridge ---------------------------
(***************************************************************************)
(* Buffers of two bytes, injected frames of three and payloads of none, of *)
(* five and of ten bytes: each buffer fills, wraps and empties, and holds  *)
(* less than a frame; the receive buffer overruns and its count wraps.     *)
(* With bytes of base 4 registers are four bits wide: LEN 5 uses both of   *)
(* its bytes, and 10 is the first whose 6 + LEN wraps.                     *)
(***************************************************************************)
EXTENDS MgmtBridge
=============================================================================
