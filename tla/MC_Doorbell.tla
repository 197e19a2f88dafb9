----------------------------- MODULE MC_Doorbell ----------------------------
(***************************************************************************)
(* Binary bytes: LEN is 0..3, so every packet of up to nine bytes there is *)
(* is streamed, behind every other.                                        *)
(***************************************************************************)
EXTENDS Doorbell

MCCrcStep == [c \in CrcVal, b \in ByteVal |-> (3 * c + b + 1) % (Base * Base)]
=============================================================================
