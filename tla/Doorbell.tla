------------------------------ MODULE Doorbell ------------------------------
(***************************************************************************)
(* HDL/core/doorbell.v: a node's DMA engine parses the byte stream of its  *)
(* eject port (DEST, CTRL, LEN_LO, LEN_HI, payload, CRC_HI, CRC_LO) and    *)
(* gives a verdict, fire or refuse.  Its twin, VirtualUnit.Consume of      *)
(* sim/internal/pnm/virtual_units.go, judges the same packet as a whole.   *)
(*                                                                         *)
(* A byte has Base values and the CRC is any function from a register of   *)
(* two bytes and a byte to such a register, so that every packet there is  *)
(* up to a length can be enumerated.  Cycles without a valid byte change   *)
(* nothing and are left out.                                               *)
(***************************************************************************)
EXTENDS Integers, Sequences, SequencesExt

CONSTANTS Base,       \* byte values are 0..Base-1 (256)
          LOCAL_MODULE,
          CrcInit,    \* 16'hFFFF
          CrcStep,    \* crc16: CrcStep[crc, byte]
          MaxBytes,   \* bound: bytes of a packet
          Overlong    \* may a packet have more than LEN + 6 bytes?

ByteVal == 0..(Base - 1)
CrcVal  == 0..(Base * Base - 1)
Word(lo, hi) == lo + Base * hi

ASSUME DoorbellAssumption ==
    /\ Base \in Nat /\ Base >= 2
    /\ LOCAL_MODULE \in ByteVal
    /\ CrcInit \in CrcVal /\ CrcStep \in [CrcVal \X ByteVal -> CrcVal]
    /\ MaxBytes \in Nat \ {0} /\ Overlong \in BOOLEAN

VARIABLES p,         \* byte index in the current message
          len, crc, dest_l, crc_hi_r, in_msg,
          packet,    \* history: bytes of the current packet, up to its eop
          ended,     \* history: the last byte had eop
          verdicts   \* history: verdicts given since the packet's first byte

regs == <<p, len, crc, dest_l, crc_hi_r, in_msg>>
vars == <<regs, packet, ended, verdicts>>

(* virtual_units.go Consume: three conditions on the packet as landed.     *)
Crc(bytes) == FoldLeft(LAMBDA c, b : CrcStep[c, b], CrcInit, bytes)

Length(bytes) == IF Len(bytes) > 3 THEN Word(bytes[3], bytes[4]) ELSE 0

Consume(bytes) ==
    LET n == Len(bytes) IN
    /\ n = Length(bytes) + 6
    /\ Crc(SubSeq(bytes, 1, n - 2)) = Word(bytes[n], bytes[n - 1])
    /\ bytes[1] = LOCAL_MODULE

-----------------------------------------------------------------------------
Init == /\ p = 0 /\ len = 0 /\ crc = CrcInit /\ dest_l = 0 /\ crc_hi_r = 0
        /\ in_msg = FALSE
        /\ packet = <<>> /\ ended = TRUE /\ verdicts = <<>>

(* Mutant: the trailer is expected a byte late.                            *)
body_end_late == 5 + len
body_end == 4 + len

(* Verdicts given for a byte: none, or one.                                *)
None   == <<>>
Refuse == <<FALSE>>
Fire   == <<TRUE>>

(* Mutant: an empty frame arms the parser like any first byte.             *)
WatchArmed(b, eop, v) ==
    /\ ~in_msg
    /\ v = None /\ in_msg' = TRUE /\ p' = 1 /\ dest_l' = b
    /\ crc' = CrcStep[CrcInit, b]
    /\ UNCHANGED <<len, crc_hi_r>>

(* Mutant: the index is not restarted with the message.                    *)
WatchRunOn(b, eop, v) ==
    /\ ~in_msg
    /\ \/ eop /\ v = Refuse /\ UNCHANGED regs
       \/ /\ ~eop /\ v = None
          /\ in_msg' = TRUE /\ p' = p + 1 /\ dest_l' = b
          /\ crc' = CrcStep[CrcInit, b]
          /\ UNCHANGED <<len, crc_hi_r>>

(* The first byte of a message; alone it is an empty frame.                *)
Watch(b, eop, v) ==
    /\ ~in_msg
    /\ \/ eop /\ v = Refuse /\ UNCHANGED regs
       \/ /\ ~eop /\ v = None
          /\ in_msg' = TRUE /\ p' = 1 /\ dest_l' = b
          /\ crc' = CrcStep[CrcInit, b]
          /\ UNCHANGED <<len, crc_hi_r>>

(* eop before the last byte of the message: truncated.                     *)
Step(eop, v) == IF eop THEN v = Refuse /\ in_msg' = FALSE /\ p' = p
                       ELSE v = None /\ p' = p + 1 /\ in_msg' = TRUE

(* Header and payload.                                                     *)
Body(b, eop, v) ==
    /\ in_msg /\ p < body_end
    /\ len' = CASE p = 2 -> Word(b, len \div Base)
                [] p = 3 -> Word(len % Base, b)
                [] OTHER -> len
    /\ crc' = CrcStep[crc, b]
    /\ Step(eop, v)
    /\ UNCHANGED <<dest_l, crc_hi_r>>

CrcHi(b, eop, v) ==
    /\ in_msg /\ p = body_end
    /\ crc_hi_r' = b
    /\ Step(eop, v)
    /\ UNCHANGED <<len, crc, dest_l>>

(* The decision edge.                                                      *)
CrcLo(b, eop, v) ==
    /\ in_msg /\ p > body_end
    /\ v = IF eop /\ p = body_end + 1 /\ crc = Word(b, crc_hi_r) /\ dest_l = LOCAL_MODULE
           THEN Fire ELSE Refuse
    /\ in_msg' = FALSE
    /\ UNCHANGED <<p, len, crc, dest_l, crc_hi_r>>

(* What may arrive: any byte, and eop anywhere, but a packet that already  *)
(* has its LEN + 6 bytes goes on only if Overlong.                         *)
Arrives(bytes, eop) ==
    /\ Len(bytes) <= MaxBytes
    /\ Len(bytes) = MaxBytes => eop
    /\ ~Overlong /\ Len(bytes) >= 6 /\ Len(bytes) = Length(bytes) + 6 => eop

Byte(b, eop) ==
    LET so == IF ended THEN <<>> ELSE packet
        sv == IF ended THEN <<>> ELSE verdicts
    IN  /\ Arrives(Append(so, b), eop)
        /\ \E v \in {None, Refuse, Fire} :
              /\ Watch(b, eop, v) \/ Body(b, eop, v) \/ CrcHi(b, eop, v) \/ CrcLo(b, eop, v)
              /\ verdicts' = sv \o v
        /\ packet' = Append(so, b)
        /\ ended' = eop

Next == \E b \in ByteVal, eop \in BOOLEAN : Byte(b, eop)

Spec == Init /\ [][Next]_vars

-----------------------------------------------------------------------------
(* Properties                                                              *)

(* Registers hold values of their widths, and the byte index never passes  *)
(* the index of the message's last byte (doorbell.v msg_end).              *)
TypeOK == /\ p \in 0..(Base * Base + 4) /\ p <= body_end + 1
          /\ len \in 0..(Base * Base - 1) /\ crc \in CrcVal
          /\ dest_l \in ByteVal /\ crc_hi_r \in ByteVal /\ in_msg \in BOOLEAN

(* "Three-condition fire, implemented twice and kept in sync (doorbell.v   *)
(* and virtual_units.go Consume)" (docs/pnm.md): a packet gets exactly one *)
(* verdict from the streaming parser, by its last byte, and it is the one  *)
(* the twin gives to the whole packet, whatever packets came before it.    *)
VerdictsInSync == ended /\ packet # <<>> => verdicts = <<Consume(packet)>>

(* However a packet is malformed, its end leaves the parser watching for   *)
(* the next one ("refuse instead of wedging in_msg"): a bad packet never   *)
(* costs the verdict of the good one behind it.                            *)
NeverWedged == ended => ~in_msg
=============================================================================
