--------------------------- MODULE Harness_proof ---------------------------
(***************************************************************************)
(* Theorems about the co-simulation harness and two of the parts it runs:  *)
(* the doorbell (Doorbell, a register bank with a Go twin), for every      *)
(* number of byte values, every CRC function and every bound on the length *)
(* of a packet; and real inference (RealInfer): what a decoded token       *)
(* attends to, and what the answer of a gating or node ASIC is the answer  *)
(* to.                                                                     *)
(***************************************************************************)
EXTENDS Harness, SequenceLemmas, FiniteSetTheorems, TLAPS

(***************************************************************************)
(* The doorbell                                                            *)
(*                                                                         *)
(* The streaming parser folds the CRC a byte at a time and its twin over   *)
(* the packet as landed; that the two agree rests on what FoldLeft does to *)
(* a sequence with one more element (SequenceLemmas).                      *)
(***************************************************************************)
(* Where the parser stands: while a packet is being received, the index    *)
(* counts its bytes, the registers that were written hold its header, and  *)
(* the CRC register has run over the bytes up to the trailer, whose first  *)
(* byte is kept aside.                                                     *)
Receiving ==
    /\ in_msg /\ verdicts = None
    /\ p = Len(packet) /\ p \in Nat \ {0}
    /\ dest_l = packet[1]
    /\ p = 3 => len % Base = packet[3]
    /\ p > 3 => len = Word(packet[3], packet[4])
    /\ p <= 4 + len => crc = Crc(packet)
    /\ p > 4 + len => crc = Crc(SubSeq(packet, 1, p - 1)) /\ crc_hi_r = packet[p]

-----------------------------------------------------------------------------
(* The CRC of a packet and of one with one more byte.                      *)
LEMMA CrcOfAppend ==
    ASSUME NEW bytes \in Seq(ByteVal), NEW b \in ByteVal
    PROVE  Crc(Append(bytes, b)) = CrcStep[Crc(bytes), b]
<1>1. Crc(bytes) = FoldOf(CrcStep, CrcInit, bytes)
  BY DEF Crc, FoldOf
<1>2. Crc(Append(bytes, b)) = FoldOf(CrcStep, CrcInit, Append(bytes, b))
  BY DEF Crc, FoldOf
<1>3. OneMore(CrcStep, CrcInit, bytes, b)
  BY FoldOfAppend
<1> QED BY <1>1, <1>2, <1>3 DEF OneMore

LEMMA CrcOfByte ==
    ASSUME NEW b \in ByteVal
    PROVE  Crc(<<b>>) = CrcStep[CrcInit, b]
<1>1. Crc(<<>>) = CrcInit
  <2>1. Crc(<<>>) = FoldOf(CrcStep, CrcInit, <<>>)
    BY DEF Crc, FoldOf
  <2> QED BY <2>1, FoldOfEmpty
<1>2. <<>> \in Seq(ByteVal) /\ Append(<<>>, b) = <<b>>
  OBVIOUS
<1>3. Crc(Append(<<>>, b)) = CrcStep[Crc(<<>>), b]
  BY <1>2, CrcOfAppend
<1> QED BY <1>1, <1>2, <1>3

-----------------------------------------------------------------------------
LEMMA SquareOfBase ==
    /\ Base * Base \in Nat /\ Base * Base >= Base
    /\ \A hi \in ByteVal, lo \in ByteVal : /\ Word(lo, hi) \in 0..(Base * Base - 1)
                                           /\ Word(lo, hi) % Base = lo
                                           /\ Word(lo, hi) \div Base = hi
<1>1. Base \in Nat \ {0} /\ Base >= 2
  BY DoorbellAssumption
<1>2. Base * Base \in Nat /\ Base * Base >= Base
  BY <1>1
<1>3. ASSUME NEW hi \in ByteVal, NEW lo \in ByteVal
      PROVE  /\ Word(lo, hi) \in 0..(Base * Base - 1)
             /\ Word(lo, hi) % Base = lo /\ Word(lo, hi) \div Base = hi
  <2>1. hi \in Nat /\ lo \in 0..(Base - 1) /\ hi <= Base - 1
    BY <1>1, <1>3 DEF ByteVal
  <2>2. Word(lo, hi) = Base * hi + lo /\ Base * hi \in Nat
    BY <1>1, <2>1 DEF Word
  <2>3. Base * hi <= Base * (Base - 1) /\ Base * (Base - 1) = Base * Base - Base
    BY <1>1, <2>1
  <2>4. (Base * hi + lo) % Base = lo /\ (Base * hi + lo) \div Base = hi
    BY <1>1, <2>1, DivModUnique
  <2> QED BY <1>1, <1>2, <2>1, <2>2, <2>3, <2>4
<1> QED BY <1>2, <1>3

LEMMA BytesOfWord ==
    ASSUME NEW n \in 0..(Base * Base - 1)
    PROVE  n % Base \in ByteVal /\ n \div Base \in ByteVal
<1>1. Base \in Nat \ {0} /\ n \in Nat /\ n < Base * Base
  BY DoorbellAssumption, SquareOfBase
<1>2. /\ n = Base * (n \div Base) + (n % Base)
      /\ n % Base \in 0..(Base - 1) /\ n \div Base \in Nat
  BY <1>1, DivMod
<1> DEFINE q == n \div Base
           r == n % Base
<1> HIDE DEF q, r
<1>3. q < Base
  <2>1. Base * q + r < Base * Base /\ q \in Nat /\ r \in 0..(Base - 1)
    BY <1>1, <1>2 DEF q, r
  <2>2. ASSUME q >= Base PROVE FALSE
    <3>1. Base * q >= Base * Base
      BY <1>1, <2>1, <2>2
    <3> QED BY <1>1, <2>1, <3>1
  <2> QED BY <1>1, <2>1, <2>2
<1> QED BY <1>1, <1>2, <1>3 DEF ByteVal, q, r

-----------------------------------------------------------------------------
LEMMA BodyWritesLen ==
    ASSUME NEW b, NEW eop, NEW v, Body(b, eop, v), p \in Nat
    PROVE  /\ p = 2 => len' = Word(b, len \div Base)
           /\ p = 3 => len' = Word(len % Base, b)
           /\ p # 2 /\ p # 3 => len' = len
<1>1. len' = CASE p = 2 -> Word(b, len \div Base)
               [] p = 3 -> Word(len % Base, b)
               [] OTHER -> len
  BY DEF Body
<1> QED BY <1>1

(* The registers keep their widths: LEN is written a half at a time, and   *)
(* the index stops at the end of the message even if LEN shrinks under it. *)
LEMMA StepKeepsTypes ==
    ASSUME TypeOK, NEW b \in ByteVal, NEW eop \in BOOLEAN, Byte(b, eop)
    PROVE  TypeOK'
<1>0. Base \in Nat /\ Base >= 2 /\ Base * Base \in Nat /\ Base * Base >= Base
  BY DoorbellAssumption, SquareOfBase
<1>1. /\ p \in Nat /\ len \in 0..(Base * Base - 1) /\ p <= 4 + len + 1
      /\ crc \in CrcVal /\ dest_l \in ByteVal /\ crc_hi_r \in ByteVal /\ in_msg \in BOOLEAN
  BY <1>0 DEF TypeOK, body_end
<1>2. PICK v \in {None, Refuse, Fire} :
          Watch(b, eop, v) \/ Body(b, eop, v) \/ CrcHi(b, eop, v) \/ CrcLo(b, eop, v)
  BY DEF Byte
<1>3. \A c \in CrcVal : CrcStep[c, b] \in CrcVal
  <2>1. CrcStep \in [CrcVal \X ByteVal -> CrcVal]
    BY DoorbellAssumption
  <2> TAKE c \in CrcVal
  <2>2. <<c, b>> \in CrcVal \X ByteVal
    OBVIOUS
  <2> QED BY <2>1, <2>2
<1>4. CASE Watch(b, eop, v)
  <2>1. CrcInit \in CrcVal
    BY DoorbellAssumption
  <2>2. /\ crc' \in CrcVal /\ dest_l' \in ByteVal /\ in_msg' \in BOOLEAN
        /\ len' = len /\ crc_hi_r' = crc_hi_r /\ p' \in {p, 1}
    BY <1>1, <1>3, <1>4, <2>1 DEF Watch, regs
  <2>3. p' \in 0..(Base * Base + 4) /\ p' <= 4 + len' + 1
    BY <1>0, <1>1, <2>2
  <2> QED BY <1>1, <2>2, <2>3 DEF TypeOK, body_end
<1>5. CASE Body(b, eop, v)
  <2>1. len' \in 0..(Base * Base - 1) /\ (p # 2 /\ p # 3 => len' = len)
    <3>1. len % Base \in ByteVal /\ len \div Base \in ByteVal
      BY <1>1, BytesOfWord
    <3>2. len' \in {Word(b, len \div Base), Word(len % Base, b), len}
      BY <1>1, <1>5, BodyWritesLen
    <3>3. p # 2 /\ p # 3 => len' = len
      BY <1>1, <1>5, BodyWritesLen
    <3> QED BY <1>1, <3>1, <3>2, <3>3, SquareOfBase
  <2>2. /\ crc' \in CrcVal /\ dest_l' = dest_l /\ crc_hi_r' = crc_hi_r
        /\ in_msg' \in BOOLEAN /\ p' \in {p, p + 1} /\ p < 4 + len
    BY <1>1, <1>3, <1>5 DEF Body, Step, body_end
  <2>3. p' \in 0..(Base * Base + 4) /\ p' <= 4 + len' + 1
    <3>1. PICK B \in Nat : B = Base * Base
      BY <1>0
    <3>2. p \in Nat /\ len \in 0..(B - 1) /\ len' \in 0..(B - 1) /\ p < 4 + len
      BY <1>1, <2>1, <2>2, <3>1
    <3>3. p' = p \/ p' = p + 1
      BY <2>2
    <3>4. p' \in 0..(B + 4)
      BY <3>2, <3>3
    <3>5. p' <= 4 + len' + 1
      <4>1. CASE p = 2 \/ p = 3
        BY <3>2, <3>3, <4>1
      <4>2. CASE p # 2 /\ p # 3
        BY <2>1, <3>2, <3>3, <4>2
      <4> QED BY <4>1, <4>2
    <3> QED BY <3>1, <3>4, <3>5
  <2> QED BY <1>1, <2>1, <2>2, <2>3 DEF TypeOK, body_end
<1>6. CASE CrcHi(b, eop, v)
  <2>1. /\ crc_hi_r' \in ByteVal /\ len' = len /\ crc' = crc /\ dest_l' = dest_l
        /\ in_msg' \in BOOLEAN /\ p' \in {p, p + 1} /\ p = 4 + len
    BY <1>6 DEF CrcHi, Step, body_end
  <2>2. p' \in 0..(Base * Base + 4) /\ p' <= 4 + len' + 1
    BY <1>0, <1>1, <2>1
  <2> QED BY <1>1, <2>1, <2>2 DEF TypeOK, body_end
<1>7. CASE CrcLo(b, eop, v)
  BY <1>7 DEF CrcLo, TypeOK, body_end
<1> QED BY <1>2, <1>4, <1>5, <1>6, <1>7

LEMMA InitTypes == Init => TypeOK
<1> SUFFICES ASSUME Init PROVE TypeOK
  OBVIOUS
<1>1. Base \in Nat /\ Base >= 2 /\ Base * Base \in Nat /\ Base * Base >= Base
  BY DoorbellAssumption, SquareOfBase
<1>2. CrcInit \in CrcVal
  BY DoorbellAssumption
<1>3. p = 0 /\ len = 0 /\ crc = CrcInit /\ dest_l = 0 /\ crc_hi_r = 0 /\ in_msg = FALSE
  BY DEF Init
<1>4. 0 \in ByteVal /\ 0 \in 0..(Base * Base + 4) /\ 0 \in 0..(Base * Base - 1)
  BY <1>1 DEF ByteVal
<1>5. p <= body_end + 1
  BY <1>3 DEF body_end
<1> QED BY <1>2, <1>3, <1>4, <1>5 DEF TypeOK

LEMMA TypesStep == TypeOK /\ [Next]_vars => TypeOK'
<1> SUFFICES ASSUME TypeOK, [Next]_vars PROVE TypeOK'
  OBVIOUS
<1>1. CASE Next
  BY <1>1, StepKeepsTypes DEF Next
<1>2. CASE UNCHANGED vars
  BY <1>2 DEF vars, regs, TypeOK, body_end
<1> QED BY <1>1, <1>2

(* The registers of the doorbell keep their widths, and the index never    *)
(* passes the last byte of the message (doorbell.v msg_end), although LEN  *)
(* is still being received while it advances.                              *)
THEOREM TypeCorrect == Spec => []TypeOK
<1> QED BY InitTypes, TypesStep, PTL DEF Spec

LEMMA EndLeavesWatching ==
    ASSUME NEW b \in ByteVal, NEW eop \in BOOLEAN, Byte(b, eop)
    PROVE  ended' => ~in_msg'
<1>1. PICK v \in {None, Refuse, Fire} :
          Watch(b, eop, v) \/ Body(b, eop, v) \/ CrcHi(b, eop, v) \/ CrcLo(b, eop, v)
  BY DEF Byte
<1>2. ended' = eop
  BY DEF Byte
<1>3. eop => ~in_msg'
  BY <1>1 DEF Watch, Body, CrcHi, CrcLo, Step, regs
<1> QED BY <1>2, <1>3

(* However a packet is malformed, its last byte leaves the parser watching *)
(* for the next one (doorbell.v: refuse instead of wedging in_msg).        *)
THEOREM NeverWedges == Spec => []NeverWedged
<1>1. Init => NeverWedged
  BY DEF Init, NeverWedged
<1>2. NeverWedged /\ [Next]_vars => NeverWedged'
  <2> SUFFICES ASSUME NeverWedged, [Next]_vars PROVE NeverWedged'
    OBVIOUS
  <2>1. CASE Next
    BY <2>1, EndLeavesWatching DEF Next, NeverWedged
  <2>2. CASE UNCHANGED vars
    BY <2>2 DEF vars, regs, NeverWedged
  <2> QED BY <2>1, <2>2
<1> QED BY <1>1, <1>2, PTL DEF Spec

-----------------------------------------------------------------------------
(* A packet as it is received and as it ends.                              *)
HistoryOK == /\ packet \in Seq(ByteVal) /\ ended \in BOOLEAN
             /\ verdicts \in {None, Refuse, Fire}
JudgeInv == /\ TypeOK /\ HistoryOK
            /\ ended => ~in_msg
            /\ ~ended => Receiving
            /\ VerdictsInSync

(* The first byte of a packet.                                             *)
LEMMA FirstByte ==
    ASSUME JudgeInv, NEW b \in ByteVal, NEW eop \in BOOLEAN, Byte(b, eop), ended
    PROVE  /\ HistoryOK' /\ ended' = eop
           /\ ~ended' => Receiving'
           /\ VerdictsInSync'
<1>1. PICK v \in {None, Refuse, Fire} : /\ Watch(b, eop, v) \/ Body(b, eop, v)
                                            \/ CrcHi(b, eop, v) \/ CrcLo(b, eop, v)
                                        /\ verdicts' = <<>> \o v
                                        /\ packet' = Append(<<>>, b) /\ ended' = eop
  BY DEF Byte
<1>2. verdicts' = v /\ packet' = <<b>>
  BY <1>1 DEF None, Refuse, Fire
<1>3. Watch(b, eop, v)
  BY <1>1 DEF JudgeInv, Body, CrcHi, CrcLo
<1>4. packet' \in Seq(ByteVal) /\ Len(packet') = 1 /\ packet'[1] = b
  BY <1>2
<1>5. CASE eop
  <2>1. v = Refuse
    BY <1>3, <1>5 DEF Watch, None, Refuse
  <2>2. ~Consume(packet')
    BY <1>4 DEF Consume, Length
  <2>3. Consume(packet') = FALSE
    BY <2>2 DEF Consume
  <2> QED BY <1>1, <1>2, <1>4, <1>5, <2>1, <2>3 DEF HistoryOK, VerdictsInSync, Refuse
<1>6. CASE ~eop
  <2>1. v = None /\ in_msg' /\ p' = 1 /\ dest_l' = b /\ crc' = CrcStep[CrcInit, b] /\ len' = len
    BY <1>3, <1>6 DEF Watch
  <2>2. len \in Nat
    BY SquareOfBase DEF JudgeInv, TypeOK
  <2>3. crc' = Crc(packet')
    BY <1>2, <2>1, CrcOfByte
  <2> QED BY <1>1, <1>2, <1>4, <1>6, <2>1, <2>2, <2>3 DEF HistoryOK, VerdictsInSync, Receiving
<1> QED BY <1>1, <1>5, <1>6

(* A later byte.  The one after which the parser closes the message is     *)
(* byte LEN + 6, and there the packet ends if it is not overlong.          *)
LEMMA LaterByte ==
    ASSUME ~Overlong, JudgeInv, NEW b \in ByteVal, NEW eop \in BOOLEAN, Byte(b, eop), ~ended
    PROVE  /\ HistoryOK' /\ ended' = eop
           /\ ~ended' => Receiving'
           /\ VerdictsInSync'
<1>1. PICK v \in {None, Refuse, Fire} : /\ Watch(b, eop, v) \/ Body(b, eop, v)
                                            \/ CrcHi(b, eop, v) \/ CrcLo(b, eop, v)
                                        /\ verdicts' = verdicts \o v
                                        /\ packet' = Append(packet, b) /\ ended' = eop
                                        /\ Arrives(Append(packet, b), eop)
  BY DEF Byte
<1>2. /\ in_msg /\ verdicts = None /\ p = Len(packet) /\ p \in Nat \ {0}
      /\ dest_l = packet[1] /\ (p = 3 => len % Base = packet[3])
      /\ (p > 3 => len = Word(packet[3], packet[4])) /\ packet \in Seq(ByteVal)
      /\ (p <= 4 + len => crc = Crc(packet))
      /\ (p > 4 + len => crc = Crc(SubSeq(packet, 1, p - 1)) /\ crc_hi_r = packet[p])
  BY DEF JudgeInv, Receiving, HistoryOK
<1>3. len \in 0..(Base * Base - 1) /\ len \in Nat /\ p <= 4 + len + 1
  BY SquareOfBase DEF JudgeInv, TypeOK, body_end
<1>4. verdicts' = v
  BY <1>1, <1>2 DEF None, Refuse, Fire
<1>5. /\ packet' \in Seq(ByteVal) /\ Len(packet') = p + 1 /\ packet'[p + 1] = b
      /\ \A i \in 1..p : packet'[i] = packet[i]
  BY <1>1, <1>2
<1>6. HistoryOK' /\ packet'[1] = packet[1]
  <2>1. packet'[1] = packet[1]
    <3>1. 1 \in 1..p
      BY <1>2
    <3> QED BY <1>5, <3>1, Zenon
  <2>2. ended' \in BOOLEAN /\ verdicts' \in {None, Refuse, Fire}
    BY <1>1, <1>4, Zenon
  <2> QED BY <1>5, <2>1, <2>2, Zenon DEF HistoryOK
<1>7. p > 3 => Length(packet') = len
  BY <1>2, <1>5 DEF Length
<1>8. Refuse # None /\ Fire # None /\ Refuse # Fire
  BY DEF Refuse, None, Fire
<1>w. \A lo \in ByteVal, hi \in ByteVal : Word(lo, hi) \in Nat
  BY SquareOfBase
<1>9. CASE Body(b, eop, v) \/ CrcHi(b, eop, v)
  <2>1. /\ dest_l' = dest_l /\ p <= 4 + len
        /\ IF eop THEN v = Refuse ELSE v = None /\ p' = p + 1 /\ in_msg'
    <3>1. CASE Body(b, eop, v)
      <4>1. p < 4 + len /\ dest_l' = dest_l /\ Step(eop, v)
        BY <3>1 DEF Body, body_end
      <4> QED BY <1>2, <1>3, <4>1 DEF Step
    <3>2. CASE CrcHi(b, eop, v)
      <4>1. p = 4 + len /\ dest_l' = dest_l /\ Step(eop, v)
        BY <3>2 DEF CrcHi, body_end
      <4> QED BY <1>2, <1>3, <4>1 DEF Step
    <3> QED BY <1>9, <3>1, <3>2
  <2>2. VerdictsInSync'
    <3>1. ASSUME eop PROVE Consume(packet') = FALSE
      <4>1. Len(packet') # Length(packet') + 6
        <5>1. CASE p > 3
          BY <1>2, <1>3, <1>5, <1>7, <2>1, <5>1
        <5>2. CASE p = 3
          <6>1. Length(packet') = Word(packet'[3], packet'[4]) /\ Len(packet') = 4
            BY <1>5, <5>2 DEF Length
          <6>2. packet'[3] \in ByteVal /\ packet'[4] \in ByteVal
            <7>1. PICK q : q = packet'
              OBVIOUS
            <7>2. q \in Seq(ByteVal) /\ Len(q) = 4
              BY <1>5, <5>2, <7>1
            <7>3. 3 \in 1..Len(q) /\ 4 \in 1..Len(q)
              BY <7>2
            <7>4. q[3] \in ByteVal /\ q[4] \in ByteVal
              BY <7>2, <7>3, ElementOfSeq, Zenon
            <7> QED BY <7>1, <7>4
          <6> QED BY <1>w, <6>1, <6>2
        <5>3. CASE p < 3
          BY <1>2, <1>5, <5>3 DEF Length
        <5> QED BY <1>2, <5>1, <5>2, <5>3
      <4> QED BY <4>1 DEF Consume
    <3> QED BY <1>1, <1>4, <2>1, <3>1 DEF VerdictsInSync, Refuse
  <2>3. ASSUME ~eop PROVE Receiving'
    <3>1. p + 1 = 3 => len' % Base = packet'[3]
      <4> SUFFICES ASSUME p = 2 PROVE len' % Base = packet'[3]
        BY <1>2
      <4>1. len' = Word(b, len \div Base)
        <5>1. Body(b, eop, v)
          BY <1>3, <1>9 DEF CrcHi, body_end
        <5> QED BY <1>2, <5>1, BodyWritesLen
      <4>2. len \div Base \in ByteVal
        BY <1>3, BytesOfWord
      <4>3. len' % Base = b
        BY <4>1, <4>2, SquareOfBase
      <4> QED BY <1>5, <4>3
    <3>2. p + 1 > 3 => len' = Word(packet'[3], packet'[4])
      <4>1. CASE p = 3
        <5>1. len' = Word(len % Base, b)
          <6>1. Body(b, eop, v)
            BY <1>3, <1>9, <4>1 DEF CrcHi, body_end
          <6> QED BY <1>2, <4>1, <6>1, BodyWritesLen
        <5>2. packet'[3] = packet[3] /\ packet'[4] = b
          BY <1>5, <4>1
        <5> QED BY <1>2, <4>1, <5>1, <5>2
      <4>2. CASE p > 3
        <5>1. len' = len
          <6>1. CASE Body(b, eop, v)
            <7>0. p \in Nat
              BY <1>2
            <7>1. p \in Nat /\ p # 2 /\ p # 3
              BY <4>2, <7>0
            <7> QED BY <6>1, <7>1, BodyWritesLen, Zenon
          <6>2. CASE CrcHi(b, eop, v)
            BY <6>2 DEF CrcHi
          <6> QED BY <1>9, <6>1, <6>2
        <5>2. packet'[3] = packet[3] /\ packet'[4] = packet[4]
          BY <1>2, <1>5, <4>2
        <5> QED BY <1>2, <4>2, <5>1, <5>2
      <4> QED BY <1>2, <4>1, <4>2
    <3>3. /\ p + 1 <= 4 + len' => crc' = Crc(packet')
          /\ p + 1 > 4 + len' => crc' = Crc(SubSeq(packet', 1, p)) /\ crc_hi_r' = packet'[p + 1]
      <4>1. CASE Body(b, eop, v)
        <5>1. crc' = CrcStep[crc, b] /\ p < 4 + len
          BY <4>1 DEF Body, body_end
        <5>2. crc' = Crc(packet')
          <6>1. Crc(packet') = CrcStep[Crc(packet), b]
            BY <1>1, <1>2, CrcOfAppend
          <6>2. crc = Crc(packet)
            <7>1. p <= 4 + len => crc = Crc(packet)
              BY <1>2, Zenon
            <7>2. p <= 4 + len
              BY <2>1
            <7> QED BY <7>1, <7>2
          <6> QED BY <5>1, <6>1, <6>2
        <5>3. p + 1 <= 4 + len'
          <6>1. len' \in Nat
            <7>1. len % Base \in ByteVal /\ len \div Base \in ByteVal
              BY <1>3, BytesOfWord
            <7>2. len' \in {Word(b, len \div Base), Word(len % Base, b), len}
              BY <1>2, <4>1, BodyWritesLen
            <7> QED BY <1>3, <1>w, <7>1, <7>2
          <6>2. p # 2 /\ p # 3 => len' = len
            BY <1>2, <4>1, BodyWritesLen
          <6>3. p \in Nat /\ p < 4 + len
            BY <1>2, <5>1
          <6>4. CASE p = 2 \/ p = 3
            BY <6>1, <6>4
          <6>5. CASE p # 2 /\ p # 3
            BY <1>3, <6>2, <6>3, <6>5
          <6> QED BY <6>4, <6>5
        <5>4. ~(p + 1 > 4 + len')
          <6>1. len' \in Nat
            <7>1. len % Base \in ByteVal /\ len \div Base \in ByteVal
              BY <1>3, BytesOfWord
            <7>2. len' \in {Word(b, len \div Base), Word(len % Base, b), len}
              BY <1>2, <4>1, BodyWritesLen
            <7> QED BY <1>3, <1>w, <7>1, <7>2
          <6> QED BY <1>2, <5>3, <6>1
        <5> QED BY <5>2, <5>4
      <4>2. CASE CrcHi(b, eop, v)
        <5>1. crc' = crc /\ crc_hi_r' = b /\ len' = len /\ p = 4 + len
          BY <4>2 DEF CrcHi, body_end
        <5>2. SubSeq(packet', 1, p) = packet
          BY <1>1, <1>2
        <5>3. crc = Crc(packet)
          BY <1>2, <1>3, <5>1
        <5>4. ~(p + 1 <= 4 + len')
          BY <1>3, <5>1
        <5> QED BY <1>5, <5>1, <5>2, <5>3, <5>4
      <4> QED BY <1>9, <4>1, <4>2
    <3>4. (p + 1) - 1 = p
      BY <1>2
    <3> QED BY <1>2, <1>4, <1>5, <1>6, <2>1, <2>3, <3>1, <3>2, <3>3, <3>4 DEF Receiving
  <2> QED BY <1>1, <1>6, <2>2, <2>3
<1>10. CASE CrcLo(b, eop, v)
  <2>1. p > 4 + len
    BY <1>10 DEF CrcLo, body_end
  <2>2. p = 5 + len /\ p > 3
    BY <1>2, <1>3, <2>1
  <2>3. Len(packet') = Length(packet') + 6 /\ Len(packet') >= 6
    BY <1>3, <1>5, <1>7, <2>2
  <2>4. eop
    BY <1>1, <2>3 DEF Arrives
  <2>5. v = IF crc = Word(b, crc_hi_r) /\ dest_l = LOCAL_MODULE THEN Fire ELSE Refuse
    <3>1. p = body_end + 1
      BY <1>3, <2>2 DEF body_end
    <3> QED BY <1>10, <2>4, <3>1 DEF CrcLo
  <2>6. Consume(packet') = (crc = Word(b, crc_hi_r) /\ dest_l = LOCAL_MODULE)
    <3> DEFINE n == Len(packet')
    <3>1. n = p + 1 /\ n - 2 = p - 1 /\ n - 1 = p
      BY <1>2, <1>5
    <3>2. SubSeq(packet', 1, p - 1) = SubSeq(packet, 1, p - 1)
      BY <1>1, <1>2
    <3>3. packet'[n] = b /\ packet'[n - 1] = crc_hi_r
      BY <1>2, <1>5, <2>1, <3>1
    <3>4. crc = Crc(SubSeq(packet', 1, n - 2))
      BY <1>2, <2>1, <3>1, <3>2
    <3>5. packet'[1] = dest_l
      BY <1>2, <1>6
    <3> QED BY <2>3, <3>3, <3>4, <3>5 DEF Consume
  <2>7. v = <<Consume(packet')>>
    BY <2>5, <2>6 DEF Fire, Refuse
  <2>8. VerdictsInSync'
    BY <1>4, <2>7 DEF VerdictsInSync
  <2> QED BY <1>1, <1>6, <2>4, <2>8
<1>11. ~Watch(b, eop, v)
  BY <1>2 DEF Watch
<1> QED BY <1>1, <1>9, <1>10, <1>11

(* A packet of no more than LEN + 6 bytes gets exactly one verdict, by its *)
(* last byte, and it is the one the twin gives to the packet as a whole    *)
(* (virtual_units.go Consume), for every CRC function and whatever packets *)
(* came before.                                                            *)
THEOREM JudgesLikeTheTwin ==
    ASSUME Overlong = FALSE PROVE Spec => []VerdictsInSync
<1>1. Init => JudgeInv
  <2> SUFFICES ASSUME Init PROVE JudgeInv
    OBVIOUS
  <2>1. TypeOK
    BY InitTypes
  <2>2. packet = <<>> /\ ended = TRUE /\ verdicts = <<>> /\ in_msg = FALSE
    BY DEF Init
  <2>3. HistoryOK
    BY <2>2 DEF HistoryOK, None
  <2> QED BY <2>1, <2>2, <2>3 DEF JudgeInv, VerdictsInSync
<1>2. JudgeInv /\ [Next]_vars => JudgeInv'
  <2> SUFFICES ASSUME JudgeInv, [Next]_vars PROVE JudgeInv'
    OBVIOUS
  <2>1. CASE Next
    <3>1. PICK b \in ByteVal, eop \in BOOLEAN : Byte(b, eop)
      BY <2>1 DEF Next
    <3>2. TypeOK'
      BY <3>1, StepKeepsTypes DEF JudgeInv
    <3>3. HistoryOK' /\ (~ended' => Receiving') /\ VerdictsInSync'
      <4>1. CASE ended
        BY <3>1, <4>1, FirstByte
      <4>2. CASE ~ended
        BY <3>1, <4>2, LaterByte
      <4> QED BY <4>1, <4>2
    <3>4. ended' => ~in_msg'
      BY <3>1, EndLeavesWatching
    <3> QED BY <3>2, <3>3, <3>4 DEF JudgeInv
  <2>2. CASE UNCHANGED vars
    BY <2>2 DEF vars, regs, JudgeInv, TypeOK, body_end, HistoryOK, Receiving, VerdictsInSync
  <2> QED BY <2>1, <2>2
<1>3. JudgeInv => VerdictsInSync
  BY DEF JudgeInv
<1> QED BY <1>1, <1>2, <1>3, PTL DEF Spec

(***************************************************************************)
(* Real inference                                                          *)
(***************************************************************************)
-----------------------------------------------------------------------------
(* Inference: the caches of the layers done with the position at hand are  *)
(* one longer than those of the others.                                    *)
CacheEntry == [pos : Nat, rot : Nat]
Output     == [tokens : Seq(Vocab), reasoning : Seq(Vocab), answer : Seq(Vocab), thinking : BOOLEAN]

Numbered(entries) == \A i \in DOMAIN entries : entries[i].pos = i - 1

Sees(view, l, t) ==
  LET lo == Lowest(l, t)
  IN  [i \in DOMAIN view.keys |-> view.keys[i].pos] = [i \in 1 .. t - lo + 1 |-> lo + i - 1]

Lengths ==
  /\ at.doing \in {"attend", "feed", "decode", "expert"} => at.layer \in LayerIds
  /\ at.doing \in {"attend", "feed"} =>
       \A l \in LayerIds : l < at.layer => Len(kv[l]) = cfg.len
  /\ at.doing = "sample" => \A l \in LayerIds : Len(kv[l]) = Len(kv[0])
  /\ at.doing \in {"decode", "expert"} => at.pos \in Nat
  /\ at.doing = "decode" =>
       \A l \in LayerIds : Len(kv[l]) = IF l < at.layer THEN at.pos + 1 ELSE at.pos
  /\ at.doing = "expert" =>
       \A l \in LayerIds : Len(kv[l]) = IF l <= at.layer THEN at.pos + 1 ELSE at.pos

CacheInv ==
  /\ cfg \in Sessions /\ prefPos \in Nat /\ kv \in [LayerIds -> Seq(CacheEntry)]
  /\ \A l \in LayerIds : Numbered(kv[l])
  /\ \A x \in DOMAIN views : Sees(views[x], x[1], x[2])
  /\ Lengths

-----------------------------------------------------------------------------
(* The requests.                                                           *)
Pcs == {"load", "announce", "wait", "read", "open", "close", "mark", "dead"}
Running == {"attend", "feed", "sample", "decode", "expert", "decide", "weights", "start",
            "starting", "run"}

IsList(s) == Len(s) \in Nat /\ s = [i \in 1 .. Len(s) |-> s[i]]

(* Every process and the client's table: a process that runs is the one    *)
(* its unit's client started last.                                         *)
ServersOK ==
  /\ IsList(servers)
  /\ \A pid \in DOMAIN servers :
       /\ DOMAIN servers[pid] = {"unit", "pc", "n", "weights", "input"}
       /\ servers[pid].unit \in Units /\ servers[pid].pc \in Pcs /\ servers[pid].n \in Nat
       /\ servers[pid].pc # "dead" => procs[servers[pid].unit] = <<pid>>

ProcsOK ==
  /\ procs \in [Units -> {NoProc} \cup { <<pid>> : pid \in DOMAIN servers }]
  /\ count \in [Units -> Nat]
  /\ \A u \in Units : \A pid \in DOMAIN servers : procs[u] = <<pid>> => servers[pid].unit = u

(* Which clients have a process at each stage.                             *)
StagesOK ==
  /\ at.doing \in {"idle", "boot", "await", "close"} \cup Running
  /\ at.doing = "idle" => \A u \in Units : procs[u] = NoProc
  /\ at.doing = "await" => at.layer \in GateUnits /\ procs[at.layer] # NoProc
  /\ at.doing \in Running => \A u \in GateUnits : procs[u] # NoProc
  /\ at.doing \notin {"starting", "run", "close"} => \A u \in NodeUnits : procs[u] = NoProc
  /\ at.doing \in {"weights", "start", "starting"} => at.layer \in NodeUnits
  /\ at.doing = "starting" => procs[at.layer] # NoProc

(* A request is under way only in a stage that waits for it, to a unit     *)
(* whose client has a process.                                             *)
CallOK ==
  /\ DOMAIN call = {"unit", "step", "input", "answer"}
  /\ call.step # "none" =>
       /\ at.doing \in {"feed", "expert", "decide", "run"}
       /\ at.doing = "feed" => Gated(at.layer, at.pos)
       /\ at.doing = "expert" => at.layer \in GateUnits
       /\ call.unit \in Units /\ procs[call.unit] # NoProc /\ call.input # Absent
  /\ call.step \in {"tidy", "returned"} => call.answer = <<cfg.model, call.unit, call.input>>

Asking(u) == call.step # "none" /\ call.unit = u
Posted(u) == Asking(u) /\ call.step \in {"poll", "parse", "tidy", "failed"}
Answer(u) == <<cfg.model, u, call.input>>

(* What the files say of a unit's client and of its process.               *)
MarkersOK(u, s) ==
  /\ \A f \in DOMAIN files : f[1] = u /\ f[2] = "done" => f[3] \in 0 .. s.n - 1
  /\ \A f \in DOMAIN files :
       f[1] = u /\ f[2] = "go" => f[3] \in 0 .. count[u] - 1 \/ (f[3] = count[u] /\ Posted(u))

ServedOK(u, s) ==
  /\ s.n = count[u] \/ (s.n = count[u] + 1 /\ Posted(u) /\ Content(<<u, "res", count[u]>>) = Answer(u))
  /\ (Asking(u) /\ call.step \in {"parse", "tidy"}) => s.n = count[u] + 1
  /\ s.pc \in {"read", "open", "close", "mark"} => s.n = count[u] /\ Posted(u)
  /\ s.pc \in {"open", "close", "mark"} => s.input = call.input
  /\ s.pc = "close" => <<u, "res", s.n>> \in DOMAIN files
  /\ s.pc = "mark" => Content(<<u, "res", s.n>>) = Answer(u)

InputOK(u) ==
  (Asking(u) /\ call.step \notin {"input", "returned"}) => Content(<<u, "in", count[u]>>) = call.input

WeightsOK(u, s) ==
  /\ Content(<<u, "w", 0>>) = cfg.model
  /\ s.pc \notin {"load", "dead"} => s.weights = cfg.model

UnitOK(u, pid) ==
  /\ MarkersOK(u, servers[pid]) /\ ServedOK(u, servers[pid])
  /\ InputOK(u) /\ WeightsOK(u, servers[pid])

(* A node's directory between its boot and its process's start.            *)
NodeOK ==
  /\ at.doing \in {"weights", "start"} => Markers(at.layer) = {} /\ count[at.layer] = 0
  /\ at.doing = "start" => Content(<<at.layer, "w", 0>>) = cfg.model

AsicInv ==
  /\ ServersOK /\ ProcsOK /\ StagesOK /\ CallOK /\ NodeOK
  /\ at.doing # "close" =>
       \A u \in Units : \A pid \in DOMAIN servers : procs[u] = <<pid>> => UnitOK(u, pid)

-----------------------------------------------------------------------------
(* Decoding computes the window prefill computes.                          *)
LEMMA SameWindow ==
    ASSUME NEW l, NEW n \in Nat
    PROVE  DecodeLowest(l, n) = Lowest(l, n) /\ Lowest(l, n) \in 0 .. n
  BY InferAssumption DEF DecodeLowest, Lowest

(* The view of a position, over entries that are numbered up to it.        *)
LEMMA ViewSees ==
    ASSUME NEW l, NEW t \in Nat, NEW rot, NEW e, e \in Seq(CacheEntry), Numbered(e), Len(e) > t
    PROVE  Sees(View(rot, e, Lowest(l, t), t), l, t)
<1> DEFINE lo == Lowest(l, t)
           keys == SubSeq(e, lo + 1, t + 1)
<1>1. lo \in 0 .. t /\ lo \in Int
  BY SameWindow
<1> HIDE DEF lo
<1>2. DOMAIN keys = 1 .. t - lo + 1
  BY <1>1
<1>3. ASSUME NEW i \in 1 .. t - lo + 1 PROVE keys[i].pos = lo + i - 1
  <2>1. keys[i] = e[lo + i]
    BY <1>1, <1>3
  <2>2. lo + i \in DOMAIN e
    BY <1>1, <1>3
  <2> QED BY <1>1, <1>3, <2>1, <2>2 DEF Numbered
<1>4. View(rot, e, lo, t).keys = keys
  BY DEF View
<1> HIDE DEF keys
<1>5. [i \in DOMAIN keys |-> keys[i].pos] = [i \in 1 .. t - lo + 1 |-> lo + i - 1]
  BY <1>2, <1>3
<1> QED BY <1>4, <1>5 DEF Sees, lo

LEMMA PrefillCache ==
    ASSUME NEW n \in Nat
    PROVE  LET e == [i \in 1 .. n |-> KvAt(i - 1, i - 1)]
           IN  e \in Seq(CacheEntry) /\ Numbered(e) /\ Len(e) = n
<1> DEFINE e == [i \in 1 .. n |-> KvAt(i - 1, i - 1)]
<1>1. \A i \in 1 .. n : e[i] \in CacheEntry /\ e[i].pos = i - 1
  BY DEF KvAt, CacheEntry
<1>2. e \in [1 .. n -> CacheEntry]
  BY <1>1
<1>3. e \in Seq(CacheEntry) /\ Len(e) = n
  BY <1>2
<1> QED BY <1>1, <1>2, <1>3 DEF Numbered

LEMMA CacheLonger ==
    ASSUME NEW e \in Seq(CacheEntry), Numbered(e), NEW rot \in Nat
    PROVE  LET f == Append(e, KvAt(Len(e), rot))
           IN  f \in Seq(CacheEntry) /\ Numbered(f) /\ Len(f) = Len(e) + 1
<1> DEFINE x == KvAt(Len(e), rot)
<1>1. x \in CacheEntry /\ x.pos = Len(e)
  BY DEF KvAt, CacheEntry
<1> HIDE DEF x
<1>2. \A i \in 1 .. Len(e) + 1 : Append(e, x)[i] = IF i <= Len(e) THEN e[i] ELSE x
  BY <1>1
<1>3. Append(e, x) \in Seq(CacheEntry) /\ Len(Append(e, x)) = Len(e) + 1
  BY <1>1
<1> QED BY <1>1, <1>2, <1>3 DEF Numbered, x

-----------------------------------------------------------------------------
LEMMA CacheInit == InferInit => CacheInv
<1> SUFFICES ASSUME InferInit PROVE CacheInv
  OBVIOUS
<1>1. cfg \in Sessions
  BY InferAssumption DEF InferInit
<1>2. kv \in [LayerIds -> Seq(CacheEntry)] /\ \A l \in LayerIds : DOMAIN kv[l] = {}
  BY DEF InferInit
<1> QED BY <1>1, <1>2 DEF InferInit, CacheInv, Numbered, Lengths, Stage

(* The steps that leave the caches and the views alone, by what they do to *)
(* the stage.                                                              *)
Quiet == {"boot", "await", "close", "decide", "weights", "start", "starting", "run"}

LEMMA CacheQuiet ==
    ASSUME CacheInv, UNCHANGED <<cfg, kv, prefPos, views>>,
           UNCHANGED at \/ at'.doing \in Quiet
    PROVE  CacheInv'
  BY DEF CacheInv, Lengths, Quiet

LEMMA CacheStep == CacheInv /\ InferNext => CacheInv'
<1> SUFFICES ASSUME CacheInv, InferNext PROVE CacheInv'
  OBVIOUS
<1> USE DEF Stage
<1>1. ASSUME Begin PROVE CacheInv'
  <2>1. kv' = [l \in LayerIds |-> <<>>] /\ views' = [x \in {} |-> 0] /\ prefPos' = 0
        /\ cfg' \in Sessions /\ at'.doing = "boot"
    BY <1>1 DEF Begin
  <2>2. kv' \in [LayerIds -> Seq(CacheEntry)] /\ \A l \in LayerIds : DOMAIN kv'[l] = {}
    BY <2>1
  <2> QED BY <2>1, <2>2 DEF CacheInv, Numbered, Lengths
<1>2. ASSUME \/ BootNext \/ Booted \/ BootFailed \/ PrefillFailed \/ DecodeFailed \/ Compose
             \/ ExpertDecided \/ NodeWeights \/ NodeStart \/ NodeReady \/ NodeLate \/ Composed
      PROVE CacheInv'
  <2>1. UNCHANGED <<cfg, kv, prefPos, views>> /\ at'.doing \in Quiet
    BY <1>2 DEF BootNext, Booted, BootFailed, PrefillFailed, DecodeFailed, Compose, Fails,
         ExpertDecided, NodeWeights, NodeStart, NodeReady, NodeLate, Composed, Quiet
  <2> QED BY <2>1, CacheQuiet
<1>3. ASSUME Close PROVE CacheInv'
  BY <1>3 DEF Close, CacheInv, Lengths
<1>4. ASSUME PrefillRoute \/ DecodeRoute \/ (Serve /\ UNCHANGED inferVars)
             \/ (Request(cfg.keep) /\ UNCHANGED inferVars)
      PROVE CacheInv'
  <2>1. UNCHANGED <<cfg, kv, prefPos, views>> /\ UNCHANGED at
    BY <1>4 DEF PrefillRoute, DecodeRoute, Routing, inferVars
  <2> QED BY <2>1, CacheQuiet
<1>5. ASSUME Ready PROVE CacheInv'
  <2>1. at'.doing = "attend" /\ at'.layer = 0 /\ UNCHANGED <<cfg, kv, prefPos, views>>
    BY <1>5 DEF Ready, Stage
  <2>2. 0 \in LayerIds /\ \A l \in LayerIds : ~(l < 0)
    BY InferAssumption DEF LayerIds
  <2>3. Lengths'
    BY <2>1, <2>2 DEF Lengths
  <2>4. \A x \in DOMAIN views' : Sees(views'[x], x[1], x[2])
    BY <2>1 DEF CacheInv
  <2> QED BY <2>1, <2>3, <2>4 DEF CacheInv
<1>6. ASSUME PrefillAttend PROVE CacheInv'
  <2> DEFINE l == at.layer
             e == [i \in 1 .. cfg.len |-> KvAt(i - 1, i - 1)]
             now == {l} \X (0 .. cfg.len - 1)
  <2>1. /\ at.doing = "attend" /\ at'.doing = "feed" /\ at'.layer = l
        /\ views' = [x \in DOMAIN views \cup now |->
                       IF x \in now THEN View(x[2], e, Lowest(l, x[2]), x[2]) ELSE views[x]]
        /\ UNCHANGED <<cfg, kv, prefPos>>
    BY <1>6 DEF PrefillAttend
  <2>2. cfg.len \in Nat
    BY InferAssumption DEF CacheInv
  <2>3. e \in Seq(CacheEntry) /\ Numbered(e) /\ Len(e) = cfg.len
    BY <2>2, PrefillCache
  <2> HIDE DEF e
  <2>4. \A x \in DOMAIN views' : Sees(views'[x], x[1], x[2])
    <3> TAKE x \in DOMAIN views'
    <3>1. CASE x \in now
      <4>1. x[1] = l /\ x[2] \in Nat /\ Len(e) > x[2]
        BY <2>2, <2>3, <3>1
      <4>2. views'[x] = View(x[2], e, Lowest(l, x[2]), x[2])
        BY <2>1, <3>1
      <4> QED BY <2>3, <4>1, <4>2, ViewSees
    <3>2. CASE x \notin now
      <4>1. x \in DOMAIN views /\ views'[x] = views[x]
        BY <2>1, <3>2
      <4> QED BY <4>1 DEF CacheInv
    <3> QED BY <3>1, <3>2
  <2> QED BY <2>1, <2>4 DEF CacheInv, Lengths
<1>7. ASSUME PrefillFeed \/ PrefillRouted PROVE CacheInv'
  <2>1. at.doing = "feed" /\ FedPosition /\ UNCHANGED <<cfg, views>>
    BY <1>7 DEF PrefillFeed, PrefillRouted
  <2>2. CASE at.pos < cfg.len - 1
    <3>1. at'.doing = "feed" /\ at'.layer = at.layer /\ UNCHANGED <<kv, prefPos>>
      BY <2>1, <2>2 DEF FedPosition
    <3> QED BY <2>1, <3>1 DEF CacheInv, Lengths
  <2>3. CASE ~(at.pos < cfg.len - 1)
    <3> DEFINE l == at.layer
               e == [i \in 1 .. cfg.len |-> KvAt(i - 1, i - 1)]
    <3>1. /\ kv' = [kv EXCEPT ![l] = e]
          /\ IF l = NumLayers - 1 THEN at'.doing = "sample" /\ prefPos' = cfg.len
             ELSE at'.doing = "attend" /\ at'.layer = l + 1 /\ prefPos' = prefPos
      BY <2>1, <2>3 DEF FedPosition, PrefillStore
    <3>2. cfg.len \in Nat
      BY InferAssumption DEF CacheInv
    <3>3. e \in Seq(CacheEntry) /\ Numbered(e) /\ Len(e) = cfg.len
      BY <3>2, PrefillCache
    <3> HIDE DEF e
    <3>4. l \in LayerIds /\ kv \in [LayerIds -> Seq(CacheEntry)]
          /\ \A k \in LayerIds : Numbered(kv[k]) /\ (k < l => Len(kv[k]) = cfg.len)
      BY <2>1 DEF CacheInv, Lengths
    <3>5. kv' \in [LayerIds -> Seq(CacheEntry)]
          /\ \A k \in LayerIds : kv'[k] = IF k = l THEN e ELSE kv[k]
      BY <3>1, <3>3, <3>4
    <3>6. \A k \in LayerIds : Numbered(kv'[k]) /\ (k <= l => Len(kv'[k]) = cfg.len)
      BY <3>3, <3>4, <3>5 DEF LayerIds
    <3>7. Lengths'
      <4>1. CASE l = NumLayers - 1
        <5>1. 0 \in LayerIds /\ \A k \in LayerIds : k <= l
          BY <4>1, InferAssumption DEF LayerIds
        <5>2. at'.doing = "sample"
          BY <3>1, <4>1
        <5> QED BY <3>6, <5>1, <5>2 DEF Lengths
      <4>2. CASE l # NumLayers - 1
        <5>1. l + 1 \in LayerIds /\ \A k \in LayerIds : k < l + 1 => k <= l
          BY <3>4, <4>2, InferAssumption DEF LayerIds
        <5>2. at'.doing = "attend" /\ at'.layer = l + 1 /\ cfg' = cfg
          BY <2>1, <3>1, <4>2
        <5> QED BY <3>6, <5>1, <5>2 DEF Lengths
      <4> QED BY <4>1, <4>2
    <3> QED BY <2>1, <3>1, <3>2, <3>5, <3>6, <3>7 DEF CacheInv
  <2> QED BY <2>2, <2>3
<1>8. ASSUME Sample PROVE CacheInv'
  <2>1. /\ at.doing = "sample" /\ UNCHANGED <<cfg, kv, prefPos, views>>
        /\ at'.doing = "close" \/ at' = Stage("decode", 0, Len(kv[0]))
    BY <1>8 DEF Sample
  <2>2. 0 \in LayerIds /\ \A l \in LayerIds : ~(l < 0)
    BY InferAssumption DEF LayerIds
  <2>3. kv[0] \in Seq(CacheEntry) /\ \A l \in LayerIds : Len(kv[l]) = Len(kv[0])
    BY <2>1, <2>2 DEF CacheInv, Lengths
  <2> QED BY <2>1, <2>2, <2>3 DEF CacheInv, Lengths
<1>9. ASSUME DecodeAttend PROVE CacheInv'
  <2> DEFINE l == at.layer
             n == Len(kv[l])
             e == Append(kv[l], KvAt(at.pos, prefPos))
  <2>1. /\ at.doing = "decode" /\ at' = Stage("expert", l, at.pos)
        /\ kv' = [kv EXCEPT ![l] = e] /\ prefPos' = n + 1
        /\ views' = [x \in DOMAIN views \cup {<<l, at.pos>>} |->
                       IF x = <<l, at.pos>> THEN View(prefPos, e, DecodeLowest(l, n), n)
                       ELSE views[x]]
        /\ UNCHANGED cfg
    BY <1>9 DEF DecodeAttend
  <2>2. /\ l \in LayerIds /\ kv \in [LayerIds -> Seq(CacheEntry)] /\ prefPos \in Nat
        /\ at.pos \in Nat /\ cfg \in Sessions
        /\ \A k \in LayerIds : /\ Numbered(kv[k])
                               /\ Len(kv[k]) = IF k < l THEN at.pos + 1 ELSE at.pos
    BY <2>1 DEF CacheInv, Lengths
  <2>3. n = at.pos
    BY <2>2 DEF LayerIds
  <2>4. e \in Seq(CacheEntry) /\ Numbered(e) /\ Len(e) = n + 1
    BY <2>2, <2>3, CacheLonger
  <2> HIDE DEF e, n
  <2>5. \A x \in DOMAIN views' : Sees(views'[x], x[1], x[2])
    <3> TAKE x \in DOMAIN views'
    <3>1. CASE x = <<l, at.pos>>
      <4>1. views'[x] = View(prefPos, e, Lowest(l, n), n)
        BY <2>1, <2>2, <2>3, <3>1, SameWindow
      <4>2. x[1] = l /\ x[2] = n /\ n \in Nat /\ Len(e) > n
        BY <2>2, <2>3, <2>4, <3>1
      <4> QED BY <2>4, <4>1, <4>2, ViewSees
    <3>2. CASE x # <<l, at.pos>>
      <4>1. x \in DOMAIN views /\ views'[x] = views[x]
        BY <2>1, <3>2
      <4> QED BY <4>1 DEF CacheInv
    <3> QED BY <3>1, <3>2
  <2>6. kv' \in [LayerIds -> Seq(CacheEntry)]
        /\ \A k \in LayerIds : kv'[k] = IF k = l THEN e ELSE kv[k]
    BY <2>1, <2>2, <2>4
  <2>7. \A k \in LayerIds : /\ Numbered(kv'[k])
                           /\ Len(kv'[k]) = IF k <= l THEN at.pos + 1 ELSE at.pos
    BY <2>2, <2>3, <2>4, <2>6 DEF LayerIds
  <2>8. at'.doing = "expert" /\ at'.layer = l /\ at'.pos = at.pos /\ prefPos' \in Nat
    BY <2>1, <2>2, <2>3
  <2> QED BY <2>1, <2>2, <2>5, <2>6, <2>7, <2>8 DEF CacheInv, Lengths
<1>10. ASSUME DecodeFeed \/ DecodeRouted PROVE CacheInv'
  <2>1. /\ at.doing = "expert" /\ UNCHANGED <<cfg, kv, prefPos, views>>
        /\ \/ at.layer < NumLayers - 1 /\ at' = Stage("decode", at.layer + 1, at.pos)
           \/ ~(at.layer < NumLayers - 1) /\ at'.doing \in {"sample", "close"}
    BY <1>10 DEF DecodeFeed, DecodeRouted, NextLayer
  <2>2. /\ at.layer \in LayerIds /\ at.pos \in Nat
        /\ \A l \in LayerIds : Len(kv[l]) = IF l <= at.layer THEN at.pos + 1 ELSE at.pos
    BY <2>1 DEF CacheInv, Lengths
  <2>3. CASE at.layer < NumLayers - 1
    <3>1. /\ at'.doing = "decode" /\ at'.layer = at.layer + 1 /\ at'.pos = at.pos
          /\ at.layer + 1 \in LayerIds
          /\ \A l \in LayerIds : l < at.layer + 1 <=> l <= at.layer
      BY <2>1, <2>2, <2>3, InferAssumption DEF LayerIds
    <3> QED BY <2>1, <2>2, <3>1 DEF CacheInv, Lengths
  <2>4. CASE ~(at.layer < NumLayers - 1)
    <3>1. 0 \in LayerIds /\ \A l \in LayerIds : l <= at.layer
      BY <2>2, <2>4, InferAssumption DEF LayerIds
    <3> QED BY <2>1, <2>2, <2>4, <3>1 DEF CacheInv, Lengths
  <2> QED BY <2>3, <2>4
<1> QED BY <1>1, <1>2, <1>3, <1>4, <1>5, <1>6, <1>7, <1>8, <1>9, <1>10 DEF InferNext

LEMMA CacheStutters == CacheInv /\ UNCHANGED <<inferVars, asicVars>> => CacheInv'
  BY DEF CacheInv, inferVars, Numbered, Sees, Lengths, Lowest, LayerIds, CacheEntry

(* A decoded token attends to the positions a prefill that ended with it   *)
(* would have attended to, in every layer, for every window and every      *)
(* number of layers, whichever of them are gated (real_infer.go prefill,   *)
(* forwardDecode).                                                         *)
THEOREM DecodesAsPrefilled == InferSpec => []DecodeSeesPrefill
<1>1. CacheInv => DecodeSeesPrefill
  BY DEF CacheInv, DecodeSeesPrefill, Numbered, Sees
<1> QED BY CacheInit, CacheStep, CacheStutters, <1>1, PTL DEF InferSpec

-----------------------------------------------------------------------------
(* Lists.                                                                  *)
LEMMA ListAppend ==
    ASSUME NEW s, IsList(s), NEW e
    PROVE  /\ IsList(Append(s, e)) /\ DOMAIN s = 1 .. Len(s)
           /\ DOMAIN Append(s, e) = 1 .. Len(s) + 1
           /\ Append(s, e)[Len(s) + 1] = e
           /\ \A i \in 1 .. Len(s) : Append(s, e)[i] = s[i]
<1> DEFINE S == { s[i] : i \in 1 .. Len(s) } \cup {e}
<1>1. Len(s) \in Nat /\ s \in [1 .. Len(s) -> S]
  BY DEF IsList
<1>2. s \in Seq(S) /\ e \in S
  BY <1>1, SeqDef
<1> HIDE DEF S
<1>3. Append(s, e) \in Seq(S) /\ Len(Append(s, e)) = Len(s) + 1
  BY <1>2
<1>4. Append(s, e) = [i \in 1 .. Len(Append(s, e)) |-> Append(s, e)[i]]
  <2> DEFINE a == Append(s, e)
  <2>1. a \in Seq(S)
    BY <1>3
  <2> HIDE DEF a
  <2>2. a \in [1 .. Len(a) -> S]
    BY <2>1, LenProperties
  <2>3. a = [i \in 1 .. Len(a) |-> a[i]]
    BY <2>2
  <2> QED BY <2>3 DEF a
<1> QED BY <1>1, <1>2, <1>3, <1>4 DEF IsList

LEMMA ListUpdate ==
    ASSUME NEW s, IsList(s), NEW t, t = [i \in DOMAIN s |-> t[i]]
    PROVE  IsList(t) /\ DOMAIN t = DOMAIN s
<1> DEFINE T == { t[i] : i \in DOMAIN s }
<1>1. Len(s) \in Nat /\ DOMAIN s = 1 .. Len(s)
  BY DEF IsList
<1>2. t \in [1 .. Len(s) -> T]
  BY <1>1
<1>3. t \in Seq(T) /\ Len(t) = Len(s)
  BY <1>1, <1>2, SeqDef
<1> QED BY <1>1, <1>3 DEF IsList

(* A step that touches no file of a unit, none of its client's counters,   *)
(* and asks it nothing.                                                    *)
SameFiles(u) ==
  \A f : f[1] = u => /\ f \in DOMAIN files' <=> f \in DOMAIN files
                     /\ f \in DOMAIN files => files'[f] = files[f]

LEMMA SameContent ==
    ASSUME NEW u, SameFiles(u), NEW kind, NEW n
    PROVE  Content(<<u, kind, n>>)' = Content(<<u, kind, n>>)
<1> DEFINE f == <<u, kind, n>>
<1>1. f[1] = u
  OBVIOUS
<1> HIDE DEF f
<1>2. Content(f)' = Content(f)
  BY <1>1 DEF SameFiles, Content
<1> QED BY <1>2 DEF f

LEMMA UnitFrame ==
    ASSUME NEW u, NEW pid, UnitOK(u, pid), SameFiles(u), servers'[pid] = servers[pid],
           count'[u] = count[u], cfg'.model = cfg.model,
           Posted(u)' = Posted(u), Asking(u)' = Asking(u),
           Asking(u) => call' = call
    PROVE  UnitOK(u, pid)'
<1>1. MarkersOK(u, servers[pid])'
  BY DEF UnitOK, MarkersOK, SameFiles
<1>2. \A kind, n : Content(<<u, kind, n>>)' = Content(<<u, kind, n>>)
  BY SameContent
<1> QED BY <1>1, <1>2 DEF UnitOK, MarkersOK, SameFiles, ServedOK, InputOK, WeightsOK, Answer, Posted, Asking

-----------------------------------------------------------------------------
(* The servers.  A process that runs is its unit's, so that what it writes *)
(* is in a directory whose client knows of it.                             *)
LEMMA Started == ASSUME NEW pid PROVE <<pid>> # NoProc
<1>1. Len(<<pid>>) = 1 /\ Len(<<>>) = 0
  OBVIOUS
<1> QED BY <1>1 DEF NoProc

(* A client's process is one that was started.                             *)
LEMMA ProcessKnown ==
    ASSUME ProcsOK, NEW v \in Units, NEW q, procs[v] = <<q>>
    PROVE  q \in DOMAIN servers
<1>1. procs[v] \in {NoProc} \cup { <<r>> : r \in DOMAIN servers }
  BY DEF ProcsOK
<1>2. procs[v] # NoProc
  BY Started
<1>3. PICK r \in DOMAIN servers : procs[v] = <<r>>
  BY <1>1, <1>2
<1>4. <<q>>[1] = <<r>>[1]
  BY <1>3
<1> QED BY <1>3, <1>4

ServerRec == {"unit", "pc", "n", "weights", "input"}

LEMMA ServerMoves ==
    ASSUME AsicInv, UNCHANGED <<inferVars, procs, count, call>>,
           NEW pid \in DOMAIN servers, NEW u, servers[pid].unit = u, servers[pid].pc # "dead",
           NEW t, servers' = [servers EXCEPT ![pid] = t],
           DOMAIN t = ServerRec, t.unit = u, t.pc \in Pcs, t.n \in Nat,
           \A v : v # u => SameFiles(v),
           at.doing # "close" => UnitOK(u, pid)'
    PROVE  AsicInv'
<1>1. u \in Units /\ procs[u] = <<pid>> /\ DOMAIN servers[pid] = ServerRec
  BY DEF AsicInv, ServersOK, ServerRec
<1>2. IsList(servers') /\ DOMAIN servers' = DOMAIN servers
  BY ListUpdate DEF AsicInv, ServersOK
<1>3. servers'[pid] = t /\ \A q \in DOMAIN servers : q # pid => servers'[q] = servers[q]
  OBVIOUS
<1>4. ServersOK'
  BY <1>1, <1>2, <1>3 DEF AsicInv, ServersOK, ServerRec
<1>5. ProcsOK'
  BY <1>2, <1>3 DEF AsicInv, ProcsOK
<1>6. StagesOK' /\ CallOK'
  BY DEF AsicInv, StagesOK, CallOK, Gated, inferVars
<1>7. NodeOK'
  <2>1. ASSUME at.doing \in {"weights", "start"} PROVE SameFiles(at.layer)
    <3>1. procs[at.layer] = NoProc
      BY <2>1 DEF AsicInv, StagesOK
    <3>2. at.layer # u
      BY <1>1, <3>1, Started
    <3> QED BY <3>2
  <2>2. ASSUME at.doing \in {"weights", "start"} PROVE Markers(at.layer)' = Markers(at.layer)
    BY <2>1, <2>2 DEF SameFiles, Markers, inferVars
  <2>3. ASSUME at.doing = "start"
        PROVE Content(<<at.layer, "w", 0>>)' = Content(<<at.layer, "w", 0>>)
    <3>1. PICK v : v = at.layer
      OBVIOUS
    <3>2. SameFiles(v)
      BY <2>1, <2>3, <3>1
    <3>3. Content(<<v, "w", 0>>)' = Content(<<v, "w", 0>>)
      BY <3>2, SameContent
    <3>4. at' = at
      BY DEF inferVars
    <3> QED BY <3>1, <3>3, <3>4
  <2> QED BY <2>2, <2>3 DEF AsicInv, NodeOK, inferVars
<1>8. ASSUME at'.doing # "close", NEW v \in Units, NEW q \in DOMAIN servers', procs'[v] = <<q>>
      PROVE  UnitOK(v, q)'
  <2>1. at.doing # "close" /\ q \in DOMAIN servers /\ procs[v] = <<q>>
    BY <1>2, <1>8 DEF inferVars
  <2>2. CASE q = pid
    <3>1. v = u
      BY <1>1, <1>2, <2>1, <2>2 DEF AsicInv, ProcsOK
    <3> QED BY <2>1, <2>2, <3>1
  <2>3. CASE q # pid
    <3>1. v # u /\ servers'[q] = servers[q]
      BY <1>1, <1>3, <2>1, <2>3
    <3>2. SameFiles(v) /\ UnitOK(v, q)
      BY <2>1, <3>1 DEF AsicInv
    <3>3. /\ count'[v] = count[v] /\ cfg'.model = cfg.model /\ call' = call
          /\ Posted(v)' = Posted(v) /\ Asking(v)' = Asking(v)
      BY DEF inferVars, Posted, Asking
    <3> QED BY <3>1, <3>2, <3>3, UnitFrame
  <2> QED BY <2>2, <2>3
<1> QED BY <1>2, <1>4, <1>5, <1>6, <1>7, <1>8 DEF AsicInv

(* A file of a unit leaves the other units' files as they are.             *)
LEMMA WrittenElsewhere ==
    ASSUME NEW u, NEW kind, NEW n, NEW content, NEW v, v # u,
           files' = Written(<<u, kind, n>>, content)
    PROVE  SameFiles(v)
<1> SUFFICES ASSUME NEW f, f[1] = v
             PROVE  /\ f \in DOMAIN files' <=> f \in DOMAIN files
                    /\ f \in DOMAIN files => files'[f] = files[f]
  BY DEF SameFiles
<1>1. f # <<u, kind, n>>
  OBVIOUS
<1> QED BY <1>1 DEF Written


LEMMA WrittenHere ==
    ASSUME NEW name, NEW content, files' = Written(name, content)
    PROVE  /\ DOMAIN files' = DOMAIN files \cup {name} /\ Content(name)' = content
           /\ \A f : f # name => Content(f)' = Content(f)
  BY DEF Written, Content

LEMMA ServeStep == AsicInv /\ Serve /\ UNCHANGED inferVars => AsicInv'
<1> SUFFICES ASSUME AsicInv, Serve, UNCHANGED inferVars PROVE AsicInv'
  OBVIOUS
<1>1. PICK pid \in DOMAIN servers :
        \/ LoadWeights(pid) \/ Announce(pid) \/ SeeRequest(pid) \/ ReadInput(pid)
        \/ OpenResult(pid) \/ CloseResult(pid) \/ MarkDone(pid) \/ ServerExit(pid)
  BY DEF Serve
<1>2. PICK s, u, c : s = servers[pid] /\ u = s.unit /\ c = count[u]
  OBVIOUS
<1>3. UNCHANGED <<procs, count, call>>
  BY DEF Serve
<1>4. /\ DOMAIN s = ServerRec /\ s.n \in Nat /\ u \in Units /\ c \in Nat
      /\ s.pc # "dead" => procs[u] = <<pid>>
  BY <1>2 DEF AsicInv, ServersOK, ProcsOK, ServerRec
<1>5. ASSUME at.doing # "close", s.pc # "dead"
      PROVE  MarkersOK(u, s) /\ ServedOK(u, s) /\ InputOK(u) /\ WeightsOK(u, s)
  BY <1>2, <1>4, <1>5 DEF AsicInv, UnitOK
<1>6. count'[u] = c /\ call' = call /\ cfg' = cfg /\ at' = at
  BY <1>2, <1>3 DEF inferVars
<1>7. Posted(u)' = Posted(u) /\ Asking(u)' = Asking(u) /\ Answer(u)' = Answer(u)
  BY <1>6 DEF Posted, Asking, Answer
(* The process goes on as t, and the unit's invariant holds again.         *)
<1>8. ASSUME NEW t, s.pc # "dead", servers' = [servers EXCEPT ![pid] = t],
             DOMAIN t = ServerRec, t.unit = u, t.pc \in Pcs, t.n \in Nat,
             \A v : v # u => SameFiles(v),
             at.doing # "close" =>
               MarkersOK(u, t)' /\ ServedOK(u, t)' /\ InputOK(u)' /\ WeightsOK(u, t)'
      PROVE  AsicInv'
  <2>1. servers'[pid] = t
    BY <1>8
  <2>2. at.doing # "close" => UnitOK(u, pid)'
    BY <1>8, <2>1 DEF UnitOK
  <2> QED BY <1>2, <1>3, <1>8, <2>2, ServerMoves
(* Steps that touch no file.                                               *)
<1>9. ASSUME UNCHANGED files
      PROVE  /\ \A v : SameFiles(v)
             /\ InputOK(u) => InputOK(u)'
             /\ \A f : Content(f)' = Content(f)
  BY <1>6, <1>7, <1>9, <1>2 DEF SameFiles, InputOK, Content, Asking
<1>10. CASE LoadWeights(pid)
  <2>1. PICK w : w = Content(<<u, "w", 0>>)
    OBVIOUS
  <2> DEFINE t == [s EXCEPT !.pc = "announce", !.weights = w]
  <2>2. /\ s.pc = "load" /\ UNCHANGED files
        /\ servers' = [servers EXCEPT ![pid] = t] /\ t.pc = "announce" /\ DOMAIN t = ServerRec
        /\ t.unit = u /\ t.n = s.n /\ t.weights = w /\ t.input = s.input
    BY <1>2, <1>4, <1>10, <2>1 DEF LoadWeights, ServerRec
  <2> HIDE DEF t
  <2>3. ASSUME at.doing # "close"
        PROVE MarkersOK(u, t)' /\ ServedOK(u, t)' /\ InputOK(u)' /\ WeightsOK(u, t)'
    <3>1. MarkersOK(u, s) /\ ServedOK(u, s) /\ InputOK(u) /\ WeightsOK(u, s)
      BY <1>5, <2>2, <2>3
    <3>2. MarkersOK(u, t)'
      BY <1>2, <1>6, <1>7, <2>2, <3>1 DEF MarkersOK
    <3>3. ServedOK(u, t)'
      BY <1>2, <1>6, <1>7, <1>9, <2>2, <3>1 DEF ServedOK
    <3>4. WeightsOK(u, t)'
      BY <1>6, <1>9, <2>1, <2>2, <3>1 DEF WeightsOK
    <3> QED BY <1>9, <2>2, <3>1, <3>2, <3>3, <3>4
  <2>4. \A v : SameFiles(v)
    BY <1>9, <2>2
  <2> QED BY <1>4, <1>8, <2>2, <2>3, <2>4 DEF Pcs
<1>11. CASE Announce(pid)
  <2> DEFINE t == [s EXCEPT !.pc = "wait"]
  <2>1. /\ s.pc = "announce" /\ files' = Written(<<u, "status", 0>>, "ready")
        /\ servers' = [servers EXCEPT ![pid] = t] /\ t.pc = "wait" /\ DOMAIN t = ServerRec
        /\ t.unit = u /\ t.n = s.n /\ t.weights = s.weights /\ t.input = s.input
    BY <1>2, <1>4, <1>11 DEF Announce, Goes, ServerRec
  <2> HIDE DEF t
  <2>2. DOMAIN files' = DOMAIN files \cup {<<u, "status", 0>>}
        /\ \A f : f # <<u, "status", 0>> => Content(f)' = Content(f)
    BY <2>1, WrittenHere
  <2>3. ASSUME at.doing # "close"
        PROVE MarkersOK(u, t)' /\ ServedOK(u, t)' /\ InputOK(u)' /\ WeightsOK(u, t)'
    <3>1. MarkersOK(u, s) /\ ServedOK(u, s) /\ InputOK(u) /\ WeightsOK(u, s)
      BY <1>5, <2>1, <2>3
    <3>2. MarkersOK(u, t)'
      BY <1>2, <1>6, <1>7, <2>1, <2>2, <3>1 DEF MarkersOK
    <3>3. ServedOK(u, t)'
      BY <1>2, <1>6, <1>7, <2>1, <2>2, <3>1 DEF ServedOK
    <3>4. InputOK(u)'
      BY <1>2, <1>6, <1>7, <2>2, <3>1 DEF InputOK
    <3>5. WeightsOK(u, t)'
      BY <1>6, <2>1, <2>2, <3>1 DEF WeightsOK
    <3> QED BY <3>2, <3>3, <3>4, <3>5
  <2>4. \A v : v # u => SameFiles(v)
    BY <2>1, WrittenElsewhere
  <2> QED BY <1>4, <1>8, <2>1, <2>3, <2>4 DEF Pcs
<1>12. CASE SeeRequest(pid)
  <2> DEFINE t == [s EXCEPT !.pc = "read"]
  <2>1. /\ s.pc = "wait" /\ UNCHANGED files /\ <<u, "go", s.n>> \in DOMAIN files
        /\ servers' = [servers EXCEPT ![pid] = t] /\ t.pc = "read" /\ DOMAIN t = ServerRec
        /\ t.unit = u /\ t.n = s.n /\ t.weights = s.weights /\ t.input = s.input
    BY <1>2, <1>4, <1>12 DEF SeeRequest, Goes, ServerRec, Named
  <2> HIDE DEF t
  <2>2. ASSUME at.doing # "close"
        PROVE MarkersOK(u, t)' /\ ServedOK(u, t)' /\ InputOK(u)' /\ WeightsOK(u, t)'
    <3>1. MarkersOK(u, s) /\ ServedOK(u, s) /\ InputOK(u) /\ WeightsOK(u, s)
      BY <1>5, <2>1, <2>2
    <3>2. s.n = c /\ Posted(u)
      BY <1>2, <1>4, <2>1, <3>1 DEF MarkersOK, ServedOK
    <3>3. MarkersOK(u, t)'
      BY <1>2, <1>6, <1>7, <2>1, <3>1 DEF MarkersOK
    <3>4. ServedOK(u, t)'
      BY <1>2, <1>6, <1>7, <1>9, <2>1, <3>1, <3>2 DEF ServedOK
    <3>5. WeightsOK(u, t)'
      BY <1>6, <1>9, <2>1, <3>1 DEF WeightsOK
    <3> QED BY <1>9, <2>1, <3>1, <3>3, <3>4, <3>5
  <2>3. \A v : SameFiles(v)
    BY <1>9, <2>1
  <2> QED BY <1>4, <1>8, <2>1, <2>2, <2>3 DEF Pcs
<1>13. CASE ReadInput(pid)
  <2>1. PICK got : got = Content(<<u, "in", s.n>>)
    OBVIOUS
  <2> DEFINE t == [s EXCEPT !.input = IF got = Absent THEN @ ELSE got, !.pc = "open"]
  <2>2. /\ s.pc = "read" /\ UNCHANGED files
        /\ servers' = [servers EXCEPT ![pid] = t] /\ t.pc = "open" /\ DOMAIN t = ServerRec
        /\ t.unit = u /\ t.n = s.n /\ t.weights = s.weights /\ (got # Absent => t.input = got)
    BY <1>2, <1>4, <1>13, <2>1 DEF ReadInput, ServerRec, Named
  <2> HIDE DEF t
  <2>3. ASSUME at.doing # "close"
        PROVE MarkersOK(u, t)' /\ ServedOK(u, t)' /\ InputOK(u)' /\ WeightsOK(u, t)'
    <3>1. MarkersOK(u, s) /\ ServedOK(u, s) /\ InputOK(u) /\ WeightsOK(u, s)
      BY <1>5, <2>2, <2>3
    <3>2. s.n = c /\ Posted(u)
      BY <1>2, <2>2, <3>1 DEF ServedOK
    <3>3. got = call.input /\ got # Absent
      BY <1>2, <2>1, <3>1, <3>2 DEF InputOK, Posted, Asking, AsicInv, CallOK
    <3>4. MarkersOK(u, t)'
      BY <1>2, <1>6, <1>7, <2>2, <3>1 DEF MarkersOK
    <3>5. ServedOK(u, t)'
      BY <1>2, <1>6, <1>7, <1>9, <2>2, <3>1, <3>2, <3>3 DEF ServedOK
    <3>6. WeightsOK(u, t)'
      BY <1>6, <1>9, <2>2, <3>1 DEF WeightsOK
    <3> QED BY <1>9, <2>2, <3>1, <3>4, <3>5, <3>6
  <2>4. \A v : SameFiles(v)
    BY <1>9, <2>2
  <2> QED BY <1>4, <1>8, <2>2, <2>3, <2>4 DEF Pcs
<1>14. CASE OpenResult(pid)
  <2> DEFINE t == [s EXCEPT !.pc = "close"]
  <2>1. /\ s.pc = "open" /\ files' = Written(<<u, "res", s.n>>, Unclosed)
        /\ servers' = [servers EXCEPT ![pid] = t] /\ t.pc = "close" /\ DOMAIN t = ServerRec
        /\ t.unit = u /\ t.n = s.n /\ t.weights = s.weights /\ t.input = s.input
    BY <1>2, <1>4, <1>14 DEF OpenResult, Goes, ServerRec, Named
  <2> HIDE DEF t
  <2>2. DOMAIN files' = DOMAIN files \cup {<<u, "res", s.n>>}
        /\ \A f : f # <<u, "res", s.n>> => Content(f)' = Content(f)
    BY <2>1, WrittenHere
  <2>3. ASSUME at.doing # "close"
        PROVE MarkersOK(u, t)' /\ ServedOK(u, t)' /\ InputOK(u)' /\ WeightsOK(u, t)'
    <3>1. MarkersOK(u, s) /\ ServedOK(u, s) /\ InputOK(u) /\ WeightsOK(u, s)
      BY <1>5, <2>1, <2>3
    <3>2. s.n = c /\ Posted(u)
      BY <1>2, <2>1, <3>1 DEF ServedOK
    <3>3. MarkersOK(u, t)'
      BY <1>2, <1>6, <1>7, <2>1, <2>2, <3>1 DEF MarkersOK
    <3>4. ServedOK(u, t)'
      BY <1>2, <1>4, <1>6, <1>7, <2>1, <2>2, <3>1, <3>2 DEF ServedOK
    <3>5. InputOK(u)'
      BY <1>2, <1>6, <1>7, <2>2, <3>1 DEF InputOK
    <3>6. WeightsOK(u, t)'
      BY <1>6, <2>1, <2>2, <3>1 DEF WeightsOK
    <3> QED BY <3>3, <3>4, <3>5, <3>6
  <2>4. \A v : v # u => SameFiles(v)
    BY <2>1, WrittenElsewhere
  <2> QED BY <1>4, <1>8, <2>1, <2>3, <2>4 DEF Pcs
<1>15. CASE CloseResult(pid)
  <2> DEFINE t == [s EXCEPT !.pc = "mark"]
             answer == <<s.weights, u, s.input>>
  <2>1. /\ s.pc = "close"
        /\ files' = IF <<u, "res", s.n>> \in DOMAIN files THEN Written(<<u, "res", s.n>>, answer)
                    ELSE files
        /\ servers' = [servers EXCEPT ![pid] = t] /\ t.pc = "mark" /\ DOMAIN t = ServerRec
        /\ t.unit = u /\ t.n = s.n /\ t.weights = s.weights /\ t.input = s.input
    BY <1>2, <1>4, <1>15 DEF CloseResult, Goes, ServerRec, Named
  <2> HIDE DEF t, answer
  <2>2. CASE <<u, "res", s.n>> \in DOMAIN files
    <3>1. files' = Written(<<u, "res", s.n>>, answer)
      BY <2>1, <2>2
    <3>2. DOMAIN files' = DOMAIN files \cup {<<u, "res", s.n>>}
          /\ Content(<<u, "res", s.n>>)' = answer
          /\ \A f : f # <<u, "res", s.n>> => Content(f)' = Content(f)
      BY <3>1, WrittenHere
    <3>3. ASSUME at.doing # "close"
          PROVE MarkersOK(u, t)' /\ ServedOK(u, t)' /\ InputOK(u)' /\ WeightsOK(u, t)'
      <4>1. MarkersOK(u, s) /\ ServedOK(u, s) /\ InputOK(u) /\ WeightsOK(u, s)
        BY <1>5, <2>1, <3>3
      <4>2. s.n = c /\ Posted(u)
        BY <1>2, <2>1, <4>1 DEF ServedOK
      <4>3. answer = Answer(u)
        BY <2>1, <4>1 DEF answer, Answer, WeightsOK, ServedOK
      <4>4. MarkersOK(u, t)'
        BY <1>2, <1>6, <1>7, <2>1, <3>2, <4>1 DEF MarkersOK
      <4>5. ServedOK(u, t)'
        BY <1>2, <1>4, <1>6, <1>7, <2>1, <3>2, <4>1, <4>2, <4>3 DEF ServedOK
      <4>6. InputOK(u)'
        BY <1>2, <1>6, <1>7, <3>2, <4>1 DEF InputOK
      <4>7. WeightsOK(u, t)'
        BY <1>6, <2>1, <3>2, <4>1 DEF WeightsOK
      <4> QED BY <4>4, <4>5, <4>6, <4>7
    <3>4. \A v : v # u => SameFiles(v)
      BY <3>1, WrittenElsewhere
    <3> QED BY <1>4, <1>8, <2>1, <3>3, <3>4 DEF Pcs
  <2>3. CASE <<u, "res", s.n>> \notin DOMAIN files
    <3>1. UNCHANGED files
      BY <2>1, <2>3
    <3>2. at.doing = "close"
      BY <1>5, <2>1, <2>3 DEF ServedOK
    <3>3. \A v : SameFiles(v)
      BY <1>9, <3>1
    <3> QED BY <1>4, <1>8, <2>1, <3>2, <3>3 DEF Pcs
  <2> QED BY <2>2, <2>3
<1>16. CASE MarkDone(pid)
  <2> DEFINE t == [s EXCEPT !.n = @ + 1, !.pc = "wait"]
  <2>1. /\ s.pc = "mark" /\ files' = Written(<<u, "done", s.n>>, "done")
        /\ servers' = [servers EXCEPT ![pid] = t] /\ t.pc = "wait" /\ DOMAIN t = ServerRec
        /\ t.unit = u /\ t.n = s.n + 1 /\ t.weights = s.weights /\ t.input = s.input
    BY <1>2, <1>4, <1>16 DEF MarkDone, ServerRec, Named
  <2> HIDE DEF t
  <2>2. DOMAIN files' = DOMAIN files \cup {<<u, "done", s.n>>}
        /\ \A f : f # <<u, "done", s.n>> => Content(f)' = Content(f)
    BY <2>1, WrittenHere
  <2>3. ASSUME at.doing # "close"
        PROVE MarkersOK(u, t)' /\ ServedOK(u, t)' /\ InputOK(u)' /\ WeightsOK(u, t)'
    <3>1. MarkersOK(u, s) /\ ServedOK(u, s) /\ InputOK(u) /\ WeightsOK(u, s)
      BY <1>5, <2>1, <2>3
    <3>2. s.n = c /\ Posted(u)
      BY <1>2, <2>1, <3>1 DEF ServedOK
    <3>3. MarkersOK(u, t)'
      <4>1. ASSUME NEW f \in DOMAIN files', f[1] = u, f[2] = "done" PROVE f[3] \in 0 .. t.n - 1
        BY <1>4, <2>1, <2>2, <3>1, <4>1 DEF MarkersOK
      <4>2. ASSUME NEW f \in DOMAIN files', f[1] = u, f[2] = "go"
            PROVE f[3] \in 0 .. c - 1 \/ (f[3] = c /\ Posted(u))
        BY <1>2, <2>2, <3>1, <4>2 DEF MarkersOK
      <4> QED BY <1>6, <1>7, <4>1, <4>2 DEF MarkersOK
    <3>4. ServedOK(u, t)'
      BY <1>2, <1>4, <1>6, <1>7, <2>1, <2>2, <3>1, <3>2 DEF ServedOK
    <3>5. InputOK(u)'
      BY <1>2, <1>6, <1>7, <2>2, <3>1 DEF InputOK
    <3>6. WeightsOK(u, t)'
      BY <1>6, <2>1, <2>2, <3>1 DEF WeightsOK
    <3> QED BY <3>3, <3>4, <3>5, <3>6
  <2>4. \A v : v # u => SameFiles(v)
    BY <2>1, WrittenElsewhere
  <2>5. t.n \in Nat /\ t.pc \in Pcs
    BY <1>4, <2>1 DEF Pcs
  <2> QED BY <1>8, <2>1, <2>3, <2>4, <2>5
<1>17. CASE ServerExit(pid)
  <2> DEFINE t == [s EXCEPT !.pc = "dead"]
  <2>1. /\ s.pc # "dead" /\ UNCHANGED files
        /\ servers' = [servers EXCEPT ![pid] = t] /\ t.pc = "dead" /\ DOMAIN t = ServerRec
        /\ t.unit = u /\ t.n = s.n /\ t.weights = s.weights /\ t.input = s.input
    BY <1>2, <1>4, <1>17 DEF ServerExit, Goes, ServerRec
  <2> HIDE DEF t
  <2>2. ASSUME at.doing # "close"
        PROVE MarkersOK(u, t)' /\ ServedOK(u, t)' /\ InputOK(u)' /\ WeightsOK(u, t)'
    <3>1. MarkersOK(u, s) /\ ServedOK(u, s) /\ InputOK(u) /\ WeightsOK(u, s)
      BY <1>5, <2>1, <2>2
    <3>2. MarkersOK(u, t)'
      BY <1>2, <1>6, <1>7, <2>1, <3>1 DEF MarkersOK
    <3>3. ServedOK(u, t)'
      BY <1>2, <1>6, <1>7, <1>9, <2>1, <3>1 DEF ServedOK
    <3>4. WeightsOK(u, t)'
      BY <1>6, <1>9, <2>1, <3>1 DEF WeightsOK
    <3> QED BY <1>9, <2>1, <3>1, <3>2, <3>3, <3>4
  <2>3. \A v : SameFiles(v)
    BY <1>9, <2>1
  <2> QED BY <1>4, <1>8, <2>1, <2>2, <2>3 DEF Pcs
<1> QED BY <1>1, <1>10, <1>11, <1>12, <1>13, <1>14, <1>15, <1>16, <1>17

-----------------------------------------------------------------------------
(* The client's requests, one file operation at a time.                    *)
CallRec == {"unit", "step", "input", "answer"}

LEMMA ClientMoves ==
    ASSUME AsicInv, UNCHANGED <<inferVars, servers, procs>>,
           NEW u, call.unit = u, call.step # "none",
           DOMAIN call' = CallRec, call'.unit = u, call'.step # "none", call'.input = call.input,
           call'.step \in {"tidy", "returned"} => call'.answer = Answer(u),
           count' \in [Units -> Nat], \A v \in Units : v # u => count'[v] = count[v],
           \A v : v # u => SameFiles(v),
           \A pid \in DOMAIN servers : procs[u] = <<pid>> => UnitOK(u, pid)'
    PROVE  AsicInv'
<1>1. ServersOK' /\ ProcsOK' /\ StagesOK'
  BY DEF AsicInv, ServersOK, ProcsOK, StagesOK, inferVars
<1>2. at.doing \in {"feed", "expert", "decide", "run"} /\ at' = at /\ cfg' = cfg
      /\ u \in Units /\ procs[u] # NoProc /\ call.input # Absent
  BY DEF AsicInv, CallOK, inferVars
<1>3. CallOK'
  BY <1>2 DEF AsicInv, CallOK, CallRec, Answer, Gated
<1>4. NodeOK'
  BY <1>2 DEF NodeOK
<1>5. ASSUME NEW v \in Units, NEW q \in DOMAIN servers', procs'[v] = <<q>>
      PROVE  UnitOK(v, q)'
  <2>1. CASE v = u
    BY <1>5, <2>1
  <2>2. CASE v # u
    <3>1. ~Asking(v) /\ Asking(v)' = Asking(v) /\ Posted(v)' = Posted(v)
      BY <2>2 DEF Asking, Posted
    <3>2. UnitOK(v, q) /\ SameFiles(v) /\ servers'[q] = servers[q] /\ count'[v] = count[v]
      BY <1>2, <1>5, <2>2 DEF AsicInv
    <3> QED BY <1>2, <3>1, <3>2, UnitFrame
  <2> QED BY <2>1, <2>2
<1> QED BY <1>1, <1>3, <1>4, <1>5 DEF AsicInv

LEMMA RemovedHere ==
    ASSUME NEW names, files' = Removed(names)
    PROVE  /\ DOMAIN files' = DOMAIN files \ names
           /\ \A f : f \notin names => Content(f)' = Content(f)
  BY DEF Removed, Content

LEMMA RemovedElsewhere ==
    ASSUME NEW u, NEW names, \A f \in names : f[1] = u, files' = Removed(names)
    PROVE  \A v : v # u => SameFiles(v)
  BY DEF Removed, SameFiles

LEMMA RequestStep == AsicInv /\ Request(cfg.keep) /\ UNCHANGED inferVars => AsicInv'
<1> SUFFICES ASSUME AsicInv, Request(cfg.keep), UNCHANGED inferVars PROVE AsicInv'
  OBVIOUS
<1>1. PICK u, c, from : u = call.unit /\ c = count[u] /\ from = call.step
  OBVIOUS
<1>2. UNCHANGED <<servers, procs>> /\ at' = at /\ cfg' = cfg
  BY DEF Request, inferVars
<1>3. from \in {"input", "unmark", "unanswer", "go", "poll", "parse", "tidy"}
  BY <1>1 DEF Request, WriteInput, RemoveDone, RemoveRes, WriteGo, SeeDone, RouteTimeout, Parse,
              Tidy, CallAt
<1>4. /\ DOMAIN call = CallRec /\ u \in Units /\ c \in Nat /\ procs[u] # NoProc
      /\ count \in [Units -> Nat] /\ at.doing # "close" /\ call.input # Absent
  BY <1>1, <1>3 DEF AsicInv, CallOK, ProcsOK, CallRec
<1>5. PICK pid \in DOMAIN servers : procs[u] = <<pid>> /\ \A q \in DOMAIN servers : procs[u] = <<q>> => q = pid
  <2>1. PICK pid \in DOMAIN servers : procs[u] = <<pid>>
    BY <1>4 DEF AsicInv, ProcsOK
  <2> QED BY <2>1
<1>6. PICK s : s = servers[pid]
  OBVIOUS
<1>7. s.n \in Nat /\ MarkersOK(u, s) /\ ServedOK(u, s) /\ InputOK(u) /\ WeightsOK(u, s)
  BY <1>4, <1>5, <1>6 DEF AsicInv, ServersOK, UnitOK
<1>8. Asking(u) /\ (Posted(u) <=> from \in {"poll", "parse", "tidy", "failed"})
  BY <1>1, <1>3 DEF Asking, Posted
(* The client goes on to step "to", and the unit's invariant holds again.  *)
<1>9. ASSUME NEW to, to # "none",
             DOMAIN call' = CallRec, call'.unit = u, call'.step = to, call'.input = call.input,
             to \in {"tidy", "returned"} => call'.answer = Answer(u),
             count' \in [Units -> Nat], \A v \in Units : v # u => count'[v] = count[v],
             \A v : v # u => SameFiles(v),
             MarkersOK(u, s)' /\ ServedOK(u, s)' /\ InputOK(u)' /\ WeightsOK(u, s)'
      PROVE  AsicInv'
  <2>1. servers'[pid] = s
    BY <1>2, <1>6
  <2>2. UnitOK(u, pid)'
    BY <1>9, <2>1 DEF UnitOK
  <2>3. \A q \in DOMAIN servers : procs[u] = <<q>> => UnitOK(u, q)'
    BY <1>5, <2>2
  <2>4. call.step # "none"
    BY <1>1, <1>3
  <2> QED BY <1>1, <1>2, <1>9, <2>3, <2>4, ClientMoves
<1>10. ASSUME NEW to, CallGoes(to)
       PROVE  /\ DOMAIN call' = CallRec /\ call'.unit = u /\ call'.step = to
              /\ call'.input = call.input /\ call'.answer = call.answer
              /\ to # "none" => /\ Asking(u)' /\ Answer(u)' = Answer(u)
                                /\ (Posted(u)' <=> to \in {"poll", "parse", "tidy", "failed"})
  BY <1>1, <1>2, <1>4, <1>10 DEF CallGoes, CallRec, Asking, Posted, Answer
<1>11. ASSUME UNCHANGED files PROVE \A v : SameFiles(v)
  BY <1>11 DEF SameFiles
<1>12. ASSUME UNCHANGED count PROVE count' \in [Units -> Nat] /\ count'[u] = c
                                    /\ \A v \in Units : v # u => count'[v] = count[v]
  BY <1>1, <1>4, <1>12
<1>13. CASE WriteInput /\ UNCHANGED count
  <2>1. from = "input" /\ CallGoes("unmark") /\ files' = Written(<<u, "in", c>>, call.input)
    BY <1>1, <1>13 DEF WriteInput, CallAt, InputFile
  <2>2. /\ DOMAIN files' = DOMAIN files \cup {<<u, "in", c>>}
        /\ Content(<<u, "in", c>>)' = call.input
        /\ \A f : f # <<u, "in", c>> => Content(f)' = Content(f)
    BY <2>1, WrittenHere
  <2>3. ~Posted(u) /\ ~Posted(u)' /\ count'[u] = c /\ Asking(u)' /\ call'.step = "unmark"
        /\ call'.input = call.input
    <3>1. call'.step = "unmark" /\ call'.input = call.input /\ Asking(u)'
          /\ (Posted(u)' <=> "unmark" \in {"poll", "parse", "tidy", "failed"})
      BY <1>10, <2>1
    <3> QED BY <1>8, <1>12, <1>13, <2>1, <3>1
  <2>4. MarkersOK(u, s)'
    BY <1>1, <1>7, <2>2, <2>3 DEF MarkersOK
  <2>5. ServedOK(u, s)'
    BY <1>1, <1>7, <2>2, <2>3 DEF ServedOK
  <2>6. InputOK(u)'
    BY <2>2, <2>3 DEF InputOK
  <2>7. WeightsOK(u, s)'
    BY <1>2, <1>7, <2>2 DEF WeightsOK
  <2>8. \A v : v # u => SameFiles(v)
    BY <2>1, WrittenElsewhere
  <2> QED BY <1>9, <1>10, <1>12, <1>13, <2>1, <2>4, <2>5, <2>6, <2>7, <2>8
<1>14. CASE (RemoveDone \/ RemoveRes) /\ UNCHANGED count
  <2>1. PICK kind \in {"done", "res"}, to \in {"unanswer", "go"} :
          /\ from \in {"unmark", "unanswer"} /\ CallGoes(to)
          /\ files' = Removed({<<u, kind, c>>})
    BY <1>1, <1>14 DEF RemoveDone, RemoveRes, CallAt, DoneFile, ResFile
  <2>2. /\ DOMAIN files' = DOMAIN files \ {<<u, kind, c>>}
        /\ \A f : f # <<u, kind, c>> => Content(f)' = Content(f)
    BY <2>1, RemovedHere
  <2>3. ~Posted(u) /\ ~Posted(u)' /\ count'[u] = c /\ Asking(u) /\ Asking(u)' /\ call'.step = to
        /\ call'.input = call.input
    BY <1>8, <1>10, <1>12, <1>14, <2>1
  <2>4. MarkersOK(u, s)'
    BY <1>1, <1>7, <2>2, <2>3 DEF MarkersOK
  <2>5. ServedOK(u, s)'
    BY <1>1, <1>7, <2>2, <2>3 DEF ServedOK
  <2>6. InputOK(u)'
    BY <1>1, <1>7, <2>1, <2>2, <2>3 DEF InputOK
  <2>7. WeightsOK(u, s)'
    BY <1>2, <1>7, <2>2 DEF WeightsOK
  <2>8. \A v : v # u => SameFiles(v)
    BY <2>1, RemovedElsewhere
  <2> QED BY <1>9, <1>10, <1>12, <1>14, <2>1, <2>4, <2>5, <2>6, <2>7, <2>8
<1>15. CASE WriteGo /\ UNCHANGED count
  <2>1. from = "go" /\ CallGoes("poll") /\ files' = Written(<<u, "go", c>>, Unclosed)
    BY <1>1, <1>15 DEF WriteGo, CallAt, GoFile
  <2>2. /\ DOMAIN files' = DOMAIN files \cup {<<u, "go", c>>}
        /\ \A f : f # <<u, "go", c>> => Content(f)' = Content(f)
    BY <2>1, WrittenHere
  <2>3. ~Posted(u) /\ Posted(u)' /\ count'[u] = c /\ Asking(u) /\ Asking(u)' /\ call'.step = "poll"
        /\ call'.input = call.input
    <3>1. call'.step = "poll" /\ call'.input = call.input /\ Asking(u)'
          /\ (Posted(u)' <=> "poll" \in {"poll", "parse", "tidy", "failed"})
      BY <1>10, <2>1
    <3> QED BY <1>8, <1>12, <1>15, <2>1, <3>1
  <2>4. MarkersOK(u, s)'
    BY <1>1, <1>7, <2>2, <2>3 DEF MarkersOK
  <2>5. ServedOK(u, s)'
    BY <1>1, <1>7, <2>2, <2>3 DEF ServedOK
  <2>6. InputOK(u)'
    BY <1>1, <1>7, <2>1, <2>2, <2>3 DEF InputOK
  <2>7. WeightsOK(u, s)'
    BY <1>2, <1>7, <2>2 DEF WeightsOK
  <2>8. \A v : v # u => SameFiles(v)
    BY <2>1, WrittenElsewhere
  <2> QED BY <1>9, <1>10, <1>12, <1>15, <2>1, <2>4, <2>5, <2>6, <2>7, <2>8
<1>16. CASE (SeeDone \/ RouteTimeout \/ Parse) /\ UNCHANGED count
  <2>1. from \in {"poll", "parse"} /\ UNCHANGED files
    BY <1>1, <1>16 DEF SeeDone, RouteTimeout, Parse, CallAt
  <2>2. Content(<<u, "res", c>>) = Answer(u) \/ from # "parse"
    BY <1>1, <1>7, <1>8 DEF ServedOK
  <2>3. PICK to \in {"parse", "failed", "tidy"} :
          /\ DOMAIN call' = CallRec /\ call'.unit = u /\ call'.step = to
          /\ call'.input = call.input
          /\ to = "tidy" => from = "parse" /\ call'.answer = Answer(u)
          /\ to = "parse" => <<u, "done", c>> \in DOMAIN files
    <3>1. CASE SeeDone
      BY <1>1, <1>10, <3>1 DEF SeeDone, DoneFile
    <3>2. CASE RouteTimeout
      BY <1>1, <1>10, <3>2 DEF RouteTimeout
    <3>3. CASE Parse
      <4>1. from = "parse"
        BY <1>1, <3>3 DEF Parse, CallAt
      <4>2. \/ call' = [call EXCEPT !.step = "failed"]
            \/ call' = [call EXCEPT !.step = "tidy", !.answer = Content(<<u, "res", c>>)]
        BY <1>1, <3>3 DEF Parse, ResFile
      <4> QED BY <1>1, <1>4, <2>2, <4>1, <4>2 DEF CallRec
    <3> QED BY <1>16, <3>1, <3>2, <3>3
  <2>4. Posted(u) /\ Posted(u)' /\ Asking(u) /\ Asking(u)' /\ count'[u] = c /\ Answer(u)' = Answer(u)
    BY <1>2, <1>8, <1>12, <1>16, <2>1, <2>3 DEF Posted, Asking, Answer
  <2>5. \A f : Content(f)' = Content(f)
    BY <2>1 DEF Content
  <2>6. to \in {"parse", "tidy"} => s.n = c + 1
    <3>1. CASE to = "parse"
      <4>1. <<u, "done", c>>[1] = u /\ <<u, "done", c>>[2] = "done" /\ <<u, "done", c>>[3] = c
        OBVIOUS
      <4>2. c \in 0 .. s.n - 1
        BY <1>7, <2>3, <3>1, <4>1 DEF MarkersOK
      <4> QED BY <1>1, <1>4, <1>7, <4>2 DEF ServedOK
    <3>2. CASE to = "tidy"
      BY <1>1, <1>7, <1>8, <2>3, <3>2 DEF ServedOK
    <3> QED BY <3>1, <3>2
  <2>7. MarkersOK(u, s)'
    BY <1>1, <1>7, <2>1, <2>4 DEF MarkersOK
  <2>8. ServedOK(u, s)'
    BY <1>1, <1>7, <2>1, <2>3, <2>4, <2>5, <2>6 DEF ServedOK
  <2>9. InputOK(u)' /\ WeightsOK(u, s)'
    BY <1>1, <1>2, <1>7, <2>1, <2>3, <2>4, <2>5 DEF InputOK, WeightsOK
  <2>10. \A v : SameFiles(v)
    BY <1>11, <2>1
  <2> QED BY <1>9, <1>12, <1>16, <2>3, <2>7, <2>8, <2>9, <2>10
<1>17. CASE Tidy(cfg.keep)
  <2> DEFINE gone == {<<u, "in", c>>, <<u, "go", c>>, <<u, "res", c>>, <<u, "done", c>>}
  <2>1. from = "tidy" /\ CallGoes("returned") /\ count' = [count EXCEPT ![u] = @ + 1]
        /\ (files' = files \/ files' = Removed(gone))
    BY <1>1, <1>17 DEF Tidy, CallAt, InputFile, GoFile, ResFile, DoneFile
  <2>2. /\ DOMAIN files' \subseteq DOMAIN files
        /\ \A f : f \notin gone => Content(f)' = Content(f)
        /\ \A v : v # u => SameFiles(v)
    <3>1. CASE files' = files
      BY <1>11, <3>1 DEF Content
    <3>2. CASE files' = Removed(gone)
      <4>1. \A f \in gone : f[1] = u
        OBVIOUS
      <4> HIDE DEF gone
      <4> QED BY <3>2, <4>1, RemovedHere, RemovedElsewhere
    <3> QED BY <2>1, <3>1, <3>2
  <2>3. /\ s.n = c + 1 /\ Posted(u) /\ ~Posted(u)' /\ Asking(u)' /\ call'.step = "returned"
        /\ call.answer = Answer(u) /\ call'.answer = call.answer
    <3>1. /\ call'.step = "returned" /\ Asking(u)' /\ call'.answer = call.answer
          /\ (Posted(u)' <=> "returned" \in {"poll", "parse", "tidy", "failed"})
      BY <1>10, <2>1
    <3>2. s.n = c + 1 /\ Posted(u)
      BY <1>1, <1>7, <1>8, <2>1 DEF ServedOK
    <3>3. call.answer = Answer(u)
      BY <1>1, <2>1 DEF AsicInv, CallOK, Answer
    <3> QED BY <3>1, <3>2, <3>3
  <2>4. count'[u] = c + 1 /\ count' \in [Units -> Nat]
        /\ \A v \in Units : v # u => count'[v] = count[v]
    BY <1>1, <1>4, <2>1
  <2>5. MarkersOK(u, s)'
    BY <1>1, <1>4, <1>7, <2>2, <2>3, <2>4 DEF MarkersOK
  <2>6. ServedOK(u, s)'
    BY <1>1, <1>4, <1>7, <2>2, <2>3, <2>4 DEF ServedOK
  <2>7. InputOK(u)'
    BY <2>3 DEF InputOK
  <2>8. WeightsOK(u, s)'
    BY <1>2, <1>7, <2>2 DEF WeightsOK
  <2> QED BY <1>9, <1>10, <2>1, <2>2, <2>3, <2>4, <2>5, <2>6, <2>7, <2>8
<1> QED BY <1>13, <1>14, <1>15, <1>16, <1>17 DEF Request

-----------------------------------------------------------------------------
(* The other steps.                                                        *)
LEMMA AsicInitial == InferInit => AsicInv
<1> SUFFICES ASSUME InferInit PROVE AsicInv
  OBVIOUS
<1>1. /\ servers = <<>> /\ files = <<>> /\ procs = [u \in Units |-> NoProc]
      /\ count = [u \in Units |-> 0] /\ call = NoCall
      /\ at.doing = "idle"
  BY DEF InferInit, AsicInit, Stage
<1>2. IsList(servers) /\ DOMAIN servers = {}
  BY <1>1 DEF IsList
<1>3. ServersOK /\ ProcsOK /\ StagesOK
  <2>1. ServersOK
    BY <1>2 DEF ServersOK
  <2>2. ProcsOK
    BY <1>1, <1>2 DEF ProcsOK
  <2>3. \A u \in GateUnits \cup NodeUnits : procs[u] = NoProc
    BY <1>1 DEF Units
  <2>4. StagesOK
    BY <1>1, <2>3 DEF StagesOK, Running, Units
  <2> QED BY <2>1, <2>2, <2>4
<1>4. CallOK /\ NodeOK
  BY <1>1 DEF CallOK, NoCall, NodeOK
<1> QED BY <1>2, <1>3, <1>4 DEF AsicInv

(* Steps that leave the directories and the processes alone, by what they  *)
(* do to the request.                                                      *)
LEMMA CallMoves ==
    ASSUME AsicInv, UNCHANGED <<files, servers, procs, count>>,
           cfg'.model = cfg.model, StagesOK', CallOK', NodeOK',
           at'.doing # "close" =>
             /\ at.doing # "close"
             /\ \/ call' = call
                \/ call'.step = "none" /\ call.step \in {"none", "returned"}
                \/ call'.step = "input" /\ call.step = "none"
    PROVE  AsicInv'
<1>1. ServersOK' /\ ProcsOK'
  BY DEF AsicInv, ServersOK, ProcsOK
<1>2. ASSUME at'.doing # "close", NEW u \in Units, NEW pid \in DOMAIN servers', procs'[u] = <<pid>>
      PROVE  UnitOK(u, pid)'
  <2>1. UnitOK(u, pid) /\ servers'[pid] = servers[pid] /\ count'[u] = count[u]
    BY <1>2 DEF AsicInv
  <2>2. SameFiles(u)
    BY DEF SameFiles
  <2>3. CASE call' = call
    <3>1. Posted(u)' = Posted(u) /\ Asking(u)' = Asking(u)
      BY <2>3 DEF Posted, Asking
    <3> QED BY <2>1, <2>2, <2>3, <3>1, UnitFrame
  <2>4. CASE \/ call'.step = "none" /\ call.step \in {"none", "returned"}
             \/ call'.step = "input" /\ call.step = "none"
    <3>1. ~Posted(u) /\ ~Posted(u)' /\ (Asking(u)' => call'.step = "input")
      BY <2>4 DEF Posted, Asking
    <3>2. \A f : Content(f)' = Content(f)
      BY DEF Content
    <3>3. MarkersOK(u, servers[pid])' /\ WeightsOK(u, servers[pid])'
      BY <2>1, <3>1, <3>2 DEF UnitOK, MarkersOK, WeightsOK
    <3>4. ServedOK(u, servers[pid])'
      BY <2>1, <3>1, <3>2 DEF UnitOK, ServedOK
    <3>5. InputOK(u)'
      BY <3>1 DEF InputOK
    <3> QED BY <3>3, <3>4, <3>5 DEF UnitOK
  <2> QED BY <1>2, <2>3, <2>4
<1> QED BY <1>1, <1>2 DEF AsicInv

(* A process started for a unit that has none, over a directory without    *)
(* markers.                                                                *)
LEMMA ServerStarts ==
    ASSUME AsicInv, NEW u \in Units, procs[u] = NoProc, at.doing # "close", call.step = "none",
           servers' = Append(servers, Server(u)),
           procs' = [procs EXCEPT ![u] = <<Len(servers) + 1>>],
           \A v : v # u => SameFiles(v),
           count' \in [Units -> Nat], \A v \in Units : v # u => count'[v] = count[v],
           count'[u] = 0, cfg'.model = cfg.model, call' = call,
           Markers(u)' = {}, Content(<<u, "w", 0>>)' = cfg.model,
           StagesOK', NodeOK'
    PROVE  AsicInv'
<1> DEFINE new == Len(servers) + 1
<1>1. /\ IsList(servers') /\ DOMAIN servers = 1 .. Len(servers) /\ DOMAIN servers' = 1 .. new
      /\ servers'[new] = Server(u) /\ \A q \in 1 .. Len(servers) : servers'[q] = servers[q]
  BY ListAppend DEF AsicInv, ServersOK
<1>2. Len(servers) \in Nat /\ new \notin DOMAIN servers /\ new \in DOMAIN servers'
      /\ \A q \in DOMAIN servers' : q = new \/ q \in DOMAIN servers
  BY <1>1 DEF AsicInv, ServersOK, IsList
<1>3. /\ procs \in [Units -> {NoProc} \cup { <<q>> : q \in DOMAIN servers }]
      /\ procs' = [procs EXCEPT ![u] = <<new>>]
  BY DEF AsicInv, ProcsOK
<1> HIDE DEF new
<1>4. \A v \in Units : procs'[v] = IF v = u THEN <<new>> ELSE procs[v]
  BY <1>3
<1>5. /\ DOMAIN Server(u) = {"unit", "pc", "n", "weights", "input"} /\ Server(u).unit = u
      /\ Server(u).pc = "load" /\ Server(u).n = 0
  BY DEF Server
<1>6. ServersOK'
  <2>1. ASSUME NEW q \in DOMAIN servers', servers'[q].pc # "dead"
        PROVE  procs'[servers'[q].unit] = <<q>>
    <3>1. CASE q = new
      BY <1>1, <1>4, <1>5, <3>1 DEF new
    <3>2. CASE q # new
      <4>1. q \in DOMAIN servers /\ servers'[q] = servers[q]
        BY <1>1, <1>2, <3>2
      <4>2. procs[servers[q].unit] = <<q>> /\ servers[q].unit \in Units
        BY <2>1, <4>1 DEF AsicInv, ServersOK
      <4>3. servers[q].unit # u
        BY <4>2, Started
      <4> QED BY <1>4, <4>1, <4>2, <4>3
    <3> QED BY <3>1, <3>2
  <2>2. ASSUME NEW q \in DOMAIN servers'
        PROVE  /\ DOMAIN servers'[q] = {"unit", "pc", "n", "weights", "input"}
               /\ servers'[q].unit \in Units /\ servers'[q].pc \in Pcs /\ servers'[q].n \in Nat
    <3>1. CASE q = new
      BY <1>1, <1>5, <3>1 DEF new, Pcs
    <3>2. CASE q # new
      BY <1>1, <1>2, <3>2 DEF AsicInv, ServersOK
    <3> QED BY <3>1, <3>2
  <2> QED BY <1>1, <2>1, <2>2 DEF ServersOK
<1>7. ProcsOK'
  <2>1. procs' \in [Units -> {NoProc} \cup { <<q>> : q \in DOMAIN servers' }]
    <3>1. DOMAIN servers \subseteq DOMAIN servers'
      BY <1>1 DEF new
    <3>2. DOMAIN procs' = Units /\ procs' = [v \in Units |-> procs'[v]]
      BY <1>3
    <3>3. ASSUME NEW v \in Units PROVE procs'[v] \in {NoProc} \cup { <<q>> : q \in DOMAIN servers' }
      BY <1>2, <1>3, <1>4, <3>1
    <3> QED BY <3>2, <3>3
  <2>2. ASSUME NEW v \in Units, NEW q \in DOMAIN servers', procs'[v] = <<q>>
        PROVE  servers'[q].unit = v
    <3>1. CASE v = u
      <4>1. q = new
        BY <1>4, <2>2, <3>1
      <4> QED BY <1>1, <1>5, <3>1, <4>1 DEF new
    <3>2. CASE v # u
      <4>1. procs[v] = <<q>> /\ q \in DOMAIN servers
        <5>1. procs[v] = <<q>>
          BY <1>4, <2>2, <3>2
        <5>2. ProcsOK
          BY DEF AsicInv
        <5> QED BY ONLY <2>2, <5>1, <5>2, ProcessKnown
      <4> QED BY <1>1, <4>1 DEF AsicInv, ProcsOK
    <3> QED BY <3>1, <3>2
  <2> QED BY <2>1, <2>2 DEF ProcsOK
<1>8. CallOK'
  BY DEF AsicInv, CallOK
<1>9. ASSUME NEW v \in Units, NEW q \in DOMAIN servers', procs'[v] = <<q>>
      PROVE  UnitOK(v, q)'
  <2>0. ~Posted(v) /\ ~Posted(v)' /\ ~Asking(v) /\ ~Asking(v)'
    BY DEF Posted, Asking
  <2>1. CASE v = u
    <3>1. q = new
      BY <1>4, <1>9, <2>1
    <3>2. servers'[q] = Server(u)
      BY <1>1, <3>1 DEF new
    <3>3. MarkersOK(u, Server(u))'
      BY DEF MarkersOK, Markers
    <3>4. ServedOK(u, Server(u))' /\ InputOK(u)' /\ WeightsOK(u, Server(u))'
      BY <1>5, <2>0, <2>1 DEF ServedOK, InputOK, WeightsOK
    <3> QED BY <2>1, <3>2, <3>3, <3>4 DEF UnitOK
  <2>2. CASE v # u
    <3>1. procs[v] = <<q>> /\ q \in DOMAIN servers
      <4>1. procs[v] = <<q>>
        BY <1>4, <1>9, <2>2
      <4>2. ProcsOK
        BY DEF AsicInv
      <4>3. q \in DOMAIN servers
        BY ONLY <1>9, <4>1, <4>2, ProcessKnown
      <4> QED BY <4>1, <4>3
    <3>2. UnitOK(v, q) /\ SameFiles(v) /\ servers'[q] = servers[q] /\ count'[v] = count[v]
      BY <1>1, <2>2, <3>1 DEF AsicInv
    <3>3. Posted(v)' = Posted(v) /\ Asking(v)' = Asking(v)
      BY DEF Posted, Asking
    <3> QED BY <2>0, <3>2, <3>3, UnitFrame
  <2> QED BY <2>1, <2>2
<1> QED BY <1>6, <1>7, <1>8, <1>9 DEF AsicInv
(* The first unit without a process is one.                                *)
LEMMA FirstOf ==
    ASSUME NEW S \in SUBSET Nat, S # {}
    PROVE  (CHOOSE v \in S : \A w \in S : v <= w) \in S
<1>1. ASSUME \A v \in S : \E w \in S : w < v PROVE FALSE
  <2> DEFINE Below == { n \in Nat : \A k \in S : n < k }
  <2>1. 0 \in Below
    BY <1>1
  <2>2. ASSUME NEW n \in Nat, n \in Below PROVE n + 1 \in Below
    <3>1. n + 1 \notin S
      BY <1>1, <2>2
    <3> QED BY <2>2, <3>1
  <2>3. Nat \subseteq Below
    <3> HIDE DEF Below
    <3> QED BY <2>1, <2>2, SetInduction
  <2>4. PICK v \in S : v \in Nat
    OBVIOUS
  <2>5. v < v
    BY <2>3, <2>4
  <2> QED BY <2>4, <2>5
<1>2. \E v \in S : \A w \in S : v <= w
  BY <1>1
<1> QED BY <1>2

LEMMA BootingStep == AsicInv /\ cfg \in Sessions /\ (BootNext \/ NodeStart) => AsicInv'
<1>1. ASSUME AsicInv, BootNext PROVE AsicInv'
  <2>1. PICK u : u = (CHOOSE v \in Unbooted : \A w \in Unbooted : v <= w)
    OBVIOUS
  <2>2. u \in Unbooted
    BY <1>1, <2>1, FirstOf, InferAssumption DEF BootNext, Unbooted
  <2>3. u \in GateUnits /\ u \in Units /\ procs[u] = NoProc /\ u \notin NodeUnits
    BY <2>2, InferAssumption DEF Unbooted, Units
  <2> DEFINE weights == <<u, "w", 0>>
             kept == DOMAIN files \ (Markers(u) \cup {<<u, "status", 0>>})
  <2>4. /\ at.doing = "boot" /\ at'.doing = "await" /\ at'.layer = u /\ cfg' = cfg /\ call' = call
        /\ files' = [f \in kept \cup {weights} |-> IF f = weights THEN cfg.model ELSE files[f]]
        /\ servers' = Append(servers, Server(u))
        /\ procs' = [procs EXCEPT ![u] = <<Len(servers) + 1>>]
        /\ count' = [count EXCEPT ![u] = 0]
    BY <1>1, <2>1 DEF BootNext, BootLayer, Stage
  <2>5. /\ DOMAIN files' = kept \cup {weights}
        /\ \A f \in DOMAIN files' : files'[f] = IF f = weights THEN cfg.model ELSE files[f]
    BY <2>4
  <2>6. ASSUME NEW v, v # u PROVE SameFiles(v)
    <3> SUFFICES ASSUME NEW f, f[1] = v
                 PROVE  /\ f \in DOMAIN files' <=> f \in DOMAIN files
                        /\ f \in DOMAIN files => files'[f] = files[f]
      BY DEF SameFiles
    <3>1. f # weights /\ f # <<u, "status", 0>> /\ f \notin Markers(u)
      BY <2>6 DEF Markers
    <3> QED BY <2>5, <3>1
  <2>7. Markers(u)' = {}
    BY <2>5 DEF Markers
  <2>8. Content(<<u, "w", 0>>)' = cfg.model
    BY <2>5 DEF Content
  <2>9. /\ count' \in [Units -> Nat] /\ count'[u] = 0
        /\ \A v \in Units : v # u => count'[v] = count[v]
    BY <1>1, <2>3, <2>4 DEF AsicInv, ProcsOK
  <2>10. call.step = "none"
    BY <1>1, <2>4 DEF AsicInv, CallOK
  <2>11. \A v \in Units : procs'[v] = IF v = u THEN <<Len(servers) + 1>> ELSE procs[v]
    BY <1>1, <2>3, <2>4 DEF AsicInv, ProcsOK
  <2>12. StagesOK'
    <3>1. procs'[u] # NoProc
      BY <2>3, <2>11, Started
    <3>2. \A v \in NodeUnits : procs'[v] = NoProc
      BY <1>1, <2>3, <2>4, <2>11 DEF AsicInv, StagesOK, Units
    <3> QED BY <2>3, <2>4, <3>1, <3>2 DEF StagesOK, Running
  <2>13. NodeOK'
    BY <2>4 DEF NodeOK
  <2>14. at.doing # "close" /\ cfg'.model = cfg.model
    BY <2>4
  <2> HIDE DEF kept, weights
  <2> QED BY <1>1, <2>3, <2>4, <2>6, <2>7, <2>8, <2>9, <2>10, <2>12, <2>13, <2>14, ServerStarts
<1>2. ASSUME AsicInv, NodeStart PROVE AsicInv'
  <2>1. PICK u : u = at.layer
    OBVIOUS
  <2>2. /\ at.doing = "start" /\ at'.doing = "starting" /\ at'.layer = u /\ cfg' = cfg
        /\ call' = call /\ files' = Removed({<<u, "status", 0>>})
        /\ servers' = Append(servers, Server(u)) /\ count' = count
        /\ procs' = [procs EXCEPT ![u] = <<Len(servers) + 1>>]
    BY <1>2, <2>1 DEF NodeStart, Start, Stage
  <2>3. /\ u \in NodeUnits /\ u \in Units /\ procs[u] = NoProc /\ call.step = "none"
        /\ Markers(u) = {} /\ count[u] = 0 /\ Content(<<u, "w", 0>>) = cfg.model
        /\ \A v \in GateUnits : procs[v] # NoProc
    BY <1>2, <2>1, <2>2 DEF AsicInv, StagesOK, NodeOK, CallOK, Running, Units
  <2>4. DOMAIN files' \subseteq DOMAIN files
        /\ \A f : f # <<u, "status", 0>> => Content(f)' = Content(f)
    BY <2>2, RemovedHere
  <2>5. \A v : v # u => SameFiles(v)
    <3> DEFINE names == {<<u, "status", 0>>}
    <3>1. (\A f \in names : f[1] = u) /\ files' = Removed(names)
      BY <2>2
    <3> HIDE DEF names
    <3> QED BY <3>1, RemovedElsewhere
  <2>6. Markers(u)' = {}
    BY <2>3, <2>4 DEF Markers
  <2>7. Content(<<u, "w", 0>>)' = cfg.model
    BY <2>3, <2>4
  <2>8. /\ count' \in [Units -> Nat] /\ count'[u] = 0
        /\ \A v \in Units : v # u => count'[v] = count[v]
    BY <1>2, <2>2, <2>3 DEF AsicInv, ProcsOK
  <2>9. \A v \in Units : procs'[v] = IF v = u THEN <<Len(servers) + 1>> ELSE procs[v]
    BY <1>2, <2>2, <2>3 DEF AsicInv, ProcsOK
  <2>10. StagesOK'
    <3>1. procs'[u] # NoProc
      BY <2>3, <2>9, Started
    <3>2. \A v \in GateUnits : procs'[v] # NoProc
      BY <2>3, <2>9, <3>1 DEF Units
    <3> QED BY <2>2, <2>3, <3>1, <3>2 DEF StagesOK, Running
  <2>11. NodeOK'
    BY <2>2 DEF NodeOK
  <2>12. at.doing # "close" /\ cfg'.model = cfg.model
    BY <2>2
  <2> QED BY <1>2, <2>2, <2>3, <2>5, <2>6, <2>7, <2>8, <2>10, <2>11, <2>12, ServerStarts
<1> QED BY <1>1, <1>2
(* The node's boot and weights: its directory, which no process uses yet.  *)
LEMMA NodeFilesStep == AsicInv /\ (ExpertDecided \/ NodeWeights) => AsicInv'
<1>1. ASSUME AsicInv, NEW u \in NodeUnits, at'.layer = u, call'.step = "none",
             at.doing \in {"decide", "weights"}, at'.doing \in {"weights", "start"},
             UNCHANGED <<cfg, servers, procs>>, \A v : v # u => SameFiles(v),
             count' \in [Units -> Nat], \A v \in Units : v # u => count'[v] = count[v],
             DOMAIN call' = {"unit", "step", "input", "answer"}, call.step \in {"none", "returned"},
             NodeOK'
      PROVE  AsicInv'
  <2>1. ServersOK' /\ ProcsOK'
    BY <1>1 DEF AsicInv, ServersOK, ProcsOK
  <2>2. StagesOK'
    BY <1>1 DEF AsicInv, StagesOK, Running
  <2>3. CallOK'
    BY <1>1 DEF CallOK
  <2>4. ASSUME NEW v \in Units, NEW q \in DOMAIN servers', procs'[v] = <<q>>
        PROVE  UnitOK(v, q)'
    <3>1. procs[u] = NoProc
      BY <1>1 DEF AsicInv, StagesOK
    <3>2. v # u /\ procs[v] = <<q>> /\ q \in DOMAIN servers
      BY <1>1, <2>4, <3>1, Started
    <3>3. UnitOK(v, q) /\ servers'[q] = servers[q] /\ count'[v] = count[v] /\ SameFiles(v)
      BY <1>1, <3>2 DEF AsicInv
    <3>4. ~Posted(v) /\ ~Posted(v)' /\ ~Asking(v)'
      BY <1>1 DEF Posted, Asking
    <3>5. \A kind, n : Content(<<v, kind, n>>)' = Content(<<v, kind, n>>)
      BY <3>3, SameContent
    <3>6. MarkersOK(v, servers[q])'
      BY <3>3, <3>4 DEF UnitOK, MarkersOK, SameFiles
    <3>7. ServedOK(v, servers[q])' /\ InputOK(v)' /\ WeightsOK(v, servers[q])'
      BY <1>1, <3>3, <3>4, <3>5 DEF UnitOK, ServedOK, InputOK, WeightsOK
    <3> QED BY <3>6, <3>7 DEF UnitOK
  <2> QED BY <1>1, <2>1, <2>2, <2>3, <2>4 DEF AsicInv
<1>2. ASSUME AsicInv, ExpertDecided PROVE AsicInv'
  <2>1. PICK u \in NodeUnits : NodeBoot(u) /\ at' = Stage("weights", u, 0)
    BY <1>2 DEF ExpertDecided
  <2> DEFINE names == Markers(u)
  <2>2. /\ at.doing = "decide" /\ call.step = "returned" /\ call' = NoCall
        /\ files' = Removed(names) /\ count' = [count EXCEPT ![u] = 0]
        /\ UNCHANGED <<cfg, servers, procs>> /\ \A f \in names : f[1] = u
    BY <1>2, <2>1 DEF ExpertDecided, NodeBoot, Markers
  <2>3. at'.doing = "weights" /\ at'.layer = u /\ u \in Units
    BY <2>1 DEF Stage, Units
  <2>4. NodeOK'
    <3>1. Markers(u)' = {}
      BY <2>2, RemovedHere DEF Markers
    <3>2. count'[u] = 0
      BY <1>2, <2>2, <2>3 DEF AsicInv, ProcsOK
    <3>3. Markers(at.layer)' = {} /\ count'[at'.layer] = 0
      BY <2>3, <3>1, <3>2 DEF Markers
    <3> QED BY <2>3, <3>3 DEF NodeOK
  <2>5. count' \in [Units -> Nat] /\ \A v \in Units : v # u => count'[v] = count[v]
    BY <1>2, <2>2 DEF AsicInv, ProcsOK
  <2>6. \A v : v # u => SameFiles(v)
    <3> HIDE DEF names
    <3> QED BY <2>2, RemovedElsewhere
  <2>7. call'.step = "none" /\ DOMAIN call' = {"unit", "step", "input", "answer"}
    BY <2>2 DEF NoCall
  <2> QED BY <1>1, <1>2, <2>2, <2>3, <2>4, <2>5, <2>6, <2>7
<1>3. ASSUME AsicInv, NodeWeights PROVE AsicInv'
  <2>1. PICK u : u = at.layer
    OBVIOUS
  <2>2. /\ at.doing = "weights" /\ at'.doing = "start" /\ at'.layer = u /\ call' = call
        /\ files' = Written(<<u, "w", 0>>, cfg.model) /\ UNCHANGED <<cfg, servers, procs, count>>
    BY <1>3, <2>1 DEF NodeWeights, BuildWeightHex, Stage
  <2>3. /\ u \in NodeUnits /\ Markers(u) = {} /\ count[u] = 0 /\ call.step = "none"
        /\ DOMAIN call = {"unit", "step", "input", "answer"}
    BY <1>3, <2>1, <2>2 DEF AsicInv, StagesOK, NodeOK, CallOK
  <2>4. NodeOK'
    <3>1. DOMAIN files' = DOMAIN files \cup {<<u, "w", 0>>}
          /\ Content(<<u, "w", 0>>)' = cfg.model
      BY <2>2, WrittenHere
    <3>2. Markers(u)' = {}
      BY <2>3, <3>1 DEF Markers
    <3>3. /\ Markers(at.layer)' = {} /\ count'[at'.layer] = 0
          /\ Content(<<at.layer, "w", 0>>)' = cfg'.model
      BY <2>2, <2>3, <3>1, <3>2 DEF Markers, Content
    <3> QED BY <3>3 DEF NodeOK
  <2>5. count' \in [Units -> Nat]
    BY <1>3, <2>2 DEF AsicInv, ProcsOK
  <2>6. \A v : v # u => SameFiles(v)
    BY <2>2, WrittenElsewhere
  <2> QED BY <1>1, <1>3, <2>2, <2>3, <2>4, <2>5, <2>6
<1> QED BY <1>2, <1>3

(* The end of a session kills its processes; a boot that failed did so     *)
(* because its process had exited.                                         *)
LEMMA ClosingStep ==
    ASSUME SlowBoot = FALSE
    PROVE  AsicInv /\ (Close \/ BootFailed) => AsicInv'
<1>1. ASSUME AsicInv, Close PROVE AsicInv'
  <2>1. /\ at.doing = "close" /\ at'.doing = "idle" /\ call' = call
        /\ servers' = Killed /\ procs' = [u \in Units |-> NoProc]
        /\ UNCHANGED <<cfg, files, count>>
    BY <1>1 DEF Close, Stage
  <2>2. \A u \in Units : procs'[u] = NoProc
    BY <2>1
  <2>3. IsList(servers') /\ DOMAIN servers' = DOMAIN servers
    <3>1. servers' = [pid \in DOMAIN servers |-> servers'[pid]]
      BY <2>1 DEF Killed
    <3> QED BY <1>1, <3>1, ListUpdate DEF AsicInv, ServersOK
  <2>4. \A pid \in DOMAIN servers :
          /\ DOMAIN servers'[pid] = {"unit", "pc", "n", "weights", "input"}
          /\ servers'[pid].unit = servers[pid].unit /\ servers'[pid].n = servers[pid].n
          /\ servers'[pid].pc = "dead"
    <3> TAKE pid \in DOMAIN servers
    <3>1. /\ DOMAIN servers[pid] = {"unit", "pc", "n", "weights", "input"}
          /\ servers[pid].unit \in Units
          /\ servers[pid].pc # "dead" => procs[servers[pid].unit] = <<pid>>
      BY <1>1 DEF AsicInv, ServersOK
    <3>2. servers'[pid] = IF \E u \in Units : procs[u] = <<pid>> THEN [servers[pid] EXCEPT !.pc = "dead"]
                        ELSE servers[pid]
      BY <2>1 DEF Killed
    <3> QED BY <3>1, <3>2
  <2>5. ServersOK'
    BY <1>1, <2>3, <2>4 DEF AsicInv, ServersOK, Pcs
  <2>6. ProcsOK'
    <3>1. \A u \in Units : \A pid : procs'[u] # <<pid>>
      BY <2>2, Started
    <3>2. procs' \in [Units -> {NoProc} \cup { <<pid>> : pid \in DOMAIN servers' }]
      BY <2>1
    <3> QED BY <1>1, <2>1, <3>1, <3>2 DEF AsicInv, ProcsOK
  <2>7. StagesOK'
    BY <2>1, <2>2 DEF StagesOK, Running, Units
  <2>8. CallOK' /\ NodeOK'
    BY <1>1, <2>1 DEF AsicInv, CallOK, NodeOK
  <2> QED BY <2>2, <2>5, <2>6, <2>7, <2>8, Started DEF AsicInv
<1>2. ASSUME AsicInv, BootFailed PROVE AsicInv'
  <2>1. PICK u : u = at.layer
    OBVIOUS
  <2>2. /\ at.doing = "await" /\ at'.doing = "close" /\ call' = call /\ servers' = servers
        /\ procs' = [procs EXCEPT ![u] = NoProc] /\ servers[procs[u][1]].pc = "dead"
        /\ UNCHANGED <<cfg, files, count>>
    BY <1>2, <2>1 DEF BootFailed, StatusFails, Forgotten, Stage
  <2>3. u \in Units /\ procs[u] # NoProc /\ call.step = "none"
    BY <1>2, <2>1, <2>2 DEF AsicInv, StagesOK, Units, CallOK
  <2>4. PICK pid \in DOMAIN servers : procs[u] = <<pid>>
    BY <1>2, <2>3 DEF AsicInv, ProcsOK
  <2>5. servers[pid].pc = "dead"
    BY <2>2, <2>4
  <2>6. /\ procs' \in [Units -> {NoProc} \cup { <<q>> : q \in DOMAIN servers' }]
        /\ \A v \in Units : procs'[v] = IF v = u THEN NoProc ELSE procs[v]
    BY <1>2, <2>2 DEF AsicInv, ProcsOK
  <2>7. ServersOK'
    <3>1. ASSUME NEW q \in DOMAIN servers, servers[q].pc # "dead"
          PROVE  procs'[servers[q].unit] = <<q>>
      <4>1. procs[servers[q].unit] = <<q>> /\ servers[q].unit \in Units
        BY <1>2, <3>1 DEF AsicInv, ServersOK
      <4>2. q # pid
        BY <2>5, <3>1
      <4>3. servers[q].unit # u
        BY <2>4, <4>1, <4>2
      <4> QED BY <2>6, <4>1, <4>3
    <3> QED BY <1>2, <2>2, <3>1 DEF AsicInv, ServersOK
  <2>8. ProcsOK'
    <3>1. ASSUME NEW v \in Units, NEW q \in DOMAIN servers', procs'[v] = <<q>>
          PROVE  servers'[q].unit = v
      BY <1>2, <2>2, <2>6, <3>1, Started DEF AsicInv, ProcsOK
    <3> QED BY <1>2, <2>2, <2>6, <3>1 DEF AsicInv, ProcsOK
  <2>9. StagesOK' /\ CallOK' /\ NodeOK'
    BY <1>2, <2>2, <2>3 DEF AsicInv, StagesOK, CallOK, NodeOK, Running
  <2> QED BY <2>2, <2>7, <2>8, <2>9 DEF AsicInv
<1> QED BY <1>1, <1>2
(* A stage that asks a unit whose client has a process.                    *)
LEMMA AskStep == AsicInv /\ (PrefillRoute \/ DecodeRoute \/ Compose \/ NodeReady) => AsicInv'
<1> SUFFICES ASSUME AsicInv, PrefillRoute \/ DecodeRoute \/ Compose \/ NodeReady PROVE AsicInv'
  OBVIOUS
<1>1. PICK u, t : u \in Units /\ Ask(u, Vector(u, t)) /\ procs[u] # NoProc
  <2>1. CASE PrefillRoute \/ DecodeRoute
    <3>1. at.layer \in GateUnits /\ at.doing \in {"feed", "expert"}
          /\ Ask(at.layer, Vector(at.layer, at.pos))
      BY <2>1 DEF PrefillRoute, DecodeRoute, Gated, Routing
    <3> QED BY <3>1 DEF AsicInv, StagesOK, Running, Units
  <2>2. CASE Compose
    BY <2>2 DEF Compose, Unbooted, Units
  <2>3. CASE NodeReady
    <3>1. at.doing = "starting" /\ Ask(at.layer, Vector(at.layer, 0))
      BY <2>3 DEF NodeReady
    <3> QED BY <3>1 DEF AsicInv, StagesOK, Units
  <2> QED BY <2>1, <2>2, <2>3
<1>2. /\ call.step = "none" /\ UNCHANGED <<cfg, files, servers, procs, count>>
      /\ at.doing \in {"feed", "expert", "boot", "starting"}
      /\ at'.doing \in {"feed", "expert", "decide", "run"}
      /\ at.doing = "boot" => at'.doing = "decide" /\ \A g \in GateUnits : procs[g] # NoProc
      /\ at'.doing = "run" => at.doing = "starting"
  BY DEF PrefillRoute, DecodeRoute, Routing, CallAt, Compose, Unbooted, NodeReady, inferVars,
         Stage, AsicInv, CallOK
<1>3. /\ DOMAIN call' = {"unit", "step", "input", "answer"} /\ call'.unit = u
      /\ call'.step = "input" /\ call'.input = Vector(u, t)
  BY <1>1 DEF Ask
<1>4. Vector(u, t) # Absent
  <2>1. Len(<<u, t>>) = 2 /\ Len(<<>>) = 0
    OBVIOUS
  <2> QED BY <2>1 DEF Vector, Absent
<1>5. CallOK' /\ NodeOK'
  <2>1. /\ at'.doing = "feed" => Gated(at.layer, at.pos)'
        /\ at'.doing = "expert" => at'.layer \in GateUnits
    BY DEF PrefillRoute, DecodeRoute, Routing, Compose, NodeReady, Gated, inferVars, Stage
  <2> QED BY <1>1, <1>2, <1>3, <1>4, <2>1 DEF CallOK, NodeOK
<1>6. StagesOK'
  <2>1. at'.doing \in Running /\ at.doing \in Running \cup {"boot"}
    BY <1>2 DEF Running
  <2>2. \A g \in GateUnits : procs'[g] # NoProc
    BY <1>2, <2>1 DEF AsicInv, StagesOK, Running
  <2>3. at'.doing # "run" => \A g \in NodeUnits : procs'[g] = NoProc
    <3>1. at'.doing # "run" => at.doing \notin {"starting", "run", "close"}
      BY <1>2 DEF PrefillRoute, DecodeRoute, Routing, Compose, NodeReady, inferVars, Stage
    <3> QED BY <1>2, <3>1 DEF AsicInv, StagesOK
  <2> QED BY <1>2, <2>1, <2>2, <2>3 DEF StagesOK
<1> QED BY <1>2, <1>3, <1>5, <1>6, CallMoves

(* Steps of the session alone, and the ends of requests.                   *)
AnsweredRight == PrefillRouted \/ DecodeRouted
Ending   == PrefillFailed \/ DecodeFailed \/ NodeLate \/ Composed
Alone    == Booted \/ Ready \/ PrefillAttend \/ PrefillFeed \/ Sample \/ DecodeAttend \/ DecodeFeed

LEMMA SessionStep == AsicInv /\ (AnsweredRight \/ Ending \/ Alone) => AsicInv'
<1> SUFFICES ASSUME AsicInv, AnsweredRight \/ Ending \/ Alone PROVE AsicInv'
  OBVIOUS
<1>1. UNCHANGED <<cfg, files, servers, procs, count>>
  BY DEF AnsweredRight, Ending, Alone, PrefillRouted, DecodeRouted, PrefillFailed, DecodeFailed,
         NodeLate, Composed, Booted, Ready, PrefillAttend, PrefillFeed, Sample, DecodeAttend,
         DecodeFeed, asicVars
<1>2. CASE Ending
  <2>1. at'.doing = "close" /\ call' = NoCall
    BY <1>2 DEF Ending, PrefillFailed, DecodeFailed, NodeLate, Composed, Fails, Stage
  <2>2. CallOK' /\ NodeOK'
    BY <2>1 DEF CallOK, NodeOK, NoCall
  <2>3. StagesOK'
    BY <2>1 DEF StagesOK, Running
  <2> QED BY <1>1, <2>1, <2>2, <2>3, CallMoves
<1>3. CASE AnsweredRight \/ Alone
  <2>1. /\ at'.doing \in {"boot", "attend", "feed", "sample", "decode", "expert", "close"}
        /\ at'.doing = "boot" => at.doing = "await"
        /\ at.doing \in {"await", "boot", "attend", "feed", "sample", "decode", "expert"}
        /\ at.doing = "boot" => at'.doing = "attend" /\ \A u \in GateUnits : procs[u] # NoProc
        /\ at.doing = "await" => at'.doing = "boot"
    <3>1. CASE PrefillRouted \/ PrefillFeed
      BY <3>1 DEF PrefillRouted, PrefillFeed, FedPosition, PrefillStore, Stage
    <3>2. CASE DecodeRouted \/ DecodeFeed
      BY <3>2 DEF DecodeRouted, DecodeFeed, NextLayer, Stage
    <3>3. CASE Booted \/ Ready
      BY <3>3 DEF Booted, Ready, Unbooted, Stage
    <3>4. CASE PrefillAttend \/ Sample \/ DecodeAttend
      <4>1. CASE PrefillAttend
        <5>1. at.doing = "attend" /\ at'.doing = "feed"
          BY <4>1 DEF PrefillAttend, Stage
        <5> QED BY <5>1
      <4>2. CASE Sample
        <5>1. at.doing = "sample" /\ at'.doing \in {"close", "decode"}
          BY <4>2 DEF Sample, Stage
        <5> QED BY <5>1
      <4>3. CASE DecodeAttend
        <5>1. at.doing = "decode" /\ at'.doing = "expert"
          BY <4>3 DEF DecodeAttend, Stage
        <5> QED BY <5>1
      <4> QED BY <3>4, <4>1, <4>2, <4>3
    <3> QED BY <1>3, <3>1, <3>2, <3>3, <3>4 DEF AnsweredRight, Alone
  <2>2. StagesOK'
    <3>1. \A u \in NodeUnits : procs'[u] = NoProc
      BY <1>1, <2>1 DEF AsicInv, StagesOK
    <3>2. at'.doing \in Running => \A u \in GateUnits : procs'[u] # NoProc
      BY <1>1, <2>1 DEF AsicInv, StagesOK, Running
    <3> QED BY <2>1, <3>1, <3>2 DEF StagesOK, Running
  <2>3. call'.step = "none" /\ call.step \in {"none", "returned"}
        /\ DOMAIN call' = {"unit", "step", "input", "answer"}
    <3>1. CASE AnsweredRight
      BY <3>1 DEF AnsweredRight, PrefillRouted, DecodeRouted, NoCall
    <3>2. CASE Alone
      <4>1. call' = call
        BY <3>2 DEF Alone, Booted, Ready, PrefillAttend, PrefillFeed, Sample, DecodeAttend,
             DecodeFeed, asicVars
      <4>2. \/ at.doing \in {"await", "boot", "attend", "sample", "decode"}
            \/ at.doing = "feed" /\ ~Gated(at.layer, at.pos)
            \/ at.doing = "expert" /\ at.layer \notin GateUnits
        BY <3>2 DEF Alone, Booted, Ready, PrefillAttend, PrefillFeed, Sample, DecodeAttend, DecodeFeed
      <4>3. call.step = "none"
        BY <4>2 DEF AsicInv, CallOK
      <4> QED BY <4>1, <4>3 DEF AsicInv, CallOK
    <3> QED BY <1>3, <3>1, <3>2
  <2>4. CallOK' /\ NodeOK'
    BY <2>1, <2>3 DEF CallOK, NodeOK
  <2>5. at'.doing # "close" => at.doing # "close"
    BY <2>1
  <2> QED BY <1>1, <2>2, <2>3, <2>4, <2>5, CallMoves
<1> QED BY <1>2, <1>3

LEMMA AsicStep ==
    ASSUME SlowBoot = FALSE
    PROVE  AsicInv /\ cfg \in Sessions /\ InferNext => AsicInv'
<1>1. ASSUME AsicInv, Begin PROVE AsicInv'
  <2>1. /\ at.doing = "idle" /\ at'.doing = "boot"
        /\ UNCHANGED <<files, servers, procs, count, call>>
    BY <1>1 DEF Begin, Stage, asicVars
  <2>2. (\A u \in Units : procs'[u] = NoProc) /\ call.step = "none"
    BY <1>1, <2>1 DEF AsicInv, StagesOK, CallOK
  <2>3. ServersOK' /\ ProcsOK'
    BY <1>1, <2>1 DEF AsicInv, ServersOK, ProcsOK
  <2>4. StagesOK'
    BY <2>1, <2>2 DEF StagesOK, Running, Units
  <2>5. CallOK' /\ NodeOK'
    BY <1>1, <2>1, <2>2 DEF AsicInv, CallOK, NodeOK
  <2> QED BY <2>2, <2>3, <2>4, <2>5, Started DEF AsicInv
<1>2. InferNext => \/ Begin \/ BootNext \/ NodeStart \/ ExpertDecided \/ NodeWeights \/ Close
                   \/ BootFailed \/ PrefillRoute \/ DecodeRoute \/ Compose \/ NodeReady
                   \/ AnsweredRight \/ Ending \/ Alone \/ (Serve /\ UNCHANGED inferVars)
                   \/ (Request(cfg.keep) /\ UNCHANGED inferVars)
  BY DEF InferNext, AnsweredRight, Ending, Alone
<1> QED BY <1>1, <1>2, BootingStep, NodeFilesStep, ClosingStep, AskStep, SessionStep, ServeStep, RequestStep

(* What a router or an expert is asked, it answers: the decision a session *)
(* takes is the one of its own vector and its own model's weights,         *)
(* whatever marker an earlier session left and wherever the server was     *)
(* when it was killed (gating_harness.go Route, Close).  Where a boot may  *)
(* outlast its timeout it is false: the process nobody kills answers too.  *)
THEOREM RoutesAsAsked ==
    ASSUME SlowBoot = FALSE
    PROVE  InferSpec => []RoutedAsAsked
<1>1. AsicInv => RoutedAsAsked
  BY DEF AsicInv, CallOK, RoutedAsAsked, AnswersItsRequest
<1>2. AsicInv /\ UNCHANGED <<inferVars, asicVars>> => AsicInv'
  <2> SUFFICES ASSUME AsicInv, UNCHANGED <<inferVars, asicVars>> PROVE AsicInv'
    OBVIOUS
  <2>1. StagesOK' /\ CallOK' /\ NodeOK'
    BY DEF AsicInv, StagesOK, CallOK, NodeOK, Gated, Markers, Content, inferVars, asicVars
  <2>2. UNCHANGED <<files, servers, procs, count>> /\ cfg'.model = cfg.model /\ call' = call
        /\ at' = at
    BY DEF inferVars, asicVars
  <2> QED BY <2>1, <2>2, CallMoves
<1>3. InferInit => AsicInv /\ CacheInv
  BY AsicInitial, CacheInit
<1>4. AsicInv /\ CacheInv /\ [InferNext]_<<inferVars, asicVars>> => AsicInv' /\ CacheInv'
  <2>1. CacheInv => cfg \in Sessions
    BY DEF CacheInv
  <2> QED BY <1>2, <2>1, AsicStep, CacheStep, CacheStutters
<1> QED BY <1>1, <1>3, <1>4, PTL DEF InferSpec

(***************************************************************************)
(* The types of the whole harness                                          *)
(***************************************************************************)
(* The tokens generated: none before the first is sampled, and one is only *)
(* sampled while there are fewer than MaxTokens.                           *)
OutputTyped ==
  /\ out \in Output /\ Len(out.tokens) <= MaxTokens
  /\ at.doing \in {"boot", "await", "attend", "feed"} => out.tokens = <<>>
  /\ at.doing = "sample" => Len(out.tokens) < MaxTokens

InferTyped == InferTypeOK /\ OutputTyped /\ CacheInv

LEMMA InferTypedFirst == InferInit => InferTyped
<1> SUFFICES ASSUME InferInit PROVE InferTyped
  OBVIOUS
<1>1. /\ session = 0 /\ result = "none" /\ at.doing = "idle" /\ at.layer = 0
      /\ out = [tokens |-> <<>>, reasoning |-> <<>>, answer |-> <<>>, thinking |-> FALSE]
  BY DEF InferInit, Stage, NoOutput
<1>2. 0 \in LayerIds /\ MaxTokens \in Nat \ {0} /\ MaxSessions \in Nat
  BY InferAssumption DEF LayerIds
<1>3. out \in Output /\ out.tokens = <<>> /\ Len(out.tokens) = 0
  BY <1>1 DEF Output
<1>4. InferTypeOK
  BY <1>1, <1>2, <1>3 DEF InferTypeOK
<1>5. OutputTyped
  BY <1>1, <1>2, <1>3 DEF OutputTyped
<1> QED BY <1>4, <1>5, CacheInit DEF InferTyped

(* A token is sorted into one of the two streams, or switches them.        *)
LEMMA SplitTyped ==
    ASSUME NEW o \in Output, NEW tok \in Vocab
    PROVE  Split(o, tok) \in Output /\ Split(o, tok).tokens = o.tokens
<1>1. CASE tok \in {ChannelOpen, ChannelClose}
  <2>1. PICK d \in BOOLEAN : d = (tok = ChannelOpen)
    OBVIOUS
  <2>2. Split(o, tok) = [o EXCEPT !.thinking = (tok = ChannelOpen)]
    BY <1>1, Zenon DEF Split
  <2>3. Split(o, tok) = [o EXCEPT !.thinking = d]
    BY <2>1, <2>2, Zenon
  <2> QED BY <2>3 DEF Output
<1>2. CASE tok \notin {ChannelOpen, ChannelClose}
  <2>1. /\ Append(o.reasoning, tok) \in Seq(Vocab)
        /\ Append(o.answer, tok) \in Seq(Vocab)
    BY DEF Output
  <2>2. \/ Split(o, tok) = [o EXCEPT !.reasoning = Append(@, tok)]
        \/ Split(o, tok) = [o EXCEPT !.answer = Append(@, tok)]
    BY <1>2, Zenon DEF Split
  <2> QED BY <2>1, <2>2 DEF Output
<1> QED BY <1>1, <1>2

(* What a step of the session leaves of the output and of the layer.       *)
LEMMA InferTypedNext == InferTyped /\ [InferNext]_<<inferVars, asicVars>> => InferTyped'
<1> SUFFICES ASSUME InferTyped, [InferNext]_<<inferVars, asicVars>> PROVE InferTyped'
  OBVIOUS
<1>c. CacheInv'
  BY CacheStep, CacheStutters DEF InferTyped
<1>a. /\ session \in 0 .. MaxSessions /\ result \in {"none", "answer", "error"}
      /\ at.layer \in LayerIds \cup Units /\ out \in Output /\ Len(out.tokens) <= MaxTokens
      /\ 0 \in LayerIds /\ GateUnits \subseteq Units /\ NodeUnits \subseteq Units
      /\ MaxTokens \in Nat \ {0} /\ MaxSessions \in Nat /\ Len(out.tokens) \in Nat
      /\ NumLayers \in Nat \ {0}
  BY InferAssumption DEF InferTyped, InferTypeOK, OutputTyped, Output, LayerIds, Units
(* The steps that leave the output, by the stage they lead to.             *)
<1>k. ASSUME UNCHANGED <<session, out>>, result' \in {"none", "answer", "error"},
             at'.layer \in LayerIds \cup Units,
             at'.doing \in {"boot", "await", "attend", "feed"} =>
               at.doing \in {"boot", "await", "attend", "feed"},
             at'.doing = "sample" => Len(out.tokens) < MaxTokens
      PROVE  InferTyped'
  <2>1. InferTypeOK'
    BY <1>a, <1>k DEF InferTypeOK, LayerIds, Units
  <2>2. OutputTyped'
    BY <1>a, <1>k DEF InferTyped, OutputTyped, Output
  <2> QED BY <2>1, <2>2, <1>c DEF InferTyped
<1>1. ASSUME Begin PROVE InferTyped'
  <2>1. /\ session' = session + 1 /\ session < MaxSessions /\ result' = "none" /\ cfg' \in Sessions
        /\ at'.doing = "boot" /\ at'.layer = 0 /\ out' = [NoOutput EXCEPT !.thinking = cfg'.think]
    BY <1>1 DEF Begin, Stage
  <2>2. cfg'.think \in BOOLEAN
    BY <2>1, InferAssumption
  <2>3. out' \in Output /\ out'.tokens = <<>> /\ Len(out'.tokens) = 0
    <3>1. PICK t \in BOOLEAN : t = cfg'.think
      BY <2>2
    <3>2. out' = [tokens |-> <<>>, reasoning |-> <<>>, answer |-> <<>>, thinking |-> t]
      BY <2>1, <3>1 DEF NoOutput
    <3> QED BY <3>2 DEF Output
  <2>4. InferTypeOK'
    BY <1>a, <2>1, <2>3 DEF InferTypeOK, LayerIds, Units
  <2>5. OutputTyped'
    BY <1>a, <2>1, <2>3 DEF OutputTyped
  <2> QED BY <2>4, <2>5, <1>c DEF InferTyped
<1>2. ASSUME BootNext PROVE InferTyped'
  <2>1. PICK u : u = (CHOOSE v \in Unbooted : \A w \in Unbooted : v <= w)
    OBVIOUS
  <2>2. u \in Unbooted
    BY <1>2, <2>1, FirstOf, InferAssumption DEF BootNext, Unbooted
  <2>3. /\ u \in Units /\ at.doing = "boot" /\ at'.doing = "await" /\ at'.layer = u
        /\ UNCHANGED <<session, out, result>>
    BY <1>2, <2>1, <2>2, <1>a DEF BootNext, Unbooted, Stage
  <2> QED BY <2>3, <1>a, <1>k
<1>3. ASSUME Booted \/ BootFailed \/ Ready PROVE InferTyped'
  <2>1. /\ at.doing \in {"boot", "await"} /\ at'.doing \in {"boot", "close", "attend"}
        /\ at'.layer = 0 /\ UNCHANGED <<session, out>> /\ result' \in {result, "error"}
    BY <1>3 DEF Booted, BootFailed, Ready, Stage
  <2> QED BY <2>1, <1>a, <1>k
<1>4. ASSUME PrefillAttend PROVE InferTyped'
  <2>1. /\ at.doing = "attend" /\ at'.doing = "feed" /\ at'.layer = at.layer
        /\ UNCHANGED <<session, out, result>>
    BY <1>4 DEF PrefillAttend, Stage
  <2> QED BY <2>1, <1>a, <1>k
<1>5. ASSUME PrefillFeed \/ PrefillRouted PROVE InferTyped'
  <2>1. at.doing = "feed" /\ FedPosition /\ UNCHANGED <<session, out, result>>
    BY <1>5 DEF PrefillFeed, PrefillRouted
  <2>2. at.layer \in LayerIds /\ out.tokens = <<>> /\ Len(out.tokens) < MaxTokens
    <3>1. out.tokens = <<>>
      BY <2>1 DEF InferTyped, OutputTyped
    <3> QED BY <2>1, <3>1, <1>a DEF InferTyped, CacheInv, Lengths
  <2>3. /\ at'.doing \in {"feed", "sample", "attend"}
        /\ at'.layer \in LayerIds
    <3>1. \/ at' = Stage("feed", at.layer, at.pos + 1)
          \/ at.layer = NumLayers - 1 /\ at' = Stage("sample", 0, 0)
          \/ at.layer # NumLayers - 1 /\ at' = Stage("attend", at.layer + 1, 0)
      BY <2>1 DEF FedPosition, PrefillStore
    <3> QED BY <3>1, <2>2, <1>a DEF Stage, LayerIds
  <2> QED BY <2>1, <2>2, <2>3, <1>a, <1>k
<1>6. ASSUME PrefillRoute \/ DecodeRoute PROVE InferTyped'
  <2>1. UNCHANGED inferVars
    BY <1>6 DEF PrefillRoute, DecodeRoute, Routing
  <2> QED BY <2>1, <1>a, <1>k DEF inferVars, InferTyped, OutputTyped
<1>7. ASSUME PrefillFailed \/ DecodeFailed \/ NodeLate \/ Composed PROVE InferTyped'
  <2>1. /\ at'.doing = "close" /\ at'.layer = 0 /\ UNCHANGED <<session, out>>
        /\ result' \in {"error", "answer"}
    BY <1>7 DEF PrefillFailed, DecodeFailed, NodeLate, Composed, Fails, Stage
  <2> QED BY <2>1, <1>a, <1>k
<1>8. ASSUME Sample PROVE InferTyped'
  <2>1. PICK tok \in Vocab :
          LET o == [out EXCEPT !.tokens = Append(@, tok)]
          IN  IF tok \in StopTokens
                THEN out' = o /\ result' = "answer" /\ at' = Stage("close", 0, 0)
                ELSE out' = Split(o, tok) /\ UNCHANGED result
                     /\ at' = Stage("decode", 0, Len(kv[0]))
    BY <1>8 DEF Sample, Sampled
  <2>2. at.doing = "sample" /\ UNCHANGED session /\ Len(out.tokens) < MaxTokens
    BY <1>8 DEF Sample, InferTyped, OutputTyped
  <2>3. PICK o : o = [out EXCEPT !.tokens = Append(@, tok)]
    OBVIOUS
  <2>4. /\ Append(out.tokens, tok) \in Seq(Vocab)
        /\ Len(Append(out.tokens, tok)) = Len(out.tokens) + 1
    BY <1>a DEF Output
  <2>5. o \in Output /\ o.tokens = Append(out.tokens, tok)
    BY <1>a, <2>3, <2>4 DEF Output
  <2>6. /\ out' = o \/ out' = Split(o, tok)
        /\ result' \in {"answer", result} /\ at'.doing \in {"close", "decode"} /\ at'.layer = 0
    BY <2>1, <2>3 DEF Stage
  <2>7. out' \in Output /\ out'.tokens = o.tokens
    BY <2>5, <2>6, SplitTyped
  <2>8. Len(out'.tokens) <= MaxTokens
    BY <1>a, <2>2, <2>4, <2>5, <2>7
  <2>9. InferTypeOK'
    BY <1>a, <2>2, <2>6, <2>8 DEF InferTypeOK, LayerIds, Units
  <2>10. OutputTyped'
    BY <2>6, <2>7, <2>8 DEF OutputTyped, Output
  <2> QED BY <2>9, <2>10, <1>c DEF InferTyped
<1>9. ASSUME DecodeAttend PROVE InferTyped'
  <2>1. /\ at.doing = "decode" /\ at'.doing = "expert" /\ at'.layer = at.layer
        /\ UNCHANGED <<session, out, result>>
    BY <1>9 DEF DecodeAttend, Stage
  <2> QED BY <2>1, <1>a, <1>k
<1>10. ASSUME DecodeFeed \/ DecodeRouted PROVE InferTyped'
  <2>1. /\ at.doing = "expert" /\ UNCHANGED <<session, out>> /\ result' \in {result, "answer"}
        /\ \/ at.layer < NumLayers - 1 /\ at' = Stage("decode", at.layer + 1, at.pos)
           \/ Len(out.tokens) < MaxTokens /\ at' = Stage("sample", 0, 0)
           \/ at' = Stage("close", 0, 0)
    BY <1>10 DEF DecodeFeed, DecodeRouted, NextLayer
  <2>2. at.layer \in LayerIds
    BY <2>1 DEF InferTyped, CacheInv, Lengths
  <2>3. at'.layer \in LayerIds /\ at'.doing \in {"decode", "sample", "close"}
        /\ (at'.doing = "sample" => Len(out.tokens) < MaxTokens)
    BY <1>a, <2>1, <2>2 DEF Stage, LayerIds
  <2> QED BY <2>1, <2>3, <1>a, <1>k
<1>11. ASSUME Compose \/ ExpertDecided \/ NodeWeights \/ NodeStart \/ NodeReady \/ Close
       PROVE  InferTyped'
  <2>1. /\ at'.doing \in {"decide", "weights", "start", "starting", "run", "idle"}
        /\ at'.layer \in {at.layer, 0} \cup GateUnits \cup NodeUnits
        /\ UNCHANGED <<session, out, result>>
    BY <1>11 DEF Compose, ExpertDecided, NodeWeights, NodeStart, NodeReady, Close, Stage
  <2> QED BY <2>1, <1>a, <1>k
<1>12. ASSUME UNCHANGED inferVars PROVE InferTyped'
  BY <1>12, <1>a, <1>k DEF inferVars, InferTyped, OutputTyped
<1> QED BY <1>1, <1>2, <1>3, <1>4, <1>5, <1>6, <1>7, <1>8, <1>9, <1>10, <1>11, <1>12
        DEF InferNext, inferVars

-----------------------------------------------------------------------------
(* The co-simulation: a log for every slice simulated so far, for every    *)
(* slice once they are compared.                                           *)
CosimTyped ==
  /\ CosimTypeOK /\ job \in Jobs /\ IsList(logs)
  /\ phase \in {"next", "build"} => logs = <<>>
  /\ phase = "simulate" => Len(logs) = gi - 1
  /\ phase # "simulate" => gi = 1

LEMMA SomeGroup == job \in Jobs => Len(Groups) \in Nat \ {0}
<1> SUFFICES ASSUME job \in Jobs PROVE Len(Groups) \in Nat \ {0}
  OBVIOUS
<1>1. PICK layers \in Int, groups \in Int : layers = job.d.layers /\ groups = job.groups
  BY CosimAssumption
<1>2. PICK n : n = IF groups < 1 \/ layers < 1 THEN 1 ELSE IF groups > layers THEN layers ELSE groups
  OBVIOUS
<1>3. n \in Nat \ {0}
  BY <1>2
<1>4. \E f : Groups = [g \in 1 .. n |-> f[g]]
  <2> DEFINE first(g) == g * (layers \div n) + (IF g < layers % n THEN g ELSE layers % n)
             f == [g \in 1 .. n |-> first(g - 1) .. first(g) - 1]
  <2>1. Groups = f
    BY <1>1, <1>2, Zenon DEF Groups, PartitionLayers
  <2>2. f = [g \in 1 .. n |-> f[g]]
    OBVIOUS
  <2> HIDE DEF f
  <2> QED BY <2>1, <2>2
<1> QED BY <1>3, <1>4

LEMMA EmptyList == IsList(<<>>) /\ Len(<<>>) = 0
  BY DEF IsList

LEMMA CosimTypedFirst == ASSUME NEW j \in Jobs, Idle(j), phase \in {"off", "next"} PROVE CosimTyped
<1>1. job \in Jobs /\ gi = 1 /\ replay = 1 /\ logs = <<>> /\ exit = -1
  BY DEF Idle
<1>2. Len(Groups) \in Nat \ {0}
  BY <1>1, SomeGroup
<1> QED BY <1>1, <1>2, EmptyList DEF CosimTyped, CosimTypeOK

LEMMA CosimTypedNext == CosimTyped /\ [CosimNext]_cosimVars => CosimTyped'
<1> SUFFICES ASSUME CosimTyped, [CosimNext]_cosimVars PROVE CosimTyped'
  OBVIOUS
<1>1. job' = job
  BY DEF CosimNext, StartScenario, UnknownScenario, Finish, Exit, Inject, Simulate, Advance, SliceDone,
     SliceFailed, ExitProcess, Logged, Defect, Compare, VerifySlices, cosimVars
<1>2. PICK n \in Nat \ {0} : n = Len(Groups) /\ n = Len(Groups)'
  BY <1>1, SomeGroup DEF CosimTyped, Groups
<1>3. /\ job \in Jobs /\ IsList(logs) /\ Len(logs) \in Nat /\ gi \in 1 .. n /\ replay \in 1 .. 2
      /\ exit \in {-1, 0, 1, 2}
      /\ phase \in {"off", "next", "build", "simulate", "compare", "verify", "done"}
      /\ phase \in {"compare", "verify"} => Len(logs) = n
      /\ phase \in {"next", "build"} => logs = <<>>
      /\ phase = "simulate" => Len(logs) = gi - 1
      /\ phase # "simulate" => gi = 1
  BY <1>2 DEF CosimTyped, CosimTypeOK, IsList
(* The goal in these terms.                                                *)
<1>g. SUFFICES /\ IsList(logs') /\ gi' \in 1 .. n /\ replay' \in 1 .. 2
               /\ exit' \in {-1, 0, 1, 2}
               /\ phase' \in {"off", "next", "build", "simulate", "compare", "verify", "done"}
               /\ phase' \in {"compare", "verify"} => Len(logs') = n
               /\ phase' \in {"next", "build"} => logs' = <<>>
               /\ phase' = "simulate" => Len(logs') = gi' - 1
               /\ phase' # "simulate" => gi' = 1
  BY <1>1, <1>2, <1>3 DEF CosimTyped, CosimTypeOK, IsList
<1>4. CASE StartScenario
  BY <1>3, <1>4 DEF StartScenario
<1>5. CASE UnknownScenario \/ Finish
  <2>1. PICK c \in {0, 1, 2} : Exit(c)
    BY <1>5 DEF UnknownScenario, Finish
  <2> QED BY <1>3, <2>1 DEF Exit
<1>6. CASE Inject
  BY <1>3, <1>6 DEF Inject
<1>7. CASE Simulate
  BY <1>3, <1>7, EmptyList DEF Simulate
<1>8. CASE Advance
  BY <1>3, <1>8 DEF Advance
<1>9. CASE SliceDone \/ SliceFailed
  <2>1. phase = "simulate" /\ \E log : ExitProcess(log)
    BY <1>9 DEF SliceDone, SliceFailed
  <2>2. PICK log : ExitProcess(log)
    BY <2>1
  <2>3. /\ logs' = Append(logs, log) /\ UNCHANGED <<replay, exit>>
        /\ IF gi < n THEN gi' = gi + 1 /\ UNCHANGED phase ELSE gi' = 1 /\ phase' = "compare"
    BY <1>2, <2>2 DEF ExitProcess
  <2>4. IsList(logs') /\ Len(logs') = Len(logs) + 1
    <3>1. IsList(logs') /\ DOMAIN logs' = 1 .. Len(logs) + 1
      BY <1>3, <2>3, ListAppend
    <3>2. PICK m \in Nat : m = Len(logs')
      BY <3>1 DEF IsList
    <3>3. 1 .. m = 1 .. Len(logs) + 1
      BY <3>1, <3>2 DEF IsList
    <3>4. m = Len(logs) + 1
      BY <1>3, <3>3
    <3> QED BY <3>1, <3>2, <3>4
  <2> QED BY <1>3, <2>1, <2>3, <2>4
<1>10. CASE Logged \/ Defect
  <2>1. PICK now : Compare(now) /\ IsList(now) /\ Len(now) = Len(logs)
    <3>1. CASE Logged
      BY <1>3, <3>1 DEF Logged
    <3>2. CASE Defect
      <4>1. PICK i \in DOMAIN logs : \E log : Compare([logs EXCEPT ![i] = log])
        BY <3>2 DEF Defect
      <4>2. PICK log : Compare([logs EXCEPT ![i] = log])
        BY <4>1
      <4>3. IsList([logs EXCEPT ![i] = log]) /\ Len([logs EXCEPT ![i] = log]) = Len(logs)
        <5>1. logs = [k \in 1 .. Len(logs) |-> logs[k]]
          BY <1>3 DEF IsList
        <5>2. [logs EXCEPT ![i] = log] = [k \in 1 .. Len(logs) |-> IF k = i THEN log ELSE logs[k]]
          BY <5>1
        <5> QED BY <1>3, <5>2 DEF IsList
      <4> QED BY <4>2, <4>3
    <3> QED BY <1>10, <3>1, <3>2
  <2>2. /\ phase = "compare" /\ UNCHANGED <<gi, exit>>
        /\ \/ phase' = "simulate" /\ replay' = replay + 1 /\ replay < Replays /\ logs' = <<>>
           \/ phase' = "verify" /\ replay' = 1 /\ logs' = now
    BY <2>1 DEF Compare
  <2>3. Replays \in {1, 2}
    BY DEF Replays
  <2> QED BY <1>3, <2>1, <2>2, <2>3, EmptyList
<1>11. CASE VerifySlices
  BY <1>3, <1>11, EmptyList DEF VerifySlices
<1>12. CASE UNCHANGED cosimVars
  BY <1>3, <1>12 DEF cosimVars
<1> QED BY <1>4, <1>5, <1>6, <1>7, <1>8, <1>9, <1>10, <1>11, <1>12 DEF CosimNext

-----------------------------------------------------------------------------
(* Doorbell, co-simulation and inference share no state, so the harness    *)
(* keeps the types of each: the doorbell's registers within their widths,  *)
(* a log for every slice by the time they are compared, no more tokens     *)
(* than asked for and none from a layer that does not exist.               *)
THEOREM HarnessTypes == HarnessSpec => []HarnessTypeOK
<1> DEFINE Inv == TypeOK /\ CosimTyped /\ InferTyped
<1>1. HarnessInit => Inv
  <2> SUFFICES ASSUME HarnessInit PROVE Inv
    OBVIOUS
  <2>1. TypeOK /\ InferTyped
    BY InitTypes, InferTypedFirst DEF HarnessInit
  <2>2. \E j \in Jobs : Idle(j) /\ phase \in {"off", "next"}
    <3>1. (CHOOSE j \in Jobs : TRUE) \in Jobs
      BY CosimAssumption
    <3> QED BY <3>1 DEF HarnessInit, CosimInit
  <2> QED BY <2>1, <2>2, CosimTypedFirst
<1>2. Inv /\ [HarnessNext]_HarnessVars => Inv'
  <2> SUFFICES ASSUME Inv, [HarnessNext]_HarnessVars PROVE Inv'
    OBVIOUS
  <2>1. /\ [Next]_vars /\ [CosimNext]_cosimVars
        /\ [InferNext]_<<inferVars, asicVars>>
    BY DEF HarnessNext, HarnessVars
  <2>2. TypeOK'
    BY <2>1, TypesStep
  <2> QED BY <2>1, <2>2, CosimTypedNext, InferTypedNext
<1>3. Inv => HarnessTypeOK
  BY DEF CosimTyped, InferTyped, HarnessTypeOK
<1> QED BY <1>1, <1>2, <1>3, PTL DEF HarnessSpec
=============================================================================
