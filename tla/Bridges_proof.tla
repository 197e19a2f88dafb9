--------------------------- MODULE Bridges_proof ---------------------------
(***************************************************************************)
(* Theorems about the two ways into the fabric.                            *)
(*                                                                         *)
(* The host's (HostTop): its read side, for every size of the result FIFO, *)
(* every length of the SPI header and any number of results; then its flit *)
(* builder, which sends the packet the host asked for, for every size of   *)
(* the payload buffer and every set of destinations and of payload bytes,  *)
(* on a spine that takes every byte at once.                               *)
(*                                                                         *)
(* The management node's (MgmtBridge), for every size of its buffers,      *)
(* every base of a byte, and every set of frame lengths and payload        *)
(* lengths, the registers' wrap included: what is parsed and received      *)
(* holds over short frames, and of weights until their buffer overruns.    *)
(***************************************************************************)
EXTENDS HostTop, MgmtBridge, SequenceLemmas, TLAPS

(***************************************************************************)
(* The host's bridge                                                       *)
(***************************************************************************)
Word == 0..Results

-----------------------------------------------------------------------------
(* The inductive invariant: the registers, the arbiter, the FIFO.          *)

PathTyped ==
    /\ TypeOK /\ fresh \in [Master -> BOOLEAN] /\ passed \in [Master -> 0..1]

(* The bus is busy for the one cycle of an access: nobody's ready is up,   *)
(* the turn is its owner's, and the owner's request is the one granted     *)
(* unless the SPI master has let go of it.                                 *)
ArbOK ==
    /\ slv_valid = arbBusy
    /\ arbBusy => /\ \A m \in Master : ~ready[m]
                  /\ grant = owner
                  /\ st[owner] \in {"WAIT", "IDLE"}
                  /\ owner = "cpu" => st[owner] = "WAIT"
                  /\ st[owner] = "WAIT" => fresh[owner]

(* A master that has been passed over is next.                             *)
TurnOK == \A m \in Master :
    passed[m] = 1 => IF arbBusy THEN owner = Other(m) ELSE grant = m

(* The pop is pending only on the cycle after the sample.                  *)
FifoOK ==
    /\ RingState(res_fifo, res_rd, res_wr, res_count, FifoBytes, Word)
    /\ arrived \in Word /\ given \in Seq(Word) /\ kept \in Seq(Word)
    /\ res_pop => ~arbBusy /\ res_count # 0
    /\ ResultsReadOnce

PathInv == PathTyped /\ ArbOK /\ AnswerIsOwn /\ TurnOK /\ FifoOK

-----------------------------------------------------------------------------
LEMMA UnreadIsContent == Unread = RingContent(res_fifo, res_rd, res_count, FifoBytes)
  BY DEF Unread, RingContent

LEMMA UnreadBytes ==
    ASSUME RingState(res_fifo, res_rd, res_wr, res_count, FifoBytes, Word)
    PROVE  /\ Unread \in Seq(Word) /\ Len(Unread) = res_count
           /\ res_count # 0 => Unread # <<>> /\ Head(Unread) = res_fifo[res_rd]
<1>1. /\ FifoBytes \in Nat \ {0} /\ res_fifo \in Memory(FifoBytes, Word)
      /\ res_rd \in 0..(FifoBytes - 1) /\ res_count \in 0..FifoBytes
  BY PathAssumption DEF RingState
<1> DEFINE q == RingContent(res_fifo, res_rd, res_count, FifoBytes)
<1>2. /\ q \in Seq(Word) /\ Len(q) = res_count
      /\ \A i \in 1..res_count : q[i] = res_fifo[Wrapped(res_rd + (i - 1), FifoBytes)]
  BY <1>1, ContentBytes
<1> HIDE DEF q
<1>3. ASSUME res_count # 0
      PROVE  q # <<>> /\ Head(q) = res_fifo[res_rd]
  <2>1. 1 \in 1..res_count /\ res_rd + (1 - 1) = res_rd /\ Wrapped(res_rd, FifoBytes) = res_rd
    BY <1>1, <1>3 DEF Wrapped
  <2>2. q[1] = res_fifo[res_rd]
    BY <1>2, <2>1
  <2>3. q # <<>> /\ Head(q) = q[1]
    BY <1>2, <1>3
  <2> QED BY <2>2, <2>3
<1> QED BY <1>2, <1>3, UnreadIsContent DEF q

LEMMA Associative ==
    \A s, t, u \in Seq(Word) : (s \o t) \o u = s \o (t \o u) /\ s \o t \in Seq(Word)
  BY ConcatAssociative, ConcatProperties

LEMMA Appended ==
    \A s \in Seq(Word), e \in Word : Append(s, e) = s \o <<e>> /\ Append(s, e) \in Seq(Word)
  BY AppendIsConcat, AppendProperties

(* Reading the head leaves what is read and what is left the same.         *)
LEMMA HeadMoved ==
    \A g, q \in Seq(Word) : q # <<>> => Append(g, Head(q)) \o Tail(q) = g \o q
<1> TAKE g, q \in Seq(Word)
<1> SUFFICES ASSUME q # <<>> PROVE Append(g, Head(q)) \o Tail(q) = g \o q
  OBVIOUS
<1>1. Head(q) \in Word /\ Tail(q) \in Seq(Word) /\ <<Head(q)>> \in Seq(Word)
  BY HeadTailProperties
<1>2. q = <<Head(q)>> \o Tail(q)
  BY HeadAndTail
<1>3. Append(g, Head(q)) = g \o <<Head(q)>>
  BY <1>1, Appended
<1> DEFINE h == <<Head(q)>>  r == Tail(q)
<1>4. h \in Seq(Word) /\ r \in Seq(Word)
  BY <1>1
<1> HIDE DEF h, r
<1>5. (g \o h) \o r = g \o (h \o r)
  BY <1>4, Associative
<1> QED BY <1>2, <1>3, <1>5 DEF h, r

LEMMA InitPathInv == Init => PathInv
<1> SUFFICES ASSUME Init PROVE PathInv
  OBVIOUS
<1>1. PathTyped
  <2>1. /\ st \in [Master -> {"IDLE", "HDR", "WAIT"}] /\ st["cpu"] # "HDR"
        /\ op \in [Master -> Op] /\ grant \in Master /\ owner \in Master /\ slv_op \in Op
    BY DEF Init, Master, Op
  <2>2. /\ hdr \in 0..HdrCycles /\ rdata \in [Master -> 0..Results]
        /\ res_fifo \in [0..(FifoBytes - 1) -> 0..Results]
        /\ res_rd \in 0..(FifoBytes - 1) /\ res_wr \in 0..(FifoBytes - 1)
        /\ res_count \in 0..FifoBytes /\ passed \in [Master -> 0..1]
    BY PathAssumption DEF Init
  <2>3. /\ arbBusy \in BOOLEAN /\ slv_valid \in BOOLEAN /\ res_pop \in BOOLEAN
        /\ ready \in [Master -> BOOLEAN] /\ fresh \in [Master -> BOOLEAN]
    BY DEF Init
  <2> QED BY <2>1, <2>2, <2>3 DEF PathTyped, TypeOK
<1>2. ArbOK /\ TurnOK /\ AnswerIsOwn
  <2>1. slv_valid = FALSE /\ arbBusy = FALSE
    BY DEF Init
  <2>2. \A m \in Master : st[m] # "WAIT" /\ passed[m] # 1
    BY DEF Init
  <2>3. ArbOK
    BY <2>1, Zenon DEF ArbOK
  <2> QED BY <2>2, <2>3 DEF TurnOK, AnswerIsOwn
<1>3. RingState(res_fifo, res_rd, res_wr, res_count, FifoBytes, Word)
  BY PathAssumption DEF Init, RingState, Memory, Word, Wrapped
<1>4. Unread = <<>>
  BY <1>3, UnreadBytes DEF Init
<1>5. FifoOK
  BY <1>3, <1>4, PathAssumption DEF Init, FifoOK, ResultsReadOnce, Word
<1> QED BY <1>1, <1>2, <1>5 DEF PathInv

-----------------------------------------------------------------------------
(* What the masters may do on an edge.                                     *)
LEMMA MastersStep ==
    ASSUME TypeOK, Masters
    PROVE  /\ st' \in [Master -> {"IDLE", "HDR", "WAIT"}] /\ st'["cpu"] # "HDR"
           /\ op' \in [Master -> Op] /\ hdr' \in 0..HdrCycles
           /\ st["cpu"] = "WAIT" /\ ~ready["cpu"] => st'["cpu"] = "WAIT"
           /\ st["brg"] = "WAIT" => st'["brg"] \in {"WAIT", "IDLE"}
           /\ st["brg"] = "IDLE" => st'["brg"] # "WAIT"
<1>1. PICK s1, s2 \in {"IDLE", "HDR", "WAIT"}, o1, o2 \in Op :
         /\ Native(s1, o1) /\ Spi(s2, o2)
         /\ st' = [st EXCEPT !["cpu"] = s1, !["brg"] = s2]
         /\ op' = [op EXCEPT !["cpu"] = o1, !["brg"] = o2]
  BY DEF Masters
<1>2. /\ st \in [Master -> {"IDLE", "HDR", "WAIT"}] /\ op \in [Master -> Op]
      /\ Master = {"cpu", "brg"} /\ st["cpu"] # "HDR" /\ hdr \in 0..HdrCycles
  BY DEF TypeOK, Master
<1>3. /\ st' \in [Master -> {"IDLE", "HDR", "WAIT"}] /\ op' \in [Master -> Op]
      /\ st'["cpu"] = s1 /\ st'["brg"] = s2
  BY <1>1, <1>2
<1>4. s1 # "HDR" /\ (st["cpu"] = "WAIT" /\ ~ready["cpu"] => s1 = "WAIT")
  BY <1>1, <1>2 DEF Native
<1>5. /\ hdr' \in 0..HdrCycles
      /\ st["brg"] = "WAIT" => s2 \in {"WAIT", "IDLE"}
      /\ st["brg"] = "IDLE" => s2 # "WAIT"
  BY <1>1, <1>2, PathAssumption DEF Spi
<1> QED BY <1>3, <1>4, <1>5

(* What the arbiter does, and what is observed of it.                      *)
LEMMA ArbStep ==
    ASSUME PathInv, Masters, Arb, Observe
    PROVE  /\ ArbOK' /\ AnswerIsOwn' /\ TurnOK'
           /\ fresh' \in [Master -> BOOLEAN] /\ passed' \in [Master -> 0..1]
           /\ grant' \in Master /\ arbBusy' \in BOOLEAN /\ owner' \in Master
           /\ slv_valid' \in BOOLEAN /\ slv_op' \in Op /\ ready' \in [Master -> BOOLEAN]
           /\ arbBusy => ~arbBusy'
<1>t. /\ st \in [Master -> {"IDLE", "HDR", "WAIT"}] /\ op \in [Master -> Op]
      /\ grant \in Master /\ arbBusy \in BOOLEAN /\ owner \in Master
      /\ slv_valid \in BOOLEAN /\ slv_op \in Op /\ ready \in [Master -> BOOLEAN]
      /\ fresh \in [Master -> BOOLEAN] /\ passed \in [Master -> 0..1]
      /\ Master = {"cpu", "brg"}
  BY DEF PathInv, PathTyped, TypeOK, Master
<1>m. /\ st' \in [Master -> {"IDLE", "HDR", "WAIT"}]
      /\ st["cpu"] = "WAIT" /\ ~ready["cpu"] => st'["cpu"] = "WAIT"
      /\ st["brg"] = "WAIT" => st'["brg"] \in {"WAIT", "IDLE"}
      /\ st["brg"] = "IDLE" => st'["brg"] # "WAIT"
  BY MastersStep DEF PathInv, PathTyped
<1>f. /\ fresh' \in [Master -> BOOLEAN]
      /\ \A m \in Master :
           fresh'[m] <=> /\ st'[m] = "WAIT"
                         /\ IF Granted /\ owner' = m THEN ~ready[m] ELSE fresh[m]
  BY <1>t DEF Observe
<1>p. /\ DOMAIN passed' = Master /\ passed' = [m \in Master |-> passed'[m]]
      /\ \A m \in Master :
           passed'[m] = IF ~Waiting(m) \/ (Granted /\ owner' = m) THEN 0
                        ELSE IF Granted THEN passed[m] + 1 ELSE passed[m]
  BY DEF Observe
<1>1. CASE ArbGrant
  <2>1. /\ ~arbBusy /\ grant' = Winner /\ arbBusy' = TRUE /\ owner' = Winner
        /\ slv_valid' = TRUE /\ slv_op' = op[Winner]
        /\ ready' = [m \in Master |-> FALSE] /\ Granted
    BY <1>1 DEF ArbGrant, Granted
  <2>2. Winner \in Master /\ Wants(Winner)
    BY <1>1, <1>t DEF ArbGrant, Winner, Other
  <2>3. st[Winner] = "WAIT" /\ ~ready[Winner]
    BY <2>2 DEF Wants
  <2>4. \A m \in Master : ~ready'[m]
    BY <2>1
  <2>5. /\ st'[Winner] \in {"WAIT", "IDLE"}
        /\ Winner = "cpu" => st'[Winner] = "WAIT"
        /\ st'[Winner] = "WAIT" => fresh'[Winner]
    BY <2>1, <2>2, <2>3, <1>m, <1>f, <1>t
  <2>6. ArbOK'
    BY <2>1, <2>4, <2>5 DEF ArbOK
  <2>7. AnswerIsOwn'
    BY <2>4 DEF AnswerIsOwn
  <2>8. ASSUME NEW m \in Master
        PROVE  passed'[m] \in 0..1 /\ (passed'[m] = 1 => owner' = Other(m))
    <3>1. CASE ~Waiting(m) \/ owner' = m
      BY <3>1, <2>1, <1>p
    <3>2. CASE Waiting(m) /\ owner' # m
      <4>1. Wants(m) /\ grant # m
        BY <3>2, <2>1 DEF Waiting, Wants, Winner
      <4>2. passed[m] = 0
        BY <4>1, <2>1, <1>t DEF PathInv, TurnOK
      <4>3. passed'[m] = 1
        BY <3>2, <4>2, <2>1, <1>p
      <4>4. owner' = Other(m)
        BY <3>2, <2>1, <2>2, <1>t DEF Other
      <4> QED BY <4>3, <4>4
    <3> QED BY <3>1, <3>2
  <2>9. TurnOK'
    BY <2>1, <2>8 DEF TurnOK, Other
  <2>10. ready' \in [Master -> BOOLEAN] /\ passed' \in [Master -> 0..1] /\ slv_op' \in Op
    BY <2>1, <2>2, <2>8, <1>p, <1>t
  <2> QED BY <2>1, <2>2, <2>6, <2>7, <2>9, <2>10, <1>f
<1>2. CASE ArbIdle
  <2>1. /\ ~arbBusy /\ \A m \in Master : ~Wants(m)
        /\ slv_valid' = FALSE /\ ready' = [m \in Master |-> FALSE]
        /\ UNCHANGED <<grant, arbBusy, owner, slv_op, rdata>> /\ ~Granted
    BY <1>2 DEF ArbIdle, Granted
  <2>2. \A m \in Master : passed'[m] = 0
    BY <2>1, <1>p DEF Waiting, Wants
  <2>3. arbBusy' = FALSE /\ slv_valid' = FALSE
    BY <2>1, <1>t
  <2>4. \A m \in Master : ~ready'[m]
    BY <2>1
  <2>5. ArbOK' /\ AnswerIsOwn' /\ TurnOK'
    <3>1. ArbOK'
      BY <2>3, Zenon DEF ArbOK
    <3>2. AnswerIsOwn'
      BY <2>4 DEF AnswerIsOwn
    <3>3. TurnOK'
      BY <2>2 DEF TurnOK
    <3> QED BY <3>1, <3>2, <3>3
  <2>6. passed' \in [Master -> 0..1]
    BY <2>2, <1>p
  <2>7. /\ grant' \in Master /\ owner' \in Master /\ slv_op' \in Op
        /\ ready' \in [Master -> BOOLEAN]
    BY <2>1, <1>t
  <2> QED BY <2>3, <2>5, <2>6, <2>7, <1>f
<1>3. CASE ArbAnswer
  <2>1. /\ arbBusy /\ ready' = [m \in Master |-> m = owner]
        /\ arbBusy' = FALSE /\ grant' = Other(grant) /\ slv_valid' = FALSE
        /\ UNCHANGED <<owner, slv_op>> /\ ~Granted
    BY <1>3 DEF ArbAnswer, Turn, Granted
  <2>2. /\ grant = owner /\ ~ready[owner] /\ st[owner] \in {"WAIT", "IDLE"}
        /\ owner = "cpu" => st[owner] = "WAIT"
        /\ st[owner] = "WAIT" => fresh[owner]
    BY <2>1, <1>t DEF PathInv, ArbOK
  <2>3. st'[owner] = "WAIT" => fresh'[owner]
    <3>1. st'[owner] = "WAIT" => st[owner] = "WAIT"
      BY <2>2, <1>m, <1>t
    <3> QED BY <3>1, <2>1, <2>2, <1>f, <1>t
  <2>4. AnswerIsOwn'
    BY <2>1, <2>3 DEF AnswerIsOwn
  <2>5. ArbOK'
    BY <2>1 DEF ArbOK
  <2>6. ASSUME NEW m \in Master
        PROVE  passed'[m] \in 0..1 /\ (passed'[m] = 1 => grant' = m)
    <3>1. CASE passed'[m] = 0
      BY <3>1
    <3>2. CASE passed'[m] = passed[m]
      <4>1. passed[m] = 1 => owner = Other(m)
        BY <2>1 DEF PathInv, TurnOK
      <4>2. Other(Other(m)) = m
        BY <1>t DEF Other
      <4> QED BY <3>2, <4>1, <4>2, <2>1, <2>2, <1>t
    <3> QED BY <3>1, <3>2, <2>1, <1>p
  <2>7. TurnOK'
    BY <2>1, <2>6 DEF TurnOK
  <2>8. /\ ready' \in [Master -> BOOLEAN] /\ passed' \in [Master -> 0..1]
        /\ grant' \in Master
    BY <2>1, <2>6, <1>p, <1>t DEF Other
  <2> QED BY <2>1, <2>4, <2>5, <2>7, <2>8, <1>f, <1>t
<1> QED BY <1>1, <1>2, <1>3 DEF Arb

-----------------------------------------------------------------------------
(* An edge of the FIFO: what is read moves from the FIFO to given.         *)
LEMMA FifoStep ==
    ASSUME PathInv, Observe, NEW valid \in BOOLEAN, valid => arrived < Results, Fifo(valid),
           arbBusy => ~arbBusy'
    PROVE  FifoOK' /\ res_pop' \in BOOLEAN
<1> DEFINE push == valid /\ res_count < FifoBytes
           up   == IF push THEN 1 ELSE 0
           dn   == IF res_pop THEN 1 ELSE 0
           byte == IF push THEN arrived + 1 ELSE 0
           new  == IF up = 1 THEN <<byte>> ELSE <<>>
           read == IF Sampled THEN <<Head(Unread)>> ELSE <<>>
<1>n. FifoBytes \in Nat \ {0} /\ Results \in Nat
  BY PathAssumption
<1>t. /\ RingState(res_fifo, res_rd, res_wr, res_count, FifoBytes, Word)
      /\ arrived \in Word /\ given \in Seq(Word) /\ kept \in Seq(Word)
      /\ res_pop => ~arbBusy /\ res_count # 0
      /\ given \o (IF res_pop THEN Tail(Unread) ELSE Unread) = kept
      /\ res_pop \in BOOLEAN /\ arbBusy \in BOOLEAN /\ slv_valid = arbBusy
      /\ res_rd \in 0..(FifoBytes - 1) /\ res_wr \in 0..(FifoBytes - 1)
      /\ res_count \in 0..FifoBytes
  BY DEF PathInv, PathTyped, TypeOK, FifoOK, ArbOK, ResultsReadOnce
<1>u. /\ Unread \in Seq(Word) /\ Len(Unread) = res_count
      /\ res_count # 0 => Unread # <<>> /\ Head(Unread) = res_fifo[res_rd]
  BY <1>t, UnreadBytes
<1>d. /\ up \in 0..1 /\ dn \in 0..1 /\ byte \in Word
      /\ up = 1 <=> push
      /\ dn = 1 <=> res_pop
      /\ up = 1 => byte = arrived + 1
  BY <1>n, <1>t DEF Word
<1>s. \A i \in 0..(FifoBytes - 1) : NextSlot(i) = Wrapped(i + 1, FifoBytes)
  BY <1>n DEF NextSlot, Wrapped
<1>1. RingStep(res_fifo, res_rd, res_wr, res_count, FifoBytes, up, byte, dn,
               res_fifo', res_rd', res_wr', res_count')
  <2>1. Pops <=> res_pop
    BY <1>t DEF Pops
  <2> QED BY <2>1, <1>t, <1>d, <1>s DEF RingStep, Fifo, Netted
<1> HIDE DEF up, dn, byte
<1>2. /\ RingState(res_fifo', res_rd', res_wr', res_count', FifoBytes, Word)
      /\ RingContent(res_fifo', res_rd', res_count', FifoBytes)
           = Passed(RingContent(res_fifo, res_rd, res_count, FifoBytes), up, byte, dn)
  BY <1>n, <1>t, <1>d, <1>1, RingIsQueue
<1>3. Unread' = (IF res_pop THEN Tail(Unread) ELSE Unread) \o new
  <2>1. Unread' = RingContent(res_fifo', res_rd', res_count', FifoBytes)
    BY DEF Unread, RingContent
  <2> QED BY <2>1, <1>2, <1>d, UnreadIsContent DEF Passed
<1>4. new \in Seq(Word) /\ kept' = kept \o new /\ arrived' \in Word
  <2>1. kept' = IF push THEN Append(kept, arrived + 1) ELSE kept
    BY DEF Fifo
  <2>2. arrived' \in Word
    BY <1>t, <1>n DEF Fifo, Word
  <2>3. CASE push
    <3>1. new = <<byte>> /\ byte = arrived + 1
      BY <2>3, <1>d
    <3>2. kept' = Append(kept, byte) /\ new \in Seq(Word)
      BY <3>1, <2>1, <2>3, <1>d
    <3> QED BY <3>1, <3>2, <2>2, <1>d, <1>t, Appended, Zenon
  <2>4. CASE ~push
    <3>1. new = <<>> /\ kept' = kept
      BY <2>1, <2>4, <1>d
    <3>2. kept \o <<>> = kept /\ <<>> \in Seq(Word)
      BY <1>t, ConcatEmptySeq
    <3> QED BY <3>1, <3>2, <2>2
  <2> QED BY <2>3, <2>4, <2>2
<1>5. /\ given' = IF Sampled THEN Append(given, Head(Unread)) ELSE given
      /\ res_pop' <=> Sampled
      /\ Sampled => ~res_pop /\ arbBusy /\ res_count # 0
      /\ res_pop' \in BOOLEAN
  BY <1>t, <1>u DEF Observe, Fifo, Sampled
<1>g. given \in Seq(Word) /\ new \in Seq(Word)
  BY <1>t, <1>4
<1> HIDE DEF new
<1>6. CASE Sampled
  <2>1. /\ Unread # <<>> /\ Head(Unread) \in Word /\ Tail(Unread) \in Seq(Word)
        /\ kept = given \o Unread
    BY <1>6, <1>5, <1>t, <1>u, HeadTailProperties
  <2>2. Unread' = Unread \o new
    BY <1>3, <1>5, <1>6
  <2>3. Unread' # <<>> /\ Tail(Unread') = Tail(Unread) \o new
    BY <2>1, <2>2, <1>u, <1>4, TailOfConcat
  <2>4. given' = Append(given, Head(Unread)) /\ given' \in Seq(Word)
    BY <2>1, <1>5, <1>6, <1>t, Appended
  <2>5. given' \o Tail(Unread) = given \o Unread
    BY <2>1, <2>4, <1>g, <1>u, HeadMoved
  <2>6. given' \o (Tail(Unread) \o new) = (given' \o Tail(Unread)) \o new
    <3>1. given' \in Seq(Word) /\ Tail(Unread) \in Seq(Word) /\ new \in Seq(Word)
      BY <2>1, <2>4, <1>g
    <3> QED BY <3>1, Associative, Zenon
  <2>7. given' \o Tail(Unread') = kept'
    BY <2>1, <2>3, <2>5, <2>6, <1>4
  <2>8. kept' \in Seq(Word)
    BY <1>4, <1>t, ConcatProperties
  <2>9. res_count' # 0
    <3>1. dn = 0
      BY <1>5, <1>6, <1>d
    <3>2. res_count' = res_count + up - dn
      BY <1>1 DEF RingStep
    <3> QED BY <3>1, <3>2, <1>5, <1>6, <1>t, <1>d
  <2> QED BY <2>4, <2>7, <2>8, <2>9, <1>2, <1>4, <1>5, <1>6 DEF FifoOK, ResultsReadOnce
<1>7. CASE ~Sampled
  <2> DEFINE left == IF res_pop THEN Tail(Unread) ELSE Unread
  <2>1. left \in Seq(Word) /\ given \o left = kept /\ Unread' = left \o new
    BY <1>3, <1>t, <1>u, HeadTailProperties
  <2> HIDE DEF left
  <2>2. given \o (left \o new) = (given \o left) \o new
    <3>1. left \in Seq(Word)
      BY <2>1
    <3> QED BY <3>1, <1>g, Associative, Zenon
  <2>3. given' = given /\ ~res_pop'
    BY <1>5, <1>7
  <2>4. given' \o Unread' = kept' /\ kept' \in Seq(Word)
    BY <2>1, <2>2, <2>3, <1>4, <1>t, ConcatProperties
  <2> QED BY <2>3, <2>4, <1>2, <1>4, <1>5, <1>t DEF FifoOK, ResultsReadOnce
<1> QED BY <1>5, <1>6, <1>7

-----------------------------------------------------------------------------
LEMMA RdataStep ==
    ASSUME PathInv, Arb
    PROVE  rdata' \in [Master -> 0..Results]
<1>1. /\ rdata \in [Master -> 0..Results] /\ res_fifo[res_rd] \in 0..Results /\ 0 \in 0..Results
  BY PathAssumption DEF PathInv, PathTyped, TypeOK
<1>2. \/ rdata' = rdata
      \/ rdata' = [rdata EXCEPT ![owner] = IF slv_op = "result" THEN res_fifo[res_rd] ELSE 0]
  BY DEF Arb, ArbGrant, ArbIdle, ArbAnswer
<1> QED BY <1>1, <1>2

LEMMA NextPathInv == PathInv /\ [Next]_vars => PathInv'
<1> SUFFICES ASSUME PathInv, [Next]_vars PROVE PathInv'
  OBVIOUS
<1>1. CASE Next
  <2>1. PICK valid \in BOOLEAN :
          Masters /\ Arb /\ Observe /\ (valid => arrived < Results) /\ Fifo(valid)
    BY <1>1 DEF Next
  <2>2. TypeOK
    BY DEF PathInv, PathTyped
  <2>3. /\ st' \in [Master -> {"IDLE", "HDR", "WAIT"}] /\ st'["cpu"] # "HDR"
        /\ op' \in [Master -> Op] /\ hdr' \in 0..HdrCycles
    BY <2>1, <2>2, MastersStep
  <2>4. /\ ArbOK' /\ AnswerIsOwn' /\ TurnOK'
        /\ fresh' \in [Master -> BOOLEAN] /\ passed' \in [Master -> 0..1]
        /\ grant' \in Master /\ arbBusy' \in BOOLEAN /\ owner' \in Master
        /\ slv_valid' \in BOOLEAN /\ slv_op' \in Op /\ ready' \in [Master -> BOOLEAN]
        /\ arbBusy => ~arbBusy'
    BY <2>1, ArbStep
  <2>5. FifoOK' /\ res_pop' \in BOOLEAN
    BY <2>1, <2>4, FifoStep
  <2>6. rdata' \in [Master -> 0..Results]
    BY <2>1, RdataStep
  <2>7. /\ res_fifo' \in [0..(FifoBytes - 1) -> 0..Results]
        /\ res_rd' \in 0..(FifoBytes - 1) /\ res_wr' \in 0..(FifoBytes - 1)
        /\ res_count' \in 0..FifoBytes
    BY <2>5 DEF FifoOK, RingState, Memory, Word
  <2>8. TypeOK'
    BY <2>3, <2>4, <2>5, <2>6, <2>7 DEF TypeOK
  <2> QED BY <2>4, <2>5, <2>8 DEF PathInv, PathTyped
<1>2. CASE UNCHANGED vars
  <2>1. PathTyped' /\ ArbOK' /\ AnswerIsOwn' /\ TurnOK'
    BY <1>2 DEF vars, masters, arb, fifo, history, PathInv, PathTyped, TypeOK, ArbOK, AnswerIsOwn,
                TurnOK
  <2>2. FifoOK'
    BY <1>2 DEF vars, arb, fifo, history, PathInv, FifoOK, ResultsReadOnce, Unread
  <2> QED BY <2>1, <2>2 DEF PathInv
<1> QED BY <1>1, <1>2

LEMMA Inductive == TopSpec => []PathInv
<1>1. TopInit => PathInv
  BY InitPathInv DEF TopInit
<1>2. PathInv /\ [TopNext]_topVars => PathInv'
  <2>1. [TopNext]_topVars => [Next]_vars
    BY DEF TopNext, topVars
  <2> QED BY <2>1, NextPathInv
<1> QED BY <1>1, <1>2, PTL DEF TopSpec

-----------------------------------------------------------------------------
(* Every byte the result FIFO has taken is read once and in order, though  *)
(* its pop comes a cycle after the sample and both masters read            *)
(* (pnm_host_bridge ROUTE_RESULT behind pnm_arb).                          *)
THEOREM ReadsOnce == TopSpec => []ResultsReadOnce
<1>1. PathInv => ResultsReadOnce
  BY DEF PathInv, FifoOK
<1> QED BY <1>1, Inductive, PTL

(* A master is answered with its own current access, never with that of a  *)
(* frame it has abandoned (pnm_arb, pi_bridge F_RDWAIT and F_WRWAIT).      *)
THEOREM AnswersOwn == TopSpec => []AnswerIsOwn
<1>1. PathInv => AnswerIsOwn
  BY DEF PathInv
<1> QED BY <1>1, Inductive, PTL

(* pnm_arb passes a waiting master over at most once.                      *)
THEOREM PassesOnce == TopSpec => []PassedOnce
<1>1. PathInv => PassedOnce
  BY DEF PathInv, PathTyped, PassedOnce
<1> QED BY <1>1, Inductive, PTL
-----------------------------------------------------------------------------
(* The flit builder.                                                       *)
(* Bytes the CRC covers, bytes of a packet, bytes with their markers.      *)
Covered == ({"layer", "module"} \X Dest) \cup {<<"ctrl">>} \cup ({"lo", "hi"} \X Nat) \cup Data
OnSpine == Covered \cup ({"crchi", "crclo"} \X Seq(Covered))
Flits   == [byte : OnSpine, sop : BOOLEAN, eop : BOOLEAN]

CoveredOf(d, payload) == Tail(Header(d, Len(payload))) \o payload

-----------------------------------------------------------------------------
(* A prefix and the next element are the next prefix.                      *)
LEMMA NextPrefix ==
    ASSUME NEW S, NEW s \in Seq(S), NEW k \in 0..(Len(s) - 1)
    PROVE  /\ SubSeq(s, 1, k) \o <<s[k + 1]>> = SubSeq(s, 1, k + 1)
           /\ Append(SubSeq(s, 1, k), s[k + 1]) = SubSeq(s, 1, k + 1)
<1>1. k + 1 \in 1..Len(s) /\ 1 \in 1..Len(s) /\ k + 1 - 1 = k /\ s[k + 1] \in S
  BY ElementOfSeq
<1>2. SubSeq(s, 1, k + 1) = SubSeq(s, 1, k + 1 - 1) \o <<s[k + 1]>>
  BY <1>1, SubSeqRecursiveSecond
<1>3. SubSeq(s, 1, k) \in Seq(S)
  <2>1. 1 \in Int /\ k \in Int /\ \A i \in 1..k : s[i] \in S
    BY ElementOfSeq
  <2> QED BY <2>1, SubSeqProperties
<1>4. Append(SubSeq(s, 1, k), s[k + 1]) = SubSeq(s, 1, k) \o <<s[k + 1]>>
  BY <1>1, <1>3, AppendIsConcat
<1> QED BY <1>1, <1>2, <1>4

LEMMA PrefixOf ==
    ASSUME NEW S, NEW s \in Seq(S), NEW k \in 0..Len(s)
    PROVE  SubSeq(s, 1, k) \in Seq(S) /\ Len(SubSeq(s, 1, k)) = k
<1>1. 1 \in Int /\ k \in Int /\ \A i \in 1..k : s[i] \in S
  BY ElementOfSeq
<1>2. /\ SubSeq(s, 1, k) \in Seq(S)
      /\ Len(SubSeq(s, 1, k)) = IF 1 <= k THEN k - 1 + 1 ELSE 0
  BY <1>1, SubSeqProperties
<1> QED BY <1>2

(* The elements of two sequences in a row.                                 *)
IsJoin(s, t, u, S) ==
    /\ u \in Seq(S) /\ Len(u) = Len(s) + Len(t)
    /\ \A i \in 1..Len(s) : u[i] = s[i]
    /\ \A i \in 1..Len(t) : u[Len(s) + i] = t[i]

LEMMA Joined ==
    ASSUME NEW S, NEW s \in Seq(S), NEW t \in Seq(S)
    PROVE  IsJoin(s, t, s \o t, S)
<1>1. /\ s \o t \in Seq(S) /\ Len(s \o t) = Len(s) + Len(t)
      /\ \A i \in 1..(Len(s) + Len(t)) : (s \o t)[i] = IF i <= Len(s) THEN s[i] ELSE t[i - Len(s)]
  BY ConcatProperties
<1>2. Len(s) \in Nat /\ Len(t) \in Nat
  OBVIOUS
<1>3. ASSUME NEW i \in 1..Len(s) PROVE (s \o t)[i] = s[i]
  <2>1. i \in 1..(Len(s) + Len(t)) /\ i <= Len(s)
    BY <1>2
  <2> QED BY <2>1, <1>1
<1>4. ASSUME NEW i \in 1..Len(t) PROVE (s \o t)[Len(s) + i] = t[i]
  <2>1. /\ Len(s) + i \in 1..(Len(s) + Len(t)) /\ ~(Len(s) + i <= Len(s))
        /\ (Len(s) + i) - Len(s) = i
    BY <1>2
  <2> QED BY <2>1, <1>1
<1> QED BY <1>1, <1>3, <1>4 DEF IsJoin

-----------------------------------------------------------------------------
(* The bytes of a packet, one by one.                                      *)
LEMMA HeaderBytes ==
    ASSUME NEW d \in Dest, NEW n \in Nat
    PROVE  /\ Header(d, n) \in Seq(Covered) /\ Len(Header(d, n)) = 5
           /\ Tail(Header(d, n)) \in Seq(Covered) /\ Len(Tail(Header(d, n))) = 4
           /\ \A i \in 1..4 : Tail(Header(d, n))[i] = Header(d, n)[i + 1]
<1> DEFINE h == Header(d, n)
<1>1. /\ <<"layer", d>> \in Covered /\ <<"module", d>> \in Covered /\ <<"ctrl">> \in Covered
      /\ <<"lo", n>> \in Covered /\ <<"hi", n>> \in Covered
  BY DEF Covered
<1>2. h \in Seq(Covered) /\ Len(h) = 5
  BY <1>1 DEF Header
<1> HIDE DEF h
<1>3. h # <<>>
  BY <1>2
<1>4. /\ Tail(h) \in Seq(Covered) /\ Len(Tail(h)) = Len(h) - 1
      /\ \A i \in 1..Len(Tail(h)) : Tail(h)[i] = h[i + 1]
  BY <1>2, <1>3, HeadTailProperties
<1> DEFINE t == Tail(h)
<1>5. /\ t \in Seq(Covered) /\ Len(t) = Len(h) - 1
      /\ \A i \in 1..Len(t) : t[i] = h[i + 1]
  BY <1>4
<1> HIDE DEF t
<1>6. Len(t) = 4 /\ \A i \in 1..4 : t[i] = h[i + 1]
  BY <1>2, <1>5
<1> QED BY <1>2, <1>5, <1>6 DEF h, t

LEMMA CoveredBytes ==
    ASSUME NEW d \in Dest, NEW payload \in Seq(Data)
    PROVE  LET n == Len(payload)
               c == CoveredOf(d, payload)
           IN  /\ c \in Seq(Covered) /\ Len(c) = n + 4
               /\ \A i \in 1..4 : c[i] = Header(d, n)[i + 1]
               /\ \A j \in 1..n : c[4 + j] = payload[j]
<1> DEFINE n == Len(payload)
           t == Tail(Header(d, n))
<1>1. n \in Nat /\ payload \in Seq(Covered)
  BY SeqMonotonic DEF Covered
<1>2. t \in Seq(Covered) /\ Len(t) = 4 /\ \A i \in 1..4 : t[i] = Header(d, n)[i + 1]
  BY <1>1, HeaderBytes
<1> HIDE DEF n, t
<1>3. /\ t \o payload \in Seq(Covered) /\ Len(t \o payload) = Len(t) + Len(payload)
      /\ \A i \in 1..Len(t) : (t \o payload)[i] = t[i]
      /\ \A i \in 1..Len(payload) : (t \o payload)[Len(t) + i] = payload[i]
  <2>1. IsJoin(t, payload, t \o payload, Covered)
    BY <1>1, <1>2, Joined
  <2> QED BY <2>1, Zenon DEF IsJoin
<1>4. CoveredOf(d, payload) = t \o payload /\ Len(payload) = n
  BY DEF CoveredOf, n, t
<1>5. /\ Len(t \o payload) = n + 4
      /\ \A i \in 1..4 : (t \o payload)[i] = Header(d, n)[i + 1]
      /\ \A j \in 1..n : (t \o payload)[4 + j] = payload[j]
  BY <1>1, <1>2, <1>3, <1>4
<1> QED BY <1>3, <1>4, <1>5 DEF n

LEMMA PacketBytes ==
    ASSUME NEW d \in Dest, NEW payload \in Seq(Data)
    PROVE  LET n == Len(payload)
               c == CoveredOf(d, payload)
               w == Packet(d, payload)
           IN  /\ w \in Seq(Flits) /\ Len(w) = n + 7
               /\ \A i \in 1..5 : w[i] = Flit(Header(d, n)[i], i = 1, FALSE)
               /\ \A j \in 1..n : w[5 + j] = Flit(payload[j], FALSE, FALSE)
               /\ w[n + 6] = Flit(<<"crchi", c>>, FALSE, FALSE)
               /\ w[n + 7] = Flit(<<"crclo", c>>, FALSE, TRUE)
<1> DEFINE n == Len(payload)
           c == CoveredOf(d, payload)
           h == Header(d, n)
           z == << <<"crchi", c>>, <<"crclo", c>> >>
           a == h \o payload \o z
<1>1. n \in Nat /\ payload \in Seq(OnSpine) /\ Covered \subseteq OnSpine
  BY SeqMonotonic DEF Covered, OnSpine
<1>2. h \in Seq(OnSpine) /\ Len(h) = 5
  BY <1>1, HeaderBytes, SeqMonotonic
<1>3. z \in Seq(OnSpine) /\ Len(z) = 2 /\ z[1] = <<"crchi", c>> /\ z[2] = <<"crclo", c>>
  <2>1. c \in Seq(Covered)
    BY CoveredBytes
  <2> HIDE DEF c
  <2>2. <<"crchi", c>> \in OnSpine /\ <<"crclo", c>> \in OnSpine
    BY <2>1 DEF OnSpine
  <2> QED BY <2>2
<1>p. Packet(d, payload) = [i \in 1..Len(a) |-> Flit(a[i], i = 1, i = Len(a))]
  BY DEF Packet, CoveredOf
<1> HIDE DEF c, h, z
<1> DEFINE hp == h \o payload
<1>4. /\ hp \in Seq(OnSpine) /\ Len(hp) = Len(h) + Len(payload)
      /\ \A i \in 1..Len(h) : hp[i] = h[i]
      /\ \A i \in 1..Len(payload) : hp[Len(h) + i] = payload[i]
  <2>1. IsJoin(h, payload, h \o payload, OnSpine)
    BY <1>1, <1>2, Joined
  <2> QED BY <2>1, Zenon DEF IsJoin
<1> HIDE DEF hp
<1>5. /\ hp \o z \in Seq(OnSpine) /\ Len(hp \o z) = Len(hp) + Len(z)
      /\ \A i \in 1..Len(hp) : (hp \o z)[i] = hp[i]
      /\ \A i \in 1..Len(z) : (hp \o z)[Len(hp) + i] = z[i]
  <2>1. IsJoin(hp, z, hp \o z, OnSpine)
    BY <1>3, <1>4, Joined
  <2> QED BY <2>1, Zenon DEF IsJoin
<1>6. a = hp \o z
  BY DEF hp
<1>l. Len(payload) = n /\ Len(h) = 5 /\ Len(hp) = 5 + n /\ Len(z) = 2
  BY <1>2, <1>3, <1>4
<1> HIDE DEF a, n
<1>7. \A i \in 1..5 : a[i] = h[i]
  <2> TAKE i \in 1..5
  <2>1. i \in 1..(5 + n)
    BY <1>1
  <2> QED BY <2>1, <1>4, <1>5, <1>6, <1>l
<1>8. \A j \in 1..n : a[5 + j] = payload[j]
  <2> TAKE j \in 1..n
  <2>1. 5 + j \in 1..(5 + n)
    BY <1>1
  <2>2. a[5 + j] = hp[5 + j]
    BY <2>1, <1>5, <1>6, <1>l
  <2>3. hp[5 + j] = payload[j]
    BY <1>4, <1>l
  <2> QED BY <2>2, <2>3
<1>9. a[n + 6] = <<"crchi", c>> /\ a[n + 7] = <<"crclo", c>>
  <2>1. /\ 1 \in 1..2 /\ 2 \in 1..2 /\ n + 6 = (5 + n) + 1 /\ n + 7 = (5 + n) + 2
    BY <1>1
  <2>2. a[(5 + n) + 1] = z[1] /\ a[(5 + n) + 2] = z[2]
    BY <2>1, <1>5, <1>6, <1>l
  <2> QED BY <2>1, <2>2, <1>3
<1>m. a \in Seq(OnSpine) /\ Len(a) = n + 7
  BY <1>1, <1>5, <1>6, <1>l
<1> DEFINE w == Packet(d, payload)
<1>10. /\ DOMAIN w = 1..(n + 7)
       /\ \A i \in 1..(n + 7) : w[i] = Flit(a[i], i = 1, i = n + 7)
  BY <1>p, <1>m
<1>11. \A i \in 1..(n + 7) : Flit(a[i], i = 1, i = n + 7) \in Flits
  BY <1>m, ElementOfSeq DEF Flit, Flits
<1>12. w \in Seq(Flits) /\ Len(w) = n + 7
  BY <1>1, <1>m, <1>p, <1>11
<1> HIDE DEF w
<1>13. \A i \in 1..5 : w[i] = Flit(h[i], i = 1, FALSE)
  <2> TAKE i \in 1..5
  <2>1. i \in 1..(n + 7) /\ (i = n + 7) = FALSE
    BY <1>1
  <2> QED BY <2>1, <1>7, <1>10
<1>14. \A j \in 1..n : w[5 + j] = Flit(payload[j], FALSE, FALSE)
  <2> TAKE j \in 1..n
  <2>1. 5 + j \in 1..(n + 7) /\ (5 + j = n + 7) = FALSE /\ (5 + j = 1) = FALSE
    BY <1>1
  <2>2. w[5 + j] = Flit(a[5 + j], 5 + j = 1, 5 + j = n + 7)
    BY <2>1, <1>10
  <2> QED BY <2>1, <2>2, <1>8
<1>15. w[n + 6] = Flit(<<"crchi", c>>, FALSE, FALSE)
  <2>1. n + 6 \in 1..(n + 7) /\ (n + 6 = n + 7) = FALSE /\ (n + 6 = 1) = FALSE
    BY <1>1
  <2> QED BY <2>1, <1>9, <1>10
<1>16. w[n + 7] = Flit(<<"crclo", c>>, FALSE, TRUE)
  <2>1. n + 7 \in 1..(n + 7) /\ (n + 7 = n + 7) = TRUE /\ (n + 7 = 1) = FALSE
    BY <1>1
  <2> QED BY <2>1, <1>9, <1>10
<1> QED BY <1>12, <1>13, <1>14, <1>15, <1>16 DEF w, n, c, h

-----------------------------------------------------------------------------
(* The inductive invariant.                                                *)

(* What is staged is what has been written since the last trigger.         *)
RegsOK ==
    /\ route_dest \in Dest /\ route_len \in 0..(Buf - 1)
    /\ route_payload \in [0..(Buf - 1) -> Data] /\ route_wpos \in 0..(Buf - 1)
    /\ staged \in Seq(Data) /\ Len(staged) = route_wpos
    /\ \A i \in 1..route_wpos : staged[i] = route_payload[i - 1]

FbOK ==
    /\ fb_dest \in Dest /\ fb_len \in 0..(Buf - 1)
    /\ fb_state \in {"IDLE", "HDR", "PAYLOAD", "CRC"}
    /\ fb_state = "HDR" => fb_pos \in 0..4
    /\ fb_state = "PAYLOAD" => fb_pos \in 0..(fb_len - 1)
    /\ fb_state \in {"IDLE", "CRC"} => fb_pos \in 0..1

(* The payload of the packet being sent, bytes presented of the packet,    *)
(* bytes folded into its CRC.                                              *)
Payload == [i \in 1..fb_len |-> route_payload[i - 1]]

Done == CASE fb_state = "HDR"     -> fb_pos
          [] fb_state = "PAYLOAD" -> 5 + fb_pos
          [] OTHER                -> 5 + fb_len + fb_pos

Folded == CASE fb_state = "HDR"     -> fb_pos - 1
            [] fb_state = "PAYLOAD" -> 4 + fb_pos
            [] OTHER                -> 4 + fb_len

SentOK ==
    /\ want \in Seq(Flits) /\ sent \in Seq(Flits) /\ out \in Seq(Flits)
    /\ Len(sent) <= Len(want) /\ sent = SubSeq(want, 1, Len(sent))
    /\ ~busy => sent \o out = want

BusyOK == busy =>
    /\ want = Packet(fb_dest, Payload)
    /\ sent \o out = SubSeq(want, 1, Done)
    /\ fb_crc = SubSeq(CoveredOf(fb_dest, Payload), 1, Folded)

RangeOK == RegsOK /\ FbOK /\ Len(out) <= 1 /\ gap \in BOOLEAN

-----------------------------------------------------------------------------
(* The registers: nothing of a payload changes while it is being sent.     *)
LEMMA RegsKeep ==
    ASSUME RegsOK, Access
    PROVE  RegsOK' /\ (busy => route_payload' = route_payload)
<1>1. CASE OtherAccess \/ SetDest \/ SetLen
  BY <1>1 DEF OtherAccess, SetDest, SetLen, regs, RegsOK
<1>2. CASE WriteData
  <2>1. CASE ~AcceptsData /\ UNCHANGED regs
    BY <2>1 DEF regs, RegsOK
  <2>2. CASE AcceptsData /\ ~(UNCHANGED regs)
    <3>1. PICK d \in Data :
            /\ route_payload' = [route_payload EXCEPT ![route_wpos] = d]
            /\ staged' = IF busy THEN staged ELSE Append(staged, d)
            /\ route_wpos' = route_wpos + 1
            /\ UNCHANGED <<route_dest, route_len>>
      BY <1>2, <2>2 DEF WriteData
    <3>2. ~busy /\ route_wpos # Buf - 1
      BY <2>2 DEF AcceptsData
    <3>3. route_wpos' \in 0..(Buf - 1) /\ route_payload' \in [0..(Buf - 1) -> Data]
      BY <3>1, <3>2, BridgeAssumption DEF RegsOK
    <3>4. staged' = Append(staged, d)
      BY <3>1, <3>2
    <3>5. /\ staged' \in Seq(Data) /\ Len(staged') = Len(staged) + 1
          /\ \A i \in 1..Len(staged) : staged'[i] = staged[i]
          /\ staged'[Len(staged) + 1] = d
      BY <3>4, AppendProperties DEF RegsOK
    <3>6. ASSUME NEW i \in 1..route_wpos'
          PROVE  staged'[i] = route_payload'[i - 1]
      <4>1. i \in 1..(route_wpos + 1) /\ route_wpos \in Nat
        BY <3>1, BridgeAssumption DEF RegsOK
      <4>2. CASE i = route_wpos + 1
        <5>1. i - 1 = route_wpos /\ route_wpos \in 0..(Buf - 1)
          BY <4>1, <4>2 DEF RegsOK
        <5>2. route_payload'[route_wpos] = d
          BY <3>1, <5>1 DEF RegsOK
        <5> QED BY <5>1, <5>2, <3>5, <4>2 DEF RegsOK
      <4>3. CASE i # route_wpos + 1
        <5>1. i \in 1..route_wpos /\ i - 1 \in 0..(Buf - 1) /\ i - 1 # route_wpos
          BY <4>1, <4>3, BridgeAssumption DEF RegsOK
        <5>2. route_payload'[i - 1] = route_payload[i - 1]
          BY <3>1, <5>1 DEF RegsOK
        <5>3. staged[i] = route_payload[i - 1] /\ Len(staged) = route_wpos
          BY <5>1 DEF RegsOK
        <5> QED BY <5>1, <5>2, <5>3, <3>5
      <4> QED BY <4>2, <4>3
    <3>7. Len(staged') = route_wpos'
      BY <3>1, <3>5 DEF RegsOK
    <3> QED BY <3>1, <3>2, <3>3, <3>5, <3>6, <3>7 DEF RegsOK
  <2>3. CASE AcceptsData /\ UNCHANGED regs
    BY <2>3 DEF regs, RegsOK
  <2> QED BY <1>2, <2>1, <2>2, <2>3 DEF WriteData
<1> QED BY <1>1, <1>2 DEF Access

(* The builder stays within the header, the payload and the CRC.           *)
LEMMA FbKeep ==
    ASSUME FbOK, NEW r, Build(r)
    PROVE  FbOK' /\ Len(out') <= 1
<1>1. CASE BuildIdle \/ BuildStalled(r)
  BY <1>1 DEF BuildIdle, BuildStalled, fb, FbOK
<1>2. CASE BuildHeader(r)
  <2>1. out' = <<Flit(Header(fb_dest, fb_len)[fb_pos + 1], fb_pos = 0, FALSE)>>
    BY <1>2 DEF BuildHeader
  <2>2. Len(out') <= 1
    BY <2>1
  <2>3. /\ fb_state = "HDR" /\ fb_dest' = fb_dest /\ fb_len' = fb_len
        /\ IF fb_pos < 4
           THEN fb_pos' = fb_pos + 1 /\ fb_state' = fb_state
           ELSE fb_pos' = 0 /\ fb_state' = IF fb_len = 0 THEN "CRC" ELSE "PAYLOAD"
    BY <1>2 DEF BuildHeader
  <2>4. FbOK'
    BY <2>3, BridgeAssumption DEF FbOK
  <2> QED BY <2>2, <2>4
<1>3. CASE BuildPayload(r)
  <2>1. out' = <<Flit(route_payload[fb_pos % Buf], FALSE, FALSE)>>
    BY <1>3 DEF BuildPayload
  <2>2. Len(out') <= 1
    BY <2>1
  <2>3. /\ fb_state = "PAYLOAD" /\ fb_dest' = fb_dest /\ fb_len' = fb_len
        /\ IF fb_pos = fb_len - 1
           THEN fb_pos' = 0 /\ fb_state' = "CRC"
           ELSE fb_pos' = fb_pos + 1 /\ fb_state' = fb_state
    BY <1>3 DEF BuildPayload, LastPayload
  <2>4. FbOK'
    BY <2>3, BridgeAssumption DEF FbOK
  <2> QED BY <2>2, <2>4
<1>4. CASE BuildCrc(r)
  <2>1. /\ fb_state = "CRC" /\ fb_dest' = fb_dest /\ fb_len' = fb_len
        /\ \/ fb_pos = 0 /\ fb_pos' = 1 /\ fb_state' = fb_state
           \/ fb_pos # 0 /\ fb_pos' = fb_pos /\ fb_state' = "IDLE"
    BY <1>4 DEF BuildCrc
  <2>2. FbOK'
    BY <2>1 DEF FbOK
  <2>3. \E f : out' = <<f>>
    BY <1>4 DEF BuildCrc
  <2>4. Len(out') <= 1
    BY <2>3
  <2> QED BY <2>2, <2>4
<1> QED BY <1>1, <1>2, <1>3, <1>4 DEF Build

LEMMA TriggerKeeps ==
    ASSUME RegsOK, Trigger
    PROVE  RegsOK' /\ FbOK' /\ Len(out') <= 1
<1>1. /\ fb_state' = "HDR" /\ fb_dest' = route_dest /\ fb_len' = route_len /\ fb_pos' = 0
      /\ route_wpos' = 0 /\ staged' = <<>> /\ out' = <<>>
      /\ UNCHANGED <<route_dest, route_len, route_payload>>
  BY DEF Trigger, Rewound
<1>2. RegsOK'
  BY <1>1, BridgeAssumption DEF RegsOK
<1>3. FbOK'
  BY <1>1 DEF RegsOK, FbOK
<1> QED BY <1>1, <1>2, <1>3

-----------------------------------------------------------------------------
(* What is known of the packet while it is being sent.                     *)
LEMMA WantBytes ==
    ASSUME RegsOK, FbOK, want = Packet(fb_dest, Payload)
    PROVE  LET c == CoveredOf(fb_dest, Payload)
           IN  /\ want \in Seq(Flits) /\ Len(want) = fb_len + 7
               /\ c \in Seq(Covered) /\ Len(c) = fb_len + 4
               /\ \A i \in 1..5 : want[i] = Flit(Header(fb_dest, fb_len)[i], i = 1, FALSE)
               /\ \A i \in 1..4 : c[i] = Header(fb_dest, fb_len)[i + 1]
               /\ \A j \in 1..fb_len : /\ want[5 + j] = Flit(route_payload[j - 1], FALSE, FALSE)
                                       /\ c[4 + j] = route_payload[j - 1]
               /\ want[fb_len + 6] = Flit(<<"crchi", c>>, FALSE, FALSE)
               /\ want[fb_len + 7] = Flit(<<"crclo", c>>, FALSE, TRUE)
<1>1. /\ fb_dest \in Dest /\ fb_len \in Nat
      /\ \A j \in 1..fb_len : route_payload[j - 1] \in Data
  BY BridgeAssumption DEF RegsOK, FbOK
<1>2. /\ Payload \in Seq(Data) /\ Len(Payload) = fb_len
      /\ \A j \in 1..fb_len : Payload[j] = route_payload[j - 1]
  BY <1>1 DEF Payload
<1> DEFINE n == Len(Payload)
           c == CoveredOf(fb_dest, Payload)
           w == Packet(fb_dest, Payload)
<1>3. /\ w \in Seq(Flits) /\ Len(w) = n + 7
      /\ \A i \in 1..5 : w[i] = Flit(Header(fb_dest, n)[i], i = 1, FALSE)
      /\ \A j \in 1..n : w[5 + j] = Flit(Payload[j], FALSE, FALSE)
      /\ w[n + 6] = Flit(<<"crchi", c>>, FALSE, FALSE)
      /\ w[n + 7] = Flit(<<"crclo", c>>, FALSE, TRUE)
  BY <1>1, <1>2, PacketBytes
<1>4. /\ c \in Seq(Covered) /\ Len(c) = n + 4
      /\ \A i \in 1..4 : c[i] = Header(fb_dest, n)[i + 1]
      /\ \A j \in 1..n : c[4 + j] = Payload[j]
  BY <1>1, <1>2, CoveredBytes
<1>5. n = fb_len /\ w = want
  BY <1>2
<1> HIDE DEF n, c, w
<1>6. /\ want \in Seq(Flits) /\ Len(want) = fb_len + 7
      /\ \A i \in 1..5 : want[i] = Flit(Header(fb_dest, fb_len)[i], i = 1, FALSE)
      /\ want[fb_len + 6] = Flit(<<"crchi", c>>, FALSE, FALSE)
      /\ want[fb_len + 7] = Flit(<<"crclo", c>>, FALSE, TRUE)
  BY <1>3, <1>5
<1>7. /\ c \in Seq(Covered) /\ Len(c) = fb_len + 4
      /\ \A i \in 1..4 : c[i] = Header(fb_dest, fb_len)[i + 1]
  BY <1>4, <1>5
<1>8. \A j \in 1..fb_len : /\ want[5 + j] = Flit(route_payload[j - 1], FALSE, FALSE)
                          /\ c[4 + j] = route_payload[j - 1]
  <2> TAKE j \in 1..fb_len
  <2>1. want[5 + j] = Flit(Payload[j], FALSE, FALSE) /\ c[4 + j] = Payload[j]
    BY <1>3, <1>4, <1>5
  <2>2. Payload[j] = route_payload[j - 1]
    BY <1>2
  <2> QED BY <2>1, <2>2
<1> QED BY <1>6, <1>7, <1>8, Zenon DEF c

(* The next byte of the packet goes out.                                   *)
LEMMA Emits ==
    ASSUME SentOK, NEW k \in 0..(Len(want) - 1), sent \o out = SubSeq(want, 1, k),
           sent' = sent \o out, want' = want, out' = <<want[k + 1]>>
    PROVE  /\ want' \in Seq(Flits) /\ sent' \in Seq(Flits) /\ out' \in Seq(Flits)
           /\ Len(sent') <= Len(want') /\ sent' = SubSeq(want', 1, Len(sent'))
           /\ sent' \o out' = SubSeq(want, 1, k + 1)
<1>1. want \in Seq(Flits) /\ Len(want) \in Nat
  BY DEF SentOK
<1>2. k \in 0..Len(want) /\ k + 1 \in 1..Len(want)
  BY <1>1
<1>3. SubSeq(want, 1, k) \in Seq(Flits) /\ Len(SubSeq(want, 1, k)) = k
  BY <1>1, <1>2, PrefixOf
<1>4. want[k + 1] \in Flits
  BY <1>1, <1>2, ElementOfSeq
<1>5. SubSeq(want, 1, k) \o <<want[k + 1]>> = SubSeq(want, 1, k + 1)
  BY <1>1, NextPrefix
<1>6. sent' = SubSeq(want, 1, k)
  OBVIOUS
<1>7. Len(sent') = k /\ sent' \in Seq(Flits)
  BY <1>3, <1>6
<1>8. out' \in Seq(Flits)
  BY <1>4
<1>9. sent' \o out' = SubSeq(want, 1, k + 1)
  BY <1>5, <1>6
<1>10. Len(sent') <= Len(want')
  BY <1>2, <1>7
<1> QED BY <1>1, <1>6, <1>7, <1>8, <1>9, <1>10

(* A byte of the packet that is not its last.                              *)
LEMMA StaysBusy ==
    ASSUME RegsOK, FbOK, SentOK, BusyOK, busy, FbOK', busy',
           route_payload' = route_payload, fb_dest' = fb_dest, fb_len' = fb_len,
           sent' = sent \o out, want' = want,
           Done \in 0..(Len(want) - 1), out' = <<want[Done + 1]>>, Done' = Done + 1,
           fb_crc' = SubSeq(CoveredOf(fb_dest, Payload), 1, Folded')
    PROVE  SentOK' /\ BusyOK'
<1>1. sent \o out = SubSeq(want, 1, Done) /\ want = Packet(fb_dest, Payload)
  BY DEF BusyOK
<1> DEFINE k == Done
<1>2. k \in 0..(Len(want) - 1) /\ out' = <<want[k + 1]>> /\ sent \o out = SubSeq(want, 1, k)
  BY <1>1
<1> HIDE DEF k
<1>3. /\ want' \in Seq(Flits) /\ sent' \in Seq(Flits) /\ out' \in Seq(Flits)
      /\ Len(sent') <= Len(want') /\ sent' = SubSeq(want', 1, Len(sent'))
      /\ sent' \o out' = SubSeq(want, 1, k + 1)
  BY <1>2, Emits
<1>4. Payload' = Payload
  BY DEF Payload
<1>5. Done' = k + 1
  BY DEF k
<1>6. SentOK'
  BY <1>3 DEF SentOK
<1>7. BusyOK'
  BY <1>1, <1>3, <1>4, <1>5 DEF BusyOK
<1> QED BY <1>6, <1>7

(* A byte of the header goes out, folded into the CRC unless it is the     *)
(* first.                                                                  *)
LEMMA HeaderKeeps ==
    ASSUME RegsOK, FbOK, SentOK, BusyOK, BuildHeader(TRUE), FbOK',
           route_payload' = route_payload, sent' = sent \o out, want' = want
    PROVE  SentOK' /\ BusyOK'
<1> DEFINE c == CoveredOf(fb_dest, Payload)
           b == Header(fb_dest, fb_len)[fb_pos + 1]
<1>1. /\ fb_state = "HDR" /\ fb_pos \in 0..4 /\ fb_len \in Nat
      /\ fb_dest' = fb_dest /\ fb_len' = fb_len
      /\ out' = <<Flit(b, fb_pos = 0, FALSE)>>
      /\ fb_crc' = IF fb_pos = 0 THEN <<>> ELSE Append(fb_crc, b)
      /\ IF fb_pos < 4
         THEN fb_pos' = fb_pos + 1 /\ fb_state' = fb_state
         ELSE fb_pos' = 0 /\ fb_state' = IF fb_len = 0 THEN "CRC" ELSE "PAYLOAD"
  BY BridgeAssumption DEF BuildHeader, FbOK
<1>2. busy /\ busy' /\ Done = fb_pos /\ Folded = fb_pos - 1
  BY <1>1 DEF busy, Done, Folded
<1>3. want = Packet(fb_dest, Payload) /\ fb_crc = SubSeq(c, 1, fb_pos - 1)
  BY <1>2 DEF BusyOK
<1>4. /\ want \in Seq(Flits) /\ Len(want) = fb_len + 7
      /\ c \in Seq(Covered) /\ Len(c) = fb_len + 4
      /\ \A i \in 1..5 : want[i] = Flit(Header(fb_dest, fb_len)[i], i = 1, FALSE)
      /\ \A i \in 1..4 : c[i] = Header(fb_dest, fb_len)[i + 1]
  BY <1>3, WantBytes
<1>5. fb_pos + 1 \in 1..5 /\ (fb_pos + 1 = 1) = (fb_pos = 0)
  BY <1>1
<1>6. want[fb_pos + 1] = Flit(b, fb_pos = 0, FALSE)
  <2>1. want[fb_pos + 1] = Flit(b, fb_pos + 1 = 1, FALSE)
    BY <1>4, <1>5
  <2> QED BY <2>1, <1>5
<1>7. Done' = fb_pos + 1 /\ Folded' = fb_pos
  BY <1>1 DEF Done, Folded
<1>8. fb_crc' = SubSeq(c, 1, fb_pos)
  <2>1. CASE fb_pos = 0
    <3>1. SubSeq(c, 1, 0) = <<>>
      BY SubSeqEmpty
    <3> QED BY <3>1, <2>1, <1>1
  <2>2. CASE fb_pos # 0
    <3>1. fb_pos \in 1..4 /\ fb_pos - 1 \in 0..(Len(c) - 1) /\ fb_pos - 1 + 1 = fb_pos
      BY <2>2, <1>1, <1>4
    <3>2. c[fb_pos] = b
      BY <3>1, <1>4
    <3> DEFINE k == fb_pos - 1
    <3>3. Append(SubSeq(c, 1, k), c[k + 1]) = SubSeq(c, 1, k + 1)
      <4>1. k \in 0..(Len(c) - 1) /\ c \in Seq(Covered)
        BY <3>1, <1>4
      <4> HIDE DEF k, c
      <4> QED BY <4>1, NextPrefix
    <3>4. k + 1 = fb_pos
      BY <3>1
    <3>5. fb_crc' = Append(SubSeq(c, 1, k), b)
      BY <2>2, <1>1, <1>3
    <3> HIDE DEF k, c, b
    <3> QED BY <3>2, <3>3, <3>4, <3>5
  <2> QED BY <2>1, <2>2
<1>9. Done \in 0..(Len(want) - 1) /\ out' = <<want[Done + 1]>> /\ Done' = Done + 1
  BY <1>1, <1>2, <1>4, <1>6, <1>7
<1>10. fb_crc' = SubSeq(CoveredOf(fb_dest, Payload), 1, Folded')
  BY <1>7, <1>8
<1> QED BY <1>1, <1>2, <1>9, <1>10, StaysBusy

(* A byte of the payload goes out, folded into the CRC.                    *)
LEMMA PayloadKeeps ==
    ASSUME RegsOK, FbOK, SentOK, BusyOK, BuildPayload(TRUE), FbOK',
           route_payload' = route_payload, sent' = sent \o out, want' = want
    PROVE  SentOK' /\ BusyOK'
<1> DEFINE c == CoveredOf(fb_dest, Payload)
           b == route_payload[fb_pos]
<1>0. fb_pos % Buf = fb_pos
  <2>1. Buf \in Nat \ {0} /\ fb_pos \in 0..(Buf - 1) /\ Buf * 0 + fb_pos = fb_pos
    BY BridgeAssumption DEF BuildPayload, FbOK
  <2>2. (Buf * 0 + fb_pos) % Buf = fb_pos
    BY <2>1, DivModUnique
  <2> QED BY <2>1, <2>2
<1>1. /\ fb_state = "PAYLOAD" /\ fb_pos \in 0..(fb_len - 1) /\ fb_len \in Nat
      /\ fb_dest' = fb_dest /\ fb_len' = fb_len
      /\ out' = <<Flit(b, FALSE, FALSE)>> /\ fb_crc' = Append(fb_crc, b)
      /\ IF fb_pos = fb_len - 1
         THEN fb_pos' = 0 /\ fb_state' = "CRC"
         ELSE fb_pos' = fb_pos + 1 /\ fb_state' = fb_state
  <2>1. fb_state = "PAYLOAD" /\ fb_pos \in 0..(fb_len - 1) /\ fb_len \in Nat
    BY BridgeAssumption DEF BuildPayload, FbOK
  <2>2. out' = <<Flit(b, FALSE, FALSE)>> /\ fb_crc' = Append(fb_crc, b)
    BY <1>0 DEF BuildPayload
  <2> QED BY <2>1, <2>2 DEF BuildPayload, LastPayload
<1>2. busy /\ busy' /\ Done = 5 + fb_pos /\ Folded = 4 + fb_pos
  BY <1>1 DEF busy, Done, Folded
<1>3. want = Packet(fb_dest, Payload) /\ fb_crc = SubSeq(c, 1, 4 + fb_pos)
  BY <1>2 DEF BusyOK
<1>4. /\ want \in Seq(Flits) /\ Len(want) = fb_len + 7
      /\ c \in Seq(Covered) /\ Len(c) = fb_len + 4
      /\ \A j \in 1..fb_len : /\ want[5 + j] = Flit(route_payload[j - 1], FALSE, FALSE)
                              /\ c[4 + j] = route_payload[j - 1]
  BY <1>3, WantBytes
<1>5. /\ fb_pos + 1 \in 1..fb_len /\ fb_pos + 1 - 1 = fb_pos
      /\ 5 + (fb_pos + 1) = 5 + fb_pos + 1 /\ 4 + (fb_pos + 1) = 4 + fb_pos + 1
  BY <1>1
<1>6. want[5 + fb_pos + 1] = Flit(b, FALSE, FALSE) /\ c[4 + fb_pos + 1] = b
  <2>1. /\ want[5 + (fb_pos + 1)] = Flit(route_payload[fb_pos + 1 - 1], FALSE, FALSE)
        /\ c[4 + (fb_pos + 1)] = route_payload[fb_pos + 1 - 1]
    <3> HIDE DEF c
    <3>1. PICK j \in 1..fb_len : j = fb_pos + 1
      BY <1>5
    <3>2. want[5 + j] = Flit(route_payload[j - 1], FALSE, FALSE) /\ c[4 + j] = route_payload[j - 1]
      BY <1>4
    <3>0. fb_pos \in Int /\ j \in Int
      BY <1>1, <3>1
    <3>3. want[5 + (fb_pos + 1)] = Flit(route_payload[fb_pos + 1 - 1], FALSE, FALSE)
      BY <3>0, <3>1, <3>2
    <3>4. c[4 + (fb_pos + 1)] = route_payload[fb_pos + 1 - 1]
      BY <3>0, <3>1, <3>2
    <3> QED BY <3>3, <3>4
  <2> HIDE DEF c
  <2> QED BY <2>1, <1>5
<1>7. Done' = 5 + fb_pos + 1 /\ Folded' = 4 + fb_pos + 1
  BY <1>1 DEF Done, Folded
<1>8. fb_crc' = SubSeq(c, 1, 4 + fb_pos + 1)
  <2> DEFINE k == 4 + fb_pos
  <2>1. Append(SubSeq(c, 1, k), c[k + 1]) = SubSeq(c, 1, k + 1)
    <3>1. k \in 0..(Len(c) - 1) /\ c \in Seq(Covered)
      BY <1>1, <1>4
    <3> HIDE DEF k, c
    <3> QED BY <3>1, NextPrefix
  <2> QED BY <2>1, <1>1, <1>3, <1>6
<1>9. Done \in 0..(Len(want) - 1) /\ out' = <<want[Done + 1]>> /\ Done' = Done + 1
  BY <1>1, <1>2, <1>4, <1>6, <1>7
<1>10. fb_crc' = SubSeq(CoveredOf(fb_dest, Payload), 1, Folded')
  BY <1>7, <1>8
<1> QED BY <1>1, <1>2, <1>9, <1>10, StaysBusy

(* The CRC goes out, and with its second byte the packet is complete.      *)
LEMMA CrcKeeps ==
    ASSUME RegsOK, FbOK, SentOK, BusyOK, BuildCrc(TRUE), FbOK',
           route_payload' = route_payload, sent' = sent \o out, want' = want
    PROVE  SentOK' /\ BusyOK'
<1> DEFINE c == CoveredOf(fb_dest, Payload)
<1>1. /\ fb_state = "CRC" /\ fb_pos \in 0..1 /\ fb_len \in Nat
      /\ fb_dest' = fb_dest /\ fb_len' = fb_len /\ fb_crc' = fb_crc
  BY BridgeAssumption DEF BuildCrc, FbOK
<1>2. busy /\ Done = 5 + fb_len + fb_pos /\ Folded = 4 + fb_len
  BY <1>1 DEF busy, Done, Folded
<1>3. /\ want = Packet(fb_dest, Payload) /\ fb_crc = SubSeq(c, 1, 4 + fb_len)
      /\ sent \o out = SubSeq(want, 1, Done)
  BY <1>2 DEF BusyOK
<1>4. /\ want \in Seq(Flits) /\ Len(want) = fb_len + 7
      /\ c \in Seq(Covered) /\ Len(c) = fb_len + 4
      /\ want[fb_len + 6] = Flit(<<"crchi", c>>, FALSE, FALSE)
      /\ want[fb_len + 7] = Flit(<<"crclo", c>>, FALSE, TRUE)
  BY <1>3, WantBytes
<1>5. fb_crc = c
  <2>1. SubSeq(c, 1, Len(c)) = c
    BY <1>4, SubSeqFull
  <2>2. Len(c) = 4 + fb_len
    BY <1>1, <1>4
  <2> HIDE DEF c
  <2> QED BY <2>1, <2>2, <1>3
<1>6. CASE fb_pos = 0
  <2>1. /\ out' = <<Flit(<<"crchi", c>>, FALSE, FALSE)>> /\ fb_pos' = 1
        /\ fb_state' = fb_state
    BY <1>5, <1>6 DEF BuildCrc
  <2>2. busy' /\ Done' = 6 + fb_len /\ Folded' = 4 + fb_len
    BY <2>1, <1>1 DEF busy, Done, Folded
  <2>3. Done \in 0..(Len(want) - 1) /\ Done + 1 = fb_len + 6 /\ Done' = Done + 1
    BY <1>1, <1>2, <1>4, <1>6, <2>2
  <2>4. out' = <<want[Done + 1]>>
    BY <2>1, <2>3, <1>4
  <2>5. fb_crc' = SubSeq(CoveredOf(fb_dest, Payload), 1, Folded')
    BY <2>2, <1>1, <1>3
  <2> QED BY <1>1, <1>2, <2>2, <2>3, <2>4, <2>5, StaysBusy
<1>7. CASE fb_pos = 1
  <2>1. out' = <<Flit(<<"crclo", c>>, FALSE, TRUE)>> /\ fb_state' = "IDLE"
    <3>1. fb_pos # 0
      BY <1>7
    <3> QED BY <3>1, <1>5 DEF BuildCrc
  <2> DEFINE k == Done
  <2>2. k \in 0..(Len(want) - 1) /\ k + 1 = fb_len + 7 /\ k + 1 = Len(want)
    BY <1>1, <1>2, <1>4, <1>7
  <2>3. out' = <<want[k + 1]>> /\ sent \o out = SubSeq(want, 1, k)
    BY <2>1, <2>2, <1>3, <1>4
  <2> HIDE DEF k
  <2>4. /\ want' \in Seq(Flits) /\ sent' \in Seq(Flits) /\ out' \in Seq(Flits)
        /\ Len(sent') <= Len(want') /\ sent' = SubSeq(want', 1, Len(sent'))
        /\ sent' \o out' = SubSeq(want, 1, k + 1)
    BY <2>2, <2>3, Emits
  <2>5. SubSeq(want, 1, Len(want)) = want
    BY <1>4, SubSeqFull
  <2>6. sent' \o out' = want'
    BY <2>2, <2>4, <2>5
  <2>7. ~(busy')
    BY <2>1 DEF busy
  <2> QED BY <2>4, <2>6, <2>7 DEF SentOK, BusyOK
<1> QED BY <1>1, <1>6, <1>7

-----------------------------------------------------------------------------
(* An edge of the clock.                                                   *)
LEMMA RangeStep == RangeOK /\ [BridgeNext]_bridgeVars => RangeOK'
<1> SUFFICES ASSUME RangeOK, [BridgeNext]_bridgeVars PROVE RangeOK'
  OBVIOUS
<1>1. CASE BridgeNext
  <2>1. PICK r \in SpineReady : Clock(r)
    BY <1>1 DEF BridgeNext
  <2>2. gap' \in BOOLEAN
    BY <2>1 DEF Clock
  <2>3. CASE Trigger
    BY <2>2, <2>3, TriggerKeeps DEF RangeOK
  <2>4. CASE Access /\ Build(r)
    BY <2>2, <2>4, RegsKeep, FbKeep DEF RangeOK
  <2> QED BY <2>1, <2>3, <2>4 DEF Clock, Access
<1>2. CASE UNCHANGED bridgeVars
  BY <1>2 DEF bridgeVars, regs, fb, RangeOK, RegsOK, FbOK
<1> QED BY <1>1, <1>2

LEMMA SentStep ==
    ASSUME SpineReady = {TRUE}
    PROVE  RangeOK /\ SentOK /\ BusyOK /\ [BridgeNext]_bridgeVars => SentOK' /\ BusyOK'
<1> SUFFICES ASSUME RangeOK, SentOK, BusyOK, [BridgeNext]_bridgeVars PROVE SentOK' /\ BusyOK'
  OBVIOUS
<1>r. RegsOK /\ FbOK /\ RegsOK' /\ FbOK'
  BY RangeStep DEF RangeOK
<1>1. CASE BridgeNext
  <2>1. Clock(TRUE)
    BY <1>1 DEF BridgeNext
  <2>2. CASE Trigger
    <3>1. /\ ~busy /\ fb_state' = "HDR" /\ fb_dest' = route_dest /\ fb_len' = route_len
          /\ fb_pos' = 0 /\ fb_crc' = <<>> /\ out' = <<>> /\ route_payload' = route_payload
          /\ want' = Packet(route_dest, [i \in 1..route_len |->
                        IF i <= Len(staged) THEN staged[i] ELSE route_payload[i - 1]])
      BY <2>2 DEF Trigger
    <3>2. sent' = <<>>
      BY <2>1, <2>2, <3>1 DEF Clock, Build, BuildIdle, BuildStalled, BuildHeader, BuildPayload,
                              BuildCrc, busy, fb
    <3>3. [i \in 1..route_len |-> IF i <= Len(staged) THEN staged[i] ELSE route_payload[i - 1]]
            = Payload'
      <4>1. \A i \in 1..route_len :
              (IF i <= Len(staged) THEN staged[i] ELSE route_payload[i - 1]) = route_payload[i - 1]
        BY <1>r, BridgeAssumption DEF RegsOK
      <4> QED BY <4>1, <3>1 DEF Payload
    <3>4. want' = Packet(fb_dest', Payload')
      BY <3>1, <3>3
    <3>5. want' \in Seq(Flits)
      <4>1. /\ fb_dest' \in Dest /\ fb_len' \in Nat
            /\ \A i \in 1..fb_len' : route_payload'[i - 1] \in Data
        BY <1>r, BridgeAssumption DEF RegsOK, FbOK
      <4>2. Payload' \in Seq(Data)
        BY <4>1 DEF Payload
      <4> QED BY <3>4, <4>1, <4>2, PacketBytes
    <3>6. busy' /\ Done' = 0 /\ Folded' = -1
      BY <3>1 DEF busy, Done, Folded
    <3>7. SubSeq(want', 1, 0) = <<>> /\ SubSeq(CoveredOf(fb_dest', Payload'), 1, -1) = <<>>
      BY SubSeqEmpty
    <3>8. SentOK'
      BY <3>1, <3>2, <3>5, <3>6, <3>7 DEF SentOK
    <3>9. sent' \o out' = <<>>
      BY <3>1, <3>2
    <3> QED BY <3>1, <3>4, <3>6, <3>7, <3>8, <3>9 DEF BusyOK
  <2>3. CASE Access /\ Build(TRUE) /\ sent' = sent \o Taken(TRUE) /\ UNCHANGED want
    <3>1. sent' = sent \o out /\ want' = want /\ (busy => route_payload' = route_payload)
      BY <2>3, <1>r, RegsKeep DEF Taken
    <3>2. CASE BuildIdle
      <4>1. ~busy /\ out' = <<>> /\ ~(busy')
        BY <3>2 DEF BuildIdle, busy, fb
      <4>2. sent \o out = want /\ want \in Seq(Flits)
        BY <4>1 DEF SentOK
      <4>3. sent' = want' /\ want' \in Seq(Flits)
        BY <3>1, <4>2
      <4>4. want' \o <<>> = want' /\ SubSeq(want', 1, Len(want')) = want'
        BY <4>3, ConcatEmptySeq, SubSeqFull
      <4>5. SentOK'
        BY <4>1, <4>3, <4>4 DEF SentOK
      <4> QED BY <4>1, <4>5 DEF BusyOK
    <3>3. CASE BuildHeader(TRUE)
      <4>1. busy
        BY <3>3 DEF BuildHeader, busy
      <4> QED BY <3>1, <3>3, <4>1, <1>r, HeaderKeeps
    <3>4. CASE BuildPayload(TRUE)
      <4>1. busy
        BY <3>4 DEF BuildPayload, busy
      <4> QED BY <3>1, <3>4, <4>1, <1>r, PayloadKeeps
    <3>5. CASE BuildCrc(TRUE)
      <4>1. busy
        BY <3>5 DEF BuildCrc, busy
      <4> QED BY <3>1, <3>5, <4>1, <1>r, CrcKeeps
    <3> QED BY <2>3, <3>2, <3>3, <3>4, <3>5 DEF Build, BuildStalled, Moves
  <2> QED BY <2>1, <2>2, <2>3 DEF Clock, Access
<1>2. CASE UNCHANGED bridgeVars
  BY <1>2 DEF bridgeVars, regs, fb, SentOK, BusyOK, busy, Done, Folded, Payload
<1> QED BY <1>1, <1>2

-----------------------------------------------------------------------------
LEMMA InitBridge == BridgeInit => RangeOK /\ SentOK /\ BusyOK
<1> SUFFICES ASSUME BridgeInit PROVE RangeOK /\ SentOK /\ BusyOK
  OBVIOUS
<1>1. /\ route_dest \in Dest /\ route_len = 0 /\ route_wpos = 0 /\ staged = <<>>
      /\ route_payload \in [0..(Buf - 1) -> Data]
      /\ fb_state = "IDLE" /\ fb_dest = route_dest /\ fb_len = 0 /\ fb_pos = 0
      /\ out = <<>> /\ gap = FALSE /\ want = <<>> /\ sent = <<>>
  BY DEF BridgeInit
<1>2. RangeOK
  <2>1. 0 \in 0..(Buf - 1) /\ 0 \in 0..1
    BY BridgeAssumption
  <2>2. RegsOK
    BY <1>1, <2>1 DEF RegsOK
  <2>3. FbOK
    BY <1>1, <2>1 DEF FbOK
  <2>4. Len(out) <= 1
    BY <1>1
  <2>5. gap \in BOOLEAN
    BY <1>1
  <2> QED BY <2>2, <2>3, <2>4, <2>5 DEF RangeOK
<1>3. ~busy
  BY <1>1 DEF busy
<1>4. SubSeq(<<>>, 1, 0) = <<>>
  BY SubSeqEmpty
<1>5. SentOK
  BY <1>1, <1>4 DEF SentOK
<1> QED BY <1>2, <1>3, <1>5 DEF BusyOK

LEMMA BridgeMoves == [TopNext]_topVars => [BridgeNext]_bridgeVars
  BY DEF TopNext, topVars

LEMMA RangeInv == TopSpec => []RangeOK
<1>1. TopInit => RangeOK
  BY InitBridge DEF TopInit
<1>2. RangeOK /\ [TopNext]_topVars => RangeOK'
  BY BridgeMoves, RangeStep
<1> QED BY <1>1, <1>2, PTL DEF TopSpec

(* Where the spine takes every byte at once, as every testbench of the     *)
(* repository ties it, the flit builder sends exactly the packet the       *)
(* registers asked for, with a CRC over what it sends, whatever the        *)
(* masters write meanwhile (pnm_host_bridge).                              *)
THEOREM PacketSent ==
    ASSUME SpineReady = {TRUE}
    PROVE  TopSpec => []PacketAsRequested
<1> DEFINE Inv == RangeOK /\ SentOK /\ BusyOK
<1>1. TopInit => Inv
  BY InitBridge DEF TopInit
<1>2. Inv /\ [TopNext]_topVars => Inv'
  BY BridgeMoves, RangeStep, SentStep
<1>3. Inv => PacketAsRequested
  BY DEF SentOK, PacketAsRequested, IsPrefix
<1> HIDE DEF Inv
<1> QED BY <1>1, <1>2, <1>3, PTL DEF TopSpec

(* The registers of pnm_host_bridge hold values of their widths and the    *)
(* builder never points past what it is sending, on any spine.             *)
THEOREM BridgeTypeCorrect == TopSpec => []BridgeTypeOK
<1>1. RangeOK => BridgeTypeOK
  <2> SUFFICES ASSUME RangeOK PROVE BridgeTypeOK
    OBVIOUS
  <2>1. <<fb_state, fb_pos>> \in ({"HDR"} \X (0..4)) \cup ({"PAYLOAD"} \X (0..(fb_len - 1)))
                               \cup ({"CRC"} \X {0, 1}) \cup ({"IDLE"} \X {0, 1})
    <3>1. 0..1 = {0, 1}
      OBVIOUS
    <3> QED BY <3>1 DEF RangeOK, FbOK
  <2>2. Len(staged) <= Buf - 1
    BY BridgeAssumption DEF RangeOK, RegsOK
  <2> QED BY <2>1, <2>2 DEF RangeOK, RegsOK, FbOK, BridgeTypeOK
<1> QED BY <1>1, RangeInv, PTL

(* All registers between the two masters and the spine keep their widths.  *)
THEOREM TopTypeCorrect == TopSpec => []TopTypeOK
<1> DEFINE SideOK == side \in {"path", "bridge"}
<1>1. TopInit => SideOK
  BY DEF TopInit
<1>2. SideOK /\ [TopNext]_topVars => SideOK'
  BY DEF TopNext, topVars
<1>3. PathInv /\ BridgeTypeOK /\ SideOK => TopTypeOK
  BY DEF PathInv, PathTyped, TopTypeOK
<1> HIDE DEF SideOK
<1> QED BY <1>1, <1>2, <1>3, Inductive, BridgeTypeCorrect, PTL DEF TopSpec

(***************************************************************************)
(* The management node's bridge                                            *)
(***************************************************************************)
Sizes == {2, 4, 8, 16, 32, 64}

-----------------------------------------------------------------------------
(* A ring of n bytes of B whose pointers agree with its count.             *)
Ring(B, n) == [mem : [0..(n - 1) -> B], rd : 0..(n - 1), wr : 0..(n - 1), count : 0..n]

Agrees(f, n) == f.wr = (f.rd + f.count) % n

(* A count that has not passed its width is not cut.                       *)
LEMMA Uncut ==
    ASSUME NEW w \in Nat \ {0}, NEW x \in 0..(w - 1)
    PROVE  x % w = x
<1>1. 0 \in 0..w /\ x + 0 = x /\ ~(x >= w)
  OBVIOUS
<1>2. (x + 0) % w = Wrapped(x + 0, w)
  <2>1. \A r \in 0..(w - 1), k \in 0..w : (r + k) % w = Wrapped(r + k, w)
    BY Wrap
  <2> QED BY <2>1, <1>1
<1> QED BY <1>1, <1>2 DEF Wrapped

(* One edge of a buffer passes its oldest byte on and takes the new one in *)
(* at the end, also when it is full and both happen.                       *)
LEMMA EdgeIsQueue ==
    ASSUME NEW n \in Sizes, NEW B, NEW f \in Ring(B, n), Agrees(f, n), NEW byte \in B,
           NEW push \in BOOLEAN, NEW pop \in BOOLEAN,
           push => f.count < n \/ pop, pop => f.count # 0
    PROVE  LET g == Edge(f, n, push, byte, pop)
           IN  /\ g \in Ring(B, n) /\ Agrees(g, n)
               /\ Held(g, n) = Owed(Held(f, n), push, byte, pop)
<1> DEFINE g == Edge(f, n, push, byte, pop)
<1>n. n \in Nat \ {0, 1}
  BY DEF Sizes
<1>f. /\ f.mem \in Memory(n, B) /\ f.rd \in 0..(n - 1) /\ f.wr \in 0..(n - 1)
      /\ f.count \in 0..n
  BY DEF Ring, Memory
<1>1. (f.wr + 1) % n = Wrapped(f.wr + 1, n) /\ (f.rd + 1) % n = Wrapped(f.rd + 1, n)
  <2>1. 1 \in 0..n
    BY <1>n
  <2> QED BY <1>f, <1>n, <2>1, Wrap
<1>2. /\ g = [mem |-> g.mem, wr |-> g.wr, rd |-> g.rd, count |-> g.count]
      /\ g.mem = IF push THEN [f.mem EXCEPT ![f.wr] = byte] ELSE f.mem
      /\ g.wr = IF push THEN Wrapped(f.wr + 1, n) ELSE f.wr
      /\ g.rd = IF pop THEN Wrapped(f.rd + 1, n) ELSE f.rd
      /\ g.count = f.count + (IF push THEN 1 ELSE 0) - (IF pop THEN 1 ELSE 0)
  <2> DEFINE net == Net(f.count, push, pop)
  <2>1. net \in 0..(2 * n - 1) /\ 2 * n \in Nat \ {0}
    BY <1>f, <1>n DEF Net
  <2>2. net % (2 * n) = net
    <3> HIDE DEF net
    <3> QED BY <2>1, Uncut
  <2>3. net = f.count + (IF push THEN 1 ELSE 0) - (IF pop THEN 1 ELSE 0)
    BY DEF Net
  <2> QED BY <1>1, <2>2, <2>3 DEF Edge
<1>a. f.wr = Wrapped(f.rd + f.count, n)
  BY <1>f, <1>n, Wrap DEF Agrees
<1> HIDE DEF g
<1>3. /\ g.mem \in Memory(n, B) /\ g.rd \in 0..(n - 1) /\ g.wr \in 0..(n - 1)
      /\ g.count \in 0..n /\ g.wr = Wrapped(g.rd + g.count, n)
      /\ RingContent(g.mem, g.rd, g.count, n)
           = (IF pop THEN Tail(RingContent(f.mem, f.rd, f.count, n)) ELSE RingContent(f.mem, f.rd, f.count, n))
             \o (IF push THEN <<byte>> ELSE <<>>)
  <2>1. n \in Nat \ {0}
    BY <1>n
  <2>2. RingState(f.mem, f.rd, f.wr, f.count, n, B)
    BY <1>f, <1>a DEF RingState
  <2> DEFINE up == IF push THEN 1 ELSE 0
             dn == IF pop THEN 1 ELSE 0
  <2>3. up \in 0..1 /\ dn \in 0..1 /\ (up = 1 <=> push) /\ (dn = 1 <=> pop)
    OBVIOUS
  <2>4. RingStep(f.mem, f.rd, f.wr, f.count, n, up, byte, dn, g.mem, g.rd, g.wr, g.count)
    BY <1>2 DEF RingStep
  <2> HIDE DEF up, dn
  <2>5. /\ RingState(g.mem, g.rd, g.wr, g.count, n, B)
        /\ RingContent(g.mem, g.rd, g.count, n)
             = Passed(RingContent(f.mem, f.rd, f.count, n), up, byte, dn)
    BY <2>1, <2>2, <2>3, <2>4, RingIsQueue
  <2> QED BY <2>3, <2>5 DEF RingState, Passed
<1>4. g \in Ring(B, n) /\ Agrees(g, n)
  <2>1. g \in Ring(B, n)
    BY <1>2, <1>3, Zenon DEF Ring, Memory
  <2>2. (g.rd + g.count) % n = Wrapped(g.rd + g.count, n)
    BY <1>3, <1>n, Wrap
  <2> QED BY <2>1, <2>2, <1>3 DEF Agrees
<1>5. Held(f, n) = RingContent(f.mem, f.rd, f.count, n) /\ Held(g, n) = RingContent(g.mem, g.rd, g.count, n)
  BY DEF Held, RingContent
<1>6. pop => Held(f, n) # <<>>
  <2>1. n \in Nat \ {0}
    BY <1>n
  <2>2. Len(RingContent(f.mem, f.rd, f.count, n)) = f.count
    <3>1. \A m \in Memory(n, B), r \in 0..(n - 1), k \in 0..n : Len(RingContent(m, r, k, n)) = k
      BY <2>1, ContentBytes
    <3> QED BY <3>1, <1>f, Zenon
  <2> QED BY <2>2, <1>5
<1>7. Held(g, n) = Owed(Held(f, n), push, byte, pop)
  BY <1>3, <1>5, <1>6 DEF Owed
<1> QED BY <1>4, <1>7 DEF g

(* A buffer that was pushed to while full stays one, whatever it holds.    *)
Overrunnable(B, n) ==
    [mem : [0..(n - 1) -> B], rd : 0..(n - 1), wr : 0..(n - 1), count : 0..(2 * n - 1)]

LEMMA EdgeOverruns ==
    ASSUME NEW n \in Sizes, NEW B, NEW f \in Overrunnable(B, n), NEW byte \in B,
           NEW push \in BOOLEAN, NEW pop \in BOOLEAN, pop => f.count # 0
    PROVE  Edge(f, n, push, byte, pop) \in Overrunnable(B, n)
<1> DEFINE net == Net(f.count, push, pop)
<1>n. n \in Nat \ {0, 1} /\ 2 * n \in Nat \ {0}
  BY DEF Sizes
<1>1. net \in Nat
  BY <1>n DEF Net, Overrunnable
<1>2. net % (2 * n) \in 0..(2 * n - 1)
  <2> HIDE DEF net
  <2> QED BY <1>1, <1>n, DivMod
<1>3. (f.wr + 1) % n \in 0..(n - 1) /\ (f.rd + 1) % n \in 0..(n - 1)
  <2>1. f.wr + 1 \in Nat /\ f.rd + 1 \in Nat /\ n \in Nat \ {0}
    BY <1>n DEF Overrunnable
  <2> QED BY <2>1, DivMod
<1>4. (IF push THEN [f.mem EXCEPT ![f.wr] = byte] ELSE f.mem) \in [0..(n - 1) -> B]
  BY DEF Overrunnable
<1> QED BY <1>2, <1>3, <1>4 DEF Edge, Overrunnable

LEMMA RingOverruns ==
    ASSUME NEW n \in Sizes, NEW B, NEW f \in Ring(B, n)
    PROVE  f \in Overrunnable(B, n)
  BY DEF Sizes, Ring, Overrunnable

(* A cleared buffer holds nothing.                                         *)
LEMMA EmptyIsQueue ==
    ASSUME NEW n \in Sizes, NEW B, NEW byte \in B
    PROVE  /\ Empty(n, byte) \in Ring(B, n) /\ Agrees(Empty(n, byte), n)
           /\ Held(Empty(n, byte), n) = <<>>
<1>n. n \in Nat \ {0, 1}
  BY DEF Sizes
<1>1. Empty(n, byte) \in Ring(B, n)
  BY <1>n DEF Empty, Ring
<1>2. (0 + 0) % n = Wrapped(0 + 0, n)
  <2>1. 0 \in 0..(n - 1) /\ 0 \in 0..n
    BY <1>n
  <2> QED BY <2>1, <1>n, Wrap
<1>3. Agrees(Empty(n, byte), n)
  BY <1>2, <1>n DEF Agrees, Empty, Wrapped
<1>4. Held(Empty(n, byte), n) = <<>>
  BY <1>n DEF Empty, Held
<1> QED BY <1>1, <1>3, <1>4

LEMMA SizesOK == {INJ_BYTES, TAP_BYTES, RX_BYTES} \subseteq Sizes
  BY MgmtAssumption DEF Sizes

-----------------------------------------------------------------------------
(* The inductive invariant, one part per buffer and one for the parser.    *)
Queue(f, n, B, owed) == f \in Ring(B, n) /\ Agrees(f, n) /\ Held(f, n) = owed

FrameByte == [pos : Nat, sop : BOOLEAN, eop : BOOLEAN]

InjOK == /\ Queue(inj, INJ_BYTES, FrameByte, injOwed)
         /\ inj_first \in BOOLEAN /\ inj_last \in BOOLEAN
         /\ node \in Nat \X Nat

HostOK == /\ host \in [weight : BOOLEAN, len : Lens, off : Nat]
          /\ host.off <= 5 + host.len

(* Between the two bytes of LEN its low half is this frame's already; what *)
(* the register holds is short, also while its halves are of two frames.   *)
InHeader == Short(nob_len) /\ (nob_off = 3 => nob_len % Base = host.len % Base)

ParserOK == /\ HostOK /\ InStep /\ (~long => InHeader)
            /\ nob_is_rx \in BOOLEAN /\ nob_off \in 0..(Span - 1) /\ nob_len \in 0..(Span - 1)

TapOK == /\ tap \in Ring(Nat, TAP_BYTES) /\ Agrees(tap, TAP_BYTES)
         /\ ~long => Held(tap, TAP_BYTES) = tapOwed

RxOK == /\ rx \in Overrunnable(Nat, RX_BYTES)
        /\ ~overrun => rx \in Ring(Nat, RX_BYTES) /\ Agrees(rx, RX_BYTES)
        /\ ~long /\ ~overrun => Held(rx, RX_BYTES) = rxOwed

MgmtInv == InjOK /\ ParserOK /\ TapOK /\ RxOK

LEMMA LensOK == /\ Base \in Nat \ 0..3 /\ Span \in Nat /\ Span >= Base + 6
                /\ \A k \in Lens : k \in 0..(Span - 1)
<1>1. Base \in Nat \ 0..3 /\ Lens \subseteq 0..(Base * Base - 1)
  BY MgmtAssumption
<1>2. Base * Base \in Nat
  BY <1>1
<1>3. PICK k \in Nat : Base = 4 + k
  <2>1. Base - 4 \in Nat /\ Base = 4 + (Base - 4)
    BY <1>1
  <2> QED BY <2>1
<1>4. Base * Base = 4 * Base + k * Base /\ k * Base \in Nat
  BY <1>1, <1>3
<1> QED BY <1>1, <1>2, <1>4 DEF Span

(* The two bytes of a length.                                              *)
LEMMA Bytes ==
    ASSUME NEW a \in 0..(Span - 1)
    PROVE  /\ a % Base \in 0..(Base - 1) /\ a \div Base \in 0..(Base - 1)
           /\ Base * (a \div Base) \in Nat /\ a = Base * (a \div Base) + (a % Base)
<1> DEFINE d == a \div Base
           m == a % Base
<1>1. Base \in Nat \ {0} /\ a \in Nat /\ a <= Span - 1 /\ Span \in Nat
  BY LensOK
<1>2. a = Base * d + m /\ m \in 0..(Base - 1) /\ d \in Nat
  BY <1>1, DivMod
<1> HIDE DEF d, m
<1>3. Base * d \in Nat
  BY <1>1, <1>2
<1>4. d < Base
  <2>1. ASSUME d >= Base PROVE FALSE
    <3>1. PICK k \in Nat : d = Base + k
      <4>1. d - Base \in Nat /\ d = Base + (d - Base)
        BY <1>1, <1>2, <2>1
      <4> QED BY <4>1
    <3>2. Base * d = Base * Base + Base * k /\ Base * k \in Nat
      BY <3>1, <1>1
    <3>3. Base * d >= Span
      BY <3>2, <1>1 DEF Span
    <3> QED BY <3>3, <1>1, <1>2, <1>3
  <2> QED BY <2>1, <1>1, <1>2
<1> QED BY <1>1, <1>2, <1>3, <1>4 DEF d, m

(* Any two bytes make a length, whose bytes they are.                      *)
LEMMA OfBytes ==
    ASSUME NEW q \in 0..(Base - 1), NEW r \in 0..(Base - 1)
    PROVE  /\ Base * q + r \in 0..(Span - 1)
           /\ (Base * q + r) % Base = r /\ (Base * q + r) \div Base = q
<1>1. Base \in Nat \ {0} /\ q \in Nat /\ r \in Nat /\ q < Base /\ r < Base
  BY LensOK
<1>2. PICK k \in Nat : Base = q + 1 + k
  <2>1. Base - q - 1 \in Nat /\ Base = q + 1 + (Base - q - 1)
    BY <1>1
  <2> QED BY <2>1
<1>3. Base * Base = Base * q + Base + Base * k /\ Base * k \in Nat /\ Base * q \in Nat
  <2>1. Base * Base = Base * (q + 1 + k)
    BY <1>2
  <2>2. Base * (q + 1 + k) = Base * q + Base + Base * k
    BY <1>1
  <2> QED BY <2>1, <2>2, <1>1
<1>4. Base * q + r \in 0..(Span - 1)
  BY <1>1, <1>3 DEF Span
<1> QED BY <1>1, <1>4, DivModUnique

LEMMA ZeroIsShort == Short(0) /\ 0 \in 0..(Span - 1)
<1>1. 0 \in 0..(Base - 1) /\ Base \in Nat
  BY LensOK
<1>2. (Base * 0 + 0) \div Base = 0
  BY <1>1, OfBytes
<1>3. 0 \div Base = 0
  BY <1>1, <1>2
<1> QED BY <1>3, LensOK DEF Short

(* A short frame's end is within the width of an offset.                   *)
LEMMA ShortFits ==
    ASSUME NEW a \in 0..(Span - 1), Short(a)
    PROVE  6 + a < Span
<1> DEFINE d == Base * (a \div Base)
           m == a % Base
<1>1. m \in 0..(Base - 1) /\ d \in Nat /\ a = d + m /\ Base \in Nat /\ Span \in Nat
  BY Bytes, LensOK
<1>2. 6 + d + (Base - 1) < Span
  BY DEF Short
<1> HIDE DEF d, m
<1> QED BY <1>1, <1>2

(* What is on the wire is a byte.                                          *)
LEMMA WireIsByte ==
    ASSUME HostOK
    PROVE  Wire(host) \in 0..(Base - 1)
<1>1. host.off \in Nat /\ host.weight \in BOOLEAN /\ host.len \in 0..(Span - 1) /\ Base \in Nat \ 0..3
  BY LensOK DEF HostOK
<1>2. host.len % Base \in 0..(Base - 1) /\ host.len \div Base \in 0..(Base - 1)
  BY <1>1, Bytes
<1>3. host.off % Base \in 0..(Base - 1)
  <2>1. \A a \in Nat, b \in Nat \ {0} : a % b \in 0..(b - 1)
    BY DivMod
  <2>2. Base \in Nat \ {0}
    BY <1>1
  <2> QED BY <1>1, <2>1, <2>2
<1>4. CTRL_WEIGHT \in 0..(Base - 1) /\ CTRL_COMPUTE \in 0..(Base - 1)
  BY <1>1 DEF CTRL_WEIGHT, CTRL_COMPUTE
<1> QED BY <1>1, <1>2, <1>3, <1>4 DEF Wire

LEMMA InitMgmt == MgmtInit => MgmtInv
<1> SUFFICES ASSUME MgmtInit PROVE MgmtInv
  OBVIOUS
<1>1. InjOK
  <2>1. Mark(1, 1) \in FrameByte
    BY DEF Mark, FrameByte
  <2>2. Queue(inj, INJ_BYTES, FrameByte, injOwed)
    BY <2>1, EmptyIsQueue, SizesOK DEF MgmtInit, Queue
  <2>3. node \in Nat \X Nat
    BY MgmtAssumption DEF MgmtInit
  <2> QED BY <2>2, <2>3 DEF MgmtInit, InjOK
<1>2. ParserOK
  <2>1. HostOK /\ host.off = 0
    BY LensOK DEF MgmtInit, HostOK, Frame
  <2>2. nob_off = 0 /\ nob_len = 0 /\ nob_is_rx = FALSE
    BY DEF MgmtInit
  <2>3. InStep
    BY <2>1, <2>2 DEF InStep
  <2>4. InHeader
    BY <2>2, ZeroIsShort DEF InHeader
  <2> QED BY <2>1, <2>2, <2>3, <2>4, ZeroIsShort DEF ParserOK
<1>3. TapOK
  BY EmptyIsQueue, SizesOK DEF MgmtInit, TapOK
<1>4. RxOK
  BY EmptyIsQueue, RingOverruns, SizesOK DEF MgmtInit, RxOK
<1> QED BY <1>1, <1>2, <1>3, <1>4 DEF MgmtInv

(* The injection side of an edge.                                          *)
LEMMA InjectKeeps ==
    ASSUME InjOK, NEW offer \in BOOLEAN, NEW lane \in BOOLEAN, Inject(offer, lane)
    PROVE  InjOK'
<1> DEFINE push == offer /\ inj.count < INJ_BYTES
           pop  == lane /\ Has(inj)
           byte == Mark(node[1] + 1, node[2])
<1>1. push \in BOOLEAN /\ pop \in BOOLEAN
  OBVIOUS
<1>2. byte \in FrameByte /\ byte.eop \in BOOLEAN
  BY DEF InjOK, Mark, FrameByte
<1>3. Queue(inj', INJ_BYTES, FrameByte, injOwed')
  <2>1. (push => inj.count < INJ_BYTES \/ pop) /\ (pop => inj.count # 0)
    BY DEF Has
  <2>2. inj' = Edge(inj, INJ_BYTES, push, byte, pop) /\ injOwed' = Owed(injOwed, push, byte, pop)
    BY DEF Inject
  <2>3. inj \in Ring(FrameByte, INJ_BYTES) /\ Agrees(inj, INJ_BYTES)
        /\ Held(inj, INJ_BYTES) = injOwed /\ INJ_BYTES \in Sizes
    BY SizesOK DEF InjOK, Queue
  <2> HIDE DEF push, pop, byte
  <2> QED BY <1>1, <1>2, <2>1, <2>2, <2>3, EdgeIsQueue DEF Queue
<1>4. node' \in Nat \X Nat
  BY MgmtAssumption DEF Inject, InjOK
<1>5. inj_first' \in BOOLEAN /\ inj_last' \in BOOLEAN
  BY <1>2 DEF Inject, InjOK
<1> QED BY <1>3, <1>4, <1>5 DEF InjOK

(* A byte that is parsed.                                                  *)
ByteParsed == Parse /\ Arrive /\ long' = (long \/ (host.off = 3 /\ ~Short(host.len)))

(* The sender and the registers' widths, in step or not.                   *)
LEMMA ParseTyped ==
    ASSUME ParserOK, Parse, Arrive
    PROVE  /\ HostOK' /\ nob_is_rx' \in BOOLEAN
           /\ nob_off' \in 0..(Span - 1) /\ nob_len' \in 0..(Span - 1)
<1>1. /\ host \in [weight : BOOLEAN, len : Lens, off : Nat] /\ host.off <= 5 + host.len
      /\ host.len \in Nat /\ nob_off \in Nat /\ nob_len \in 0..(Span - 1) /\ Span \in Nat \ {0}
      /\ nob_is_rx \in BOOLEAN
  BY LensOK DEF ParserOK, HostOK
<1>2. Wire(host) \in 0..(Base - 1)
  BY WireIsByte DEF ParserOK
<1>3. HostOK'
  <2>1. CASE host.off + 1 < 6 + host.len
    <3>1. host' = [host EXCEPT !.off = @ + 1]
      BY <2>1 DEF Arrive
    <3> QED BY <3>1, <2>1, <1>1 DEF HostOK
  <2>2. CASE ~(host.off + 1 < 6 + host.len)
    <3>1. host' \in Frame
      BY <2>2 DEF Arrive
    <3> QED BY <3>1, LensOK DEF HostOK, Frame
  <2> QED BY <2>1, <2>2
<1>4. nob_off' \in 0..(Span - 1)
  <2>1. (nob_off + 1) % Span \in 0..(Span - 1)
    <3>1. \A a \in Nat, b \in Nat \ {0} : a % b \in 0..(b - 1)
      BY DivMod
    <3>2. nob_off + 1 \in Nat
      BY <1>1
    <3> QED BY <1>1, <3>1, <3>2
  <2>2. nob_off' = 0 \/ nob_off' = (nob_off + 1) % Span
    BY DEF Parse, NextOff
  <2> QED BY <2>1, <2>2, ZeroIsShort
<1>5. nob_len' \in 0..(Span - 1)
  <2>1. nob_len % Base \in 0..(Base - 1) /\ nob_len \div Base \in 0..(Base - 1)
    BY <1>1, Bytes
  <2>2. CASE nob_off = 2
    <3>1. nob_len' = Base * (nob_len \div Base) + Wire(host)
      BY <2>2 DEF Parse
    <3> QED BY <3>1, <2>1, <1>2, OfBytes
  <2>3. CASE nob_off = 3
    <3>1. nob_len' = (nob_len % Base) + Base * Wire(host)
      BY <2>3 DEF Parse
    <3> DEFINE high == Base * Wire(host)
               low  == nob_len % Base
    <3>2. high + low \in 0..(Span - 1)
      BY <2>1, <1>2, OfBytes
    <3>3. high \in Nat /\ low \in Nat
      <4>1. Base \in Nat /\ Wire(host) \in Nat
        BY <1>2, LensOK
      <4> QED BY <4>1, <2>1
    <3>4. nob_len' = low + high
      BY <3>1
    <3> HIDE DEF high, low
    <3> QED BY <3>2, <3>3, <3>4
  <2>4. CASE nob_off # 2 /\ nob_off # 3
    BY <2>4, <1>1 DEF Parse
  <2> QED BY <2>2, <2>3, <2>4
<1>6. nob_is_rx' \in BOOLEAN
  BY <1>1 DEF Parse
<1> QED BY <1>3, <1>4, <1>5, <1>6

(* Over short frames the parser moves with the sender.                     *)
LEMMA ParseKeeps ==
    ASSUME ParserOK, ByteParsed, ~long'
    PROVE  InStep' /\ InHeader'
<1> DEFINE n == host.len
           k == host.off
<1>1. /\ host \in [weight : BOOLEAN, len : Lens, off : Nat]
      /\ n \in 0..(Span - 1) /\ n \in Nat /\ k \in Nat /\ k <= 5 + n /\ host.weight \in BOOLEAN
      /\ nob_len \in 0..(Span - 1) /\ nob_len \in Nat /\ Span \in Nat /\ Base \in Nat \ 0..3
  BY LensOK DEF ParserOK, HostOK
<1>2. ~long /\ (k = 3 => Short(n))
  BY DEF ByteParsed
<1>3. /\ nob_off = k /\ Short(nob_len)
      /\ k >= 2 => nob_is_rx = host.weight
      /\ k >= 4 => nob_len = n
      /\ k = 3 => nob_len % Base = n % Base
  BY <1>2 DEF ParserOK, InStep, InHeader
<1>4. /\ n % Base \in 0..(Base - 1) /\ n \div Base \in 0..(Base - 1)
      /\ n = Base * (n \div Base) + (n % Base) /\ Base * (n \div Base) \in Nat
      /\ nob_len \div Base \in 0..(Base - 1)
  BY <1>1, Bytes
(* What the two bytes of LEN make of the register.                         *)
<1>5. ASSUME k = 2
      PROVE  nob_len' % Base = n % Base /\ Short(nob_len')
  <2>1. nob_len' = Base * (nob_len \div Base) + (n % Base)
    <3>1. Wire(host) = n % Base /\ nob_off = 2
      BY <1>3, <1>5 DEF Wire
    <3> QED BY <3>1 DEF Parse, ByteParsed
  <2>2. nob_len' % Base = n % Base /\ nob_len' \div Base = nob_len \div Base
    BY <1>4, <2>1, OfBytes
  <2> QED BY <2>2, <1>3 DEF Short
<1>6. ASSUME k = 3
      PROVE  nob_len' = n
  <2>1. nob_len' = (nob_len % Base) + Base * (n \div Base)
    <3>1. Wire(host) = n \div Base /\ nob_off = 3
      BY <1>3, <1>6 DEF Wire
    <3>2. nob_len' = (nob_len % Base) + Base * Wire(host)
      BY <3>1 DEF Parse, ByteParsed
    <3> QED BY <3>1, <3>2
  <2>2. nob_len % Base = n % Base
    BY <1>3, <1>6
  <2> DEFINE high == Base * (n \div Base)
             low  == n % Base
  <2>3. high \in Nat /\ low \in Nat /\ n = high + low
    BY <1>4
  <2>4. nob_len' = low + high
    BY <2>1, <2>2
  <2> HIDE DEF high, low
  <2> QED BY <2>3, <2>4
<1>7. k # 2 /\ k # 3 => nob_len' = nob_len
  BY <1>3 DEF Parse, ByteParsed
<1>8. Short(nob_len')
  <2>1. CASE k = 3
    <3>1. nob_len' = n /\ Short(n)
      BY <2>1, <1>2, <1>6
    <3> QED BY <3>1
  <2>2. CASE k # 2 /\ k # 3
    <3>1. nob_len' = nob_len
      BY <2>2, <1>7
    <3> QED BY <3>1, <1>3
  <2> QED BY <2>1, <2>2, <1>5
<1>9. nob_is_rx' = IF k = 1 THEN host.weight ELSE nob_is_rx
  <2>1. k = 1 => Wire(host) = (IF host.weight THEN CTRL_WEIGHT ELSE CTRL_COMPUTE)
    BY DEF Wire
  <2> QED BY <2>1, <1>1, <1>3 DEF Parse, ByteParsed, CTRL_WEIGHT, CTRL_COMPUTE
(* No sum passes the width of the registers.                               *)
<1>10. nob_off' = IF k + 1 < 6 + n THEN k + 1 ELSE 0
  <2>1. 6 + nob_len < Span
    BY <1>1, <1>3, ShortFits
  <2>2. k + 1 <= 6 + nob_len
    <3>1. CASE k >= 4
      BY <3>1, <1>1, <1>3
    <3>2. CASE k < 4
      BY <3>2, <1>1
    <3> QED BY <3>1, <3>2, <1>1
  <2>3. (k + 1) % Span = k + 1 /\ (6 + nob_len) % Span = 6 + nob_len
    <3>1. Span \in Nat \ {0} /\ k + 1 \in 0..(Span - 1) /\ 6 + nob_len \in 0..(Span - 1)
      BY <2>1, <2>2, <1>1
    <3> HIDE DEF k
    <3> QED BY <3>1, Uncut
  <2>4. nob_off' = IF k + 1 >= 6 + nob_len THEN 0 ELSE k + 1
    BY <1>3, <2>3 DEF Parse, ByteParsed, NextOff
  <2>5. CASE k >= 4
    BY <2>4, <2>5, <1>1, <1>3
  <2>6. CASE k < 4
    BY <2>4, <2>6, <1>1
  <2> QED BY <2>5, <2>6, <1>1
<1>11. CASE k + 1 < 6 + n
  <2>1. host' = [host EXCEPT !.off = k + 1]
    BY <1>11 DEF Arrive, ByteParsed
  <2>2. host'.weight = host.weight /\ host'.len = n /\ host'.off = k + 1
    BY <2>1, <1>1
  <2>3. nob_off' = k + 1
    BY <1>10, <1>11
  <2> HIDE DEF n, k
  <2>4. InStep'
    <3>1. k + 1 >= 2 => nob_is_rx' = host.weight
      BY <1>1, <1>3, <1>9
    <3>2. k + 1 >= 4 => nob_len' = n
      BY <1>1, <1>3, <1>6, <1>7
    <3> QED BY <2>2, <2>3, <3>1, <3>2 DEF InStep
  <2>5. nob_off' = 3 => nob_len' % Base = host'.len % Base
    BY <2>2, <2>3, <1>1, <1>5
  <2> QED BY <2>4, <2>5, <1>8 DEF InHeader
<1>12. CASE ~(k + 1 < 6 + n)
  <2>1. host' \in Frame
    BY <1>12 DEF Arrive, ByteParsed
  <2>2. host'.off = 0 /\ nob_off' = 0
    BY <2>1, <1>10, <1>12 DEF Frame
  <2> QED BY <2>2, <1>8 DEF InStep, InHeader
<1> QED BY <1>11, <1>12

(* In step, the payload the parser sees is the payload the sender sends.   *)
LEMMA PayloadSeen ==
    ASSUME ParserOK, ~long
    PROVE  /\ InPayload <=> IsPayload(host)
           /\ InPayload => nob_is_rx = host.weight
<1>1. /\ host.off \in Nat /\ nob_off = host.off /\ host.len \in Nat
      /\ nob_off >= 4 => nob_len = host.len
      /\ nob_off >= 2 => nob_is_rx = host.weight
  BY LensOK DEF ParserOK, HostOK, InStep
<1>2. InPayload <=> IsPayload(host)
  BY <1>1 DEF InPayload, IsPayload
<1>3. InPayload => host.off >= 4
  BY <1>1 DEF InPayload
<1> QED BY <1>1, <1>2, <1>3

LEMMA ReceiveKeeps ==
    ASSUME ParserOK, TapOK, RxOK, NEW valid \in BOOLEAN, NEW tap_ready \in BOOLEAN,
           NEW rx_ready \in BOOLEAN, Receive(valid, tap_ready, rx_ready)
    PROVE  ParserOK' /\ TapOK' /\ RxOK'
<1> DEFINE take    == valid /\ nob_in_ready
           byte    == Wire(host)
           tapPush == take /\ InPayload /\ ~nob_is_rx
           rxPush  == take /\ InPayload /\ nob_is_rx
           tapPop  == tap_ready /\ Has(tap)
           rxPop   == rx_ready /\ Has(rx)
           tapDue  == take /\ IsPayload(host) /\ ~host.weight
           rxDue   == take /\ IsPayload(host) /\ host.weight
<1>1. /\ IF take THEN Parse /\ Arrive ELSE UNCHANGED <<parser, host>>
      /\ long' = (long \/ (take /\ host.off = 3 /\ ~Short(host.len)))
      /\ ~overrun' => ~overrun /\ ~(rxPush /\ rx.count >= RX_BYTES /\ ~rxPop)
      /\ tap' = Edge(tap, TAP_BYTES, tapPush, byte, tapPop)
      /\ rx'  = Edge(rx, RX_BYTES, rxPush, byte, rxPop)
      /\ ~long' => tapOwed' = Owed(tapOwed, tapDue, byte, tapPop)
      /\ ~long' /\ ~overrun' => rxOwed'  = Owed(rxOwed, rxDue, byte, rxPop)
  BY DEF Receive
<1>2. ParserOK'
  <2>1. CASE take
    <3>1. ByteParsed /\ Parse /\ Arrive
      BY <1>1, <2>1 DEF ByteParsed
    <3>2. ~long' => InStep' /\ InHeader'
      BY <3>1, ParseKeeps
    <3>3. InStep' /\ (~long' => InHeader')
      BY <3>2 DEF InStep
    <3> QED BY <3>1, <3>3, ParseTyped DEF ParserOK
  <2>2. CASE ~take
    <3>1. UNCHANGED <<nob_off, nob_len, nob_is_rx, host>>
      BY <1>1, <2>2 DEF parser
    <3>2. ~long' => ~long
      BY <1>1
    <3> QED BY <3>1, <3>2 DEF ParserOK, HostOK, InStep, InHeader, Short, Span
  <2> QED BY <2>1, <2>2
<1>3. /\ tapPush \in BOOLEAN /\ rxPush \in BOOLEAN /\ tapPop \in BOOLEAN /\ rxPop \in BOOLEAN
      /\ tapDue \in BOOLEAN /\ rxDue \in BOOLEAN /\ byte \in Nat
  <2>1. byte \in Nat
    BY WireIsByte, LensOK DEF ParserOK
  <2> QED BY <2>1 DEF ParserOK
<1>4. ~long => (tapPush <=> tapDue) /\ (rxPush <=> rxDue)
  BY PayloadSeen
<1>5. (~long' => ~long) /\ (~overrun' => ~overrun)
  BY <1>1, Zenon
<1>6. /\ tapPush => tap.count < TAP_BYTES \/ tapPop
      /\ tapPop => tap.count # 0
      /\ rxPop => rx.count # 0
  BY DEF nob_in_ready, Has
<1>7. TAP_BYTES \in Sizes /\ RX_BYTES \in Sizes
  BY SizesOK
<1>8. ~overrun' => (rxPush => rx.count < RX_BYTES \/ rxPop)
  <2>1. rx.count \in Nat /\ RX_BYTES \in Nat
    BY <1>7 DEF RxOK, Overrunnable, Sizes
  <2>2. ~overrun' => ~(rxPush /\ rx.count >= RX_BYTES /\ ~rxPop)
    BY <1>1, Zenon
  <2> HIDE DEF rxPop, rxPush
  <2> QED BY <2>1, <2>2
<1> HIDE DEF take, byte, tapPop, rxPop, tapPush, rxPush, tapDue, rxDue
<1>9. TapOK'
  <2>1. tap \in Ring(Nat, TAP_BYTES) /\ Agrees(tap, TAP_BYTES)
    BY DEF TapOK
  <2>2. /\ tap' \in Ring(Nat, TAP_BYTES) /\ Agrees(tap', TAP_BYTES)
        /\ Held(tap', TAP_BYTES) = Owed(Held(tap, TAP_BYTES), tapPush, byte, tapPop)
    <3>1. tap' = Edge(tap, TAP_BYTES, tapPush, byte, tapPop)
      BY <1>1
    <3> QED BY <2>1, <3>1, <1>3, <1>6, <1>7, EdgeIsQueue
  <2>3. ASSUME ~long' PROVE Held(tap', TAP_BYTES) = tapOwed'
    <3>1. Held(tap, TAP_BYTES) = tapOwed /\ tapPush = tapDue
      BY <2>3, <1>3, <1>4, <1>5 DEF TapOK
    <3> QED BY <3>1, <2>2, <2>3, <1>1
  <2> QED BY <2>2, <2>3 DEF TapOK
<1>10. RxOK'
  <2>1. rx' \in Overrunnable(Nat, RX_BYTES)
    BY <1>1, <1>3, <1>6, <1>7, EdgeOverruns DEF RxOK
  <2>2. ASSUME ~overrun'
        PROVE  /\ rx' \in Ring(Nat, RX_BYTES) /\ Agrees(rx', RX_BYTES)
               /\ Held(rx', RX_BYTES) = Owed(Held(rx, RX_BYTES), rxPush, byte, rxPop)
    <3>1. rx \in Ring(Nat, RX_BYTES) /\ Agrees(rx, RX_BYTES)
      BY <2>2, <1>5 DEF RxOK
    <3>2. rxPush => rx.count < RX_BYTES \/ rxPop
      BY <2>2, <1>8
    <3>3. rx' = Edge(rx, RX_BYTES, rxPush, byte, rxPop)
      BY <1>1
    <3> QED BY <3>1, <3>2, <3>3, <1>3, <1>6, <1>7, EdgeIsQueue
  <2>3. ASSUME ~long', ~overrun' PROVE Held(rx', RX_BYTES) = rxOwed'
    <3>1. Held(rx, RX_BYTES) = rxOwed /\ rxPush = rxDue
      BY <2>3, <1>3, <1>4, <1>5 DEF RxOK
    <3> QED BY <3>1, <2>2, <2>3, <1>1
  <2> QED BY <2>1, <2>2, <2>3 DEF RxOK
<1> QED BY <1>2, <1>9, <1>10

LEMMA NextMgmt == MgmtInv /\ [MgmtNext]_mgmtVars => MgmtInv'
<1> SUFFICES ASSUME MgmtInv, [MgmtNext]_mgmtVars PROVE MgmtInv'
  OBVIOUS
<1>1. CASE MgmtNext
  <2>1. PICK offer, lane, valid, tap_ready, rx_ready \in BOOLEAN :
          MgmtClock(offer, lane, valid, tap_ready, rx_ready)
    BY <1>1 DEF MgmtNext
  <2>2. Inject(offer, lane) /\ Receive(valid, tap_ready, rx_ready)
    BY <2>1 DEF MgmtClock
  <2>3. InjOK'
    BY <2>2, InjectKeeps DEF MgmtInv
  <2>4. ParserOK' /\ TapOK' /\ RxOK'
    BY <2>2, ReceiveKeeps DEF MgmtInv
  <2> QED BY <2>3, <2>4 DEF MgmtInv
<1>2. CASE UNCHANGED mgmtVars
  BY <1>2 DEF mgmtVars, injector, receiver, parser, MgmtInv, InjOK, ParserOK, TapOK, RxOK, HostOK,
              InStep, InHeader, Queue, Agrees, Held
<1> QED BY <1>1, <1>2

LEMMA MgmtInductive == MgmtSpec => []MgmtInv
  BY InitMgmt, NextMgmt, PTL DEF MgmtSpec

-----------------------------------------------------------------------------
(* mgmt_bridge's pointers, counts and parser registers stay in range.      *)
THEOREM MgmtTypeCorrect == MgmtSpec => []MgmtTypeOK
<1>1. MgmtInv => MgmtTypeOK
  <2> SUFFICES ASSUME MgmtInv PROVE MgmtTypeOK
    OBVIOUS
  <2>1. /\ inj.rd \in 0..(INJ_BYTES - 1) /\ inj.count \in 0..INJ_BYTES
        /\ tap.rd \in 0..(TAP_BYTES - 1) /\ tap.count \in 0..TAP_BYTES
        /\ rx.rd \in 0..(RX_BYTES - 1) /\ rx.count \in 0..(2 * RX_BYTES - 1)
    BY DEF MgmtInv, InjOK, TapOK, RxOK, Queue, Ring, Overrunnable
  <2> QED BY <2>1 DEF MgmtInv, InjOK, ParserOK, MgmtTypeOK
<1> QED BY <1>1, MgmtInductive, PTL

(* The management node's bytes leave mgmt_bridge in the order it pushed    *)
(* them, none lost and none twice, however the outgoing lane stalls.       *)
THEOREM InjectsInOrder == MgmtSpec => []InjectedInOrder
<1>1. MgmtInv => InjectedInOrder
  BY DEF MgmtInv, InjOK, Queue, InjectedInOrder
<1> QED BY <1>1, MgmtInductive, PTL

(* mgmt_bridge's parser stays in step with the frames the fabric sends, as *)
(* long as all of them were short enough for its 16-bit sums.              *)
THEOREM ParserInStep == MgmtSpec => []InStep
<1>1. MgmtInv => InStep
  BY DEF MgmtInv, ParserOK
<1> QED BY <1>1, MgmtInductive, PTL

(* Over short frames the tap passes on exactly the payload of compute      *)
(* frames, whatever becomes of the receive buffer, which passes on exactly *)
(* that of weight frames until a byte finds it full (mgmt_bridge).         *)
THEOREM DeliversPayload == MgmtSpec => []PayloadDelivered
<1>1. MgmtInv => PayloadDelivered
  BY DEF MgmtInv, TapOK, RxOK, PayloadDelivered
<1> QED BY <1>1, MgmtInductive, PTL
=============================================================================
