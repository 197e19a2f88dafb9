------------------------- MODULE OpticalLink_proof -------------------------
(***************************************************************************)
(* Proofs about OpticalLink, for every FIFO depth, fibre length, word set  *)
(* and Gray code that satisfies LinkAssumption.                            *)
(***************************************************************************)
EXTENDS OpticalLink, SequenceLemmas, TLAPS

(* The threshold is positive and never beyond the memory.                  *)
LEMMA LimitBounds == READY_LIMIT \in 1..Depth
  BY LinkAssumption DEF READY_LIMIT

(* Ring distances are numbers below N, and stepping a pointer moves them   *)
(* by one.                                                                 *)
LEMMA IncType == \A p \in Ptr : Inc(p) \in Ptr
  BY LinkAssumption DEF Inc, Ptr, N

LEMMA RingDistance ==
    \A w, r \in Ptr : /\ Occ(w, r) \in Nat
                      /\ Occ(w, r) < N
                      /\ Occ(w, r) = 0 <=> w = r
  BY LinkAssumption DEF Occ, Ptr, N

LEMMA RingWrite ==
    \A w, r \in Ptr : Occ(w, r) < N - 1 => Occ(Inc(w), r) = Occ(w, r) + 1
  BY LinkAssumption DEF Occ, Inc, Ptr, N

LEMMA RingRead ==
    \A w, r \in Ptr : w # r => Occ(w, Inc(r)) = Occ(w, r) - 1
  BY LinkAssumption DEF Occ, Inc, Ptr, N

LEMMA RingSelf == \A p \in Ptr : Occ(Inc(p), p) = 1
  BY LinkAssumption DEF Occ, Inc, Ptr, N

(* Two hops along the ring add up as long as they do not go round it.      *)
LEMMA RingAddition ==
    ASSUME NEW a \in Ptr, NEW b \in Ptr, NEW c \in Ptr,
           Occ(a, b) + Occ(b, c) < N
    PROVE  Occ(a, c) = Occ(a, b) + Occ(b, c)
  BY LinkAssumption DEF Occ, Ptr, N

(* What the Gray code is for: a flop that samples a pointer while it steps *)
(* holds the old pointer or the new one, never a mixture.                  *)
LEMMA CaughtOldOrNew ==
    ASSUME NEW a \in Ptr, NEW b \in Ptr, b = a \/ b = Inc(a)
    PROVE  Caught(a, b) \subseteq {a, b}
<1> SUFFICES ASSUME NEW p \in Ptr,
                    \A k \in Bit : Gray[p][k] \in {Gray[a][k], Gray[b][k]}
             PROVE  p = a \/ p = b
  BY DEF Caught
<1>1. CASE b = a
  <2>1. \A k \in Bit : Gray[p][k] = Gray[a][k]
    BY <1>1
  <2>2. Gray[p] = Gray[a]
    BY <2>1, LinkAssumption
  <2> QED BY <2>2, LinkAssumption
<1>2. CASE b = Inc(a)
  <2>1. PICK j \in Bit : \A k \in Bit \ {j} : Gray[a][k] = Gray[b][k]
    BY <1>2, LinkAssumption
  <2>2. CASE Gray[p][j] = Gray[a][j]
    <3>1. \A k \in Bit : Gray[p][k] = Gray[a][k]
      BY <2>1, <2>2
    <3>2. Gray[p] = Gray[a]
      BY <3>1, LinkAssumption
    <3> QED BY <3>2, LinkAssumption
  <2>3. CASE Gray[p][j] = Gray[b][j]
    <3>1. \A k \in Bit : Gray[p][k] = Gray[b][k]
      BY <2>1, <2>3
    <3>2. Gray[p] = Gray[b]
      BY <3>1, LinkAssumption
    <3> QED BY <3>2, LinkAssumption
  <2> QED BY <2>2, <2>3
<1> QED BY <1>1, <1>2

-----------------------------------------------------------------------------
(* What a step does to the six pointers: each clock moves its pointer by   *)
(* at most one and shifts its synchroniser.                                *)
MoveWr == wbin' = wbin \/ (tx_ready /\ wbin' = Inc(wbin))
MoveRd == rbin' = rbin \/ (not_empty /\ rbin' = Inc(rbin))
ShiftToRd == \/ UNCHANGED toRd
             \/ wgray_s1' \in {wbin, wbin'} /\ wgray_s2' = wgray_s1
ShiftToWr == \/ UNCHANGED toWr
             \/ rgray_ws1' \in {rbin, rbin'} /\ rgray_ws2' = rgray_ws1

LEMMA PointerStep ==
    ASSUME TypeOK, [Next]_vars
    PROVE  MoveWr /\ MoveRd /\ ShiftToRd /\ ShiftToWr
<1> USE DEF MoveWr, MoveRd, ShiftToRd, ShiftToWr
<1>w. ASSUME Write PROVE MoveWr
  BY <1>w DEF Write, Accept, Refuse, wrSide
<1>r. ASSUME Read PROVE MoveRd
  BY <1>r DEF Read
<1>tr. ASSUME SyncToRd, MoveWr PROVE ShiftToRd
  BY <1>tr, CaughtOldOrNew, IncType DEF SyncToRd, TypeOK
<1>tw. ASSUME SyncToWr, MoveRd PROVE ShiftToWr
  BY <1>tw, CaughtOldOrNew, IncType DEF SyncToWr, TypeOK
<1>1. CASE WrEdge
  BY <1>1, <1>w, <1>tw DEF WrEdge, rdSide
<1>2. CASE RdEdge
  BY <1>2, <1>r, <1>tr DEF RdEdge, wrSide
<1>3. CASE BothEdges
  BY <1>3, <1>w, <1>r, <1>tr, <1>tw DEF BothEdges
<1>4. CASE UNCHANGED vars
  BY <1>4 DEF vars, wrSide, rdSide
<1> QED BY <1>1, <1>2, <1>3, <1>4 DEF Next

-----------------------------------------------------------------------------
(* optical_link's registers always hold values of their widths, and the    *)
(* memory, the fibre and the output only words or nothing.                 *)
THEOREM TypeCorrect == Spec => []TypeOK
<1>1. Init => TypeOK
  <2> SUFFICES ASSUME Init PROVE TypeOK
    OBVIOUS
  <2>1. 0 \in Ptr
    BY LinkAssumption DEF Ptr, N
  <2>2. /\ mem \in [0..(Depth - 1) -> Word \cup {NoWord}]
        /\ pipe \in [0..Prop -> Word \cup {NoWord}]
    BY DEF Init
  <2> QED BY <2>1, <2>2 DEF Init, TypeOK
<1>2. TypeOK /\ [Next]_vars => TypeOK'
  <2> SUFFICES ASSUME TypeOK, [Next]_vars PROVE TypeOK'
    OBVIOUS
  <2>p. MoveWr /\ MoveRd /\ ShiftToRd /\ ShiftToWr
    BY PointerStep
  <2> USE DEF TypeOK
  <2>1. /\ wbin' \in Ptr /\ rbin' \in Ptr
        /\ wgray_s1' \in Ptr /\ wgray_s2' \in Ptr
        /\ rgray_ws1' \in Ptr /\ rgray_ws2' \in Ptr
    <3>1. wbin' \in Ptr /\ rbin' \in Ptr
      BY <2>p, IncType DEF MoveWr, MoveRd
    <3>2. wgray_s1' \in Ptr /\ wgray_s2' \in Ptr
      BY <2>p, <3>1 DEF ShiftToRd, toRd
    <3>3. rgray_ws1' \in Ptr /\ rgray_ws2' \in Ptr
      BY <2>p, <3>1 DEF ShiftToWr, toWr
    <3> QED BY <3>1, <3>2, <3>3
  <2>w. ASSUME Write
        PROVE  /\ mem' \in [0..(Depth - 1) -> Word \cup {NoWord}]
               /\ overflow_err' \in BOOLEAN
    BY <2>w DEF Write, Accept, Refuse, wrSide
  <2>s. Slot(rbin) \in 0..(Depth - 1)
    BY LinkAssumption DEF Slot, Ptr, N
  <2>r. ASSUME Read
        PROVE  /\ pipe' \in [0..Prop -> Word \cup {NoWord}]
               /\ rx' \in Word \cup {NoWord}
    BY <2>r, <2>s, LinkAssumption DEF Read
  <2>2. CASE WrEdge
    BY <2>1, <2>2, <2>w DEF WrEdge, rdSide
  <2>3. CASE RdEdge
    BY <2>1, <2>3, <2>r DEF RdEdge, wrSide
  <2>4. CASE BothEdges
    BY <2>1, <2>4, <2>w, <2>r DEF BothEdges
  <2>5. CASE UNCHANGED vars
    BY <2>5 DEF vars, wrSide, rdSide, toRd, toWr
  <2> QED BY <2>2, <2>3, <2>4, <2>5 DEF Next
<1> QED BY <1>1, <1>2, PTL DEF Spec

-----------------------------------------------------------------------------
(* The synchronised copies of the two pointers lag them, in ring order and *)
(* within the threshold: the strengthening that makes NoOverflow inductive *)
(* (a write only looks at a copy of the read pointer two samples old, a    *)
(* pop only at a copy of the write pointer two samples old).               *)
IInv == TypeOK /\ CopiesLag

(* A step of the write clock, alone or with the read clock, as seen from   *)
(* the copies of the read pointer: the ring distances stay within bounds.  *)
LEMMA ReadCopiesLag ==
    ASSUME IInv, [Next]_vars, TypeOK'
    PROVE  Occ(rgray_ws1, rgray_ws2)' + Occ(rbin, rgray_ws1)' + Occ(wbin, rbin)'
             <= READY_LIMIT
<1>. DEFINE A == Occ(rgray_ws1, rgray_ws2)
            B == Occ(rbin, rgray_ws1)
            C == Occ(wbin, rbin)
<1>t. /\ wbin \in Ptr /\ rbin \in Ptr /\ rgray_ws1 \in Ptr /\ rgray_ws2 \in Ptr
      /\ wgray_s1 \in Ptr /\ wgray_s2 \in Ptr
      /\ wbin' \in Ptr /\ rbin' \in Ptr
  BY DEF IInv, TypeOK
<1>n. A \in Nat /\ B \in Nat /\ C \in Nat /\ A + B + C <= READY_LIMIT
  BY <1>t, RingDistance, LinkAssumption DEF IInv, CopiesLag, N
<1>l. READY_LIMIT \in Nat /\ READY_LIMIT <= Depth /\ N = 2 * Depth /\ Depth \in Nat \ {0}
  BY LimitBounds, LinkAssumption DEF N
<1>m. MoveWr /\ MoveRd /\ ShiftToWr
  BY PointerStep DEF IInv
<1>a. Occ(wbin, rgray_ws2) = A + B + C
  <2>1. Occ(rbin, rgray_ws2) = B + A
    BY <1>t, <1>n, <1>l, RingAddition
  <2> QED BY <2>1, <1>t, <1>n, <1>l, RingAddition
<1>1. Occ(wbin', rbin) = C \/ (Occ(wbin', rbin) = C + 1 /\ A + B + C < READY_LIMIT)
  BY <1>t, <1>n, <1>l, <1>m, <1>a, RingWrite DEF MoveWr, tx_ready
<1>2. rbin' # rbin => wbin # rbin /\ Occ(wbin, rbin) > 0
  <2>1. ASSUME not_empty PROVE C > 0
    <3>1. Occ(wgray_s2, rbin) > 0 /\ Occ(wgray_s2, rbin) \in Nat
      BY <1>t, <2>1, RingDistance, <1>l DEF not_empty
    <3>2. Occ(wgray_s1, wgray_s2) \in Nat /\ Occ(wbin, wgray_s1) \in Nat
      BY <1>t, RingDistance, <1>l
    <3> QED BY <3>1, <3>2, <1>n DEF IInv, CopiesLag
  <2> QED BY <2>1, <1>m, <1>t, <1>n, RingDistance DEF MoveRd
<1>3. \/ rbin' = rbin /\ Occ(wbin', rbin') = Occ(wbin', rbin)
      \/ rbin' = Inc(rbin) /\ Occ(wbin', rbin') = Occ(wbin', rbin) - 1
  <2>1. CASE rbin' = rbin
    BY <2>1
  <2>2. CASE rbin' = Inc(rbin) /\ rbin' # rbin
    <3>1. wbin' # rbin
      BY <1>1, <1>2, <2>2, <1>t, <1>n, <1>l, RingDistance, RingWrite, RingRead, RingSelf
    <3> QED BY <2>2, <3>1, <1>t, RingRead
  <2> QED BY <2>1, <2>2, <1>m DEF MoveRd
<1>b. \/ rbin' = rbin /\ Occ(rbin', rgray_ws1) = B
      \/ rbin' # rbin /\ Occ(rbin', rgray_ws1) = B + 1
  <2>1. CASE rbin' = rbin
    BY <2>1
  <2>2. CASE rbin' # rbin
    <3>1. rbin' = Inc(rbin)
      BY <2>2, <1>m DEF MoveRd
    <3>2. B < N - 1
      BY <2>2, <1>2, <1>n, <1>l
    <3> QED BY <2>2, <3>1, <3>2, <1>t, RingWrite
  <2> QED BY <2>1, <2>2
<1>4. CASE UNCHANGED toWr
  <2>1. rgray_ws1' = rgray_ws1 /\ rgray_ws2' = rgray_ws2
    BY <1>4 DEF toWr
  <2> QED BY <2>1, <1>b, <1>1, <1>3, <1>t, <1>n, <1>l
<1>5. CASE rgray_ws1' \in {rbin, rbin'} /\ rgray_ws2' = rgray_ws1
  <2>1. CASE rgray_ws1' = rbin
    <3>1. Occ(rbin', rbin) = IF rbin' = rbin THEN 0 ELSE 1
      BY <1>3, <1>t, RingDistance, RingSelf
    <3> QED BY <2>1, <3>1, <1>5, <1>1, <1>3, <1>t, <1>n, <1>l
  <2>2. CASE rgray_ws1' = rbin'
    <3>1. Occ(rbin', rbin') = 0
      BY <1>t, RingDistance
    <3> QED BY <2>2, <3>1, <1>b, <1>5, <1>1, <1>3, <1>t, <1>n, <1>l
  <2> QED BY <1>5, <2>1, <2>2
<1> QED BY <1>4, <1>5, <1>m DEF ShiftToWr

(* The write side's view of the occupancy is never an underestimate.       *)
LEMMA WriteRoom ==
    ASSUME IInv, tx_ready
    PROVE  Occ(wbin, rbin) < READY_LIMIT
<1>. DEFINE A == Occ(rgray_ws1, rgray_ws2)
            B == Occ(rbin, rgray_ws1)
            C == Occ(wbin, rbin)
<1>t. /\ wbin \in Ptr /\ rbin \in Ptr /\ rgray_ws1 \in Ptr /\ rgray_ws2 \in Ptr
  BY DEF IInv, TypeOK
<1>n. A \in Nat /\ B \in Nat /\ C \in Nat /\ A + B + C <= READY_LIMIT
  BY <1>t, RingDistance DEF IInv, CopiesLag
<1>l. READY_LIMIT \in Nat /\ READY_LIMIT < N /\ N \in Nat
  BY LimitBounds, LinkAssumption DEF N
<1>1. Occ(rbin, rgray_ws2) = B + A
  BY <1>t, <1>n, <1>l, RingAddition
<1>2. Occ(wbin, rgray_ws2) = C + (B + A)
  BY <1>1, <1>t, <1>n, <1>l, RingAddition
<1> QED BY <1>2, <1>n, <1>l DEF tx_ready

(* The same for the copies of the write pointer, which lie between the     *)
(* read pointer and the write pointer: a pop never passes a word that has  *)
(* not been written.                                                       *)
LEMMA WriteCopiesLag ==
    ASSUME IInv, [Next]_vars, TypeOK'
    PROVE  Occ(wgray_s2, rbin)' + Occ(wgray_s1, wgray_s2)' + Occ(wbin, wgray_s1)'
             = Occ(wbin, rbin)'
<1>. DEFINE D == Occ(wgray_s2, rbin)
            E == Occ(wgray_s1, wgray_s2)
            F == Occ(wbin, wgray_s1)
<1>t. /\ wbin \in Ptr /\ rbin \in Ptr /\ wgray_s1 \in Ptr /\ wgray_s2 \in Ptr
      /\ wbin' \in Ptr /\ rbin' \in Ptr /\ wgray_s1' \in Ptr /\ wgray_s2' \in Ptr
  BY DEF IInv, TypeOK
<1>n. D \in Nat /\ E \in Nat /\ F \in Nat
  BY <1>t, RingDistance
<1>l. READY_LIMIT \in Nat /\ READY_LIMIT < N /\ N \in Nat
  BY LimitBounds, LinkAssumption DEF N
<1>s. D + E + F <= READY_LIMIT
  <2>1. Occ(rgray_ws1, rgray_ws2) \in Nat /\ Occ(rbin, rgray_ws1) \in Nat
    BY RingDistance DEF IInv, TypeOK
  <2>2. Occ(wbin, rbin) \in Nat
    BY <1>t, RingDistance
  <2> QED BY <1>l, <2>1, <2>2 DEF IInv, CopiesLag
<1>m. MoveWr /\ MoveRd /\ ShiftToRd
  BY PointerStep DEF IInv
<1>w. \/ wbin' = wbin /\ Occ(wbin', wgray_s1) = F
      \/ /\ Occ(wbin', wgray_s1) = F + 1 /\ Occ(wbin', wbin) = 1
         /\ D + E + F < READY_LIMIT
  <2>1. CASE wbin' = wbin
    BY <2>1
  <2>2. CASE tx_ready /\ wbin' = Inc(wbin)
    <3>1. D + E + F < READY_LIMIT
      BY <2>2, WriteRoom DEF IInv, CopiesLag
    <3>2. F < N - 1
      BY <3>1, <1>n, <1>l
    <3> QED BY <2>2, <3>1, <3>2, <1>t, RingWrite, RingSelf
  <2> QED BY <2>1, <2>2, <1>m DEF MoveWr
<1>r. \/ rbin' = rbin
      \/ rbin' = Inc(rbin) /\ D > 0 /\ Occ(wgray_s2, rbin') = D - 1
  <2>1. CASE not_empty /\ rbin' = Inc(rbin)
    BY <2>1, <1>t, <1>n, RingRead, RingDistance DEF not_empty
  <2> QED BY <2>1, <1>m DEF MoveRd
<1>1. CASE UNCHANGED toRd
  <2>1. wgray_s1' = wgray_s1 /\ wgray_s2' = wgray_s2
    BY <1>1 DEF toRd
  <2>2. /\ Occ(wgray_s2', rbin') \in Nat /\ Occ(wgray_s2', rbin') <= D
        /\ Occ(wbin', wgray_s1') \in Nat
        /\ Occ(wgray_s2', rbin') + E + Occ(wbin', wgray_s1') < N
    BY <2>1, <1>w, <1>r, <1>n, <1>s, <1>l
  <2>3. Occ(wgray_s1', rbin') = E + Occ(wgray_s2', rbin')
    BY <2>1, <2>2, <1>t, <1>n, <1>l, RingAddition
  <2>4. Occ(wbin', rbin') = Occ(wbin', wgray_s1') + (E + Occ(wgray_s2', rbin'))
    BY <2>2, <2>3, <1>t, <1>n, <1>l, RingAddition
  <2> QED BY <2>1, <2>2, <2>4, <1>n
<1>2. CASE wgray_s1' \in {wbin, wbin'} /\ wgray_s2' = wgray_s1
  <2>1. Occ(wgray_s1, rbin) = E + D
    BY <1>t, <1>n, <1>s, <1>l, RingAddition
  <2>2. \/ rbin' = rbin /\ Occ(wgray_s1, rbin') = E + D
        \/ Occ(wgray_s1, rbin') = E + D - 1 /\ D > 0
    <3>1. CASE rbin' = Inc(rbin) /\ D > 0
      <4>1. wgray_s1 # rbin
        BY <3>1, <2>1, <1>t, <1>n, RingDistance
      <4> QED BY <3>1, <4>1, <2>1, <1>t, <1>n, RingRead
    <3> QED BY <3>1, <2>1, <1>r
  <2>3. \/ wgray_s1' = wbin  /\ Occ(wgray_s1', wgray_s1) = F
        \/ wgray_s1' = wbin' /\ Occ(wgray_s1', wgray_s1) = Occ(wbin', wgray_s1)
    BY <1>2
  <2>4. Occ(wbin', wbin') = 0 /\ Occ(wbin, wbin) = 0
    BY <1>t, RingDistance
  <2>5. /\ Occ(wgray_s1, rbin') \in Nat /\ Occ(wgray_s1', wgray_s1) \in Nat
        /\ Occ(wbin', wgray_s1') \in Nat
        /\ Occ(wgray_s1, rbin') + Occ(wgray_s1', wgray_s1) + Occ(wbin', wgray_s1') < N
    BY <2>2, <2>3, <2>4, <1>w, <1>n, <1>s, <1>l
  <2>6. Occ(wgray_s1', rbin') = Occ(wgray_s1', wgray_s1) + Occ(wgray_s1, rbin')
    BY <2>5, <1>t, <1>l, RingAddition
  <2>7. Occ(wbin', rbin') = Occ(wbin', wgray_s1') + Occ(wgray_s1', rbin')
    BY <2>5, <2>6, <1>t, <1>l, RingAddition
  <2> QED BY <1>2, <2>5, <2>6, <2>7
<1> QED BY <1>1, <1>2, <1>m DEF ShiftToRd

LEMMA CopiesLagStep == IInv /\ [Next]_vars /\ TypeOK' => IInv'
  BY ReadCopiesLag, WriteCopiesLag DEF IInv, CopiesLag

(* The invariant of the crossing: synchronised pointers lag in ring order. *)
THEOREM CopiesAlwaysLag == Spec => []CopiesLag
<1>1. Init => CopiesLag
  <2>1. 0 \in Ptr
    BY LinkAssumption DEF Ptr, N
  <2>2. Occ(0, 0) = 0
    BY <2>1, RingDistance
  <2> QED BY <2>2, LimitBounds DEF Init, CopiesLag
<1>2. Spec => []TypeOK
  BY TypeCorrect
<1>3. TypeOK /\ CopiesLag /\ [Next]_vars /\ TypeOK' => CopiesLag'
  BY CopiesLagStep DEF IInv
<1> QED BY <1>1, <1>2, <1>3, PTL DEF Spec

(* optical_link never holds more unread words than its memory, for every   *)
(* depth and every interleaving of the two clocks: the documented promise  *)
(* that the ready threshold guarantees no overflow.                        *)
THEOREM NeverOverflows == Spec => []NoOverflow
<1>1. TypeOK /\ CopiesLag => NoOverflow
  <2> SUFFICES ASSUME TypeOK, CopiesLag PROVE NoOverflow
    OBVIOUS
  <2>1. /\ Occ(rgray_ws1, rgray_ws2) \in Nat /\ Occ(rbin, rgray_ws1) \in Nat
        /\ Occ(wbin, rbin) \in Nat
    BY RingDistance DEF TypeOK
  <2> QED BY <2>1, LimitBounds, LinkAssumption DEF CopiesLag, NoOverflow
<1> QED BY <1>1, TypeCorrect, CopiesAlwaysLag, PTL

(* Two pointers less than Depth apart index different words of the memory. *)
LEMMA SlotsApart ==
    ASSUME NEW w \in Ptr, NEW r \in Ptr, NEW q \in Ptr,
           Occ(q, r) < Occ(w, r), Occ(w, r) < Depth
    PROVE  Slot(q) # Slot(w)
  BY LinkAssumption DEF Occ, Slot, Ptr, N

(* The word a write clock edge stores never lands on one that is accepted  *)
(* and not yet popped, for every depth and every phase of the clocks.      *)
THEOREM UnreadSurvives == Spec => NoUnreadOverwritten
<1>1. ASSUME TypeOK, CopiesLag, [Next]_vars, NEW s \in Unread
      PROVE  mem'[s] = mem[s]
  <2>1. CASE UNCHANGED mem
    BY <2>1
  <2>2. ASSUME NEW d \in Word, Accept(d) PROVE mem'[s] = mem[s]
    <3>1. PICK q \in Ptr : s = Slot(q) /\ Occ(q, rbin) < Occ(wbin, rbin)
      BY DEF Unread
    <3>2. Occ(wbin, rbin) < Depth
      <4>1. Occ(wbin, rbin) \in Nat
        BY <1>1, RingDistance DEF TypeOK
      <4>2. Occ(wbin, rbin) < READY_LIMIT
        BY <1>1, <2>2, WriteRoom DEF IInv, Accept
      <4> QED BY <4>1, <4>2, LimitBounds, LinkAssumption
    <3>3. s # Slot(wbin)
      BY <1>1, <3>1, <3>2, SlotsApart DEF TypeOK
    <3>4. s \in 0..(Depth - 1)
      BY <3>1, LinkAssumption DEF Slot, Ptr, N
    <3>5. mem' = [mem EXCEPT ![Slot(wbin)] = d]
      BY <2>2 DEF Accept
    <3>6. mem \in [0..(Depth - 1) -> Word \cup {NoWord}]
      BY <1>1 DEF TypeOK
    <3> QED BY <3>3, <3>4, <3>5, <3>6
  <2>3. UNCHANGED mem \/ \E d \in Word : Accept(d)
    BY <1>1 DEF Next, WrEdge, RdEdge, BothEdges, Write, Refuse, wrSide, vars
  <2> QED BY <2>1, <2>2, <2>3
<1>2. TypeOK /\ CopiesLag /\ [Next]_vars => [\A s \in Unread : mem'[s] = mem[s]]_vars
  BY <1>1
<1> QED BY <1>2, TypeCorrect, CopiesAlwaysLag, PTL DEF Spec, NoUnreadOverwritten

-----------------------------------------------------------------------------
(* The refinement of LinkChannel.  The words of the channel are the ones   *)
(* in the fibre followed by the ones in the memory.                        *)

(* The words of c slots from pointer r on, in memory m.                    *)
StoredIn(m, r, c) == [i \in 1..c |-> m[Slot((r + i - 1) % N)]]

(* Counting slots from a pointer.                                          *)
LEMMA PtrAt ==
    ASSUME NEW r \in Ptr, NEW k \in 0..(N - 1)
    PROVE  /\ (r + k) % N \in Ptr
           /\ Occ((r + k) % N, r) = k
           /\ (r + k) % N = IF r + k < N THEN r + k ELSE r + k - N
<1>1. N \in Nat \ {0}
  BY LinkAssumption DEF N
<1>2. (r + k) % N = Wrapped(r + k, N)
  BY <1>1, Wrap DEF Ptr
<1> QED BY <1>1, <1>2 DEF Wrapped, Occ, Ptr

LEMMA PtrAtOcc ==
    ASSUME NEW w \in Ptr, NEW r \in Ptr
    PROVE  (r + Occ(w, r)) % N = w
<1>1. N \in Nat \ {0} /\ Occ(w, r) \in 0..(N - 1)
  BY LinkAssumption, RingDistance DEF N
<1>2. (r + Occ(w, r)) % N = Wrapped(r + Occ(w, r), N)
  BY <1>1, Wrap DEF Ptr
<1> QED BY <1>1, <1>2 DEF Wrapped, Occ, Ptr

LEMMA PtrAtInc ==
    ASSUME NEW r \in Ptr, NEW k \in 0..(N - 2)
    PROVE  (Inc(r) + k) % N = (r + (k + 1)) % N
<1>1. N \in Nat \ {0} /\ Inc(r) \in Ptr /\ k \in 0..(N - 1) /\ k + 1 \in 0..(N - 1)
  BY LinkAssumption, IncType DEF N
<1>2. (Inc(r) + k) % N = IF Inc(r) + k < N THEN Inc(r) + k ELSE Inc(r) + k - N
  BY <1>1, PtrAt
<1>3. (r + (k + 1)) % N = IF r + (k + 1) < N THEN r + (k + 1) ELSE r + (k + 1) - N
  BY <1>1, PtrAt
<1> QED BY <1>1, <1>2, <1>3 DEF Inc, Ptr

(* A write adds its word at the end and disturbs no other.                 *)
LEMMA StoredWrite ==
    ASSUME NEW m \in [0..(Depth - 1) -> Word \cup {NoWord}], NEW d \in Word,
           NEW w \in Ptr, NEW r \in Ptr, Occ(w, r) < Depth,
           StoredIn(m, r, Occ(w, r)) \in Seq(Word)
    PROVE  StoredIn([m EXCEPT ![Slot(w)] = d], r, Occ(w, r) + 1)
             = Append(StoredIn(m, r, Occ(w, r)), d)
<1> DEFINE c == Occ(w, r)
           m2 == [m EXCEPT ![Slot(w)] = d]
<1>1. c \in Nat /\ c < Depth /\ Depth \in Nat /\ c < N /\ N = 2 * Depth
  BY LinkAssumption, RingDistance DEF N
<1>2. Slot(w) \in 0..(Depth - 1)
  BY LinkAssumption DEF Slot, Ptr, N
<1>3. ASSUME NEW i \in 1..c
      PROVE  m2[Slot((r + i - 1) % N)] = m[Slot((r + i - 1) % N)]
  <2> DEFINE q == (r + (i - 1)) % N
  <2>1. i - 1 \in 0..(N - 1) /\ r + i - 1 = r + (i - 1)
    BY <1>1 DEF Ptr
  <2>2. q \in Ptr /\ Occ(q, r) = i - 1
    BY <2>1, PtrAt
  <2> HIDE DEF q
  <2>3. Slot(q) # Slot(w)
    BY <2>2, <1>1, SlotsApart
  <2>4. m2[Slot(q)] = m[Slot(q)]
    <3>1. Slot(q) \in 0..(Depth - 1)
      BY <2>2, LinkAssumption DEF Slot, Ptr, N
    <3> QED BY <2>3, <3>1
  <2> QED BY <2>1, <2>4 DEF q
<1>4. m2[Slot((r + (c + 1) - 1) % N)] = d
  <2>1. (r + c) % N = w
    BY PtrAtOcc
  <2>2. r + (c + 1) - 1 = r + c
    BY <1>1 DEF Ptr
  <2> QED BY <2>1, <2>2, <1>2
<1> DEFINE s == StoredIn(m, r, c)
           t == StoredIn(m2, r, c + 1)
<1>5. s \in Seq(Word) /\ Len(s) = c
  BY <1>1 DEF StoredIn
<1>6. t = [i \in 1..(c + 1) |-> m2[Slot((r + i - 1) % N)]]
  BY DEF StoredIn
<1>7. s = [i \in 1..c |-> m[Slot((r + i - 1) % N)]]
  BY DEF StoredIn
<1>8. Append(s, d) = [i \in 1..(c + 1) |-> IF i = c + 1 THEN d ELSE s[i]]
  <2>1. PICK n \in Nat : n = c
    BY <1>1
  <2>2. PICK u \in Seq(Word) : u = s
    BY <1>5
  <2>3. Len(u) = n
    BY <1>5, <2>1, <2>2
  <2>4. Append(u, d) = [i \in 1..(n + 1) |-> IF i = n + 1 THEN d ELSE u[i]]
    <3>1. PICK v : v = [i \in 1..(n + 1) |-> IF i = n + 1 THEN d ELSE u[i]]
      OBVIOUS
    <3>2. v \in [1..(n + 1) -> Word]
      <4>1. ASSUME NEW i \in 1..(n + 1) PROVE (IF i = n + 1 THEN d ELSE u[i]) \in Word
        <5>1. i # n + 1 => i \in 1..Len(u)
          BY <2>3, <4>1
        <5> QED BY <5>1
      <4> QED BY <3>1, <4>1
    <3>3. v \in Seq(Word) /\ Len(v) = n + 1
      BY <3>2
    <3>4. Append(u, d) \in Seq(Word) /\ Len(Append(u, d)) = n + 1
          /\ (\A i \in 1..n : Append(u, d)[i] = u[i]) /\ Append(u, d)[n + 1] = d
      BY <2>3, AppendProperties
    <3>5. \A i \in 1..(n + 1) : Append(u, d)[i] = v[i]
      <4>1. ASSUME NEW i \in 1..(n + 1) PROVE Append(u, d)[i] = v[i]
        <5>1. i # n + 1 => i \in 1..n
          BY <4>1
        <5>2. v[i] = IF i = n + 1 THEN d ELSE u[i]
          BY <3>1, <4>1
        <5> QED BY <3>4, <5>1, <5>2
      <4> QED BY <4>1
    <3> QED BY <3>1, <3>3, <3>4, <3>5, SeqEqual
  <2> QED BY <2>1, <2>2, <2>4
<1> HIDE DEF c, m2, s, t
<1>9. ASSUME NEW i \in 1..(c + 1)
      PROVE  m2[Slot((r + i - 1) % N)] = IF i = c + 1 THEN d ELSE s[i]
  <2>1. CASE i = c + 1
    BY <2>1, <1>4
  <2>2. CASE i # c + 1
    <3>1. i \in 1..c
      BY <2>2, <1>1
    <3> QED BY <2>2, <3>1, <1>3, <1>7
  <2> QED BY <2>1, <2>2
<1>10. t = Append(s, d)
  BY <1>6, <1>8, <1>9
<1> QED BY <1>10 DEF c, m2, s, t

(* A pop takes the oldest word.                                            *)
LEMMA StoredRead ==
    ASSUME NEW m, NEW r \in Ptr, NEW c \in 1..(N - 1),
           StoredIn(m, r, c) \in Seq(Word)
    PROVE  /\ StoredIn(m, r, c) = <<m[Slot(r)]>> \o StoredIn(m, Inc(r), c - 1)
           /\ StoredIn(m, Inc(r), c - 1) \in Seq(Word)
           /\ m[Slot(r)] \in Word
<1> DEFINE s == StoredIn(m, r, c)
           t == StoredIn(m, Inc(r), c - 1)
<1>1. s = [i \in 1..c |-> m[Slot((r + i - 1) % N)]] /\ s \in Seq(Word) /\ Len(s) = c
  BY LinkAssumption DEF StoredIn
<1>2. t = [i \in 1..(c - 1) |-> m[Slot((Inc(r) + i - 1) % N)]]
  BY DEF StoredIn
<1>3. s[1] = m[Slot(r)] /\ s[1] \in Word
  <2>1. (r + 1 - 1) % N = r
    <3>1. 0 \in 0..(N - 1) /\ r + 1 - 1 = r + 0
      BY LinkAssumption DEF N, Ptr
    <3>2. (r + 0) % N = IF r + 0 < N THEN r + 0 ELSE r + 0 - N
      BY <3>1, PtrAt
    <3> QED BY <3>1, <3>2, LinkAssumption DEF Ptr, N
  <2>2. 1 \in 1..c
    BY LinkAssumption DEF N
  <2> QED BY <1>1, <2>1, <2>2
<1>4. ASSUME NEW i \in 1..(c - 1) PROVE t[i] = s[i + 1] /\ t[i] \in Word
  <2>1. i + 1 \in 1..c /\ i - 1 \in 0..(N - 2) /\ N \in Nat
    BY LinkAssumption DEF N
  <2>2. (Inc(r) + (i - 1)) % N = (r + ((i - 1) + 1)) % N
    BY <2>1, PtrAtInc
  <2>3. Inc(r) + i - 1 = Inc(r) + (i - 1) /\ r + (i + 1) - 1 = r + ((i - 1) + 1)
    BY IncType DEF Ptr
  <2>4. t[i] = s[i + 1]
    BY <1>1, <1>2, <2>1, <2>2, <2>3
  <2> QED BY <1>1, <2>1, <2>4
<1> HIDE DEF s, t
<1>5. t \in Seq(Word) /\ Len(t) = c - 1
  <2>1. c - 1 \in Nat
    BY LinkAssumption DEF N
  <2> QED BY <1>2, <1>4, <2>1
<1>6. s = <<m[Slot(r)]>> \o t
  <2> DEFINE u == <<s[1]>> \o t
  <2>1. u = [i \in 1..c |-> IF i = 1 THEN s[1] ELSE t[i - 1]]
    BY <1>3, <1>5
  <2>2. \A i \in 2..c : t[i - 1] = s[i]
    <3> TAKE i \in 2..c
    <3>1. i - 1 \in 1..(c - 1) /\ (i - 1) + 1 = i
      OBVIOUS
    <3> QED BY <3>1, <1>4
  <2> HIDE DEF u
  <2>3. \A i \in 1..c : s[i] = IF i = 1 THEN s[1] ELSE t[i - 1]
    BY <2>2
  <2>4. s = u
    BY <1>1, <2>1, <2>3
  <2> QED BY <2>4, <1>3 DEF u
<1> QED BY <1>3, <1>5, <1>6 DEF s, t

(* One edge of either clock or of both, seen from the memory: s is what is *)
(* written and the popped word, if any, comes off the front.               *)
Popped(m, r, r2) == IF r2 = r THEN <<>> ELSE <<m[Slot(r)]>>
AtMostOne(s) == s = <<>> \/ \E d \in Word : s = <<d>>

Written(m, m2, w, w2, r) ==
    \/ m2 = m /\ w2 = w
    \/ \E d \in Word : /\ m2 = [m EXCEPT ![Slot(w)] = d]
                       /\ w2 = Inc(w) /\ Occ(w, r) < Depth

Advanced(w, r, r2) == r2 = r \/ (r2 = Inc(r) /\ w # r)

WordsMove(q, pop, q2) ==
    /\ q2 \in Seq(Word)
    /\ pop \in Seq(Word) /\ AtMostOne(pop)
    /\ \E s \in Seq(Word) : AtMostOne(s) /\ q \o s = pop \o q2

LEMMA StoredMoves ==
    ASSUME NEW m \in [0..(Depth - 1) -> Word \cup {NoWord}], NEW m2,
           NEW w \in Ptr, NEW r \in Ptr, NEW w2 \in Ptr, NEW r2 \in Ptr,
           StoredIn(m, r, Occ(w, r)) \in Seq(Word),
           Written(m, m2, w, w2, r), Advanced(w, r, r2)
    PROVE  WordsMove(StoredIn(m, r, Occ(w, r)), Popped(m, r, r2), StoredIn(m2, r2, Occ(w2, r2)))
<1> USE DEF Written, Advanced
<1> DEFINE q == StoredIn(m, r, Occ(w, r))
           q1 == StoredIn(m2, r, Occ(w2, r))
           q2 == StoredIn(m2, r2, Occ(w2, r2))
<1>n. N = 2 * Depth /\ Depth \in Nat \ {0}
  BY LinkAssumption DEF N
<1>1. PICK s \in Seq(Word) : AtMostOne(s) /\ q \o s = q1 /\ q1 \in Seq(Word)
  <2>1. CASE m2 = m /\ w2 = w
    <3>1. q1 = q /\ <<>> \in Seq(Word) /\ q \o <<>> = q
      BY <2>1
    <3> QED BY <3>1 DEF AtMostOne
  <2>2. ASSUME NEW d \in Word, m2 = [m EXCEPT ![Slot(w)] = d],
               w2 = Inc(w), Occ(w, r) < Depth
        PROVE  \E s \in Seq(Word) : AtMostOne(s) /\ q \o s = q1 /\ q1 \in Seq(Word)
    <3>1. Occ(w2, r) = Occ(w, r) + 1
      BY <2>2, <1>n, RingWrite, RingDistance
    <3>2. q1 = Append(q, d)
      <4>1. StoredIn([m EXCEPT ![Slot(w)] = d], r, Occ(w, r) + 1)
              = Append(StoredIn(m, r, Occ(w, r)), d)
        BY <2>2, StoredWrite
      <4> QED BY <2>2, <3>1, <4>1
    <3> HIDE DEF q, q1
    <3>3. q \in Seq(Word)
      BY DEF q
    <3>4. q1 = q \o <<d>> /\ q1 \in Seq(Word) /\ <<d>> \in Seq(Word)
      BY <3>2, <3>3, <2>2, AppendIsConcat
    <3> QED BY <3>4, <2>2 DEF AtMostOne
  <2> QED BY <2>1, <2>2
<1>2. /\ q2 \in Seq(Word) /\ Popped(m, r, r2) \in Seq(Word)
      /\ AtMostOne(Popped(m, r, r2)) /\ q1 = Popped(m, r, r2) \o q2
  <2>1. CASE r2 = r
    <3>1. q2 = q1 /\ Popped(m, r, r2) = <<>> /\ <<>> \in Seq(Word)
      BY <2>1 DEF Popped
    <3> HIDE DEF q1, q2
    <3>2. <<>> \o q1 = q1
      BY <1>1
    <3> QED BY <3>1, <3>2, <1>1 DEF AtMostOne
  <2>2. CASE r2 # r /\ r2 = Inc(r) /\ w # r
    <3>1. Occ(w, r) \in 1..(N - 1)
      BY <2>2, <1>n, RingDistance
    <3>2. /\ q = <<m[Slot(r)]>> \o StoredIn(m, Inc(r), Occ(w, r) - 1)
          /\ m[Slot(r)] \in Word
      BY <3>1, StoredRead
    <3>3. m2[Slot(r)] = m[Slot(r)]
      <4>1. CASE m2 = m
        BY <4>1
      <4>2. ASSUME NEW d \in Word, m2 = [m EXCEPT ![Slot(w)] = d], Occ(w, r) < Depth
            PROVE  m2[Slot(r)] = m[Slot(r)]
        <5>1. Occ(r, r) < Occ(w, r)
          BY <3>1, RingDistance
        <5>2. Slot(r) # Slot(w)
          BY <4>2, <5>1, SlotsApart
        <5>3. Slot(r) \in 0..(Depth - 1)
          BY <1>n DEF Slot, Ptr
        <5> QED BY <4>2, <5>2, <5>3
      <4> QED BY <4>1, <4>2
    <3>4. w2 # r /\ Occ(w2, r) \in 1..(N - 1)
      <4>1. CASE w2 = w
        BY <4>1, <3>1, <2>2
      <4>2. CASE w2 = Inc(w) /\ Occ(w, r) < Depth
        <5>1. Occ(w2, r) = Occ(w, r) + 1
          BY <4>2, <1>n, <3>1, RingWrite
        <5>2. Occ(w2, r) \in Nat /\ Occ(w2, r) < N /\ (w2 = r => Occ(w2, r) = 0)
          BY RingDistance
        <5> QED BY <5>1, <5>2, <3>1, <1>n
      <4> QED BY <4>1, <4>2
    <3>5. /\ q1 = <<m2[Slot(r)]>> \o StoredIn(m2, Inc(r), Occ(w2, r) - 1)
          /\ StoredIn(m2, Inc(r), Occ(w2, r) - 1) \in Seq(Word)
      BY <3>4, <1>1, StoredRead
    <3>6. Occ(w2, r2) = Occ(w2, r) - 1
      BY <2>2, <3>4, RingRead
    <3>7. Popped(m, r, r2) = <<m[Slot(r)]>> /\ <<m[Slot(r)]>> \in Seq(Word)
      BY <2>2, <3>2 DEF Popped
    <3>8. q2 = StoredIn(m2, Inc(r), Occ(w2, r) - 1)
      BY <2>2, <3>6
    <3> HIDE DEF q1, q2
    <3> QED BY <3>2, <3>3, <3>5, <3>7, <3>8 DEF AtMostOne
  <2> QED BY <2>1, <2>2
<1> QED BY <1>1, <1>2 DEF WordsMove

(* The words of a fibre.                                                   *)
FibreOf(f) == FlattenSeq([i \in 1..(Prop + 1) |-> Carried(f[Prop + 1 - i])])

LEMMA CarriedType ==
    ASSUME NEW w \in Word \cup {NoWord}
    PROVE  /\ Carried(w) \in Seq(Word) /\ Len(Carried(w)) <= 1 /\ AtMostOne(Carried(w))
           /\ w = NoWord => Carried(w) = <<>>
           /\ w # NoWord => w \in Word /\ Carried(w) = <<w>>
  BY DEF Carried, AtMostOne

LEMMA FibreType ==
    ASSUME NEW f \in [0..Prop -> Word \cup {NoWord}]
    PROVE  FibreOf(f) \in Seq(Word) /\ Len(FibreOf(f)) <= Prop + 1
<1> DEFINE p == [i \in 1..(Prop + 1) |-> Carried(f[Prop + 1 - i])]
           n == Prop + 1
<1>1. n \in Nat /\ 1 \in 0..1
  BY LinkAssumption
<1>2. \A i \in 1..n : p[i] \in Seq(Word) /\ Len(p[i]) <= 1
  <2> TAKE i \in 1..n
  <2>1. f[Prop + 1 - i] \in Word \cup {NoWord}
    BY LinkAssumption
  <2>2. p[i] = Carried(f[Prop + 1 - i])
    OBVIOUS
  <2> HIDE DEF p
  <2> QED BY <2>1, <2>2, CarriedType
<1>3. p = [i \in 1..n |-> p[i]]
  OBVIOUS
<1>4. FibreOf(f) = FlattenSeq(p)
  BY DEF FibreOf
<1> HIDE DEF p, n
<1>5. p \in [1..n -> Seq(Word)] /\ \A i \in 1..n : Len(p[i]) <= 1
  BY <1>2, <1>3
<1>6. FlattenSeq(p) \in Seq(Word) /\ Len(FlattenSeq(p)) <= IF 1 = 0 THEN 0 ELSE n
  BY <1>1, <1>5, FlattenShort, Zenon
<1> QED BY <1>4, <1>6 DEF n

(* The fibre moves by a stage: the last stage comes out, the first one is  *)
(* filled.                                                                 *)
LEMMA FibreMoves ==
    ASSUME NEW f \in [0..Prop -> Word \cup {NoWord}],
           NEW g \in [0..Prop -> Word \cup {NoWord}],
           \A i \in 1..Prop : g[i] = f[i - 1]
    PROVE  FibreOf(f) \o Carried(g[0]) = Carried(f[Prop]) \o FibreOf(g)
<1> DEFINE p == [i \in 1..(Prop + 1) |-> Carried(f[Prop + 1 - i])]
           r == [i \in 1..(Prop + 1) |-> Carried(g[Prop + 1 - i])]
           n == Prop + 1
<1>1. n \in Nat \ {0}
  BY LinkAssumption
<1>2. IsRow(p, n, Word) /\ IsRow(r, n, Word)
  <2>1. \A i \in 1..n : f[Prop + 1 - i] \in Word \cup {NoWord} /\ g[Prop + 1 - i] \in Word \cup {NoWord}
    BY LinkAssumption
  <2>2. \A i \in 1..n : Carried(f[Prop + 1 - i]) \in Seq(Word) /\ Carried(g[Prop + 1 - i]) \in Seq(Word)
    BY <2>1, CarriedType
  <2> QED BY <2>2 DEF IsRow
<1>3. MovedUp(p, r, n)
  <2>1. ASSUME NEW i \in 1..(n - 1) PROVE r[i] = p[i + 1]
    <3>1. Prop + 1 - i \in 1..Prop /\ (Prop + 1 - i) - 1 = Prop + 1 - (i + 1)
      BY LinkAssumption
    <3>2. g[Prop + 1 - i] = f[Prop + 1 - (i + 1)]
      BY <3>1
    <3>3. i \in 1..(Prop + 1) /\ i + 1 \in 1..(Prop + 1)
      BY LinkAssumption
    <3> QED BY <3>2, <3>3
  <2> QED BY <2>1 DEF MovedUp
<1>4. r[n] = Carried(g[0]) /\ p[1] = Carried(f[Prop])
  <2>1. n \in 1..(Prop + 1) /\ 1 \in 1..(Prop + 1) /\ Prop + 1 - n = 0 /\ Prop + 1 - 1 = Prop
    BY LinkAssumption
  <2> QED BY <2>1
<1>5. FibreOf(f) = FlattenSeq(p) /\ FibreOf(g) = FlattenSeq(r)
  BY DEF FibreOf
<1> HIDE DEF p, r, n
<1>6. FlattenSeq(p) \o r[n] = p[1] \o FlattenSeq(r)
  <2>1. LostFirst(p, r, n)
    BY <1>1, <1>2, <1>3, FlattenShift
  <2> QED BY <2>1 DEF LostFirst
<1> QED BY <1>4, <1>5, <1>6

FrontToBack(F, C, R, F2, S, s, S2) ==
    F \o C = R \o F2 /\ S \o s = C \o S2 => R \o (F2 \o S2) = (F \o S) \o s

LEMMA Regroup ==
    ASSUME NEW F \in Seq(Word), NEW C \in Seq(Word), NEW R \in Seq(Word), NEW F2 \in Seq(Word),
           NEW S \in Seq(Word), NEW s \in Seq(Word), NEW S2 \in Seq(Word)
    PROVE  FrontToBack(F, C, R, F2, S, s, S2)
<1>1. Regrouped(R, F2, S2) /\ Regrouped(F, C, S2) /\ Regrouped(F, S, s)
  BY Regrouping
<1>2. ASSUME F \o C = R \o F2, S \o s = C \o S2
      PROVE  R \o (F2 \o S2) = (F \o S) \o s
  BY <1>1, <1>2 DEF Regrouped
<1> QED BY <1>2 DEF FrontToBack

(* A word comes off the front of a queue while at most one joins its end.  *)
LEMMA QueueMoves ==
    ASSUME NEW q \in Seq(Word), NEW q2 \in Seq(Word), NEW s \in Seq(Word),
           NEW o \in Word, q # <<>>, <<o>> \o q2 = q \o s
    PROVE  o = Head(q) /\ q2 = Tail(q) \o s /\ Tail(q) \in Seq(Word)
<1>1. q \o s # <<>> /\ Tail(q \o s) = Tail(q) \o s
  BY TailOfConcat
<1>2. Tail(<<o>> \o q2) = q2 /\ (<<o>> \o q2)[1] = o
  OBVIOUS
<1>3. (q \o s)[1] = q[1]
  <2>1. Len(q) >= 1
    BY EmptySeq
  <2> QED BY <2>1, ConcatProperties
<1>4. Tail(q) \in Seq(Word) /\ Head(q) = q[1]
  OBVIOUS
<1> QED BY <1>1, <1>2, <1>3, <1>4

-----------------------------------------------------------------------------
(* The words that wait in the memory are words: what a pop puts into the   *)
(* fibre is always something that was accepted.                            *)
WordsStored == StoredIn(mem, rbin, Occ(wbin, rbin)) \in Seq(Word)

LEMMA PopsAWord ==
    ASSUME TypeOK, CopiesLag, not_empty
    PROVE  wbin # rbin
<1>1. /\ wgray_s2 \in Ptr /\ wgray_s1 \in Ptr /\ wbin \in Ptr /\ rbin \in Ptr
  BY DEF TypeOK
<1>2. Occ(wgray_s2, rbin) > 0 /\ Occ(wgray_s2, rbin) \in Nat
  BY <1>1, RingDistance, LinkAssumption DEF not_empty, N
<1>3. Occ(wgray_s1, wgray_s2) \in Nat /\ Occ(wbin, wgray_s1) \in Nat
  BY <1>1, RingDistance
<1>4. Occ(wbin, rbin) > 0
  BY <1>2, <1>3 DEF CopiesLag
<1> QED BY <1>1, <1>4, RingDistance

(* What an edge does to the words in the memory.                           *)
LEMMA MemoryMoves ==
    ASSUME TypeOK, CopiesLag, WordsStored, [Next]_vars, TypeOK'
    PROVE  /\ WordsStored'
           /\ WordsMove(Stored, Popped(mem, rbin, rbin'), Stored')
<1> DEFINE m2 == mem'
           w2 == wbin'
           r2 == rbin'
<1>1. /\ mem \in [0..(Depth - 1) -> Word \cup {NoWord}]
      /\ wbin \in Ptr /\ rbin \in Ptr /\ w2 \in Ptr /\ r2 \in Ptr
  BY DEF TypeOK
<1>2. Written(mem, m2, wbin, w2, rbin)
  <2>1. ASSUME Write
        PROVE  \/ m2 = mem /\ w2 = wbin
               \/ \E d \in Word : Accept(d)
    BY <2>1 DEF Write, Refuse, wrSide
  <2>2. ASSUME NEW d \in Word, Accept(d)
        PROVE  /\ m2 = [mem EXCEPT ![Slot(wbin)] = d]
               /\ w2 = Inc(wbin) /\ Occ(wbin, rbin) < Depth
    <3>1. Occ(wbin, rbin) < READY_LIMIT
      BY <2>2, WriteRoom DEF IInv, Accept
    <3>2. Occ(wbin, rbin) \in Nat
      BY <1>1, RingDistance
    <3>3. Occ(wbin, rbin) < Depth
      BY <3>1, <3>2, LimitBounds, LinkAssumption
    <3> QED BY <2>2, <3>3 DEF Accept
  <2> USE DEF Written
  <2>3. CASE WrEdge
    BY <2>1, <2>2, <2>3 DEF WrEdge
  <2>4. CASE RdEdge
    BY <2>4 DEF RdEdge, wrSide
  <2>5. CASE BothEdges
    BY <2>1, <2>2, <2>5 DEF BothEdges
  <2>6. CASE UNCHANGED vars
    BY <2>6 DEF vars, wrSide
  <2> QED BY <2>3, <2>4, <2>5, <2>6 DEF Next
<1>3. Advanced(wbin, rbin, r2)
  BY PointerStep, PopsAWord DEF MoveRd, Advanced
<1>4. StoredIn(mem, rbin, Occ(wbin, rbin)) \in Seq(Word)
  BY DEF WordsStored
<1> HIDE DEF m2, w2, r2
<1>5. WordsMove(StoredIn(mem, rbin, Occ(wbin, rbin)), Popped(mem, rbin, r2),
                StoredIn(m2, r2, Occ(w2, r2)))
  BY <1>1, <1>2, <1>3, <1>4, StoredMoves
<1>6. /\ Stored = StoredIn(mem, rbin, Occ(wbin, rbin))
      /\ Stored' = StoredIn(m2, r2, Occ(w2, r2))
  BY DEF Stored, StoredIn, m2, w2, r2
<1>7. WordsStored' <=> StoredIn(m2, r2, Occ(w2, r2)) \in Seq(Word)
  BY DEF WordsStored, StoredIn, m2, w2, r2
<1>8. StoredIn(m2, r2, Occ(w2, r2)) \in Seq(Word)
  BY <1>5 DEF WordsMove
<1> QED BY <1>5, <1>6, <1>7, <1>8 DEF r2

(* What an edge does to the words in the fibre.                            *)
LEMMA FibreStep ==
    ASSUME TypeOK, CopiesLag, WordsStored, [Next]_vars, TypeOK',
           AtMostOne(Popped(mem, rbin, rbin')), Popped(mem, rbin, rbin') \in Seq(Word)
    PROVE  \/ /\ rx' = rx /\ FibreOf(pipe') = FibreOf(pipe)
              /\ Popped(mem, rbin, rbin') = <<>>
           \/ FibreOf(pipe) \o Popped(mem, rbin, rbin') = Carried(rx') \o FibreOf(pipe')
<1>1. ASSUME UNCHANGED rdSide
      PROVE  /\ rx' = rx /\ FibreOf(pipe') = FibreOf(pipe)
             /\ Popped(mem, rbin, rbin') = <<>>
  BY <1>1 DEF rdSide, Popped
<1>2. ASSUME Read
      PROVE  FibreOf(pipe) \o Popped(mem, rbin, rbin') = Carried(rx') \o FibreOf(pipe')
  <2>1. /\ pipe \in [0..Prop -> Word \cup {NoWord}] /\ pipe' \in [0..Prop -> Word \cup {NoWord}]
        /\ rbin \in Ptr
    BY DEF TypeOK
  <2>2. \A i \in 1..Prop : pipe'[i] = pipe[i - 1]
    BY <1>2, LinkAssumption DEF Read
  <2>3. pipe'[0] = IF not_empty THEN mem[Slot(rbin)] ELSE NoWord
    <3>1. 0 \in 0..Prop
      BY LinkAssumption
    <3> QED BY <1>2, <3>1 DEF Read
  <2>4. Carried(pipe'[0]) = Popped(mem, rbin, rbin')
    <3>1. CASE not_empty
      <4>1. rbin' = Inc(rbin) /\ Inc(rbin) # rbin
        BY <1>2, <3>1, <2>1, LinkAssumption DEF Read, Inc, Ptr, N
      <4>2. Popped(mem, rbin, rbin') = <<mem[Slot(rbin)]>>
        BY <4>1 DEF Popped
      <4>3. mem[Slot(rbin)] \in Word
        <5>1. wbin # rbin /\ wbin \in Ptr
          BY <3>1, PopsAWord DEF TypeOK
        <5>2. Occ(wbin, rbin) \in 1..(N - 1)
          BY <5>1, <2>1, RingDistance, LinkAssumption DEF N
        <5> QED BY <2>1, <5>2, StoredRead DEF WordsStored
      <4> QED BY <2>3, <3>1, <4>2, <4>3, LinkAssumption DEF Carried
    <3>2. CASE ~not_empty
      BY <1>2, <2>3, <3>2 DEF Read, Popped, Carried
    <3> QED BY <3>1, <3>2
  <2>5. rx' = pipe[Prop]
    BY <1>2 DEF Read
  <2> DEFINE f == pipe
             g == pipe'
  <2>6. f \in [0..Prop -> Word \cup {NoWord}] /\ g \in [0..Prop -> Word \cup {NoWord}]
    BY <2>1
  <2>7. \A i \in 1..Prop : g[i] = f[i - 1]
    BY <2>2
  <2> HIDE DEF f, g
  <2>8. FibreOf(f) \o Carried(g[0]) = Carried(f[Prop]) \o FibreOf(g)
    BY <2>6, <2>7, FibreMoves
  <2> QED BY <2>4, <2>5, <2>8 DEF f, g
<1>3. UNCHANGED rdSide \/ Read
  BY DEF Next, WrEdge, RdEdge, BothEdges, vars
<1> QED BY <1>1, <1>2, <1>3

(* A step of the link is a step of the channel.                            *)
Sent(r, q2, cap) == q2 = r \/ \E w \in Word : q2 = Append(r, w) /\ Len(q2) <= cap

ChannelMoves(q, q2, o2, s, cap) ==
    /\ q2 = q \o s => Sent(q, q2, cap)
    /\ Carried(o2) \o q2 = q \o s /\ (o2 # NoWord => q # <<>>) =>
          \/ o2 = NoWord /\ Sent(q, q2, cap)
          \/ q # <<>> /\ o2 = Head(q) /\ Sent(Tail(q), q2, cap)

LEMMA ChannelStep ==
    ASSUME NEW q \in Seq(Word), NEW q2 \in Seq(Word), NEW o2 \in Word \cup {NoWord},
           NEW s, AtMostOne(s), NEW cap, Len(q2) <= cap
    PROVE  ChannelMoves(q, q2, o2, s, cap)
<1>1. ASSUME NEW r \in Seq(Word), q2 = r \o s PROVE Sent(r, q2, cap)
  <2>1. CASE s = <<>>
    BY <1>1, <2>1 DEF Sent
  <2>2. ASSUME NEW d \in Word, s = <<d>> PROVE Sent(r, q2, cap)
    <3>1. q2 = Append(r, d)
      BY <1>1, <2>2, AppendIsConcat
    <3> QED BY <3>1 DEF Sent
  <2> QED BY <2>1, <2>2 DEF AtMostOne
<1>2. s \in Seq(Word)
  <2>1. <<>> \in Seq(Word) /\ \A d \in Word : <<d>> \in Seq(Word)
    OBVIOUS
  <2> QED BY <2>1 DEF AtMostOne
<1>3. ASSUME Carried(o2) \o q2 = q \o s, o2 = NoWord PROVE q2 = q \o s
  BY <1>3 DEF Carried
<1>4. ASSUME Carried(o2) \o q2 = q \o s, o2 # NoWord, q # <<>>
      PROVE  o2 = Head(q) /\ q2 = Tail(q) \o s /\ Tail(q) \in Seq(Word)
  <2>1. <<o2>> \o q2 = q \o s /\ o2 \in Word
    BY <1>4 DEF Carried
  <2> QED BY <1>2, <1>4, <2>1, QueueMoves
<1>5. ChannelMoves(q, q2, o2, s, cap)
  <2>1. ASSUME q2 = q \o s PROVE Sent(q, q2, cap)
    BY <1>1, <2>1
  <2>2. ASSUME Carried(o2) \o q2 = q \o s, o2 = NoWord PROVE Sent(q, q2, cap)
    BY <1>3, <2>1, <2>2
  <2>3. ASSUME Carried(o2) \o q2 = q \o s, o2 # NoWord, q # <<>>
        PROVE  o2 = Head(q) /\ Sent(Tail(q), q2, cap)
    BY <1>1, <1>4, <2>3
  <2> QED BY <2>1, <2>2, <2>3 DEF ChannelMoves
<1> QED BY <1>5

LEMMA LinkStep ==
    ASSUME TypeOK, CopiesLag, WordsStored, [Next]_vars, TypeOK', CopiesLag'
    PROVE  WordsStored' /\ [Channel!Next]_<<Fibre \o Stored, rx>>
<1> DEFINE cap == READY_LIMIT + Prop + 1
           pop == Popped(mem, rbin, rbin')
           F == FibreOf(pipe)
           F2 == FibreOf(pipe')
           S == Stored
           S2 == Stored'
           o2 == rx'
           o  == rx
<1>1. WordsStored' /\ WordsMove(S, pop, S2)
  BY MemoryMoves
<1>2. PICK s \in Seq(Word) : AtMostOne(s) /\ S \o s = pop \o S2
  BY <1>1 DEF WordsMove
<1>3. pop \in Seq(Word) /\ AtMostOne(pop) /\ S2 \in Seq(Word) /\ S \in Seq(Word)
  BY <1>1 DEF WordsMove, WordsStored, Stored, StoredIn
<1>4. o2 \in Word \cup {NoWord}
  BY DEF TypeOK
<1>5. /\ F \in Seq(Word) /\ Len(F) <= Prop + 1
      /\ F2 \in Seq(Word) /\ Len(F2) <= Prop + 1
  BY FibreType DEF TypeOK
<1>6. Len(S2) <= READY_LIMIT
  <2>1. /\ Occ(wbin', rbin') \in Nat /\ Occ(rgray_ws1', rgray_ws2') \in Nat
        /\ Occ(rbin', rgray_ws1') \in Nat
    BY RingDistance DEF TypeOK
  <2>2. Len(S2) = Occ(wbin', rbin')
    BY <2>1 DEF Stored
  <2>3. Occ(wbin', rbin') <= READY_LIMIT
    BY <2>1, LimitBounds, LinkAssumption DEF CopiesLag
  <2> QED BY <2>2, <2>3
<1>7. \/ o2 = o /\ F2 = F /\ pop = <<>>
      \/ F \o pop = Carried(o2) \o F2
  BY <1>3, FibreStep
<1>8. Fibre = F /\ Fibre' = F2 /\ Stored = S /\ Stored' = S2
  BY DEF Fibre, FibreOf
<1>9. Carried(o2) \in Seq(Word)
  BY <1>4, CarriedType
<1> DEFINE q == F \o S
           q2 == F2 \o S2
<1> HIDE DEF cap, pop, F, F2, S, S2, o, o2
<1>10. q \in Seq(Word) /\ q2 \in Seq(Word) /\ Len(q2) <= cap
  <2>1. Len(q2) = Len(F2) + Len(S2) /\ q \in Seq(Word) /\ q2 \in Seq(Word)
    BY <1>3, <1>5, ConcatProperties
  <2>2. Len(F2) \in Nat /\ Len(S2) \in Nat
    BY <1>3, <1>5
  <2> QED BY <2>1, <2>2, <1>5, <1>6, LimitBounds, LinkAssumption DEF cap
<1>11. \/ o2 = o /\ q2 = q \o s
       \/ Carried(o2) \o q2 = q \o s /\ (o2 # NoWord => q # <<>>)
  <2>1. CASE o2 = o /\ F2 = F /\ pop = <<>>
    <3>1. S \o s = S2
      BY <1>2, <1>3, <2>1
    <3>2. Regrouped(F, S, s)
      BY <1>3, <1>5, Regrouping
    <3> QED BY <2>1, <3>1, <3>2 DEF Regrouped
  <2>2. CASE F \o pop = Carried(o2) \o F2
    <3>1. Carried(o2) \o q2 = q \o s
      <4>1. FrontToBack(F, pop, Carried(o2), F2, S, s, S2)
        BY <1>3, <1>5, <1>9, Regroup
      <4> QED BY <4>1, <1>2, <2>2 DEF FrontToBack
    <3>2. ASSUME o2 # NoWord, q = <<>> PROVE FALSE
      <4>1. F = <<>> /\ S = <<>>
        BY <3>2, <1>3, <1>5, ConcatEqualIffEmpty
      <4>2. pop = <<>>
        <5>1. rbin' = rbin
          <6>1. Occ(wbin, rbin) \in Nat /\ Len(S) = Occ(wbin, rbin)
            BY RingDistance DEF TypeOK, S, Stored
          <6>2. Occ(wbin, rbin) = 0
            BY <4>1, <6>1
          <6>3. wbin = rbin
            BY <6>2, RingDistance DEF TypeOK
          <6> QED BY <6>3, PointerStep, PopsAWord DEF MoveRd
        <5> QED BY <5>1 DEF Popped, pop
      <4>3. Carried(o2) = <<o2>> /\ o2 \in Word
        BY <3>2, <1>4, CarriedType
      <4>4. <<o2>> \o F2 = <<>>
        <5>1. <<>> \o <<>> = <<>>
          OBVIOUS
        <5> QED BY <5>1, <2>2, <4>1, <4>2, <4>3, Zenon
      <4>5. Len(<<o2>> \o F2) = 1 + Len(F2) /\ Len(F2) \in Nat
        BY <1>5, <4>3
      <4> QED BY <4>4, <4>5
    <3> QED BY <3>1, <3>2
  <2> QED BY <1>7, <2>1, <2>2
<1> HIDE DEF q, q2
<1>12. ChannelMoves(q, q2, o2, s, cap)
  BY <1>2, <1>4, <1>10, ChannelStep
<1>13. (Fibre \o Stored) = q /\ (Fibre \o Stored)' = q2 /\ rx = o /\ rx' = o2
  BY <1>8 DEF q, q2, o, o2
<1>14. Channel!Next
  BY <1>11, <1>12, <1>13
     DEF ChannelMoves, Sent, Channel!Next, Channel!NotClocked, Channel!Nothing, Channel!Present, Channel!Send, cap
<1> QED BY <1>1, <1>14

(* optical_link is a bounded FIFO that loses, adds and reorders nothing,   *)
(* for every depth, fibre length, word set and phase of the two clocks:    *)
(* every step of the link is a step of the channel.                        *)
THEOREM LinkIsAChannel == Spec => ImplementsChannel
<1>1. Init => WordsStored /\ Channel!Init
  <2> SUFFICES ASSUME Init PROVE WordsStored /\ Channel!Init
    OBVIOUS
  <2>1. 0 \in Ptr /\ Occ(0, 0) = 0
    BY LinkAssumption, RingDistance DEF Ptr, N
  <2>2. Stored = <<>> /\ StoredIn(mem, rbin, Occ(wbin, rbin)) = <<>>
    BY <2>1 DEF Init, Stored, StoredIn
  <2>3. Fibre = <<>>
    <3> DEFINE p == [i \in 1..(Prop + 1) |-> Carried(pipe[Prop + 1 - i])]
               n == Prop + 1
    <3>1. n \in Nat /\ 0 \in 0..1
      BY LinkAssumption
    <3>2. p = [i \in 1..n |-> <<>>]
      BY LinkAssumption DEF Init, Carried
    <3>3. p \in [1..n -> Seq(Word)] /\ \A i \in 1..n : Len(p[i]) <= 0
      <4>1. \A i \in 1..n : p[i] = <<>>
        BY <3>2
      <4>2. <<>> \in Seq(Word) /\ Len(<<>>) = 0
        OBVIOUS
      <4> HIDE DEF n, p
      <4> QED BY <3>2, <4>1, <4>2
    <3>4. Fibre = FlattenSeq(p)
      BY DEF Fibre
    <3> HIDE DEF p, n
    <3>5. FlattenSeq(p) \in Seq(Word) /\ Len(FlattenSeq(p)) <= IF 0 = 0 THEN 0 ELSE n
      BY <3>1, <3>3, FlattenShort, Zenon
    <3>6. Len(Fibre) = 0 /\ Fibre \in Seq(Word)
      BY <3>4, <3>5
    <3> QED BY <3>6, EmptySeq
  <2>4. Fibre \o Stored = <<>>
    BY <2>2, <2>3
  <2>5. <<>> \in Seq(Word)
    OBVIOUS
  <2> QED BY <2>2, <2>4, <2>5 DEF WordsStored, Channel!Init, Init
<1>2. TypeOK /\ CopiesLag /\ WordsStored /\ [Next]_vars /\ TypeOK' /\ CopiesLag'
        => WordsStored' /\ [Channel!Next]_<<Fibre \o Stored, rx>>
  BY LinkStep
<1> QED BY <1>1, <1>2, TypeCorrect, CopiesAlwaysLag, PTL
        DEF Spec, ImplementsChannel, Channel!Spec

=============================================================================
