---------------------------- MODULE OpticalLink ----------------------------
(***************************************************************************)
(* HDL/optical_link.v: one direction of an inter-chassis fibre.  A dual-   *)
(* clock FIFO with Gray-coded pointers crossed by two-flop synchronisers,  *)
(* write-side flow control from the (late) synchronised read pointer, and  *)
(* a propagation pipe on the read side that cannot be stalled.             *)
(*                                                                         *)
(* The two clocks are unrelated: a step is an edge of the write clock, of  *)
(* the read clock, or of both at once.  When a pointer changes at the very *)
(* edge that samples it, each bit of its code is caught old or new,        *)
(* independently of the others.                                            *)
(***************************************************************************)
EXTENDS Integers, SequencesExt

CONSTANTS Depth,    \* FIFO_DEPTH, a power of two
          Prop,     \* PROP_CYCLES of the fibre and the converters
          Word,     \* what a FIFO entry holds: data with its sop and eop
          NoWord,   \* an entry or pipe stage with nothing valid in it
          Bit,      \* the bits of a pointer register
          Gray      \* Gray[p]: the code of pointer p, a function on Bit

N    == 2 * Depth               \* pointers carry one bit more than a slot
Ptr  == 0..(N - 1)
Inc(p)  == IF p = N - 1 THEN 0 ELSE p + 1

(* The code is one-to-one, and a pointer that advances changes one bit.    *)
ASSUME LinkAssumption ==
    /\ Depth \in Nat \ {0} /\ Prop \in Nat /\ NoWord \notin Word
    /\ Gray \in [Ptr -> [Bit -> BOOLEAN]]
    /\ \A p, q \in Ptr : Gray[p] = Gray[q] => p = q
    /\ \A p \in Ptr : \E j \in Bit : \A k \in Bit \ {j} :
                         Gray[p][k] = Gray[Inc(p)][k]

VARIABLES mem,        \* fifo_mem
          wbin,       \* write pointer (wgray is its code, updated with it)
          rbin,       \* read pointer  (rgray is its code, updated with it)
          wgray_s1,   \* the write pointer on its way to the read clock,
          wgray_s2,   \*   held decoded (gray2bin)
          rgray_ws1,  \* the read pointer on its way to the write clock,
          rgray_ws2,  \*   held decoded
          pipe,       \* pipe[0..Prop]: the fibre, NoWord where pipe_v is 0
          rx,         \* rx_data while rx_valid, NoWord otherwise
          overflow_err

wrSide == <<mem, wbin, overflow_err>>
rdSide == <<rbin, pipe, rx>>
toRd   == <<wgray_s1, wgray_s2>>
toWr   == <<rgray_ws1, rgray_ws2>>
vars   == <<wrSide, rdSide, toRd, toWr>>

(* wbin - rbin in PTRW-bit arithmetic, and the low bits that index memory. *)
Occ(w, r) == IF w >= r THEN w - r ELSE w - r + N
Slot(p)   == IF p >= Depth THEN p - Depth ELSE p

(* Mutant: the words in flight are allowed for twice, with no floor.       *)
READY_LIMIT_twice == Depth - 2 * (Prop + 2)
READY_LIMIT == IF Depth > Prop + 2 THEN Depth - Prop - 2 ELSE 1

(* Mutant: the occupancy is taken against the write side's own pointer.    *)
tx_ready_self == Occ(wbin, wbin) < READY_LIMIT
tx_ready  == Occ(wbin, rgray_ws2) < READY_LIMIT

(* Mutant: the read side pops on every edge.                               *)
not_empty_always == TRUE
not_empty == wgray_s2 # rbin

(* The pointers a flop can hold after sampling a register that goes from   *)
(* a to b at the same edge.                                                *)
(* Mutant: the pointers cross in binary, so any mixture can be caught.     *)
CaughtBinary(a, b) == IF a = b THEN {a} ELSE Ptr
Caught(a, b) == {p \in Ptr : \A k \in Bit : Gray[p][k] \in {Gray[a][k], Gray[b][k]}}

-----------------------------------------------------------------------------
Init == /\ mem = [s \in 0..(Depth - 1) |-> NoWord]
        /\ wbin = 0 /\ rbin = 0
        /\ wgray_s1 = 0 /\ wgray_s2 = 0
        /\ rgray_ws1 = 0 /\ rgray_ws2 = 0
        /\ pipe = [i \in 0..Prop |-> NoWord]
        /\ rx = NoWord
        /\ overflow_err = FALSE

(* The write clock's process: a word offered while ready is stored, one    *)
(* offered while not ready raises the sticky flag.                         *)
Accept(d) ==
    /\ tx_ready
    /\ mem'  = [mem EXCEPT ![Slot(wbin)] = d]
    /\ wbin' = Inc(wbin)
    /\ UNCHANGED overflow_err

Refuse ==
    /\ ~tx_ready
    /\ overflow_err' = TRUE
    /\ UNCHANGED <<mem, wbin>>

Write == \/ \E d \in Word : Accept(d)
         \/ Refuse
         \/ UNCHANGED wrSide

(* The read clock's process: pop whatever is visible, shift the fibre,     *)
(* present its last stage.                                                 *)
Read ==
    /\ rbin' = IF not_empty THEN Inc(rbin) ELSE rbin
    /\ pipe' = [i \in 0..Prop |->
                  IF i > 0 THEN pipe[i - 1]
                  ELSE IF not_empty THEN mem[Slot(rbin)] ELSE NoWord]
    /\ rx' = pipe[Prop]

SyncToWr == /\ rgray_ws1' \in Caught(rbin, rbin')
            /\ rgray_ws2' = rgray_ws1

SyncToRd == /\ wgray_s1' \in Caught(wbin, wbin')
            /\ wgray_s2' = wgray_s1

WrEdge    == Write /\ UNCHANGED rdSide /\ SyncToWr /\ UNCHANGED toRd
RdEdge    == Read /\ UNCHANGED wrSide /\ SyncToRd /\ UNCHANGED toWr
BothEdges == Write /\ Read /\ SyncToWr /\ SyncToRd

Next == WrEdge \/ RdEdge \/ BothEdges

Spec == Init /\ [][Next]_vars

(* Both oscillators run for ever; nothing is assumed of their phases.      *)
Fairness == WF_vars(WrEdge \/ BothEdges) /\ WF_vars(RdEdge \/ BothEdges)

FairSpec == Spec /\ Fairness

-----------------------------------------------------------------------------
(* Properties                                                              *)

(* Registers hold values of their widths: pointers stay on the ring.       *)
TypeOK ==
    /\ mem \in [0..(Depth - 1) -> Word \cup {NoWord}]
    /\ wbin \in Ptr /\ rbin \in Ptr
    /\ wgray_s1 \in Ptr /\ wgray_s2 \in Ptr
    /\ rgray_ws1 \in Ptr /\ rgray_ws2 \in Ptr
    /\ pipe \in [0..Prop -> Word \cup {NoWord}]
    /\ rx \in Word \cup {NoWord}
    /\ overflow_err \in BOOLEAN

(* Every copy of a pointer on the other side of the crossing lags the      *)
(* pointer and never runs ahead of it: walking the ring from the oldest    *)
(* copy of the read pointer one meets the newer copy, the read pointer and *)
(* the write pointer, in that order and within READY_LIMIT slots; and the  *)
(* write pointer's copies lie between the read pointer and the write       *)
(* pointer.  A torn sample would break it.                                 *)
CopiesLag ==
    /\ Occ(rgray_ws1, rgray_ws2) + Occ(rbin, rgray_ws1) + Occ(wbin, rbin)
          <= READY_LIMIT
    /\ Occ(wgray_s2, rbin) + Occ(wgray_s1, wgray_s2) + Occ(wbin, wgray_s1)
          = Occ(wbin, rbin)

(* "tx_ready deasserts at the occupancy threshold, which guarantees no     *)
(* overflow" (docs/pnm.md): unread words never exceed the threshold, hence *)
(* never the memory, whatever the phase of the two clocks.                 *)
NoOverflow == Occ(wbin, rbin) <= READY_LIMIT /\ Occ(wbin, rbin) <= Depth

(* A word that is stored and not yet popped is never overwritten.          *)
Unread == {Slot(p) : p \in {q \in Ptr : Occ(q, rbin) < Occ(wbin, rbin)}}
NoUnreadOverwritten == [][\A s \in Unread : mem'[s] = mem[s]]_vars

(* The words accepted and not yet presented, oldest first.                 *)
Carried(w) == IF w = NoWord THEN <<>> ELSE <<w>>
Fibre  == FlattenSeq([i \in 1..(Prop + 1) |-> Carried(pipe[Prop + 1 - i])])
Stored == [i \in 1..Occ(wbin, rbin) |-> mem[Slot((rbin + i - 1) % N)]]

Channel == INSTANCE LinkChannel WITH q <- Fibre \o Stored, out <- rx,
                                     Capacity <- READY_LIMIT + Prop + 1

(* The link is a bounded lossless FIFO: "burst byte-exact ... zero loss    *)
(* and no overflow" (docs/pnm.md) for every interleaving of the clocks.    *)
ImplementsChannel == Channel!Spec

(* A backlog is always worked off: while words are on their way one is     *)
(* presented, and the producer is not refused for ever.                    *)
BacklogWorkedOff == /\ (Fibre \o Stored # <<>>) ~> (rx # NoWord)
                    /\ []<>tx_ready
=============================================================================
