----------------------------- MODULE MgmtBridge -----------------------------
(***************************************************************************)
(* HDL/core/mgmt_bridge.v: the node board's glue between the embedded      *)
(* management node and the fabric.                                         *)
(*                                                                         *)
(*   fabric -> nob_in --parser--> tap buffer     -> management node        *)
(*                          \---> receive buffer -> management node        *)
(*   management node -> injection buffer -> nob_out -> fabric              *)
(*                                                                         *)
(* One clock, one action: a push, a pop and a parsed byte may all happen   *)
(* on one edge.  The two register buses are wires and have no state here.  *)
(*                                                                         *)
(* A byte of an injected frame is its place in the frame, a byte of an     *)
(* incoming frame its place modulo Base: losing, repeating or swapping     *)
(* bytes shows in either.  LEN and the parser's registers are two bytes    *)
(* wide, a buffer's count is one bit wider than its pointers; both wrap.   *)
(***************************************************************************)
EXTENDS Naturals, Sequences, SequencesExt

CONSTANTS INJ_BYTES, TAP_BYTES, RX_BYTES,   \* the three buffers
          Base,       \* values of a byte (256 in the code)
          FrameLen,   \* lengths of the frames the management node injects
          Lens        \* payload lengths the fabric sends here

ASSUME MgmtAssumption ==
    /\ {INJ_BYTES, TAP_BYTES, RX_BYTES} \subseteq {2, 4, 8, 16, 32, 64}
    /\ Base \in Nat \ 0..3 /\ Lens \subseteq 0..(Base * Base - 1)
    /\ FrameLen \in SUBSET (Nat \ {0}) /\ FrameLen # {}

VARIABLES inj,       \* injection buffer [mem, rd, wr, count]
          inj_first, \* shown as nob_out_sop
          inj_last,  \* shown as nob_out_eop
          tap, rx,   \* token tap and receive buffer [mem, rd, wr, count]
          nob_off, nob_len, nob_is_rx,     \* the parser
          node,      \* the management node's frame: <<bytes pushed, length>>
          host,      \* the incoming frame [weight, len, off]: off bytes taken
          injOwed, tapOwed, rxOwed,   \* history: bytes not yet passed on
          long,      \* history: the LEN of a long frame has arrived
          overrun    \* history: payload has arrived at a full receive buffer

injector == <<inj, inj_first, inj_last, node, injOwed>>
parser   == <<nob_off, nob_len, nob_is_rx>>
receiver == <<tap, rx, parser, host, tapOwed, rxOwed, long, overrun>>
mgmtVars == <<injector, receiver>>

Frame == [weight : BOOLEAN, len : Lens, off : {0}]

(* Offsets and lengths are of this width (2^16).  A frame is short when it *)
(* fits whatever the low byte of its LEN (below 65280 bytes of payload).   *)
Span == Base * Base
Short(len) == 6 + Base * (len \div Base) + (Base - 1) < Span

(* A byte of an injected frame.                                            *)
Mark(i, n) == [pos |-> i, sop |-> i = 1, eop |-> i = n]

Empty(n, byte) == [mem |-> [i \in 0..(n - 1) |-> byte], rd |-> 0, wr |-> 0, count |-> 0]

-----------------------------------------------------------------------------
(* A byte FIFO.  "The count is netted": a push and a pop of one edge leave *)
(* it alone.  Mutant: the push is counted and the pop is not.              *)
NetDrift(c, push, pop) == IF push THEN c + 1 ELSE IF pop THEN c - 1 ELSE c
Net(c, push, pop) ==
    c + (IF push THEN 1 ELSE 0) - (IF pop THEN 1 ELSE 0)

Edge(f, n, push, byte, pop) ==
    [mem   |-> IF push THEN [f.mem EXCEPT ![f.wr] = byte] ELSE f.mem,
     wr    |-> IF push THEN (f.wr + 1) % n ELSE f.wr,
     rd    |-> IF pop  THEN (f.rd + 1) % n ELSE f.rd,
     count |-> Net(f.count, push, pop) % (2 * n)]

Has(f) == f.count # 0

(* The bytes a FIFO holds, oldest first.                                   *)
Held(f, n) == [i \in 1..f.count |-> f.mem[(f.rd + i - 1) % n]]

Owed(q, push, byte, pop) ==
    (IF pop /\ q # <<>> THEN Tail(q) ELSE q) \o (IF push THEN <<byte>> ELSE <<>>)

-----------------------------------------------------------------------------
MgmtInit ==
    /\ inj = Empty(INJ_BYTES, Mark(1, 1)) /\ inj_first = TRUE /\ inj_last = FALSE
    /\ tap = Empty(TAP_BYTES, 0) /\ rx = Empty(RX_BYTES, 0)
    /\ nob_off = 0 /\ nob_len = 0 /\ nob_is_rx = FALSE
    /\ node \in {<<0, n>> : n \in FrameLen} /\ host \in Frame
    /\ injOwed = <<>> /\ tapOwed = <<>> /\ rxOwed = <<>>
    /\ long = FALSE /\ overrun = FALSE

(* The injection buffer: the management node offers its frame's next byte  *)
(* or not, the outgoing lane takes a byte or not.                          *)
Inject(offer, lane) ==
    LET push == offer /\ inj.count < INJ_BYTES
        pop  == lane /\ Has(inj)
        byte == Mark(node[1] + 1, node[2])
    IN  /\ inj' = Edge(inj, INJ_BYTES, push, byte, pop)
        /\ inj_first' = (inj_first /\ ~pop)
        /\ inj_last'  = IF push THEN byte.eop ELSE inj_last /\ ~pop
        /\ IF ~push THEN node' = node
           ELSE IF byte.eop THEN node' \in {<<0, n>> : n \in FrameLen}
           ELSE node' = <<node[1] + 1, node[2]>>
        /\ injOwed' = Owed(injOwed, push, byte, pop)

CTRL_COMPUTE == 0
CTRL_WEIGHT  == 2

(* The byte the fabric presents of frame f.                                *)
Wire(f) == CASE f.off = 1 -> IF f.weight THEN CTRL_WEIGHT ELSE CTRL_COMPUTE
             [] f.off = 2 -> f.len % Base
             [] f.off = 3 -> f.len \div Base
             [] OTHER     -> f.off % Base

(* A full tap holds the incoming stream, a full receive buffer does not.   *)
(* Mutant: neither does.                                                   *)
nob_in_ready_untapped == ~Has(inj)
nob_in_ready == tap.count < TAP_BYTES /\ ~Has(inj)

(* Mutant: the first byte of the CRC is taken for payload.                 *)
InPayloadAndCrc == nob_off >= 4 /\ nob_off - 4 <= nob_len
InPayload       == nob_off >= 4 /\ nob_off - 4 < nob_len

(* Mutant: the frame wraps after the first byte of the CRC.                *)
NextOffShort ==
    LET off == (nob_off + 1) % Span IN IF off >= (5 + nob_len) % Span THEN 0 ELSE off
NextOff ==
    LET off == (nob_off + 1) % Span IN IF off >= (6 + nob_len) % Span THEN 0 ELSE off

Parse ==
    /\ nob_off' = NextOff
    /\ nob_is_rx' = IF nob_off = 1 THEN Wire(host) = CTRL_WEIGHT ELSE nob_is_rx
    /\ nob_len' = CASE nob_off = 2 -> Base * (nob_len \div Base) + Wire(host)
                    [] nob_off = 3 -> (nob_len % Base) + Base * Wire(host)
                    [] OTHER       -> nob_len

(* The fabric goes on to the next byte, or to another frame.               *)
Arrive ==
    IF host.off + 1 < 6 + host.len THEN host' = [host EXCEPT !.off = @ + 1]
                                   ELSE host' \in Frame

IsPayload(f) == f.off \in 4..(3 + f.len)

(* The incoming stream and the two buffers behind it.  A frame's payload   *)
(* goes to the tap, or to the receive buffer when CTRL says weights, which *)
(* takes it whether it has room or not.  What is owed is kept until a      *)
(* frame was too long, and for the receive buffer until it overran.        *)
Receive(valid, tap_ready, rx_ready) ==
    LET take    == valid /\ nob_in_ready
        byte    == Wire(host)
        tapPush == take /\ InPayload /\ ~nob_is_rx
        rxPush  == take /\ InPayload /\ nob_is_rx
        tapPop  == tap_ready /\ Has(tap)
        rxPop   == rx_ready /\ Has(rx)
    IN  /\ IF take THEN Parse /\ Arrive ELSE UNCHANGED <<parser, host>>
        /\ tap' = Edge(tap, TAP_BYTES, tapPush, byte, tapPop)
        /\ rx'  = Edge(rx, RX_BYTES, rxPush, byte, rxPop)
        /\ long'    = (long \/ (take /\ host.off = 3 /\ ~Short(host.len)))
        /\ overrun' = (overrun \/ (rxPush /\ rx.count >= RX_BYTES /\ ~rxPop))
        /\ tapOwed' = IF long' THEN <<>>
                      ELSE Owed(tapOwed, take /\ IsPayload(host) /\ ~host.weight, byte, tapPop)
        /\ rxOwed'  = IF long' \/ overrun' THEN <<>>
                      ELSE Owed(rxOwed, take /\ IsPayload(host) /\ host.weight, byte, rxPop)

(* One edge.                                                               *)
MgmtClock(offer, lane, valid, tap_ready, rx_ready) ==
    /\ Inject(offer, lane)
    /\ Receive(valid, tap_ready, rx_ready)

MgmtNext == \E offer, lane, valid, tap_ready, rx_ready \in BOOLEAN :
                MgmtClock(offer, lane, valid, tap_ready, rx_ready)

MgmtSpec == MgmtInit /\ [][MgmtNext]_mgmtVars

-----------------------------------------------------------------------------
(* Properties                                                              *)

(* Pointers and counts stay within the buffers, the parser within a frame; *)
(* the receive buffer's count may pass its size, up to its own width.      *)
MgmtTypeOK ==
    /\ inj.rd \in 0..(INJ_BYTES - 1) /\ inj.count \in 0..INJ_BYTES
    /\ tap.rd \in 0..(TAP_BYTES - 1) /\ tap.count \in 0..TAP_BYTES
    /\ rx.rd \in 0..(RX_BYTES - 1) /\ rx.count \in 0..(2 * RX_BYTES - 1)
    /\ inj_first \in BOOLEAN /\ inj_last \in BOOLEAN /\ nob_is_rx \in BOOLEAN
    /\ nob_off \in 0..(Span - 1) /\ nob_len \in 0..(Span - 1)

(* The management node's bytes leave in the order it pushed them, none     *)
(* lost and none twice, however the outgoing lane stalls.                  *)
InjectedInOrder == Held(inj, INJ_BYTES) = injOwed

(* "Counting the arriving byte keeps the frame's interpretation and its    *)
(* wrap in step": the parser's offset is the sender's, and what it has     *)
(* latched of the header is this frame's, over any succession of short     *)
(* frames.  A longer one may end at once or make the next one end in its   *)
(* header (6 + nob_len wraps at 16 bits), and nothing resynchronises.      *)
InStep ==
    ~long => /\ nob_off = host.off
             /\ nob_off >= 2 => nob_is_rx = host.weight
             /\ nob_off >= 4 => nob_len = host.len

(* Over short frames exactly the payload of compute frames is tapped, also *)
(* when the receive buffer overruns, and exactly the payload of weight     *)
(* frames is received as long as the node never lets a byte of it find the *)
(* buffer full: in order, with no header or CRC byte.                      *)
PayloadDelivered ==
    /\ ~long => Held(tap, TAP_BYTES) = tapOwed
    /\ ~long /\ ~overrun => Held(rx, RX_BYTES) = rxOwed

(* "The next byte out is the frame's first", "the next byte out ends the   *)
(* frame": the byte shown to the fabric carries its own frame markers.     *)
FramesMarked ==
    Has(inj) => /\ inj_first = Head(Held(inj, INJ_BYTES)).sop
                /\ inj_last  = Head(Held(inj, INJ_BYTES)).eop
=============================================================================
