------------------------------ MODULE HostPath ------------------------------
(***************************************************************************)
(* The read side of the host path composed by HDL/pnm_host_top.v: two      *)
(* masters (the native host bus and the SPI adapter pi_bridge) behind      *)
(* pnm_arb, and pnm_host_bridge's result FIFO, which a read of             *)
(* ROUTE_RESULT pops one cycle after it has been sampled.                  *)
(*                                                                         *)
(* One step is one edge of the common clock.  The SPI master may abandon a *)
(* frame (cs_n rises) at any point; the native master keeps its request up *)
(* until it is answered.                                                   *)
(***************************************************************************)
EXTENDS Naturals, Sequences

CONSTANTS FifoBytes,   \* RES_FIFO_BYTES
          HdrCycles,   \* fewest cycles between two requests of the SPI master
                       \*   (eight bits of header at two clocks a bit)
          Results      \* bound: bytes the fabric returns

ASSUME PathAssumption == /\ FifoBytes \in Nat \ {0} /\ Results \in Nat
                         /\ HdrCycles \in Nat /\ HdrCycles >= 2

Master == {"cpu", "brg"}       \* pnm_arb's names: native bus, pi_bridge
Other(m) == IF m = "cpu" THEN "brg" ELSE "cpu"
Op == {"result", "other"}      \* a read of ROUTE_RESULT, any other access

VARIABLES st,          \* st[m]: "IDLE", "HDR" (SPI only), "WAIT" (valid is up)
          op,          \* op[m]: what m asks for
          hdr,         \* cycles the SPI master has spent in its header
          grant, arbBusy, owner,   \* pnm_arb's registers
          slv_valid, slv_op,
          ready,       \* ready[m]: m's ready pulse
          rdata,       \* rdata[m]: the byte sampled for m last
          res_fifo, res_rd, res_wr, res_count, res_pop,
          arrived,     \* history: bytes the fabric has returned
          kept,        \* history: those the FIFO took, in order
          given,       \* history: bytes sampled by a read of a non-empty FIFO
          fresh,       \* history: the access in flight is m's current one
          passed       \* history: grants to the other since m is waiting

masters == <<st, op, hdr>>
arb     == <<grant, arbBusy, owner, slv_valid, slv_op, ready, rdata>>
fifo    == <<res_fifo, res_rd, res_wr, res_count, res_pop>>
history == <<arrived, kept, given, fresh, passed>>
vars    == <<masters, arb, fifo, history>>

Init == /\ st = [m \in Master |-> "IDLE"] /\ op = [m \in Master |-> "other"]
        /\ hdr = 0
        /\ grant = "cpu" /\ arbBusy = FALSE /\ owner = "cpu"
        /\ slv_valid = FALSE /\ slv_op = "other"
        /\ ready = [m \in Master |-> FALSE] /\ rdata = [m \in Master |-> 0]
        /\ res_fifo = [i \in 0..(FifoBytes - 1) |-> 0]
        /\ res_rd = 0 /\ res_wr = 0 /\ res_count = 0 /\ res_pop = FALSE
        /\ arrived = 0 /\ kept = <<>> /\ given = <<>>
        /\ fresh = [m \in Master |-> FALSE] /\ passed = [m \in Master |-> 0]

-----------------------------------------------------------------------------
(* The native master: raises a request, holds it to its ready, and may     *)
(* raise the next one at once.                                             *)
Native(s, o) ==
    \/ st["cpu"] = "IDLE" /\ s = "IDLE" /\ o = op["cpu"]
    \/ st["cpu"] = "IDLE" /\ s = "WAIT" /\ o \in Op
    \/ st["cpu"] = "WAIT" /\ ~ready["cpu"] /\ s = "WAIT" /\ o = op["cpu"]
    \/ st["cpu"] = "WAIT" /\ ready["cpu"]
          /\ \/ s = "IDLE" /\ o = op["cpu"]
             \/ s = "WAIT" /\ o \in Op

(* pi_bridge: header bits, then the request (F_RDWAIT or F_WRWAIT) until   *)
(* its ready; from either it falls back to F_IDLE when cs_n rises.         *)
Spi(s, o) ==
    \/ /\ st["brg"] = "IDLE" /\ s \in {"IDLE", "HDR"} /\ o = op["brg"]
       /\ hdr' = 0
    \/ /\ st["brg"] = "HDR" /\ s \in {"IDLE", "HDR"} /\ o = op["brg"]
       /\ hdr' = IF s = "HDR" /\ hdr < HdrCycles THEN hdr + 1 ELSE hdr
    \/ /\ st["brg"] = "HDR" /\ hdr = HdrCycles /\ s = "WAIT" /\ o \in Op
       /\ hdr' = 0
    \/ /\ st["brg"] = "WAIT" /\ ~ready["brg"] /\ s \in {"WAIT", "IDLE"}
       /\ o = op["brg"] /\ hdr' = 0
    \/ /\ st["brg"] = "WAIT" /\ ready["brg"] /\ s = "IDLE"
       /\ o = op["brg"] /\ hdr' = 0

Masters == \E s1, s2 \in {"IDLE", "HDR", "WAIT"}, o1, o2 \in Op :
              /\ Native(s1, o1) /\ Spi(s2, o2)
              /\ st' = [st EXCEPT !["cpu"] = s1, !["brg"] = s2]
              /\ op' = [op EXCEPT !["cpu"] = o1, !["brg"] = o2]

-----------------------------------------------------------------------------
(* pnm_arb: a request whose ready pulse is up has been served.             *)
(* Mutants: the pulse is not looked at; only the holder of the turn may    *)
(* ask.                                                                    *)
WantsAgain(m) == st[m] = "WAIT"
WantsInTurn(m) == st[m] = "WAIT" /\ ~ready[m] /\ m = grant
Wants(m) == st[m] = "WAIT" /\ ~ready[m]

(* Who is granted when the bus is free: the holder of the turn if it       *)
(* wants, else the other.  Mutant: the native bus has priority whenever    *)
(* its valid is up.                                                        *)
WinnerNative == IF st["cpu"] = "WAIT" THEN "cpu" ELSE "brg"
Winner == IF Wants(grant) THEN grant ELSE Other(grant)

(* Who has the turn after an access.                                       *)
Turn == Other(grant)

ArbGrant ==
    /\ ~arbBusy /\ \E m \in Master : Wants(m)
    /\ grant' = Winner /\ arbBusy' = TRUE /\ owner' = Winner
    /\ slv_valid' = TRUE /\ slv_op' = op[Winner]
    /\ ready' = [m \in Master |-> FALSE]
    /\ UNCHANGED rdata

ArbIdle ==
    /\ ~arbBusy /\ \A m \in Master : ~Wants(m)
    /\ slv_valid' = FALSE /\ ready' = [m \in Master |-> FALSE]
    /\ UNCHANGED <<grant, arbBusy, owner, slv_op, rdata>>

(* The bridge acknowledges every access at once; its read data is          *)
(* combinational (any value but the FIFO's head is 0 here).                *)
ArbAnswer ==
    /\ arbBusy
    /\ rdata' = [rdata EXCEPT ![owner] =
                    IF slv_op = "result" THEN res_fifo[res_rd] ELSE 0]
    /\ ready' = [m \in Master |-> m = owner]
    /\ arbBusy' = FALSE /\ grant' = Turn /\ slv_valid' = FALSE
    /\ UNCHANGED <<owner, slv_op>>

Arb == ArbGrant \/ ArbIdle \/ ArbAnswer

-----------------------------------------------------------------------------
(* pnm_host_bridge's result FIFO: push and pop of one cycle are netted.    *)
Pops == res_pop /\ res_count # 0

(* Mutant: a pop cancels the count of a push of the same cycle.            *)
NettedDrift(push) == IF Pops THEN res_count - 1
                     ELSE IF push THEN res_count + 1 ELSE res_count
Netted(push) == res_count + (IF push THEN 1 ELSE 0) - (IF Pops THEN 1 ELSE 0)

(* Mutant: the write pointer runs past the memory.                         *)
NextSlotLong(i) == IF i = FifoBytes THEN 0 ELSE i + 1
NextSlot(i) == IF i = FifoBytes - 1 THEN 0 ELSE i + 1

Fifo(valid) ==
    LET push == valid /\ res_count < FifoBytes IN
    /\ res_rd' = IF Pops THEN NextSlot(res_rd) ELSE res_rd
    /\ res_fifo' = IF push THEN [res_fifo EXCEPT ![res_wr] = arrived + 1] ELSE res_fifo
    /\ res_wr' = IF push THEN NextSlot(res_wr) ELSE res_wr
    /\ res_count' = Netted(push)
    /\ res_pop' = (slv_valid /\ slv_op = "result" /\ res_count # 0)
    /\ arrived' = IF valid THEN arrived + 1 ELSE arrived
    /\ kept' = IF push THEN Append(kept, arrived + 1) ELSE kept

Sampled == arbBusy /\ slv_op = "result" /\ res_count # 0

Granted == ~arbBusy /\ arbBusy'

Waiting(m) == /\ st[m] = "WAIT" /\ ~ready[m]
              /\ ~(arbBusy /\ owner = m /\ fresh[m])

Observe ==
    /\ given' = IF Sampled THEN Append(given, res_fifo[res_rd]) ELSE given
    /\ fresh' = [m \in Master |->
                   /\ st'[m] = "WAIT"
                   /\ IF Granted /\ owner' = m THEN ~ready[m] ELSE fresh[m]]
    /\ passed' = [m \in Master |->
                   IF ~Waiting(m) \/ (Granted /\ owner' = m) THEN 0
                   ELSE IF Granted THEN passed[m] + 1 ELSE passed[m]]

Next == /\ Masters /\ Arb /\ Observe
        /\ \E valid \in BOOLEAN : (valid => arrived < Results) /\ Fifo(valid)

Spec == Init /\ [][Next]_vars

FairSpec == Spec /\ WF_vars(Next)

-----------------------------------------------------------------------------
(* Properties                                                              *)

(* Registers hold values of their widths; the native master has no header. *)
TypeOK ==
    /\ st \in [Master -> {"IDLE", "HDR", "WAIT"}] /\ st["cpu"] # "HDR"
    /\ op \in [Master -> Op] /\ hdr \in 0..HdrCycles
    /\ grant \in Master /\ arbBusy \in BOOLEAN /\ owner \in Master
    /\ slv_valid \in BOOLEAN /\ slv_op \in Op
    /\ ready \in [Master -> BOOLEAN] /\ rdata \in [Master -> 0..Results]
    /\ res_fifo \in [0..(FifoBytes - 1) -> 0..Results]
    /\ res_rd \in 0..(FifoBytes - 1) /\ res_wr \in 0..(FifoBytes - 1)
    /\ res_count \in 0..FifoBytes /\ res_pop \in BOOLEAN

(* Unread bytes, oldest first; the head is gone once its pop is pending.   *)
Unread == [i \in 1..res_count |-> res_fifo[(res_rd + i - 1) % FifoBytes]]

(* Every byte the FIFO has taken is read exactly once and in order: the    *)
(* pop is a cycle late, and still no read of either master samples a byte  *)
(* twice or skips one ("the count is netted ... or the read pointer runs   *)
(* past the data").                                                        *)
ResultsReadOnce ==
    given \o (IF res_pop THEN Tail(Unread) ELSE Unread) = kept

(* A master that is answered gets the answer of its own current access,    *)
(* never that of a frame it has abandoned (pi_bridge F_RDWAIT, F_WRWAIT).  *)
AnswerIsOwn == \A m \in Master : ready[m] /\ st[m] = "WAIT" => fresh[m]

(* pnm_arb is round robin: while a master waits the other is granted at    *)
(* most once.                                                              *)
PassedOnce == \A m \in Master : passed[m] <= 1

(* A native access is always answered, whatever the SPI master does.       *)
NativeAnswered == st["cpu"] = "WAIT" ~> ready["cpu"]
=============================================================================
