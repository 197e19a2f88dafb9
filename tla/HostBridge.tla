----------------------------- MODULE HostBridge -----------------------------
(***************************************************************************)
(* HDL/pnm_host_bridge.v: the router registers a host writes and the flit  *)
(* builder that turns them into a packet on the spine.  One step is one    *)
(* clock edge: at most one bus access, one builder step, and the spine     *)
(* taking (or not) the byte in the output register.                        *)
(*                                                                         *)
(* The registers are shared by every master behind pnm_arb, so accesses    *)
(* come in any order; the arbiter leaves at least one cycle between two.   *)
(* ROUTE_LAYER and ROUTE_MODULE are one register here, the destination.    *)
(***************************************************************************)
EXTENDS Integers, Sequences, SequencesExt

CONSTANTS Dest,        \* destinations a host may write
          Data,        \* payload bytes
          Buf,         \* bytes of route_payload (256)
          SpineReady   \* values spine_inject_ready takes: {TRUE} as every
                       \*   testbench ties it, BOOLEAN in front of hfr gates

ASSUME BridgeAssumption ==
    /\ Dest # {} /\ Data # {} /\ Buf \in Nat /\ Buf >= 2
    /\ SpineReady \subseteq BOOLEAN /\ TRUE \in SpineReady

VARIABLES route_dest, route_len, route_payload, route_wpos,
          fb_state,     \* "IDLE", "HDR", "PAYLOAD", "CRC"
          fb_dest, fb_len, fb_pos,
          fb_crc,       \* the bytes folded into the CRC so far
          out,          \* <<>> or the byte presented with fb_out_valid_r
          gap,          \* the bus was used on the last cycle
          staged,       \* history: payload bytes written since the last trigger
          want,         \* history: the packet the last trigger asked for
          sent          \* history: bytes of it the spine has taken

regs == <<route_dest, route_len, route_payload, route_wpos, staged>>
fb   == <<fb_state, fb_dest, fb_len, fb_pos, fb_crc>>
bridgeVars == <<regs, fb, out, gap, want, sent>>

busy == fb_state # "IDLE"

Flit(b, s, e) == [byte |-> b, sop |-> s, eop |-> e]

(* LAYER_ID, MODULE_ID, CTRL, LEN low and high; the CRC covers all but the *)
(* first and is kept as the bytes it was computed over.                    *)
Header(d, n) == << <<"layer", d>>, <<"module", d>>, <<"ctrl">>, <<"lo", n>>, <<"hi", n>> >>

Packet(d, payload) ==
    LET head == Header(d, Len(payload))
        body == Tail(head) \o payload
        all  == head \o payload \o << <<"crchi", body>>, <<"crclo", body>> >>
    IN  [i \in 1..Len(all) |-> Flit(all[i], i = 1, i = Len(all))]

-----------------------------------------------------------------------------
BridgeInit == /\ route_dest \in Dest /\ route_len = 0 /\ route_wpos = 0
        /\ route_payload \in [0..(Buf - 1) -> Data]
        /\ fb_state = "IDLE" /\ fb_dest = route_dest /\ fb_len = 0
        /\ fb_pos = 0 /\ fb_crc = <<>>
        /\ out = <<>> /\ gap = FALSE
        /\ staged = <<>> /\ want = <<>> /\ sent = <<>>

(* A read, a write of another register, or no access at all.               *)
OtherAccess == UNCHANGED regs

SetDest == /\ route_dest' \in Dest
           /\ UNCHANGED <<route_len, route_payload, route_wpos, staged>>

(* A host asks for no more than the buffer can be filled with.             *)
SetLen == /\ route_len' \in 0..(Buf - 1)
          /\ UNCHANGED <<route_dest, route_payload, route_wpos, staged>>

(* Mutant: a payload byte is accepted while a packet is being sent.        *)
AcceptsDataBusy == route_wpos # Buf - 1
AcceptsData == ~busy /\ route_wpos # Buf - 1

(* ROUTE_DATA: refused without notice while busy or when full.             *)
WriteData ==
    \/ /\ AcceptsData
       /\ \E d \in Data :
            /\ route_payload' = [route_payload EXCEPT ![route_wpos] = d]
            /\ staged' = IF busy THEN staged ELSE Append(staged, d)
       /\ route_wpos' = route_wpos + 1
       /\ UNCHANGED <<route_dest, route_len>>
    \/ ~AcceptsData /\ UNCHANGED regs

(* The write pointer a trigger leaves.                                     *)
Rewound == 0

(* ROUTE_CTRL with the trigger bit, while idle (while busy it does         *)
(* nothing, as any other access).                                          *)
Trigger ==
    /\ ~busy
    /\ fb_state' = "HDR" /\ fb_dest' = route_dest /\ fb_len' = route_len
    /\ fb_pos' = 0 /\ fb_crc' = <<>>
    /\ route_wpos' = Rewound
    /\ staged' = <<>>
    /\ UNCHANGED <<route_dest, route_len, route_payload>>
    /\ out' = <<>>
    /\ want' = Packet(route_dest, [i \in 1..route_len |->
                  IF i <= Len(staged) THEN staged[i] ELSE route_payload[i - 1]])

-----------------------------------------------------------------------------
(* The builder.  It moves on when the spine takes the byte presented, or   *)
(* when none is presented; a byte that is not taken is withdrawn, because  *)
(* fb_out_valid_r falls by default.                                        *)
(* Mutant: it also waits for a first byte to be taken.                     *)
MovesAfterByte(r) == r /\ out # <<>>
Moves(r) == r \/ out = <<>>

BuildIdle == fb_state = "IDLE" /\ out' = <<>> /\ UNCHANGED fb

BuildStalled(r) == busy /\ ~Moves(r) /\ out' = <<>> /\ UNCHANGED fb

BuildHeader(r) ==
    /\ fb_state = "HDR" /\ Moves(r)
    /\ LET b == Header(fb_dest, fb_len)[fb_pos + 1] IN
       /\ out' = <<Flit(b, fb_pos = 0, FALSE)>>
       /\ fb_crc' = IF fb_pos = 0 THEN <<>> ELSE Append(fb_crc, b)
    /\ IF fb_pos < 4
       THEN fb_pos' = fb_pos + 1 /\ UNCHANGED fb_state
       ELSE fb_pos' = 0 /\ fb_state' = IF fb_len = 0 THEN "CRC" ELSE "PAYLOAD"
    /\ UNCHANGED <<fb_dest, fb_len>>

LastPayload == fb_pos = fb_len - 1

BuildPayload(r) ==
    /\ fb_state = "PAYLOAD" /\ Moves(r)
    /\ LET b == route_payload[fb_pos % Buf] IN
       /\ out' = <<Flit(b, FALSE, FALSE)>>
       /\ fb_crc' = Append(fb_crc, b)
    /\ IF LastPayload
       THEN fb_pos' = 0 /\ fb_state' = "CRC"
       ELSE fb_pos' = fb_pos + 1 /\ UNCHANGED fb_state
    /\ UNCHANGED <<fb_dest, fb_len>>

BuildCrc(r) ==
    /\ fb_state = "CRC" /\ Moves(r)
    /\ IF fb_pos = 0
       THEN /\ out' = <<Flit(<<"crchi", fb_crc>>, FALSE, FALSE)>>
            /\ fb_pos' = 1 /\ UNCHANGED fb_state
       ELSE /\ out' = <<Flit(<<"crclo", fb_crc>>, FALSE, TRUE)>>
            /\ fb_state' = "IDLE" /\ UNCHANGED fb_pos
    /\ UNCHANGED <<fb_dest, fb_len, fb_crc>>

Build(r) == \/ BuildIdle
            \/ BuildStalled(r)
            \/ BuildHeader(r)
            \/ BuildPayload(r)
            \/ BuildCrc(r)

Access == OtherAccess \/ SetDest \/ SetLen \/ WriteData

(* What the spine has of the current packet.                               *)
Taken(r) == IF r THEN out ELSE <<>>

Clock(r) ==
    \/ /\ Access /\ Build(r)
       /\ gap' = TRUE /\ ~gap
       /\ sent' = sent \o Taken(r) /\ UNCHANGED want
    \/ /\ OtherAccess /\ Build(r)
       /\ gap' = FALSE
       /\ sent' = sent \o Taken(r) /\ UNCHANGED want
    \/ /\ Trigger
       /\ gap' = TRUE /\ ~gap
       /\ sent' = <<>>

BridgeNext == \E r \in SpineReady : Clock(r)

BridgeSpec == BridgeInit /\ [][BridgeNext]_bridgeVars

BridgeFairSpec == BridgeSpec /\ WF_bridgeVars(BridgeNext)

-----------------------------------------------------------------------------
(* Properties                                                              *)

(* Registers hold values of their widths, and the builder never points     *)
(* past the header, the payload or the CRC it is sending.                  *)
BridgeTypeOK ==
    /\ route_dest \in Dest /\ route_len \in 0..(Buf - 1)
    /\ route_payload \in [0..(Buf - 1) -> Data]
    /\ route_wpos \in 0..(Buf - 1) /\ Len(staged) <= Buf - 1
    /\ fb_dest \in Dest /\ fb_len \in 0..(Buf - 1)
    /\ <<fb_state, fb_pos>> \in ({"HDR"} \X (0..4)) \cup ({"PAYLOAD"} \X (0..(fb_len - 1)))
                               \cup ({"CRC"} \X {0, 1}) \cup ({"IDLE"} \X {0, 1})
    /\ Len(out) <= 1 /\ gap \in BOOLEAN

(* A triggered packet goes out exactly as the registers and the payload    *)
(* stood at the trigger, framed and with a CRC over what was sent, whatever *)
(* the masters write meanwhile; "bytes delivered equal bytes injected; no  *)
(* loss" (docs/pnm.md) starts here.                                        *)
PacketAsRequested == /\ IsPrefix(sent, want)
                     /\ ~busy => sent \o out = want

(* Every accepted trigger ends with the whole packet on the spine (its     *)
(* last byte just presented there) and the busy bit a host polls low.      *)
TriggerAnswered == busy ~> ~busy /\ sent \o out = want
=============================================================================
