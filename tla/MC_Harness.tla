---------------------------- MODULE MC_Harness -----------------------------
(***************************************************************************)
(* The doorbell on binary bytes, every packet of up to nine of them; the   *)
(* co-simulation on chassis of up to eight nodes, one- and two-byte        *)
(* payloads and two flits of a random scenario, which queue behind each    *)
(* other at a slow port, pass one another to the tail or meet at a merge;  *)
(* inference of two layers, one gated, with a window of two positions, two *)
(* tokens at most, and two sessions of different weights and flags.        *)
(***************************************************************************)
EXTENDS Harness

MCCrcStep == [c \in CrcVal, b \in ByteVal |-> (3 * c + b + 1) % (Base * Base)]

MCCrc16(bytes) == FoldLeft(LAMBDA c, b : (5 * c + b + 17) % 65536, 65535, bytes)

MCPayloads == {<<7>>, <<1, 250>>}
MCHotPayload == <<9, 8, 7>>
MCKernelMenu == <<"sum", "accum">>
MCKvEntry(i) == <<i, 9, 2>>

(* A chassis, and a command line.                                          *)
Chassis(l, x, y) == [layers |-> l, bx |-> x, by |-> y]
Command(names, d, groups, flits) == [names |-> names, d |-> d, groups |-> groups, flits |-> flits]

MCJobs == { Command(<<"sweep">>, Chassis(2, 2, 2), 2, 0),
            Command(<<"vcsweep">>, Chassis(1, 2, 2), 1, 0),
            Command(<<"vcsweep">>, Chassis(2, 2, 1), 1, 0),
            Command(<<"load">>, Chassis(1, 1, 2), 1, 2),
            Command(<<"hotspot">>, Chassis(1, 2, 1), 1, 2),
            Command(<<"stress">>, Chassis(2, 1, 1), 1, 2),
            Command(<<"replay">>, Chassis(1, 2, 1), 1, 2),
            Command(<<"gated">>, Chassis(2, 2, 1), 2, 0),
            Command(<<"model">>, Chassis(2, 2, 1), 2, 0),
            Command(<<"kv", "kvflow", "warp">>, Chassis(2, 1, 2), 2, 0) }

(* Layer 0 asks for an expert twice, layer 5 does not exist.               *)
MCDecisions == { (0 :> <<1, 0, 1>>) @@ (5 :> <<0>>), (0 :> <<3, -1>>) @@ (1 :> <<2>>) }

(* Two weight slices; a token for two experts of a layer, with the KV      *)
(* cache's offload between them, and for a dense node.                     *)
Record(kind, node, expert, bytes) ==
  [phase |-> kind, target |-> node, expert |-> expert, bytes |-> bytes]

MCPlans ==
  { [uploads |-> us, tokens |-> << [payload |-> <<4, 9>>,
       records |-> << Record("moe", <<0, 0, 0>>, 3, 8), Record("kv_offload", <<0, 0, 0>>, -1, 0),
                      Record("moe", <<0, 1, 0>>, 4, 8), Record("dense", <<1, 0, 0>>, -1, 8) >>] >>] :
    us \in { <<>>, << [target |-> <<1, 1, 0>>, payload |-> <<5>>],
                      [target |-> <<0, 0, 0>>, payload |-> <<6, 7>>] >> } }
MCExpertWeights(l, e) == <<l + 1, e + 2>>

MCSessions == { Cfg("m1", FALSE, FALSE, FALSE, 1), Cfg("m1", TRUE, TRUE, FALSE, 2),
                Cfg("m2", TRUE, FALSE, TRUE, 1), Cfg("m2", FALSE, TRUE, FALSE, 2) }
=============================================================================
