------------------------------ MODULE Firmware ------------------------------
(***************************************************************************)
(* The orchestrator firmware (firmware.go): the boot sequence, the plan of *)
(* one token's way through the layers (PlanInference), chunked prefill,    *)
(* speculative decoding with its rollback, the MoE gate, and the plan's    *)
(* wire format (plan.go).                                                  *)
(*                                                                         *)
(* The firmware is called by one host thread, so a call is an operator     *)
(* from state to state: st = [fw, kv], the firmware's own record and the   *)
(* KV cache it offloads (KvCache); the driver record drv is fixed.  Token  *)
(* bytes are the two bytes of the token's id, which the configurations     *)
(* BF16 and FP16 both give, so a token stands for its bytes.               *)
(***************************************************************************)
EXTENDS Placement, KvCache

CONSTANTS Score(_, _, _),  \* scoreExpertPopulation: token, model layer, expert
          Draft(_, _),     \* predictDraftToken: previous token, step
          TileSizeKV,      \* FlashAttnConfig.TileSizeKV
          WireMax          \* largest value of a 16-bit wire field

ASSUME FirmwareAssumption == TileSizeKV \in Nat \ {0} /\ WireMax \in Nat

HeaderBytes == 7   \* LAYER MODULE CTRL LEN LEN and the CRC of a flit
TokenBytes  == 2
FlitBytes   == HeaderBytes + TokenBytes

-----------------------------------------------------------------------------
(* Boot: five phases, each called once, in order.                          *)
NewFirmware(m, settings) ==
  [ state     |-> "reset",
    nodes     |-> 0,                  \* NodeCount, the length of Inventory
    routing   |-> 0,                  \* RoutingCount
    weights   |-> 0,                  \* WeightCount
    gating    |-> 0,                  \* MoEStateCount
    dispatched |-> 0,                 \* DispatchCount
    seq       |-> [ml \in ModelLayers(m) |-> 0],
    flash     |-> settings.flash,     \* FlashAttn.Enabled
    chunk     |-> settings.chunk,     \* ChunkedPrefill.ChunkSize
    draft     |-> settings.draft ]    \* Speculative.DraftTokens

(* bootMoELoad: one command per router projection held by a fabric node.   *)
GatingCommands(drv) ==
  { <<at[1], at[2].ml>> : at \in
      { p \in UNION { {n} \X drv.assign[n] : n \in DOMAIN drv.assign \ {Orchestrator} } :
          p[2].role = "orchestrator_weights" } }

HaveRouter(drv) ==
  \E n \in DOMAIN drv.assign : \E t \in drv.assign[n] : t.role = "orchestrator_weights"

BootPhase(drv, f) ==
  CASE f.state = "reset" ->
         [f EXCEPT !.state = "post", !.nodes = Cardinality(ChassisNodes(drv.m))]
    [] f.state = "post" ->
         [f EXCEPT !.state = "routing", !.routing = Cardinality(DOMAIN drv.bitmaps)]
    [] f.state = "routing" ->
         [f EXCEPT !.state = "weights", !.weights = Cardinality(BuildWeightCommands(drv))]
    [] f.state = "weights" ->
         [f EXCEPT !.state = "moe", !.gating = IF HaveRouter(drv)
                                                 THEN Cardinality(GatingCommands(drv)) ELSE @]
    [] f.state = "moe" -> [f EXCEPT !.state = "ready"]

-----------------------------------------------------------------------------
(* The MoE gate: the layer's experts by score, ties to the lower index.    *)
Population(drv, ml) ==
  SelectSeq([i \in 1 .. drv.m.experts |-> i - 1], LAMBDA e : <<ml, e>> \in DOMAIN drv.moe)

Ranked(token, ml, experts) ==
  SortSeq(experts, LAMBDA d, e : \/ Score(token, ml, d) > Score(token, ml, e)
                                 \/ Score(token, ml, d) = Score(token, ml, e) /\ d < e)

SelectTopExperts(token, ml, experts, topk) ==
  SubSeq(Ranked(token, ml, experts), 1, Min({topk, Len(experts)}))

(* GateToken: the same decision, with the node that holds each winner.     *)
Located(drv, ml, top) == [i \in 1 .. Len(top) |-> <<top[i], drv.moe[<<ml, top[i]>>]>>]

GateToken(drv, token, ml) ==
  Located(drv, ml, SelectTopExperts(token, ml, Population(drv, ml), drv.m.topk))

-----------------------------------------------------------------------------
(* PlanInference.  The window of a model layer that slides ends at its     *)
(* position; <<-1, -1>> is full attention.                                 *)
LayerIsSliding(drv, s, ml) ==
  LET m == drv.m IN
  IF ml < Len(m.types) THEN m.types[ml + 1] = "sliding_attention"
                       ELSE s.window[PhysLayerOf(m, ml)] > 0

WindowLength(drv, s, ml) ==
  IF ml < Len(drv.m.types) /\ drv.m.window > 0 THEN drv.m.window
                                               ELSE s.window[PhysLayerOf(drv.m, ml)]

Window(drv, s, ml, pos) ==
  LET w == WindowLength(drv, s, ml)
  IN  IF LayerIsSliding(drv, s, ml) /\ w > 0
        THEN <<Max({pos - w + 1, 0}), pos>>
        ELSE <<-1, -1>>

NumKVTiles(pos) == Max({(pos + TileSizeKV) \div TileSizeKV, 1})

GroupSize(m) ==
  IF m.kvheads > 0 /\ m.heads > 0 THEN m.heads \div m.kvheads ELSE 0

AttnNode(m, ml) == NodeAt(m, PhysLayerOf(m, ml), ml % NodesPerLayer(m))

Record(ml, phase, target, exp, flit, kvAction, cu, role) ==
  [ layer |-> ml, phase |-> phase, target |-> target, exp |-> exp, flit |-> flit,
    kv |-> kvAction, cu |-> cu, role |-> role, tile |-> 0, tiles |-> 0,
    window |-> <<0, 0>>, group |-> 0, repeat |-> FALSE ]

(* One record per K/V tile in flash mode, one record in dense mode, then   *)
(* the load of the cached entries.                                         *)
Tiled(f, pos, store) ==
  IF ~f.flash THEN <<store>>
  ELSE [t \in 1 .. NumKVTiles(pos) |-> [store EXCEPT !.tile = t - 1, !.tiles = NumKVTiles(pos)]]

Attention(drv, f, s, ml) ==
  LET m == drv.m
      at(kvAction, flit, role) ==
        [Record(ml, IF f.flash THEN "flash_attn" ELSE "dense", AttnNode(m, ml), -1, flit,
                kvAction, "bf16_mac_array", role)
           EXCEPT !.window = Window(drv, s, ml, f.seq[ml]), !.group = GroupSize(m),
                  !.repeat = GroupSize(m) > 1]
  IN  Append(Tiled(f, f.seq[ml], at("store", FlitBytes, "attn_q")),
             at("load", 0, "attn_kv_load"))

KvCheck(drv, s, ml) ==
  IF NeedsOffload(s.banks[PhysLayerOf(drv.m, ml)])
    THEN <<Record(ml, "kv_offload", AttnNode(drv.m, ml), -1, 0, "evict", "none", "")>>
    ELSE <<>>

MoeRecord(ml, winner) ==
  Record(ml, "moe", winner[2], winner[1], FlitBytes, "", "bf16_fma", "expert_gate_up")

MoeDispatch(ml, gated) == [i \in 1 .. Len(gated) |-> MoeRecord(ml, gated[i])]

PlanLayer(drv, st, token, ml) ==
  [ fw   |-> [st.fw EXCEPT !.seq[ml] = @ + 1],
    kv   |-> IF KvCheck(drv, st.kv, ml) # <<>> THEN OffloadCycle(st.kv) ELSE st.kv,
    recs |-> st.recs \o Attention(drv, st.fw, st.kv, ml) \o KvCheck(drv, st.kv, ml)
                     \o MoeDispatch(ml, GateToken(drv, token, ml)) ]

(* The whole plan of one token: the new state, and its records in recs.    *)
Dispatched(done) == [done EXCEPT !.fw.dispatched = @ + Len(done.recs)]

PlanInference(drv, st, token) ==
  LET done[n \in 0 .. drv.m.layers] ==
        IF n = 0 THEN [fw |-> st.fw, kv |-> st.kv, recs |-> <<>>]
                 ELSE PlanLayer(drv, done[n - 1], token, n - 1)
  IN  Dispatched(done[drv.m.layers])

(* The tokens one after another; plans holds the records of each.          *)
AddPlan(plans, p) == [fw |-> p.fw, kv |-> p.kv, plans |-> Append(plans, p.recs)]

PlanOneMore(drv, t, token) == AddPlan(t.plans, PlanInference(drv, t, token))

PlanAll(drv, st, tokens) ==
  LET after[n \in 0 .. Len(tokens)] ==
        IF n = 0 THEN [fw |-> st.fw, kv |-> st.kv, plans |-> <<>>]
                 ELSE PlanOneMore(drv, after[n - 1], tokens[n])
  IN  after[Len(tokens)]

(* PlanInferenceChunked: the prompt's tokens, their records by chunk.      *)
ByChunk(done, size) ==
  LET n == Len(done.plans)
  IN  [done EXCEPT !.plans =
         [c \in 1 .. (n + size - 1) \div size |->
            FlattenSeq(SubSeq(@, (c - 1) * size + 1, Min({c * size, n})))]]

PlanInferenceChunked(drv, st, prompt) ==
  ByChunk(PlanAll(drv, st, prompt), IF st.fw.chunk <= 0 THEN Len(prompt) ELSE st.fw.chunk)

-----------------------------------------------------------------------------
(* PlanInferenceSpeculative: draft tokens are planned and the positions    *)
(* put back, the drafted tokens are planned again by the main model, and   *)
(* as many positions as tokens were accepted are committed.                *)
Drafted(prev, n) ==
  LET chain[i \in 0 .. n] == IF i = 0 THEN prev ELSE Draft(chain[i - 1], i - 1)
  IN  [i \in 1 .. n |-> chain[i]]

(* Tokens accepted: the drafted ones up to the first that the main model   *)
(* would not have produced, and its own prediction there.  The main model  *)
(* is the draft model itself in this code.                                 *)
Accepted(prev, drafted) ==
  LET before(i) == IF i = 1 THEN prev ELSE drafted[i - 1]
      main(i)   == Draft(before(i), i - 1)
      wrong     == { i \in 1 .. Len(drafted) : drafted[i] # main(i) }
  IN  IF wrong = {} THEN drafted
      ELSE Append(SubSeq(drafted, 1, Min(wrong) - 1), main(Min(wrong)))

DraftCount(f) == IF f.draft <= 0 THEN 1 ELSE f.draft

Advanced(seq, n) == [ml \in DOMAIN seq |-> seq[ml] + n]

DraftPhase(drv, st, prev, drafted) ==
  PlanAll(drv, st, <<prev>> \o SubSeq(drafted, 1, Len(drafted) - 1))

VerifyPhase(drv, draft, seq, drafted) == PlanAll(drv, [draft EXCEPT !.fw.seq = seq], drafted)

Commit(seq, draft, verify, drafted, accepted) ==
  [ fw |-> [verify.fw EXCEPT !.seq = Advanced(seq, Len(accepted))], kv |-> verify.kv,
    tokens |-> accepted,
    plans  |-> [i \in 1 .. Len(accepted) |-> IF accepted[i] = drafted[i] THEN draft.plans[i]
                                                                        ELSE verify.plans[i]] ]

(* A mutant: the draft phase's positions are not put back.                 *)
SpeculateKeepingDraft(drv, seq, draft, drafted, accepted) ==
  Commit(draft.fw.seq, draft, VerifyPhase(drv, draft, draft.fw.seq, drafted), drafted, accepted)

Speculate(drv, seq, draft, drafted, accepted) ==
  Commit(seq, draft, VerifyPhase(drv, draft, seq, drafted), drafted, accepted)

PlanInferenceSpeculative(drv, st, prev) ==
  LET drafted == Drafted(prev, DraftCount(st.fw))
  IN  Speculate(drv, st.fw.seq, DraftPhase(drv, st, prev, drafted), drafted,
                Accepted(prev, drafted))

-----------------------------------------------------------------------------
(* VerifyDispatch: every model layer's attention node is covered.          *)
VerifyDispatch(drv, recs) ==
  \A ml \in ModelLayers(drv.m) :
    \E i \in 1 .. Len(recs) : /\ recs[i].layer = ml /\ recs[i].phase # "kv_offload"
                              /\ recs[i].target = AttnNode(drv.m, ml)

(* The wire format: fixed-width fields, the signed ones in two's           *)
(* complement; the role is not carried.  A record whose layer or flit      *)
(* length does not fit makes EncodePlan fail.                              *)
Unsigned(n) == n % (WireMax + 1)
Signed(n)   == LET u == n % (WireMax + 1)
               IN  IF u > WireMax \div 2 THEN u - (WireMax + 1) ELSE u

CanEncode(recs) ==
  \A i \in 1 .. Len(recs) : recs[i].layer \in 0 .. WireMax /\ recs[i].flit \in 0 .. WireMax

DecodeEncoded(r) ==
  [ layer |-> r.layer, phase |-> r.phase, cu |-> r.cu, kv |-> r.kv, flit |-> r.flit,
    target |-> r.target, exp |-> Signed(r.exp), tile |-> Unsigned(r.tile),
    tiles |-> Unsigned(r.tiles), window |-> <<Signed(r.window[1]), Signed(r.window[2])>>,
    group |-> Unsigned(r.group), repeat |-> r.repeat ]

OnTheWire(recs) == [i \in 1 .. Len(recs) |-> DecodeEncoded(recs[i])]
=============================================================================
