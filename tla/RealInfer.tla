------------------------------ MODULE RealInfer ------------------------------
(***************************************************************************)
(* Generation over the real weights (real_infer.go) with the router of     *)
(* some layers in a gating ASIC (gating_harness.go): prefill fills every   *)
(* layer's KV cache, decode runs one position at a time over it.  Sessions *)
(* follow each other in the same run directory; a composition session      *)
(* takes one routing decision to a node's expert (node_harness.go).        *)
(*                                                                         *)
(* A vector is the layer and position it is computed for.  A cache entry   *)
(* is the position it was computed from and the one its rotary embedding   *)
(* was given.  Prefill and decode are compared by what each attends to.    *)
(***************************************************************************)
EXTENDS AsicServer

CONSTANTS NumLayers, SlidingWindow,
          FullLayers,      \* layers of type full_attention
          Sessions,        \* what a session may be asked for: records of Cfg's form
          MaxTokens, MaxSessions,
          Vocab,           \* token ids; <|channel> opens reasoning, <channel|> ends it
          StopTokens, ChannelOpen, ChannelClose

ASSUME InferAssumption ==
  /\ NumLayers \in Nat \ {0} /\ SlidingWindow \in Nat
  /\ MaxTokens \in Nat \ {0} /\ MaxSessions \in Nat
  /\ Sessions # {} /\ \A s \in Sessions : s.len \in Nat /\ s.think \in BOOLEAN
  /\ GateUnits \subseteq Nat /\ GateUnits \cap NodeUnits = {}

VARIABLES session,   \* sessions started
          cfg,       \* this session's model and flags
          at,        \* what it is doing, and the layer and position it is at
          kv,        \* per layer: the cache
          prefPos,
          views,     \* history: what each layer attended to at each position
          out,       \* tokens generated, and the two streams they are split into
          result     \* "none", "answer" or "error"

inferVars == <<session, cfg, at, kv, prefPos, views, out, result>>

LayerIds == 0 .. NumLayers - 1
Stage(doing, l, t) == [doing |-> doing, layer |-> l, pos |-> t]
NoOutput == [tokens |-> <<>>, reasoning |-> <<>>, answer |-> <<>>, thinking |-> FALSE]

(* The weights' directory, -keep, -prefill-last, -think and the prompt's   *)
(* length.                                                                 *)
Cfg(model, keep, last, think, len) ==
  [model |-> model, keep |-> keep, prefillLast |-> last, think |-> think, len |-> len]

InferInit ==
  /\ AsicInit /\ session = 0 /\ at = Stage("idle", 0, 0) /\ result = "none"
  /\ cfg = CHOOSE s \in Sessions : TRUE
  /\ kv = [l \in LayerIds |-> <<>>] /\ prefPos = 0 /\ views = <<>> /\ out = NoOutput

-----------------------------------------------------------------------------
(* realGatedCore: the gating servers boot one after another.               *)
Unbooted == { u \in GateUnits : procs[u] = NoProc }

Begin ==
  /\ at.doing = "idle" /\ session < MaxSessions /\ session' = session + 1
  /\ cfg' \in Sessions
  /\ at' = Stage("boot", 0, 0) /\ kv' = [l \in LayerIds |-> <<>>] /\ prefPos' = 0
  /\ views' = [x \in {} |-> 0] /\ result' = "none"
  /\ out' = [NoOutput EXCEPT !.thinking = cfg'.think]
  /\ UNCHANGED asicVars

BootNext ==
  /\ at.doing = "boot" /\ Unbooted # {}
  /\ LET u == CHOOSE v \in Unbooted : \A w \in Unbooted : v <= w
     IN  BootLayer(u, cfg.model) /\ at' = Stage("await", u, 0)
  /\ UNCHANGED <<session, cfg, kv, prefPos, views, out, result, call>>

Booted ==
  /\ at.doing = "await" /\ StatusSeen(at.layer) /\ at' = Stage("boot", 0, 0)
  /\ UNCHANGED <<session, cfg, kv, prefPos, views, out, result, asicVars>>

BootFailed ==
  /\ at.doing = "await" /\ StatusFails(at.layer, procs[at.layer][1])
  /\ procs' = Forgotten(at.layer) /\ result' = "error" /\ at' = Stage("close", 0, 0)
  /\ UNCHANGED <<session, cfg, kv, prefPos, views, out, files, servers, count, call>>

Ready ==
  /\ at.doing = "boot" /\ Unbooted = {} /\ at' = Stage("attend", 0, 0)
  /\ UNCHANGED <<session, cfg, kv, prefPos, views, out, result, asicVars>>

-----------------------------------------------------------------------------
(* The positions a layer attends to from position p: all up to p, or the   *)
(* last SlidingWindow of them.                                             *)
Lowest(l, p) ==
  IF l \notin FullLayers /\ SlidingWindow > 0 /\ p - SlidingWindow + 1 > 0
    THEN p - SlidingWindow + 1 ELSE 0

(* A mutant: the decode window is one position longer.                     *)
DecodeLowestWide(l, n) ==
  IF l \notin FullLayers /\ SlidingWindow > 0 /\ n > SlidingWindow THEN n - SlidingWindow ELSE 0

DecodeLowest(l, n) ==
  IF l \notin FullLayers /\ SlidingWindow > 0 /\ n >= SlidingWindow
    THEN n - SlidingWindow + 1 ELSE 0

KvAt(pos, rot) == [pos |-> pos, rot |-> rot]
View(rot, entries, lo, hi) == [rot |-> rot, keys |-> SubSeq(entries, lo + 1, hi + 1)]

(* prefill, a layer at a time: attention for every position, then the      *)
(* feed-forward part of each, with the ASIC's logits where the layer is    *)
(* gated; then the layer's cache.                                          *)
PrefillAttend ==
  LET l == at.layer
      entries == [i \in 1 .. cfg.len |-> KvAt(i - 1, i - 1)]
      now == {l} \X (0 .. cfg.len - 1)
  IN  /\ at.doing = "attend" /\ at' = Stage("feed", l, 0)
      /\ views' = [x \in DOMAIN views \cup now |->
                     IF x \in now THEN View(x[2], entries, Lowest(l, x[2]), x[2]) ELSE views[x]]
      /\ UNCHANGED <<session, cfg, kv, prefPos, out, result, asicVars>>

Gated(l, t) == l \in GateUnits /\ (~cfg.prefillLast \/ t = cfg.len - 1)
Vector(l, t) == <<l, t>>

PrefillStore(l) ==
  /\ kv' = [kv EXCEPT ![l] = [i \in 1 .. cfg.len |-> KvAt(i - 1, i - 1)]]
  /\ IF l = NumLayers - 1 THEN at' = Stage("sample", 0, 0) /\ prefPos' = cfg.len
     ELSE at' = Stage("attend", l + 1, 0) /\ UNCHANGED prefPos

FedPosition ==
  IF at.pos < cfg.len - 1 THEN at' = Stage("feed", at.layer, at.pos + 1) /\ UNCHANGED <<kv, prefPos>>
  ELSE PrefillStore(at.layer)

PrefillFeed ==
  /\ at.doing = "feed" /\ ~Gated(at.layer, at.pos) /\ FedPosition
  /\ UNCHANGED <<session, cfg, views, out, result, asicVars>>

Routing(doing) ==
  /\ CallAt("none") /\ at.doing = doing /\ Ask(at.layer, Vector(at.layer, at.pos))
  /\ UNCHANGED <<inferVars, files, servers, procs, count>>

PrefillRoute == at.doing = "feed" /\ Gated(at.layer, at.pos) /\ Routing("feed")

PrefillRouted ==
  /\ at.doing = "feed" /\ call.step = "returned" /\ call' = NoCall /\ FedPosition
  /\ UNCHANGED <<session, cfg, views, out, result, files, servers, procs, count>>

Fails(res) == result' = res /\ at' = Stage("close", 0, 0) /\ call' = NoCall

PrefillFailed ==
  /\ at.doing = "feed" /\ call.step = "failed" /\ Fails("error")
  /\ UNCHANGED <<session, cfg, kv, prefPos, views, out, files, servers, procs, count>>

-----------------------------------------------------------------------------
(* sampleToken: the greatest logit at temperature 0, else a random draw;   *)
(* any token may be the one.                                               *)
Sampled == Vocab

(* realGenerateCore: a token is sampled and sorted into its stream, and    *)
(* the stack runs for it, until a stop token or the limit.                 *)
Split(o, tok) ==
  IF tok \in {ChannelOpen, ChannelClose} THEN [o EXCEPT !.thinking = (tok = ChannelOpen)]
  ELSE IF o.thinking THEN [o EXCEPT !.reasoning = Append(@, tok)]
  ELSE [o EXCEPT !.answer = Append(@, tok)]

Sample ==
  /\ at.doing = "sample"
  /\ \E tok \in Sampled :
       LET o == [out EXCEPT !.tokens = Append(@, tok)]
       IN  IF tok \in StopTokens
             THEN out' = o /\ result' = "answer" /\ at' = Stage("close", 0, 0)
             ELSE out' = Split(o, tok) /\ UNCHANGED result
                  /\ at' = Stage("decode", 0, Len(kv[0]))
  /\ UNCHANGED <<session, cfg, kv, prefPos, views, asicVars>>

(* forwardDecode, a layer at a time: the position is rotated, appended to  *)
(* the layer's cache and attends to it; prefPos is set in every layer.     *)
DecodeAttend ==
  LET l == at.layer
      n == Len(kv[l])
      entries == Append(kv[l], KvAt(at.pos, prefPos))
  IN  /\ at.doing = "decode"
      /\ kv' = [kv EXCEPT ![l] = entries]
      /\ views' = [x \in DOMAIN views \cup {<<l, at.pos>>} |->
                     IF x = <<l, at.pos>> THEN View(prefPos, entries, DecodeLowest(l, n), n)
                     ELSE views[x]]
      /\ prefPos' = n + 1 /\ at' = Stage("expert", l, at.pos)
      /\ UNCHANGED <<session, cfg, out, result, asicVars>>

NextLayer ==
  IF at.layer < NumLayers - 1 THEN at' = Stage("decode", at.layer + 1, at.pos) /\ UNCHANGED result
  ELSE IF Len(out.tokens) < MaxTokens THEN at' = Stage("sample", 0, 0) /\ UNCHANGED result
  ELSE at' = Stage("close", 0, 0) /\ result' = "answer"

DecodeFeed ==
  /\ at.doing = "expert" /\ at.layer \notin GateUnits /\ NextLayer
  /\ UNCHANGED <<session, cfg, kv, prefPos, views, out, asicVars>>

DecodeRoute == at.layer \in GateUnits /\ Routing("expert")

DecodeRouted ==
  /\ at.doing = "expert" /\ call.step = "returned" /\ call' = NoCall /\ NextLayer
  /\ UNCHANGED <<session, cfg, kv, prefPos, views, out, files, servers, procs, count>>

(* An error while decoding ends the loop; what there is so far is the      *)
(* answer.                                                                 *)
DecodeFailed ==
  /\ at.doing = "expert" /\ call.step = "failed" /\ Fails("answer")
  /\ UNCHANGED <<session, cfg, kv, prefPos, views, out, files, servers, procs, count>>

-----------------------------------------------------------------------------
(* The composition: one decision of a gated layer, the node of its expert  *)
(* booted with the same model, one vector through it.                      *)
Compose ==
  /\ at.doing = "boot" /\ Unbooted = {} /\ NodeUnits # {}
  /\ \E u \in GateUnits : Ask(u, Vector(u, 0)) /\ at' = Stage("decide", u, 0)
  /\ UNCHANGED <<session, cfg, kv, prefPos, views, out, result, files, servers, procs, count>>

ExpertDecided ==
  /\ at.doing = "decide" /\ call.step = "returned" /\ call' = NoCall
  /\ \E u \in NodeUnits : NodeBoot(u) /\ at' = Stage("weights", u, 0)
  /\ UNCHANGED <<session, cfg, kv, prefPos, views, out, result>>

NodeWeights ==
  /\ at.doing = "weights" /\ BuildWeightHex(at.layer, cfg.model) /\ at' = Stage("start", at.layer, 0)
  /\ UNCHANGED <<session, cfg, kv, prefPos, views, out, result, call>>

NodeStart ==
  /\ at.doing = "start" /\ Start(at.layer) /\ at' = Stage("starting", at.layer, 0)
  /\ UNCHANGED <<session, cfg, kv, prefPos, views, out, result, call>>

NodeReady ==
  /\ at.doing = "starting" /\ StatusSeen(at.layer)
  /\ Ask(at.layer, Vector(at.layer, 0)) /\ at' = Stage("run", at.layer, 0)
  /\ UNCHANGED <<session, cfg, kv, prefPos, views, out, result, files, servers, procs, count>>

NodeLate ==
  /\ at.doing = "starting" /\ StatusFails(at.layer, procs[at.layer][1]) /\ Fails("error")
  /\ UNCHANGED <<session, cfg, kv, prefPos, views, out, files, servers, procs, count>>

Composed ==
  /\ at.doing \in {"decide", "run"}
  /\ \/ call.step = "failed" /\ Fails("error")
     \/ at.doing = "run" /\ call.step = "returned" /\ Fails("answer")
  /\ UNCHANGED <<session, cfg, kv, prefPos, views, out, files, servers, procs, count>>

Close ==
  /\ at.doing = "close" /\ at' = Stage("idle", 0, 0)
  /\ servers' = Killed /\ procs' = [u \in Units |-> NoProc]
  /\ UNCHANGED <<session, cfg, kv, prefPos, views, out, result, files, count, call>>

InferNext ==
  \/ Begin \/ BootNext \/ Booted \/ BootFailed \/ Ready
  \/ PrefillAttend \/ PrefillFeed \/ PrefillRoute \/ PrefillRouted \/ PrefillFailed
  \/ Sample \/ DecodeAttend \/ DecodeFeed \/ DecodeRoute \/ DecodeRouted \/ DecodeFailed
  \/ Compose \/ ExpertDecided \/ NodeWeights \/ NodeStart \/ NodeReady \/ NodeLate \/ Composed \/ Close
  \/ Serve /\ UNCHANGED inferVars
  \/ Request(cfg.keep) /\ UNCHANGED inferVars

InferSpec == InferInit /\ [][InferNext]_<<inferVars, asicVars>>

-----------------------------------------------------------------------------
InferTypeOK ==
  /\ session \in 0 .. MaxSessions /\ result \in {"none", "answer", "error"}
  /\ at.layer \in LayerIds \cup Units /\ Len(out.tokens) <= MaxTokens

RoutedAsAsked == AnswersItsRequest(cfg.model)

(* A layer's cache holds its positions in order, and decoding a token      *)
(* attends to the positions a prefill that ended with it would have        *)
(* attended to (forwardDecode and prefill compute the window separately,   *)
(* from the cache's length and from the position).                         *)
DecodeSeesPrefill ==
  /\ \A l \in DOMAIN kv : \A i \in DOMAIN kv[l] : kv[l][i].pos = i - 1
  /\ \A x \in DOMAIN views :
       LET lo == Lowest(x[1], x[2])
       IN  [i \in DOMAIN views[x].keys |-> views[x].keys[i].pos] =
           [i \in 1 .. x[2] - lo + 1 |-> lo + i - 1]

(* ... with the same relative rotary positions ("re-run all layers on the  *)
(* single next-token position with the KV cache from prefill",             *)
(* realGenerateCore).                                                      *)
DecodePosition ==
  \A x \in DOMAIN views : \A i \in DOMAIN views[x].keys :
    views[x].rot - views[x].keys[i].rot = x[2] - views[x].keys[i].pos
=============================================================================
