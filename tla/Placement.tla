----------------------------- MODULE Placement -----------------------------
(***************************************************************************)
(* The model compiler and the host driver's tables: a model configuration  *)
(* is lowered to operations (model_ir.go, CompileModelIR), the operations  *)
(* are placed on the nodes of a chassis (PopulateSchema), and the driver   *)
(* derives from the placement its routing bitmaps, its map of experts and  *)
(* the weight upload (driver.go).  Nothing here changes once computed, so  *)
(* the module holds operators over a model record m:                       *)
(*                                                                         *)
(*   layers, experts, topk, vocab    sizes of TextConfig                   *)
(*   hidden, kvdim, inter, moeinter  projection dimensions                 *)
(*   heads, kvheads, types, window   attention settings                    *)
(*   ternary                         WithWeightFormat(WeightsTernary)      *)
(*   dims                            the chassis, [L, Bx, By]              *)
(*                                                                         *)
(* A node is <<l, x, y>>, the orchestrator <<-1, -1, -1>>.                 *)
(***************************************************************************)
EXTENDS Integers, Sequences, FiniteSetsExt

CONSTANTS NodeBudget,   \* PerNodeBudget, bytes
          KvFrameBytes, \* kvEntryBytes
          KvFrameCap    \* most KV entries reserved on a node

ASSUME PlacementAssumption ==
  NodeBudget \in Nat /\ KvFrameBytes \in Nat \ {0} /\ KvFrameCap \in Nat

Orchestrator == <<-1, -1, -1>>

ModelLayers(m)   == 0 .. m.layers - 1
NodesPerLayer(m) == m.dims.Bx * m.dims.By
ChassisNodes(m)  == (0 .. m.dims.L - 1) \X (0 .. m.dims.Bx - 1) \X (0 .. m.dims.By - 1)

(* Node idx of physical layer l, counted along Y.                          *)
NodeAt(m, l, idx) == <<l, idx \div m.dims.By, idx % m.dims.By>>

(* Ceiling grouping of the model's layers over the physical ones; the      *)
(* firmware's physLayerOf clamps, the compiler's does not.                 *)
LayersPerPhysical(m) == (m.layers + m.dims.L - 1) \div m.dims.L
HomeLayerOf(m, ml)   == ml \div LayersPerPhysical(m)
PhysLayerOf(m, ml)   == Min({HomeLayerOf(m, ml), m.dims.L - 1})

-----------------------------------------------------------------------------
(* CompileModelIR: what the model is, one operation per weight.            *)
AttnRoles  == {"attn_q", "attn_k", "attn_v", "attn_o"}
DenseRoles == {"dense_gate", "dense_up", "dense_down"}
NormRoles  == {"input_layernorm", "post_attention_layernorm", "final_norm"}
ExpertRoles == {"expert_gate_up", "expert_down"}

Numel(m, role) ==
  CASE role \in {"attn_q", "attn_o"}     -> m.hidden * m.hidden
    [] role \in {"attn_k", "attn_v"}     -> m.kvdim * m.hidden
    [] role \in DenseRoles               -> m.inter * m.hidden
    [] role = "orchestrator_weights"     -> m.experts * m.hidden
    [] role = "expert_gate_up"           -> 2 * m.moeinter * m.hidden
    [] role = "expert_down"              -> m.moeinter * m.hidden
    [] role = "embedding"                -> m.vocab * m.hidden
    [] role \in NormRoles                -> m.hidden

CUOf(m, role) ==
  IF role \in NormRoles THEN "fp32_alu"
  ELSE IF m.ternary THEN "ternary_acc"
  ELSE IF role \in AttnRoles THEN "bf16_mac_array"
  ELSE "bf16_fma"

SizeOf(m, role) ==
  IF m.ternary /\ role \notin NormRoles THEN (Numel(m, role) * 2 + 7) \div 8
                                        ELSE Numel(m, role) * 2

Op(m, ml, role, exp) ==
  [ml |-> ml, role |-> role, exp |-> exp, cu |-> CUOf(m, role), size |-> SizeOf(m, role)]

Ops(m) ==
  { Op(m, ml, role, -1) :
      ml \in ModelLayers(m),
      role \in AttnRoles \cup DenseRoles \cup {"orchestrator_weights"}
                         \cup (NormRoles \ {"final_norm"}) }
  \cup { Op(m, ml, role, e) : ml \in ModelLayers(m), role \in ExpertRoles,
                              e \in 0 .. m.experts - 1 }
  \cup { Op(m, -1, "embedding", -1), Op(m, -1, "final_norm", -1) }

-----------------------------------------------------------------------------
(* PopulateSchema: where each operation lands.  The embedding is split by  *)
(* rows over the first physical layer.                                     *)
HomeOf(m, op) ==
  CASE op.role = "orchestrator_weights" -> Orchestrator
    [] op.role = "final_norm" -> NodeAt(m, 0, m.layers % NodesPerLayer(m))
    [] op.role \in ExpertRoles ->
         NodeAt(m, HomeLayerOf(m, op.ml), op.exp % NodesPerLayer(m))
    [] OTHER -> NodeAt(m, HomeLayerOf(m, op.ml), op.ml % NodesPerLayer(m))

EmbeddingRows(m, idx) ==
  m.vocab \div NodesPerLayer(m) + (IF idx < m.vocab % NodesPerLayer(m) THEN 1 ELSE 0)

EmbeddingShard(m, node) ==
  IF node[1] # 0 THEN {}
  ELSE {[ ml |-> -1, role |-> "embedding", exp |-> 0, cu |-> CUOf(m, "embedding"),
          size |-> EmbeddingRows(m, node[2] * m.dims.By + node[3]) * m.hidden * 2 ]}

Placed(m, node) ==
  { op \in Ops(m) : op.role # "embedding" /\ HomeOf(m, op) = node } \cup EmbeddingShard(m, node)

TensorBytes(tensors) == MapThenSumSet(LAMBDA t : t.size, tensors)

(* A node that computes attention reserves four fifths of what is left of  *)
(* its memory for the KV cache, in whole frames, up to the cap.            *)
KvReserve(tensors) ==
  LET left   == NodeBudget - TensorBytes(tensors)
      frames == ((IF left < 0 THEN 0 ELSE left) * 4) \div (5 * KvFrameBytes)
  IN  [ ml |-> -1, role |-> "kv_cache", exp |-> 0, cu |-> "none",
        size |-> KvFrameBytes * (IF frames > KvFrameCap THEN KvFrameCap ELSE frames) ]

HasAttention(tensors) == \E t \in tensors : t.role = "attn_q"

NodeTensors(m, node) ==
  LET placed == Placed(m, node)
  IN  IF node # Orchestrator /\ HasAttention(placed) THEN placed \cup {KvReserve(placed)}
                                                     ELSE placed

(* NodeAssignments, or the error PopulateSchema reports.                   *)
Assignments(m) == [node \in ChassisNodes(m) \cup {Orchestrator} |-> NodeTensors(m, node)]

OverBudget(assign) ==
  \E node \in DOMAIN assign : node # Orchestrator /\ TensorBytes(assign[node]) > NodeBudget

(* What the compile listing reports about a placement: the compute units   *)
(* each node needs, and the expert tensors that lie off their layer.       *)
ComputeUnits(assign, node) == { t.cu : t \in assign[node] } \ {"none"}

CrossLayerExperts(m, assign) ==
  { at \in UNION { {n} \X assign[n] : n \in DOMAIN assign \ {Orchestrator} } :
      at[2].role \in ExpertRoles /\ at[1][1] # at[2].ml \div LayersPerPhysical(m) }

-----------------------------------------------------------------------------
(* The driver's tables, computed from the assignments.                     *)
ModuleOf(node) == (node[2] * 16 + node[3]) % 256

RouteBitmap(node) == (((node[1] + 1) * 128) % 65536) + 64 + (node[3] % 32)

RouteBitmaps(assign) == [node \in DOMAIN assign \ {Orchestrator} |-> RouteBitmap(node)]

(* A mutant: experts are located as if they were spread over all nodes of  *)
(* the chassis rather than over those of the layer's physical layer.       *)
MoeMapFlat(m, assign) ==
  [k \in { <<ml, e>> : ml \in ModelLayers(m), e \in 0 .. m.experts - 1 } |->
     LET idx == k[2] % (m.dims.L * NodesPerLayer(m))
     IN  NodeAt(m, idx \div NodesPerLayer(m), idx % NodesPerLayer(m))]

MoeMap(m, assign) ==
  LET at(node) == { t \in assign[node] : t.role = "expert_gate_up" }
      keys == { <<t.ml, t.exp>> : t \in UNION { at(n) : n \in DOMAIN assign \ {Orchestrator} } }
  IN  [k \in keys |-> CHOOSE n \in DOMAIN assign \ {Orchestrator} :
                        \E t \in at(n) : k = <<t.ml, t.exp>>]

NewDriver(m) ==
  LET assign == Assignments(m)
  IN  [ m |-> m, assign |-> assign, bitmaps |-> RouteBitmaps(assign), moe |-> MoeMap(m, assign),
        sent |-> {} ]   \* the weight commands sent at boot

(* BuildWeightCommands: one command per tensor of every node that holds    *)
(* any bytes; the orchestrator's own tensors are not uploaded.             *)
Command(node, role, ml, size) ==
  [layer |-> node[1], module |-> ModuleOf(node), role |-> role, ml |-> ml, size |-> size]

BuildWeightCommands(drv) ==
  UNION { { [cmd |-> Command(n, t.role, t.ml, t.size), exp |-> t.exp] : t \in drv.assign[n] } :
          n \in { n \in DOMAIN drv.assign \ {Orchestrator} : TensorBytes(drv.assign[n]) > 0 } }

(* VerifyWeightUpload, on the bytes each target is sent.                   *)
SentTo(cmds, node) == { c \in cmds : c.cmd.layer = node[1] /\ c.cmd.module = ModuleOf(node) }

VerifyWeightUpload(drv, cmds) ==
  /\ \A n \in DOMAIN drv.assign \ {Orchestrator} :
       LET sent == SentTo(cmds, n)
       IN  /\ MapThenSumSet(LAMBDA c : c.cmd.size, sent) <= NodeBudget
           /\ TensorBytes(drv.assign[n]) > 0 => sent # {}

(* The weights a node was sent for an operation of model layer ml.         *)
Uploaded(cmds, node, role, ml, exp) ==
  \E c \in SentTo(cmds, node) : c.cmd.role = role /\ c.cmd.ml = ml /\ c.exp = exp
=============================================================================
