------------------------------ MODULE Serving ------------------------------
(***************************************************************************)
(* The serving software on the host and the orchestrator: a client with    *)
(* its firmware, which share one KV cache (LLMClient), and the KV cache as *)
(* a library under its other users (KvCache).  Which of the two a          *)
(* behaviour is about is fixed by caller at the start.                     *)
(***************************************************************************)
EXTENDS LLMClient

servingVars == <<kvVars, llmVars>>

ServingInit ==
  \/ KvInit /\ LLMIdle
  \/ LLMInit

ServingNext ==
  \/ KvNext /\ UNCHANGED llmVars
  \/ LLMNext

ServingSpec == ServingInit /\ [][ServingNext]_servingVars

(* Type invariant of the whole. *)
ServingTypeOK == KvTypeOK /\ LLMTypeOK
=============================================================================
