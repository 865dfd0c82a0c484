------------------------------ MODULE LineageMC ------------------------------
(***************************************************************************)
(* Instances of Lineage: START -> plan; plan routes to tool, to answer or   *)
(* back to itself; tool leads back to plan and on to audit at once; answer  *)
(* and audit end.                                                           *)
(***************************************************************************)
EXTENDS Lineage

CONSTANTS plan, tool, answer, audit, msg, v1

LoopNodes == {plan, tool, answer, audit}
LoopRank == (plan :> 1) @@ (tool :> 2) @@ (answer :> 3) @@ (audit :> 4)
LoopTargets ==
  (START :> {plan}) @@ (plan :> {plan, tool, answer}) @@ (tool :> {plan, audit})
    @@ (answer :> {END}) @@ (audit :> {END})
LoopInputs == {msg :> v1}
=============================================================================
