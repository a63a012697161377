--------------------------- MODULE OperationLanes ---------------------------
(* The operations that the broker's scheduler and the extension's gate let   *)
(* through, each with the command it carries.                                *)
EXTENDS CommandLanes

CONSTANTS Op,       \* operation ids
          Command   \* the command each operation carries

ASSUME OperationAssumption ==
  /\ IsFiniteSet(Op)
  /\ Command \in [Op -> Commands]
  /\ Session \cap Tab = {}
=============================================================================
