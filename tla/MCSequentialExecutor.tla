------------------------ MODULE MCSequentialExecutor ------------------------
(***************************************************************************)
(* SequentialExecutor on the plan of MCPlan, for TLC.                      *)
(***************************************************************************)
EXTENDS SequentialExecutor, MCPlan

=============================================================================
