------------------- MODULE MCSequentialExecutorRefinement -------------------
(***************************************************************************)
(* The refinement of FrameRuns by SequentialExecutor on MCPlan's plan.     *)
(***************************************************************************)
EXTENDS SequentialExecutorRefinement, MCPlan

=============================================================================
