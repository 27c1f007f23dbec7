--------------------------- MODULE ExecutionPlan ---------------------------
(***************************************************************************)
(* The part of the SequentialExecutionPlan that the executor's driver and  *)
(* its fence passes both consult: the number of plan entries and the       *)
(* positions whose kernel is a YieldOp, with the scan that cuts a partial  *)
(* run into windows (sequential_executor.cc, lines 173-179).               *)
(***************************************************************************)
EXTENDS Integers

CONSTANTS
  N,                  \* exec_plan_size: number of NodeExecutionPlan entries
  Yield               \* plan positions whose kernel's OpName() is "YieldOp"

Positions == 0 .. (N - 1)

ASSUME PlanAssumption ==
  /\ N \in Nat \ {0}
  /\ Yield \subseteq Positions

\* Defect variant: the scan also stops on a YieldOp at the start itself.
WindowEndAtStart(start) ==
  IF start >= N THEN start
  ELSE CHOOSE e \in start .. N :
         /\ e = N \/ e \in Yield
         /\ \A f \in start .. (e - 1) : f \notin Yield

\* The scan for the end of a partial window (lines 173-179): the first
\* position after the start that holds a YieldOp, or the plan end; the
\* start itself never stops the scan, so a window holds at least one node.
WindowEnd(start) ==
  IF start >= N THEN start
  ELSE CHOOSE e \in start .. N :
         /\ e = N \/ (e \in Yield /\ e # start)
         /\ \A f \in start .. (e - 1) : f \notin Yield \/ f = start

=============================================================================
