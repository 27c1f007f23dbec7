-------------------------------- MODULE MCPlan --------------------------------
(***************************************************************************)
(* A five-node plan for TLC, shaped like a forward/backward training graph *)
(* with one YieldOp:                                                       *)
(*                                                                         *)
(*   pos  reads      writes  frees (to_be_freed range)                     *)
(*    0   {a}        {x}     -          (1 .. 0)                           *)
(*    1   {x}        {y}     -          (1 .. 0)                           *)
(*    2   {y}        {g}     y          (0 .. 0)   YieldOp                 *)
(*    3   {x, g}     {z}     x, g       (1 .. 2)                           *)
(*    4   {z}        {o}     z          (3 .. 3)                           *)
(*                                                                         *)
(* a is the graph input; g, the YieldOp's output, is also fed by the host  *)
(* when the run is resumed (the gradient the training loop computes).      *)
(* An empty range is encoded as the planner does, free_from 1, free_to 0.  *)
(***************************************************************************)
EXTENDS Integers, Sequences


CONSTANTS a, x, y, g, z, o

\* Builds a function on plan positions 0 .. Len(s) - 1 from a tuple.
OnPositions(s) == [p \in 0 .. (Len(s) - 1) |-> s[p + 1]]

MCN == 5
MCYield == {2}
MCValues == {a, x, y, g, z, o}
MCFeeds == {a, g}
MCReads == OnPositions(<<{a}, {x}, {y}, {x, g}, {z}>>)
MCWrites == OnPositions(<<{x}, {y}, {g}, {z}, {o}>>)
MCToBeFreed == <<y, x, g, z>>
MCFreeFrom == OnPositions(<<1, 1, 0, 1, 3>>)
MCFreeTo == OnPositions(<<0, 0, 0, 2, 3>>)

\* Node 4 (whose output o is not fetched) is off the path to the fetches.
MCPrunedOne == {4}

=============================================================================
