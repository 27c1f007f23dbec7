--------------------- MODULE SequentialExecutorRefinement ---------------------
(***************************************************************************)
(* SequentialExecutor implements FrameRuns: its node-by-node steps, seen   *)
(* from outside a call, are the atomic calls of the abstract frame.  While *)
(* a call is in progress the abstract frame still shows the log as it was  *)
(* when the call began: the entries the call has appended so far are the   *)
(* unpruned positions from the call's start to the loop counter, since     *)
(* only ComputeNode appends during a call (a failing step appends and      *)
(* returns in the same step).                                              *)
(***************************************************************************)
EXTENDS SequentialExecutor

\* Where the running call's node loop began: 0 for a full run, the frame's
\* cursor for a partial window.
CallStart == IF kind = "full" THEN 0 ELSE pc

\* How many Compute calls the running call has made so far.
CallComputed == Cardinality({p \in CallStart .. (cur - 1) : p \notin Pruned})

\* The frame's log as the abstract spec sees it.
absLog == IF phase = "exec" THEN SubSeq(log, 1, Len(log) - CallComputed) ELSE log

Abs == INSTANCE FrameRuns WITH log <- absLog

(* Seen between calls, every Execute call of the frame is one atomic step: *)
(* it appends the unpruned positions of its window (a prefix of them when  *)
(* it fails or is terminated) and moves the cursor as lines 236-246 do.    *)
ImplementsFrameRuns == Abs!Spec

=============================================================================
