------------------------- MODULE SequentialExecutor -------------------------
(***************************************************************************)
(* The sequential graph executor of onnxruntime                            *)
(* (src/onnxruntime/core/framework/sequential_executor.cc), driving ONE    *)
(* execution frame through its life:                                      *)
(*                                                                         *)
(*  - a full run (run_id = DEFAULT_RUN_ID): a fresh frame executes the     *)
(*    whole plan [0, N) and is then discarded;                             *)
(*  - a partial run (run_id = DEFAULT_PARTIAL_RUN_ID, then the minted id): *)
(*    the frame is registered, and each call scans from the frame's        *)
(*    program_counter_ to the next YieldOp, executes that window, moves    *)
(*    the cursor and erases the frame once the cursor equals the plan size.*)
(*                                                                         *)
(* The node loop (the inner Execute) is modelled one plan position per     *)
(* step: termination check, path pruning, compute (which may fail), and    *)
(* the release of the node's to_be_freed range.  The run-id registry with  *)
(* several callers is RunRegistry.tla; the fence hooks are FenceSync.tla. *)
(* Kernels are never null here (the planner guarantees one per node).      *)
(***************************************************************************)
EXTENDS ExecutionPlan, Sequences, FiniteSets

CONSTANTS
  Pruned,             \* positions outside GetToBeExecutedNodes(fetches)
                      \*   when only_execute_path_to_fetches_ is on ({} if off)
  Values,             \* OrtValue slots (ort_value_idx)
  Feeds,              \* slots set by the frame's constructor and by
                      \*   UpdateFeedAndFetches (feeds and initializers)
  Reads,              \* Reads[p]: input and implicit-input slots of node p
  Writes,             \* Writes[p]: output slots of node p
  ToBeFreed,          \* seq_exec_plan.to_be_freed (index i is ToBeFreed[i+1])
  FreeFrom, FreeTo,   \* node_exec_plan.free_from_index / free_to_index
  TransferOwnership,  \* GetTransferIntermidiateTensorOwnership()
  Modes,              \* run_id sentinels the caller passes: "full", "partial"
  Faults,             \* kernels may fail, the terminate flag may be set
  MaxFaults           \* bound on failures and terminations in one behaviour

\* The range of to_be_freed named by node p, as the loop of
\* ReleaseNodeMLValues walks it (free_from_index .. free_to_index inclusive).
FreeIndices(p) == FreeFrom[p] .. FreeTo[p]

ASSUME ConstantsAssumption ==
  /\ Pruned \subseteq Positions
  /\ Feeds \subseteq Values
  /\ Reads \in [Positions -> SUBSET Values]
  /\ Writes \in [Positions -> SUBSET Values]
  /\ ToBeFreed \in Seq(Values)
  /\ FreeFrom \in [Positions -> Int]
  /\ FreeTo \in [Positions -> Int]
  /\ \A p \in Positions : FreeIndices(p) \subseteq 0 .. (Len(ToBeFreed) - 1)
  /\ TransferOwnership \in BOOLEAN
  /\ Modes \subseteq {"full", "partial"}
  /\ Faults \in BOOLEAN
  /\ MaxFaults \in Nat

\* What the static planner guarantees and the executor trusts (spec 3, 4.1
\* step 9): a node that is executed reads only feeds or values an earlier
\* executed node wrote, and a value is freed only after its last reader.
ASSUME PlannerContract ==
  /\ \A p \in Positions \ Pruned : \A v \in Reads[p] :
        v \in Feeds \/ \E q \in 0 .. (p - 1) : q \notin Pruned /\ v \in Writes[q]
  /\ \A p \in Positions : \A i \in FreeIndices(p) :
        \A q \in (p + 1) .. (N - 1) : ToBeFreed[i + 1] \notin Reads[q]

VARIABLES
  phase,       \* "idle": no Execute call in progress; "exec": in the node loop
  kind,        \* "full" or "partial": the kind of the current/last call
  pc,          \* the frame's program_counter_ (partial runs)
  cur,         \* program_counter of the node loop
  wend,        \* program_counter_end of the current window
  val,         \* the frame's slots: "unset", "live" or "released"
  log,         \* history: plan positions whose Compute was invoked, in order
  registered,  \* the frame is in session_state.graph_runs_
  terminate,   \* terminate_flag_: the flag of the current call's RunOptions,
               \*   set out of band by another thread
  status,      \* status returned by the last call
  faults       \* number of failures/terminations so far (bounded)

vars == <<phase, kind, pc, cur, wend, val, log, registered, terminate,
          status, faults>>

Slot == {"unset", "live", "released"}

-----------------------------------------------------------------------------
(* Helpers translated from the code.                                       *)

\* ExecutionFrame constructor: feeds set, every other slot empty.
NewFrame == [v \in Values |-> IF v \in Feeds THEN "live" ELSE "unset"]

\* UpdateFeedAndFetches: the feeds are set again, other slots untouched.
UpdateFeeds(f) == [v \in Values |-> IF v \in Feeds THEN "live" ELSE f[v]]

\* Defect variant: the release loop runs one index past free_to_index.
ReleaseSetPastEnd(p) == {ToBeFreed[i + 1] : i \in FreeFrom[p] .. (FreeTo[p] + 1)}

\* The slots ReleaseNodeMLValues releases for node p (lines 618-629).
ReleaseSet(p) == {ToBeFreed[i + 1] : i \in FreeIndices(p)}

\* Compute of node p: its outputs become live.
AfterCompute(p, f) == [v \in Values |-> IF v \in Writes[p] THEN "live" ELSE f[v]]

\* ReleaseNodeMLValues after a successful compute.
AfterRelease(p, f) ==
  [v \in Values |-> IF v \in ReleaseSet(p) THEN "released" ELSE f[v]]

\* Defect variant: the cursor always skips the window's end node.
NextCursorSkips(end) == end + 1

\* The cursor a partial window leaves behind (lines 236-240).
NextCursor(end) == IF TransferOwnership THEN end + 1 ELSE end

-----------------------------------------------------------------------------
Init ==
  /\ phase = "idle"
  /\ kind = "full"
  /\ pc = 0
  /\ cur = 0
  /\ wend = 0
  /\ val = [v \in Values |-> "unset"]
  /\ log = << >>
  /\ registered = FALSE
  /\ terminate = FALSE
  /\ status = "none"
  /\ faults = 0

(* Execute with run_id == DEFAULT_RUN_ID (lines 135-137): a fresh frame    *)
(* runs the whole plan.  The frame is local to the call; this module       *)
(* follows one frame, so a full run starts only when no partial run is     *)
(* registered (two frames side by side are RunRegistry's subject).         *)
StartFullRun ==
  /\ phase = "idle"
  /\ "full" \in Modes
  /\ ~registered
  /\ phase' = "exec"
  /\ kind' = "full"
  /\ val' = NewFrame
  /\ log' = << >>
  /\ cur' = 0
  /\ wend' = N
  /\ terminate' = FALSE
  /\ status' = "none"
  /\ UNCHANGED <<pc, registered, faults>>

(* Execute with run_id == DEFAULT_PARTIAL_RUN_ID (lines 146-156, 173-181): *)
(* a new frame is inserted in graph_runs_ and its first window is scanned. *)
StartPartialRun ==
  /\ phase = "idle"
  /\ "partial" \in Modes
  /\ ~registered
  /\ phase' = "exec"
  /\ kind' = "partial"
  /\ val' = NewFrame
  /\ log' = << >>
  /\ pc' = 0
  /\ registered' = TRUE
  /\ cur' = 0
  /\ wend' = WindowEnd(0)
  /\ terminate' = FALSE
  /\ status' = "none"
  /\ UNCHANGED faults

(* Execute with the minted run id (lines 157-181): the frame is found,     *)
(* its feeds updated, and the window from its saved cursor is scanned.     *)
ResumePartialRun ==
  /\ phase = "idle"
  /\ registered
  /\ phase' = "exec"
  /\ kind' = "partial"
  /\ val' = UpdateFeeds(val)
  /\ cur' = pc
  /\ wend' = WindowEnd(pc)
  /\ terminate' = FALSE
  /\ status' = "none"
  /\ UNCHANGED <<pc, log, registered, faults>>

\* Defect variant: the loop saves its counter as the frame's cursor when
\* it stops on the terminate flag.
TerminatedSavesCursor ==
  /\ phase = "exec"
  /\ cur < wend
  /\ terminate
  /\ phase' = "idle"
  /\ status' = "terminated"
  /\ pc' = cur
  /\ UNCHANGED <<kind, cur, wend, val, log, registered, terminate, faults>>

(* Top of the node loop with the terminate flag set (lines 322-325).       *)
Terminated ==
  /\ phase = "exec"
  /\ cur < wend
  /\ terminate
  /\ phase' = "idle"
  /\ status' = "terminated"
  /\ UNCHANGED <<kind, pc, cur, wend, val, log, registered, terminate, faults>>

(* A node outside the path to the fetches is skipped (lines 329-332).      *)
SkipNode ==
  /\ phase = "exec"
  /\ cur < wend
  /\ ~terminate
  /\ cur \in Pruned
  /\ cur' = cur + 1
  /\ UNCHANGED <<phase, kind, pc, wend, val, log, registered, terminate,
                 status, faults>>

\* Defect variant: only_execute_path_to_fetches is not consulted.
ComputeNodeIgnoresPruning ==
  /\ phase = "exec"
  /\ cur < wend
  /\ ~terminate
  /\ val' = AfterRelease(cur, AfterCompute(cur, val))
  /\ log' = Append(log, cur)
  /\ cur' = cur + 1
  /\ UNCHANGED <<phase, kind, pc, wend, registered, terminate, status, faults>>

(* One node executed to the end (lines 352-556): compute succeeds, its     *)
(* outputs are produced and its to_be_freed range is released.             *)
ComputeNode ==
  /\ phase = "exec"
  /\ cur < wend
  /\ ~terminate
  /\ cur \notin Pruned
  /\ val' = AfterRelease(cur, AfterCompute(cur, val))
  /\ log' = Append(log, cur)
  /\ cur' = cur + 1
  /\ UNCHANGED <<phase, kind, pc, wend, registered, terminate, status, faults>>

(* Compute returns an error or throws (lines 439-471): the call returns    *)
(* the error; the frame keeps whatever outputs the kernel already wrote,   *)
(* nothing is rolled back and the cursor is not moved.                     *)
ComputeFails ==
  /\ phase = "exec"
  /\ cur < wend
  /\ ~terminate
  /\ cur \notin Pruned
  /\ Faults
  /\ faults < MaxFaults
  /\ \E written \in SUBSET Writes[cur] :
        val' = [v \in Values |-> IF v \in written THEN "live" ELSE val[v]]
  /\ log' = Append(log, cur)
  /\ phase' = "idle"
  /\ status' = "failed"
  /\ faults' = faults + 1
  /\ UNCHANGED <<kind, pc, cur, wend, registered, terminate>>

(* ReleaseMLValue fails inside ReleaseNodeMLValues (lines 553-556,       *)
(* 618-629): the node has computed, the slots of to_be_freed before the    *)
(* failing index k are released, the error returns at once and the cursor *)
(* is not moved.                                                           *)
ReleaseFails ==
  /\ phase = "exec"
  /\ cur < wend
  /\ ~terminate
  /\ cur \notin Pruned
  /\ Faults
  /\ faults < MaxFaults
  /\ \E k \in FreeIndices(cur) :
        val' = [v \in Values |->
                  IF v \in {ToBeFreed[i + 1] : i \in FreeFrom[cur] .. (k - 1)}
                  THEN "released" ELSE AfterCompute(cur, val)[v]]
  /\ log' = Append(log, cur)
  /\ phase' = "idle"
  /\ status' = "failed"
  /\ faults' = faults + 1
  /\ UNCHANGED <<kind, pc, cur, wend, registered, terminate>>

(* End of a full run (lines 137-141): outputs fetched, frame discarded.    *)
FinishFullRun ==
  /\ phase = "exec"
  /\ kind = "full"
  /\ cur = wend
  /\ phase' = "idle"
  /\ status' = "ok"
  /\ UNCHANGED <<kind, pc, cur, wend, val, log, registered, terminate, faults>>

\* Defect variant: the erase test reads the cursor before its update.
FinishPartialRunStaleCursor ==
  /\ phase = "exec"
  /\ kind = "partial"
  /\ cur = wend
  /\ pc' = NextCursor(wend)
  /\ registered' = (pc # N)
  /\ phase' = "idle"
  /\ status' = "ok"
  /\ UNCHANGED <<kind, cur, wend, val, log, terminate, faults>>

(* End of a partial window (lines 183-246): after the fence wait on the    *)
(* next node and GetOutputs, the cursor moves to the window end (one past  *)
(* it when intermediate tensor ownership is transferred) and the frame is  *)
(* erased from graph_runs_ when the cursor equals the plan size.           *)
FinishPartialRun ==
  /\ phase = "exec"
  /\ kind = "partial"
  /\ cur = wend
  /\ pc' = NextCursor(wend)
  /\ registered' = (pc' # N)
  /\ phase' = "idle"
  /\ status' = "ok"
  /\ UNCHANGED <<kind, cur, wend, val, log, terminate, faults>>

(* GetOutputs fails after the loop (lines 140, 232): the error returns     *)
(* before the cursor update, so the window will be executed again.         *)
OutputsFail ==
  /\ phase = "exec"
  /\ cur = wend
  /\ Faults
  /\ faults < MaxFaults
  /\ phase' = "idle"
  /\ status' = "failed"
  /\ faults' = faults + 1
  /\ UNCHANGED <<kind, pc, cur, wend, val, log, registered, terminate>>

(* Another thread sets the terminate flag of the running call's options.  *)
SetTerminate ==
  /\ phase = "exec"
  /\ Faults
  /\ faults < MaxFaults
  /\ ~terminate
  /\ terminate' = TRUE
  /\ faults' = faults + 1
  /\ UNCHANGED <<phase, kind, pc, cur, wend, val, log, registered, status>>

\* The steps of the executor thread inside one Execute call.
ExecutorStep ==
  \/ Terminated \/ SkipNode \/ ComputeNode \/ ComputeFails \/ ReleaseFails
  \/ FinishFullRun \/ FinishPartialRun \/ OutputsFail

Next ==
  \/ StartFullRun \/ StartPartialRun \/ ResumePartialRun
  \/ ExecutorStep
  \/ SetTerminate

Spec == Init /\ [][Next]_vars

(* The executor thread runs each call to its end (kernels return), and the *)
(* caller of a partial run keeps resuming it: the training loop that owns  *)
(* a partial run drives it to the end of the plan.                         *)
FairSpec ==
  /\ Spec
  /\ WF_vars(ExecutorStep)
  /\ WF_vars(ResumePartialRun)

-----------------------------------------------------------------------------
(* Properties.                                                             *)

TypeOK ==
  /\ phase \in {"idle", "exec"}
  /\ kind \in {"full", "partial"}
  /\ pc \in Nat
  /\ cur \in Nat
  /\ wend \in Nat
  /\ val \in [Values -> Slot]
  /\ log \in Seq(Positions)
  /\ registered \in BOOLEAN
  /\ terminate \in BOOLEAN
  /\ status \in {"none", "ok", "failed", "terminated"}
  /\ faults \in 0 .. MaxFaults

\* The configurations in which a window is never executed twice: no kernel
\* failure, GetOutputs failure or termination (each returns before the
\* cursor update of lines 236-240), or no partial runs at all.
NoRetry == ~Faults \/ "partial" \notin Modes

\* Spec 8: over the whole life of a frame, across every window of a partial
\* run, each plan position is computed at most once and in ascending order.
ExactlyOnceInOrder ==
  \A i, j \in 1 .. Len(log) : i < j => log[i] < log[j]

\* Spec 3 and 4.1: a node's Compute only reads slots that are live: never a
\* slot released by ReleaseNodeMLValues, never one nothing has produced.
ValueLifecycle ==
  [][Len(log') > Len(log) =>
       \A v \in Reads[log'[Len(log')]] : val[v] = "live"]_vars

\* Spec 8: when a call returns OK, the windows executed so far concatenate to
\* the full run's prefix: every position before the cursor (the plan end for
\* a full run) that is not pruned has been computed.
WindowsCoverPlan ==
  (phase = "idle" /\ status = "ok") =>
    {log[i] : i \in 1 .. Len(log)} =
      {p \in Positions : p < (IF kind = "full" THEN N ELSE pc) /\ p \notin Pruned}

\* Spec 3 and 4.3: a registry entry exists exactly while its run is
\* suspended short of the plan end; once the cursor reaches the end the frame
\* is erased and the id cannot be resumed.
RunErasedAtPlanEnd ==
  registered => pc < N

\* Spec 8 (the five-node scenario with a YieldOp at position 2): a partial
\* window ends by executing its YieldOp, so a run suspended after a
\* successful window has its cursor just past a YieldOp (lines 173-179 and
\* 236-240, without ownership transfer).
SuspendedPastYield ==
  (phase = "idle" /\ registered /\ status = "ok") => (pc - 1) \in Yield

\* Spec 4.3: a partial run that has been started is eventually completed
\* and its frame erased, provided the caller keeps resuming it.
PartialRunCompletes ==
  registered ~> ~registered

=============================================================================
