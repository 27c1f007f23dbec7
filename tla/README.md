# TLA+ models of onnxruntime's sequential executor

This directory holds TLA+ models of the graph executor in
`src/onnxruntime/core/framework/sequential_executor.cc`, the TLC
configurations that check them, and TLAPS proofs about them.

## The system

The executor runs a precomputed execution plan: an ordered list of nodes.
Each node names a range of the shared `to_be_freed` list. `Execute` has two
overloads.

* **The outer `Execute`** (lines 126-250) dispatches on `run_id`:
  * `DEFAULT_RUN_ID`: a full run. A fresh `ExecutionFrame` runs the whole plan
    `[0, N)`, then `GetOutputs` runs and the frame is dropped.
  * `DEFAULT_PARTIAL_RUN_ID`: a new partial run.
    * A frame is created and inserted into `session_state.graph_runs_` under
      `graph_runs_lock_`.
    * The caller receives `graph_runs_counter_` as its id, and the counter is
      incremented.
  * Any other id resumes a partial run.
    * `ORT_ENFORCE(run_id >= 0)` checks the id.
    * `graph_runs_.find` runs without the lock, and the id must be present.
    * The frame's feeds are updated.

  A partial call then runs one window:
  * It scans from the frame's `program_counter_` to the first `YieldOp`
    strictly after the start, or to the plan end (lines 168-179).
  * It runs the window, then a fence-only pass on the next node, then
    `GetOutputs`.
  * It moves the cursor to the window end, or one past it when intermediate
    tensor ownership is transferred.
  * It erases the frame under the lock when the cursor equals the plan size.
* **The inner `Execute`** (lines 252-616) is the node loop. For each position
  it does the following, in order:
  1. checks the terminate flag;
  2. skips nodes off the path to the fetches;
  3. runs the before-fences;
  4. calls `Compute`, whose failure returns immediately;
  5. runs the after-fences;
  6. releases the node's `to_be_freed` range (`ReleaseNodeMLValues`, lines
     618-629).

  After the loop an optional memory pattern is published. Its failure is also
  returned.

The registry is the only shared structure. Several callers may run partial
runs at once, each on its own frame.

The other two files under `src/` hold no behaviour to model:
* `contrib_ops/cuda/bert/attention.h` is a kernel class declaration, followed
  by an Objective-C value wrapper that only converts types.
* `providers/js/operators/argminmax.cc` holds kernel registration macros.

## Modules

| module | models | state | actions |
|---|---|---|---|
| `ExecutionPlan` | the plan size and the window scan (lines 168-179) shared by every model | constants `N`, `Yield` | `WindowEnd(start)` |
| `SequentialExecutor` | one frame driven through full and partial runs, one node per step | `phase`, `kind`, `pc` (`program_counter_`), `cur`/`wend` (loop counter and window end), `val` (slot: unset/live/released), `log` (history of Compute calls), `registered`, `terminate`, `status`, `faults` | `StartFullRun`, `StartPartialRun`, `ResumePartialRun`, `Terminated`, `SkipNode`, `ComputeNode`, `ComputeFails`, `ReleaseFails`, `FinishFullRun`, `FinishPartialRun`, `OutputsFail`, `SetTerminate` |
| `FrameRuns` | the abstract frame: what the executor promises per Execute call, as one atomic step | `log`, `pc`, `registered` | `NewFrame`, `FullRun`, `Window` |
| `SequentialExecutorRefinement` | the refinement mapping from `SequentialExecutor` to `FrameRuns` | | |
| `FenceSync` | the fence hooks of a node visit and of the fence-only pass, against device queues | `stage` (top / hooked), `writer` (device work that last wrote a value), `event` (event a fence recorded), `queue` (per device queue), `done`, `nextId`, `waited` (host waits of the last before-pass), plus the driver state | `StartFullRun`, `StartPartialRun`, `ResumePartialRun`, `BeforeCompute`, `ComputeNode`, `ComputeFails`, `FinishFullRun`, `FinishPartialRun`, `DeviceRun(q)` |
| `RunRegistry` | `graph_runs_`, its lock and counter, with concurrent callers | `lock`, `graph_runs` (id → owner and windows left), `counter` (wrapping at `IdWidth` bits), `loc`, `mine` (caller's id), `it` (caller's iterator), `started` | `BeginNewRun`, `InsertRun`, `BeginResume` (including the `run_id >= 0` enforce), `FindRun` (outside the lock), `RunWindow`, `BeginErase`, `EraseRun` |
| `ExecutionPlanProofs`, `SequentialExecutorProofs`, `SequentialExecutorCoverProofs`, `SequentialExecutorValueProofs`, `SequentialExecutorRefinementProofs`, `FenceSyncProofs`, `RunRegistryProofs` | TLAPS proofs | | |
| `MCPlan`, `MCSequentialExecutor`, `MCSequentialExecutorRefinement`, `MCFenceSync`, `MCRunRegistry` | the small instances TLC checks | | |

How the model abstracts the code:
* **Data.**
  * A value slot is reduced to its lifecycle state.
  * A kernel is reduced to which slots it reads and writes.
  * A failing kernel may have written any subset of its outputs.
  * `GetOutputs` and the memory-pattern update are reduced to success or
    failure (`OutputsFail`).
* **Actions.**
  * Each action is a whole handler step.
  * `FinishPartialRun` covers everything from the fence-only pass to the
    erase.
  * `ComputeNode` covers a node visit from context construction through
    release.
  * `ReleaseFails` is the same visit when `frame.ReleaseMLValue` fails at
    some index of the node's range (line 625). The values before that index
    are released, the rest stay live, and the call returns before the
    cursor update.
* **Spec-modelled parts.** The execution frame's code is not in this
  repository. Its constructor (`NewFrame`) and `UpdateFeedAndFetches`
  (`UpdateFeeds`) are modelled from spec 3 and 4.2, and marked
  `spec_modelled` in `PROJECT.json`.
* **Termination.** The terminate flag belongs to the `RunOptions` of the
  current call, so every call starts with it clear. Another thread may set it
  while the call runs (`SetTerminate`).
* **Registry.** `RunRegistry` abstracts a window to "one fewer window left",
  because `SequentialExecutor` is where windows are modelled. A caller
  resumes only its own id, because spec 5 gives two callers on one id no
  contract.

**Fences (`FenceSync`).**
* A node has a fence when one of the slots its hooks touch is fenced
  (`NodeHasFence`).
* `BeforeCompute` is the sync-before-compute block (lines 371-401). For
  every fenced input, the identity passed to `BeforeUsingAsInput` is the
  kernel's provider, or the CPU when the kernel declares that input index in
  host memory. The implicit-input loop uses the same index into the explicit
  inputs' memory types, exactly as line 389 does (`InputIdentity`).
* `ComputeNode` is the Compute call and the sync-after-compute block
  (lines 506-528).
  * A CPU kernel writes its outputs on the host.
  * A device kernel only enqueues work on its queue.
  * `AfterUsedAsOutput` records the id of that work in the output's fence
    (`RecordOutputs`).
* The `Fence` classes are not in this repository, so what a hook does is
  taken from the spec (sections 3 and 5) in the form device providers give
  it:
  * a CPU-identity `BeforeUsingAsInput` blocks the host until the recorded
    event completes;
  * a device identity appends an event wait to the consumer's queue.
* `DeviceRun(q)` runs the head of a queue once its waits have completed.
  The host returning from `Compute` before the work runs is what makes the
  hooks necessary.
* `FinishPartialRun` issues the same before-hooks on node
  `program_counter_end` (the fence-only pass, lines 183-229), with that
  node's provider and queue.
* The write-after-read order kept by `AfterUsedAsInput` and
  `BeforeUsingAsOutput` is not modelled.

**The abstract frame (`FrameRuns`) and the refinement.**
* `FrameRuns` sees each Execute call as one atomic step:
  * a full run computes `Run(0, N)`, the unpruned positions in order.
    `Run(s, e)` is the sequence that lists `Unpruned(s, e)` in ascending
    order (`Lists`); it is chosen among functions from
    `1 .. Cardinality(Unpruned(s, e))`, so TLC enumerates it and TLAPS
    reasons about it without recursion;
  * a partial call computes `Run(pc, WindowEnd(pc))` and moves the cursor;
  * a failed call computes a prefix of its window and leaves the cursor.
* `SequentialExecutorRefinement` maps the node-by-node model onto it, with
  no history variable.
  * While a call is in progress, the abstract log is the log with the
    call's own entries removed. Only `ComputeNode` appends during a call,
    since a failing step appends and returns in the same step. So those
    entries are the unpruned positions from the call's start (0, or the
    cursor) up to the loop counter (`CallComputed`).
  * The whole call therefore appears as one step when it returns.
* `ImplementsFrameRuns` is proved for every value of the constants
  (`Refinement`, below), and checked in `seq_partial`, with ownership transfer off, with
  failures, with termination and with pruning. Faults are allowed, so
  retried windows are part of what the abstract spec permits: it only says
  that each call computes a prefix of its window.

## Constants and the planner contract

`SequentialExecutor` is parameterised by the plan and the configuration:
* the plan: `N`, `Yield`, `Pruned`, `Reads`, `Writes`, `ToBeFreed`,
  `FreeFrom`, `FreeTo`;
* the configuration: `TransferOwnership`, `Modes` (the `run_id` sentinels
  callers use), `Faults`, and the bound `MaxFaults`.

Two assumptions constrain the constants:
* `ConstantsAssumption` types them.
* `PlannerContract` states what the planner guarantees and the executor
  trusts (spec 3, 4.1 step 9):
  * an executed node reads only feeds, or values written by an earlier
    executed node;
  * a value is freed only after its last reader.

`MCSequentialExecutor` uses a 5-node plan shaped like a forward/backward
training graph with one `YieldOp` at position 2. It uses every kind of free
range: empty (encoded as the planner does, `1..0`), one value, and two values.

`RunRegistry` is parameterised by:
* `Threads` (callers);
* `IdWidth` (the bits of the `int64_t` id);
* `Windows` (windows per run);
* `MaxRuns` (the bound on runs started).

## Runs

| run | cfg | expect | what it shows |
|---|---|---|---|
| `seq_full` | `MCSequentialExecutor_full.cfg` | pass | Full runs with up to 4 failures or terminations and node 4 pruned satisfy `WindowsCoverPlan` and the action property `ValueLifecycle` (no Compute reads a released or unset slot). |
| `seq_partial` | `MCSequentialExecutorRefinement.cfg` | pass | Full and partial runs, with up to 2 compute or release failures and terminations, and node 4 pruned. They satisfy `WindowsCoverPlan` and `RunErasedAtPlanEnd`, and implement `FrameRuns` (`ImplementsFrameRuns`). `PartialRunCompletes` holds under `FairSpec`. |
| `seq_retry` | `MCSequentialExecutor_retry.cfg` | violation | A partial window fails after node 2 released `y`. The resume re-runs node 2, which reads the released `y`. |
| `seq_transfer` | `MCSequentialExecutor_transfer.cfg` | violation | With ownership transfer the last window sets the cursor to `N + 1`, so the frame is never erased. |
| `seq_yield_window` | `MCSequentialExecutor_yield.cfg` | violation | A window stops *before* its `YieldOp`. The first call computes nodes 0 and 1 and suspends with cursor 2. Spec 8's scenario says nodes 0-2 and cursor 3. |
| `registry` | `MCRunRegistry.cfg` | pass | Two callers, 3 runs, 2 windows each: ids are sound (`RunIdsSound`) and every frame has its holder (`NoOrphanFrames`). |
| `registry_race` | `MCRunRegistry_race.cfg` | violation | The unlocked `find` overlaps another caller's `insert` or `erase`. |
| `registry_overflow` | `MCRunRegistry_overflow.cfg` | violation | With 2-bit ids the third run receives id −2, which its resume rejects. |
| `fence` | `MCFenceSync.cfg` | pass | Full and partial runs with failures, on a 5-node plan with two device queues: `HostReadsComplete`, `DeviceReadsComplete` and `FetchesSynced`. |
| `fence_implicit` | `MCFenceSync_implicit.cfg` | violation | Node 4 declares explicit input 0 in host memory. Its implicit input 0 (`y`, read on the device) is therefore waited on by the host (`HostWaitsOnlyForHostReads`). |
| `fence_device_yield` | `MCFenceSync_devyield.cfg` | violation | With the `YieldOp` on a device provider, the fence-only pass only inserts a queue wait, and the call returns while `y` is still being written (`FetchesSynced`). |

The seven violations are the findings in `PROJECT.json`. They show:
* the `YieldOp` opens the next window, where spec 8 has it close the
  current one;
* the frame of a failed partial window stays resumable, but its retry reads
  released values;
* transfer mode leaks frames;
* the registry lookup is not locked;
* the counter overflow is unchecked;
* the implicit-input loop reads the wrong memory type;
* the fence-only pass does not synchronise the host when the next node runs
  on a device.

Every property of a passing run is also shown to be sensitive to the code.
For each one, `PROJECT.json` lists a defect variant defined next to the
definition it mutates, and TLC finds the property violated when the variant
replaces that definition. The variants are:
* a loop counter that is not advanced;
* ignoring `only_execute_path_to_fetches`;
* a release loop running one index too far;
* a cursor that always skips the end node;
* the erase test reading the cursor before its update;
* a window scan that stops on a `YieldOp` at its start;
* a counter that is not incremented;
* an erase that is dropped;
* a loop that saves its counter as the cursor when it stops on the terminate
  flag, which only the refinement catches;
* a before-hook without the host-memory override;
* a device-identity before-hook that inserts no queue wait;
* a partial window that skips the fence-only pass.

**Bounds.**
* 5 nodes with one `YieldOp` give a partial run two windows, and a fence-only
  pass on a following node.
* Values are freed by the `YieldOp` node itself, and by a node reading a value
  produced across the suspension. That is what the retry scenario needs.
* `MaxFaults` bounds failures plus terminations.
  * In `seq_full` it is 4, enough for a failure at each unpruned node.
  * In `seq_partial` it is 2, enough for a failed window followed by a
    failed retry.
* The fence plan has two device queues, so that a value crosses queues
  (`x`: written on `q0`, read on `q1`). It has a host-memory input (node 2,
  input 1) and a host `YieldOp` whose input `y` is written on a device. Node
  4 reads `y` both as an implicit input and across the suspension. Three
  calls give a partial run both windows and a retry, or a full run next to
  them.
* Two callers and three runs exercise every interleaving of two concurrent
  runs, and a third run that reuses a freed slot of the map.

**Fairness.** `FairSpec` assumes weak fairness of the executor thread's
steps. The code justifies this: a call runs on one thread to its end, and
kernels return. It also assumes weak fairness of `ResumePartialRun`: the
training loop that owns a partial run keeps resuming it (spec 4.3: the back
edge is driven by re-invocation). Under this fairness, failures that leave
the cursor behind are retried until they stop, which they must do because
faults are bounded.

The fence runs and the registry runs say `CHECK_DEADLOCK FALSE`. The model
stops only because the number of calls (`MaxCalls`, `MaxRuns`) is bounded.

## Proofs (`SequentialExecutorProofs`)

All proofs are checked by `tlapm`. The constants are assumed to satisfy
`ConstantsAssumption`. No other assumption is made, so the results hold for
every plan size, every `YieldOp` placement, and any `Reads`, `Writes` and
free ranges.

### `TypeCorrect: Spec => []TypeOK`

`TypeOK` is not inductive on its own. `wend` must stay a natural number, and
`ResumePartialRun` sets `wend' = WindowEnd(pc)`, which is defined by a
`CHOOSE`. The proof rests on three lemmas about the window scan:
* **`LeastNatural`**: every non-empty set of naturals has a least element.
  It comes from `WellFoundedInduction`'s `WFMin` for `<` on `Nat`.
* **`WindowEndInPlan`**: for a start inside the plan, the scan's `CHOOSE`
  has a witness. The witness is the least stop point, so the scan returns a
  position in `start+1 .. N`.
* **`WindowEndPastPlan`**: past the plan, the scan does not move.

The invariant proved is `TypeInv == TypeOK /\ CursorsOK`. `CursorsOK` states
that during a call `cur <= wend`, and that a non-empty window ends inside the
plan.

### `InOrderExecution: NoRetry => (Spec => []ExactlyOnceInOrder)`

The hypothesis `NoRetry` is `~Faults \/ "partial" \notin Modes`. It is
needed because otherwise the property fails: a retried window computes its
nodes a second time (the re-run is the trace of `seq_retry`).

No run checks this property. Its content is the order across windows. With
no retry a partial run is deterministic, so a run over `MCPlan` would have a
few dozen states and only restate the proof on one plan. With retries it is
false. In full-only runs it would only restate the loop's increment, since
every full run starts a fresh log.

The inductive invariant is `IInv`, made of the following:
* `TypeInv`;
* the log is ascending;
* `ProgressInv`:
  * during a call the log lies below the loop counter;
  * while a run is suspended the log lies below the saved cursor;
  * a registered frame implies partial runs are enabled;
  * the terminate flag implies faults are enabled;
  * a full-run call never runs beside a registered frame;
  * a partial call always has its frame registered.

The last four conjuncts are what make the failure actions harmless: under
`NoRetry` a failure can only happen when no partial run is registered.
`IInv` was checked by TLC on the full, partial and transfer configurations
before it was proved. The appending step uses the lemma `AppendAscending`.

### `ErasedAtPlanEnd: ~TransferOwnership => (Spec => []RunErasedAtPlanEnd)`

The inductive invariant `EraseInv` adds one conjunct to `TypeInv` and the
property: a partial window in progress ends inside the plan. That conjunct
holds because `WindowEndInPlan` bounds every scan that starts from a
registered cursor. The last window then sets the cursor to its end, which is
at most `N`, and the erase test catches the value `N`. With transfer the
cursor can reach `N + 1`; `seq_transfer` shows that case.

## Proofs (`SequentialExecutorCoverProofs`, `SequentialExecutorValueProofs`)

### `CoverPlan: ~TransferOwnership => (Spec => []WindowsCoverPlan)`

`Due(k)` is the set of unpruned positions below `k`, and `Elems(log)` the set
of positions the log holds. The inductive invariant `CoverInv` says where the
log stands at each point of a call:
* during a full run, `Elems(log) = Due(cur)`, the frame is not registered and
  the window is the whole plan;
* during a partial window, the log holds `Due(cur)` and nothing past the
  window end `WindowEnd(pc)`, and `pc <= cur`;
* while a run is suspended, the log holds `Due(pc)` and nothing past the
  window that starts at `pc`.

The bounds "nothing past the window" are what make a retried window harmless
to the set of computed positions: a failed window adds only positions of the
window, which the retry adds again. No `NoRetry` hypothesis is needed.
Without `~TransferOwnership` the property is false: the cursor skips the
`YieldOp` ending each window, which is then never computed. TLC finds this
on the `seq_partial` instance with transfer on.

### `Lifecycle: NoRetry /\ ~TransferOwnership => (Spec => ValueLifecycle)`

`LiveOK(k, f)` says frame `f` holds, as live, every slot produced by a
position due before `k` (or fed) and released by none of them. The
inductive invariant `LiveInv` holds `LiveOK(cur, val)` during a call and
`LiveOK(pc, val)` while a run is suspended, with the facts of `ProgressInv`
that keep failures away from registered frames. The proof uses the two
halves of `PlannerContract`: the reads of an executed node are fed or
produced earlier, and no slot is released before its last reader. `NoRetry` is
needed: `seq_retry` is the counterexample without it. `~TransferOwnership`
is what the proof uses. With transfer the skipped `YieldOp` never produces
its outputs, so a later reader depends on the caller feeding them. In
`MCPlan` the caller does (`g` is a feed), and TLC finds no violation there
with transfer on and no retries. The theorem does not cover that case.

## Proofs (`SequentialExecutorRefinementProofs`)

### `Refinement: Spec => ImplementsFrameRuns`

This holds with no hypothesis: for every plan, pruned set, transfer setting,
set of modes and fault setting. The proof has three parts.
* **Runs.** Lemmas about `FrameRuns!Run`, stated directly about the
  instance's operators:
  * `RunExists` and `RunIs`: the list `Run` chooses exists and is the only
    one (`ListsUnique`, by the first index where two lists differ).
  * `RunStep`: passing position `k` appends `k` unless it is pruned.
  * `RunPrefix`: a shorter run is a prefix of a longer one.
  Each induction takes the least counterexample (`LeastNatural`) instead of
  an induction rule with an operator parameter.
* **The inductive invariant `RefInv`.**
  * `TypeInv`.
  * The terminate flag implies faults.
  * A full-run call has an unregistered frame, `wend = N` and an empty
    abstract log.
  * A partial call has a registered frame, `wend = WindowEnd(pc)` and
    `pc <= cur`.
  * During a call, `log = absLog \o CallRun`, where `CallRun` is
    `Run(CallStart, cur)`.
  The last conjunct is why the mapping works: it says the entries the
  mapping cuts off are exactly the call's own run. `RefInv` was checked by
  TLC on the `seq_partial` instance, with transfer on, and with nothing
  pruned, before it was proved.
* **The step mapping**, one lemma per group of actions:
  * `StartRefines`: a new frame is `NewFrame`.
  * `ResumeRefines` and `LoopRefines`: resuming, skipping, computing a node
    and setting the terminate flag leave the abstract state unchanged.
    `ComputeNode` appends to the log and to `CallRun` at once.
  * `StopRefines`: a termination, a kernel, release or `GetOutputs` failure
    is a `FullRun` or a failing `Window`. The call's run so far is a prefix
    of its window by `RunPrefix`, since `cur <= wend`.
  * `FinishRefines`: a finished call is a `FullRun` or a completing
    `Window`, with `NextCursor = ResumeAt`.

## Proofs (`FenceSyncProofs`)

`FenceSync` assumes `FenceAssumption` (types), `FencePlacement` (a slot
written on a device and read on the host, or on another queue, is fenced)
and `PlanOrder` (the plan is a topological order). All three are
properties the planner and the session's fence placement guarantee.

* **`FenceTypeCorrect: Spec => []TypeOK`**.
* **`HostReadsSynced: Spec => []HostReadsComplete`**. The inductive
  invariant `HostInv` adds:
  * `CountersInPlan`;
  * `WrittenOnDevice`: device work wrote only outputs of device nodes;
  * `EventsCurrent`: a fenced slot's fence has recorded the event of its
    last writer.
  With them, the CPU-identity before-hook blocks on the last writer of
  every fenced host read (`HostReadsSettled`). An unfenced host read was
  written by the host (`FencePlacement`).
* **`DeviceReadsOrdered: Spec => []DeviceReadsComplete`**. The inductive
  invariant `DeviceInv` adds:
  * `WritersQueued`: the last writer of a slot has run or is still queued
    on its node's queue;
  * `HookedWaits`: after the before-hooks, each fenced device read's event
    is complete or waited on by the node's queue;
  * `QueuedDeps`: every dependency of queued work is complete or ahead of
    it on the same queue.
  Work is added only at a queue's end and leaves only from its head, after
  everything ahead of it (`QueuesGrow` covers the steps that add), so
  "complete or ahead of it" stays true.
* **`FetchesSyncedAtYield: YieldOnHost => (Spec => []FetchesSynced)`**.
  The inductive invariant `FetchInv` is `HostInv`, plus the fact that a
  partial window ends at a `YieldOp` or the plan end (`WindowEndInPlan`),
  plus the property. The hypothesis that every `YieldOp` runs on the host
  is needed: `fence_device_yield` shows the property failing without it.
  Which provider runs `YieldOp` is not decided in this repository's code.

## Proofs (`RunRegistryProofs`)

`RunRegistry` states two assumptions:
* `IdRangeAssumption`: `MaxId` is a natural number and `MinId` is
  `-(MaxId + 1)`. TLC checks them against the `2^(IdWidth-1)` definitions,
  and the provers need no facts about powers.
* `NoneAssumption`: the sentinel `None` is neither an id nor a frame.

The theorems also assume `NoWrap == MaxRuns <= MaxId`: the counter never
passes the largest id. `registry_overflow` shows that the properties fail
without it.

The inductive invariant `IInv` is `TypeOK` and five parts:
* `CounterInv`: the counter equals the number of runs started, or one
  less while a caller is between its start and its insert.
* `LockInv`: a caller inside the insert or the erase holds the lock.
* `LocInv`: what each caller holds at each point of `Execute`, whether it
  has an id and whether its iterator is that id.
* `MineInv`: every id a caller holds is below the counter and names the
  caller's own frame.
* `EntryInv`: every frame in the map has an id below the counter, and its
  owner holds that id.

The strengthening is needed because of the counter bounds in `MineInv` and
`EntryInv`: every live id is below the counter, so an insert at the counter
lands on a free key. Without them `InsertRun` could overwrite another
caller's frame. `IInv` was checked by TLC on `MCRunRegistry` before it was
proved.

* **`IdsSound`**: `NoWrap => (Spec => []RunIdsSound)`.
* **`NoOrphans`**: `NoWrap => (Spec => []NoOrphanFrames)`.

### What stays with TLC

These results are only model-checked:
* Liveness (`PartialRunCompletes`). TLAPS does not reason about fairness and
  `ENABLED` here.
* `RegistryMutualExclusion` is only a violation run.
* The properties of the violation runs, which are shown false.
* `ValueLifecycle`, `WindowsCoverPlan` and `RunErasedAtPlanEnd` in the
  cases their theorems exclude (retries, ownership transfer). TLC shows
  those cases fail.

## Not modelled, and why

* **Write-after-read fences.** `AfterUsedAsInput` and `BeforeUsingAsOutput`
  keep a later writer behind earlier readers. The model leaves these hooks
  out. The after-hooks that matter to the properties are kept: the event that
  `AfterUsedAsOutput` records.
* **Null kernels.** A null kernel in the window scan (line 176), in the
  fence-only pass (line 192) or in the loop (line 355) is not modelled. The
  model assumes the planner's guarantee of one kernel per node.
* **Observers.** The profiler, tracing, NVTX ranges and logging are not
  modelled. They are observers with no effect on control flow.
* **Memory patterns.** Their content is not modelled, only their failure
  (`OutputsFail`).
* **Other files.** The Attention declaration, the Objective-C wrapper and the
  ArgMin/ArgMax registration are not modelled, since they have no runtime
  state.

## Plan for further work

1. A composition of `RunRegistry` with per-frame executors.
2. The write-after-read order of the fences.
3. A refinement of `FrameRuns` by `FenceSync`'s driver.
