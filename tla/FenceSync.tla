------------------------------ MODULE FenceSync ------------------------------
(***************************************************************************)
(* The fence protocol of the sequential executor                           *)
(* (sequential_executor.cc): the before-hooks issued ahead of a kernel's   *)
(* Compute (lines 371-401), the after-hooks behind it (lines 506-525), the *)
(* fence-only pass on the node after a partial window (lines 183-229), and *)
(* what a fence does with them, against device queues that run the work a *)
(* kernel enqueued after the kernel has returned.                          *)
(*                                                                         *)
(* The Fence implementations are not in this repository; their behaviour   *)
(* is taken from the spec (sections 3 and 5) in the form the device        *)
(* providers give it: AfterUsedAsOutput(queue) records an event behind the *)
(* producer's work on its queue; BeforeUsingAsInput with the CPU identity  *)
(* blocks the host until that event completes, and with a device identity  *)
(* makes the consumer's queue wait for it.  The read-after-write order is  *)
(* modelled; the write-after-read order the output hooks keep is not.     *)
(* Termination and path pruning are SequentialExecutor's subject.          *)
(***************************************************************************)
EXTENDS ExecutionPlan, Sequences, FiniteSets

CONSTANTS
  Values,      \* OrtValue slots
  Feeds,       \* slots the caller provides (written by the host)
  Fenced,      \* slots whose OrtValue carries a Fence
  Inputs,      \* Inputs[p]: node p's input slots, by input_index
  Implicit,    \* Implicit[p]: node p's implicit-input slots, by input_index
  Outputs,     \* Outputs[p]: node p's output slots, by output_index
  Provider,    \* Provider[p]: Node().GetExecutionProviderType(), "cpu" or a device
  Queues,      \* the device queues (streams)
  Queue,       \* Queue[p]: KernelDef().ExecQueueId()
  CpuInput,    \* CpuInput[p]: the i with InputMemoryType(i) == OrtMemTypeCPUInput
  Modes,       \* run_id sentinels the caller passes: "full", "partial"
  Faults,      \* kernels may fail
  MaxCalls     \* bound on Execute calls in one behaviour

\* 0-based indices of a slot sequence, as the hook loops walk it.
Idx(s) == 0 .. (Len(s) - 1)

SlotsOf(s) == {s[i + 1] : i \in Idx(s)}

ASSUME FenceAssumption ==
  /\ Feeds \subseteq Values /\ Fenced \subseteq Values
  /\ \A f \in {Inputs, Implicit, Outputs} : f \in [Positions -> Seq(Values)]
  /\ Provider \in [Positions -> {"cpu", "gpu"}]
  /\ Queue \in [Positions -> Queues]
  /\ CpuInput \in [Positions -> SUBSET Nat]
  /\ Modes \subseteq {"full", "partial"} /\ Faults \in BOOLEAN
  /\ MaxCalls \in Nat

-----------------------------------------------------------------------------
(* The hooks one node issues (lines 371-401, 506-525).                     *)

\* Every fenced slot node p's hooks touch.
Touched(p) == (SlotsOf(Inputs[p]) \cup SlotsOf(Implicit[p]) \cup SlotsOf(Outputs[p])) \cap Fenced

\* seq_exec_plan.NodeHasFence: the planner marks a node that has a fenced slot.
NodeHasFence(p) == Touched(p) # {}

\* Defect variant: the host-memory override is dropped.
InputIdentityNoOverride(p, i) == Provider[p]

\* The provider identity passed to BeforeUsingAsInput for input_index i
\* (lines 377-380, and 387-390 for implicit inputs, which reuse the
\* explicit input's InputMemoryType at the same index).
InputIdentity(p, i) == IF i \in CpuInput[p] THEN "cpu" ELSE Provider[p]

\* The BeforeUsingAsInput calls of node p: explicit, then implicit inputs.
InputUses(p) ==
  {[slot |-> Inputs[p][i + 1], ident |-> InputIdentity(p, i)] :
      i \in {j \in Idx(Inputs[p]) : Inputs[p][j + 1] \in Fenced}}
  \cup
  {[slot |-> Implicit[p][i + 1], ident |-> InputIdentity(p, i)] :
      i \in {j \in Idx(Implicit[p]) : Implicit[p][j + 1] \in Fenced}}


\* What the kernel reads on the host: every input of a CPU kernel, and the
\* inputs a device kernel declares in host memory.
HostReads(p) ==
  IF Provider[p] = "cpu" THEN SlotsOf(Inputs[p]) \cup SlotsOf(Implicit[p])
  ELSE {Inputs[p][i + 1] : i \in Idx(Inputs[p]) \cap CpuInput[p]}

\* What the work a device kernel enqueues reads.
DeviceReads(p) ==
  IF Provider[p] = "cpu" THEN {}
  ELSE {Inputs[p][i + 1] : i \in Idx(Inputs[p]) \ CpuInput[p]} \cup SlotsOf(Implicit[p])

\* What the planner guarantees: a slot a device kernel wrote is fenced when
\* the host or another queue reads it.
ASSUME FencePlacement ==
  \A p, q \in Positions :
     (q < p /\ Provider[q] = "gpu") =>
        \A v \in SlotsOf(Outputs[q]) :
           (v \in HostReads(p) \/ (v \in DeviceReads(p) /\ Queue[q] # Queue[p]))
              => v \in Fenced

\* The execution plan is a topological order of the graph: a node's inputs
\* and implicit inputs are written only by nodes before it.
ASSUME PlanOrder ==
  \A p, q \in Positions :
     ((SlotsOf(Inputs[p]) \cup SlotsOf(Implicit[p])) \cap SlotsOf(Outputs[q]) # {})
        => q < p

-----------------------------------------------------------------------------
VARIABLES
  phase,       \* "idle" or "exec" (inside an Execute call)
  kind,        \* "full" or "partial"
  pc,          \* the frame's program_counter_
  cur,         \* program_counter of the node loop
  wend,        \* program_counter_end
  stage,       \* "top": at the top of the node loop; "hooked": before-hooks issued
  registered,  \* the frame is in graph_runs_
  status,      \* status of the last call
  calls,       \* Execute calls so far (bounded)
  writer,      \* writer[v]: id of the device work that last wrote v (0: the host)
  event,       \* event[v]: id the fence of v recorded in AfterUsedAsOutput (0: none)
  queue,       \* queue[q]: the work enqueued on q and not yet run, in order
  done,        \* ids of device work that has run
  nextId,      \* id of the next device work
  waited       \* the slots the last before-pass blocked the host on

vars == <<phase, kind, pc, cur, wend, stage, registered, status, calls,
          writer, event, queue, done, nextId, waited>>

\* Work on a queue: a kernel's work (id > 0) reading the work deps wrote, or
\* the wait a device-identity BeforeUsingAsInput inserts (id 0).
Item == [id : Nat, waits : SUBSET Nat, deps : SUBSET Nat]

Complete(e) == e = 0 \/ e \in done

Ready(it) == \A e \in it.waits : Complete(e)

\* Defect variant: a device-identity before-hook leaves the queue alone.
BeforeHooksNoQueueWait(p) ==
  LET host == {u \in InputUses(p) : u.ident = "cpu"}
  IN  /\ \A u \in host : Complete(event[u.slot])
      /\ UNCHANGED queue
      /\ waited' = {u.slot : u \in host}

\* BeforeUsingAsInput/BeforeUsingAsOutput on every fenced slot of node p:
\* the CPU-identity calls block until the recorded event completes, the
\* device-identity calls make p's queue wait for it.
BeforeHooks(p) ==
  LET host == {u \in InputUses(p) : u.ident = "cpu"}
      devw == {event[u.slot] : u \in {w \in InputUses(p) : w.ident # "cpu"}} \ {0}
  IN  /\ \A u \in host : Complete(event[u.slot])
      /\ queue' = IF devw = {} THEN queue
                  ELSE [queue EXCEPT ![Queue[p]] =
                          Append(@, [id |-> 0, waits |-> devw, deps |-> {}])]
      /\ waited' = {u.slot : u \in host}

\* Defect variant: the fence-only pass is left out.
FenceOnlyPassSkipped(p) == UNCHANGED <<queue, waited>>

\* The fence-wait-only pass on the node after a partial window (lines
\* 183-229): the same three loops of before-hooks, and no Compute.
FenceOnlyPass(p) == BeforeHooks(p)

\* AfterUsedAsOutput(queue_id) on the fenced outputs of node p (lines
\* 520-525): the fence records the event behind the work that wrote them.
RecordOutputs(p, e, w) ==
  [v \in Values |-> IF v \in Fenced /\ v \in SlotsOf(Outputs[p]) THEN w[v] ELSE e[v]]

\* The fence state of a fresh ExecutionFrame: new OrtValues, new fences.
FreshFences ==
  /\ writer' = [v \in Values |-> 0]
  /\ event' = [v \in Values |-> 0]

-----------------------------------------------------------------------------
Init ==
  /\ phase = "idle"
  /\ kind = "full"
  /\ pc = 0
  /\ cur = 0
  /\ wend = 0
  /\ stage = "top"
  /\ registered = FALSE
  /\ status = "none"
  /\ calls = 0
  /\ writer = [v \in Values |-> 0]
  /\ event = [v \in Values |-> 0]
  /\ queue = [q \in Queues |-> << >>]
  /\ done = {}
  /\ nextId = 1
  /\ waited = {}

(* Execute with DEFAULT_RUN_ID (lines 135-137): a fresh frame, whole plan. *)
StartFullRun ==
  /\ phase = "idle" /\ "full" \in Modes /\ ~registered /\ calls < MaxCalls
  /\ phase' = "exec" /\ kind' = "full" /\ cur' = 0 /\ wend' = N
  /\ status' = "none" /\ calls' = calls + 1
  /\ FreshFences
  /\ UNCHANGED <<pc, stage, registered, queue, done, nextId, waited>>

(* Execute with DEFAULT_PARTIAL_RUN_ID (lines 146-156, 173-181).           *)
StartPartialRun ==
  /\ phase = "idle" /\ "partial" \in Modes /\ ~registered /\ calls < MaxCalls
  /\ phase' = "exec" /\ kind' = "partial" /\ pc' = 0 /\ registered' = TRUE
  /\ cur' = 0 /\ wend' = WindowEnd(0)
  /\ status' = "none" /\ calls' = calls + 1
  /\ FreshFences
  /\ UNCHANGED <<stage, queue, done, nextId, waited>>

(* Execute with the minted run id (lines 157-181): the caller's feeds are  *)
(* written into the frame again and the next window is scanned.            *)
ResumePartialRun ==
  /\ phase = "idle" /\ registered /\ calls < MaxCalls
  /\ phase' = "exec" /\ kind' = "partial"
  /\ cur' = pc /\ wend' = WindowEnd(pc)
  /\ status' = "none" /\ calls' = calls + 1
  /\ writer' = [v \in Values |-> IF v \in Feeds THEN 0 ELSE writer[v]]
  /\ UNCHANGED <<pc, stage, registered, event, queue, done, nextId, waited>>

(* Sync before compute (lines 371-401), for a node with a fence.           *)
BeforeCompute ==
  /\ phase = "exec" /\ cur < wend /\ stage = "top"
  /\ IF NodeHasFence(cur) THEN BeforeHooks(cur)
     ELSE UNCHANGED queue /\ waited' = {}
  /\ stage' = "hooked"
  /\ UNCHANGED <<phase, kind, pc, cur, wend, registered, status, calls,
                 writer, event, done, nextId>>

(* Compute succeeds (lines 439-471): a CPU kernel writes its outputs on    *)
(* the host, a device kernel enqueues work that writes them; then the      *)
(* after-hooks (lines 506-525) record the outputs' event.                  *)
ComputeNode ==
  /\ phase = "exec" /\ stage = "hooked"
  /\ LET gpu == Provider[cur] = "gpu"
         w   == [v \in Values |-> IF v \in SlotsOf(Outputs[cur])
                                  THEN IF gpu THEN nextId ELSE 0
                                  ELSE writer[v]]
         it  == [id |-> nextId, waits |-> {},
                 deps |-> {writer[v] : v \in DeviceReads(cur)} \ {0}]
     IN  /\ writer' = w
         /\ queue' = IF gpu THEN [queue EXCEPT ![Queue[cur]] = Append(@, it)]
                     ELSE queue
         /\ nextId' = IF gpu THEN nextId + 1 ELSE nextId
         /\ event' = IF NodeHasFence(cur) THEN RecordOutputs(cur, event, w)
                      ELSE event
  /\ cur' = cur + 1 /\ stage' = "top"
  /\ UNCHANGED <<phase, kind, pc, wend, registered, status, calls, done, waited>>

(* Compute fails (lines 459-471): the call returns the error after the     *)
(* before-hooks and without the after-hooks.                               *)
ComputeFails ==
  /\ phase = "exec" /\ stage = "hooked" /\ Faults
  /\ phase' = "idle" /\ stage' = "top" /\ status' = "failed"
  /\ UNCHANGED <<kind, pc, cur, wend, registered, calls, writer, event,
                 queue, done, nextId, waited>>

(* End of a full run (lines 137-141).                                      *)
FinishFullRun ==
  /\ phase = "exec" /\ kind = "full" /\ cur = wend /\ stage = "top"
  /\ phase' = "idle" /\ status' = "ok"
  /\ UNCHANGED <<kind, pc, cur, wend, stage, registered, calls, writer,
                 event, queue, done, nextId, waited>>

(* End of a partial window (lines 183-246): the fence-only pass on node    *)
(* program_counter_end when it is in the plan and has a fence, then the    *)
(* cursor moves to the window end and the frame is erased at plan end.     *)
FinishPartialRun ==
  /\ phase = "exec" /\ kind = "partial" /\ cur = wend /\ stage = "top"
  /\ IF wend < N /\ NodeHasFence(wend) THEN FenceOnlyPass(wend)
     ELSE UNCHANGED <<queue, waited>>
  /\ pc' = wend /\ registered' = (wend # N)
  /\ phase' = "idle" /\ status' = "ok"
  /\ UNCHANGED <<kind, cur, wend, stage, calls, writer, event, done, nextId>>

(* A device queue runs its first work once the events it waits for have    *)
(* completed.                                                              *)
DeviceRun(q) ==
  /\ queue[q] # << >>
  /\ Ready(Head(queue[q]))
  /\ done' = done \cup {Head(queue[q]).id}
  /\ queue' = [queue EXCEPT ![q] = Tail(@)]
  /\ UNCHANGED <<phase, kind, pc, cur, wend, stage, registered, status, calls,
                 writer, event, nextId, waited>>

ExecutorStep ==
  \/ BeforeCompute \/ ComputeNode \/ ComputeFails
  \/ FinishFullRun \/ FinishPartialRun

Next ==
  \/ StartFullRun \/ StartPartialRun \/ ResumePartialRun
  \/ ExecutorStep
  \/ \E q \in Queues : DeviceRun(q)

Spec == Init /\ [][Next]_vars

-----------------------------------------------------------------------------
(* Properties.                                                             *)

TypeOK ==
  /\ phase \in {"idle", "exec"} /\ kind \in {"full", "partial"}
  /\ stage \in {"top", "hooked"} /\ status \in {"none", "ok", "failed"}
  /\ {pc, cur, wend, calls, nextId} \subseteq Nat
  /\ registered \in BOOLEAN
  /\ writer \in [Values -> Nat] /\ event \in [Values -> Nat]
  /\ queue \in [Queues -> Seq(Item)]
  /\ done \subseteq Nat /\ waited \subseteq Values

(* When a kernel's Compute is invoked, every input it reads on the host    *)
(* (all inputs of a CPU kernel, the OrtMemTypeCPUInput inputs of a device  *)
(* kernel) has been written: the device work that produced it has run.     *)
(* This is what the CPU-identity override of the before-hooks is for.      *)
HostReadsComplete ==
  stage = "hooked" => \A v \in HostReads(cur) : Complete(writer[v])

(* A device queue never starts a kernel's work before the work that wrote  *)
(* its inputs on another queue has run: the event waits the before-hooks   *)
(* insert order it behind them.                                            *)
DeviceReadsComplete ==
  \A q \in Queues :
     (queue[q] # << >> /\ Ready(Head(queue[q])))
        => \A d \in Head(queue[q]).deps : Complete(d)

(* When a partial run returns suspended at a node, the inputs of that node *)
(* (the values the caller fetches) are written: the fence-only pass over   *)
(* program_counter_end has synchronized them (spec 4.3).                   *)
FetchesSynced ==
  (phase = "idle" /\ kind = "partial" /\ status = "ok" /\ registered)
     => \A v \in SlotsOf(Inputs[pc]) \cup SlotsOf(Implicit[pc]) : Complete(writer[v])

(* The before-hooks block the host only on inputs the kernel reads on the  *)
(* host: the CPU identity is used exactly for the inputs the kernel        *)
(* declares in host memory (spec 4.1 step 5).                              *)
HostWaitsOnlyForHostReads == stage = "hooked" => waited \subseteq HostReads(cur)

=============================================================================
