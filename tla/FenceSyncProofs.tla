---------------------------- MODULE FenceSyncProofs ----------------------------
(***************************************************************************)
(* Proofs about the fence protocol for every plan the planner may produce  *)
(* (every value of the constants satisfying FenceAssumption,               *)
(* FencePlacement and PlanOrder).                                          *)
(***************************************************************************)
EXTENDS FenceSync, ExecutionPlanProofs, SequenceTheorems, TLAPS

\* The slots node p reads, on the host or on its queue.
ReadSlots(p) == SlotsOf(Inputs[p]) \cup SlotsOf(Implicit[p])

\* Every slot whose last writer is device work was written by a device node.
WrittenOnDevice ==
  \A v \in Values :
     writer[v] # 0 => \E q \in Positions : Provider[q] = "gpu" /\ v \in SlotsOf(Outputs[q])

\* A fenced slot's fence has recorded the event of the work that last wrote
\* it, unless the host wrote it.
EventsCurrent == \A v \in Fenced : writer[v] \in {0, event[v]}

\* The loop counter and the cursor stay inside the plan.
CountersInPlan ==
  /\ stage = "hooked" => phase = "exec" /\ cur < wend
  /\ phase = "exec" => wend <= N
  /\ registered => pc < N

\* The inductive invariant for HostReadsComplete.
HostInv ==
  /\ TypeOK
  /\ CountersInPlan
  /\ WrittenOnDevice
  /\ EventsCurrent
  /\ HostReadsComplete

-----------------------------------------------------------------------------
(* Lemmas about the hooks a node issues.                                   *)

\* The facts about the constants the proofs below use.
LEMMA FenceConstants ==
  /\ N \in Nat \ {0}
  /\ Feeds \subseteq Values /\ Fenced \subseteq Values
  /\ \A p \in Positions :
        /\ Inputs[p] \in Seq(Values) /\ Implicit[p] \in Seq(Values)
        /\ Outputs[p] \in Seq(Values)
        /\ Provider[p] \in {"cpu", "gpu"} /\ Queue[p] \in Queues
        /\ CpuInput[p] \subseteq Nat
  /\ MaxCalls \in Nat
<1>1. \A p \in Positions : Inputs[p] \in Seq(Values) /\ Implicit[p] \in Seq(Values)
                           /\ Outputs[p] \in Seq(Values)
  <2>1. Inputs \in [Positions -> Seq(Values)] /\ Implicit \in [Positions -> Seq(Values)]
        /\ Outputs \in [Positions -> Seq(Values)]
    BY FenceAssumption, Zenon
  <2>2. QED
    BY <2>1
<1>2. QED
  BY <1>1, PlanAssumption, FenceAssumption

\* The slots of a sequence of slots are slots.
LEMMA SlotsOfValues ==
  ASSUME NEW s \in Seq(Values) PROVE SlotsOf(s) \subseteq Values
BY DEF SlotsOf, Idx

\* A kernel reads on the host only slots it takes as inputs.
LEMMA HostReadsRead ==
  ASSUME NEW p \in Positions PROVE HostReads(p) \subseteq ReadSlots(p)
BY FenceConstants DEF HostReads, ReadSlots, SlotsOf

\* A fenced slot a kernel reads on the host gets a CPU-identity
\* BeforeUsingAsInput: the override of lines 377-380.
LEMMA HostReadUse ==
  ASSUME NEW p \in Positions, NEW v \in HostReads(p), v \in Fenced
  PROVE  \E u \in InputUses(p) : u.slot = v /\ u.ident = "cpu"
<1>1. CASE Provider[p] = "cpu"
  <2>1. CASE v \in SlotsOf(Inputs[p])
    <3>1. PICK i \in Idx(Inputs[p]) : Inputs[p][i + 1] = v
      BY <2>1 DEF SlotsOf
    <3>2. [slot |-> v, ident |-> InputIdentity(p, i)] \in InputUses(p)
      BY <3>1 DEF InputUses
    <3>3. QED
      BY <1>1, <3>2 DEF InputIdentity
  <2>2. CASE v \in SlotsOf(Implicit[p])
    <3>1. PICK i \in Idx(Implicit[p]) : Implicit[p][i + 1] = v
      BY <2>2 DEF SlotsOf
    <3>2. [slot |-> v, ident |-> InputIdentity(p, i)] \in InputUses(p)
      BY <3>1 DEF InputUses
    <3>3. QED
      BY <1>1, <3>2 DEF InputIdentity
  <2>3. QED
    BY <1>1, <2>1, <2>2 DEF HostReads
<1>2. CASE Provider[p] # "cpu"
  <2>1. PICK i \in Idx(Inputs[p]) \cap CpuInput[p] : Inputs[p][i + 1] = v
    BY <1>2 DEF HostReads
  <2>2. [slot |-> v, ident |-> InputIdentity(p, i)] \in InputUses(p)
    BY <2>1 DEF InputUses
  <2>3. QED
    BY <2>1, <2>2 DEF InputIdentity
<1>3. QED
  BY <1>1, <1>2

\* The planner fences every slot a device node writes and a later kernel
\* reads on the host, and the plan order makes every writer of a slot a
\* node reads come before it: a device-written host read is fenced.
LEMMA DeviceWrittenHostReadFenced ==
  ASSUME NEW p \in Positions, NEW v \in HostReads(p),
         NEW q \in Positions, Provider[q] = "gpu", v \in SlotsOf(Outputs[q])
  PROVE  v \in Fenced
<1>1. q < p
  BY HostReadsRead, PlanOrder DEF ReadSlots
<1>2. QED
  BY <1>1, FencePlacement

\* The slots of InputUses are the node's input slots.
LEMMA InputUsesSlots ==
  ASSUME NEW p \in Positions
  PROVE  \A u \in InputUses(p) : u.slot \in Values
<1>1. Inputs[p] \in Seq(Values) /\ Implicit[p] \in Seq(Values)
  BY FenceConstants
<1>2. QED
  BY <1>1 DEF InputUses, Idx

\* The before-hooks of a node in the plan keep the queues and the waited
\* slots well typed.
LEMMA BeforeHooksType ==
  ASSUME NEW p \in Positions, TypeOK, BeforeHooks(p)
  PROVE  /\ queue' \in [Queues -> Seq(Item)]
         /\ waited' \subseteq Values
<1> DEFINE devw == {event[u.slot] : u \in {w \in InputUses(p) : w.ident # "cpu"}} \ {0}
<1>1. devw \subseteq Nat
  BY InputUsesSlots DEF TypeOK
<1>2. [id |-> 0, waits |-> devw, deps |-> {}] \in Item
  BY <1>1 DEF Item
<1>3. Queue[p] \in Queues
  BY FenceConstants
<1>4. queue' \in [Queues -> Seq(Item)]
  <2>1. CASE devw = {}
    BY <2>1 DEF BeforeHooks, TypeOK
  <2>2. CASE devw # {}
    <3>1. queue' = [queue EXCEPT ![Queue[p]] =
                      Append(@, [id |-> 0, waits |-> devw, deps |-> {}])]
      BY <2>2 DEF BeforeHooks
    <3>2. queue[Queue[p]] \in Seq(Item)
      BY <1>3 DEF TypeOK
    <3>3. QED
      BY <1>2, <1>3, <3>1, <3>2 DEF TypeOK
  <2>3. QED
    BY <2>1, <2>2
<1>5. QED
  BY <1>4, InputUsesSlots DEF BeforeHooks, TypeOK

-----------------------------------------------------------------------------
(* Type correctness.                                                       *)

LEMMA CountersInit == Init => TypeOK /\ CountersInPlan
<1> SUFFICES ASSUME Init PROVE TypeOK /\ CountersInPlan
  OBVIOUS
<1>1. queue \in [Queues -> Seq(Item)]
  BY DEF Init
<1>2. writer \in [Values -> Nat] /\ event \in [Values -> Nat]
  BY DEF Init
<1>3. {pc, cur, wend, calls, nextId} \subseteq Nat
  BY DEF Init
<1>4. QED
  BY <1>1, <1>2, <1>3 DEF Init, TypeOK, CountersInPlan

\* The counters stay inside the plan: the window scan ends inside it and
\* the frame is erased when its cursor reaches the end.
LEMMA CountersNext ==
  TypeOK /\ CountersInPlan /\ [Next]_vars => CountersInPlan'
<1> SUFFICES ASSUME TypeOK, CountersInPlan, [Next]_vars PROVE CountersInPlan'
  OBVIOUS
<1>0. N \in Nat \ {0}
  BY FenceConstants
<1>1. CASE StartPartialRun
  <2>1. 0 \in Positions
    BY <1>0 DEF Positions
  <2>2. WindowEnd(0) \in 1 .. N
    BY <2>1, WindowEndInPlan
  <2>3. QED
    BY <1>0, <1>1, <2>2 DEF StartPartialRun, CountersInPlan
<1>2. CASE ResumePartialRun
  <2>1. pc \in Positions
    BY <1>0, <1>2 DEF ResumePartialRun, CountersInPlan, TypeOK, Positions
  <2>2. WindowEnd(pc) \in (pc + 1) .. N
    BY <2>1, WindowEndInPlan
  <2>3. QED
    BY <1>2, <2>2 DEF ResumePartialRun, CountersInPlan
<1>3. CASE FinishPartialRun
  <2>1. /\ pc' = wend /\ (registered' => wend # N) /\ phase = "exec"
        /\ phase' = "idle" /\ stage' = "top"
    BY <1>3, Zenon DEF FinishPartialRun
  <2>2. wend \in Nat /\ wend <= N
    BY <2>1 DEF CountersInPlan, TypeOK
  <2>3. QED
    BY <1>0, <2>1, <2>2 DEF CountersInPlan
<1>4. CASE ComputeNode
  BY <1>4 DEF ComputeNode, CountersInPlan, TypeOK
<1>5. QED
  BY <1>0, <1>1, <1>2, <1>3, <1>4
  DEF Next, ExecutorStep, StartFullRun, BeforeCompute, ComputeFails,
      FinishFullRun, DeviceRun, CountersInPlan, vars

\* Every step keeps the state well typed.
LEMMA TypeNext ==
  TypeOK /\ CountersInPlan /\ [Next]_vars => TypeOK'
<1> SUFFICES ASSUME TypeOK, CountersInPlan, [Next]_vars PROVE TypeOK'
  OBVIOUS
<1>0. N \in Nat \ {0}
  BY FenceConstants
<1>1. CASE StartFullRun \/ StartPartialRun
  <2>1. {pc', cur', wend', calls', nextId'} \subseteq Nat
    <3>1. 0 \in Positions
      BY <1>0 DEF Positions
    <3>2. WindowEnd(0) \in Nat
      BY <1>0, <3>1, WindowEndInPlan
    <3>3. QED
      BY <1>0, <1>1, <3>2 DEF StartFullRun, StartPartialRun, TypeOK
  <2>2. /\ writer' \in [Values -> Nat] /\ event' \in [Values -> Nat]
    BY <1>1 DEF StartFullRun, StartPartialRun, FreshFences
  <2>3. QED
    BY <1>1, <2>1, <2>2 DEF StartFullRun, StartPartialRun, TypeOK
<1>2. CASE ResumePartialRun
  <2>1. {pc', cur', wend', calls', nextId'} \subseteq Nat
    <3>1. pc \in Positions
      BY <1>0, <1>2 DEF ResumePartialRun, CountersInPlan, TypeOK, Positions
    <3>2. WindowEnd(pc) \in Nat
      BY <1>0, <3>1, WindowEndInPlan DEF Positions
    <3>3. QED
      BY <1>2, <3>2 DEF ResumePartialRun, TypeOK
  <2>2. QED
    BY <1>2, <2>1 DEF ResumePartialRun, TypeOK
<1>3. CASE BeforeCompute
  <2>1. cur \in Positions
    BY <1>0, <1>3 DEF BeforeCompute, CountersInPlan, TypeOK, Positions
  <2>2. CASE NodeHasFence(cur)
    BY <1>3, <2>1, <2>2, BeforeHooksType DEF BeforeCompute, TypeOK
  <2>3. CASE ~NodeHasFence(cur)
    BY <1>3, <2>3 DEF BeforeCompute, TypeOK
  <2>4. QED
    BY <2>2, <2>3
<1>4. CASE ComputeNode
  <2>1. cur \in Positions
    BY <1>0, <1>4 DEF ComputeNode, CountersInPlan, TypeOK, Positions
  <2>2. DeviceReads(cur) \subseteq Values
    <3>1. Inputs[cur] \in Seq(Values) /\ Implicit[cur] \in Seq(Values)
      BY <2>1, FenceConstants
    <3>2. QED
      BY <3>1 DEF DeviceReads, SlotsOf, Idx
  <2> DEFINE gpu == Provider[cur] = "gpu"
             w   == [v \in Values |-> IF v \in SlotsOf(Outputs[cur])
                                      THEN IF gpu THEN nextId ELSE 0
                                      ELSE writer[v]]
             it  == [id |-> nextId, waits |-> {},
                     deps |-> {writer[v] : v \in DeviceReads(cur)} \ {0}]
  <2>3. w \in [Values -> Nat] /\ it \in Item
    BY <2>2 DEF TypeOK, Item
  <2>4. /\ writer' = w
        /\ queue' = IF gpu THEN [queue EXCEPT ![Queue[cur]] = Append(@, it)]
                    ELSE queue
        /\ nextId' = IF gpu THEN nextId + 1 ELSE nextId
        /\ event' = IF NodeHasFence(cur) THEN RecordOutputs(cur, event, w)
                     ELSE event
    BY <1>4, Zenon DEF ComputeNode
  <2>5. queue' \in [Queues -> Seq(Item)]
    <3>1. Queue[cur] \in Queues
      BY <2>1, FenceConstants
    <3>2. QED
      BY <2>3, <2>4, <3>1 DEF TypeOK
  <2>6. event' \in [Values -> Nat]
    BY <2>3, <2>4 DEF RecordOutputs, TypeOK
  <2>7. nextId' \in Nat /\ cur' \in Nat
    BY <1>4, <2>4 DEF ComputeNode, TypeOK
  <2>8. QED
    BY <1>4, <2>3, <2>4, <2>5, <2>6, <2>7 DEF ComputeNode, TypeOK
<1>5. CASE FinishPartialRun
  <2>1. CASE wend < N /\ NodeHasFence(wend)
    <3>1. wend \in Positions
      BY <1>0, <1>5, <2>1 DEF FinishPartialRun, TypeOK, Positions
    <3>2. BeforeHooks(wend)
      BY <1>5, <2>1, Zenon DEF FinishPartialRun, FenceOnlyPass
    <3>3. QED
      BY <1>5, <3>1, <3>2, BeforeHooksType DEF FinishPartialRun, TypeOK
  <2>2. CASE ~(wend < N /\ NodeHasFence(wend))
    BY <1>5, <2>2 DEF FinishPartialRun, TypeOK
  <2>3. QED
    BY <2>1, <2>2
<1>6. ASSUME NEW q \in Queues, DeviceRun(q) PROVE TypeOK'
  <2>1. Head(queue[q]) \in Item /\ Tail(queue[q]) \in Seq(Item)
    BY <1>6 DEF DeviceRun, TypeOK
  <2>2. QED
    BY <1>6, <2>1 DEF DeviceRun, TypeOK, Item
<1>7. QED
  BY <1>1, <1>2, <1>3, <1>4, <1>5, <1>6
  DEF Next, ExecutorStep, ComputeFails, FinishFullRun, TypeOK, vars

(* The FenceSync model is well typed for every plan.                      *)
THEOREM FenceTypeCorrect == Spec => []TypeOK
<1>1. Spec => [](TypeOK /\ CountersInPlan)
  BY CountersInit, CountersNext, TypeNext, PTL DEF Spec
<1>2. QED
  BY <1>1, PTL

-----------------------------------------------------------------------------
(* Host reads.                                                             *)

\* The slots a node in the plan reads are slots.
LEMMA ReadSlotsValues ==
  ASSUME NEW p \in Positions PROVE ReadSlots(p) \subseteq Values
BY FenceConstants, SlotsOfValues DEF ReadSlots

\* Once the CPU-identity before-hooks of a node in the plan have returned,
\* every slot the kernel reads on the host has been written: an unfenced
\* one by the host, since the planner fences what device work writes and
\* the host reads; a fenced one by work whose event the hook waited for.
LEMMA HostReadsSettled ==
  ASSUME TypeOK, WrittenOnDevice, EventsCurrent, NEW p \in Positions,
         NodeHasFence(p) =>
            \A u \in {w \in InputUses(p) : w.ident = "cpu"} : Complete(event[u.slot])
  PROVE  \A v \in HostReads(p) : Complete(writer[v])
<1> SUFFICES ASSUME NEW v \in HostReads(p) PROVE Complete(writer[v])
  OBVIOUS
<1>1. v \in Values /\ v \in ReadSlots(p)
  BY HostReadsRead, ReadSlotsValues
<1>2. CASE v \notin Fenced
  <2>1. writer[v] = 0
    <3>1. SUFFICES ASSUME writer[v] # 0 PROVE FALSE
      OBVIOUS
    <3>2. PICK q \in Positions : Provider[q] = "gpu" /\ v \in SlotsOf(Outputs[q])
      BY <1>1, <3>1 DEF WrittenOnDevice
    <3>3. QED
      BY <1>2, <3>2, DeviceWrittenHostReadFenced
  <2>2. QED
    BY <2>1 DEF Complete
<1>3. CASE v \in Fenced
  <2>1. NodeHasFence(p)
    BY <1>1, <1>3 DEF NodeHasFence, Touched, ReadSlots
  <2>2. Complete(event[v])
    BY <1>3, <2>1, HostReadUse
  <2>3. writer[v] \in {0, event[v]}
    BY <1>3 DEF EventsCurrent
  <2>4. QED
    BY <2>2, <2>3 DEF Complete
<1>4. QED
  BY <1>2, <1>3

\* After the before-hooks of the node at the loop counter, every slot the
\* kernel reads on the host has been written.
LEMMA HostReadsAtHook ==
  ASSUME TypeOK, CountersInPlan, WrittenOnDevice, EventsCurrent, BeforeCompute
  PROVE  HostReadsComplete'
<1>1. cur \in Positions
  <2>1. N \in Nat
    BY FenceConstants
  <2>2. QED
    BY <2>1 DEF BeforeCompute, CountersInPlan, TypeOK, Positions
<1>2. /\ writer' = writer /\ cur' = cur /\ done' = done /\ stage' = "hooked"
  BY DEF BeforeCompute
<1>3. NodeHasFence(cur) =>
        \A u \in {w \in InputUses(cur) : w.ident = "cpu"} : Complete(event[u.slot])
  BY DEF BeforeCompute, BeforeHooks
<1>4. \A v \in HostReads(cur) : Complete(writer[v])
  BY <1>1, <1>3, HostReadsSettled
<1>5. QED
  BY <1>2, <1>4 DEF HostReadsComplete, Complete

\* The output hooks record the event of the work that wrote each fenced
\* output, so a fenced slot's event always names its last writer.
LEMMA EventsNext ==
  TypeOK /\ CountersInPlan /\ EventsCurrent /\ [Next]_vars => EventsCurrent'
<1> SUFFICES ASSUME TypeOK, CountersInPlan, EventsCurrent, [Next]_vars
             PROVE  EventsCurrent'
  OBVIOUS
<1>0. Fenced \subseteq Values
  BY FenceConstants
<1>1. CASE StartFullRun \/ StartPartialRun
  BY <1>0, <1>1 DEF StartFullRun, StartPartialRun, FreshFences, EventsCurrent
<1>2. CASE ResumePartialRun
  BY <1>0, <1>2 DEF ResumePartialRun, EventsCurrent
<1>3. CASE ComputeNode
  <2> DEFINE gpu == Provider[cur] = "gpu"
             w   == [v \in Values |-> IF v \in SlotsOf(Outputs[cur])
                                      THEN IF gpu THEN nextId ELSE 0
                                      ELSE writer[v]]
  <2>1. /\ writer' = w
        /\ IF NodeHasFence(cur)
           THEN event' = RecordOutputs(cur, event, w)
           ELSE event' = event
    BY <1>3, Zenon DEF ComputeNode
  <2>2. CASE NodeHasFence(cur)
    BY <1>0, <2>1, <2>2 DEF EventsCurrent, RecordOutputs, TypeOK
  <2>3. CASE ~NodeHasFence(cur)
    <3>1. \A v \in Fenced : v \notin SlotsOf(Outputs[cur])
      BY <2>3 DEF NodeHasFence, Touched
    <3>2. QED
      BY <1>0, <2>1, <2>3, <3>1 DEF EventsCurrent, TypeOK
  <2>4. QED
    BY <2>2, <2>3
<1>4. CASE BeforeCompute \/ ComputeFails \/ FinishFullRun \/ FinishPartialRun
          \/ \E q \in Queues : DeviceRun(q)
  <2>1. UNCHANGED <<writer, event>>
    BY <1>4 DEF BeforeCompute, ComputeFails, FinishFullRun, FinishPartialRun,
       DeviceRun
  <2>2. QED
    BY <2>1 DEF EventsCurrent
<1>5. CASE UNCHANGED vars
  BY <1>5 DEF vars, EventsCurrent
<1>6. QED
  BY <1>1, <1>2, <1>3, <1>4, <1>5 DEF Next, ExecutorStep

LEMMA HostInvInit == Init => HostInv
BY CountersInit DEF Init, HostInv, WrittenOnDevice, EventsCurrent,
   HostReadsComplete

\* Every step keeps the writers, the recorded events and the host reads
\* consistent.
LEMMA HostInvNext == HostInv /\ [Next]_vars => HostInv'
<1> SUFFICES ASSUME HostInv, [Next]_vars PROVE HostInv'
  OBVIOUS
<1>0. TypeOK' /\ CountersInPlan' /\ EventsCurrent'
  BY TypeNext, CountersNext, EventsNext DEF HostInv
<1> USE DEF HostInv
\* Outside an Execute call no hooks are pending.
<1>1. phase = "idle" => stage = "top"
  BY DEF CountersInPlan, TypeOK
<1>2. CASE StartFullRun \/ StartPartialRun
  <2>1. /\ writer' = [v \in Values |-> 0] /\ stage' = stage /\ phase = "idle"
    BY <1>2 DEF StartFullRun, StartPartialRun, FreshFences
  <2>2. stage' = "top"
    BY <1>1, <2>1
  <2>3. QED
    BY <1>0, <2>1, <2>2 DEF WrittenOnDevice, HostReadsComplete
<1>3. CASE ResumePartialRun
  <2>1. /\ \A v \in Values : writer'[v] = 0 \/ writer'[v] = writer[v]
        /\ stage' = stage /\ phase = "idle"
    BY <1>3 DEF ResumePartialRun
  <2>2. stage' = "top"
    BY <1>1, <2>1
  <2>3. WrittenOnDevice'
    BY <2>1 DEF WrittenOnDevice
  <2>4. QED
    BY <1>0, <2>2, <2>3 DEF HostReadsComplete
<1>4. CASE BeforeCompute
  BY <1>0, <1>4, HostReadsAtHook DEF BeforeCompute, WrittenOnDevice
<1>5. CASE ComputeNode
  <2>0. cur \in Positions
    <3>1. N \in Nat
      BY FenceConstants
    <3>2. QED
      BY <1>5, <3>1 DEF ComputeNode, CountersInPlan, TypeOK, Positions
  <2>1. /\ writer' = [v \in Values |-> IF v \in SlotsOf(Outputs[cur])
                                       THEN IF Provider[cur] = "gpu"
                                            THEN nextId ELSE 0
                                       ELSE writer[v]]
        /\ stage' = "top"
    BY <1>5, Zenon DEF ComputeNode
  <2>2. WrittenOnDevice'
    BY <2>0, <2>1 DEF WrittenOnDevice
  <2>3. QED
    BY <2>1, <2>2, <1>0 DEF HostReadsComplete
<1>6. CASE ComputeFails \/ FinishFullRun \/ FinishPartialRun
  <2>1. UNCHANGED writer /\ stage' = "top"
    BY <1>6 DEF ComputeFails, FinishFullRun, FinishPartialRun
  <2>2. QED
    BY <1>0, <2>1 DEF WrittenOnDevice, HostReadsComplete
<1>7. ASSUME NEW q \in Queues, DeviceRun(q) PROVE HostInv'
  <2>1. /\ UNCHANGED <<writer, stage, cur>>
        /\ done \subseteq done'
    BY <1>7 DEF DeviceRun
  <2>2. QED
    BY <1>0, <2>1 DEF WrittenOnDevice, HostReadsComplete, Complete
<1>8. CASE UNCHANGED vars
  BY <1>0, <1>8 DEF vars, WrittenOnDevice, HostReadsComplete, Complete
<1>9. QED
  BY <1>2, <1>3, <1>4, <1>5, <1>6, <1>7, <1>8 DEF Next, ExecutorStep

(* Spec 3 and 4.1 step 5: for every plan the planner may produce, when a   *)
(* kernel's Compute is invoked every slot it reads on the host has been    *)
(* written, by the host or by device work that has run: the CPU-identity   *)
(* override of BeforeUsingAsInput (lines 377-390) blocks on exactly the    *)
(* fenced host reads, even across windows retried after a failed kernel.   *)
THEOREM HostReadsSynced == Spec => []HostReadsComplete
<1>1. Spec => []HostInv
  BY HostInvInit, HostInvNext, PTL DEF Spec
<1>2. QED
  BY <1>1, PTL DEF HostInv

-----------------------------------------------------------------------------
(* Device reads.                                                           *)

\* Work id d is on queue q at an index before i, or an event wait before i
\* waits for it.
AheadOn(q, i, d) ==
  \E j \in 1 .. (i - 1) : queue[q][j].id = d \/ d \in queue[q][j].waits

\* Every dependency of queued work has run, or runs before it on its queue.
QueuedDeps ==
  \A q \in Queues : \A i \in 1 .. Len(queue[q]) :
     \A d \in queue[q][i].deps : Complete(d) \/ AheadOn(q, i, d)

\* The device work that last wrote a slot was enqueued by a device node that
\* writes it, on that node's queue, and has run or is still queued there.
WriterQueued(v) ==
  writer[v] # 0 =>
     \E p \in Positions :
        /\ Provider[p] = "gpu" /\ v \in SlotsOf(Outputs[p])
        /\ \/ Complete(writer[v])
           \/ \E k \in 1 .. Len(queue[Queue[p]]) : queue[Queue[p]][k].id = writer[v]

WritersQueued == \A v \in Values : WriterQueued(v)

\* After the before-hooks, every fenced slot the node's device work reads
\* has its recorded event complete or waited for on the node's queue.
HookedWaits ==
  stage = "hooked" =>
     \A v \in DeviceReads(cur) \cap Fenced :
        \/ Complete(event[v])
        \/ \E k \in 1 .. Len(queue[Queue[cur]]) : event[v] \in queue[Queue[cur]][k].waits

\* The inductive invariant for DeviceReadsComplete.
DeviceInv ==
  /\ TypeOK
  /\ CountersInPlan
  /\ EventsCurrent
  /\ WritersQueued
  /\ HookedWaits
  /\ QueuedDeps

\* The queues only grow at their ends: every queued work keeps its index.
QueuesGrow ==
  /\ queue' \in [Queues -> Seq(Item)]
  /\ \A q \in Queues :
        /\ Len(queue[q]) <= Len(queue'[q])
        /\ \A j \in 1 .. Len(queue[q]) : queue'[q][j] = queue[q][j]

\* Appending work to one queue makes the queues grow.
LEMMA AppendGrows ==
  ASSUME TypeOK, NEW r \in Queues, NEW x \in Item,
         queue' = [queue EXCEPT ![r] = Append(@, x)]
  PROVE  /\ QueuesGrow
         /\ Len(queue'[r]) = Len(queue[r]) + 1 /\ queue'[r][Len(queue'[r])] = x
         /\ \A q \in Queues \ {r} : queue'[q] = queue[q]
BY DEF QueuesGrow, TypeOK

\* Work already queued keeps its dependencies covered when the queues grow
\* and more work completes; so does new work whose dependencies are covered.
LEMMA DepsWhenGrowing ==
  ASSUME TypeOK, QueuedDeps, QueuesGrow, done \subseteq done',
         \A q \in Queues : \A i \in (Len(queue[q]) + 1) .. Len(queue'[q]) :
            \A d \in queue'[q][i].deps : Complete(d)' \/ AheadOn(q, i, d)'
  PROVE  QueuedDeps'
<1> SUFFICES ASSUME NEW q \in Queues, NEW i \in 1 .. Len(queue'[q]),
                    NEW d \in queue'[q][i].deps
             PROVE  Complete(d)' \/ AheadOn(q, i, d)'
  BY DEF QueuedDeps
<1>1. CASE i \in (Len(queue[q]) + 1) .. Len(queue'[q])
  BY <1>1
<1>2. CASE i \in 1 .. Len(queue[q])
  <2>1. queue'[q][i] = queue[q][i]
    BY <1>2 DEF QueuesGrow
  <2>2. Complete(d) \/ AheadOn(q, i, d)
    BY <1>2, <2>1 DEF QueuedDeps
  <2>3. Complete(d) => Complete(d)'
    BY DEF Complete
  <2>4. AheadOn(q, i, d) => AheadOn(q, i, d)'
    <3>1. SUFFICES ASSUME NEW j \in 1 .. (i - 1),
                          queue[q][j].id = d \/ d \in queue[q][j].waits
                   PROVE  AheadOn(q, i, d)'
      BY DEF AheadOn
    <3>2. j \in 1 .. Len(queue[q])
      BY <1>2 DEF TypeOK
    <3>3. queue'[q][j] = queue[q][j]
      BY <3>2 DEF QueuesGrow
    <3>4. QED
      BY <3>1, <3>3 DEF AheadOn
  <2>5. QED
    BY <2>2, <2>3, <2>4
<1>3. QED
  BY <1>1, <1>2 DEF QueuesGrow, TypeOK

\* A device queue runs its first work: everything behind it moves up one
\* index, and what the first work waited for has completed.
LEMMA DepsWhenRunning ==
  ASSUME TypeOK, QueuedDeps, NEW r \in Queues, DeviceRun(r)
  PROVE  QueuedDeps'
<1>1. /\ queue[r] # << >> /\ Ready(Head(queue[r]))
      /\ done' = done \cup {Head(queue[r]).id}
      /\ queue' = [queue EXCEPT ![r] = Tail(@)]
  BY DEF DeviceRun
<1> SUFFICES ASSUME NEW q \in Queues, NEW i \in 1 .. Len(queue'[q]),
                    NEW d \in queue'[q][i].deps
             PROVE  Complete(d)' \/ AheadOn(q, i, d)'
  BY DEF QueuedDeps
<1>2. CASE q # r
  <2>1. queue'[q] = queue[q]
    BY <1>1, <1>2 DEF TypeOK
  <2>2. QED
    BY <1>1, <2>1 DEF QueuedDeps, Complete, AheadOn
<1>3. CASE q = r
  <2>1. /\ Len(queue'[r]) = Len(queue[r]) - 1
        /\ \A j \in 1 .. Len(queue'[r]) : queue'[r][j] = queue[r][j + 1]
        /\ Head(queue[r]) = queue[r][1]
    BY <1>1 DEF TypeOK
  <2>2. Complete(d) \/ AheadOn(r, i + 1, d)
    <3>1. Len(queue[r]) \in Nat /\ i \in 1 .. Len(queue'[r])
      BY <1>3 DEF TypeOK
    <3>2. i + 1 \in 1 .. Len(queue[r]) /\ d \in queue[r][i + 1].deps
      BY <1>3, <2>1, <3>1
    <3>3. QED
      BY <3>2 DEF QueuedDeps, TypeOK
  <2>3. CASE Complete(d)
    BY <1>1, <2>3 DEF Complete
  <2>4. CASE AheadOn(r, i + 1, d)
    <3>1. PICK j \in 1 .. i : queue[r][j].id = d \/ d \in queue[r][j].waits
      BY <2>4 DEF AheadOn
    <3>2. CASE j = 1
      <4>1. d = Head(queue[r]).id \/ d \in Head(queue[r]).waits
        BY <2>1, <3>1, <3>2
      <4>2. QED
        BY <1>1, <4>1 DEF Ready, Complete
    <3>3. CASE j # 1
      <4>1. Len(queue[r]) \in Nat /\ i \in 1 .. Len(queue'[r])
        BY <1>3 DEF TypeOK
      <4>2. j - 1 \in 1 .. (i - 1) /\ j - 1 \in 1 .. Len(queue'[r])
        BY <2>1, <3>3, <4>1
      <4>3. queue'[r][j - 1] = queue[r][j]
        BY <2>1, <4>2
      <4>4. QED
        BY <1>3, <3>1, <4>2, <4>3 DEF AheadOn
    <3>4. QED
      BY <3>2, <3>3
  <2>5. QED
    BY <2>2, <2>3, <2>4
<1>4. QED
  BY <1>2, <1>3

\* A device kernel's work reads only slots the node takes as inputs.
LEMMA DeviceReadsRead ==
  ASSUME NEW p \in Positions PROVE DeviceReads(p) \subseteq ReadSlots(p)
BY FenceConstants DEF DeviceReads, ReadSlots, SlotsOf

\* Every fenced slot a device kernel's work reads gets a BeforeUsingAsInput.
LEMMA DeviceReadUse ==
  ASSUME NEW p \in Positions, NEW v \in DeviceReads(p), v \in Fenced
  PROVE  \E u \in InputUses(p) : u.slot = v
<1>1. CASE v \in SlotsOf(Implicit[p])
  <2>1. PICK i \in Idx(Implicit[p]) : Implicit[p][i + 1] = v
    BY <1>1 DEF SlotsOf
  <2>2. [slot |-> v, ident |-> InputIdentity(p, i)] \in InputUses(p)
    BY <2>1 DEF InputUses
  <2>3. QED
    BY <2>2
<1>2. CASE v \notin SlotsOf(Implicit[p])
  <2>1. PICK i \in Idx(Inputs[p]) \ CpuInput[p] : Inputs[p][i + 1] = v
    BY <1>2 DEF DeviceReads
  <2>2. [slot |-> v, ident |-> InputIdentity(p, i)] \in InputUses(p)
    BY <2>1 DEF InputUses
  <2>3. QED
    BY <2>2
<1>3. QED
  BY <1>1, <1>2

\* The before-hooks of node p leave every fenced slot its device work reads
\* waited for: the host has waited for its event, or the event is complete,
\* or p's queue holds an event wait for it.
LEMMA HooksWait ==
  ASSUME TypeOK, NEW p \in Positions, BeforeHooks(p)
  PROVE  \A v \in DeviceReads(p) \cap Fenced :
            \/ Complete(event[v])
            \/ \E k \in 1 .. Len(queue'[Queue[p]]) : event[v] \in queue'[Queue[p]][k].waits
<1> DEFINE devw == {event[u.slot] : u \in {w \in InputUses(p) : w.ident # "cpu"}} \ {0}
<1> SUFFICES ASSUME NEW v \in DeviceReads(p) \cap Fenced, ~Complete(event[v])
             PROVE  \E k \in 1 .. Len(queue'[Queue[p]]) : event[v] \in queue'[Queue[p]][k].waits
  OBVIOUS
<1>1. PICK u \in InputUses(p) : u.slot = v
  BY DeviceReadUse
<1>2. u.ident # "cpu"
  BY <1>1 DEF BeforeHooks
<1>3. event[v] \in devw
  BY <1>1, <1>2 DEF Complete
<1>4. Queue[p] \in Queues
  BY FenceConstants
<1>5. queue' = [queue EXCEPT ![Queue[p]] =
                  Append(@, [id |-> 0, waits |-> devw, deps |-> {}])]
  BY <1>3 DEF BeforeHooks
<1>6. /\ Len(queue'[Queue[p]]) = Len(queue[Queue[p]]) + 1
      /\ queue'[Queue[p]][Len(queue[Queue[p]]) + 1].waits = devw
      /\ Len(queue[Queue[p]]) \in Nat
  BY <1>4, <1>5 DEF TypeOK
<1>7. Len(queue[Queue[p]]) + 1 \in 1 .. Len(queue'[Queue[p]])
  BY <1>6
<1>8. event[v] \in queue'[Queue[p]][Len(queue[Queue[p]]) + 1].waits
  BY <1>3, <1>6
<1>9. QED
  BY <1>7, <1>8

\* A slot's writer stays queued or complete while the queues grow.
LEMMA WriterWhenGrowing ==
  ASSUME TypeOK, QueuesGrow, done \subseteq done',
         NEW v \in Values, WriterQueued(v), writer'[v] = writer[v]
  PROVE  WriterQueued(v)'
<1> SUFFICES ASSUME writer[v] # 0
             PROVE  \E p \in Positions :
                      /\ Provider[p] = "gpu" /\ v \in SlotsOf(Outputs[p])
                      /\ \/ Complete(writer[v])'
                         \/ \E k \in 1 .. Len(queue'[Queue[p]]) :
                               queue'[Queue[p]][k].id = writer'[v]
  BY DEF WriterQueued
<1>1. PICK p \in Positions :
        /\ Provider[p] = "gpu" /\ v \in SlotsOf(Outputs[p])
        /\ \/ Complete(writer[v])
           \/ \E k \in 1 .. Len(queue[Queue[p]]) : queue[Queue[p]][k].id = writer[v]
  BY DEF WriterQueued
<1>2. Queue[p] \in Queues
  BY FenceConstants
<1>3. CASE Complete(writer[v])
  BY <1>1, <1>3 DEF Complete
<1>4. CASE \E k \in 1 .. Len(queue[Queue[p]]) : queue[Queue[p]][k].id = writer[v]
  <2>1. PICK k \in 1 .. Len(queue[Queue[p]]) : queue[Queue[p]][k].id = writer[v]
    BY <1>4
  <2>2. k \in 1 .. Len(queue'[Queue[p]]) /\ queue'[Queue[p]][k] = queue[Queue[p]][k]
    BY <1>2, <2>1 DEF QueuesGrow, TypeOK
  <2>3. QED
    BY <1>1, <2>1, <2>2
<1>5. QED
  BY <1>1, <1>3, <1>4

\* The before-hooks only append an event wait, which depends on nothing.
LEMMA BeforeHooksGrow ==
  ASSUME TypeOK, NEW p \in Positions, BeforeHooks(p)
  PROVE  /\ QueuesGrow
         /\ \A q \in Queues : \A i \in (Len(queue[q]) + 1) .. Len(queue'[q]) :
               queue'[q][i].deps = {}
<1> DEFINE devw == {event[u.slot] : u \in {w \in InputUses(p) : w.ident # "cpu"}} \ {0}
           x == [id |-> 0, waits |-> devw, deps |-> {}]
<1>1. CASE devw = {}
  BY <1>1 DEF BeforeHooks, QueuesGrow, TypeOK
<1>2. CASE devw # {}
  <2>1. queue' = [queue EXCEPT ![Queue[p]] = Append(@, x)]
    BY <1>2 DEF BeforeHooks
  <2>2. x \in Item /\ Queue[p] \in Queues
    BY InputUsesSlots, FenceConstants DEF TypeOK, Item
  <2>3. /\ QueuesGrow
        /\ Len(queue'[Queue[p]]) = Len(queue[Queue[p]]) + 1
        /\ queue'[Queue[p]][Len(queue'[Queue[p]])] = x
        /\ \A q \in Queues \ {Queue[p]} : queue'[q] = queue[q]
    BY <2>1, <2>2, AppendGrows
  <2>4. ASSUME NEW q \in Queues, NEW i \in (Len(queue[q]) + 1) .. Len(queue'[q])
        PROVE  queue'[q][i] = x
    <3>1. Len(queue[q]) \in Nat /\ Len(queue[Queue[p]]) \in Nat
      BY <2>2 DEF TypeOK
    <3>2. CASE q = Queue[p]
      <4>1. i = Len(queue'[Queue[p]])
        BY <2>3, <3>1, <3>2
      <4>2. QED
        BY <2>3, <3>2, <4>1
    <3>3. CASE q # Queue[p]
      <4>1. Len(queue'[q]) = Len(queue[q])
        BY <2>3, <3>3
      <4>2. QED
        BY <3>1, <4>1
    <3>4. QED
      BY <3>2, <3>3
  <2>5. QED
    BY <2>3, <2>4
<1>3. QED
  BY <1>1, <1>2

\* When a queue runs its first work, every other queued work stays queued;
\* the first is done, and what it waited for is complete.
LEMMA RunKeeps ==
  ASSUME TypeOK, NEW r \in Queues, DeviceRun(r),
         NEW q \in Queues, NEW k \in 1 .. Len(queue[q])
  PROVE  \/ /\ q = r /\ k = 1 /\ queue[q][k].id \in done'
            /\ \A e \in queue[q][k].waits : Complete(e)'
         \/ \E j \in 1 .. Len(queue'[q]) : queue'[q][j] = queue[q][k]
<1>1. /\ queue[r] # << >> /\ Ready(Head(queue[r]))
      /\ done' = done \cup {Head(queue[r]).id}
      /\ queue' = [queue EXCEPT ![r] = Tail(@)]
  BY DEF DeviceRun
<1>2. CASE q # r
  BY <1>1, <1>2 DEF TypeOK
<1>3. CASE q = r /\ k = 1
  BY <1>1, <1>3 DEF Ready, Complete, TypeOK
<1>4. CASE q = r /\ k # 1
  <2>1. k - 1 \in 1 .. Len(queue'[q]) /\ queue'[q][k - 1] = queue[q][k]
    BY <1>1, <1>4 DEF TypeOK
  <2>2. QED
    BY <2>1
<1>5. QED
  BY <1>2, <1>3, <1>4

\* The work a device kernel enqueues depends on the last writers of the
\* slots it reads.  Each is complete or ahead of it on its queue: a writer on
\* the same queue was enqueued earlier; a writer on another queue wrote a
\* slot the planner fenced, whose event the before-hooks made the queue wait
\* for.
LEMMA NewWorkDeps ==
  ASSUME TypeOK, CountersInPlan, EventsCurrent, WritersQueued, HookedWaits,
         stage = "hooked", NEW v \in DeviceReads(cur), writer[v] # 0
  PROVE  \/ Complete(writer[v])
         \/ \E k \in 1 .. Len(queue[Queue[cur]]) :
               \/ queue[Queue[cur]][k].id = writer[v]
               \/ writer[v] \in queue[Queue[cur]][k].waits
<1>1. cur \in Positions
  <2>1. N \in Nat
    BY FenceConstants
  <2>2. QED
    BY <2>1 DEF CountersInPlan, TypeOK, Positions
<1>2. v \in Values /\ v \in ReadSlots(cur)
  BY <1>1, DeviceReadsRead, ReadSlotsValues
<1>3. PICK p \in Positions :
        /\ Provider[p] = "gpu" /\ v \in SlotsOf(Outputs[p])
        /\ \/ Complete(writer[v])
           \/ \E k \in 1 .. Len(queue[Queue[p]]) : queue[Queue[p]][k].id = writer[v]
  BY <1>2 DEF WritersQueued, WriterQueued
<1>4. p < cur
  BY <1>1, <1>2, <1>3, PlanOrder DEF ReadSlots
<1>5. CASE Queue[p] = Queue[cur]
  BY <1>3, <1>5
<1>6. CASE Queue[p] # Queue[cur]
  <2>1. v \in Fenced
    BY <1>1, <1>3, <1>4, <1>6, FencePlacement
  <2>2. event[v] = writer[v]
    BY <2>1 DEF EventsCurrent
  <2>3. QED
    BY <2>1, <2>2 DEF HookedWaits
<1>7. QED
  BY <1>5, <1>6

LEMMA DeviceInvInit == Init => DeviceInv
BY CountersInit DEF Init, DeviceInv, EventsCurrent, WritersQueued, WriterQueued,
   HookedWaits, QueuedDeps

\* Every step keeps queued work behind what it depends on.
LEMMA DeviceInvNext == DeviceInv /\ [Next]_vars => DeviceInv'
<1> SUFFICES ASSUME DeviceInv, [Next]_vars PROVE DeviceInv'
  OBVIOUS
<1>0. TypeOK' /\ CountersInPlan' /\ EventsCurrent'
  BY TypeNext, CountersNext, EventsNext DEF DeviceInv
<1> USE DEF DeviceInv
<1>1. phase = "idle" => stage = "top"
  BY DEF CountersInPlan, TypeOK
<1>2. N \in Nat
  BY FenceConstants
<1>3. CASE StartFullRun \/ StartPartialRun \/ ResumePartialRun
  <2>1. /\ \A v \in Values : writer'[v] = 0 \/ writer'[v] = writer[v]
        /\ UNCHANGED <<queue, done, stage>> /\ phase = "idle"
    BY <1>3 DEF StartFullRun, StartPartialRun, ResumePartialRun, FreshFences
  <2>2. QueuesGrow
    BY <2>1 DEF QueuesGrow, TypeOK
  <2>3. ASSUME NEW v \in Values PROVE WriterQueued(v)'
    <3>1. CASE writer'[v] = 0
      BY <3>1 DEF WriterQueued
    <3>2. CASE writer'[v] = writer[v]
      BY <2>1, <2>2, <3>2, WriterWhenGrowing DEF WritersQueued
    <3>3. QED
      BY <2>1, <3>1, <3>2
  <2>4. QED
    BY <1>0, <1>1, <2>1, <2>3 DEF WritersQueued, HookedWaits, QueuedDeps,
       AheadOn, Complete
<1>4. CASE BeforeCompute
  <2>1. /\ UNCHANGED <<writer, event, done, cur>> /\ stage' = "hooked"
        /\ IF NodeHasFence(cur) THEN BeforeHooks(cur)
           ELSE UNCHANGED queue
    BY <1>4 DEF BeforeCompute
  <2>2. cur \in Positions
    BY <1>2, <1>4 DEF BeforeCompute, CountersInPlan, TypeOK, Positions
  <2>3. /\ QueuesGrow
        /\ \A q \in Queues : \A i \in (Len(queue[q]) + 1) .. Len(queue'[q]) :
              queue'[q][i].deps = {}
    <3>1. CASE NodeHasFence(cur)
      BY <2>1, <2>2, <3>1, BeforeHooksGrow
    <3>2. CASE ~NodeHasFence(cur)
      BY <2>1, <3>2 DEF QueuesGrow, TypeOK
    <3>3. QED
      BY <3>1, <3>2
  <2>4. QueuedDeps'
    BY <2>1, <2>3, DepsWhenGrowing
  <2>5. WritersQueued'
    BY <2>1, <2>3, WriterWhenGrowing DEF WritersQueued
  <2>6. HookedWaits'
    <3>1. CASE NodeHasFence(cur)
      BY <2>1, <2>2, <3>1, HooksWait DEF HookedWaits, Complete
    <3>2. CASE ~NodeHasFence(cur)
      <4>1. DeviceReads(cur) \cap Fenced = {}
        BY <2>2, <3>2, DeviceReadsRead DEF NodeHasFence, Touched, ReadSlots
      <4>2. QED
        BY <2>1, <4>1 DEF HookedWaits
    <3>3. QED
      BY <3>1, <3>2
  <2>7. QED
    BY <1>0, <2>4, <2>5, <2>6
<1>5. CASE ComputeFails \/ FinishFullRun \/ FinishPartialRun
  <2>1. UNCHANGED <<writer, done>> /\ stage' = "top"
    BY <1>5 DEF ComputeFails, FinishFullRun, FinishPartialRun
  <2>2. /\ QueuesGrow
        /\ \A q \in Queues : \A i \in (Len(queue[q]) + 1) .. Len(queue'[q]) :
              queue'[q][i].deps = {}
    <3>1. CASE FinishPartialRun /\ wend < N /\ NodeHasFence(wend)
      <4>1. wend \in Positions
        BY <1>2, <3>1 DEF FinishPartialRun, TypeOK, Positions
      <4>2. BeforeHooks(wend)
        BY <3>1, Zenon DEF FinishPartialRun, FenceOnlyPass
      <4>3. QED
        BY <4>1, <4>2, BeforeHooksGrow
    <3>2. CASE ~(FinishPartialRun /\ wend < N /\ NodeHasFence(wend))
      <4>1. UNCHANGED queue
        BY <1>5, <3>2 DEF ComputeFails, FinishFullRun, FinishPartialRun
      <4>2. QED
        BY <4>1 DEF QueuesGrow, TypeOK
    <3>3. QED
      BY <3>1, <3>2
  <2>3. QED
    BY <1>0, <2>1, <2>2, DepsWhenGrowing, WriterWhenGrowing
    DEF WritersQueued, HookedWaits
<1>6. ASSUME NEW r \in Queues, DeviceRun(r) PROVE DeviceInv'
  <2>1. UNCHANGED <<writer, event, stage, cur>> /\ done \subseteq done'
    BY <1>6 DEF DeviceRun
  <2>2. QueuedDeps'
    BY <1>6, DepsWhenRunning
  <2>3. ASSUME NEW v \in Values PROVE WriterQueued(v)'
    <3>1. SUFFICES ASSUME writer[v] # 0
                   PROVE  \E p \in Positions :
                            /\ Provider[p] = "gpu" /\ v \in SlotsOf(Outputs[p])
                            /\ \/ Complete(writer[v])'
                               \/ \E k \in 1 .. Len(queue'[Queue[p]]) :
                                     queue'[Queue[p]][k].id = writer'[v]
      BY <2>1 DEF WriterQueued
    <3>2. PICK p \in Positions :
            /\ Provider[p] = "gpu" /\ v \in SlotsOf(Outputs[p])
            /\ \/ Complete(writer[v])
               \/ \E k \in 1 .. Len(queue[Queue[p]]) : queue[Queue[p]][k].id = writer[v]
      BY <3>1 DEF WritersQueued, WriterQueued
    <3>3. Queue[p] \in Queues
      BY FenceConstants
    <3>4. CASE Complete(writer[v])
      BY <2>1, <3>2, <3>4 DEF Complete
    <3>5. CASE \E k \in 1 .. Len(queue[Queue[p]]) : queue[Queue[p]][k].id = writer[v]
      <4>1. PICK k \in 1 .. Len(queue[Queue[p]]) : queue[Queue[p]][k].id = writer[v]
        BY <3>5
      <4>2. QED
        BY <1>6, <2>1, <3>2, <3>3, <4>1, RunKeeps DEF Complete
    <3>6. QED
      BY <3>2, <3>4, <3>5
  <2>4. HookedWaits'
    <3>1. SUFFICES ASSUME stage = "hooked", NEW v \in DeviceReads(cur) \cap Fenced
                   PROVE  \/ Complete(event[v])'
                          \/ \E k \in 1 .. Len(queue'[Queue[cur]]) :
                                event[v] \in queue'[Queue[cur]][k].waits
      BY <2>1 DEF HookedWaits
    <3>2. cur \in Positions
      BY <1>2, <3>1 DEF CountersInPlan, TypeOK, Positions
    <3>3. Queue[cur] \in Queues
      BY <3>2, FenceConstants
    <3>4. CASE Complete(event[v])
      BY <2>1, <3>4 DEF Complete
    <3>5. CASE \E k \in 1 .. Len(queue[Queue[cur]]) : event[v] \in queue[Queue[cur]][k].waits
      <4>1. PICK k \in 1 .. Len(queue[Queue[cur]]) : event[v] \in queue[Queue[cur]][k].waits
        BY <3>5
      <4>2. QED
        BY <1>6, <2>1, <3>3, <4>1, RunKeeps
    <3>6. QED
      BY <3>1, <3>4, <3>5 DEF HookedWaits
  <2>5. QED
    BY <1>0, <2>2, <2>3, <2>4 DEF WritersQueued
<1>7. CASE UNCHANGED vars
  <2>1. UNCHANGED <<stage, cur, writer, event, queue, done>>
    BY <1>7 DEF vars
  <2>2. WritersQueued'
    BY <2>1 DEF WritersQueued, WriterQueued, Complete
  <2>3. HookedWaits'
    BY <2>1 DEF HookedWaits, Complete
  <2>4. QueuedDeps'
    BY <2>1 DEF QueuedDeps, AheadOn, Complete
  <2>5. QED
    BY <1>0, <2>2, <2>3, <2>4
<1>8. CASE ComputeNode
  <2> DEFINE gpu == Provider[cur] = "gpu"
             w   == [v \in Values |-> IF v \in SlotsOf(Outputs[cur])
                                      THEN IF gpu THEN nextId ELSE 0
                                      ELSE writer[v]]
             it  == [id |-> nextId, waits |-> {},
                     deps |-> {writer[v] : v \in DeviceReads(cur)} \ {0}]
             Q   == Queue[cur]
  <2>1. /\ writer' = w /\ stage = "hooked" /\ stage' = "top" /\ done' = done
        /\ queue' = IF gpu THEN [queue EXCEPT ![Q] = Append(@, it)] ELSE queue
    BY <1>8, Zenon DEF ComputeNode
  <2>2. /\ cur \in Positions /\ Q \in Queues
        /\ DeviceReads(cur) \subseteq Values
    BY <1>2, <2>1, DeviceReadsRead, ReadSlotsValues, FenceConstants
    DEF CountersInPlan, TypeOK, Positions
  <2>3. HookedWaits'
    BY <2>1 DEF HookedWaits
  \* Slots the node does not write keep their writer.
  <2>4. ASSUME QueuesGrow, NEW v \in Values, v \notin SlotsOf(Outputs[cur])
        PROVE  WriterQueued(v)'
    BY <2>1, <2>4, WriterWhenGrowing DEF WritersQueued
  <2>5. CASE gpu
    <3>1. it \in Item
      BY <2>2 DEF TypeOK, Item
    <3>2. /\ QueuesGrow
          /\ Len(queue'[Q]) = Len(queue[Q]) + 1 /\ queue'[Q][Len(queue'[Q])] = it
          /\ \A q \in Queues \ {Q} : queue'[q] = queue[q]
      BY <2>1, <2>2, <2>5, <3>1, AppendGrows
    <3>3. Len(queue[Q]) \in Nat
      BY <2>2 DEF TypeOK
    <3>4. ASSUME NEW q \in Queues, NEW i \in (Len(queue[q]) + 1) .. Len(queue'[q]),
                 NEW d \in queue'[q][i].deps
          PROVE  Complete(d)' \/ AheadOn(q, i, d)'
      <4>1. q = Q /\ i = Len(queue'[Q])
        <5>1. CASE q # Q
          BY <3>2, <5>1 DEF TypeOK
        <5>2. QED
          BY <3>2, <3>3, <5>1
      <4>2. PICK v \in DeviceReads(cur) : d = writer[v] /\ d # 0
        BY <3>2, <4>1
      <4>3. \/ Complete(d)
            \/ \E k \in 1 .. Len(queue[Q]) :
                  queue[Q][k].id = d \/ d \in queue[Q][k].waits
        BY <2>1, <4>2, NewWorkDeps
      <4>4. CASE Complete(d)
        BY <2>1, <4>4 DEF Complete
      <4>5. CASE \E k \in 1 .. Len(queue[Q]) : queue[Q][k].id = d \/ d \in queue[Q][k].waits
        <5>1. PICK k \in 1 .. Len(queue[Q]) : queue[Q][k].id = d \/ d \in queue[Q][k].waits
          BY <4>5
        <5>2. k \in 1 .. (i - 1) /\ queue'[Q][k] = queue[Q][k]
          BY <3>2, <3>3, <4>1 DEF QueuesGrow
        <5>3. QED
          BY <4>1, <5>1, <5>2 DEF AheadOn
      <4>6. QED
        BY <4>3, <4>4, <4>5
    <3>5. QueuedDeps'
      BY <2>1, <3>2, <3>4, DepsWhenGrowing
    <3>6. ASSUME NEW v \in Values PROVE WriterQueued(v)'
      <4>1. CASE v \in SlotsOf(Outputs[cur])
        <5>1. writer'[v] = nextId /\ queue'[Q][Len(queue'[Q])].id = nextId
          <6>1. writer'[v] = nextId
            BY <2>1, <2>5, <4>1
          <6>2. queue'[Q][Len(queue'[Q])].id = nextId
            BY <3>2
          <6>3. QED
            BY <6>1, <6>2
        <5>2. Len(queue'[Q]) \in 1 .. Len(queue'[Q])
          <6>1. Len(queue'[Q]) = Len(queue[Q]) + 1 /\ Len(queue[Q]) \in Nat
            BY <3>2, <3>3
          <6>2. QED
            BY <6>1
        <5>3. QED
          BY <2>2, <2>5, <4>1, <5>1, <5>2 DEF WriterQueued
      <4>2. QED
        BY <3>2, <4>1, <2>4
    <3>7. QED
      BY <1>0, <2>3, <3>5, <3>6 DEF WritersQueued
  <2>6. CASE ~gpu
    <3>1. queue' = queue /\ QueuesGrow
      <4>1. queue' = queue
        BY <2>1, <2>6
      <4>2. QED
        BY <4>1 DEF QueuesGrow, TypeOK
    <3>2. ASSUME NEW v \in Values PROVE WriterQueued(v)'
      <4>1. CASE v \in SlotsOf(Outputs[cur])
        BY <2>1, <2>6, <4>1 DEF WriterQueued
      <4>2. QED
        BY <3>1, <4>1, <2>4
    <3>3. QED
      BY <1>0, <2>1, <2>3, <3>1, <3>2 DEF WritersQueued, QueuedDeps, AheadOn,
         Complete
  <2>7. QED
    BY <2>5, <2>6
<1>9. QED
  BY <1>3, <1>4, <1>5, <1>6, <1>7, <1>8 DEF Next, ExecutorStep

\* The first work of a queue has nothing ahead of it: its dependencies have
\* run.
LEMMA DeviceInvDeviceReads == DeviceInv => DeviceReadsComplete
<1> SUFFICES ASSUME DeviceInv, NEW q \in Queues, queue[q] # << >>,
                    NEW d \in Head(queue[q]).deps
             PROVE  Complete(d)
  BY DEF DeviceReadsComplete
<1>1. queue[q] \in Seq(Item) /\ 1 \in 1 .. Len(queue[q])
      /\ Head(queue[q]) = queue[q][1]
  BY DEF DeviceInv, TypeOK
<1>2. ~AheadOn(q, 1, d)
  BY DEF AheadOn
<1>3. QED
  BY <1>1, <1>2 DEF DeviceInv, QueuedDeps

(* Spec 3 and 5: for every plan the planner may produce, a device queue    *)
(* never starts a kernel's work before the work that wrote its inputs has  *)
(* run: work from the same queue is ahead of it, and a writer on another   *)
(* queue wrote a fenced slot whose event the device-identity               *)
(* BeforeUsingAsInput (lines 377-390) made the queue wait for, even when   *)
(* a window is retried after a failed kernel left waits behind.            *)
THEOREM DeviceReadsOrdered == Spec => []DeviceReadsComplete
<1>1. Spec => []DeviceInv
  BY DeviceInvInit, DeviceInvNext, PTL DEF Spec
<1>2. QED
  BY <1>1, DeviceInvDeviceReads, PTL


-----------------------------------------------------------------------------
(* Fetches of a suspended run.                                             *)

\* Every YieldOp kernel is a CPU kernel.
YieldOnHost == \A p \in Yield : Provider[p] = "cpu"

\* A partial window ends at a YieldOp or at the plan end.
WindowStopsAtYield ==
  (phase = "exec" /\ kind = "partial") => (wend = N \/ wend \in Yield)

\* The inductive invariant for FetchesSynced.
FetchInv == HostInv /\ WindowStopsAtYield /\ FetchesSynced

LEMMA FetchInvInit == Init => FetchInv
<1> SUFFICES ASSUME Init PROVE FetchInv
  OBVIOUS
<1>1. HostInv
  BY HostInvInit
<1>2. QED
  BY <1>1 DEF Init, FetchInv, WindowStopsAtYield, FetchesSynced

\* A window scanned from a cursor inside the plan ends at a YieldOp or at
\* the plan end.
LEMMA WindowStopsNext ==
  ASSUME HostInv, WindowStopsAtYield, [Next]_vars PROVE WindowStopsAtYield'
<1>0. N \in Nat \ {0}
  BY FenceConstants
<1>1. CASE StartPartialRun
  <2>1. 0 \in Positions
    BY <1>0 DEF Positions
  <2>2. QED
    BY <1>1, <2>1, WindowEndInPlan DEF StartPartialRun, WindowStopsAtYield
<1>2. CASE ResumePartialRun
  <2>1. pc \in Positions
    BY <1>0, <1>2 DEF ResumePartialRun, HostInv, CountersInPlan, TypeOK,
       Positions
  <2>2. QED
    BY <1>2, <2>1, WindowEndInPlan DEF ResumePartialRun, WindowStopsAtYield
<1>3. CASE StartFullRun
  BY <1>3 DEF StartFullRun, WindowStopsAtYield
<1>4. CASE BeforeCompute \/ ComputeNode \/ (\E q \in Queues : DeviceRun(q))
          \/ UNCHANGED vars
  <2>1. UNCHANGED <<phase, kind, wend>>
    BY <1>4 DEF BeforeCompute, ComputeNode, DeviceRun, vars
  <2>2. QED
    BY <2>1 DEF WindowStopsAtYield
<1>5. CASE ComputeFails \/ FinishFullRun \/ FinishPartialRun
  BY <1>5 DEF ComputeFails, FinishFullRun, FinishPartialRun, WindowStopsAtYield
<1>6. QED
  BY <1>1, <1>2, <1>3, <1>4, <1>5 DEF Next, ExecutorStep

\* The fence-only pass over the YieldOp after a window synchronizes every
\* input of that node, and nothing before the next call undoes it.
LEMMA FetchesNext ==
  ASSUME YieldOnHost, FetchInv, [Next]_vars PROVE FetchesSynced'
<1> USE DEF FetchInv
<1>1. CASE FinishPartialRun
  <2>1. /\ pc' = wend /\ registered' = (wend # N) /\ kind = "partial"
        /\ phase = "exec"
        /\ UNCHANGED <<writer, event, done>>
        /\ (wend < N /\ NodeHasFence(wend)) => BeforeHooks(wend)
    BY <1>1, Zenon DEF FinishPartialRun, FenceOnlyPass
  <2> SUFFICES ASSUME wend # N
               PROVE  \A v \in SlotsOf(Inputs[wend]) \cup SlotsOf(Implicit[wend]) :
                         Complete(writer[v])
    BY <2>1 DEF FetchesSynced, Complete
  <2>2. wend \in Positions /\ wend \in Yield
    <3>1. N \in Nat /\ wend \in Nat /\ wend <= N
      BY <2>1, FenceConstants DEF HostInv, TypeOK, CountersInPlan
    <3>2. QED
      BY <2>1, <3>1 DEF WindowStopsAtYield, Positions
  <2>3. HostReads(wend) = SlotsOf(Inputs[wend]) \cup SlotsOf(Implicit[wend])
    BY <2>2 DEF YieldOnHost, HostReads
  <2>4. NodeHasFence(wend) =>
          \A u \in {w \in InputUses(wend) : w.ident = "cpu"} : Complete(event[u.slot])
    <3>1. wend < N
      BY <2>2, FenceConstants DEF Positions
    <3>2. QED
      BY <2>1, <3>1 DEF BeforeHooks
  <2>5. QED
    BY <2>2, <2>3, <2>4, HostReadsSettled DEF HostInv
<1>2. ASSUME NEW q \in Queues, DeviceRun(q) PROVE FetchesSynced'
  <2>1. /\ UNCHANGED <<phase, kind, status, registered, pc, writer>>
        /\ done \subseteq done'
    BY <1>2 DEF DeviceRun
  <2>2. QED
    BY <2>1 DEF FetchesSynced, Complete
<1>3. CASE StartFullRun \/ StartPartialRun \/ ResumePartialRun
          \/ BeforeCompute \/ ComputeNode
  BY <1>3 DEF StartFullRun, StartPartialRun, ResumePartialRun, BeforeCompute,
     ComputeNode, FetchesSynced
<1>4. CASE ComputeFails \/ FinishFullRun
  BY <1>4 DEF ComputeFails, FinishFullRun, FetchesSynced
<1>5. CASE UNCHANGED vars
  BY <1>5 DEF vars, FetchesSynced, Complete
<1>6. QED
  BY <1>1, <1>2, <1>3, <1>4, <1>5 DEF Next, ExecutorStep

(* Spec 4.3: when a partial run returns suspended, every input of the node *)
(* at its cursor, which the caller fetches, has been written by the host   *)
(* or by device work that has run: the fence-only pass of lines 183-229    *)
(* over a YieldOp blocks the host on each of them.  The hypothesis that a  *)
(* YieldOp runs on the host is needed: with a device YieldOp the pass only *)
(* makes a queue wait (run fence_device_yield).                            *)
THEOREM FetchesSyncedAtYield ==
  ASSUME YieldOnHost PROVE Spec => []FetchesSynced
<1>1. FetchInv /\ [Next]_vars => FetchInv'
  BY HostInvNext, WindowStopsNext, FetchesNext DEF FetchInv
<1>2. Spec => []FetchInv
  BY FetchInvInit, <1>1, PTL DEF Spec
<1>3. QED
  BY <1>2, PTL DEF FetchInv

=============================================================================
