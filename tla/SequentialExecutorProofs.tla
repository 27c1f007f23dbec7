--------------------- MODULE SequentialExecutorProofs ----------------------
(***************************************************************************)
(* Proofs about SequentialExecutor for every plan the planner may produce  *)
(* (every value of the constants satisfying ConstantsAssumption).          *)
(***************************************************************************)
EXTENDS SequentialExecutor, ExecutionPlanProofs, SequenceTheorems, TLAPS

\* The facts about the constants the proofs below use.
LEMMA PlanSize == N \in Nat \ {0} /\ MaxFaults \in Nat
BY ConstantsAssumption, PlanAssumption

-----------------------------------------------------------------------------
(* Type correctness.                                                       *)

\* The cursors of a call in progress: the loop never runs past the window,
\* and a non-empty window lies inside the plan.
CursorsOK ==
  phase = "exec" => /\ cur <= wend
                    /\ cur < wend => wend <= N

TypeInv == TypeOK /\ CursorsOK

LEMMA TypeInvInit == Init => TypeInv
<1> SUFFICES ASSUME Init PROVE TypeInv
  OBVIOUS
<1>1. val \in [Values -> Slot]
  BY DEF Init, Slot
<1>2. log \in Seq(Positions)
  BY DEF Init
<1>3. faults \in 0 .. MaxFaults
  BY PlanSize DEF Init
<1>4. QED
  BY <1>1, <1>2, <1>3 DEF Init, TypeInv, TypeOK, CursorsOK

LEMMA TypeInvNext == TypeInv /\ [Next]_vars => TypeInv'
<1> SUFFICES ASSUME TypeInv, [Next]_vars PROVE TypeInv'
  OBVIOUS
<1> USE PlanSize DEF TypeInv, TypeOK, CursorsOK
<1>0. NewFrame \in [Values -> Slot] /\ << >> \in Seq(Positions)
  BY DEF NewFrame, Slot
<1>1. CASE StartFullRun
  <2>1. TypeOK'
    BY <1>0, <1>1 DEF StartFullRun
  <2>2. CursorsOK'
    BY <1>1 DEF StartFullRun
  <2>3. QED
    BY <2>1, <2>2
<1>2. CASE StartPartialRun
  <2>1. WindowEnd(0) \in 1 .. N
    BY WindowEndInPlan DEF Positions
  <2>2. wend' \in Nat /\ pc' \in Nat /\ cur' \in Nat
    BY <1>2, <2>1 DEF StartPartialRun
  <2>5. registered' \in BOOLEAN /\ terminate' \in BOOLEAN
    BY <1>2 DEF StartPartialRun
  <2>6. TypeOK'
    BY <1>0, <1>2, <2>2, <2>5 DEF StartPartialRun
  <2>3. CursorsOK'
    BY <1>2, <2>1 DEF StartPartialRun
  <2>4. QED
    BY <2>6, <2>3
<1>3. CASE ResumePartialRun
  <2>1. wend' \in Nat /\ cur' <= wend' /\ (cur' < wend' => wend' <= N)
    <3>1. CASE pc < N
      BY <1>3, <3>1, WindowEndInPlan DEF ResumePartialRun, Positions
    <3>2. CASE pc >= N
      BY <1>3, <3>2, WindowEndPastPlan DEF ResumePartialRun
    <3>3. QED
      BY <3>1, <3>2
  <2>2. QED
    BY <1>3, <2>1 DEF ResumePartialRun, UpdateFeeds, Slot
<1>4. CASE Terminated
  BY <1>4 DEF Terminated
<1>5. CASE SkipNode
  BY <1>5 DEF SkipNode
<1>6. CASE ComputeNode
  <2>1. cur \in Positions
    BY <1>6 DEF ComputeNode, Positions
  <2>2. val' \in [Values -> Slot]
    BY <1>6 DEF ComputeNode, AfterRelease, AfterCompute, Slot
  <2>3. QED
    BY <1>6, <2>1, <2>2 DEF ComputeNode
<1>7. CASE ComputeFails
  <2>1. cur \in Positions
    BY <1>7 DEF ComputeFails, Positions
  <2>2. val' \in [Values -> Slot]
    BY <1>7 DEF ComputeFails, Slot
  <2>3. QED
    BY <1>7, <2>1, <2>2 DEF ComputeFails
<1>14. CASE ReleaseFails
  <2>1. cur \in Positions
    BY <1>14 DEF ReleaseFails, Positions
  <2>2. val' \in [Values -> Slot]
    BY <1>14 DEF ReleaseFails, AfterCompute, Slot
  <2>3. QED
    BY <1>14, <2>1, <2>2 DEF ReleaseFails
<1>8. CASE FinishFullRun
  BY <1>8 DEF FinishFullRun
<1>9. CASE FinishPartialRun
  BY <1>9 DEF FinishPartialRun, NextCursor
<1>10. CASE OutputsFail
  BY <1>10 DEF OutputsFail
<1>11. CASE SetTerminate
  BY <1>11 DEF SetTerminate
<1>12. CASE UNCHANGED vars
  BY <1>12 DEF vars
<1>13. QED
  BY <1>1, <1>2, <1>3, <1>4, <1>5, <1>6, <1>7, <1>8, <1>9, <1>10, <1>11,
     <1>12, <1>14 DEF Next, ExecutorStep

\* The executor's state is always well typed.
THEOREM TypeCorrect == Spec => []TypeOK
<1>1. Spec => []TypeInv
  BY TypeInvInit, TypeInvNext, PTL DEF Spec
<1>2. QED
  BY <1>1, PTL DEF TypeInv

-----------------------------------------------------------------------------
(* Each position computed at most once, in order.                         *)

\* A sequence of positions strictly ascending, and one lying below a bound.
Ascending(s) == \A i, j \in 1 .. Len(s) : i < j => s[i] < s[j]
Below(s, b) == \A i \in 1 .. Len(s) : s[i] < b

\* Appending a position above an ascending log keeps it ascending.
LEMMA AppendAscending ==
  ASSUME NEW s \in Seq(Nat), NEW c \in Nat, Ascending(s), Below(s, c)
  PROVE  Ascending(Append(s, c)) /\ Below(Append(s, c), c + 1)
<1> DEFINE t == Append(s, c)
<1>1. /\ Len(t) = Len(s) + 1
      /\ \A i \in 1 .. Len(s) : t[i] = s[i]
      /\ t[Len(s) + 1] = c
  OBVIOUS
<1>2. ASSUME NEW i \in 1 .. Len(t), NEW j \in 1 .. Len(t), i < j
      PROVE  t[i] < t[j]
  <2>1. CASE j <= Len(s)
    BY <1>1, <1>2, <2>1 DEF Ascending
  <2>2. CASE j = Len(s) + 1
    BY <1>1, <1>2, <2>2 DEF Below
  <2>3. QED
    BY <1>1, <2>1, <2>2
<1>3. ASSUME NEW i \in 1 .. Len(t) PROVE t[i] < c + 1
  <2>1. CASE i <= Len(s)
    BY <1>1, <2>1 DEF Below
  <2>2. CASE i = Len(s) + 1
    BY <1>1, <2>2
  <2>3. QED
    BY <1>1, <2>1, <2>2
<1>4. QED
  BY <1>2, <1>3 DEF Ascending, Below

\* Raising the bound keeps a sequence below it.
LEMMA BelowMono ==
  ASSUME NEW s \in Seq(Int), NEW a \in Int, NEW b \in Int, a <= b, Below(s, a)
  PROVE  Below(s, b)
BY DEF Below

\* The log of plan positions is a sequence of naturals.
LEMMA LogOfNaturals ==
  ASSUME NEW s \in Seq(Positions) PROVE s \in Seq(Nat) /\ s \in Seq(Int)
<1>1. Positions \subseteq Nat
  BY PlanSize DEF Positions
<1>2. s \in Seq(Nat)
  BY <1>1, SeqMonotonic
<1>3. Nat \subseteq Int
  OBVIOUS
<1>4. s \in Seq(Int)
  BY <1>2, <1>3, SeqMonotonic
<1>5. QED
  BY <1>2, <1>4

\* Why a window never re-executes what earlier windows computed: the log
\* lies below the loop cursor during a call and below the saved cursor of a
\* suspended run; failures (which leave the cursor behind) only happen when
\* there are no partial runs; a full run never runs beside a registered one.
ProgressInv ==
  /\ registered => "partial" \in Modes
  /\ terminate => Faults
  /\ (phase = "exec" /\ kind = "full") => ~registered
  /\ (phase = "exec" /\ kind = "partial") => registered
  /\ phase = "exec" => Below(log, cur)
  /\ (phase = "idle" /\ registered) => Below(log, pc)

IInv == TypeInv /\ Ascending(log) /\ ProgressInv

LEMMA IInvInit == Init => IInv
<1> SUFFICES ASSUME Init PROVE IInv
  OBVIOUS
<1>1. TypeInv
  BY TypeInvInit
<1>2. QED
  BY <1>1 DEF Init, IInv, Ascending, Below, ProgressInv

\* Under NoRetry a step keeps the log ascending and below the cursors.
LEMMA IInvNext == NoRetry /\ IInv /\ [Next]_vars => IInv'
<1> SUFFICES ASSUME NoRetry, IInv, [Next]_vars PROVE IInv'
  OBVIOUS
<1>0. TypeInv'
  BY TypeInvNext DEF IInv
<1> USE DEF IInv, TypeInv, TypeOK
\* A failure, a termination or a full run leaves no partial run registered.
<1>1. Faults => ~registered
  BY DEF NoRetry, ProgressInv
<1>2. CASE StartFullRun
  BY <1>0, <1>2 DEF StartFullRun, Ascending, Below, ProgressInv
<1>3. CASE StartPartialRun
  BY <1>0, <1>3 DEF StartPartialRun, Ascending, Below, ProgressInv
<1>4. CASE ResumePartialRun
  BY <1>0, <1>4 DEF ResumePartialRun, ProgressInv
<1>5. CASE Terminated
  BY <1>0, <1>1, <1>5 DEF Terminated, ProgressInv
<1>6. CASE SkipNode
  <2>0. Below(log, cur)
    BY <1>6 DEF ProgressInv, SkipNode
  <2>1. Below(log, cur + 1)
    BY <2>0, LogOfNaturals, BelowMono
  <2>2. QED
    BY <1>0, <1>6, <2>1 DEF SkipNode, ProgressInv
<1>7. CASE ComputeNode
  <2>0. /\ log \in Seq(Nat) /\ cur \in Nat
        /\ Ascending(log) /\ Below(log, cur)
    BY <1>7, LogOfNaturals DEF ComputeNode, ProgressInv
  <2>1. Ascending(log') /\ Below(log', cur')
    BY <1>7, <2>0, AppendAscending DEF ComputeNode
  <2>2. QED
    BY <1>0, <1>7, <2>1 DEF ComputeNode, ProgressInv
<1>8. CASE ComputeFails
  <2>0. /\ log \in Seq(Nat) /\ cur \in Nat
        /\ Ascending(log) /\ Below(log, cur)
    BY <1>8, LogOfNaturals DEF ComputeFails, ProgressInv
  <2>1. Ascending(log')
    BY <1>8, <2>0, AppendAscending DEF ComputeFails
  <2>2. QED
    BY <1>0, <1>1, <1>8, <2>1 DEF ComputeFails, ProgressInv
<1>15. CASE ReleaseFails
  <2>0. /\ log \in Seq(Nat) /\ cur \in Nat
        /\ Ascending(log) /\ Below(log, cur)
    BY <1>15, LogOfNaturals DEF ReleaseFails, ProgressInv
  <2>1. Ascending(log')
    BY <1>15, <2>0, AppendAscending DEF ReleaseFails
  <2>2. QED
    BY <1>0, <1>1, <1>15, <2>1 DEF ReleaseFails, ProgressInv
<1>9. CASE FinishFullRun
  BY <1>0, <1>9 DEF FinishFullRun, ProgressInv
<1>10. CASE FinishPartialRun
  <2>0. Below(log, cur) /\ cur = wend /\ pc' >= wend /\ pc' \in Nat
    BY <1>10 DEF FinishPartialRun, NextCursor, ProgressInv
  <2>1. Below(log, pc')
    BY <2>0, LogOfNaturals, BelowMono
  <2>2. QED
    BY <1>0, <1>10, <2>1 DEF FinishPartialRun, ProgressInv
<1>11. CASE OutputsFail
  BY <1>0, <1>1, <1>11 DEF OutputsFail, ProgressInv
<1>12. CASE SetTerminate
  BY <1>0, <1>12 DEF SetTerminate, ProgressInv
<1>13. CASE UNCHANGED vars
  BY <1>0, <1>13 DEF vars, ProgressInv, Ascending, Below
<1>14. QED
  BY <1>2, <1>3, <1>4, <1>5, <1>6, <1>7, <1>8, <1>9, <1>10, <1>11, <1>12,
     <1>13, <1>15 DEF Next, ExecutorStep

\* Spec 8: when no window is ever retried, the Compute calls over the life
\* of a frame -- across every window of a partial run -- hit each plan
\* position at most once and in ascending order.
THEOREM InOrderExecution == ASSUME NoRetry PROVE Spec => []ExactlyOnceInOrder
<1>1. Spec => []IInv
  BY IInvInit, IInvNext, PTL DEF Spec
<1>2. QED
  BY <1>1, PTL DEF IInv, Ascending, ExactlyOnceInOrder

-----------------------------------------------------------------------------
(* The frame is erased exactly at the plan end.                            *)

\* A registered frame's cursor is short of the plan end, and a partial
\* window in progress ends inside the plan.
EraseInv ==
  /\ TypeInv
  /\ RunErasedAtPlanEnd
  /\ (phase = "exec" /\ kind = "partial") => wend <= N

LEMMA EraseInvInit == Init => EraseInv
BY TypeInvInit, PlanSize DEF Init, EraseInv, RunErasedAtPlanEnd

\* Without ownership transfer every step keeps the cursor short of the end
\* while the frame is registered.
LEMMA EraseInvNext ==
  ~TransferOwnership /\ EraseInv /\ [Next]_vars => EraseInv'
<1> SUFFICES ASSUME ~TransferOwnership, EraseInv, [Next]_vars PROVE EraseInv'
  OBVIOUS
<1>0. TypeInv'
  BY TypeInvNext DEF EraseInv
<1> USE PlanSize DEF EraseInv, RunErasedAtPlanEnd, TypeInv, TypeOK
<1>1. CASE StartFullRun
  BY <1>0, <1>1 DEF StartFullRun
<1>2. CASE StartPartialRun
  <2>1. WindowEnd(0) \in 1 .. N
    BY WindowEndInPlan DEF Positions
  <2>2. QED
    BY <1>0, <1>2, <2>1 DEF StartPartialRun
<1>3. CASE ResumePartialRun
  <2>1. WindowEnd(pc) \in (pc + 1) .. N
    BY <1>3, WindowEndInPlan DEF ResumePartialRun, Positions
  <2>2. QED
    BY <1>0, <1>3, <2>1 DEF ResumePartialRun
<1>4. CASE FinishPartialRun
  <2>1. pc' = wend /\ wend <= N /\ pc' \in Nat
    BY <1>4 DEF FinishPartialRun, NextCursor
  <2>2. registered' => pc' # N
    BY <1>4, Zenon DEF FinishPartialRun
  <2>3. registered' => pc' < N
    BY <2>1, <2>2
  <2>4. phase' = "idle"
    BY <1>4 DEF FinishPartialRun
  <2>5. QED
    BY <1>0, <2>3, <2>4
<1>5. CASE UNCHANGED vars
  BY <1>0, <1>5 DEF vars
<1>6. CASE \/ Terminated \/ SkipNode \/ ComputeNode \/ ComputeFails
           \/ ReleaseFails \/ FinishFullRun \/ OutputsFail \/ SetTerminate
  BY <1>0, <1>6 DEF Terminated, SkipNode, ComputeNode, ComputeFails,
                    ReleaseFails, FinishFullRun, OutputsFail, SetTerminate
<1>7. QED
  BY <1>1, <1>2, <1>3, <1>4, <1>5, <1>6 DEF Next, ExecutorStep

\* Spec 3 and 4.3: when intermediate tensor ownership is not transferred, a
\* partial run's frame is in graph_runs_ only while its cursor is short of
\* the plan end -- the erase of lines 242-246 fires when the last window
\* returns -- for every plan.
THEOREM ErasedAtPlanEnd ==
  ASSUME ~TransferOwnership PROVE Spec => []RunErasedAtPlanEnd
<1>1. Spec => []EraseInv
  BY EraseInvInit, EraseInvNext, PTL DEF Spec
<1>2. QED
  BY <1>1, PTL DEF EraseInv

=============================================================================
