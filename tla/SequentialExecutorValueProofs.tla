------------------- MODULE SequentialExecutorValueProofs --------------------
(***************************************************************************)
(* Proof that a node's Compute only reads live slots (ValueLifecycle) when *)
(* no window is retried and intermediate tensor ownership stays with the   *)
(* frame.  The argument: while a call runs, every slot that the positions  *)
(* due before the loop counter have produced (a feed, or a write of one of *)
(* them) and that none of them has released is live; the planner contract  *)
(* says that every slot the node at the counter reads is such a slot.      *)
(***************************************************************************)
EXTENDS SequentialExecutorCoverProofs

\* Slot v has been produced once the positions due before k have run: it is
\* a feed, or one of those positions writes it.
Produced(k, v) == v \in Feeds \/ \E q \in Due(k) : v \in Writes[q]

\* No position due before k releases slot v.
Kept(k, v) == \A q \in Due(k) : v \notin ReleaseSet(q)

\* Frame f holds every slot produced and not released before position k.
LiveOK(k, f) == \A v \in Values : Produced(k, v) /\ Kept(k, v) => f[v] = "live"

\* The inductive invariant.  The terminate flag is only ever set when faults
\* are possible, and a frame is only registered, and a call only partial,
\* when the caller makes partial runs; so under
\* NoRetry a registered frame is never cut short, and a suspended frame is
\* exactly what its completed windows left behind.
LiveInv ==
  /\ TypeInv
  /\ terminate => Faults
  /\ (registered \/ kind = "partial") => "partial" \in Modes
  /\ (phase = "exec" /\ kind = "full") => ~registered
  /\ phase = "exec" => LiveOK(cur, val)
  /\ (phase = "idle" /\ registered) => LiveOK(pc, val)

-----------------------------------------------------------------------------
(* Lemmas about the frame operations.                                      *)

\* A fresh frame holds its feeds, which is all that is due at position 0.
LEMMA NewFrameLive == LiveOK(0, NewFrame)
BY DueZero DEF LiveOK, Produced, NewFrame

\* UpdateFeedAndFetches only makes more slots live.
LEMMA UpdateFeedsLive ==
  ASSUME NEW k, NEW f, LiveOK(k, f)
  PROVE  LiveOK(k, UpdateFeeds(f))
BY DEF LiveOK, UpdateFeeds

\* Skipping a pruned node changes nothing that is due.
LEMMA SkipLive ==
  ASSUME NEW c \in Positions, c \in Pruned, NEW f, LiveOK(c, f)
  PROVE  LiveOK(c + 1, f)
<1>1. Due(c + 1) = Due(c)
  BY DueStep
<1>2. QED
  BY <1>1 DEF LiveOK, Produced, Kept

\* Computing a node and releasing its to_be_freed range keeps the frame up
\* to date with one more position due.
LEMMA ComputeLive ==
  ASSUME NEW c \in Positions, c \notin Pruned, NEW f, LiveOK(c, f)
  PROVE  LiveOK(c + 1, AfterRelease(c, AfterCompute(c, f)))
<1>1. Due(c + 1) = Due(c) \cup {c}
  BY DueStep
<1> SUFFICES ASSUME NEW v \in Values, Produced(c + 1, v), Kept(c + 1, v)
             PROVE  AfterRelease(c, AfterCompute(c, f))[v] = "live"
  BY DEF LiveOK
<1>2. v \notin ReleaseSet(c) /\ Kept(c, v)
  BY <1>1 DEF Kept
<1>3. AfterRelease(c, AfterCompute(c, f))[v] = AfterCompute(c, f)[v]
  BY <1>2 DEF AfterRelease
<1>4. CASE v \in Writes[c]
  BY <1>3, <1>4 DEF AfterCompute
<1>5. CASE v \notin Writes[c]
  <2>1. Produced(c, v)
    BY <1>1, <1>5 DEF Produced
  <2>2. f[v] = "live"
    BY <1>2, <2>1 DEF LiveOK
  <2>3. QED
    BY <1>3, <1>5, <2>2 DEF AfterCompute
<1>6. QED
  BY <1>4, <1>5

\* The planner contract, read at the loop counter: every slot an executed
\* node reads is produced and not released by the positions before it.
LEMMA ReadsDue ==
  ASSUME NEW c \in Positions, c \notin Pruned, NEW v \in Reads[c]
  PROVE  Produced(c, v) /\ Kept(c, v)
<1>1. Produced(c, v)
  <2>1. CASE v \notin Feeds
    <3>1. PICK q \in 0 .. (c - 1) : q \notin Pruned /\ v \in Writes[q]
      BY <2>1, PlannerContract
    <3>2. q \in Due(c)
      BY <3>1, PlanSize DEF Due, Positions
    <3>3. QED
      BY <3>1, <3>2 DEF Produced
  <2>2. QED
    BY <2>1 DEF Produced
<1>2. Kept(c, v)
  <2> SUFFICES ASSUME NEW q \in Due(c), NEW i \in FreeIndices(q),
                      v = ToBeFreed[i + 1]
               PROVE  FALSE
    BY DEF Kept, ReleaseSet
  <2>1. q \in Positions /\ c \in (q + 1) .. (N - 1)
    BY PlanSize DEF Due, Positions
  <2>2. QED
    BY <2>1, PlannerContract
<1>3. QED
  BY <1>1, <1>2

-----------------------------------------------------------------------------
(* The invariant is inductive.                                             *)

LEMMA LiveInvInit == Init => LiveInv
<1> SUFFICES ASSUME Init PROVE LiveInv
  OBVIOUS
<1>1. TypeInv
  BY TypeInvInit
<1>2. QED
  BY <1>1 DEF Init, LiveInv

\* A registered frame is never stopped by a failure or the terminate flag:
\* under NoRetry partial runs exclude faults.
LEMMA RegisteredNoFault ==
  ASSUME NoRetry, LiveInv, registered PROVE ~Faults /\ ~terminate
BY DEF NoRetry, LiveInv

\* Without retries or ownership transfer every step keeps the frame live up
\* to the loop counter, and a suspended frame live up to its cursor.
LEMMA LiveInvNext ==
  ASSUME NoRetry, ~TransferOwnership, LiveInv, [Next]_vars PROVE LiveInv'
<1>0. TypeInv'
  BY TypeInvNext DEF LiveInv
<1>1. phase = "exec" /\ cur < wend => cur \in Positions
  BY PlanSize DEF LiveInv, TypeInv, TypeOK, CursorsOK, Positions
<1> USE DEF LiveInv
<1>2. CASE StartFullRun
  BY <1>0, <1>2, NewFrameLive DEF StartFullRun
<1>3. CASE StartPartialRun
  BY <1>0, <1>3, NewFrameLive DEF StartPartialRun
<1>4. CASE ResumePartialRun
  BY <1>0, <1>4, UpdateFeedsLive DEF ResumePartialRun
\* The steps that end a call on an error: the frame cannot be registered.
<1>5. CASE Terminated \/ ComputeFails \/ ReleaseFails \/ OutputsFail
  <2>1. phase' = "idle" /\ registered' = registered
        /\ (Faults \/ terminate) /\ UNCHANGED <<terminate, kind>>
    BY <1>5 DEF Terminated, ComputeFails, ReleaseFails, OutputsFail
  <2>2. ~registered
    BY <2>1, RegisteredNoFault
  <2>3. QED
    BY <1>0, <2>1, <2>2
<1>6. CASE SkipNode
  <2>1. LiveOK(cur + 1, val)
    BY <1>1, <1>6, SkipLive DEF SkipNode
  <2>2. QED
    BY <1>0, <1>6, <2>1 DEF SkipNode
<1>7. CASE ComputeNode
  <2>1. LiveOK(cur + 1, AfterRelease(cur, AfterCompute(cur, val)))
    BY <1>1, <1>7, ComputeLive DEF ComputeNode
  <2>2. QED
    BY <1>0, <1>7, <2>1 DEF ComputeNode
<1>8. CASE FinishFullRun
  BY <1>0, <1>8 DEF FinishFullRun
<1>9. CASE FinishPartialRun
  <2>1. /\ pc' = cur /\ phase' = "idle" /\ phase = "exec"
        /\ UNCHANGED <<val, terminate, kind>>
        /\ registered' => "partial" \in Modes
    BY <1>9 DEF FinishPartialRun, NextCursor
  <2>2. LiveOK(pc', val')
    BY <2>1
  <2>3. QED
    BY <1>0, <2>1, <2>2
<1>10. CASE SetTerminate
  BY <1>0, <1>10 DEF SetTerminate
<1>11. CASE UNCHANGED vars
  BY <1>0, <1>11 DEF vars
<1>12. QED
  BY <1>2, <1>3, <1>4, <1>5, <1>6, <1>7, <1>8, <1>9, <1>10, <1>11
  DEF Next, ExecutorStep

\* The log grows only by the node at the loop counter, and that node's
\* inputs are live.
LEMMA LiveStep ==
  ASSUME LiveInv, [Next]_vars, Len(log') > Len(log)
  PROVE  \A v \in Reads[log'[Len(log')]] : val[v] = "live"
<1>1. log \in Seq(Positions)
  BY DEF LiveInv, TypeInv, TypeOK
<1>2. /\ phase = "exec" /\ cur < wend /\ cur \notin Pruned
      /\ log' = Append(log, cur)
  <2>1. Len(<< >>) <= Len(log) /\ Len(Append(log, cur)) = Len(log) + 1
    BY <1>1
  <2>2. QED
    BY <2>1 DEF Next, ExecutorStep, StartFullRun, StartPartialRun,
       ResumePartialRun, Terminated, SkipNode, ComputeNode, ComputeFails,
       ReleaseFails, FinishFullRun, FinishPartialRun, OutputsFail,
       SetTerminate, vars
<1>3. cur \in Positions
  BY <1>2, PlanSize DEF LiveInv, TypeInv, TypeOK, CursorsOK, Positions
<1>4. log'[Len(log')] = cur
  BY <1>1, <1>2, <1>3
<1>5. ASSUME NEW v \in Reads[cur] PROVE val[v] = "live"
  <2>1. v \in Values /\ Produced(cur, v) /\ Kept(cur, v)
    BY <1>2, <1>3, ReadsDue, ConstantsAssumption
  <2>2. LiveOK(cur, val)
    BY <1>2 DEF LiveInv
  <2>3. QED
    BY <2>1, <2>2 DEF LiveOK
<1>6. QED
  BY <1>4, <1>5

(* Spec 3 and 4.1: when no window is ever retried and intermediate tensor  *)
(* ownership stays with the frame, every Compute call reads only live      *)
(* slots: across all windows of a partial run and across full runs that    *)
(* kernels or releases cut short, ReleaseNodeMLValues never frees a slot   *)
(* a later node reads, and every slot read has been produced.              *)
THEOREM Lifecycle ==
  ASSUME NoRetry, ~TransferOwnership PROVE Spec => ValueLifecycle
<1>1. Spec => []LiveInv
  BY LiveInvInit, LiveInvNext, PTL DEF Spec
<1>2. LiveInv /\ [Next]_vars =>
        [Len(log') > Len(log) =>
           \A v \in Reads[log'[Len(log')]] : val[v] = "live"]_vars
  BY LiveStep
<1>3. QED
  BY <1>1, <1>2, PTL DEF Spec, ValueLifecycle

=============================================================================
