------------------- MODULE SequentialExecutorCoverProofs --------------------
(***************************************************************************)
(* Proof that the windows of a partial run cover the plan: whenever an     *)
(* Execute call returns OK, the positions computed over the frame's life   *)
(* are exactly the unpruned positions before the cursor (the plan end for  *)
(* a full run).  Failures, terminations and GetOutputs errors are allowed: *)
(* a window they cut short is retried from the same cursor, and its second *)
(* attempt only computes positions of the same window again.               *)
(***************************************************************************)
EXTENDS SequentialExecutorProofs

\* The unpruned plan positions before k: what the windows up to cursor k
\* must have computed.
Due(k) == {p \in Positions : p < k /\ p \notin Pruned}

\* The positions a sequence holds.
Elems(s) == {s[i] : i \in 1 .. Len(s)}

\* The inductive invariant.  During a full run the log is exactly what the
\* loop has passed; during a partial window it holds what the earlier
\* windows computed, what this window has passed, and possibly more of
\* this window from a failed attempt; a suspended frame's log lies between
\* its cursor and the end of the window that cursor starts.
CoverInv ==
  /\ TypeInv
  /\ (phase = "exec" /\ kind = "full") =>
        /\ ~registered
        /\ wend = N
        /\ Elems(log) = Due(cur)
  /\ (phase = "exec" /\ kind = "partial") =>
        /\ registered
        /\ pc <= cur
        /\ wend = WindowEnd(pc)
        /\ Due(cur) \subseteq Elems(log)
        /\ Elems(log) \subseteq Due(wend)
  /\ (phase = "idle" /\ registered) =>
        /\ Due(pc) \subseteq Elems(log)
        /\ Elems(log) \subseteq Due(WindowEnd(pc))
  /\ (phase = "idle" /\ status = "ok") =>
        Elems(log) = Due(IF kind = "full" THEN N ELSE pc)


-----------------------------------------------------------------------------
(* Lemmas about Due, Elems and the window scan.                           *)

\* Nothing is due before position 0.
LEMMA DueZero == Due(0) = {}
BY PlanSize DEF Due, Positions

\* Moving the cursor forward never makes fewer positions due.
LEMMA DueMono ==
  ASSUME NEW a \in Int, NEW b \in Int, a <= b
  PROVE  Due(a) \subseteq Due(b)
BY PlanSize DEF Due, Positions

\* Passing a pruned position adds nothing due; passing an unpruned one adds it.
LEMMA DueStep ==
  ASSUME NEW c \in Positions
  PROVE  /\ c \in Pruned => Due(c + 1) = Due(c)
         /\ c \notin Pruned => Due(c + 1) = Due(c) \cup {c}
<1>1. c \in Int
  BY PlanSize DEF Positions
<1>2. \A p \in Positions : p < c + 1 <=> (p < c \/ p = c)
  BY <1>1, PlanSize DEF Positions
<1>3. QED
  BY <1>2 DEF Due

\* The empty log holds nothing; appending adds the appended position.
LEMMA ElemsAppend ==
  ASSUME NEW S, NEW s \in Seq(S), NEW x \in S
  PROVE  /\ Elems(<< >>) = {}
         /\ Elems(Append(s, x)) = Elems(s) \cup {x}
<1>1. Elems(<< >>) = {}
  BY DEF Elems
<1>2. Elems(Append(s, x)) \subseteq Elems(s) \cup {x}
  BY DEF Elems
<1>3. Elems(s) \cup {x} \subseteq Elems(Append(s, x))
  <2>1. ASSUME NEW i \in 1 .. Len(s) PROVE s[i] \in Elems(Append(s, x))
    <3>1. i \in 1 .. Len(Append(s, x)) /\ Append(s, x)[i] = s[i]
      OBVIOUS
    <3>2. QED
      BY <3>1 DEF Elems
  <2>2. x \in Elems(Append(s, x))
    <3>1. Len(s) + 1 \in 1 .. Len(Append(s, x)) /\ Append(s, x)[Len(s) + 1] = x
      OBVIOUS
    <3>2. QED
      BY <3>1 DEF Elems
  <2>3. QED
    BY <2>1, <2>2 DEF Elems
<1>4. QED
  BY <1>1, <1>2, <1>3

\* The empty log holds nothing.
LEMMA ElemsEmpty == Elems(<< >>) = {}
BY DEF Elems

\* The scan never ends before its start.
LEMMA WindowEndAtLeast ==
  ASSUME NEW s \in Nat
  PROVE  WindowEnd(s) \in Nat /\ s <= WindowEnd(s)
<1>1. CASE s < N
  <2>1. s \in Positions
    BY <1>1, PlanSize DEF Positions
  <2>2. WindowEnd(s) \in (s + 1) .. N
    BY <2>1, WindowEndInPlan
  <2>3. QED
    BY <2>2, PlanSize
<1>2. CASE s >= N
  BY <1>2, WindowEndPastPlan
<1>3. QED
  BY <1>1, <1>2, PlanSize


-----------------------------------------------------------------------------
(* The invariant is inductive.                                             *)

LEMMA CoverInvInit == Init => CoverInv
<1> SUFFICES ASSUME Init PROVE CoverInv
  OBVIOUS
<1>1. TypeInv
  BY TypeInvInit
<1>2. QED
  BY <1>1 DEF Init, CoverInv

\* Without ownership transfer every step keeps the log between the due
\* positions of the cursors, whatever fails.
LEMMA CoverInvNext ==
  ~TransferOwnership /\ CoverInv /\ [Next]_vars => CoverInv'
<1> SUFFICES ASSUME ~TransferOwnership, CoverInv, [Next]_vars PROVE CoverInv'
  OBVIOUS
<1>0. TypeInv'
  BY TypeInvNext DEF CoverInv
<1>1. /\ log \in Seq(Positions)
      /\ {pc, cur, wend} \subseteq Nat
      /\ phase = "exec" /\ cur < wend => cur \in Positions
  BY PlanSize DEF CoverInv, TypeInv, TypeOK, CursorsOK, Positions
\* A registered frame during a call belongs to a partial run, whose cursor
\* lies at or before the loop counter.
<1>2. (phase = "exec" /\ registered) =>
         /\ kind = "partial"
         /\ Due(pc) \subseteq Due(cur)
         /\ wend = WindowEnd(pc)
  <2>1. (phase = "exec" /\ registered) => kind = "partial" /\ pc <= cur
    BY DEF CoverInv, TypeInv, TypeOK
  <2>2. QED
    BY <1>1, <2>1, DueMono DEF CoverInv
<1> USE DEF CoverInv
<1>3. CASE StartFullRun
  <2>1. Elems(log') = Due(cur')
    BY <1>3, DueZero, ElemsEmpty DEF StartFullRun
  <2>2. QED
    BY <1>0, <1>3, <2>1 DEF StartFullRun
<1>4. CASE StartPartialRun
  <2>1. Elems(log') = Due(cur') /\ Elems(log') = {}
    BY <1>4, DueZero, ElemsEmpty DEF StartPartialRun
  <2>2. QED
    BY <1>0, <1>4, <2>1 DEF StartPartialRun
<1>5. CASE ResumePartialRun
  BY <1>0, <1>1, <1>5 DEF ResumePartialRun
<1>6. CASE Terminated \/ OutputsFail
  <2>1. /\ phase' = "idle" /\ status' # "ok" /\ phase = "exec"
        /\ UNCHANGED <<pc, log, registered, wend, cur>>
    BY <1>6 DEF Terminated, OutputsFail
  <2>2. QED
    BY <1>0, <1>2, <2>1
<1>7. CASE SkipNode
  <2>1. cur \in Positions /\ cur \in Pruned /\ cur' = cur + 1
    BY <1>1, <1>7 DEF SkipNode
  <2>2. Due(cur') = Due(cur)
    BY <2>1, DueStep
  <2>3. pc <= cur => pc <= cur'
    BY <1>1, <1>7 DEF SkipNode
  <2>4. QED
    BY <1>0, <1>7, <2>2, <2>3 DEF SkipNode
<1>8. CASE ComputeNode
  <2>1. cur \in Positions /\ cur \notin Pruned /\ cur < wend
    BY <1>1, <1>8 DEF ComputeNode
  <2>2. Due(cur') = Due(cur) \cup {cur}
    BY <1>8, <2>1, DueStep DEF ComputeNode
  <2>3. Elems(log') = Elems(log) \cup {cur}
    BY <1>1, <1>8, <2>1, ElemsAppend DEF ComputeNode
  <2>4. cur \in Due(wend)
    BY <2>1 DEF Due
  <2>5. pc <= cur => pc <= cur'
    BY <1>1, <1>8 DEF ComputeNode
  <2>6. QED
    BY <1>0, <1>8, <2>2, <2>3, <2>4, <2>5 DEF ComputeNode
<1>9. CASE ComputeFails \/ ReleaseFails
  <2>1. /\ phase' = "idle" /\ status' # "ok" /\ phase = "exec"
        /\ cur \in Positions /\ cur < wend /\ cur \notin Pruned
        /\ log' = Append(log, cur)
        /\ UNCHANGED <<pc, registered, wend, cur>>
    BY <1>1, <1>9 DEF ComputeFails, ReleaseFails
  <2>2. Elems(log') = Elems(log) \cup {cur}
    BY <1>1, <2>1, ElemsAppend
  <2>3. cur \in Due(wend)
    BY <2>1 DEF Due
  <2>4. QED
    BY <1>0, <1>2, <2>1, <2>2, <2>3
<1>10. CASE FinishFullRun
  BY <1>0, <1>10 DEF FinishFullRun
<1>11. CASE FinishPartialRun
  <2>1. /\ pc' = wend /\ cur = wend /\ kind = "partial"
        /\ phase' = "idle" /\ status' = "ok" /\ kind' = "partial"
        /\ UNCHANGED log
    BY <1>11 DEF FinishPartialRun, NextCursor
  <2>2. Elems(log) = Due(wend)
    BY <1>11, <2>1 DEF FinishPartialRun
  <2>3. Due(wend) \subseteq Due(WindowEnd(wend))
    BY <1>1, WindowEndAtLeast, DueMono
  <2>4. QED
    BY <1>0, <2>1, <2>2, <2>3
<1>12. CASE SetTerminate
  BY <1>0, <1>12 DEF SetTerminate
<1>13. CASE UNCHANGED vars
  BY <1>0, <1>13 DEF vars
<1>14. QED
  BY <1>3, <1>4, <1>5, <1>6, <1>7, <1>8, <1>9, <1>10, <1>11, <1>12, <1>13
  DEF Next, ExecutorStep

(* Spec 8: without ownership transfer, whenever an Execute call returns OK *)
(* the windows executed so far cover exactly the unpruned positions before *)
(* the frame's cursor (the whole plan for a full run), for every plan and  *)
(* even when kernels, releases and GetOutputs fail and windows are         *)
(* retried.  With transfer the cursor skips each window's end node (line   *)
(* 237), and the property fails.                                           *)
THEOREM CoverPlan ==
  ASSUME ~TransferOwnership PROVE Spec => []WindowsCoverPlan
<1>1. Spec => []CoverInv
  BY CoverInvInit, CoverInvNext, PTL DEF Spec
<1>2. CoverInv => WindowsCoverPlan
  BY DEF CoverInv, WindowsCoverPlan, Elems, Due
<1>3. QED
  BY <1>1, <1>2, PTL

=============================================================================
