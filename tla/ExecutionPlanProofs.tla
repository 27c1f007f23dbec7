------------------------ MODULE ExecutionPlanProofs ------------------------
(***************************************************************************)
(* Facts about the execution plan that the proofs about the executor and  *)
(* about its fence passes share: the scan that ends a partial window.      *)
(***************************************************************************)
EXTENDS ExecutionPlan, WellFoundedInduction, TLAPS

-----------------------------------------------------------------------------
(* The window scan.                                                        *)

\* Every non-empty set of naturals has a least element.
LEMMA LeastNatural ==
  ASSUME NEW T \in SUBSET Nat, T # {}
  PROVE  \E m \in T : \A k \in T : m <= k
<1>1. \E m \in T : \A k \in T : ~(<<k, m>> \in OpToRel(<, Nat))
  BY NatLessThanWellFounded, WFMin
<1>2. PICK m \in T : \A k \in T : ~(<<k, m>> \in OpToRel(<, Nat))
  BY <1>1
<1>3. ASSUME NEW k \in T PROVE m <= k
  <2>1. k < m => <<k, m>> \in OpToRel(<, Nat)
    BY DEF OpToRel
  <2>2. ~(k < m)
    BY <1>2, <2>1
  <2>3. QED
    BY <2>2
<1>4. QED
  BY <1>3

\* The scan of lines 173-179 stops inside the plan and after its start, at
\* a YieldOp or at the plan end: a window started inside the plan holds at
\* least one node, and the node after it is a YieldOp.
LEMMA WindowEndInPlan ==
  ASSUME NEW s \in Positions
  PROVE  /\ WindowEnd(s) \in (s + 1) .. N
         /\ WindowEnd(s) = N \/ WindowEnd(s) \in Yield
<1> DEFINE Stop(e) == e = N \/ (e \in Yield /\ e # s)
           Scan(e) == /\ Stop(e)
                      /\ \A f \in s .. (e - 1) : f \notin Yield \/ f = s
           T == {e \in s .. N : Stop(e)}
<1>0. s \in Nat /\ s < N /\ N \in Nat
  BY PlanAssumption DEF Positions
<1>1. T \in SUBSET Nat /\ T # {}
  <2>1. N \in T
    BY <1>0
  <2>2. QED
    BY <1>0, <2>1
<1>2. PICK m \in T : \A k \in T : m <= k
  BY <1>1, LeastNatural
<1>3. Scan(m)
  <2>1. Stop(m)
    BY <1>2
  <2>2. ASSUME NEW f \in s .. (m - 1), f \in Yield, f # s PROVE FALSE
    <3>1. f \in T
      BY <1>0, <1>2, <2>2
    <3>2. QED
      BY <1>0, <1>2, <3>1
  <2>3. QED
    BY <2>1, <2>2
<1>4. \E e \in s .. N : Scan(e)
  BY <1>2, <1>3
<1>5. WindowEnd(s) = CHOOSE e \in s .. N : Scan(e)
  <2>1. ~(s >= N)
    BY <1>0
  <2>2. QED
    BY <2>1, Zenon DEF WindowEnd, Scan, Stop
<1>6. WindowEnd(s) \in s .. N /\ Stop(WindowEnd(s))
  BY <1>4, <1>5
<1>7. QED
  BY <1>0, <1>6

\* Past the plan the scan does not move.
LEMMA WindowEndPastPlan ==
  ASSUME NEW s \in Nat, s >= N
  PROVE  WindowEnd(s) = s
BY DEF WindowEnd

=============================================================================
