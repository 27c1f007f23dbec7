----------------- MODULE SequentialExecutorRefinementProofs ------------------
(***************************************************************************)
(* Proof that SequentialExecutor implements FrameRuns under the refinement *)
(* mapping of SequentialExecutorRefinement, for every plan, pruned set and *)
(* setting of the constants.  While a call runs, the concrete log is the   *)
(* abstract frame's log followed by the run of the call's node loop so     *)
(* far; a step of the loop only lengthens that run, and the step that ends *)
(* the call hands the abstract frame the whole window, or a prefix of it.  *)
(***************************************************************************)
EXTENDS SequentialExecutorRefinement, SequentialExecutorProofs,
        FiniteSetTheorems, TLAPS

\* The positions the running call's node loop has computed, in order.
CallRun == Abs!Run(CallStart, cur)

\* The inductive invariant.  A full run's frame is not registered and starts
\* empty; a partial window runs from the registered frame's cursor to the
\* end its scan found; the log holds the frame's calls before this one and
\* then the run of this call's loop.
RefInv ==
  /\ TypeInv
  /\ terminate => Faults
  /\ (phase = "exec" /\ kind = "full") =>
        /\ ~registered /\ "full" \in Modes /\ wend = N /\ absLog = << >>
  /\ (phase = "exec" /\ kind = "partial") =>
        /\ registered /\ wend = WindowEnd(pc) /\ pc <= cur
  /\ phase = "exec" => log = absLog \o CallRun

-----------------------------------------------------------------------------
(* Facts about the abstract windows: Run(s, e) is the ascending list of   *)
(* the unpruned positions of [s, e), it grows by one entry for each       *)
(* unpruned position passed, and a shorter run is a prefix of a longer    *)
(* one.  Induction over the end of a run takes the least end at which a   *)
(* claim fails (LeastNatural).                                             *)

\* r is the list Run(s, e) chooses: the unpruned positions of [s, e),
\* ascending, one entry each.
IsRun(s, e, r) ==
  /\ r \in [1 .. Cardinality(Abs!Unpruned(s, e)) -> Abs!Unpruned(s, e)]
  /\ Abs!Lists(r, Abs!Unpruned(s, e))

-----------------------------------------------------------------------------
(* The unpruned positions.                                                 *)

\* FrameRuns counts with its own instance of FiniteSets' Cardinality.
LEMMA AbsCardinality ==
  ASSUME NEW S PROVE Abs!Cardinality(S) = Cardinality(S)
BY DEF Abs!Cardinality, Cardinality

\* The unpruned positions of an interval form a finite set.
LEMMA UnprunedFinite ==
  ASSUME NEW s \in Int, NEW e \in Int
  PROVE  /\ IsFiniteSet(Abs!Unpruned(s, e))
         /\ Cardinality(Abs!Unpruned(s, e)) \in Nat
<1>1. IsFiniteSet(s .. (e - 1))
  BY FS_Interval
<1>2. IsFiniteSet(Abs!Unpruned(s, e))
  BY <1>1, FS_Subset DEF Abs!Unpruned
<1>3. QED
  BY <1>2, FS_CardinalityType

\* Moving the end of an interval past position k adds k unless it is pruned.
LEMMA UnprunedStep ==
  ASSUME NEW s \in Int, NEW k \in Int, s <= k
  PROVE  /\ k \notin Abs!Unpruned(s, k)
         /\ k \in Pruned => Abs!Unpruned(s, k + 1) = Abs!Unpruned(s, k)
         /\ k \notin Pruned => Abs!Unpruned(s, k + 1) = Abs!Unpruned(s, k) \cup {k}
BY DEF Abs!Unpruned

-----------------------------------------------------------------------------
(* Abs!Run is well defined.                                                    *)

\* Two ascending lists of one set that agree before index m cannot have
\* a smaller entry at m in the first: the other list holds that entry at an
\* index before m, where the first holds the same smaller entry.
LEMMA ListsFirstDifference ==
  ASSUME NEW n \in Nat, NEW S \in SUBSET Int,
         NEW a \in [1 .. n -> S], NEW b \in [1 .. n -> S],
         Abs!Lists(a, S), Abs!Lists(b, S), NEW m \in 1 .. n, a[m] < b[m],
         \A j \in 1 .. (m - 1) : a[j] = b[j]
  PROVE  FALSE
<1>0. \A i \in 1 .. n : a[i] \in Int /\ b[i] \in Int
  OBVIOUS
<1>1. PICK j \in 1 .. n : b[j] = a[m]
  <2>1. a[m] \in {b[i] : i \in DOMAIN b}
    BY DEF Abs!Lists
  <2>2. QED
    BY <2>1
<1>2. \A i, k \in 1 .. n : i < k => a[i] < a[k] /\ b[i] < b[k]
  BY DEF Abs!Lists
<1>3. j < m
  <2>1. j # m
    BY <1>0, <1>1
  <2>2. ~(m < j)
    BY <1>0, <1>1, <1>2
  <2>3. QED
    BY <2>1, <2>2
<1>4. a[j] = a[m]
  BY <1>1, <1>3
<1>5. QED
  BY <1>0, <1>2, <1>3, <1>4

\* Two ascending lists of one set of integers, of one length, are equal.
LEMMA ListsUnique ==
  ASSUME NEW n \in Nat, NEW S \in SUBSET Int,
         NEW r \in [1 .. n -> S], NEW t \in [1 .. n -> S],
         Abs!Lists(r, S), Abs!Lists(t, S)
  PROVE  r = t
<1> SUFFICES ASSUME r # t PROVE FALSE
  OBVIOUS
<1> DEFINE D == {i \in 1 .. n : r[i] # t[i]}
<1>1. D \in SUBSET Nat /\ D # {}
  OBVIOUS
<1>2. PICK m \in D : \A k \in D : m <= k
  BY <1>1, LeastNatural
<1>3. \A j \in 1 .. (m - 1) : r[j] = t[j]
  BY <1>2
<1>4. r[m] < t[m] \/ t[m] < r[m]
  <2>1. r[m] \in Int /\ t[m] \in Int /\ r[m] # t[m]
    BY <1>2
  <2>2. QED
    BY <2>1
<1>5. QED
  BY <1>3, <1>4, ListsFirstDifference

\* A list satisfying Abs!Run's condition is the run.
LEMMA RunIs ==
  ASSUME NEW s \in Int, NEW e \in Int, NEW r, IsRun(s, e, r)
  PROVE  Abs!Run(s, e) = r
<1>1. IsRun(s, e, Abs!Run(s, e))
  <2>1. \E r0 \in [1 .. Cardinality(Abs!Unpruned(s, e)) -> Abs!Unpruned(s, e)] :
           Abs!Lists(r0, Abs!Unpruned(s, e))
    BY DEF IsRun
  <2>2. Abs!Run(s, e) = CHOOSE r0 \in [1 .. Cardinality(Abs!Unpruned(s, e)) -> Abs!Unpruned(s, e)] :
                          Abs!Lists(r0, Abs!Unpruned(s, e))
    BY AbsCardinality DEF Abs!Run
  <2>3. /\ Abs!Run(s, e) \in [1 .. Cardinality(Abs!Unpruned(s, e)) -> Abs!Unpruned(s, e)]
        /\ Abs!Lists(Abs!Run(s, e), Abs!Unpruned(s, e))
    BY <2>1, <2>2
  <2>4. QED
    BY <2>3 DEF IsRun
<1>2. Cardinality(Abs!Unpruned(s, e)) \in Nat
  BY UnprunedFinite
<1>3. Abs!Unpruned(s, e) \in SUBSET Int
  BY DEF Abs!Unpruned
<1>4. QED
  BY <1>1, <1>2, <1>3, ListsUnique DEF IsRun

\* An empty interval has the empty run.
LEMMA RunEmpty ==
  ASSUME NEW s \in Int PROVE IsRun(s, s, << >>)
<1>1. Abs!Unpruned(s, s) = {}
  BY DEF Abs!Unpruned
<1>2. Cardinality(Abs!Unpruned(s, s)) = 0
  BY <1>1, FS_EmptySet
<1>3. QED
  BY <1>1, <1>2 DEF IsRun, Abs!Lists

\* Passing position k extends the run by k unless k is pruned.
LEMMA RunAppend ==
  ASSUME NEW s \in Int, NEW k \in Int, s <= k, NEW r, IsRun(s, k, r)
  PROVE  IsRun(s, k + 1, IF k \in Pruned THEN r ELSE Append(r, k))
<1>1. CASE k \in Pruned
  BY <1>1, UnprunedStep DEF IsRun
<1>2. CASE k \notin Pruned
  <2> DEFINE U == Abs!Unpruned(s, k)
             c == Cardinality(U)
             a == Append(r, k)
  <2>1. /\ Abs!Unpruned(s, k + 1) = U \cup {k} /\ k \notin U
        /\ c \in Nat /\ Cardinality(U \cup {k}) = c + 1
    <3>1. Abs!Unpruned(s, k + 1) = U \cup {k} /\ k \notin U
      BY <1>2, UnprunedStep
    <3>2. IsFiniteSet(U) /\ c \in Nat
      BY UnprunedFinite
    <3>3. QED
      BY <3>1, <3>2, FS_AddElement
  <2>2. /\ r \in [1 .. c -> U] /\ Abs!Lists(r, U)
    BY DEF IsRun
  <2>3. \A i \in 1 .. c : r[i] < k
    BY <2>2 DEF Abs!Unpruned
  <2>4. /\ DOMAIN a = 1 .. (c + 1)
        /\ \A i \in 1 .. c : a[i] = r[i]
        /\ a[c + 1] = k
    BY <2>1, <2>2
  <2>5. a \in [1 .. (c + 1) -> U \cup {k}]
    <3>1. r \in Seq(U \cup {k}) /\ Len(r) = c
      BY <2>1, <2>2
    <3>2. a \in Seq(U \cup {k}) /\ Len(a) = c + 1
      <4>1. k \in U \cup {k}
        OBVIOUS
      <4>2. QED
        BY <3>1, <4>1, AppendProperties
    <3>3. a \in [1 .. Len(a) -> U \cup {k}]
      BY <3>2, LenProperties
    <3>4. QED
      BY <3>2, <3>3
  <2>6. \A i, j \in DOMAIN a : i < j => a[i] < a[j]
    BY <2>1, <2>2, <2>3, <2>4 DEF Abs!Lists
  <2>7. {a[i] : i \in DOMAIN a} = U \cup {k}
    <3>1. {r[i] : i \in 1 .. c} = U
      BY <2>2 DEF Abs!Lists
    <3>2. QED
      BY <2>1, <2>4, <3>1
  <2>8. (IF k \in Pruned THEN r ELSE a) = a
    BY <1>2
  <2>9. /\ a \in [1 .. Cardinality(Abs!Unpruned(s, k + 1)) -> Abs!Unpruned(s, k + 1)]
        /\ Abs!Lists(a, Abs!Unpruned(s, k + 1))
    BY <2>1, <2>5, <2>6, <2>7 DEF Abs!Lists
  <2>10. QED
    BY <2>8, <2>9 DEF IsRun
<1>3. QED
  BY <1>1, <1>2

\* Abs!Run(s, e) is the ascending list of the unpruned positions of [s, e),
\* for every s <= e: the least end at which no such list existed would
\* extend the list at the end before it.
LEMMA RunExists ==
  ASSUME NEW s \in Nat, NEW e \in Nat, s <= e
  PROVE  IsRun(s, e, Abs!Run(s, e))
<1> DEFINE T == {k \in s .. e : ~IsRun(s, k, Abs!Run(s, k))}
<1> SUFFICES ASSUME T # {} PROVE FALSE
  OBVIOUS
<1>1. PICK m \in T : \A k \in T : m <= k
  <2>1. T \in SUBSET Nat
    OBVIOUS
  <2>2. QED
    BY <2>1, LeastNatural
<1>2. m # s
  BY RunEmpty, RunIs
<1>3. m - 1 \in s .. e /\ m - 1 \notin T
  BY <1>1, <1>2
<1>4. IsRun(s, m, IF m - 1 \in Pruned THEN Abs!Run(s, m - 1)
                  ELSE Append(Abs!Run(s, m - 1), m - 1))
  BY <1>3, RunAppend
<1>5. QED
  BY <1>1, <1>4, RunIs

-----------------------------------------------------------------------------
(* How runs grow.                                                          *)

\* A run is a sequence of positions of its interval, one per unpruned one.
LEMMA RunType ==
  ASSUME NEW s \in Nat, NEW e \in Nat, s <= e
  PROVE  /\ Abs!Run(s, e) \in Seq(Nat)
         /\ Len(Abs!Run(s, e)) = Cardinality(Abs!Unpruned(s, e))
<1>1. IsRun(s, e, Abs!Run(s, e)) /\ Cardinality(Abs!Unpruned(s, e)) \in Nat
  BY RunExists, UnprunedFinite
<1>2. Abs!Unpruned(s, e) \subseteq Nat
  BY DEF Abs!Unpruned
<1>3. QED
  BY <1>1, <1>2 DEF IsRun

\* The run to k + 1 is the run to k, followed by k when k is unpruned.
LEMMA RunStep ==
  ASSUME NEW s \in Nat, NEW k \in Nat, s <= k
  PROVE  Abs!Run(s, k + 1) = IF k \in Pruned THEN Abs!Run(s, k) ELSE Append(Abs!Run(s, k), k)
BY RunExists, RunAppend, RunIs

\* The run to k is a prefix of the run to any later end: the least end at
\* which it was not would extend the run before it, of which it is a prefix.
LEMMA RunPrefix ==
  ASSUME NEW s \in Nat, NEW k \in Nat, NEW e \in Nat, s <= k, k <= e
  PROVE  Abs!Run(s, k) \in Abs!Prefixes(Abs!Run(s, e))
<1> DEFINE T == {f \in k .. e : Abs!Run(s, k) \notin Abs!Prefixes(Abs!Run(s, f))}
<1> SUFFICES ASSUME T # {} PROVE FALSE
  OBVIOUS
<1>1. PICK m \in T : \A f \in T : m <= f
  <2>1. T \in SUBSET Nat
    OBVIOUS
  <2>2. QED
    BY <2>1, LeastNatural
<1>2. m # k
  <2>1. Abs!Run(s, k) \in Seq(Nat)
    BY RunType
  <2>2. Abs!Run(s, k) = SubSeq(Abs!Run(s, k), 1, Len(Abs!Run(s, k)))
    BY <2>1, SubSeqFull
  <2>3. Len(Abs!Run(s, k)) \in 0 .. Len(Abs!Run(s, k))
    BY <2>1, LenProperties
  <2>4. Abs!Run(s, k) \in Abs!Prefixes(Abs!Run(s, k))
    BY <2>2, <2>3 DEF Abs!Prefixes
  <2>5. QED
    BY <1>1, <2>4
<1>3. m - 1 \in k .. e /\ m - 1 \notin T /\ s <= m - 1
  BY <1>1, <1>2
<1> DEFINE r == Abs!Run(s, m - 1)
<1>4. r \in Seq(Nat)
  BY <1>3, RunType
<1>5. PICK j \in 0 .. Len(r) : Abs!Run(s, k) = SubSeq(r, 1, j)
  BY <1>3 DEF Abs!Prefixes
<1>6. Abs!Run(s, m) = IF m - 1 \in Pruned THEN r ELSE Append(r, m - 1)
  <2>1. m - 1 \in Nat /\ s <= m - 1 /\ (m - 1) + 1 = m
    BY <1>3
  <2>2. Abs!Run(s, (m - 1) + 1) = IF m - 1 \in Pruned THEN r ELSE Append(r, m - 1)
    BY <2>1, RunStep
  <2>3. QED
    BY <2>1, <2>2
<1>7. CASE m - 1 \notin Pruned
  <2>1. /\ Len(Append(r, m - 1)) = Len(r) + 1
        /\ SubSeq(Append(r, m - 1), 1, j) = SubSeq(r, 1, j)
    BY <1>4, <1>5
  <2>2. Abs!Run(s, k) \in Abs!Prefixes(Append(r, m - 1))
    BY <1>5, <2>1 DEF Abs!Prefixes
  <2>3. QED
    BY <1>1, <1>6, <1>7, <2>2
<1>8. CASE m - 1 \in Pruned
  BY <1>1, <1>3, <1>6, <1>8
<1>9. QED
  BY <1>7, <1>8

-----------------------------------------------------------------------------
(* The mapped log.                                                         *)

\* A run of the loop is a list of positions, as long as the number of
\* Compute calls CallComputed counts.
LEMMA RunFacts ==
  ASSUME NEW s \in Nat, NEW c \in Nat, s <= c
  PROVE  /\ Abs!Run(s, c) \in Seq(Nat)
         /\ Len(Abs!Run(s, c)) = Cardinality({p \in s .. (c - 1) : p \notin Pruned})
BY RunType DEF Abs!Unpruned

\* Cutting the last Len(Q) entries off P \o Q leaves P.
LEMMA SplitConcat ==
  ASSUME NEW P \in Seq(Nat), NEW Q \in Seq(Nat)
  PROVE  SubSeq(P \o Q, 1, Len(P \o Q) - Len(Q)) = P
<1>1. Len(P \o Q) - Len(Q) = Len(P)
  BY ConcatProperties
<1>2. QED
  BY <1>1, ConcatProperties

\* The loop of a call never starts after its counter.
LEMMA CallStartFacts ==
  ASSUME RefInv, phase = "exec"
  PROVE  /\ CallStart \in Nat /\ CallStart <= cur
         /\ CallRun \in Seq(Nat) /\ CallComputed = Len(CallRun)
<1>1. CallStart \in Nat /\ CallStart <= cur /\ cur \in Nat
  BY DEF RefInv, TypeInv, TypeOK, CallStart
<1>2. /\ Abs!Run(CallStart, cur) \in Seq(Nat)
      /\ Len(Abs!Run(CallStart, cur))
           = Cardinality({p \in CallStart .. (cur - 1) : p \notin Pruned})
  BY <1>1, RunFacts
<1>3. QED
  BY <1>1, <1>2 DEF CallRun, CallComputed

\* The mapped log is a list of positions.
LEMMA AbsLogType ==
  ASSUME RefInv PROVE absLog \in Seq(Nat)
<1>1. log \in Seq(Nat)
  <2>1. log \in Seq(Positions) /\ Positions \subseteq Nat
    BY PlanSize DEF RefInv, TypeInv, TypeOK, Positions
  <2>2. QED
    BY <2>1, SeqMonotonic
<1>2. CASE phase = "exec"
  <2>1. CallComputed \in Nat
    BY <1>2, CallStartFacts
  <2>2. \A i \in 1 .. (Len(log) - CallComputed) : log[i] \in Nat
    BY <1>1, <2>1
  <2>3. SubSeq(log, 1, Len(log) - CallComputed) \in Seq(Nat)
    <3>1. Len(log) - CallComputed \in Int /\ 1 \in Int
      BY <1>1, <2>1
    <3>2. QED
      BY <2>2, <3>1, SubSeqProperties
  <2>4. QED
    BY <1>2, <2>3 DEF absLog
<1>3. CASE phase # "exec"
  BY <1>1, <1>3 DEF absLog
<1>4. QED
  BY <1>2, <1>3


\* Appending to the end of P \o Q appends to Q.
LEMMA AppendConcat ==
  ASSUME NEW P \in Seq(Nat), NEW Q \in Seq(Nat), NEW x \in Nat
  PROVE  Append(P \o Q, x) = P \o Append(Q, x)
<1>1. Append(P \o Q, x) = (P \o Q) \o << x >>
  BY ConcatProperties, AppendIsConcat
<1>2. Append(Q, x) = Q \o << x >>
  BY AppendIsConcat
<1>3. << x >> \in Seq(Nat)
  OBVIOUS
<1>4. QED
  BY <1>1, <1>2, <1>3, ConcatAssociative

\* FrameRuns reads the plan through its own instance of ExecutionPlan.
LEMMA AbsPlan ==
  /\ \A s : Abs!WindowEnd(s) = WindowEnd(s)
  /\ \A e : Abs!ResumeAt(e) = NextCursor(e)
BY DEF Abs!WindowEnd, WindowEnd, Abs!ResumeAt, NextCursor

\* During a call the cursors are naturals in order, and the log is the
\* frame's earlier calls followed by this call's run.
LEMMA ExecFacts ==
  ASSUME RefInv, phase = "exec"
  PROVE  /\ cur \in Nat /\ wend \in Nat /\ pc \in Nat
         /\ CallStart \in Nat /\ CallStart <= cur /\ cur <= wend
         /\ absLog \in Seq(Nat) /\ CallRun \in Seq(Nat)
         /\ log = absLog \o CallRun
BY CallStartFacts, AbsLogType DEF RefInv, TypeInv, TypeOK, CursorsOK

\* The counters of a call whose loop is at its start: nothing computed yet.
LEMMA CallAtStart ==
  ASSUME NEW s \in Nat
  PROVE  /\ Abs!Run(s, s) = << >>
         /\ Cardinality({p \in s .. (s - 1) : p \notin Pruned}) = 0
<1>1. {p \in s .. (s - 1) : p \notin Pruned} = {}
  OBVIOUS
<1>2. QED
  BY <1>1, RunEmpty, RunIs, FS_EmptySet

-----------------------------------------------------------------------------
(* The step mapping, one lemma per group of actions.                       *)

\* Execute on a new frame (lines 135-137, 146-156) creates the abstract
\* frame: the mapped log is empty, as the concrete one is.
LEMMA StartRefines ==
  ASSUME RefInv, StartFullRun \/ StartPartialRun
  PROVE  RefInv' /\ Abs!NewFrame
<1>0. TypeInv'
  BY TypeInvNext DEF RefInv, Next
<1>1. /\ log' = << >> /\ phase' = "exec" /\ cur' = 0 /\ CallStart' = 0
      /\ terminate' = FALSE /\ ~registered
  BY DEF StartFullRun, StartPartialRun, CallStart
<1>2. CallRun' = << >> /\ CallComputed' = 0
  BY <1>1, CallAtStart DEF CallRun, CallComputed
<1>3. absLog' = << >>
  <2>1. absLog' = SubSeq(<< >>, 1, 0)
    BY <1>1, <1>2 DEF absLog
  <2>2. QED
    BY <2>1
<1>4. log' = absLog' \o CallRun'
  BY <1>1, <1>2, <1>3
<1>5. CASE StartFullRun
  <2>1. RefInv'
    BY <1>0, <1>1, <1>3, <1>4, <1>5 DEF StartFullRun, RefInv
  <2>2. Abs!NewFrame
    BY <1>1, <1>3, <1>5 DEF StartFullRun, Abs!NewFrame
  <2>3. QED
    BY <2>1, <2>2
<1>6. CASE StartPartialRun
  <2>1. RefInv'
    BY <1>0, <1>1, <1>3, <1>4, <1>6 DEF StartPartialRun, RefInv
  <2>2. Abs!NewFrame
    BY <1>1, <1>3, <1>6 DEF StartPartialRun, Abs!NewFrame
  <2>3. QED
    BY <2>1, <2>2
<1>7. QED
  BY <1>5, <1>6

\* Resuming a registered frame (lines 157-181) is invisible to the
\* abstract frame until the window ends.
LEMMA ResumeRefines ==
  ASSUME RefInv, ResumePartialRun
  PROVE  RefInv' /\ UNCHANGED Abs!absVars
<1>0. TypeInv'
  BY TypeInvNext DEF RefInv, Next, ExecutorStep
<1>1. /\ log' = log /\ phase = "idle" /\ phase' = "exec" /\ pc \in Nat
      /\ cur' = pc /\ CallStart' = pc /\ terminate' = FALSE
      /\ log \in Seq(Nat)
  BY LogOfNaturals DEF ResumePartialRun, CallStart, RefInv, TypeInv, TypeOK
<1>2. CallRun' = << >> /\ CallComputed' = 0
  BY <1>1, CallAtStart DEF CallRun, CallComputed
<1>3. absLog' = log /\ absLog = log
  <2>1. absLog' = SubSeq(log, 1, Len(log))
    BY <1>1, <1>2 DEF absLog
  <2>2. QED
    BY <1>1, <2>1, SubSeqFull DEF absLog
<1>4. log' = absLog' \o CallRun'
  BY <1>1, <1>2, <1>3, ConcatEmptySeq
<1>5. RefInv'
  BY <1>0, <1>1, <1>4, PlanSize DEF ResumePartialRun, RefInv
<1>6. QED
  BY <1>3, <1>5 DEF ResumePartialRun, Abs!absVars


\* A step of the node loop (lines 322-556), and the terminate flag set by
\* another thread, leave the abstract frame as it was: the entries the loop
\* appends belong to the call, which the abstract frame sees only whole.
LEMMA LoopRefines ==
  ASSUME RefInv, SkipNode \/ ComputeNode \/ SetTerminate
  PROVE  RefInv' /\ UNCHANGED Abs!absVars
<1>0. TypeInv'
  BY TypeInvNext DEF RefInv, Next, ExecutorStep
<1>1. /\ cur \in Nat /\ wend \in Nat /\ pc \in Nat
      /\ CallStart \in Nat /\ CallStart <= cur /\ cur <= wend
      /\ absLog \in Seq(Nat) /\ CallRun \in Seq(Nat)
      /\ log = absLog \o CallRun
  BY ExecFacts DEF SkipNode, ComputeNode, SetTerminate
<1>2. /\ phase = "exec" /\ phase' = "exec" /\ CallStart' = CallStart
      /\ UNCHANGED <<kind, pc, wend, registered>>
  BY DEF SkipNode, ComputeNode, SetTerminate, CallStart
<1>3. (terminate => Faults)'
  BY DEF SkipNode, ComputeNode, SetTerminate, RefInv
<1>4. /\ absLog' = absLog
      /\ log' = absLog' \o CallRun'
      /\ cur <= cur'
  <2>1. CASE SetTerminate
    <3>1. UNCHANGED <<phase, kind, pc, cur, log>>
      BY <2>1 DEF SetTerminate
    <3>2. CallStart' = CallStart /\ CallRun' = CallRun /\ CallComputed' = CallComputed
      BY <3>1 DEF CallStart, CallRun, CallComputed
    <3>3. absLog' = absLog
      BY <3>1, <3>2 DEF absLog
    <3>4. QED
      BY <1>1, <3>1, <3>2, <3>3
  <2>2. CASE SkipNode
    <3>3. cur' = cur + 1 /\ cur \in Pruned /\ log' = log
      BY <2>2 DEF SkipNode
    <3>4. CallRun' = CallRun
      BY <1>1, <1>2, <3>3, RunStep DEF CallRun
    <3>5. CallComputed' = CallComputed
      <4>1. Abs!Unpruned(CallStart, cur + 1) = Abs!Unpruned(CallStart, cur)
        BY <1>1, <3>3, UnprunedStep
      <4>2. QED
        BY <1>2, <3>3, <4>1 DEF CallComputed, Abs!Unpruned
    <3>6. absLog' = SubSeq(log', 1, Len(log') - CallComputed')
      BY <1>2 DEF absLog
    <3>7. absLog = SubSeq(log, 1, Len(log) - CallComputed)
      BY <2>2 DEF absLog, SkipNode
    <3>8. absLog' = absLog
      BY <3>3, <3>5, <3>6, <3>7
    <3>9. QED
      BY <1>1, <3>3, <3>4, <3>8
  <2>7. CASE ComputeNode
    <3>8. cur' = cur + 1 /\ cur \notin Pruned /\ log' = Append(log, cur)
      BY <2>7 DEF ComputeNode
    <3>9. CallRun' = Append(CallRun, cur)
      BY <1>1, <1>2, <3>8, RunStep DEF CallRun
    <3>10. CallRun' \in Seq(Nat) /\ CallComputed' = Len(CallRun')
      <4>1. /\ Abs!Run(CallStart, cur + 1) \in Seq(Nat)
            /\ Len(Abs!Run(CallStart, cur + 1))
                 = Cardinality({p \in CallStart .. ((cur + 1) - 1) : p \notin Pruned})
        <5>1. cur + 1 \in Nat /\ CallStart <= cur + 1
          BY <1>1
        <5>2. QED
          BY <1>1, <5>1, RunFacts
      <4>2. QED
        BY <1>2, <3>8, <4>1 DEF CallRun, CallComputed
    <3>11. log' = absLog \o CallRun'
      BY <1>1, <3>8, <3>9, AppendConcat
    <3>12. absLog' = SubSeq(log', 1, Len(log') - Len(CallRun'))
      BY <1>2, <3>10 DEF absLog
    <3>13. absLog' = absLog
      BY <1>1, <3>10, <3>11, <3>12, SplitConcat
    <3>14. QED
      BY <1>1, <3>8, <3>11, <3>13
  <2>15. QED
    BY <2>1, <2>2, <2>7
<1>5. ((phase = "exec" /\ kind = "full") =>
          /\ ~registered /\ "full" \in Modes /\ wend = N /\ absLog = << >>)'
  BY <1>2, <1>4 DEF RefInv
<1>6. ((phase = "exec" /\ kind = "partial") =>
          /\ registered /\ wend = WindowEnd(pc) /\ pc <= cur)'
  <2>1. CASE kind = "partial"
    <3>1. registered /\ wend = WindowEnd(pc) /\ pc <= cur
      BY <2>1, <1>2 DEF RefInv, SkipNode, ComputeNode, SetTerminate
    <3>2. pc <= cur'
      <4>1. cur' \in Nat
        BY <1>0 DEF TypeInv, TypeOK
      <4>2. QED
        BY <1>1, <1>4, <3>1, <4>1
    <3>3. QED
      BY <1>2, <3>1, <3>2
  <2>2. QED
    BY <1>2, <2>1
<1>7. RefInv'
  BY <1>0, <1>2, <1>3, <1>4, <1>5, <1>6 DEF RefInv
<1>8. QED
  BY <1>2, <1>4, <1>7 DEF Abs!absVars


\* A call that stops early -- terminated at the top of the loop (lines
\* 322-325), a kernel or a release failing (lines 439-471, 618-629), or
\* GetOutputs failing (lines 140, 232) -- is the abstract frame's failing
\* call: it has computed a prefix of its window, and the cursor stays.
LEMMA StopRefines ==
  ASSUME RefInv, Terminated \/ ComputeFails \/ ReleaseFails \/ OutputsFail
  PROVE  RefInv' /\ (Abs!FullRun \/ Abs!Window)
<1>0. TypeInv'
  BY TypeInvNext DEF RefInv, Next, ExecutorStep
<1>1. /\ phase = "exec" /\ phase' = "idle" /\ Faults
      /\ UNCHANGED <<kind, pc, registered, terminate, wend>>
  BY DEF Terminated, ComputeFails, ReleaseFails, OutputsFail, RefInv
<1>2. /\ cur \in Nat /\ wend \in Nat /\ pc \in Nat
      /\ CallStart \in Nat /\ CallStart <= cur /\ cur <= wend
      /\ absLog \in Seq(Nat) /\ CallRun \in Seq(Nat)
      /\ log = absLog \o CallRun
  BY <1>1, ExecFacts
<1>3. absLog' = log'
  BY <1>1 DEF absLog
<1>4. \E c \in Nat : /\ CallStart <= c /\ c <= wend
                     /\ log' = absLog \o Abs!Run(CallStart, c)
  <2>1. CASE Terminated \/ OutputsFail
    <3>1. log' = log
      BY <2>1 DEF Terminated, OutputsFail
    <3>2. QED
      BY <1>2, <3>1 DEF CallRun
  <2>2. CASE ComputeFails \/ ReleaseFails
    <3>1. cur < wend /\ cur \notin Pruned /\ log' = Append(log, cur)
      BY <2>2 DEF ComputeFails, ReleaseFails
    <3>2. Abs!Run(CallStart, cur + 1) = Append(CallRun, cur)
      BY <1>2, <3>1, RunStep DEF CallRun
    <3>3. log' = absLog \o Abs!Run(CallStart, cur + 1)
      <4>1. Append(absLog \o CallRun, cur) = absLog \o Append(CallRun, cur)
        BY <1>2, AppendConcat
      <4>2. QED
        BY <1>2, <3>1, <3>2, <4>1
    <3>4. QED
      BY <1>2, <3>1, <3>3
  <2>3. QED
    BY <2>1, <2>2
<1>5. PICK c \in Nat : /\ CallStart <= c /\ c <= wend
                       /\ log' = absLog \o Abs!Run(CallStart, c)
  BY <1>4
<1>6. RefInv'
  BY <1>0, <1>1 DEF RefInv
<1>7. CASE kind = "full"
  <2>1. /\ ~registered /\ "full" \in Modes /\ wend = N /\ absLog = << >>
        /\ CallStart = 0
    BY <1>1, <1>7 DEF RefInv, CallStart
  <2>2. absLog' = Abs!Run(0, c)
    <3>1. Abs!Run(0, c) \in Seq(Nat)
      BY <1>5, <2>1, RunType
    <3>2. QED
      BY <1>3, <1>5, <2>1, <3>1, ConcatEmptySeq
  <2>3. Abs!Run(0, c) \in Abs!Prefixes(Abs!Run(0, N))
    BY <1>5, <2>1, PlanSize, RunPrefix
  <2>4. Abs!FullRun
    BY <1>1, <2>1, <2>2, <2>3 DEF Abs!FullRun
  <2>5. QED
    BY <1>6, <2>4
<1>8. CASE kind = "partial"
  <2>1. registered /\ wend = WindowEnd(pc) /\ CallStart = pc
    BY <1>1, <1>8 DEF RefInv, CallStart
  <2>2. Abs!Run(pc, c) \in Abs!Prefixes(Abs!Run(pc, Abs!WindowEnd(pc)))
    BY <1>2, <1>5, <2>1, RunPrefix, AbsPlan
  <2>3. \E r \in Abs!Prefixes(Abs!Run(pc, Abs!WindowEnd(pc))) : absLog' = absLog \o r
    BY <1>3, <1>5, <2>1, <2>2
  <2>4. Abs!Window
    BY <1>1, <2>1, <2>3 DEF Abs!Window
  <2>5. QED
    BY <1>6, <2>4
<1>9. QED
  BY <1>7, <1>8 DEF RefInv, TypeInv, TypeOK

\* The end of a call that ran its whole loop: a full run's frame has
\* executed the plan (lines 137-141), a partial run's frame its window, and
\* the cursor moves past it (lines 236-246).
LEMMA FinishRefines ==
  ASSUME RefInv, FinishFullRun \/ FinishPartialRun
  PROVE  RefInv' /\ (Abs!FullRun \/ Abs!Window)
<1>0. TypeInv'
  BY TypeInvNext DEF RefInv, Next, ExecutorStep
<1>1. /\ phase = "exec" /\ phase' = "idle" /\ cur = wend /\ log' = log
      /\ UNCHANGED <<kind, terminate>>
  BY DEF FinishFullRun, FinishPartialRun
<1>2. /\ cur \in Nat /\ wend \in Nat /\ pc \in Nat
      /\ CallStart \in Nat /\ CallStart <= cur /\ cur <= wend
      /\ absLog \in Seq(Nat) /\ CallRun \in Seq(Nat)
      /\ log = absLog \o CallRun
  BY <1>1, ExecFacts
<1>3. absLog' = absLog \o Abs!Run(CallStart, wend)
  BY <1>1, <1>2 DEF absLog, CallRun
<1>4. RefInv'
  BY <1>0, <1>1 DEF RefInv
<1>5. CASE FinishFullRun
  <2>1. /\ kind = "full" /\ UNCHANGED <<pc, registered>>
        /\ ~registered /\ "full" \in Modes /\ wend = N /\ absLog = << >>
        /\ CallStart = 0
    BY <1>1, <1>5 DEF FinishFullRun, RefInv, CallStart
  <2>2. absLog' = Abs!Run(0, N)
    <3>1. Abs!Run(0, N) \in Seq(Nat)
      BY PlanSize, RunType
    <3>2. QED
      BY <1>3, <2>1, <3>1, ConcatEmptySeq
  <2>3. Abs!Run(0, N) \in Abs!Prefixes(Abs!Run(0, N))
    BY PlanSize, RunPrefix
  <2>4. Abs!FullRun
    BY <2>1, <2>2, <2>3 DEF Abs!FullRun
  <2>5. QED
    BY <1>4, <2>4
<1>6. CASE FinishPartialRun
  <2>1. /\ kind = "partial" /\ registered /\ wend = WindowEnd(pc)
        /\ CallStart = pc
        /\ pc' = NextCursor(wend) /\ registered' = (pc' # N)
    BY <1>1, <1>6 DEF FinishPartialRun, RefInv, CallStart
  <2>2. /\ absLog' = absLog \o Abs!Run(pc, Abs!WindowEnd(pc))
        /\ pc' = Abs!ResumeAt(Abs!WindowEnd(pc))
    BY <1>3, <2>1, AbsPlan
  <2>3. Abs!Window
    BY <2>1, <2>2 DEF Abs!Window
  <2>4. QED
    BY <1>4, <2>3
<1>7. QED
  BY <1>5, <1>6


-----------------------------------------------------------------------------
(* The refinement.                                                         *)

\* The executor's initial state is the abstract initial state: no frame, an
\* empty log, the cursor at 0.
LEMMA RefInvInit == Init => RefInv /\ Abs!Init
<1> SUFFICES ASSUME Init PROVE RefInv /\ Abs!Init
  OBVIOUS
<1>1. TypeInv
  BY TypeInvInit
<1>2. absLog = << >>
  BY DEF Init, absLog
<1>3. QED
  BY <1>1, <1>2 DEF Init, RefInv, Abs!Init

\* Every executor step keeps RefInv and is a step of the abstract frame or
\* leaves the abstract frame as it was.
LEMMA RefStep == RefInv /\ [Next]_vars => RefInv' /\ [Abs!Next]_Abs!absVars
<1> SUFFICES ASSUME RefInv, [Next]_vars
             PROVE  RefInv' /\ [Abs!Next]_Abs!absVars
  OBVIOUS
<1>1. CASE StartFullRun \/ StartPartialRun
  BY <1>1, StartRefines DEF Abs!Next
<1>2. CASE ResumePartialRun
  BY <1>2, ResumeRefines
<1>3. CASE SkipNode \/ ComputeNode \/ SetTerminate
  BY <1>3, LoopRefines
<1>4. CASE Terminated \/ ComputeFails \/ ReleaseFails \/ OutputsFail
  BY <1>4, StopRefines DEF Abs!Next
<1>5. CASE FinishFullRun \/ FinishPartialRun
  BY <1>5, FinishRefines DEF Abs!Next
<1>6. CASE UNCHANGED vars
  <2>1. UNCHANGED <<phase, kind, pc, cur, wend, log, registered, terminate>>
    BY <1>6 DEF vars
  <2>2. UNCHANGED <<absLog, CallRun>>
    BY <2>1 DEF absLog, CallComputed, CallStart, CallRun
  <2>3. TypeInv'
    BY <1>6, TypeInvNext DEF RefInv
  <2>4. RefInv'
    BY <2>1, <2>2, <2>3 DEF RefInv
  <2>5. QED
    BY <2>1, <2>2, <2>4 DEF Abs!absVars
<1>7. QED
  BY <1>1, <1>2, <1>3, <1>4, <1>5, <1>6 DEF Next, ExecutorStep

\* ImplementsFrameRuns: seen between Execute calls, the sequential executor
\* behaves as FrameRuns says, for every plan, pruned set and setting of the
\* constants -- each call of a full run or of a partial run's window computes
\* the unpruned positions of its window in plan order (a prefix of them
\* when it fails or is terminated), and a window that completes moves the
\* frame's cursor as lines 236-246 do.
THEOREM Refinement == Spec => ImplementsFrameRuns
<1>1. Spec => []RefInv
  <2>1. Init => RefInv
    BY RefInvInit
  <2>2. RefInv /\ [Next]_vars => RefInv'
    BY RefStep
  <2>3. QED
    BY <2>1, <2>2, PTL DEF Spec
<1>2. QED
  BY <1>1, RefInvInit, RefStep, PTL DEF Spec, ImplementsFrameRuns, Abs!Spec

=============================================================================
