------------------------------ MODULE FrameRuns ------------------------------
(***************************************************************************)
(* What the sequential executor promises about one execution frame, seen   *)
(* between Execute calls: each call is one atomic step.  A full run gives  *)
(* a fresh frame that computes every plan position off the pruned set, in  *)
(* order; a partial run gives a frame that computes, per call, the window  *)
(* from its saved cursor to the next YieldOp and saves the cursor where    *)
(* the next call resumes.  A call that fails has computed a prefix of its  *)
(* window and leaves the cursor where it was.                              *)
(*                                                                         *)
(* log is the sequence of positions whose Compute the frame has invoked.   *)
(***************************************************************************)
EXTENDS ExecutionPlan, Sequences, FiniteSets

CONSTANTS
  Pruned,             \* positions off the path to the fetches
  TransferOwnership,  \* the cursor resumes one past the YieldOp
  Modes,              \* "full", "partial"
  Faults              \* calls may fail

VARIABLES log, pc, registered

absVars == <<log, pc, registered>>

\* The positions of [s, e) off the pruned set.
Unpruned(s, e) == {p \in s .. (e - 1) : p \notin Pruned}

\* Sequence r lists the set S in ascending order.
Lists(r, S) ==
  /\ \A i, j \in DOMAIN r : i < j => r[i] < r[j]
  /\ {r[i] : i \in DOMAIN r} = S

\* The positions of [s, e) off the pruned set, in plan order.
Run(s, e) ==
  CHOOSE r \in [1 .. Cardinality(Unpruned(s, e)) -> Unpruned(s, e)] :
     Lists(r, Unpruned(s, e))

\* The computations a call that stops early may have made.
Prefixes(r) == {SubSeq(r, 1, k) : k \in 0 .. Len(r)}

\* Where the next window starts after a window ending at e.
ResumeAt(e) == IF TransferOwnership THEN e + 1 ELSE e

Init ==
  /\ log = << >>
  /\ pc = 0
  /\ registered = FALSE

\* A call creates a frame: a full run's, or a partial run's registered one.
NewFrame ==
  /\ ~registered
  /\ log' = << >>
  /\ \/ "full" \in Modes /\ UNCHANGED <<pc, registered>>
     \/ "partial" \in Modes /\ pc' = 0 /\ registered' = TRUE

\* A full run's frame executes the plan (a prefix of it if the call fails).
FullRun ==
  /\ ~registered
  /\ "full" \in Modes
  /\ log = << >>
  /\ log' \in IF Faults THEN Prefixes(Run(0, N)) ELSE {Run(0, N)}
  /\ UNCHANGED <<pc, registered>>

\* A partial run's frame executes the window at its cursor.
Window ==
  /\ registered
  /\ LET e == WindowEnd(pc) IN
       \/ /\ log' = log \o Run(pc, e)
          /\ pc' = ResumeAt(e)
          /\ registered' = (pc' # N)
       \/ /\ Faults
          /\ \E r \in Prefixes(Run(pc, e)) : log' = log \o r
          /\ UNCHANGED <<pc, registered>>

Next == NewFrame \/ FullRun \/ Window

Spec == Init /\ [][Next]_absVars

=============================================================================
