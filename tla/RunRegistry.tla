---------------------------- MODULE RunRegistry ----------------------------
(***************************************************************************)
(* The partial-run registry of SequentialExecutor::Execute                 *)
(* (src/onnxruntime/core/framework/sequential_executor.cc, lines 142-247): *)
(* session_state.graph_runs_ maps a run id to its ExecutionFrame, guarded  *)
(* by graph_runs_lock_, and graph_runs_counter_ mints the ids.  Several    *)
(* callers (threads) drive their own partial runs concurrently.            *)
(*                                                                         *)
(* A frame's progress is abstracted to the number of windows it has left  *)
(* (how the windows are found and executed is SequentialExecutor.tla);    *)
(* what is kept is every access to the map and the counter, the lock, and  *)
(* which accesses happen outside it.  A caller resumes only the id it was  *)
(* given (two callers on one id have no contract, spec 5).                 *)
(***************************************************************************)
EXTENDS Integers

CONSTANTS
  Threads,   \* callers of Execute
  IdWidth,   \* bits of int64_t run ids (64 in the build; small for TLC)
  Windows,   \* windows a partial run needs to reach the plan end
  MaxRuns,   \* bound on the partial runs started in one behaviour
  None       \* no thread / no entry / no id

ASSUME RegistryAssumption ==
  /\ Threads # {}
  /\ None \notin Threads
  /\ IdWidth \in Nat \ {0}
  /\ Windows \in Nat \ {0}
  /\ MaxRuns \in Nat

MinId == -(2 ^ (IdWidth - 1))
MaxId == 2 ^ (IdWidth - 1) - 1
Ids == MinId .. MaxId

\* The two's complement range: 0 .. MaxId and MinId = -(MaxId + 1).
ASSUME IdRangeAssumption == MaxId \in Nat /\ MinId = -(MaxId + 1)

\* graph_runs_counter_ += 1 on a two's complement int64_t (line 156): past
\* the largest id the counter wraps to the smallest, negative one.
Wrap(n) == IF n > MaxId THEN n - 2 ^ IdWidth ELSE n

\* The accesses to graph_runs_ (a std::map: none is safe against another
\* thread's insert or erase).
MapOps == {"insert", "find", "erase"}

VARIABLES
  lock,        \* the thread holding graph_runs_lock_, or None
  graph_runs,  \* graph_runs_: run id -> [owner, windows left] or None
  counter,     \* graph_runs_counter_
  loc,         \* where each caller is in Execute
  mine,        \* the run id each caller holds, or None
  it,          \* the map entry each caller's iterator `it` names
  started      \* partial runs started so far (bounded by MaxRuns)

vars == <<lock, graph_runs, counter, loc, mine, it, started>>

Frame == [owner : Threads, left : 1 .. Windows]

\* None is a sentinel: no run id and no frame.
ASSUME NoneAssumption == None \notin Ids /\ None \notin Frame

-----------------------------------------------------------------------------
Init ==
  /\ lock = None
  /\ graph_runs = [id \in Ids |-> None]
  /\ counter = 0
  /\ loc = [t \in Threads |-> "idle"]
  /\ mine = [t \in Threads |-> None]
  /\ it = [t \in Threads |-> None]
  /\ started = 0

(* run_id == DEFAULT_PARTIAL_RUN_ID: the frame is made and the lock taken  *)
(* (lines 146-151).                                                        *)
BeginNewRun(t) ==
  /\ loc[t] = "idle"
  /\ mine[t] = None
  /\ started < MaxRuns
  /\ lock = None
  /\ lock' = t
  /\ loc' = [loc EXCEPT ![t] = "insert"]
  /\ started' = started + 1
  /\ UNCHANGED <<graph_runs, counter, mine, it>>

\* Defect variant: graph_runs_counter_ is not incremented.
InsertRunNoIncrement(t) ==
  /\ loc[t] = "insert"
  /\ graph_runs' = IF graph_runs[counter] = None
                     THEN [graph_runs EXCEPT ![counter] =
                             [owner |-> t, left |-> Windows]]
                     ELSE graph_runs
  /\ it' = [it EXCEPT ![t] = counter]
  /\ mine' = [mine EXCEPT ![t] = counter]
  /\ lock' = None
  /\ loc' = [loc EXCEPT ![t] = "window"]
  /\ UNCHANGED <<counter, started>>

(* Lines 152-156: insert (counter, frame) -- std::map::insert leaves an    *)
(* existing entry in place --, hand the counter to the caller as its id,  *)
(* increment the counter, unlock.  ORT_ENFORCE(run_id < INT64_MAX) tests   *)
(* the sentinel the caller passed, never the counter, so it always holds.  *)
InsertRun(t) ==
  /\ loc[t] = "insert"
  /\ graph_runs' = IF graph_runs[counter] = None
                     THEN [graph_runs EXCEPT ![counter] =
                             [owner |-> t, left |-> Windows]]
                     ELSE graph_runs
  /\ it' = [it EXCEPT ![t] = counter]
  /\ mine' = [mine EXCEPT ![t] = counter]
  /\ counter' = Wrap(counter + 1)
  /\ lock' = None
  /\ loc' = [loc EXCEPT ![t] = "window"]
  /\ UNCHANGED started

(* Execute with an explicit run id (lines 157-160): ORT_ENFORCE(run_id >= *)
(* 0) throws for a negative id, leaving the caller without a usable id;    *)
(* otherwise graph_runs_.find(run_id) starts, without graph_runs_lock_.    *)
BeginResume(t) ==
  /\ loc[t] = "idle"
  /\ mine[t] # None
  /\ IF mine[t] < 0
       THEN /\ mine' = [mine EXCEPT ![t] = None]
            /\ UNCHANGED loc
       ELSE /\ loc' = [loc EXCEPT ![t] = "find"]
            /\ UNCHANGED mine
  /\ UNCHANGED <<lock, graph_runs, counter, it, started>>

(* The find returns: an absent id fails ORT_ENFORCE (line 162), otherwise  *)
(* the frame's feeds are updated and its window follows (lines 164-181).   *)
FindRun(t) ==
  /\ loc[t] = "find"
  /\ IF graph_runs[mine[t]] = None
       THEN /\ loc' = [loc EXCEPT ![t] = "idle"]
            /\ mine' = [mine EXCEPT ![t] = None]
            /\ UNCHANGED it
       ELSE /\ loc' = [loc EXCEPT ![t] = "window"]
            /\ it' = [it EXCEPT ![t] = mine[t]]
            /\ UNCHANGED mine
  /\ UNCHANGED <<lock, graph_runs, counter, started>>

(* The window runs on the frame; the cursor update (lines 236-240) leaves  *)
(* one window fewer.  The last window goes on to erase the frame.          *)
RunWindow(t) ==
  /\ loc[t] = "window"
  /\ graph_runs[it[t]] # None
  /\ LET left == graph_runs[it[t]].left IN
       /\ graph_runs' = [graph_runs EXCEPT ![it[t]].left = IF left > 1 THEN left - 1 ELSE left]
       /\ loc' = [loc EXCEPT ![t] = IF left > 1 THEN "idle" ELSE "lockErase"]
  /\ UNCHANGED <<lock, counter, mine, it, started>>

(* program_counter_ == exec_plan_size: take the lock to erase (line 244).  *)
BeginErase(t) ==
  /\ loc[t] = "lockErase"
  /\ lock = None
  /\ lock' = t
  /\ loc' = [loc EXCEPT ![t] = "erase"]
  /\ UNCHANGED <<graph_runs, counter, mine, it, started>>

\* Defect variant: the entry is never erased.
EraseRunForgets(t) ==
  /\ loc[t] = "erase"
  /\ lock' = None
  /\ loc' = [loc EXCEPT ![t] = "idle"]
  /\ mine' = [mine EXCEPT ![t] = None]
  /\ it' = [it EXCEPT ![t] = None]
  /\ UNCHANGED <<graph_runs, counter, started>>

(* graph_runs_.erase(it) and unlock (line 245): the run is over.           *)
EraseRun(t) ==
  /\ loc[t] = "erase"
  /\ graph_runs' = [graph_runs EXCEPT ![it[t]] = None]
  /\ lock' = None
  /\ loc' = [loc EXCEPT ![t] = "idle"]
  /\ mine' = [mine EXCEPT ![t] = None]
  /\ it' = [it EXCEPT ![t] = None]
  /\ UNCHANGED <<counter, started>>

Next ==
  \E t \in Threads :
    \/ BeginNewRun(t) \/ InsertRun(t)
    \/ BeginResume(t) \/ FindRun(t)
    \/ RunWindow(t) \/ BeginErase(t) \/ EraseRun(t)

Spec == Init /\ [][Next]_vars

-----------------------------------------------------------------------------
(* Properties.                                                             *)

TypeOK ==
  /\ lock \in Threads \cup {None}
  /\ graph_runs \in [Ids -> Frame \cup {None}]
  /\ counter \in Ids
  /\ loc \in [Threads -> {"idle", "insert", "find", "window", "lockErase",
                          "erase"}]
  /\ mine \in [Threads -> Ids \cup {None}]
  /\ it \in [Threads -> Ids \cup {None}]
  /\ started \in 0 .. MaxRuns

\* Spec 3 and 4.3: the id Execute hands back for a new partial run can be
\* resumed -- it is not negative (ORT_ENFORCE(run_id >= 0)) -- and names the
\* caller's own frame, never another run's.
RunIdsSound ==
  \A t \in Threads :
    (loc[t] = "idle" /\ mine[t] # None) =>
      /\ mine[t] >= 0
      /\ graph_runs[mine[t]] # None
      /\ graph_runs[mine[t]].owner = t

\* Spec 3: an entry exists exactly while its run is suspended: every frame
\* in graph_runs_ belongs to a caller that still holds its id.
NoOrphanFrames ==
  \A id \in Ids :
    graph_runs[id] # None => mine[graph_runs[id].owner] = id

\* Spec 5: insertions, lookups and removals on graph_runs_ are protected by
\* graph_runs_lock_: no two callers are inside map operations at once
\* unless both only read.
RegistryMutualExclusion ==
  \A t, u \in Threads :
    (t # u /\ loc[t] \in MapOps /\ loc[u] \in MapOps) =>
      loc[t] = "find" /\ loc[u] = "find"

=============================================================================
