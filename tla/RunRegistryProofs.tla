------------------------- MODULE RunRegistryProofs -------------------------
(***************************************************************************)
(* Proofs about RunRegistry for any number of callers, windows and runs,   *)
(* as long as graph_runs_counter_ does not wrap: the ids the counter       *)
(* reaches in MaxRuns partial runs are int64 values (registry_overflow     *)
(* shows what happens when they are not).                                  *)
(***************************************************************************)
EXTENDS RunRegistry, TLAPS

\* The counter does not overflow within the runs of a behaviour.
NoWrap == MaxRuns <= MaxId

\* The parts of the inductive invariant.
\* graph_runs_counter_ counts the runs inserted; only the lock holder may be
\* between the two.
CounterInv ==
  /\ counter \in 0 .. started
  /\ counter = IF \E t \in Threads : loc[t] = "insert" THEN started - 1 ELSE started

\* The lock holder is the caller inside the insert or the erase.
LockInv == \A t \in Threads : loc[t] \in {"insert", "erase"} => lock = t

\* What each caller holds at each point of Execute.
LocInv ==
  \A t \in Threads :
    /\ loc[t] = "insert" => mine[t] = None
    /\ loc[t] \in {"find", "window", "lockErase", "erase"} => mine[t] # None
    /\ loc[t] \in {"window", "lockErase", "erase"} => it[t] = mine[t]

\* Every id a caller holds was minted and names its own frame.
MineInv ==
  \A t \in Threads :
    mine[t] # None =>
      /\ mine[t] \in 0 .. (counter - 1)
      /\ graph_runs[mine[t]] # None
      /\ graph_runs[mine[t]].owner = t

\* Every frame in the map has a minted id, held by its owner.
EntryInv ==
  \A id \in Ids :
    graph_runs[id] # None =>
      /\ id \in 0 .. (counter - 1)
      /\ mine[graph_runs[id].owner] = id

IInv == TypeOK /\ CounterInv /\ LockInv /\ LocInv /\ MineInv /\ EntryInv

LEMMA InitIInv == ASSUME NoWrap PROVE Init => IInv
<1> SUFFICES ASSUME Init PROVE IInv
  OBVIOUS
<1>1. 0 \in Ids
  BY IdRangeAssumption DEF Ids
<1> QED
  BY <1>1, RegistryAssumption, NoneAssumption
  DEF Init, IInv, TypeOK, CounterInv, LockInv, LocInv, MineInv, EntryInv

\* The next id InsertRun mints is an int64 value and does not wrap.
LEMMA NextIdFits ==
  ASSUME NoWrap, NEW n \in 0 .. (MaxRuns - 1)
  PROVE  /\ n + 1 \in Ids
         /\ Wrap(n + 1) = n + 1
<1>1. n + 1 \in Ids
  BY RegistryAssumption, IdRangeAssumption DEF NoWrap, Ids
<1>2. n + 1 <= MaxId
  BY RegistryAssumption, IdRangeAssumption DEF NoWrap
<1> QED
  BY <1>1, <1>2, IdRangeAssumption DEF Wrap

LEMMA NextIInv == ASSUME NoWrap PROVE IInv /\ [Next]_vars => IInv'
<1> SUFFICES ASSUME IInv, [Next]_vars PROVE IInv'
  OBVIOUS
<1> USE RegistryAssumption, NoneAssumption
<1>0. /\ TypeOK /\ CounterInv /\ LockInv /\ LocInv /\ MineInv /\ EntryInv
      /\ 0 .. MaxRuns \subseteq Ids
  BY IdRangeAssumption DEF IInv, NoWrap, Ids
<1>1. CASE UNCHANGED vars
  BY <1>0, <1>1 DEF vars, IInv, TypeOK, CounterInv, LockInv, LocInv, MineInv, EntryInv
<1>2. ASSUME NEW t \in Threads, BeginNewRun(t) PROVE IInv'
  <2>1. \A u \in Threads : loc[u] # "insert"
    BY <1>0, <1>2 DEF BeginNewRun, LockInv
  <2>2. counter = started
    BY <1>0, <2>1 DEF CounterInv
  <2> QED
    BY <1>0, <1>2, <2>1, <2>2
    DEF BeginNewRun, IInv, TypeOK, CounterInv, LockInv, LocInv, MineInv, EntryInv
<1>3. ASSUME NEW t \in Threads, InsertRun(t) PROVE IInv'
  <2>1. lock = t /\ mine[t] = None
    BY <1>0, <1>3 DEF InsertRun, LockInv, LocInv
  <2>2. \A u \in Threads : loc[u] = "insert" => u = t
    BY <1>0, <2>1 DEF LockInv
  <2>3. counter = started - 1 /\ started \in 1 .. MaxRuns
    BY <1>0, <1>3 DEF InsertRun, CounterInv, TypeOK
  <2>4. counter' = counter + 1 /\ counter + 1 \in Ids
    BY <1>0, <1>3, <2>3, NextIdFits DEF InsertRun
  <2>5. counter \in Ids /\ graph_runs[counter] = None
    BY <1>0, <2>3 DEF EntryInv, TypeOK
  <2>6. graph_runs' = [graph_runs EXCEPT ![counter] = [owner |-> t, left |-> Windows]]
    BY <1>3, <2>5 DEF InsertRun
  <2>7. TypeOK'
    BY <1>0, <1>3, <2>4, <2>5, <2>6 DEF InsertRun, TypeOK, Frame
  <2>8. CounterInv'
    BY <1>0, <1>3, <2>2, <2>3, <2>4 DEF InsertRun, CounterInv, TypeOK
  <2>9. LockInv' /\ LocInv'
    BY <1>0, <1>3, <2>1 DEF InsertRun, LockInv, LocInv, TypeOK
  <2>10. MineInv'
    <3>1. mine' = [mine EXCEPT ![t] = counter]
      BY <1>3 DEF InsertRun
    <3>2. graph_runs'[counter] = [owner |-> t, left |-> Windows]
      BY <2>5, <2>6, <1>0 DEF TypeOK
    <3>3. ASSUME NEW u \in Threads, u # t, mine[u] # None
          PROVE  /\ mine[u] \in 0 .. (counter' - 1)
                 /\ graph_runs'[mine[u]] = graph_runs[mine[u]]
                 /\ graph_runs[mine[u]] # None
                 /\ graph_runs[mine[u]].owner = u
      BY <1>0, <2>3, <2>4, <2>6, <3>3 DEF MineInv, TypeOK
    <3>4. counter \in 0 .. (counter' - 1)
      BY <2>3, <2>4
    <3>5. ASSUME NEW u \in Threads, mine'[u] # None
          PROVE  /\ mine'[u] \in 0 .. (counter' - 1)
                 /\ graph_runs'[mine'[u]] # None
                 /\ graph_runs'[mine'[u]].owner = u
      <4>1. CASE u = t
        <5>1. [owner |-> t, left |-> Windows] \in Frame
          BY DEF Frame
        <5>2. mine'[u] = counter
          BY <4>1, <3>1, <1>0 DEF TypeOK
        <5> QED
          BY <5>1, <5>2, <4>1, <3>2, <3>4
      <4>2. CASE u # t
        <5>1. mine'[u] = mine[u] /\ mine[u] # None
          BY <4>2, <3>1, <3>5, <1>0 DEF TypeOK
        <5> QED
          BY <5>1, <4>2, <3>3
      <4> QED
        BY <4>1, <4>2
    <3> QED
      BY <3>5 DEF MineInv
  <2>11. EntryInv'
    BY <1>0, <1>3, <2>1, <2>3, <2>4, <2>5, <2>6 DEF InsertRun, EntryInv, TypeOK
  <2> QED
    BY <2>7, <2>8, <2>9, <2>10, <2>11 DEF IInv
<1>4. ASSUME NEW t \in Threads, BeginResume(t) PROVE IInv'
  <2>1. mine[t] \in 0 .. (counter - 1)
    BY <1>0, <1>4 DEF BeginResume, MineInv
  <2>2. loc' = [loc EXCEPT ![t] = "find"] /\ UNCHANGED mine
    BY <1>4, <2>1 DEF BeginResume
  <2> QED
    BY <1>0, <1>4, <2>1, <2>2
    DEF BeginResume, IInv, TypeOK, CounterInv, LockInv, LocInv, MineInv, EntryInv
<1>5. ASSUME NEW t \in Threads, FindRun(t) PROVE IInv'
  <2>1. graph_runs[mine[t]] # None
    BY <1>0, <1>5 DEF FindRun, LocInv, MineInv
  <2>2. loc' = [loc EXCEPT ![t] = "window"] /\ it' = [it EXCEPT ![t] = mine[t]]
        /\ UNCHANGED mine
    BY <1>5, <2>1 DEF FindRun
  <2>3. mine[t] \in Ids
    BY <1>0, <1>5 DEF FindRun, LocInv, TypeOK
  <2> QED
    BY <1>0, <1>5, <2>2, <2>3
    DEF FindRun, IInv, TypeOK, CounterInv, LockInv, LocInv, MineInv, EntryInv
<1>6. ASSUME NEW t \in Threads, RunWindow(t) PROVE IInv'
  <2>1. it[t] \in Ids /\ graph_runs[it[t]] \in Frame
    BY <1>0, <1>6 DEF RunWindow, TypeOK, LocInv
  <2>2. PICK left \in 1 .. Windows :
          /\ left = graph_runs[it[t]].left
          /\ graph_runs' = [graph_runs EXCEPT ![it[t]].left =
                              IF left > 1 THEN left - 1 ELSE left]
    BY <1>6, <2>1 DEF RunWindow, Frame
  <2>3. graph_runs'[it[t]] \in Frame
        /\ graph_runs'[it[t]].owner = graph_runs[it[t]].owner
    BY <2>1, <2>2 DEF Frame
  <2>4. \A id \in Ids : id # it[t] => graph_runs'[id] = graph_runs[id]
    BY <2>2
  <2>5. \A id \in Ids : graph_runs'[id] # None <=> graph_runs[id] # None
    BY <2>1, <2>3, <2>4
  <2>6. TypeOK'
    BY <1>0, <1>6, <2>1, <2>2, <2>3 DEF RunWindow, TypeOK
  <2>7. MineInv' /\ EntryInv'
    BY <1>0, <1>6, <2>3, <2>4, <2>5 DEF RunWindow, MineInv, EntryInv, TypeOK
  <2> QED
    BY <1>0, <1>6, <2>6, <2>7 DEF RunWindow, IInv, TypeOK, CounterInv, LockInv, LocInv
<1>7. ASSUME NEW t \in Threads, BeginErase(t) PROVE IInv'
  BY <1>0, <1>7
  DEF BeginErase, IInv, TypeOK, CounterInv, LockInv, LocInv, MineInv, EntryInv
<1>8. ASSUME NEW t \in Threads, EraseRun(t) PROVE IInv'
  <2>1. lock = t /\ mine[t] # None /\ it[t] = mine[t]
    BY <1>0, <1>8 DEF EraseRun, LockInv, LocInv
  <2>2. \A u \in Threads : u # t => mine[u] # it[t]
    BY <1>0, <2>1 DEF MineInv
  <2>3. it[t] \in Ids /\ graph_runs' = [graph_runs EXCEPT ![it[t]] = None]
    BY <1>0, <1>8, <2>1 DEF EraseRun, TypeOK
  <2>4. \A u \in Threads : loc[u] \in {"insert", "erase"} => u = t
    BY <1>0, <2>1 DEF LockInv
  <2>5. TypeOK' /\ CounterInv' /\ LockInv' /\ LocInv'
    BY <1>0, <1>8, <2>3, <2>4 DEF EraseRun, TypeOK, CounterInv, LockInv, LocInv
  <2>6. MineInv'
    BY <1>0, <1>8, <2>2, <2>3 DEF EraseRun, MineInv, TypeOK
  <2>7. EntryInv'
    BY <1>0, <1>8, <2>1, <2>3 DEF EraseRun, EntryInv, TypeOK
  <2> QED
    BY <2>5, <2>6, <2>7 DEF IInv
<1> QED
  BY <1>1, <1>2, <1>3, <1>4, <1>5, <1>6, <1>7, <1>8 DEF Next


LEMMA IInvSpec == ASSUME NoWrap PROVE Spec => []IInv
BY InitIInv, NextIInv, PTL DEF Spec

(* Every id that Execute hands to a caller for a partial run is not        *)
(* negative and names that caller's own frame in graph_runs_, for any      *)
(* number of callers and windows, as long as graph_runs_counter_ does not  *)
(* wrap (InsertRun's increment at line 156).                               *)
THEOREM IdsSound == ASSUME NoWrap PROVE Spec => []RunIdsSound
<1>1. IInv => RunIdsSound
  BY DEF IInv, MineInv, RunIdsSound
<1> QED
  BY <1>1, IInvSpec, PTL

(* Every frame in graph_runs_ belongs to a caller that still holds its id: *)
(* the erase at line 245 removes the frame of the id being released, and   *)
(* the insert at line 152 never lands on a live id.                        *)
THEOREM NoOrphans == ASSUME NoWrap PROVE Spec => []NoOrphanFrames
<1>1. IInv => NoOrphanFrames
  BY DEF IInv, EntryInv, NoOrphanFrames
<1> QED
  BY <1>1, IInvSpec, PTL

=============================================================================
