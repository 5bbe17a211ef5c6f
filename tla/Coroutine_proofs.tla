-------------------------- MODULE Coroutine_proofs --------------------------
(***************************************************************************)
(* Proofs about module Coroutine, for every initial table size, every      *)
(* finite set of coroutine objects and both settings of each flag; and,    *)
(* on top of them, about module CoroutineDemo, for any numbers of yields.  *)
(***************************************************************************)
EXTENDS CoroutineDemo, FiniteSetTheorems, TLAPS

USE CapAssumption, LiveAssumption, ObjsAssumption, DistinctAssumption,
    FlagsAssumption

\* The part of IInv that speaks of a program that has not stopped.
Table == SlotsHoldLive /\ LiveHasSlot /\ OneSlotEach /\ FiberMatchesStatus
         /\ FirstTable

\* The search for a free slot stays within the table.
LEMMA ProbeInIds ==
    ASSUME cap \in Nat \ {0}, nco \in Nat, NEW i \in Ids
    PROVE  Probe(i) \in Ids
BY DEF Ids, Probe

LEMMA LiveFinite == IsFiniteSet(Live)
<1>1. Live \in SUBSET Objs
  BY DEF Live
<1> QED BY <1>1, FS_Subset

LEMMA InitIInv == Init => IInv
<1> SUFFICES ASSUME Init PROVE IInv
  OBVIOUS
<1>1. Live = {}
  BY DEF Init, Live
<1>2. TypeOK
  BY DEF Init, TypeOK, Ids
<1>3. CountIsLive
  BY <1>1, FS_EmptySet DEF Init, CountIsLive
<1>4. Table
  BY <1>1 DEF Init, Table, SlotsHoldLive, LiveHasSlot, OneSlotEach,
     FiberMatchesStatus, FirstTable, Ids
<1> QED
  BY <1>1, <1>2, <1>3, <1>4 DEF Init, IInv, Table, NobodyStranded,
     RunningIsExecuting, FiberKeepsItsSlot, HandleNamesItsCoroutine

\* A coroutine joins the live ones and is counted.
LEMMA CountGrows ==
    ASSUME CountIsLive, mode = "run", NEW o \in Objs, status[o] = "none",
           DOMAIN status = Objs,
           status' = [status EXCEPT ![o] = "READY"], nco' = nco + 1
    PROVE  CountIsLive'
<1>1. Live' = Live \cup {o} /\ o \notin Live
  BY DEF Live
<1>2. Cardinality(Live') = Cardinality(Live) + 1
  BY <1>1, LiveFinite, FS_AddElement
<1> QED BY <1>2 DEF CountIsLive

LEMMA NewInFreeSlotIInv ==
    ASSUME IInv, NEW o \in Objs, NewInFreeSlot(o)
    PROVE  IInv'
<1> USE DEF MayCreate
<1>0. TypeOK /\ Table /\ mode = "run"
  BY DEF IInv, Table, NewInFreeSlot
<1>1. PICK i \in Ids : /\ FirstFree(i)
                       /\ slot' = [slot EXCEPT ![Probe(i)] = o]
                       /\ CoNew(o, Probe(i))
  BY DEF NewInFreeSlot
<1> DEFINE id == Probe(i)
<1>2. id \in Ids /\ slot[id] = NULL
  BY <1>0, <1>1, ProbeInIds DEF TypeOK, FirstFree
<1> HIDE DEF id
<1>3. /\ slot' = [slot EXCEPT ![id] = o]
      /\ status' = [status EXCEPT ![o] = "READY"]
      /\ handle' = [handle EXCEPT ![o] = id]
      /\ nco' = nco + 1
      /\ UNCHANGED <<cap, running, ctx, home, cpu, mode>>
  BY <1>1 DEF CoNew, Returned, NewInFreeSlot, id
<1>4. Ids' = Ids /\ Live' = Live \cup {o} /\ o \notin Live /\ status[o] = "none"
  BY <1>0, <1>3 DEF Ids, Live, NewInFreeSlot, TypeOK
<1>5. TypeOK'
  BY <1>0, <1>2, <1>3, <1>4 DEF TypeOK, Ids
<1>6. CountIsLive'
  <2>1. DOMAIN status = Objs /\ CountIsLive
    BY <1>0 DEF TypeOK, IInv
  <2> QED BY <2>1, <1>0, <1>3, <1>4, CountGrows
<1>7. Table'
  <2>1. SlotsHoldLive'
    BY <1>0, <1>2, <1>3, <1>4 DEF Table, SlotsHoldLive, TypeOK
  <2>2. LiveHasSlot'
    BY <1>0, <1>2, <1>3, <1>4 DEF Table, LiveHasSlot, TypeOK, Live
  <2>3. OneSlotEach'
    BY <1>0, <1>2, <1>3, <1>4 DEF Table, OneSlotEach, SlotsHoldLive, TypeOK
  <2>4. FiberMatchesStatus'
    BY <1>0, <1>3, <1>4 DEF Table, FiberMatchesStatus, TypeOK
  <2>5. FirstTable'
    BY <1>0, <1>2, <1>3, <1>4 DEF Table, FirstTable, TypeOK, Live, Ids
  <2> QED BY <2>1, <2>2, <2>3, <2>4, <2>5 DEF Table
<1>8. HandleNamesItsCoroutine'
  BY <1>0, <1>2, <1>3, <1>4 DEF IInv, HandleNamesItsCoroutine, TypeOK, Live
<1>9. NobodyStranded' /\ RunningIsExecuting' /\ FiberKeepsItsSlot'
  BY <1>0, <1>2, <1>3, <1>4
  DEF IInv, NobodyStranded, RunningIsExecuting, FiberKeepsItsSlot, TypeOK,
      Table, FiberMatchesStatus, Ids
<1> QED BY <1>5, <1>6, <1>7, <1>8, <1>9 DEF IInv, Table

LEMMA NewGrowIInv ==
    ASSUME IInv, NEW o \in Objs, NewGrow(o)
    PROVE  IInv'
<1>0. TypeOK /\ Table /\ mode = "run" /\ status[o] = "none"
  BY DEF IInv, Table, NewGrow, MayCreate
<1>1. PICK unwritten \in [cap .. 2*cap-1 -> {NULL, Wild}] :
        slot' = [id \in 0 .. 4*cap-1 |->
                      CASE id < cap -> slot[id]
                        [] id \in cap .. 2*cap-1 -> unwritten[id]
                        [] id = 2*cap -> o
                        [] OTHER -> NULL]
  BY DEF NewGrow
<1>2. /\ cap' = 4 * cap
      /\ status' = [status EXCEPT ![o] = "READY"]
      /\ handle' = [handle EXCEPT ![o] = cap]
      /\ nco' = nco + 1
      /\ UNCHANGED <<running, ctx, home, cpu, mode>>
  BY DEF NewGrow, CoNew, Returned
<1>3. /\ Ids \subseteq Ids' /\ 2*cap \in Ids' \ Ids /\ cap' \in Nat \ {0}
      /\ Ids' = 0 .. 4*cap-1 /\ cap \in Nat \ {0}
  BY <1>0, <1>2 DEF TypeOK, Ids
<1>4. /\ \A id \in Ids : slot'[id] = slot[id]
      /\ slot'[2*cap] = o
      /\ \A id \in Ids' \ Ids : id = 2*cap \/ slot'[id] \in {NULL, Wild}
  BY <1>1, <1>3, SMTT(30) DEF Ids
<1>5. slot' \in [Ids' -> Objs \cup {NULL, Wild}]
  <2>1. DOMAIN slot' = Ids' /\ slot' = [id \in Ids' |-> slot'[id]]
    BY <1>1, <1>3
  <2>2. \A id \in Ids' : slot'[id] \in Objs \cup {NULL, Wild}
    BY <1>0, <1>4 DEF TypeOK
  <2> QED BY <2>1, <2>2
<1>6. Live' = Live \cup {o} /\ o \notin Live
  BY <1>0, <1>2 DEF Live, TypeOK
<1> HIDE DEF Table
<1>7. TypeOK'
  <2>1. cap \in -1 .. cap'-1 /\ -1 .. cap-1 \subseteq -1 .. cap'-1
    BY <1>2, <1>3
  <2>2. /\ running \in -1 .. cap-1 /\ home \in [Objs -> -1 .. cap-1]
        /\ handle \in [Objs -> -1 .. cap-1]
    BY <1>0 DEF TypeOK
  <2>3. handle' \in [Objs -> -1 .. cap'-1] /\ home' \in [Objs -> -1 .. cap'-1]
        /\ running' \in -1 .. cap'-1
    BY <2>1, <2>2, <1>2
  <2> QED BY <2>3, <1>0, <1>2, <1>3, <1>5 DEF TypeOK
<1>8. CountIsLive'
  <2>1. DOMAIN status = Objs /\ CountIsLive
    BY <1>0 DEF TypeOK, IInv
  <2> QED BY <2>1, <1>0, <1>2, CountGrows
<1>9. Table'
  <2>1. SlotsHoldLive'
    BY <1>0, <1>4, <1>6 DEF Table, SlotsHoldLive
  <2>2. LiveHasSlot'
    BY <1>0, <1>3, <1>4, <1>6 DEF Table, LiveHasSlot
  <2>3. \A id \in Ids : slot[id] # o
    BY <1>0, <1>6 DEF Table, SlotsHoldLive
  <2>4. OneSlotEach'
    BY <1>0, <1>3, <1>4, <2>3 DEF Table, OneSlotEach
  <2>5. FiberMatchesStatus'
    BY <1>0, <1>2 DEF Table, FiberMatchesStatus, TypeOK
  <2>6. cap' > DefaultCap
    BY <1>0, <1>2, <1>3 DEF Table, FirstTable
  <2>7. FirstTable'
    BY <2>6, <1>2, <1>3 DEF FirstTable
  <2> QED BY <2>1, <2>2, <2>4, <2>5, <2>7 DEF Table
<1>10. HandleNamesItsCoroutine'
  <2>1. cap' > DefaultCap
    BY <1>0, <1>2, <1>3 DEF Table, FirstTable
  <2> QED BY <2>1 DEF HandleNamesItsCoroutine
<1>11. NobodyStranded' /\ RunningIsExecuting' /\ FiberKeepsItsSlot'
  <2>1. NobodyStranded'
    BY <1>0, <1>2 DEF IInv, NobodyStranded, TypeOK
  <2>2. RunningIsExecuting'
    <3>1. running >= 0 => running \in Ids
      BY <1>0 DEF TypeOK, Ids
    <3>2. cpu # Main => cpu \in Objs /\ status[cpu] = "RUNNING"
      BY <1>0 DEF IInv, RunningIsExecuting, TypeOK
    <3>3. cpu # Main => status'[cpu] = "RUNNING"
      BY <1>0, <1>2, <3>2 DEF TypeOK
    <3> QED BY <1>0, <1>2, <1>4, <3>1, <3>3 DEF IInv, RunningIsExecuting
  <2>3. FiberKeepsItsSlot'
    <3>1. \A p \in Objs : home[p] >= 0 => home[p] \in Ids
      BY <1>0 DEF TypeOK, Ids
    <3> QED BY <1>0, <1>2, <1>4, <3>1 DEF IInv, FiberKeepsItsSlot
  <2> QED BY <2>1, <2>2, <2>3
<1> QED BY <1>7, <1>8, <1>9, <1>10, <1>11 DEF IInv, Table

\* When the program stops and nothing else changes, what IInv says of a
\* stopped program remains.
LEMMA StopsIInv ==
    ASSUME IInv, UNCHANGED <<schedule, objects, cpu>>,
           mode' \in {"closed", "exited", "aborted", "undefined"}
    PROVE  IInv'
<1>1. TypeOK'
  BY DEF IInv, TypeOK, schedule, objects, Ids
<1>2. NobodyStranded'
  BY DEF IInv, NobodyStranded, objects
<1> QED BY <1>1, <1>2 DEF IInv, RunningIsExecuting, FiberKeepsItsSlot,
           CountIsLive, HandleNamesItsCoroutine

LEMMA ResumeLiveIInv ==
    ASSUME IInv, NEW id \in Issued, ResumeLive(id)
    PROVE  IInv'
<1> DEFINE C == slot[id]
<1>0. TypeOK /\ Table /\ mode = "run"
  BY DEF IInv, Table, ResumeLive, MayResume
<1>1. /\ C \in Objs /\ status[C] \in {"READY", "SUSPEND"}
      /\ AnyCaller \/ running = -1
      /\ IF status[C] = "READY" THEN StartFiber(C, id)
                                ELSE UNCHANGED <<ctx, home>>
      /\ running' = id
      /\ status' = [status EXCEPT ![C] = "RUNNING"]
      /\ cpu' = C
      /\ UNCHANGED <<cap, nco, slot, handle, mode>>
  BY DEF ResumeLive, MayResume
<1>2. id \in Ids /\ id >= 0
  BY <1>0 DEF Issued, TypeOK, Ids
<1> HIDE DEF C
<1>3. Ids' = Ids /\ Live' = Live /\ Main \notin Objs /\ slot[id] = C
  BY <1>0, <1>1 DEF Ids, Live, TypeOK, C
<1>4. TypeOK'
  <2>0. id \in -1 .. cap-1
    BY <1>0, <1>2 DEF TypeOK, Ids
  <2>1. /\ ctx' \in [Objs -> {"uninit", "fiber", "deleted"}]
        /\ home' \in [Objs -> -1 .. cap-1]
    <3>1. CASE status[C] = "READY"
      BY <3>1, <2>0, <1>0, <1>1 DEF TypeOK, StartFiber
    <3>2. CASE status[C] # "READY"
      BY <3>2, <1>0, <1>1 DEF TypeOK
    <3> QED BY <3>1, <3>2
  <2>2. status' \in [Objs -> {"none", "READY", "RUNNING", "SUSPEND", "DEAD"}]
    BY <1>0, <1>1 DEF TypeOK
  <2> QED BY <2>0, <2>1, <2>2, <1>0, <1>1, <1>3 DEF TypeOK
<1>5. NobodyStranded'
  <2>1. CASE AnyCaller
    BY <2>1 DEF NobodyStranded
  <2>2. CASE ~AnyCaller
    <3>1. \A p \in Objs : status[p] # "RUNNING"
      BY <2>2, <1>0, <1>1 DEF IInv, NobodyStranded, RunningIsExecuting, TypeOK
    <3> QED BY <3>1, <1>0, <1>1 DEF NobodyStranded, TypeOK
  <2> QED BY <2>1, <2>2
<1>6. RunningIsExecuting'
  <2>1. status'[C] = "RUNNING" /\ slot'[running'] = C /\ running' >= 0
    BY <1>0, <1>1, <1>2, <1>3 DEF TypeOK
  <2>2. cpu' # Main
    BY <1>1, <1>3
  <2> QED BY <2>1, <2>2, <1>1 DEF RunningIsExecuting
<1>7. FiberKeepsItsSlot'
  BY <1>0, <1>1, <1>2, <1>3 DEF IInv, FiberKeepsItsSlot, StartFiber, TypeOK
<1>8. CountIsLive' /\ HandleNamesItsCoroutine'
  BY <1>0, <1>1, <1>3 DEF IInv, CountIsLive, HandleNamesItsCoroutine
<1>9. FiberMatchesStatus'
  BY <1>0, <1>1 DEF Table, FiberMatchesStatus, StartFiber, TypeOK
<1>10. Table'
  BY <1>0, <1>1, <1>3, <1>9 DEF Table, SlotsHoldLive, LiveHasSlot,
     OneSlotEach, FirstTable
<1> QED BY <1>4, <1>5, <1>6, <1>7, <1>8, <1>10 DEF IInv, Table

LEMMA YieldIInv ==
    ASSUME IInv, Yield
    PROVE  IInv'
<1> DEFINE C == slot[running]
<1>0. TypeOK /\ Table /\ mode = "run"
  BY DEF IInv, Table, Yield
<1>1. /\ running >= 0
      /\ status' = [status EXCEPT ![C] = "SUSPEND"]
      /\ running' = -1 /\ cpu' = Main
      /\ UNCHANGED <<cap, nco, slot, ctx, home, handle, mode>>
  BY DEF Yield, Suspend, NoneRuns
<1>2. C = cpu /\ C \in Objs /\ status[C] = "RUNNING"
  BY <1>0, <1>1 DEF IInv, RunningIsExecuting, TypeOK
<1> HIDE DEF C
<1>3. Ids' = Ids /\ Live' = Live
  BY <1>0, <1>1, <1>2 DEF Ids, Live, TypeOK
<1>4. TypeOK'
  BY <1>0, <1>1, <1>2, <1>3 DEF TypeOK
<1>5. NobodyStranded'
  BY <1>0, <1>1, <1>2 DEF IInv, NobodyStranded, TypeOK
<1>6. RunningIsExecuting' /\ FiberKeepsItsSlot'
  BY <1>0, <1>1 DEF IInv, RunningIsExecuting, FiberKeepsItsSlot
<1>7. CountIsLive' /\ HandleNamesItsCoroutine'
  BY <1>0, <1>1, <1>3 DEF IInv, CountIsLive, HandleNamesItsCoroutine
<1>8. FiberMatchesStatus'
  BY <1>0, <1>1, <1>2 DEF Table, FiberMatchesStatus, TypeOK
<1>9. Table'
  BY <1>0, <1>1, <1>3, <1>8 DEF Table, SlotsHoldLive, LiveHasSlot,
     OneSlotEach, FirstTable
<1> QED BY <1>4, <1>5, <1>6, <1>7, <1>9 DEF IInv, Table

LEMMA FuncReturnIInv ==
    ASSUME IInv, FuncReturn
    PROVE  IInv'
<1> DEFINE C == cpu
           id == home[cpu]
<1>0. TypeOK /\ Table /\ mode = "run"
  BY DEF IInv, Table, FuncReturn
<1>1. /\ C \in Objs
      /\ ctx' = [o \in Objs |-> IF o = C THEN "deleted" ELSE ctx[o]]
      /\ status' = [o \in Objs |-> IF o = C THEN "DEAD" ELSE status[o]]
      /\ slot' = [slot EXCEPT ![id] = NULL]
      /\ nco' = nco - 1 /\ running' = -1 /\ cpu' = Main
      /\ UNCHANGED <<cap, home, handle, mode>>
  BY DEF FuncReturn, CoDelete, EmptySlot, Uncount, NoneRuns
<1>2. status[C] = "RUNNING" /\ ctx[C] = "fiber"
  BY <1>0, <1>1
  DEF IInv, RunningIsExecuting, Table, FiberMatchesStatus, TypeOK
<1>3. id \in Ids /\ slot[id] = C
  BY <1>0, <1>1, <1>2 DEF IInv, FiberKeepsItsSlot, TypeOK, Ids
<1> HIDE DEF C, id
<1>4. Ids' = Ids /\ Live' = Live \ {C} /\ C \in Live
  BY <1>0, <1>1, <1>2 DEF Ids, Live, TypeOK
<1>5. CountIsLive' /\ nco' \in Nat
  <2>1. Cardinality(Live') = Cardinality(Live) - 1
    BY <1>4, LiveFinite, FS_RemoveElement
  <2>2. Cardinality(Live) \in Nat /\ Cardinality(Live') \in Nat
    BY <1>4, LiveFinite, FS_RemoveElement, FS_CardinalityType
  <2> QED BY <2>1, <2>2, <1>0, <1>1 DEF IInv, CountIsLive
<1>6. TypeOK'
  <2>1. slot' \in [Ids' -> Objs \cup {NULL, Wild}]
    BY <1>0, <1>1, <1>4 DEF TypeOK
  <2>2. /\ status' \in [Objs -> {"none", "READY", "RUNNING", "SUSPEND", "DEAD"}]
        /\ ctx' \in [Objs -> {"uninit", "fiber", "deleted"}]
    BY <1>0, <1>1 DEF TypeOK
  <2>3. -1 \in -1 .. cap-1
    BY <1>0 DEF TypeOK
  <2> QED BY <2>1, <2>2, <2>3, <1>0, <1>1, <1>5 DEF TypeOK
<1>7. NobodyStranded'
  <2>1. ASSUME ~AnyCaller, NEW o \in Objs PROVE status'[o] # "RUNNING"
    BY <2>1, <1>1 DEF IInv, NobodyStranded, C
  <2> QED BY <2>1 DEF NobodyStranded
<1>8. RunningIsExecuting'
  BY <1>1 DEF RunningIsExecuting
<1>9. \A i \in Ids : slot[i] = C => i = id
  BY <1>0, <1>1, <1>3 DEF Table, OneSlotEach
<1>10. FiberKeepsItsSlot'
  <2>1. ASSUME NEW o \in Objs, ctx'[o] = "fiber"
        PROVE  home'[o] >= 0 /\ slot'[home'[o]] = o
    <3>1. o # C /\ ctx[o] = "fiber"
      BY <2>1, <1>1
    <3>2. home[o] >= 0 /\ slot[home[o]] = o /\ home[o] \in Ids
      BY <3>1, <1>0 DEF IInv, FiberKeepsItsSlot, TypeOK, Ids
    <3>3. home[o] # id
      BY <3>1, <3>2, <1>3
    <3> QED BY <3>2, <3>3, <1>0, <1>1 DEF TypeOK
  <2> QED BY <2>1 DEF FiberKeepsItsSlot
<1>11. HandleNamesItsCoroutine'
  <2> SUFFICES ASSUME cap = DefaultCap, NEW o \in Live \ {C}
               PROVE  slot'[handle[o]] = o
    BY <1>1, <1>4 DEF HandleNamesItsCoroutine
  <2>1. handle[o] \in Ids /\ slot[handle[o]] = o
    BY <1>0 DEF IInv, HandleNamesItsCoroutine, Table, FirstTable, TypeOK,
       Live, Ids
  <2>2. handle[o] # id
    BY <2>1, <1>3
  <2> QED BY <2>1, <2>2, <1>0, <1>1 DEF TypeOK
<1>12. Table'
  <2>1. SlotsHoldLive'
    BY <1>0, <1>1, <1>3, <1>4, <1>9 DEF Table, SlotsHoldLive, TypeOK
  <2>2. LiveHasSlot'
    BY <1>0, <1>1, <1>3, <1>4 DEF Table, LiveHasSlot, TypeOK
  <2>3. OneSlotEach'
    BY <1>0, <1>1, <1>3, <1>4 DEF Table, OneSlotEach, TypeOK
  <2>4. FiberMatchesStatus'
    BY <1>0, <1>1 DEF Table, FiberMatchesStatus, TypeOK
  <2>5. FirstTable'
    BY <1>0, <1>1, <1>3, <1>4 DEF Table, FirstTable, TypeOK
  <2> QED BY <2>1, <2>2, <2>3, <2>4, <2>5 DEF Table
<1> QED BY <1>5, <1>6, <1>7, <1>8, <1>10, <1>11, <1>12 DEF IInv, Table

LEMMA FuncReturnExitsIInv ==
    ASSUME IInv, FuncReturnExits
    PROVE  IInv'
<1>1. TypeOK'
  BY DEF IInv, TypeOK, FuncReturnExits, schedule, Ids
<1>2. NobodyStranded'
  BY DEF IInv, NobodyStranded, FuncReturnExits
<1> QED BY <1>1, <1>2 DEF FuncReturnExits, IInv, RunningIsExecuting,
           FiberKeepsItsSlot, CountIsLive, HandleNamesItsCoroutine

LEMMA CloseIInv ==
    ASSUME IInv, Close
    PROVE  IInv'
<1>1. CASE FollowsWild
  BY <1>1, StopsIInv DEF FollowsWild
<1>2. CASE ~FollowsWild
  <2>1. PICK held : mode' = "closed" /\ CoDelete(held)
                    /\ UNCHANGED <<schedule, home, handle, cpu>>
    BY <1>2 DEF Close
  <2>2. TypeOK'
    BY <2>1 DEF IInv, TypeOK, CoDelete, schedule, Ids
  <2>3. NobodyStranded'
    BY <2>1 DEF IInv, NobodyStranded, CoDelete, TypeOK
  <2> QED BY <2>1, <2>2, <2>3 DEF IInv, RunningIsExecuting,
             FiberKeepsItsSlot, CountIsLive, HandleNamesItsCoroutine
<1> QED BY <1>1, <1>2

LEMMA StutterIInv ==
    ASSUME IInv, UNCHANGED vars
    PROVE  IInv'
BY DEF vars, IInv, TypeOK, NobodyStranded, RunningIsExecuting,
   FiberKeepsItsSlot, CountIsLive, HandleNamesItsCoroutine, SlotsHoldLive,
   LiveHasSlot, OneSlotEach, FiberMatchesStatus, FirstTable, Ids, Live

LEMMA StepIInv == IInv /\ [Next]_vars => IInv'
<1> SUFFICES ASSUME IInv, [Next]_vars PROVE IInv'
  OBVIOUS
<1>1. CASE UNCHANGED vars
  BY <1>1, StutterIInv
<1>2. ASSUME NEW o \in Objs, NewInFreeSlot(o) PROVE IInv'
  BY <1>2, NewInFreeSlotIInv
<1>3. ASSUME NEW o \in Objs, NewGrow(o) PROVE IInv'
  BY <1>3, NewGrowIInv
<1>4. ASSUME NEW o \in Objs, NewNoSlot(o) PROVE IInv'
  BY <1>4, StopsIInv, StutterIInv DEF NewNoSlot, AssertFails
<1>5. ASSUME NEW id \in Issued, ResumeDead(id) PROVE IInv'
  BY <1>5, StutterIInv DEF ResumeDead
<1>6. ASSUME NEW id \in Issued, ResumeWild(id) PROVE IInv'
  BY <1>6, StopsIInv DEF ResumeWild, FollowsWild
<1>7. ASSUME NEW id \in Issued, ResumeRunning(id) PROVE IInv'
  BY <1>7, StopsIInv, StutterIInv DEF ResumeRunning, AssertFails
<1>8. ASSUME NEW id \in Issued, ResumeLive(id) PROVE IInv'
  BY <1>8, ResumeLiveIInv
<1>9. CASE Yield
  BY <1>9, YieldIInv
<1>10. CASE YieldOutside
  BY <1>10, StopsIInv DEF YieldOutside, AssertFails
<1>11. CASE FuncReturn
  BY <1>11, FuncReturnIInv
<1>12. CASE FuncReturnExits
  BY <1>12, FuncReturnExitsIInv
<1>13. CASE Close
  BY <1>13, CloseIInv
<1> QED BY <1>1, <1>2, <1>3, <1>4, <1>5, <1>6, <1>7, <1>8, <1>9, <1>10,
           <1>11, <1>12, <1>13 DEF Next

\* IInv holds in every reachable state of the scheduler.
THEOREM Invariance == Spec => []IInv
<1>1. Init => IInv
  BY InitIInv
<1>2. IInv /\ [Next]_vars => IInv'
  BY StepIInv
<1> QED BY <1>1, <1>2, PTL DEF Spec

-----------------------------------------------------------------------------
\* The variables of the scheduler keep their types, for a table of any size
\* and any number of growths.
THEOREM TypeCorrect == Spec => []TypeOK
BY Invariance, PTL DEF IInv

\* A handle leads to the coroutine it was returned for as long as the table
\* has its first size, whatever DEFAULT_COROUTINE is.
THEOREM HandlesCorrect == Spec => []HandleNamesItsCoroutine
BY Invariance, PTL DEF IInv

\* S->running and the executing fiber agree, and a fiber's own slot number
\* stays its own: also when clients resume from inside coroutines.
THEOREM RunningCorrect ==
    Spec => [](RunningIsExecuting /\ FiberKeepsItsSlot /\ CountIsLive)
BY Invariance, PTL DEF IInv

\* Resuming only while no coroutine runs strands none.
THEOREM NoneStranded == Spec => []NobodyStranded
BY Invariance, PTL DEF IInv

-----------------------------------------------------------------------------
\* If every slot held a coroutine the table would inject its cap slots into
\* the live coroutines, of which there are only nco.
LEMMA PigeonHole == IInv => SearchSucceeds
<1> SUFFICES ASSUME IInv, mode = "run", cap = DefaultCap, nco < cap,
                    \A id \in Ids : slot[id] # NULL
             PROVE  FALSE
  BY DEF SearchSucceeds
<1>1. TypeOK /\ Table /\ CountIsLive
  BY DEF IInv, Table
<1>2. slot \in [Ids -> Live]
  BY <1>1 DEF TypeOK, Table, FirstTable, SlotsHoldLive
<1>3. slot \in Injection(Ids, Live)
  BY <1>1, <1>2 DEF Injection, IsInjective, Table, OneSlotEach, Live
<1>4. Cardinality(Ids) <= Cardinality(Live)
  BY <1>3, LiveFinite, FS_Injection
<1>5. Cardinality(Ids) = cap
  <2>1. cap \in Nat \ {0} /\ 0 \in Int /\ cap-1 \in Int
    BY <1>1 DEF TypeOK
  <2>2. Cardinality(0 .. cap-1) = IF 0 > cap-1 THEN 0 ELSE (cap-1) - 0 + 1
    BY <2>1, FS_Interval
  <2> QED BY <2>1, <2>2 DEF Ids
<1>6. Cardinality(Live) = nco
  BY <1>1 DEF CountIsLive
<1> QED BY <1>1, <1>4, <1>5, <1>6 DEF TypeOK

\* The assert(0) that ends coroutine_new is never reached before the table
\* grows.
THEOREM SearchCorrect == Spec => []SearchSucceeds
BY Invariance, PigeonHole, PTL

-----------------------------------------------------------------------------
LEMMA StepFails ==
    ASSUME IInv, FailsOnlyOnEarlyClose, [Next]_vars
    PROVE  FailsOnlyOnEarlyClose'
<1> SUFFICES ASSUME ~AnyCaller, cap' = DefaultCap,
                    mode' \in {"aborted", "undefined"}
             PROVE  /\ mode' # "aborted"
                    /\ (cpu = Main /\ \E o \in Live : ctx[o] = "uninit")'
  BY DEF FailsOnlyOnEarlyClose
<1>0. TypeOK /\ SearchSucceeds
  BY PigeonHole DEF IInv
<1>1. CASE UNCHANGED vars
  BY <1>1 DEF vars, FailsOnlyOnEarlyClose, Live
<1>2. CASE mode = "run" /\ UNCHANGED <<schedule, objects, cpu>>
  <2>1. cap = DefaultCap /\ Table /\ Live' = Live /\ UNCHANGED <<cpu, ctx>>
    BY <1>2 DEF IInv, Table, schedule, objects, Live
  <2>2. ASSUME NEW o \in Objs, NewNoSlot(o) PROVE FALSE
    BY <2>1, <2>2, <1>0, <1>2 DEF NewNoSlot, SearchSucceeds
  <2>3. ASSUME NEW id \in Issued, ResumeWild(id) PROVE FALSE
    <3>1. id \in Ids
      BY <1>0 DEF Issued, TypeOK, Ids
    <3> QED BY <2>1, <2>3, <3>1 DEF ResumeWild, Table, FirstTable
  <2>4. ASSUME NEW id \in Issued, ResumeRunning(id) PROVE FALSE
    <3>1. running = -1
      BY <2>4 DEF ResumeRunning, MayResume
    <3>2. \A o \in Objs : status[o] # "RUNNING"
      BY <3>1, <1>0, <1>2 DEF IInv, NobodyStranded, RunningIsExecuting, TypeOK
    <3> QED BY <2>4, <3>2 DEF ResumeRunning
  <2>5. ~YieldOutside
    BY DEF YieldOutside
  <2>6. CASE Close
    <3>1. mode' = "undefined" /\ cpu = Main
      BY <2>6 DEF Close, FollowsWild
    <3>2. PICK o \in {slot[id] : id \in Ids} \ {NULL} : ctx[o] = "uninit"
      BY <2>1, <2>6, <3>1 DEF Close, Visited, FollowsWild, Table, FirstTable
    <3>3. o \in Live
      BY <3>2, <2>1, <1>0 DEF Table, FirstTable, SlotsHoldLive, TypeOK
    <3> QED BY <3>1, <3>2, <3>3, <2>1
  <2>7. UNCHANGED <<nco, slot, status, cpu, running, ctx>> /\ mode' # "run"
    BY <1>2 DEF schedule, objects
  <2>8. ASSUME NEW o \in Objs, NewInFreeSlot(o) \/ NewGrow(o) PROVE FALSE
    BY <2>7, <2>8, <1>2 DEF NewInFreeSlot, NewGrow, CoNew
  <2>9. ASSUME NEW id \in Issued, ResumeDead(id) \/ ResumeLive(id) PROVE FALSE
    BY <2>7, <2>9, <1>2 DEF ResumeDead, ResumeLive, vars
  <2>10. ~Yield /\ ~FuncReturn /\ ~FuncReturnExits
    BY <2>7, <1>2 DEF Yield, NoneRuns, FuncReturn, FuncReturnExits
  <2> QED BY <2>2, <2>3, <2>4, <2>5, <2>6, <2>8, <2>9, <2>10, <1>2 DEF Next, vars
<1>3. (mode = "run" /\ UNCHANGED <<schedule, objects, cpu>>) \/ UNCHANGED vars
  <2>1. ASSUME NEW o \in Objs, NewInFreeSlot(o) \/ NewGrow(o) PROVE FALSE
    BY <2>1 DEF NewInFreeSlot, NewGrow, CoNew, MayCreate
  <2>2. ASSUME NEW id \in Issued, ResumeLive(id) PROVE FALSE
    BY <2>2 DEF ResumeLive, MayResume
  <2>3. ~Yield /\ ~FuncReturn /\ ~FuncReturnExits
    BY DEF Yield, FuncReturn, FuncReturnExits
  <2>4. ASSUME NEW o \in Objs, NewNoSlot(o)
        PROVE  (mode = "run" /\ UNCHANGED <<schedule, objects, cpu>>)
               \/ UNCHANGED vars
    BY <2>4 DEF NewNoSlot, MayCreate, AssertFails
  <2>5. ASSUME NEW id \in Issued,
               ResumeDead(id) \/ ResumeWild(id) \/ ResumeRunning(id)
        PROVE  (mode = "run" /\ UNCHANGED <<schedule, objects, cpu>>)
               \/ UNCHANGED vars
    BY <2>5 DEF ResumeDead, ResumeWild, ResumeRunning, MayResume, AssertFails,
       FollowsWild
  <2>6. ASSUME YieldOutside \/ Close
        PROVE  mode = "run" /\ UNCHANGED <<schedule, objects, cpu>>
    BY <2>6 DEF YieldOutside, Close, AssertFails, FollowsWild
  <2> QED BY <2>1, <2>2, <2>3, <2>4, <2>5, <2>6 DEF Next
<1> QED BY <1>1, <1>2, <1>3

\* For clients that resume only while no coroutine runs, and a table that has
\* not grown, no assertion of coroutine.c fails and no uninitialised value is
\* used but the fiber address of a never resumed coroutine, by
\* coroutine_close.
THEOREM FailuresCorrect == Spec => []FailsOnlyOnEarlyClose
<1>1. Init => FailsOnlyOnEarlyClose
  BY DEF Init, FailsOnlyOnEarlyClose
<1>2. IInv /\ FailsOnlyOnEarlyClose /\ [Next]_vars => FailsOnlyOnEarlyClose'
  BY StepFails
<1> QED BY <1>1, <1>2, Invariance, PTL DEF Spec

-----------------------------------------------------------------------------
\* Deleting every coroutine the slots hold leaves none alive.
LEMMA CloseStep ==
    ASSUME IInv, CloseFreesAll, [Next]_vars
    PROVE  CloseFreesAll'
<1>1. CASE UNCHANGED vars
  BY <1>1 DEF vars, CloseFreesAll, Live
<1>2. CASE Close /\ mode' = "closed"
  <2>1. LiveHasSlot
    BY <1>2 DEF IInv, Close
  <2>2. CoDelete({slot[id] : id \in Ids} \ {NULL})
    BY <1>2 DEF Close, Visited, FollowsWild
  <2>3. \A o \in Live : status'[o] = "DEAD"
    BY <2>1, <2>2 DEF LiveHasSlot, CoDelete, Live
  <2>4. \A o \in Objs : o \notin Live => status'[o] \in {status[o], "DEAD"}
    BY <2>2 DEF CoDelete
  <2> QED BY <2>3, <2>4 DEF CloseFreesAll, Live
<1>3. mode' # "closed" \/ Close \/ UNCHANGED vars
  <2>1. ASSUME NEW o \in Objs, NewInFreeSlot(o) \/ NewGrow(o) \/ NewNoSlot(o)
        PROVE  mode' # "closed" \/ UNCHANGED vars
    <3>1. CASE NewInFreeSlot(o) \/ NewGrow(o)
      BY <3>1 DEF NewInFreeSlot, NewGrow, CoNew, MayCreate
    <3>2. CASE NewNoSlot(o)
      BY <3>2 DEF NewNoSlot, AssertFails
    <3> QED BY <2>1, <3>1, <3>2
  <2>2. ASSUME NEW id \in Issued, ResumeDead(id) \/ ResumeWild(id)
                                  \/ ResumeRunning(id) \/ ResumeLive(id)
        PROVE  mode' # "closed" \/ UNCHANGED vars
    BY <2>2 DEF ResumeDead, ResumeWild, ResumeRunning, ResumeLive, MayResume,
       AssertFails, FollowsWild
  <2>3. ASSUME Yield \/ YieldOutside \/ FuncReturn \/ FuncReturnExits
        PROVE  mode' # "closed"
    BY <2>3 DEF Yield, YieldOutside, FuncReturn, FuncReturnExits, AssertFails
  <2> QED BY <2>1, <2>2, <2>3 DEF Next
<1>4. CASE mode' # "closed"
  BY <1>4 DEF CloseFreesAll
<1> QED BY <1>1, <1>2, <1>3, <1>4

\* coroutine_close misses no coroutine, wherever the growths have put it.
THEOREM CloseCorrect == Spec => []CloseFreesAll
<1>1. Init => CloseFreesAll
  BY DEF Init, CloseFreesAll
<1>2. IInv /\ CloseFreesAll /\ [Next]_vars => CloseFreesAll'
  BY CloseStep
<1> QED BY <1>1, <1>2, Invariance, PTL DEF Spec

-----------------------------------------------------------------------------
\* Only a running program takes steps.
LEMMA StopsForGood == Next => mode = "run" \/ UNCHANGED vars
BY DEF Next, NewInFreeSlot, NewGrow, NewNoSlot, MayCreate, ResumeDead,
   ResumeWild, ResumeRunning, ResumeLive, MayResume, Yield, YieldOutside,
   FuncReturn, FuncReturnExits, Close

\* A coroutine that has ended is not in the table, and no call of the library
\* puts it back.
LEMMA DeadStep ==
    ASSUME IInv, IInv', [Next]_vars
    PROVE  [KeepsDead]_vars
<1> SUFFICES ASSUME Next, ~UNCHANGED vars, NEW o \in Objs, status[o] = "DEAD"
             PROVE  /\ status'[o] = "DEAD" /\ cpu' # o
                    /\ \A id \in Ids' : slot'[id] # o
  BY DEF KeepsDead
<1>0. TypeOK /\ Table /\ mode = "run" /\ RunningIsExecuting
  BY StopsForGood DEF IInv, Table
<1>1. cpu # o /\ \A id \in Ids : slot[id] # o
  BY <1>0 DEF RunningIsExecuting, Table, SlotsHoldLive, Live, TypeOK
<1>2. CASE UNCHANGED <<cap, slot, cpu, status>>
  BY <1>1, <1>2 DEF Ids
<1>3. ASSUME NEW p \in Objs, NewInFreeSlot(p) PROVE
        /\ status'[o] = "DEAD" /\ cpu' # o /\ \A id \in Ids' : slot'[id] # o
  <2>1. /\ p # o /\ UNCHANGED <<cap, cpu>>
        /\ status' = [status EXCEPT ![p] = "READY"]
        /\ \E i : slot' = [slot EXCEPT ![i] = p]
    BY <1>3 DEF NewInFreeSlot, MayCreate, CoNew
  <2> QED BY <2>1, <1>0, <1>1 DEF TypeOK, Ids
<1>4. ASSUME NEW p \in Objs, NewGrow(p) PROVE
        /\ status'[o] = "DEAD" /\ cpu' # o /\ \A id \in Ids' : slot'[id] # o
  <2>1. /\ p # o /\ UNCHANGED <<cpu, mode>>
        /\ status' = [status EXCEPT ![p] = "READY"]
    BY <1>4 DEF NewGrow, MayCreate, CoNew
  <2>2. status'[o] = "DEAD" /\ o \notin Live'
    BY <2>1, <1>0 DEF TypeOK, Live
  <2>3. SlotsHoldLive'
    BY <2>1, <1>0 DEF IInv
  <2> QED BY <2>1, <2>2, <2>3, <1>1 DEF SlotsHoldLive
<1>5. ASSUME NEW id \in Issued, ResumeLive(id) PROVE
        /\ status'[o] = "DEAD" /\ cpu' # o /\ \A i \in Ids' : slot'[i] # o
  <2>1. id \in Ids
    BY <1>0 DEF Issued, TypeOK, Ids
  <2>2. /\ UNCHANGED <<cap, slot>> /\ cpu' = slot[id]
        /\ status' = [status EXCEPT ![slot[id]] = "RUNNING"]
    BY <1>5 DEF ResumeLive
  <2> QED BY <2>1, <2>2, <1>0, <1>1 DEF TypeOK, Ids
<1>6. ASSUME Yield PROVE
        /\ status'[o] = "DEAD" /\ cpu' # o /\ \A id \in Ids' : slot'[id] # o
  <2>1. running \in Ids
    BY <1>0, <1>6 DEF Yield, TypeOK, Ids
  <2>2. /\ UNCHANGED <<cap, slot>> /\ cpu' = Main
        /\ status' = [status EXCEPT ![slot[running]] = "SUSPEND"]
    BY <1>6 DEF Yield, Suspend
  <2> QED BY <2>1, <2>2, <1>0, <1>1 DEF TypeOK, Ids
<1>7. ASSUME FuncReturn PROVE
        /\ status'[o] = "DEAD" /\ cpu' # o /\ \A id \in Ids' : slot'[id] # o
  <2>1. /\ UNCHANGED cap /\ cpu' = Main
        /\ slot' = [slot EXCEPT ![home[cpu]] = NULL]
        /\ status'[o] = "DEAD"
    BY <1>7 DEF FuncReturn, CoDelete, EmptySlot
  <2> QED BY <2>1, <1>0, <1>1 DEF TypeOK, Ids
<1>8. ASSUME Close PROVE
        /\ status'[o] = "DEAD" /\ cpu' # o /\ \A id \in Ids' : slot'[id] # o
  <2>1. UNCHANGED <<cap, slot, cpu>> /\ status'[o] = "DEAD"
    BY <1>8 DEF Close, FollowsWild, CoDelete, schedule, objects
  <2> QED BY <2>1, <1>1 DEF Ids
<1>9. ASSUME YieldOutside \/ FuncReturnExits
      PROVE  UNCHANGED <<cap, slot, cpu, status>>
  BY <1>9 DEF YieldOutside, FuncReturnExits, AssertFails, schedule,
     objects
<1>10. ASSUME NEW p \in Objs, NewNoSlot(p)
       PROVE  UNCHANGED <<cap, slot, cpu, status>>
  BY <1>10 DEF NewNoSlot, AssertFails, schedule, objects, vars
<1>11. ASSUME NEW id \in Issued,
              ResumeDead(id) \/ ResumeWild(id) \/ ResumeRunning(id)
       PROVE  UNCHANGED <<cap, slot, cpu, status>>
  BY <1>11 DEF ResumeDead, ResumeWild, ResumeRunning, AssertFails,
     FollowsWild, schedule, objects, vars
<1> QED BY <1>2, <1>3, <1>4, <1>5, <1>6, <1>7, <1>8, <1>9, <1>10, <1>11 DEF Next

\* An ended coroutine never executes, is never in the table, and is never
\* marked anything but dead.
THEOREM DeadCorrect == Spec => DeadStaysDead
<1>1. IInv /\ IInv' /\ [Next]_vars => [KeepsDead]_vars
  BY DeadStep
<1> QED BY <1>1, Invariance, PTL DEF Spec, DeadStaysDead

-----------------------------------------------------------------------------
\* A client that keeps at most DefaultCap coroutines alive never makes the
\* table grow.
LEMMA NoGrowth ==
    ASSUME MaxLive <= DefaultCap
    PROVE  Spec => [](cap = DefaultCap)
<1>1. Init => cap = DefaultCap
  BY DEF Init
<1>2. TypeOK /\ cap = DefaultCap /\ [Next]_vars => (cap = DefaultCap)'
  <2> SUFFICES ASSUME TypeOK, cap = DefaultCap, [Next]_vars
               PROVE  cap' = cap
    OBVIOUS
  <2>1. ASSUME NEW o \in Objs, NewGrow(o) PROVE FALSE
    BY <2>1 DEF NewGrow, MayCreate, TypeOK
  <2> QED
    BY <2>1 DEF Next, vars, NewInFreeSlot, NewNoSlot, ResumeDead, ResumeWild,
       ResumeRunning, ResumeLive, Yield, YieldOutside, FuncReturn,
       FuncReturnExits, Close, AssertFails, FollowsWild, schedule
<1> QED BY <1>1, <1>2, TypeCorrect, PTL DEF Spec

LEMMA RefinesInit == Init => Abs!Init
BY DEF Init, Abs!Init

LEMMA RefinesStep ==
    ASSUME ~AnyCaller, IInv, IInv', FailsOnlyOnEarlyClose', cap = DefaultCap,
           cap' = DefaultCap, [Next]_vars
    PROVE  [Abs!Next]_(Abs!absVars)
<1> DEFINE AStep == [Abs!Next]_(Abs!absVars)
<1>0. TypeOK /\ (mode = "run" => Table)
  BY DEF IInv, Table
<1>1. ASSUME UNCHANGED <<status, handle, mode>> PROVE AStep
  BY <1>1 DEF Abs!absVars
<1>2. ASSUME NEW o \in Objs, NewInFreeSlot(o) PROVE AStep
  <2>1. PICK i \in Ids : FirstFree(i) /\ CoNew(o, Probe(i))
    BY <1>2 DEF NewInFreeSlot
  <2>2. /\ status[o] = "none" /\ mode = "run" /\ mode' = "run"
        /\ status' = [status EXCEPT ![o] = "READY"]
        /\ handle' = [handle EXCEPT ![o] = Probe(i)]
    BY <1>2, <2>1 DEF NewInFreeSlot, MayCreate, CoNew, Returned
  <2>3. Probe(i) \in 0 .. DefaultCap-1 /\ slot[Probe(i)] = NULL
    BY <1>0, <2>1, ProbeInIds DEF TypeOK, FirstFree, Ids
  <2>4. \A p \in Live : handle[p] # Probe(i)
    BY <2>2, <2>3 DEF IInv, HandleNamesItsCoroutine, Live
  <2>5. Abs!Create(o)
    BY <2>2, <2>3, <2>4 DEF Abs!Create, Abs!Alive, Live
  <2> QED BY <2>5 DEF Abs!Next
<1>3. ASSUME NEW o \in Objs, NewGrow(o) PROVE AStep
  BY <1>0, <1>3, SMTT(30) DEF NewGrow, TypeOK
<1>4. ASSUME NEW o \in Objs, NewNoSlot(o) PROVE AStep
  BY <1>0, <1>4, PigeonHole DEF NewNoSlot, SearchSucceeds, MayCreate
<1>5. ASSUME NEW id \in Issued, ResumeDead(id) PROVE AStep
  BY <1>5, <1>1 DEF ResumeDead, vars
<1>6. ASSUME NEW id \in Issued, ResumeWild(id) PROVE AStep
  <2>1. id \in Ids /\ mode = "run"
    BY <1>0, <1>6 DEF Issued, TypeOK, Ids, ResumeWild, MayResume
  <2> QED BY <2>1, <1>0, <1>6 DEF ResumeWild, Table, FirstTable
<1>7. \A o \in Objs : mode = "run" /\ running = -1 => status[o] # "RUNNING"
  BY <1>0 DEF IInv, NobodyStranded, RunningIsExecuting, TypeOK
<1>8. ASSUME NEW id \in Issued, ResumeRunning(id) PROVE AStep
  BY <1>7, <1>8 DEF ResumeRunning, MayResume
<1>9. ASSUME NEW id \in Issued, ResumeLive(id) PROVE AStep
  <2> DEFINE C == slot[id]
  <2>1. /\ C \in Objs /\ status[C] \in {"READY", "SUSPEND"} /\ running = -1
        /\ status' = [status EXCEPT ![C] = "RUNNING"]
        /\ mode = "run" /\ UNCHANGED <<handle, mode>>
    BY <1>9 DEF ResumeLive, MayResume
  <2>2. Abs!Resume(C)
    BY <2>1, <1>7 DEF Abs!Resume
  <2> QED BY <2>1, <2>2 DEF Abs!Next
<1>10. ASSUME Yield PROVE AStep
  <2>1. /\ mode = "run" /\ UNCHANGED <<handle, mode>>
        /\ status' = [status EXCEPT ![cpu] = "SUSPEND"]
        /\ cpu \in Objs /\ status[cpu] = "RUNNING"
    <3>1. mode = "run" /\ running >= 0 /\ UNCHANGED <<handle, mode>>
          /\ status' = [status EXCEPT ![slot[running]] = "SUSPEND"]
      BY <1>10 DEF Yield, Suspend
    <3>2. cpu # Main /\ slot[running] = cpu /\ status[cpu] = "RUNNING"
      BY <3>1, <1>0 DEF IInv, RunningIsExecuting
    <3> QED BY <3>1, <3>2, <1>0 DEF TypeOK
  <2> QED BY <2>1 DEF Abs!Next, Abs!Yield
<1>11. ASSUME YieldOutside PROVE AStep
  BY <1>11 DEF YieldOutside
<1>12. ASSUME FuncReturn PROVE AStep
  <2>1. /\ mode = "run" /\ UNCHANGED <<handle, mode>>
        /\ status' = [o \in Objs |-> IF o = cpu THEN "DEAD" ELSE status[o]]
        /\ cpu \in Objs /\ status[cpu] = "RUNNING"
    BY <1>12, <1>0 DEF FuncReturn, CoDelete, IInv, RunningIsExecuting, TypeOK
  <2>2. status' = [status EXCEPT ![cpu] = "DEAD"]
    BY <2>1, <1>0 DEF TypeOK
  <2> QED BY <2>1, <2>2 DEF Abs!Next, Abs!Return
<1>13. ASSUME FuncReturnExits PROVE AStep
  <2>1. /\ mode = "run" /\ mode' = "exited" /\ UNCHANGED <<handle, status>>
        /\ cpu \in Objs /\ status[cpu] = "RUNNING"
    BY <1>13, <1>0 DEF FuncReturnExits, IInv, RunningIsExecuting, TypeOK
  <2> QED BY <2>1 DEF Abs!Next, Abs!Exit
<1>14. ASSUME Close PROVE AStep
  <2> DEFINE held == {slot[id] : id \in Ids} \ {NULL}
  <2>1. mode = "run" /\ cpu = Main /\ running = -1 /\ Table
    BY <1>0, <1>14 DEF Close, IInv, RunningIsExecuting
  <2>2. held = Live
    BY <2>1, <1>0
    DEF Table, LiveHasSlot, SlotsHoldLive, FirstTable, TypeOK, Live
  <2>3. Wild \notin held
    BY <2>2 DEF Live
  <2>4. (\E o \in held : ctx[o] = "uninit") <=> (\E o \in Objs : status[o] = "READY")
    BY <2>1, <2>2, <1>0 DEF Table, FiberMatchesStatus, TypeOK, Live
  <2>5. CASE \E o \in Objs : status[o] = "READY"
    <3>1. mode' = "undefined" /\ UNCHANGED <<status, handle>>
      BY <2>4, <2>5, <1>14 DEF Close, Visited, FollowsWild, objects
    <3> QED BY <3>1, <2>1, <2>5, <1>7 DEF Abs!Next, Abs!Close
  <2>6. CASE ~\E o \in Objs : status[o] = "READY"
    <3>1. mode' = "closed" /\ CoDelete(held) /\ UNCHANGED handle
      BY <2>3, <2>4, <2>6, <1>14 DEF Close, Visited
    <3>2. status' = [o \in Objs |-> IF status[o] = "none" THEN "none" ELSE "DEAD"]
      BY <3>1, <2>2, <1>0 DEF CoDelete, TypeOK, Live
    <3> QED BY <3>1, <3>2, <2>1, <2>6, <1>7 DEF Abs!Next, Abs!Close
  <2> QED BY <2>5, <2>6
<1>15. ASSUME UNCHANGED vars PROVE AStep
  BY <1>15, <1>1 DEF vars
<1> QED BY <1>2, <1>3, <1>4, <1>5, <1>6, <1>8, <1>9, <1>10, <1>11, <1>12,
           <1>13, <1>14, <1>15 DEF Next

\* The slot table implements AsymCoroutines for every table size, provided
\* clients resume only from the main program and never outgrow the table.
THEOREM Refinement ==
    ASSUME ~AnyCaller, MaxLive <= DefaultCap
    PROVE  Spec => Implements
<1>1. Init => Abs!Init
  BY RefinesInit
<1>2. Spec => [](cap = DefaultCap)
  BY NoGrowth
<1>3. IInv /\ IInv' /\ FailsOnlyOnEarlyClose' /\ cap = DefaultCap
      /\ (cap = DefaultCap)' /\ [Next]_vars => [Abs!Next]_(Abs!absVars)
  BY RefinesStep
<1> QED BY <1>1, <1>2, <1>3, Invariance, FailuresCorrect, PTL
        DEF Spec, Implements, Abs!Spec

-----------------------------------------------------------------------------


\* How often a coroutine has been resumed: its last resume has not led to a
\* yield, as it executes or has ended.
Begun(o) == quota[o] - left[o] + (IF status[o] = "DEAD" \/ cpu = o THEN 1 ELSE 0)

\* W are the coroutines in order of creation: the handles the program holds
\* lead to them while they live, and to an empty slot afterwards.
Holds(W) ==
    /\ W \in [1 .. Len(co) -> Objs]
    /\ \A i, j \in 1 .. Len(co) : W[i] = W[j] \/ co[i] = co[j] => i = j
    /\ \A o \in Objs : status[o] # "none" => \E i \in 1 .. Len(co) : W[i] = o
    /\ \A i \in 1 .. Len(co) :
          /\ co[i] \in Ids
          /\ \/ status[W[i]] = "DEAD" /\ (mode = "run" => slot[co[i]] = NULL)
             \/ W[i] \in Live /\ slot[co[i]] = W[i]

\* Where the program stands in its loop tells how often each was resumed.
InStep(W) ==
    /\ pc = "create" => /\ Len(co) < workers /\ cpu = Main /\ left = quota
                        /\ \A i \in 1 .. Len(co) : status[W[i]] = "READY"
    /\ pc # "create" => Len(co) = workers
    /\ pc # "resume" => turn = 1
    /\ pc = "resume" => \A i \in turn .. workers : W[i] \in Live
    /\ \A i \in 1 .. Len(co) :
          cpu = W[i] => IF i = workers THEN pc = "while" ELSE pc = "resume" /\ turn = i+1
    /\ pc \in {"after", "end"} =>
          cpu = Main /\ \E i \in 1 .. Len(co) : status[W[i]] = "DEAD"
    /\ workers = 2 /\ pc # "create" =>
          Begun(W[1]) = IF pc = "resume" /\ turn = 2 THEN Begun(W[2]) + 1 ELSE Begun(W[2])

DemoType == /\ pc \in {"create", "while", "resume", "after", "end"}
            /\ workers \in 1 .. 2 /\ turn \in 1 .. workers
            /\ co \in Seq(Int)
            /\ quota \in [Objs -> Nat] /\ left \in [Objs -> Nat]
            /\ \A o \in Objs : left[o] <= quota[o] /\ (status[o] = "DEAD" => left[o] = 0)

DInv == /\ IInv /\ cap = DefaultCap /\ DemoType
        /\ \E W \in [1 .. Len(co) -> Objs] : Holds(W) /\ InStep(W)

-----------------------------------------------------------------------------
LEMMA InitDInv == DemoInit => DInv
<1> SUFFICES ASSUME DemoInit PROVE DInv
  OBVIOUS
<1>1. IInv /\ cap = DefaultCap
  BY InitIInv DEF DemoInit, Init
<1>2. quota \in [Objs -> Nat] /\ left = quota
  BY YieldsAssumption DEF DemoInit
<1>3. DemoType
  BY <1>2 DEF DemoInit, Init, DemoType
<1>4. co = << >> /\ Len(co) = 0
  BY DEF DemoInit
<1> DEFINE W == [i \in 1 .. Len(co) |-> NULL]
<1>5. W \in [1 .. Len(co) -> Objs]
  BY <1>4
<1>6. Holds(W)
  BY <1>4, <1>5 DEF Holds, DemoInit, Init
<1>7. InStep(W)
  BY <1>2, <1>4 DEF InStep, DemoInit, Init
<1> QED BY <1>1, <1>3, <1>5, <1>6, <1>7 DEF DInv

\* Each step of a driver is a step of the scheduler, or none.
LEMMA DemoSteps == [DemoNext]_demoVars => [Next]_vars
<1>1. ASSUME Create PROVE Next
  BY <1>1, Zenon DEF Create, Next
<1>2. ASSUME ResumeNext PROVE [Next]_vars
  <2>1. CASE ResumeDead(co[turn])
    BY <2>1 DEF ResumeDead
  <2>2. CASE ResumeLive(co[turn])
    <3>1. co[turn] \in Issued
      BY <2>2 DEF ResumeLive, MayResume
    <3> QED BY <2>2, <3>1, Zenon DEF Next
  <2> QED BY <1>2, <2>1, <2>2 DEF ResumeNext
<1>3. ASSUME Body PROVE Next
  BY <1>3 DEF Body, Next
<1>4. ASSUME While \/ UNCHANGED demoVars PROVE UNCHANGED vars
  BY <1>4 DEF While, demoVars
<1>5. ASSUME After PROVE [Next]_vars
  BY <1>5 DEF After, Next
<1> QED BY <1>1, <1>2, <1>3, <1>4, <1>5 DEF DemoNext

LEMMA CreateDInv ==
    ASSUME DInv, Create, IInv'
    PROVE  DInv'
<1>1. PICK W \in [1 .. Len(co) -> Objs] : Holds(W) /\ InStep(W)
  BY DEF DInv
<1>2. PICK o \in Objs : NewInFreeSlot(o) /\ co' = Append(co, handle'[o])
  BY DEF Create
<1>3. TypeOK /\ TypeOK' /\ DemoType /\ mode = "run" /\ cpu = Main /\ pc = "create"
  BY DEF DInv, IInv, Create, InMain
<1>4. PICK i \in Ids : /\ slot[Probe(i)] = NULL
                       /\ slot' = [slot EXCEPT ![Probe(i)] = o]
                       /\ handle' = [handle EXCEPT ![o] = Probe(i)]
  BY <1>2 DEF NewInFreeSlot, FirstFree, CoNew, Returned
<1>5. Probe(i) \in Ids
  BY <1>3, ProbeInIds DEF TypeOK
<1>6. /\ status[o] = "none" /\ status' = [status EXCEPT ![o] = "READY"]
      /\ cap' = cap /\ cpu' = cpu /\ mode' = mode
  BY <1>2 DEF NewInFreeSlot, MayCreate, CoNew
<1>7. /\ co \in Seq(Int) /\ Len(co) \in Nat /\ Probe(i) \in Int
      /\ co' = Append(co, Probe(i))
  BY <1>2, <1>3, <1>4, <1>5, SMTT(30) DEF DemoType, TypeOK, Ids
<1>8. /\ co' \in Seq(Int) /\ Len(co') = Len(co) + 1 /\ co'[Len(co)+1] = Probe(i)
      /\ \A j \in 1 .. Len(co) : co'[j] = co[j]
  BY <1>7
<1>9. PICK V \in [1 .. Len(co') -> Objs] :
          V[Len(co)+1] = o /\ \A j \in 1 .. Len(co) : V[j] = W[j]
  <2> DEFINE U == [j \in 1 .. Len(co)+1 |-> IF j = Len(co)+1 THEN o ELSE W[j]]
  <2>1. U \in [1 .. Len(co') -> Objs]
    BY <1>1, <1>7, <1>8
  <2>2. U[Len(co)+1] = o /\ \A j \in 1 .. Len(co) : U[j] = W[j]
    BY <1>7
  <2> QED BY <2>1, <2>2
<1>10. 1 .. Len(co') = (1 .. Len(co)) \cup {Len(co)+1}
  BY <1>7, <1>8
<1>11. \A j \in 1 .. Len(co) : /\ W[j] \in Objs /\ status[W[j]] = "READY" /\ W[j] # o
                               /\ co[j] \in Ids /\ slot[co[j]] = W[j] /\ co[j] # Probe(i)
  <2> SUFFICES ASSUME NEW j \in 1 .. Len(co)
               PROVE  /\ W[j] \in Objs /\ status[W[j]] = "READY" /\ W[j] # o
                      /\ co[j] \in Ids /\ slot[co[j]] = W[j] /\ co[j] # Probe(i)
    OBVIOUS
  <2>1. W[j] \in Objs /\ status[W[j]] = "READY"
    BY <1>1, <1>3 DEF InStep
  <2>2. co[j] \in Ids /\ slot[co[j]] = W[j]
    BY <1>1, <2>1 DEF Holds
  <2> QED BY <1>4, <1>6, <2>1, <2>2, ObjsAssumption
<1>12. \A j \in 1 .. Len(co) : status'[W[j]] = "READY" /\ slot'[co[j]] = W[j]
  <2> SUFFICES ASSUME NEW j \in 1 .. Len(co)
               PROVE  status'[W[j]] = "READY" /\ slot'[co[j]] = W[j]
    OBVIOUS
  <2>1. status'[W[j]] = status[W[j]]
    BY <1>3, <1>6, <1>11 DEF TypeOK
  <2>2. slot'[co[j]] = slot[co[j]]
    BY <1>3, <1>4, <1>11 DEF TypeOK
  <2> QED BY <1>11, <2>1, <2>2
<1>13. status'[o] = "READY" /\ slot'[Probe(i)] = o
  BY <1>3, <1>4, <1>5, <1>6 DEF TypeOK
<1>14. \A j \in 1 .. Len(co') : V[j] \in Objs /\ status'[V[j]] = "READY"
  BY <1>9, <1>10, <1>11, <1>12, <1>13
<1>15. Holds(V)'
  <2>1. \A j, k \in 1 .. Len(co') : V[j] = V[k] \/ co'[j] = co'[k] => j = k
    BY <1>1, <1>8, <1>9, <1>10, <1>11, SMTT(30) DEF Holds
  <2>2. \A p \in Objs : status'[p] # "none" => \E j \in 1 .. Len(co') : V[j] = p
    <3> SUFFICES ASSUME NEW p \in Objs, status'[p] # "none"
                 PROVE  \E j \in 1 .. Len(co') : V[j] = p
      OBVIOUS
    <3>1. CASE p = o
      BY <1>9, <1>10, <3>1
    <3>2. CASE p # o
      <4>1. status[p] # "none"
        BY <1>3, <1>6, <3>2 DEF TypeOK
      <4> QED BY <1>1, <1>9, <1>10, <4>1 DEF Holds
    <3> QED BY <3>1, <3>2
  <2>3. ASSUME NEW j \in 1 .. Len(co')
        PROVE  co'[j] \in Ids' /\ V[j] \in Live' /\ slot'[co'[j]] = V[j]
    <3>1. V[j] \in Live'
      BY <1>14 DEF Live
    <3>2. co'[j] \in Ids /\ slot'[co'[j]] = V[j]
      <4>1. CASE j = Len(co)+1
        BY <1>5, <1>8, <1>9, <1>13, <4>1
      <4>2. CASE j \in 1 .. Len(co)
        BY <1>8, <1>9, <1>11, <1>12, <4>2
      <4> QED BY <1>10, <4>1, <4>2
    <3> QED BY <1>6, <3>1, <3>2 DEF Ids
  <2> QED BY <1>9, <2>1, <2>2, <2>3 DEF Holds
<1>16. Len(co) < workers /\ left = quota
  BY <1>1, <1>3 DEF InStep
<1>17. /\ UNCHANGED <<workers, turn, quota, left>> /\ turn = 1
       /\ pc' = IF Len(co') = workers THEN "while" ELSE "create"
  BY <1>1, <1>3 DEF Create, InStep
<1>18. InStep(V)'
  <2>1. \A j \in 1 .. Len(co') : V[j] \in Objs /\ status'[V[j]] = "READY" /\ cpu' # V[j]
    BY <1>3, <1>6, <1>14, ObjsAssumption
  <2>2. pc' = "create" => Len(co') < workers'
    BY <1>3, <1>7, <1>8, <1>16, <1>17 DEF DemoType
  <2>3. workers' = 2 /\ pc' # "create" => Begun(V[1])' = Begun(V[2])'
    <3> SUFFICES ASSUME workers' = 2, pc' # "create" PROVE Begun(V[1])' = Begun(V[2])'
      OBVIOUS
    <3>1. Len(co') = 2
      BY <1>17
    <3>2. \A j \in {1, 2} : Begun(V[j])' = 0
      <4> TAKE j \in {1, 2}
      <4>1. j \in 1 .. Len(co')
        BY <3>1
      <4>2. quota'[V[j]] = left'[V[j]] /\ left'[V[j]] \in Nat
        BY <1>3, <1>16, <1>17, <2>1, <4>1 DEF DemoType
      <4> QED BY <2>1, <4>1, <4>2 DEF Begun
    <3> QED BY <3>2
  <2>4. pc' # "create" => Len(co') = workers'
    BY <1>17
  <2>5. pc' \in {"create", "while"} /\ turn' = 1 /\ cpu' = Main /\ left' = quota'
    BY <1>3, <1>6, <1>16, <1>17
  <2> QED BY <1>17, <2>1, <2>2, <2>3, <2>4, <2>5 DEF InStep
<1>19. DemoType'
  <2>1. \A p \in Objs : status'[p] = "DEAD" => status[p] = "DEAD"
    BY <1>3, <1>6 DEF TypeOK
  <2> QED BY <1>3, <1>8, <1>17, <2>1 DEF DemoType
<1> QED BY <1>6, <1>9, <1>15, <1>18, <1>19 DEF DInv

\* A handle the program holds tells which of its coroutines have ended.
LEMMA StatusTells ==
    ASSUME IInv, mode = "run", NEW W, Holds(W), NEW i \in 1 .. Len(co)
    PROVE  /\ W[i] \in Objs
           /\ StatusOf(co[i]) = "DEAD" <=> status[W[i]] = "DEAD"
           /\ status[W[i]] = "DEAD" \/ W[i] \in Live
<1>1. W[i] \in Objs
  BY DEF Holds
<1>2. CASE status[W[i]] = "DEAD" /\ slot[co[i]] = NULL
  BY <1>1, <1>2 DEF StatusOf
<1>3. CASE W[i] \in Live /\ slot[co[i]] = W[i]
  BY <1>1, <1>3, ObjsAssumption DEF StatusOf, Live
<1> QED BY <1>1, <1>2, <1>3 DEF Holds

LEMMA WhileDInv ==
    ASSUME DInv, While, IInv'
    PROVE  DInv'
<1>1. PICK W \in [1 .. Len(co) -> Objs] : Holds(W) /\ InStep(W)
  BY DEF DInv
<1>2. /\ IInv /\ DemoType /\ cap = DefaultCap
      /\ mode = "run" /\ cpu = Main /\ pc = "while" /\ turn = 1 /\ Len(co) = workers
  BY <1>1 DEF DInv, While, InMain, InStep
<1>3. UNCHANGED <<vars, workers, co, turn, quota, left>>
  BY DEF While
<1>4. Holds(W)'
  BY <1>1, <1>3 DEF Holds, Live, Ids, vars
<1>5. \A o : Begun(o)' = Begun(o)
  BY <1>3 DEF Begun, vars
<1>6. \A i \in 1 .. workers : W[i] \in Objs /\ cpu # W[i]
  BY <1>1, <1>2, ObjsAssumption
<1>7. CASE \A i \in 1 .. workers : StatusOf(co[i]) # "DEAD"
  <2>1. pc' = "resume"
    BY <1>7 DEF While
  <2>2. \A i \in 1 .. workers : W[i] \in Live'
    BY <1>1, <1>2, <1>3, <1>7, StatusTells DEF Live, vars
  <2>3. InStep(W)'
    BY <1>1, <1>2, <1>3, <1>5, <1>6, <2>1, <2>2 DEF InStep, vars
  <2> QED BY <1>1, <1>2, <1>3, <1>4, <2>1, <2>3 DEF DInv, DemoType, vars
<1>8. CASE \E i \in 1 .. workers : StatusOf(co[i]) = "DEAD"
  <2>1. pc' = "after"
    BY <1>8 DEF While
  <2>2. \E i \in 1 .. workers : status'[W[i]] = "DEAD"
    BY <1>1, <1>2, <1>3, <1>8, StatusTells DEF vars
  <2>3. InStep(W)'
    BY <1>1, <1>2, <1>3, <1>5, <1>6, <2>1, <2>2 DEF InStep, vars
  <2> QED BY <1>1, <1>2, <1>3, <1>4, <2>1, <2>3 DEF DInv, DemoType, vars
<1> QED BY <1>7, <1>8

\* A driver closes the scheduler only when its one coroutine has ended.
LEMMA ClosesEmpty ==
    ASSUME IInv, Close, cap = DefaultCap, Live = {}
    PROVE  UNCHANGED <<schedule, status, home, handle, cpu>> /\ mode' = "closed"
<1>1. TypeOK /\ SlotsHoldLive /\ FirstTable /\ mode = "run"
  BY DEF IInv, Close
<1>2. \A id \in Ids : slot[id] = NULL
  BY <1>1 DEF TypeOK, SlotsHoldLive, FirstTable
<1> DEFINE held == {slot[id] : id \in Visited} \ {NULL}
<1>3. held = {}
  BY <1>2 DEF Visited
<1>4. mode' = "closed" /\ CoDelete({}) /\ UNCHANGED <<schedule, home, handle, cpu>>
  <2>1. IF Wild \in held \/ \E o \in held : ctx[o] = "uninit"
          THEN FollowsWild
          ELSE /\ mode' = "closed"
               /\ CoDelete(held)
               /\ UNCHANGED <<schedule, home, handle, cpu>>
    BY DEF Close
  <2> QED BY <1>3, <2>1
<1>5. status' = status
  BY <1>1, <1>4 DEF CoDelete, TypeOK
<1> QED BY <1>4, <1>5

LEMMA AfterDInv ==
    ASSUME DInv, After, IInv'
    PROVE  DInv'
<1>1. PICK W \in [1 .. Len(co) -> Objs] : Holds(W) /\ InStep(W)
  BY DEF DInv
<1>2. /\ IInv /\ DemoType /\ cap = DefaultCap /\ TypeOK
      /\ mode = "run" /\ cpu = Main /\ pc = "after" /\ turn = 1 /\ Len(co) = workers
      /\ pc' = "end" /\ UNCHANGED <<workers, co, turn, quota, left>>
  BY <1>1 DEF DInv, IInv, After, InMain, InStep
<1>3. UNCHANGED <<cap, slot, status, cpu>> /\ mode' \in {"run", "closed"}
  <2>1. CASE workers = 1
    <3>1. status[W[1]] = "DEAD" /\ \A o \in Objs : status[o] # "none" => o = W[1]
      BY <1>1, <1>2, <2>1 DEF Holds, InStep
    <3>2. Live = {}
      BY <3>1 DEF Live
    <3> QED BY <1>2, <2>1, <3>2, ClosesEmpty DEF After, schedule
  <2>2. CASE workers # 1
    BY <1>2, <2>2 DEF After, vars
  <2> QED BY <2>1, <2>2
<1>4. Holds(W)'
  BY <1>1, <1>2, <1>3 DEF Holds, Live, Ids
<1>5. \A o : Begun(o)' = Begun(o)
  BY <1>2, <1>3 DEF Begun
<1>6. \A i \in 1 .. workers : W[i] \in Objs /\ cpu # W[i]
  BY <1>1, <1>2, ObjsAssumption
<1>7. InStep(W)'
  BY <1>1, <1>2, <1>3, <1>5, <1>6 DEF InStep
<1> QED BY <1>1, <1>2, <1>3, <1>4, <1>7 DEF DInv, DemoType

LEMMA ResumeDInv ==
    ASSUME DInv, ResumeNext, IInv'
    PROVE  DInv'
<1>1. PICK W \in [1 .. Len(co) -> Objs] : Holds(W) /\ InStep(W)
  BY DEF DInv
<1>2. /\ IInv /\ TypeOK /\ DemoType /\ cap = DefaultCap
      /\ mode = "run" /\ cpu = Main /\ pc = "resume" /\ Len(co) = workers
      /\ UNCHANGED <<workers, co, quota, left>>
  BY <1>1 DEF DInv, IInv, ResumeNext, InMain, InStep
<1>3. PICK C \in Objs :
          /\ workers \in 1 .. 2 /\ turn \in 1 .. workers /\ C = W[turn]
          /\ C \in Live /\ slot[co[turn]] = C /\ status[C] # "DEAD"
  <2>1. workers \in 1 .. 2 /\ turn \in 1 .. workers /\ W[turn] \in Objs
    BY <1>1, <1>2 DEF DemoType
  <2>2. W[turn] \in Live
    BY <1>1, <1>2, <2>1 DEF InStep
  <2>3. status[W[turn]] # "DEAD"
    BY <2>2 DEF Live
  <2>4. slot[co[turn]] = W[turn]
    BY <1>1, <1>2, <2>1, <2>3 DEF Holds
  <2> QED BY <2>1, <2>2, <2>3, <2>4
<1>4. ResumeLive(co[turn])
  BY <1>3, ObjsAssumption DEF ResumeNext, ResumeDead
<1>5. /\ status' = [status EXCEPT ![C] = "RUNNING"] /\ cpu' = C
      /\ UNCHANGED <<cap, nco, slot, handle, mode>>
  BY <1>3, <1>4 DEF ResumeLive
<1>6. \A o \in Objs : status'[o] = IF o = C THEN "RUNNING" ELSE status[o]
  BY <1>2, <1>3, <1>5 DEF TypeOK
<1>7. Live' = Live
  BY <1>3, <1>6 DEF Live
<1>8. Holds(W)'
  <2>1. \A i \in 1 .. Len(co) : W[i] \in Objs
    BY <1>1
  <2>2. \A o \in Objs : (status'[o] # "none" <=> status[o] # "none")
                        /\ (status'[o] = "DEAD" <=> status[o] = "DEAD")
    BY <1>3, <1>6 DEF Live
  <2> QED BY <1>1, <1>2, <1>5, <1>7, <2>1, <2>2 DEF Holds, Ids
<1>9. \A o \in Objs : Begun(o)' = IF o = C THEN quota[o] - left[o] + 1 ELSE Begun(o)
  BY <1>2, <1>3, <1>5, <1>6, ObjsAssumption DEF Begun
<1>10. Begun(C) = quota[C] - left[C] + 0
  BY <1>2, <1>3, ObjsAssumption DEF Begun
<1>11. \A o \in Objs : quota[o] - left[o] \in Int
  BY <1>2 DEF DemoType
<1>12. NextTurn
  BY DEF ResumeNext
<1>13. \A i, j \in 1 .. workers : W[i] = W[j] => i = j
  BY <1>1, <1>2 DEF Holds
<1>14. CASE turn = workers
  <2>1. pc' = "while" /\ turn' = 1
    BY <1>3, <1>12, <1>14 DEF NextTurn
  <2>2. workers = 2 => Begun(W[1])' = Begun(W[2])'
    <3> SUFFICES ASSUME workers = 2 PROVE Begun(W[1])' = Begun(W[2])'
      OBVIOUS
    <3>1. turn = 2 /\ W[1] \in Objs /\ W[1] # C /\ Begun(W[1]) = Begun(C) + 1
      BY <1>1, <1>2, <1>3, <1>13, <1>14 DEF InStep
    <3>2. Begun(W[1])' = Begun(W[1]) /\ Begun(C)' = quota[C] - left[C] + 1
      BY <1>3, <1>9, <3>1
    <3> QED BY <1>3, <1>10, <1>11, <3>1, <3>2
  <2>3. \A i \in 1 .. workers : cpu' = W[i] => i = workers
    BY <1>5, <1>13, <1>14, <1>3
  <2>4. InStep(W)'
    BY <1>2, <2>1, <2>2, <2>3 DEF InStep
  <2>5. \A o \in Objs : status'[o] = "DEAD" => status[o] = "DEAD"
    BY <1>6
  <2>6. DemoType'
    BY <1>2, <1>3, <2>1, <2>5 DEF DemoType
  <2> QED BY <1>1, <1>2, <1>5, <1>8, <2>4, <2>6 DEF DInv
<1>15. CASE turn # workers
  <2>1. workers = 2 /\ turn = 1 /\ pc' = "resume" /\ turn' = 2
    BY <1>3, <1>12, <1>15 DEF NextTurn
  <2>2. Begun(W[1])' = Begun(W[2])' + 1
    <3>1. W[2] \in Objs /\ W[2] # C /\ Begun(C) = Begun(W[2])
      BY <1>1, <1>2, <1>3, <1>13, <2>1 DEF InStep
    <3>2. Begun(W[2])' = Begun(W[2]) /\ Begun(C)' = quota[C] - left[C] + 1
      BY <1>3, <1>9, <3>1
    <3> QED BY <1>3, <1>10, <1>11, <2>1, <3>1, <3>2
  <2>3. \A i \in 1 .. workers : cpu' = W[i] => i = 1
    BY <1>3, <1>5, <1>13, <2>1
  <2>4. \A i \in 2 .. workers : W[i] \in Live'
    BY <1>1, <1>2, <1>7, <2>1 DEF InStep
  <2>5. InStep(W)'
    <3>1. /\ pc' # "create" /\ pc' \notin {"after", "end"} /\ Len(co') = workers'
          /\ \A i \in turn' .. workers' : W[i] \in Live'
      BY <1>2, <2>1, <2>4 DEF InStep
    <3>2. \A i \in 1 .. Len(co') :
            cpu' = W[i] => IF i = workers' THEN pc' = "while" ELSE pc' = "resume" /\ turn' = i+1
      <4>1. \A i \in 1 .. workers : cpu' = W[i] => i # workers' /\ turn' = i+1
        BY <1>2, <2>1, <2>3
      <4>2. Len(co') = workers
        BY <1>2
      <4> QED BY <2>1, <4>1, <4>2
    <3>3. Begun(W[1])' = IF pc' = "resume" /\ turn' = 2 THEN Begun(W[2])' + 1 ELSE Begun(W[2])'
      BY <2>1, <2>2
    <3> QED BY <2>1, <3>1, <3>2, <3>3 DEF InStep
  <2>6. \A o \in Objs : status'[o] = "DEAD" => status[o] = "DEAD"
    BY <1>6
  <2>7. DemoType'
    BY <1>2, <1>3, <2>1, <2>6 DEF DemoType
  <2> QED BY <1>1, <1>2, <1>5, <1>8, <2>5, <2>7 DEF DInv
<1> QED BY <1>14, <1>15

\* The function of a coroutine yields or ends: it has been resumed as often
\* as before.
LEMMA BodyDInv ==
    ASSUME DInv, Body, IInv'
    PROVE  DInv'
<1>1. PICK W \in [1 .. Len(co) -> Objs] : Holds(W) /\ InStep(W)
  BY DEF DInv
<1>2. /\ IInv /\ TypeOK /\ DemoType /\ cap = DefaultCap /\ mode = "run"
      /\ cpu \in Objs /\ cpu # Main
      /\ UNCHANGED <<workers, pc, co, turn, quota>>
  BY ObjsAssumption DEF DInv, IInv, Body
<1>3. /\ running >= 0 /\ slot[running] = cpu /\ status[cpu] = "RUNNING"
      /\ OneSlotEach /\ ctx[cpu] = "fiber" /\ home[cpu] >= 0 /\ slot[home[cpu]] = cpu
  BY <1>2 DEF IInv, RunningIsExecuting, FiberKeepsItsSlot, FiberMatchesStatus
<1>4. PICK k \in 1 .. Len(co) : W[k] = cpu /\ slot[co[k]] = cpu /\ co[k] \in Ids
  BY <1>1, <1>2, <1>3 DEF Holds
<1>5. pc \in {"while", "resume"} /\ Len(co) = workers
  BY <1>1, <1>2, <1>4 DEF InStep, DemoType
<1>6. \A o \in Objs : quota[o] - left[o] \in Int
  BY <1>2 DEF DemoType
<1>7. \A i \in 1 .. Len(co) : W[i] \in Objs /\ (W[i] = cpu => i = k)
  BY <1>1, <1>4 DEF Holds
<1>8. CASE Yield /\ left[cpu] > 0 /\ left' = [left EXCEPT ![cpu] = @ - 1]
  <2>1. /\ status' = [status EXCEPT ![cpu] = "SUSPEND"] /\ cpu' = Main
        /\ UNCHANGED <<cap, slot, mode>>
    BY <1>3, <1>8 DEF Yield, Suspend
  <2>2. \A o \in Objs : status'[o] = IF o = cpu THEN "SUSPEND" ELSE status[o]
    BY <1>2, <2>1 DEF TypeOK
  <2>3. Live' = Live
    BY <1>2, <1>3, <2>2 DEF Live
  <2>4. Holds(W)'
    <3>1. \A o \in Objs : (status'[o] # "none" <=> status[o] # "none")
                          /\ (status'[o] = "DEAD" <=> status[o] = "DEAD")
      BY <1>3, <2>2
    <3> QED BY <1>1, <1>2, <1>7, <2>1, <2>3, <3>1 DEF Holds, Ids
  <2>5. \A o \in Objs : left'[o] = IF o = cpu THEN left[o] - 1 ELSE left[o]
    BY <1>2, <1>8 DEF DemoType
  <2>6. DemoType'
    <3>1. left' \in [Objs -> Nat]
      BY <1>2, <1>8 DEF DemoType
    <3>2. \A o \in Objs : left'[o] <= quota[o] /\ (status'[o] = "DEAD" => left'[o] = 0)
      <4> TAKE o \in Objs
      <4>1. /\ left[o] \in Nat /\ quota[o] \in Nat /\ left[o] <= quota[o]
            /\ status[o] = "DEAD" => left[o] = 0
        BY <1>2 DEF DemoType
      <4> QED BY <2>2, <2>5, <4>1
    <3> QED BY <1>2, <3>1, <3>2 DEF DemoType
  <2>7. \A o \in Objs : Begun(o)' = Begun(o)
    <3> TAKE o \in Objs
    <3>1. CASE o = cpu
      <4>1. Begun(o) = quota[o] - left[o] + 1
        BY <3>1 DEF Begun
      <4>2. Begun(o)' = quota[o] - (left[o] - 1) + 0
        BY <1>2, <2>1, <2>2, <2>5, <3>1 DEF Begun
      <4> QED BY <1>2, <4>1, <4>2 DEF DemoType
    <3>2. CASE o # cpu
      BY <1>2, <2>1, <2>2, <2>5, <3>2, ObjsAssumption DEF Begun
    <3> QED BY <3>1, <3>2
  <2>8. \A i \in 1 .. Len(co) : cpu' # W[i]
    BY <1>7, <2>1, ObjsAssumption
  <2>9. InStep(W)'
    BY <1>1, <1>2, <1>5, <1>7, <2>3, <2>7, <2>8 DEF InStep, DemoType
  <2> QED BY <1>1, <1>2, <2>1, <2>4, <2>6, <2>9 DEF DInv
<1>9. CASE FuncReturn /\ left[cpu] = 0 /\ UNCHANGED left
  <2>1. /\ status' = [o \in Objs |-> IF o \in {cpu} THEN "DEAD" ELSE status[o]]
        /\ slot' = [slot EXCEPT ![home[cpu]] = NULL] /\ cpu' = Main
        /\ UNCHANGED <<cap, mode>>
    BY <1>9 DEF FuncReturn, CoDelete, EmptySlot
  <2>2. \A o \in Objs : status'[o] = IF o = cpu THEN "DEAD" ELSE status[o]
    BY <2>1
  <2>3. home[cpu] = co[k]
    BY <1>2, <1>3, <1>4 DEF OneSlotEach, TypeOK, Ids
  <2>4. \A i \in 1 .. Len(co) :
           co[i] \in Ids /\ slot'[co[i]] = IF i = k THEN NULL ELSE slot[co[i]]
    BY <1>1, <1>2, <2>1, <2>3 DEF Holds, TypeOK
  <2>5. \A i \in 1 .. Len(co) :
           i # k => (W[i] \in Live' <=> W[i] \in Live) /\ status'[W[i]] = status[W[i]]
    BY <1>7, <2>2 DEF Live
  <2>6. status'[W[k]] = "DEAD" /\ slot'[co[k]] = NULL
    BY <1>2, <1>4, <2>2, <2>4
  <2>7. Holds(W)'
    <3>1. ASSUME NEW i \in 1 .. Len(co)
          PROVE  \/ status'[W[i]] = "DEAD" /\ slot'[co[i]] = NULL
                 \/ W[i] \in Live' /\ slot'[co[i]] = W[i]
      BY <1>1, <1>2, <2>4, <2>5, <2>6 DEF Holds
    <3>2. \A o \in Objs : status'[o] # "none" => status[o] # "none"
      BY <1>3, <2>2
    <3> QED BY <1>1, <1>2, <2>1, <2>4, <3>1, <3>2 DEF Holds, Ids
  <2>8. \A o \in Objs : Begun(o)' = Begun(o)
    BY <1>2, <1>9, <2>1, <2>2, ObjsAssumption DEF Begun
  <2>9. \A i \in 1 .. Len(co) : cpu' # W[i]
    BY <1>7, <2>1, ObjsAssumption
  <2>10. pc = "resume" => turn = k+1
    BY <1>1, <1>4 DEF InStep
  <2>11. pc = "resume" => \A i \in turn .. workers : W[i] \in Live'
    <3> SUFFICES ASSUME pc = "resume", NEW i \in turn .. workers PROVE W[i] \in Live'
      OBVIOUS
    <3>1. i \in 1 .. Len(co) /\ i # k /\ W[i] \in Live
      BY <1>1, <1>2, <1>5, <2>10 DEF InStep, DemoType
    <3> QED BY <2>5, <3>1
  <2>12. InStep(W)'
    BY <1>1, <1>2, <1>5, <1>7, <2>8, <2>9, <2>11 DEF InStep, DemoType
  <2>13. DemoType'
    BY <1>2, <1>9, <2>2 DEF DemoType
  <2> QED BY <1>1, <1>2, <2>1, <2>7, <2>12, <2>13 DEF DInv
<1>10. CASE FuncReturnExits /\ UNCHANGED left
  <2>1. UNCHANGED <<cap, slot, status, cpu>> /\ mode' = "exited"
    BY <1>10 DEF FuncReturnExits, schedule
  <2>2. Holds(W)'
    BY <1>1, <1>2, <2>1 DEF Holds, Live, Ids
  <2>3. InStep(W)'
    BY <1>1, <1>2, <1>10, <2>1 DEF InStep, Begun, Live
  <2> QED BY <1>1, <1>2, <1>10, <2>1, <2>2, <2>3 DEF DInv, DemoType
<1>11. left[cpu] \in Nat
  BY <1>2 DEF DemoType
<1> QED BY <1>8, <1>9, <1>10, <1>11 DEF Body

LEMMA StepDInv == DInv /\ [DemoNext]_demoVars => DInv'
<1> SUFFICES ASSUME DInv, [DemoNext]_demoVars PROVE DInv'
  OBVIOUS
<1>1. IInv'
  BY DemoSteps, StepIInv DEF DInv
<1>2. CASE UNCHANGED demoVars
  <2>1. PICK W \in [1 .. Len(co) -> Objs] : Holds(W) /\ InStep(W)
    BY DEF DInv
  <2>2. Holds(W)' /\ InStep(W)'
    BY <1>2, <2>1 DEF demoVars, vars, Holds, InStep, Begun, Live, Ids
  <2> QED BY <1>1, <1>2, <2>1, <2>2 DEF DInv, DemoType, demoVars, vars
<1> QED BY <1>1, <1>2, CreateDInv, WhileDInv, ResumeDInv, BodyDInv, AfterDInv DEF DemoNext

THEOREM DemoInvariance == DemoSpec => []DInv
BY InitDInv, StepDInv, PTL DEF DemoSpec

-----------------------------------------------------------------------------
LEMMA LiveAreHeld ==
    ASSUME NEW W, Holds(W), NEW o \in Live
    PROVE  \E i \in 1 .. Len(co) : W[i] = o
BY DEF Holds, Live

\* The two workers of test() (main.c:62-76) take turns, however often each of
\* them yields: neither gets ahead by more than one yield, and they are level
\* each time the loop condition finds both alive.
THEOREM TurnsTaken == DemoSpec => []TakeTurns
<1> SUFFICES ASSUME DInv PROVE TakeTurns
  BY DemoInvariance, PTL
<1>1. PICK W \in [1 .. Len(co) -> Objs] : Holds(W) /\ InStep(W)
  BY DEF DInv
<1>2. DemoType
  BY DEF DInv
<1> DEFINE y(o) == quota[o] - left[o]
<1>3. \A o \in Objs : y(o) \in Int /\ y(o) - y(o) = 0
  BY <1>2 DEF DemoType
<1>4. ASSUME NEW o \in Live, NEW p \in Live
      PROVE  /\ y(o) - y(p) \in -1 .. 1
             /\ pc = "while" /\ InMain => y(o) = y(p)
  <2>1. PICK i, j \in 1 .. Len(co) : W[i] = o /\ W[j] = p
    BY <1>1, LiveAreHeld
  <2>2. o \in Objs /\ p \in Objs /\ status[o] # "DEAD" /\ status[p] # "DEAD"
    BY DEF Live
  <2>3. CASE i = j
    BY <1>3, <2>1, <2>2, <2>3
  <2>4. CASE pc = "create"
    <3>1. y(o) = 0 /\ y(p) = 0
      BY <1>1, <1>2, <2>2, <2>4 DEF InStep, DemoType
    <3> QED BY <3>1
  <2>5. CASE i # j /\ pc # "create"
    <3>1. workers = 2 /\ Len(co) = 2 /\ {i, j} = {1, 2}
      BY <1>1, <1>2, <2>1, <2>5 DEF InStep, DemoType
    <3>2. Begun(W[1]) = IF pc = "resume" /\ turn = 2 THEN Begun(W[2]) + 1 ELSE Begun(W[2])
      BY <1>1, <2>5, <3>1 DEF InStep
    <3>3. \A k \in {1, 2} : /\ W[k] \in Objs /\ status[W[k]] # "DEAD"
                            /\ y(W[k]) \in Int
                            /\ Begun(W[k]) = IF cpu = W[k] THEN y(W[k]) + 1 ELSE y(W[k])
      <4> TAKE k \in {1, 2}
      <4>1. W[k] \in Objs /\ status[W[k]] # "DEAD" /\ y(W[k]) \in Int
        BY <1>3, <2>1, <2>2, <3>1
      <4> QED BY <4>1 DEF Begun
    <3>4. /\ cpu = W[1] => pc = "resume" /\ turn = 2
          /\ cpu = W[2] => pc = "while"
          /\ W[1] # W[2]
      BY <1>1, <3>1 DEF InStep, Holds
    <3>5. y(W[1]) - y(W[2]) \in -1 .. 1
      BY <3>2, <3>3, <3>4
    <3>6. pc = "while" /\ cpu \notin {W[1], W[2]} => y(W[1]) = y(W[2])
      BY <3>2, <3>3
    <3>7. InMain => cpu \notin {W[1], W[2]}
      BY <3>3, ObjsAssumption DEF InMain
    <3> QED BY <2>1, <3>1, <3>3, <3>5, <3>6, <3>7
  <2> QED BY <2>3, <2>4, <2>5
<1> QED BY <1>4 DEF TakeTurns

\* Although the loop stops at the first coroutine it finds ended, two that
\* yield equally often have both ended then (main.c:70-74).
THEOREM EqualsEnd == DemoSpec => []EqualWorkersAllEnd
<1> SUFFICES ASSUME DInv, pc = "end", \A o, p \in Objs : quota[o] = quota[p]
             PROVE  Live = {}
  BY DemoInvariance, PTL DEF EqualWorkersAllEnd
<1>1. PICK W \in [1 .. Len(co) -> Objs] : Holds(W) /\ InStep(W)
  BY DEF DInv
<1>2. DemoType /\ Len(co) = workers /\ cpu = Main
  BY <1>1 DEF DInv, InStep
<1>3. PICK k \in 1 .. workers : status[W[k]] = "DEAD"
  BY <1>1, <1>2 DEF InStep
<1>4. ASSUME NEW i \in 1 .. workers PROVE status[W[i]] = "DEAD"
  <2>1. CASE i = k
    BY <1>3, <2>1
  <2>2. CASE i # k
    <3>1. workers = 2 /\ {i, k} = {1, 2} /\ W[i] \in Objs /\ W[k] \in Objs
      BY <1>1, <1>2, <2>2, SMTT(30) DEF DemoType
    <3>2. Begun(W[i]) = Begun(W[k])
      BY <1>1, <3>1 DEF InStep
    <3>3. Begun(W[k]) = quota[W[k]] - left[W[k]] + 1
      BY <1>3 DEF Begun
    <3>4. status[W[i]] # "DEAD" => Begun(W[i]) = quota[W[i]] - left[W[i]] + 0
      BY <1>2, <3>1, ObjsAssumption DEF Begun
    <3>5. quota[W[i]] = quota[W[k]]
      BY <3>1
    <3>6. left[W[i]] \in Nat /\ left[W[k]] = 0 /\ quota[W[k]] \in Nat
      BY <1>2, <1>3, <3>1 DEF DemoType
    <3> QED BY <3>2, <3>3, <3>4, <3>5, <3>6
  <2> QED BY <2>1, <2>2
<1> QED BY <1>1, <1>2, <1>4 DEF Holds, Live
=============================================================================
