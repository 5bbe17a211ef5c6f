----------------------------- MODULE Coroutine -----------------------------
(***************************************************************************)
(* The coroutine scheduler of src/Win32API/coroutine.c: a table of slots   *)
(* indexed by the handles coroutine_new returns, and one Win32 fiber per   *)
(* coroutine that has been resumed.  Only one fiber executes at a time;    *)
(* one action is what the executing fiber does in a call of the library up *)
(* to the call's return or its SwitchToFiber.                              *)
(***************************************************************************)
EXTENDS Integers, FiniteSets

CONSTANTS
    Objs,               \* the struct coroutine objects malloc may return
    NULL,               \* an empty slot
    Wild,               \* a slot holding whatever realloc left there
    Main,               \* the fiber of the thread that called coroutine_open
    DefaultCap,         \* DEFAULT_COROUTINE
    MaxLive,            \* bound: coroutines the client keeps alive at once
    AnyCaller,          \* clients may resume from inside a coroutine, and
                        \* yield outside one
    SelfDelete,         \* what DeleteFiber may do to the executing fiber:
                        \* "exits" its thread, as Win32 documents, or "returns"
    NDebug              \* asserts are compiled out (the Release build)

ASSUME CapAssumption == DefaultCap \in Nat \ {0}
ASSUME LiveAssumption == MaxLive \in Nat
ASSUME ObjsAssumption == IsFiniteSet(Objs) /\ {NULL, Wild, Main} \cap Objs = {}
ASSUME DistinctAssumption == NULL # Wild
ASSUME FlagsAssumption == {AnyCaller, NDebug} \subseteq BOOLEAN
ASSUME DeleteAssumption == SelfDelete \subseteq {"exits", "returns"}

VARIABLES
    cap, nco, running,  \* struct schedule
    slot,               \* S->co
    status,             \* co->status ("none" before malloc, "DEAD" after free)
    ctx,                \* co->ctx
    home,               \* fiberProc's local id, once its fiber has started
    handle,             \* history: what coroutine_new returned for the object
    cpu,                \* the fiber that executes
    mode                \* how the program stands

schedule == <<cap, nco, running, slot>>
objects == <<status, ctx, home, handle>>
vars == <<cap, nco, running, slot, status, ctx, home, handle, cpu, mode>>

Ids == 0 .. cap-1
Live == {o \in Objs : status[o] \in {"READY", "RUNNING", "SUSPEND"}}
Issued == {handle[o] : o \in Objs} \ {-1}

-----------------------------------------------------------------------------
Init == /\ cap = DefaultCap /\ nco = 0 /\ running = -1
        /\ slot = [id \in 0 .. DefaultCap-1 |-> NULL]
        /\ status = [o \in Objs |-> "none"]
        /\ ctx = [o \in Objs |-> "uninit"]
        /\ home = [o \in Objs |-> -1]
        /\ handle = [o \in Objs |-> -1]
        /\ cpu = Main /\ mode = "run"

\* A false assertion stops a Debug build.  In a Release build coroutine_yield
\* goes on to use what its assertion guards.
AssertFails == /\ mode' = IF NDebug THEN "undefined" ELSE "aborted"
               /\ UNCHANGED <<schedule, objects, cpu>>

\* A pointer that was never written is followed.
FollowsWild == /\ mode' = "undefined"
               /\ UNCHANGED <<schedule, objects, cpu>>

\* The slot number coroutine_new returns.  Bug variant: counted from one.
Returned_FromOne(id) == id + 1
Returned(id) == id

\* _co_new, and the count and handle coroutine_new leaves behind it.
CoNew(o, id) == /\ status' = [status EXCEPT ![o] = "READY"]
                /\ handle' = [handle EXCEPT ![o] = Returned(id)]
                /\ nco' = nco + 1
                /\ UNCHANGED <<running, ctx, home, cpu, mode>>

MayCreate(o) == mode = "run" /\ status[o] = "none" /\ nco < MaxLive

\* The search starts at nco and wraps.
Probe(i) == (i + nco) % cap

\* Bug variant: the slot at nco is taken to be free.
FirstFree_Unchecked(i) == i = 0

FirstFree(i) == /\ slot[Probe(i)] = NULL
                /\ \A j \in 0 .. i-1 : slot[Probe(j)] # NULL

NewInFreeSlot(o) ==
    /\ MayCreate(o) /\ nco < cap
    /\ \E i \in Ids : /\ FirstFree(i)
                      /\ slot' = [slot EXCEPT ![Probe(i)] = o]
                      /\ CoNew(o, Probe(i))
    /\ UNCHANGED cap

\* The table is full: cap is doubled, the array reallocated to twice the new
\* cap, its upper half cleared and cap doubled again; the object goes to the
\* middle of the array while the old cap is returned as its handle.
NewGrow(o) ==
    /\ MayCreate(o) /\ nco >= cap
    /\ cap' = 4 * cap
    /\ \E left \in [cap .. 2*cap-1 -> {NULL, Wild}] :
          slot' = [id \in 0 .. 4*cap-1 |->
                      CASE id < cap -> slot[id]
                        [] id \in cap .. 2*cap-1 -> left[id]
                        [] id = 2*cap -> o
                        [] OTHER -> NULL]
    /\ CoNew(o, cap)

\* No slot is free.  Without assertions the call returns -1; its object, which
\* nothing holds, is lost.
NewNoSlot(o) == /\ MayCreate(o) /\ nco < cap
                /\ \A id \in Ids : slot[id] # NULL
                /\ IF NDebug THEN UNCHANGED vars ELSE AssertFails

-----------------------------------------------------------------------------
\* Bug variant: a client resumes while a coroutine is running.
MayResume_Nested(id) == mode = "run" /\ id \in Issued

\* A client calls coroutine_resume with a handle it was given.  The assertion
\* that no coroutine is running is commented out in the source: with AnyCaller
\* the client may do it all the same.
MayResume(id) == mode = "run" /\ id \in Issued /\ (AnyCaller \/ running = -1)

ResumeDead(id) == MayResume(id) /\ slot[id] = NULL /\ UNCHANGED vars

ResumeWild(id) == MayResume(id) /\ slot[id] = Wild /\ FollowsWild

ResumeRunning(id) ==
    /\ MayResume(id) /\ slot[id] \in Objs
    /\ status[slot[id]] = "RUNNING"
    /\ IF NDebug THEN UNCHANGED vars ELSE AssertFails

\* CreateFiber; the new fiber starts in fiberProc, which reads its id.
StartFiber(C, id) == /\ ctx' = [ctx EXCEPT ![C] = "fiber"]
                     /\ home' = [home EXCEPT ![C] = id]

ResumeLive(id) ==
    /\ MayResume(id) /\ slot[id] \in Objs
    /\ LET C == slot[id] IN
         /\ status[C] \in {"READY", "SUSPEND"}
         /\ IF status[C] = "READY" THEN StartFiber(C, id)
                                   ELSE UNCHANGED <<ctx, home>>
         /\ running' = id
         /\ status' = [status EXCEPT ![C] = "RUNNING"]
         /\ cpu' = C
    /\ UNCHANGED <<cap, nco, slot, handle, mode>>

NoneRuns == running' = -1

\* Bug variant: the status stays RUNNING.
Suspend_Forgotten(C) == UNCHANGED status
Suspend(C) == status' = [status EXCEPT ![C] = "SUSPEND"]

Yield == /\ mode = "run" /\ running >= 0
         /\ Suspend(slot[running])
         /\ NoneRuns
         /\ cpu' = Main
         /\ UNCHANGED <<cap, nco, slot, ctx, home, handle, mode>>

YieldOutside == mode = "run" /\ AnyCaller /\ running < 0 /\ AssertFails

-----------------------------------------------------------------------------
\* _co_delete, when DeleteFiber returns: DeleteFiber, free.
CoDelete(os) == /\ ctx' = [o \in Objs |-> IF o \in os THEN "deleted" ELSE ctx[o]]
                /\ status' = [o \in Objs |-> IF o \in os THEN "DEAD" ELSE status[o]]

\* Bug variants: the ended coroutine keeps its slot; it is still counted.
EmptySlot_Forgotten(id) == UNCHANGED slot
EmptySlot(id) == slot' = [slot EXCEPT ![id] = NULL]

Uncount_Forgotten == UNCHANGED nco
Uncount == nco' = nco - 1

\* The coroutine function returns and fiberProc deletes its own fiber.
FuncReturn ==
    /\ mode = "run" /\ cpu \in Objs /\ "returns" \in SelfDelete
    /\ CoDelete({cpu})
    /\ EmptySlot(home[cpu]) /\ Uncount /\ NoneRuns
    /\ cpu' = Main
    /\ UNCHANGED <<cap, home, handle, mode>>

\* The same where deleting the executing fiber ends its thread: nothing after
\* the DeleteFiber is executed.
FuncReturnExits ==
    /\ mode = "run" /\ cpu \in Objs /\ "exits" \in SelfDelete
    /\ ctx' = [ctx EXCEPT ![cpu] = "deleted"]
    /\ mode' = "exited"
    /\ UNCHANGED <<schedule, status, home, handle, cpu>>

\* The slots coroutine_close visits.  Bug variant: as many as are counted.
Visited_Counted == 0 .. nco-1
Visited == Ids

\* The main program closes the scheduler; a slot whose object has no fiber yet
\* hands DeleteFiber an address that was never written.
Close ==
    /\ mode = "run" /\ cpu = Main
    /\ LET held == {slot[id] : id \in Visited} \ {NULL} IN
         IF Wild \in held \/ \E o \in held : ctx[o] = "uninit"
           THEN FollowsWild
           ELSE /\ mode' = "closed"
                /\ CoDelete(held)
                /\ UNCHANGED <<schedule, home, handle, cpu>>

\* Bug variant: an empty slot does not count as dead.
StatusOf_NullReady(id) ==
    IF slot[id] = NULL THEN "READY" ELSE status[slot[id]]

\* coroutine_status
StatusOf(id) == IF slot[id] = NULL THEN "DEAD" ELSE status[slot[id]]

Next == \/ \E o \in Objs : NewInFreeSlot(o) \/ NewGrow(o) \/ NewNoSlot(o)
        \/ \E id \in Issued : \/ ResumeDead(id) \/ ResumeWild(id)
                              \/ ResumeRunning(id) \/ ResumeLive(id)
        \/ Yield \/ YieldOutside \/ FuncReturn \/ FuncReturnExits \/ Close

Spec == Init /\ [][Next]_vars

-----------------------------------------------------------------------------
TypeOK ==
    /\ cap \in Nat \ {0} /\ nco \in Nat /\ running \in -1 .. cap-1
    /\ slot \in [Ids -> Objs \cup {NULL, Wild}]
    /\ status \in [Objs -> {"none", "READY", "RUNNING", "SUSPEND", "DEAD"}]
    /\ ctx \in [Objs -> {"uninit", "fiber", "deleted"}]
    /\ home \in [Objs -> -1 .. cap-1] /\ handle \in [Objs -> -1 .. cap-1]
    /\ cpu \in Objs \cup {Main}
    /\ mode \in {"run", "closed", "exited", "aborted", "undefined"}

\* While the table has not grown, the handle coroutine_new returned leads
\* coroutine_resume and coroutine_status to that coroutine until it ends,
\* whatever was created, ended and created again in between.
HandleNamesItsCoroutine ==
    mode = "run" /\ cap = DefaultCap => \A o \in Live : slot[handle[o]] = o

\* S->running always tells whose code executes: -1 for the main program, and
\* otherwise the slot of the executing coroutine, which is marked RUNNING.
RunningIsExecuting ==
    mode = "run" =>
        IF cpu = Main THEN running = -1
        ELSE running >= 0 /\ slot[running] = cpu /\ status[cpu] = "RUNNING"

\* The slot number a fiber read when it started still holds its own coroutine
\* when its function returns, so fiberProc empties its own slot and no other.
FiberKeepsItsSlot ==
    mode = "run" =>
        \A o \in Objs : ctx[o] = "fiber" => home[o] >= 0 /\ slot[home[o]] = o

\* nco, on which both the growth test and the start of the search rely, counts
\* the coroutines that exist.
CountIsLive == mode = "run" => nco = Cardinality(Live)

\* While the table has not grown, coroutine_new finds a free slot whenever
\* nco < cap: the assert(0) behind the search is not reached.
SearchSucceeds ==
    mode = "run" /\ cap = DefaultCap /\ nco < cap =>
        \E id \in Ids : slot[id] = NULL

\* If resume is called only while no coroutine runs (the assertion that is
\* commented out), a coroutine marked RUNNING is the one that executes; none is
\* left RUNNING where no later resume can reach it.
NobodyStranded ==
    ~AnyCaller => \A o \in Objs : status[o] = "RUNNING" => cpu = o

\* For such clients, and until the table grows, no assertion fails, and only
\* closing the scheduler over a coroutine that was never resumed uses an
\* uninitialised value (its fiber address).
FailsOnlyOnEarlyClose ==
    ~AnyCaller /\ cap = DefaultCap =>
        /\ mode # "aborted"
        /\ mode = "undefined" =>
              cpu = Main /\ \E o \in Live : ctx[o] = "uninit"

\* What the invariants above rest on, inductively.  The slots hold live
\* coroutines and each live coroutine has one slot; a coroutine has a fiber
\* exactly from its first resume to its end; the table never shrinks, and as
\* long as it has its first size no slot is left unwritten.
SlotsHoldLive == \A id \in Ids : slot[id] \in Objs => slot[id] \in Live
LiveHasSlot == \A o \in Live : \E id \in Ids : slot[id] = o
OneSlotEach == \A i, j \in Ids : slot[i] = slot[j] /\ slot[i] \in Objs => i = j
FiberMatchesStatus ==
    \A o \in Objs : /\ status[o] \in {"RUNNING", "SUSPEND"} <=> ctx[o] = "fiber"
                    /\ status[o] \in {"none", "READY"} <=> ctx[o] = "uninit"
FirstTable == /\ cap >= DefaultCap
              /\ cap = DefaultCap => /\ \A id \in Ids : slot[id] # Wild
                                     /\ \A o \in Live : handle[o] >= 0

IInv == /\ TypeOK
        /\ NobodyStranded
        /\ RunningIsExecuting
        /\ FiberKeepsItsSlot
        /\ CountIsLive
        /\ HandleNamesItsCoroutine
        /\ mode = "run" =>
              /\ SlotsHoldLive /\ LiveHasSlot /\ OneSlotEach
              /\ FiberMatchesStatus /\ FirstTable

\* coroutine_close deletes every coroutine that has not ended, also those that
\* were created while the table grew.
CloseFreesAll == mode = "closed" => Live = {}

\* A coroutine that has ended never executes or owns a slot again, though its
\* handle is reissued.
KeepsDead == \A o \in Objs : status[o] = "DEAD" =>
                 /\ status'[o] = "DEAD" /\ cpu' # o
                 /\ \A id \in Ids' : slot'[id] # o
DeadStaysDead == [][KeepsDead]_vars

Abs == INSTANCE AsymCoroutines WITH
           Handles <- 0 .. DefaultCap-1,
           st <- status, name <- handle, over <- (mode # "run")

\* For clients that resume from the main program and keep at most DefaultCap
\* coroutines alive, the slot table implements the coroutines of
\* AsymCoroutines.
Implements == Abs!Spec

\* The assert(0) that ends coroutine_new: a free slot is always found.
NeverAborts == mode # "aborted"
=============================================================================
