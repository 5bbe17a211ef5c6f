--------------------------- MODULE CoroutineDemo ---------------------------
(***************************************************************************)
(* The two programs of src/Win32API/main.c that drive the scheduler of     *)
(* module Coroutine: test(), with two coroutines resumed in turn, and      *)
(* main(), with one coroutine and a coroutine_close after the loop.        *)
(***************************************************************************)
EXTENDS Coroutine, Sequences

CONSTANT MaxYields      \* bound: yields of one coroutine function (foo: 5)

ASSUME YieldsAssumption == MaxYields \in Nat

VARIABLES workers,      \* coroutines the program creates: 2 in test(), 1 in main()
          pc,           \* where the main program stands
          co,           \* the handles it holds, in order of creation
          turn,         \* which of them is resumed next
          quota, left   \* yields of each function: in all, still to come

demoVars == <<vars, workers, pc, co, turn, quota, left>>

DemoInit == /\ Init
            /\ workers \in 1 .. 2
            /\ pc = "create" /\ co = << >> /\ turn = 1
            /\ quota \in [Objs -> 0 .. MaxYields]
            /\ left = quota

InMain == mode = "run" /\ cpu = Main

Create == /\ InMain /\ pc = "create"
          /\ \E o \in Objs : NewInFreeSlot(o) /\ co' = Append(co, handle'[o])
          /\ pc' = IF Len(co') = workers THEN "while" ELSE "create"
          /\ UNCHANGED <<workers, turn, quota, left>>

While == /\ InMain /\ pc = "while"
         /\ pc' = IF \A i \in 1 .. workers : StatusOf(co[i]) # "DEAD"
                    THEN "resume" ELSE "after"
         /\ UNCHANGED <<vars, workers, co, turn, quota, left>>

\* Where the loop body goes after a resume.  Bug variants: the loop condition
\* is evaluated before every resume; the same coroutine is resumed each time.
NextTurn_Same == turn' = turn /\ pc' = "while"
NextTurn_ChecksEach == turn' = (turn % workers) + 1 /\ pc' = "while"
NextTurn == /\ turn' = (turn % workers) + 1
            /\ pc' = IF turn = workers THEN "while" ELSE "resume"

ResumeNext == /\ InMain /\ pc = "resume"
              /\ ResumeLive(co[turn]) \/ ResumeDead(co[turn])
              /\ NextTurn
              /\ UNCHANGED <<workers, co, quota, left>>

\* The function of the executing coroutine yields or returns.
Body == /\ mode = "run" /\ cpu \in Objs
        /\ IF left[cpu] > 0
             THEN Yield /\ left' = [left EXCEPT ![cpu] = @ - 1]
             ELSE (FuncReturn \/ FuncReturnExits) /\ UNCHANGED left
        /\ UNCHANGED <<workers, pc, co, turn, quota>>

\* test() ends here; main() closes the scheduler first.
After == /\ InMain /\ pc = "after" /\ pc' = "end"
         /\ IF workers = 1 THEN Close ELSE UNCHANGED vars
         /\ UNCHANGED <<workers, co, turn, quota, left>>

DemoNext == Create \/ While \/ ResumeNext \/ Body \/ After

\* The process has one thread, which the system keeps running.
DemoSpec == DemoInit /\ [][DemoNext]_demoVars /\ WF_demoVars(DemoNext)
-----------------------------------------------------------------------------
\* The loop of main.c ends.  Where DeleteFiber returns to the function that
\* deletes its own fiber the program comes to its last line ("main end" in
\* test(), the return after coroutine_close in main()); where it ends the thread,
\* as Win32 documents, the first function to return ends the program instead.
LoopEnds == <>(pc = "end" \/ (mode = "exited" /\ \E o \in Live : left[o] = 0))

\* Two functions that yield equally often both run to their end, although the
\* loop stops as soon as it finds one of them dead: none is left suspended.
EqualWorkersAllEnd ==
    pc = "end" /\ (\A o, p \in Objs : quota[o] = quota[p]) => Live = {}

\* A worker has been resumed at most once more than the other, and the two
\* have yielded equally often whenever the loop condition is evaluated with
\* both alive.
TakeTurns ==
    /\ \A o, p \in Live : quota[o] - left[o] - (quota[p] - left[p]) \in -1 .. 1
    /\ pc = "while" /\ InMain =>
           \A o, p \in Live : quota[o] - left[o] = quota[p] - left[p]
=============================================================================
