--------------------------- MODULE AsymCoroutines ---------------------------
(***************************************************************************)
(* What src/Win32API/coroutine.h promises its client, without the slot     *)
(* table: a coroutine is created under a handle no live coroutine has; a   *)
(* resume of a handle runs the coroutine that handle was issued for, and   *)
(* only from the main program; yield and return give control back to the   *)
(* main program; a dead coroutine never runs again.                        *)
(***************************************************************************)
EXTENDS Integers

CONSTANTS Objs,         \* the coroutines that may be created
          Handles       \* what a client may hold of them

VARIABLES st,           \* life cycle of each coroutine
          name,         \* the handle issued for it (-1 before)
          over          \* the program has stopped

absVars == <<st, name, over>>

Alive == {o \in Objs : st[o] \in {"READY", "RUNNING", "SUSPEND"}}

Init == /\ st = [o \in Objs |-> "none"]
        /\ name = [o \in Objs |-> -1]
        /\ over = FALSE

Create(o) == /\ ~over /\ st[o] = "none"
             /\ st' = [st EXCEPT ![o] = "READY"]
             /\ \E id \in Handles :
                   /\ \A p \in Alive : name[p] # id
                   /\ name' = [name EXCEPT ![o] = id]
             /\ UNCHANGED over

Resume(o) == /\ ~over /\ st[o] \in {"READY", "SUSPEND"}
             /\ \A p \in Objs : st[p] # "RUNNING"
             /\ st' = [st EXCEPT ![o] = "RUNNING"]
             /\ UNCHANGED <<name, over>>

Yield(o) == /\ ~over /\ st[o] = "RUNNING"
            /\ st' = [st EXCEPT ![o] = "SUSPEND"]
            /\ UNCHANGED <<name, over>>

Return(o) == /\ ~over /\ st[o] = "RUNNING"
             /\ st' = [st EXCEPT ![o] = "DEAD"]
             /\ UNCHANGED <<name, over>>

\* The thread exits in the middle of a coroutine's return.
Exit == /\ ~over /\ over' = TRUE
        /\ \E o \in Objs : st[o] = "RUNNING"
        /\ UNCHANGED <<st, name>>

\* The main program closes the scheduler: every coroutine is deleted, or the
\* call breaks on one that was never started.
Close == /\ ~over /\ over' = TRUE
         /\ \A o \in Objs : st[o] # "RUNNING"
         /\ IF \E o \in Objs : st[o] = "READY"
              THEN UNCHANGED st
              ELSE st' = [o \in Objs |-> IF st[o] = "none" THEN "none" ELSE "DEAD"]
         /\ UNCHANGED name

Next == \/ \E o \in Objs : Create(o) \/ Resume(o) \/ Yield(o) \/ Return(o)
        \/ Exit \/ Close

Spec == Init /\ [][Next]_absVars
=============================================================================
