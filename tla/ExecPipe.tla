------------------------------ MODULE ExecPipe ------------------------------
(***************************************************************************)
(* ExecCreateProcess of src/exec/exec.c: a command is run with its output  *)
(* redirected into an anonymous pipe, waited for, and only then is the     *)
(* pipe read into a string.  The command, a process it may leave behind    *)
(* and the pipe are external; any of them may take a step at any time.     *)
(***************************************************************************)
EXTENDS Integers, SequencesExt

CONSTANTS PipeSize,     \* bytes the pipe holds (CreatePipe's default)
          ReadSize,     \* 4095, one less than the size of buffer
          MaxOutput,    \* bound: bytes the command writes
          MaxLate       \* bound: bytes the process left behind writes

ASSUME PipeAssumption == /\ {PipeSize, ReadSize} \subseteq Nat \ {0}
                         /\ {MaxOutput, MaxLate} \subseteq Nat

VARIABLES pc,           \* of the caller: "start", "wait", "read", "done", "failed"
          code,         \* ExitCode
          buffer, result,
          pipe,         \* the bytes in the pipe
          writers,      \* the processes that hold its write end open
          todo,         \* what the command and the one left behind still write
          stays,        \* the process left behind never ends
          written       \* history: all that was written, in order

vars == <<pc, code, buffer, result, pipe, writers, todo, stays, written>>

Nul == 0
None == <<"NULL">>      \* *result before StringInit
StillActive == 259
ExitCodes == {0, 1}

\* Bytes are told apart by their place and writer; any may be a NUL.
Outputs(from, most) ==
    {[i \in 1 .. n |-> IF i \in nuls THEN Nul ELSE from + i] :
        n \in 0 .. most, nuls \in SUBSET (1 .. most)}

Cleared == [i \in 1 .. ReadSize+1 |-> Nul]

Init == /\ pc = "start" /\ code = 0 /\ buffer = Cleared /\ result = None
        /\ pipe = << >> /\ writers = {"caller"} /\ written = << >>
        /\ todo \in [command : Outputs(0, MaxOutput), late : Outputs(MaxOutput, MaxLate)]
        /\ stays \in BOOLEAN

\* CreatePipe or CreateProcess fails: 0 is returned and no result.
StartFails == /\ pc = "start" /\ pc' = "failed"
              /\ UNCHANGED <<code, buffer, result, pipe, writers, todo, stays, written>>

\* The process that is created inherits the write end, and so does one that it
\* creates and does not wait for.
Start == /\ pc = "start" /\ pc' = "wait"
         /\ writers' \in {{"caller", "command"}, {"caller", "command", "late"}}
         /\ UNCHANGED <<code, buffer, result, pipe, todo, stays, written>>

\* WaitForSingleObject returns.  Bug variants: it is not called; it waits
\* for the process left behind too.
CommandEnded_NoWait == TRUE
CommandEnded_All == writers = {"caller"}
CommandEnded == "command" \notin writers

\* The write ends left open when the caller closes its own.  Bug variant: it
\* forgets to.
Closed_Kept == writers
Closed == writers \ {"caller"}

Collect == /\ pc = "wait" /\ CommandEnded /\ pc' = "read"
           /\ IF "command" \in writers THEN code' = StillActive
                                       ELSE code' \in ExitCodes
           /\ writers' = Closed /\ result' = << >>
           /\ UNCHANGED <<buffer, pipe, todo, stays, written>>

\* The string that begins in a zero-terminated buffer.
FirstNul(b) == SelectInSeq(b, LAMBDA c : c = Nul)
CString(b) == IF FirstNul(b) = 0 THEN b ELSE SubSeq(b, 1, FirstNul(b) - 1)

\* The buffer after a chunk was appended.  Bug variant: it is not cleared.
AfterAppend_Kept(b) == b
AfterAppend(b) == Cleared

\* ReadFile returns some of what the pipe holds, StringAppent takes it as a
\* C string.
Read == /\ pc = "read" /\ pipe # << >>
        /\ \E n \in 1 .. ReadSize :
              /\ n <= Len(pipe)
              /\ LET b == [i \in 1 .. ReadSize+1 |-> IF i <= n THEN pipe[i] ELSE buffer[i]]
                 IN  result' = result \o CString(b) /\ buffer' = AfterAppend(b)
              /\ pipe' = SubSeq(pipe, n+1, Len(pipe))
        /\ UNCHANGED <<pc, code, writers, todo, stays, written>>

\* The pipe is empty and no write end is open: ReadFile fails.
ReadBroken == /\ pc = "read" /\ pipe = << >> /\ writers = {} /\ pc' = "done"
              /\ UNCHANGED <<code, buffer, result, pipe, writers, todo, stays, written>>

Write(p) == /\ p \in writers /\ todo[p] # << >> /\ Len(pipe) < PipeSize
            /\ pipe' = Append(pipe, Head(todo[p]))
            /\ written' = Append(written, Head(todo[p]))
            /\ todo' = [todo EXCEPT ![p] = Tail(@)]
            /\ UNCHANGED <<pc, code, buffer, result, writers, stays>>

Exit(p) == /\ p \in writers /\ todo[p] = << >> /\ ~(p = "late" /\ stays)
           /\ writers' = writers \ {p}
           /\ UNCHANGED <<pc, code, buffer, result, pipe, todo, stays, written>>

Caller == StartFails \/ Start \/ Collect \/ Read \/ ReadBroken
Process(p) == Write(p) \/ Exit(p)
Next == Caller \/ \E p \in {"command", "late"} : Process(p)

\* The system runs every process that is not blocked.
Spec == Init /\ [][Next]_vars /\ WF_vars(Caller)
        /\ WF_vars(Process("command")) /\ WF_vars(Process("late"))
-----------------------------------------------------------------------------
TypeOK == /\ pc \in {"start", "wait", "read", "done", "failed"}
          /\ code \in ExitCodes
          /\ Len(buffer) = ReadSize+1 /\ Last(buffer) = Nul
          /\ Len(pipe) <= PipeSize
          /\ writers \subseteq {"caller", "command", "late"}

\* The result is the output, in the order it was written, also what comes after
\* the command has ended, however the reads cut it.  A NUL is left out and takes
\* the rest of its read with it: a byte is missing only if it, or one of the
\* ReadSize - 1 bytes before it, is a NUL.
ResultIsOutput ==
    pc = "done" =>
        /\ writers = {}
        /\ Nul \notin ToSet(written) => result = written
        /\ ToSet(result) \subseteq ToSet(written) \ {Nul}
        /\ \A i, j \in DOMAIN result : i < j =>
               \E a, b \in DOMAIN written :
                   a < b /\ written[a] = result[i] /\ written[b] = result[j]
        /\ \A b \in DOMAIN written :
               \/ written[b] \in ToSet(result)
               \/ \E a \in 1 .. b : b - a < ReadSize /\ written[a] = Nul

Fits == Len(written) + Len(todo.command) + Len(todo.late) <= PipeSize

\* A command whose output fits the pipe, and whose offspring ends, does not
\* keep the caller waiting: the call returns.
ReturnsIfItFits == [](pc = "start" /\ Fits /\ ~stays => <>(pc \in {"done", "failed"}))

\* The only way not to come past the wait is a full pipe that the caller would
\* have to empty: more output than that leaves both waiting for ever.
WaitsOnlyWhenFull ==
    [](pc = "wait" => <>(pc # "wait" \/ (Len(pipe) = PipeSize /\ todo.command # << >>)))
=============================================================================
