------------------------------- MODULE MinIni -------------------------------
(***************************************************************************)
(* ini_puts and ini_gets of src/minIni/minIni.c over the stdio glue: a     *)
(* setting is changed by copying the file, line by line, to a temporary    *)
(* one that then takes its place, in two steps.  The program may end at    *)
(* any point of a call, the disk may be full, and another program may have *)
(* the file open, whose effects are those of Windows.                      *)
(***************************************************************************)
EXTENDS Integers, FiniteSets, SequencesExt

CONSTANTS Sections, Keys, Values,
          Top,          \* the section NULL or "": what stands above all headers
          None,         \* NULL, for a key or a value; also: no such setting
          Missing,      \* there is no file
          MaxLines,     \* bound: lines of the file at the start
          MaxCalls      \* bound: calls of ini_puts

ASSUME NamesAssumption ==
    /\ Top \notin Sections /\ None \notin Keys \union Values
    /\ {MaxLines, MaxCalls} \subseteq Nat

VARIABLES file, temp,   \* contents of the file and the temporary one
          other,        \* how another program has the file open
          pc,           \* of the caller
          call,         \* section, key and value of the last call
          ret,          \* what it returned; None: it did not
          before,       \* history: the file when it was called
          want,         \* history: the settings the calls that returned 1 promise
          doubt,        \* history: settings whose last call ended otherwise
          mishaps,      \* history: what may have lost settings
          calls         \* number of calls

vars == <<file, temp, other, pc, call, ret, before, want, doubt, mishaps, calls>>

Header(s)   == [kind |-> "header",  name |-> s,    value |-> None]
Entry(k, v) == [kind |-> "entry",   name |-> k,    value |-> v]
Comment     == [kind |-> "comment", name |-> None, value |-> None]

\* Blank lines are layout.
Lines == {Header(s) : s \in Sections} \union {Entry(k, v) : k \in Keys, v \in Values}
             \union {Comment}

ASSUME MissingAssumption == Missing \notin Seq(Lines)

Places == Sections \union {Top}
Settings == Places \X Keys

\* Key NULL erases the section, value NULL the key.
Calls == [sec : Places, key : Keys, val : Values \union {None}]
             \union [sec : Places, key : {None}, val : {None}]

SectionAt(f, s) == IF s = Top THEN 0 ELSE SelectInSeq(f, LAMBDA l : l = Header(s))
HasSection(f, s) == s = Top \/ SectionAt(f, s) # 0

\* The line that ends the search for a key below a header: its entry, the next
\* header or the end of the file.  Bug variant: headers are passed over.
Ends_AtKey(l, k) == l.kind = "entry" /\ l.name = k
Ends(l, k) == l.kind = "header" \/ (l.kind = "entry" /\ l.name = k)

EndAt(f, s, k) == LET n == SectionAt(f, s)
                      i == SelectInSeq(SubSeq(f, n+1, Len(f)), LAMBDA l : Ends(l, k))
                  IN  IF i = 0 THEN Len(f) + 1 ELSE n + i

IsEntry(f, i) == i \in 1 .. Len(f) /\ f[i].kind = "entry"

\* getkeystring and ini_gets; None stands for the default value.
Get(f, s, k) == IF f # Missing /\ HasSection(f, s) /\ IsEntry(f, EndAt(f, s, k))
                THEN f[EndAt(f, s, k)].value ELSE None

\* The line for a new value.  Bug variant: a request to delete writes one too.
Added_OnDelete(c) == IF c.key = None THEN << >> ELSE <<Entry(c.key, c.val)>>
Added(c) == IF c.val = None THEN << >> ELSE <<Entry(c.key, c.val)>>
NewSection(c) == IF c.val = None \/ c.sec = Top THEN Added(c) ELSE <<Header(c.sec)>> \o Added(c)

\* What is copied of the lines up to a place.  Bug variant: comments are skipped
\* as they are on reading.
Copied_NoComments(f) == SelectSeq(f, LAMBDA l : l.kind # "comment")
Copied(f) == f

\* Where the copying goes on.  Bug variant: the old entry is copied too.
ResumeAt_Same(f, i) == i
ResumeAt(f, i) == IF IsEntry(f, i) THEN i+1 ELSE i

\* The temporary file after the copying of f.
Rewrite(f, c) ==
    IF ~HasSection(f, c.sec) THEN f \o NewSection(c)
    ELSE LET i == EndAt(f, c.sec, c.key)
             kept == IF c.key = None THEN SectionAt(f, c.sec) - 1 ELSE i - 1
         IN  Copied(SubSeq(f, 1, kept)) \o Added(c) \o SubSeq(f, ResumeAt(f, i), Len(f))

\* A full disk cuts what is written short, and fputs tells nobody.
Written(text) == {text} \union {SubSeq(text, 1, n) : n \in 0 .. Len(text) - 1}
-----------------------------------------------------------------------------
SectionOf(f, i) == LET h == {j \in 1 .. i : f[j].kind = "header"}
                   IN  IF h = {} THEN Top ELSE f[CHOOSE j \in h : \A m \in h : m <= j].name

\* No section and no key of a section stands twice.
Unique(f) == \A i, j \in 1 .. Len(f) :
                 i < j /\ f[i].kind = f[j].kind /\ f[i].name = f[j].name =>
                     \/ f[i].kind = "comment"
                     \/ f[i].kind = "entry" /\ SectionOf(f, i) # SectionOf(f, j)

Stored(f) == [p \in Settings |-> Get(f, p[1], p[2])]
Addressed(c) == {p \in Settings : p[1] = c.sec /\ c.key \in {None, p[2]}}

Init == /\ file \in {Missing} \union {f \in BoundedSeq(Lines, MaxLines) : Unique(f)}
        /\ temp = Missing /\ other = "none" /\ pc = "idle"
        /\ call = None /\ ret = None /\ before = file /\ want = Stored(file)
        /\ doubt = {} /\ mishaps = {} /\ calls = 0

\* ini_puts returns r; a call that returns 1 promises its setting.
Return(r) == /\ pc' = "idle" /\ ret' = r
             /\ IF r = 1 THEN /\ want' = [p \in Settings |-> IF p \in Addressed(call)
                                                             THEN call.val ELSE want[p]]
                              /\ doubt' = doubt \ Addressed(call)
                         ELSE UNCHANGED <<want, doubt>>

\* It returns 1 although nothing was done.
ReturnInVain == /\ pc' = "idle" /\ ret' = 1 /\ UNCHANGED want
                /\ doubt' = doubt \union Addressed(call)

Puts == /\ pc = "idle" /\ calls < MaxCalls /\ calls' = calls + 1
        /\ call' \in Calls /\ before' = file /\ ret' = None /\ pc' = "open"
        /\ UNCHANGED <<file, temp, other, want, doubt, mishaps>>

\* The file cannot be opened for reading: it is taken for a new one.
OpenFails == /\ pc = "open" /\ (file = Missing \/ other = "exclusive")
             /\ \/ call.val # None /\ pc' = "create" /\ UNCHANGED <<ret, want, doubt>>
                \/ call.val = None /\ file = Missing /\ Return(1)
                \/ call.val = None /\ file # Missing /\ ReturnInVain
             /\ UNCHANGED <<file, temp, other, call, before, mishaps, calls>>

CreateFails == /\ pc = "create" /\ Return(0)
               /\ UNCHANGED <<file, temp, other, call, before, mishaps, calls>>

Create == /\ pc = "create" /\ other # "exclusive" /\ file' = << >> /\ pc' = "new"
          /\ mishaps' = IF file = Missing THEN mishaps ELSE mishaps \union {"race"}
          /\ UNCHANGED <<temp, other, call, ret, before, want, doubt, calls>>

WriteNew == /\ pc = "new" /\ Return(1) /\ file' \in Written(NewSection(call))
            /\ mishaps' = IF file' = NewSection(call) THEN mishaps ELSE mishaps \union {"full"}
            /\ UNCHANGED <<temp, other, call, before, calls>>

CanOpen == file # Missing /\ other # "exclusive"
Same == call.val # None /\ Get(file, call.sec, call.key) = call.val

\* The setting has its value already.
BailOut == /\ pc = "open" /\ CanOpen /\ Same /\ Return(1)
           /\ UNCHANGED <<file, temp, other, call, before, mishaps, calls>>

TempFails == /\ pc = "open" /\ CanOpen /\ ~Same /\ Return(0)
             /\ UNCHANGED <<file, temp, other, call, before, mishaps, calls>>

OpenTemp == /\ pc = "open" /\ CanOpen /\ ~Same /\ temp' = << >> /\ pc' = "copy"
            /\ UNCHANGED <<file, other, call, ret, before, want, doubt, mishaps, calls>>

Copy == /\ pc = "copy" /\ temp' \in Written(Rewrite(file, call)) /\ pc' = "remove"
        /\ mishaps' = IF temp' = Rewrite(file, call) THEN mishaps ELSE mishaps \union {"full"}
        /\ UNCHANGED <<file, other, call, ret, before, want, doubt, calls>>

\* Bug variant: the original is removed before the copy is complete.
MayRemove_Early == pc \in {"copy", "remove"}
MayRemove == pc = "remove"

RemoveFile == /\ MayRemove /\ other = "none" /\ file' = Missing /\ pc' = "rename"
              /\ UNCHANGED <<temp, other, call, ret, before, want, doubt, mishaps, calls>>

\* The file is open elsewhere: neither is it removed nor can the temporary one
\* take its name, and the call returns 1.
RemoveRefused == /\ MayRemove /\ other # "none" /\ ReturnInVain
                 /\ UNCHANGED <<file, temp, other, call, before, mishaps, calls>>

RenameTemp == /\ pc = "rename" /\ file' = temp /\ temp' = Missing /\ Return(1)
              /\ UNCHANGED <<other, call, before, mishaps, calls>>

\* The program ends in the middle of the call.
Crash == /\ pc # "idle" /\ pc' = "idle" /\ doubt' = doubt \union Addressed(call)
         /\ mishaps' = IF pc = "rename" THEN mishaps \union {"window"} ELSE mishaps
         /\ UNCHANGED <<file, temp, other, call, ret, before, want, calls>>

\* Another program opens the file, alone or for reading, and closes it.  It
\* is not opened alone while the caller reads it or writes it.
OtherOpens == /\ other = "none" /\ file # Missing
              /\ other' \in IF pc \in {"copy", "new"} THEN {"shared"} ELSE {"shared", "exclusive"}
              /\ UNCHANGED <<file, temp, pc, call, ret, before, want, doubt, mishaps, calls>>
OtherCloses == /\ other # "none" /\ other' = "none"
               /\ UNCHANGED <<file, temp, pc, call, ret, before, want, doubt, mishaps, calls>>

Next == \/ Puts \/ OpenFails \/ CreateFails \/ Create \/ WriteNew
        \/ BailOut \/ TempFails \/ OpenTemp \/ Copy
        \/ RemoveFile \/ RemoveRefused \/ RenameTemp
        \/ Crash \/ OtherOpens \/ OtherCloses

Spec == Init /\ [][Next]_vars
-----------------------------------------------------------------------------
\* The caller is in one place of ini_puts, the files are missing or made of
\* lines, and what is left behind by a call that is over is not on its way.
TypeOK == /\ pc \in {"idle", "open", "create", "new", "copy", "remove", "rename"}
          /\ \A f \in {file, temp} \ {Missing} : ToSet(f) \subseteq Lines
          /\ pc # "idle" => call \in Calls /\ ret = None
          /\ ret \in {None, 0, 1}
          /\ other # "none" => file # Missing
          /\ (pc = "rename" => file = Missing) /\ (pc \in {"copy", "remove", "rename"} => temp # Missing)

\* Whatever ini_puts makes of a file without duplicate sections and keys is one
\* again, wherever it was cut short and whatever was copied.
NoDuplicatesMade == \A f \in {file, temp} \ {Missing} : Unique(f)

\* After any calls, crashes and refusals each setting has the value of the last
\* call about it that returned 1, except the settings of calls that crashed or
\* were refused, unless the program ended between remove and rename, the disk
\* was full, or a file that could not be opened was taken for a new one.
SettingsKept == pc = "idle" /\ mishaps = {} =>
                    \A p \in Settings \ doubt : Get(file, p[1], p[2]) = want[p]

\* Where f has the lines that a call is not about.
Others(f, c) == {i \in 1 .. Len(f) : SectionOf(f, i) = c.sec =>
                     c.key # None /\ ~(f[i].kind = "entry" /\ f[i].name = c.key)}

\* The lines at the places of a set, in their order.
Listed(f, set) == [n \in 1 .. Cardinality(set) |->
                      f[CHOOSE i \in set : Cardinality({j \in set : j <= i}) = n]]

\* The lines g has besides those that a call is about are the lines of f, in
\* their order, and the header of its section at the end if f did not have it.
OthersStay(f, g, c) ==
    LET rest(t) == Listed(t, Others(t, c))
    IN  \/ rest(g) = rest(f)
        \/ ~HasSection(f, c.sec) /\ rest(g) = Append(rest(f), Header(c.sec))

\* A call that returns 1 leaves every other line of the file where it was,
\* comments too; it may add the header of its section at the end.
OnlyTheSettingChanges ==
    pc = "idle" /\ ret = 1 /\ mishaps = {} /\ Missing \notin {before, file} =>
        OthersStay(before, file, call)

\* At every point of a call, and after a crash there, the old or the new
\* contents are in one of the two files.
OldOrNewSurvives ==
    call # None /\ before # Missing /\ mishaps \subseteq {"window"} =>
        {before, Rewrite(before, call)} \intersect {file, temp} # {}
=============================================================================
