----------------------------- MODULE HexInput -----------------------------
(***************************************************************************)
(* IntelHexFileInput of src/intel hex/intel.c reading any file, line by    *)
(* line, until the file ends or a line stops it.                           *)
(***************************************************************************)
EXTENDS HexFile

CONSTANTS MaxLines,     \* bound: lines of a file
          MaxData       \* bound: bytes of a data record (the format has 255)

ASSUME InputAssumption == MaxLines \in Nat /\ MaxData \in 0 .. S

VARIABLES ihf,          \* *hex_file
          reading,      \* "reading", "done", or what made ParseOneLine stop
          lineno,
          seen          \* history: the data records met in linear mode, as
                        \* blocks, the one that stopped the reading included

inputVars == <<ihf, reading, lineno, seen>>

\* The bytes of a line are told apart by its number.
Lines == {Line(k) : k \in {"ignored", "malformed", "eof", "segmentBase", "startSegment"}}
         \cup {DataLine(f, [i \in 1 .. n |-> lineno]) :
                  f \in 0 .. S-1, n \in 0 .. MaxData}
         \cup {LinearBase(v) : v \in 0 .. (W \div S) - 1}
         \cup {StartLinear(1)}

InputInit == ihf = EmptyHex /\ reading = "reading" /\ lineno = 1 /\ seen = << >>

ReadLine(line) ==
    /\ reading = "reading" /\ lineno <= MaxLines
    /\ LET r == ParseOneLine(ihf, line)
       IN  /\ ihf' = r.hex
           /\ reading' = IF r.how = "added" THEN "reading" ELSE r.how
    /\ lineno' = lineno + 1
    /\ seen' = IF line.kind = "data" /\ ihf.mode = "linear"
                 THEN Append(seen, Block(ihf.base + line.field, line.data))
                 ELSE seen

EndOfInput == /\ reading = "reading" /\ reading' = "done"
              /\ UNCHANGED <<ihf, lineno, seen>>

InputNext == (\E line \in Lines : ReadLine(line)) \/ EndOfInput

InputSpec == InputInit /\ [][InputNext]_inputVars
-----------------------------------------------------------------------------
SpanOf(b) == Span(b.addr, Len32(b))

\* No two of the records met claim the same byte.
Disjoint(bs) == \A i, j \in DOMAIN bs : i # j => SpanOf(bs[i]) \cap SpanOf(bs[j]) = {}

\* No block comes to the top of the address space, where its end is 0.
BelowTop(bs) == \A i \in DOMAIN bs : bs[i].addr + Len32(bs[i]) < W

NoneEmpty(bs) == \A i \in DOMAIN bs : bs[i].data # << >>

\* While no two records claim the same byte and none has been refused, memory
\* holds exactly the bytes of the records, in whatever order they came, however
\* they were joined, and also when a record was split at the top of memory.
LoadsWhatWasRead ==
    Disjoint(seen) /\ reading \in {"reading", "done"} =>
        Image(ihf.blocks) = Image(seen)

\* For such records, none empty and all below the top of memory, the list is in
\* ascending order, which Merge and Fill rely on.
BlocksAscend ==
    Disjoint(seen) /\ BelowTop(seen) /\ NoneEmpty(seen) =>
        \A i, j \in DOMAIN ihf.blocks : i < j =>
            ihf.blocks[i].addr + Len32(ihf.blocks[i]) <= ihf.blocks[j].addr

\* Such a record is refused as overlapping only if it does overlap.
NoFalseOverlap == reading = "overlap" /\ BelowTop(seen) /\ NoneEmpty(seen) =>
    ~Disjoint(seen)

\* TotalLength is the sum of the block lengths, also when the second half of a
\* split record was refused.
TotalIsSum == ihf.total = LengthOf(ihf.blocks)

\* Only an empty record that meets an empty block breaks the parser.
CrashNeedsEmptyRecords ==
    reading = "crash" =>
        /\ Last(seen).data = << >>
        /\ \E i \in DOMAIN ihf.blocks : ihf.blocks[i].data = << >>

\* The message of AddBlock: data that overlaps is an error, so the reading does
\* not go on past it.
OverlapIsRefused == reading \in {"reading", "done"} => Disjoint(seen)
=============================================================================
