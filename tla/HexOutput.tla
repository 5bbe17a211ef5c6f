----------------------------- MODULE HexOutput -----------------------------
(***************************************************************************)
(* The merging of two files that were read and the writing of the result,  *)
(* as main and l_HexMerge of src/intel hex do: IntelHexFileMerge, then     *)
(* IntelHexFileOutput, one action per turn of its loop.                    *)
(***************************************************************************)
EXTENDS HexFile

CONSTANTS ShortLen, LongLen,    \* max_len: 16, or 32 from S bytes on
          Near,                 \* 0xFF: how close "has chance to change" is
          MaxBlocks,            \* bound: blocks of the first file
          Lengths               \* bound: the block lengths tried

ASSUME OutputAssumption ==
    /\ S < W /\ Near \in 1 .. S-1
    /\ LongLen \in 1 .. Near /\ ShortLen \in 1 .. LongLen
    /\ S % ShortLen = 0 /\ S % LongLen = 0
    /\ MaxBlocks \in Nat /\ Lengths \subseteq 1 .. W-1

VARIABLES hex, other,           \* *ihf1 and *ihf2
          pc,                   \* "merge", "output", "loop", "done"; "refused"
                                \* and "undefined" where it ends otherwise
          current, offset, rest,\* Output's position in the block list
          addr, ulba,
          out                   \* the lines written

vars == <<hex, other, pc, current, offset, rest, addr, ulba, out>>
position == <<current, offset, rest, addr, ulba>>

NoStart == -1                   \* 0xFFFFFFFF
Top == (W \div S) - 1           \* 0xFFFF

Read(bs) == [EmptyHex EXCEPT !.blocks = bs, !.total = LengthOf(bs), !.eof = TRUE,
                             !.start = 1]

\* Files with a start record; one without its end record; one that ended in
\* segmented mode.
Init == /\ hex \in {Read(bs) : bs \in ReadLists(MaxBlocks, Lengths)}
                   \cup {[Read(<<Block(0, <<0>>)>>) EXCEPT !.eof = FALSE]}
        /\ other \in {Read(bs) : bs \in ReadLists(1, Lengths)}
                     \cup {[Read(<<Block(0, <<0>>)>>) EXCEPT !.mode = "segmented"]}
        /\ pc = "merge" /\ out = << >>
        /\ current = 1 /\ offset = 0 /\ rest = 0 /\ addr = 0 /\ ulba = Top

-----------------------------------------------------------------------------
Mergeable == hex.eof /\ other.eof /\ hex.mode = other.mode
NothingToMerge == other.blocks = << >> \/ hex.blocks = << >>

\* The first file lies above the second, with a gap between them.
IsAbove(f, g) == f.blocks[1].addr > End(Last(g.blocks))

Lower == IF IsAbove(hex, other) THEN other ELSE hex
Upper == IF IsAbove(hex, other) THEN hex ELSE other

\* The lower file reaches into the upper one: so do two files in the right
\* order that are interleaved, and a second file that touches the first from
\* below.  Bug variant: the first blocks are compared.
Collide_Heads(f, g) == f.blocks[1].addr > g.blocks[1].addr
Collide(f, g) == End(Last(f.blocks)) > g.blocks[1].addr

\* A merge that fails ends l_HexMerge; main outputs the first file regardless.
MergeFails ==
    /\ pc = "merge"
    /\ ~Mergeable \/ (~NothingToMerge /\ Collide(Lower, Upper))
    /\ pc' \in {"output", "refused"}
    /\ UNCHANGED <<hex, other, position, out>>

\* Either file has no block: nothing is done, also where the first has none.
MergeNothing == /\ pc = "merge" /\ Mergeable /\ NothingToMerge /\ pc' = "output"
                /\ UNCHANGED <<hex, other, position, out>>

\* What is left of the second file.
Drained(f) == [f EXCEPT !.blocks = << >>, !.total = 0]

Merge == /\ pc = "merge" /\ Mergeable /\ ~NothingToMerge
         /\ ~Collide(Lower, Upper)
         /\ hex' = [Lower EXCEPT !.blocks = @ \o Upper.blocks,
                                 !.total = (@ + Upper.total) % W,
                                 !.start = NoStart]
         /\ other' = Drained(Upper)
         /\ pc' = "output"
         /\ UNCHANGED <<position, out>>

-----------------------------------------------------------------------------
\* The output begins at block i.
AtBlock(i) == /\ current' = i /\ offset' = 0
              /\ rest' = Len32(hex.blocks[i]) /\ addr' = hex.blocks[i].addr

OutputRefused == /\ pc = "output" /\ (~hex.eof \/ hex.blocks = << >>)
                 /\ pc' = "refused"
                 /\ UNCHANGED <<hex, other, position, out>>

OutputStarts == /\ pc = "output" /\ hex.eof /\ hex.blocks # << >>
                /\ pc' = "loop" /\ AtBlock(1)
                /\ UNCHANGED <<hex, other, ulba, out>>

MaxLen == IF hex.total > S - 1 THEN LongLen ELSE ShortLen

\* A linear base record is due: the upper half of the address has changed or
\* may change soon.  Bug variant: only the latter.
BaseDue_NearOnly == (addr % S) + Near > S
BaseDue == addr \div S # ulba \/ (addr % S) + Near > S

\* The length of the next record: cut to the rest of the segment u when it
\* would come within a byte of the next one.  Bug variants: within two bytes;
\* never cut.
DataLen_Early(u) ==
    LET full == IF rest > MaxLen THEN MaxLen ELSE rest
    IN  IF ((addr + full + 2) % W) \div S # u THEN ((u + 1) * S - addr) % W
                                            ELSE full
DataLen_Uncut(u) == IF rest > MaxLen THEN MaxLen ELSE rest
DataLen(u) ==
    LET full == IF rest > MaxLen THEN MaxLen ELSE rest
    IN  IF ((addr + full + 1) % W) \div S # u THEN ((u + 1) * S - addr) % W
                                            ELSE full

\* One turn of the loop.  A cut that lengthens the record past the block reads
\* beyond its data and lets rest_len wrap; past LongLen the record is written
\* beyond its buffer.
WriteRecord ==
    LET u == addr \div S
        n == DataLen(u)
        b == hex.blocks[current]
    IN  /\ pc = "loop" /\ current <= Len(hex.blocks)
        /\ ulba' = u
        /\ \/ /\ n > rest \/ n > LongLen
              /\ pc' = "undefined"
              /\ UNCHANGED <<current, offset, rest, addr, out>>
           \/ /\ n <= rest
              /\ pc' = pc
              /\ out' = out \o (IF BaseDue THEN <<LinearBase(u)>> ELSE << >>)
                           \o <<DataLine(addr % S, SubSeq(b.data, offset+1, offset+n))>>
              /\ IF rest = n /\ current < Len(hex.blocks)
                   THEN AtBlock(current+1)
                   ELSE /\ offset' = offset + n /\ rest' = rest - n
                        /\ addr' = (addr + n) % W
                        /\ current' = IF rest = n THEN current+1 ELSE current
        /\ UNCHANGED <<hex, other>>

\* The start record, unless merging has removed it, and the end of file.
WriteEnd == /\ pc = "loop" /\ current > Len(hex.blocks) /\ pc' = "done"
            /\ out' = out \o (IF hex.start # NoStart THEN <<StartLinear(hex.start)>> ELSE << >>)
                          \o <<Line("eof")>>
            /\ UNCHANGED <<hex, other, position>>

Next == MergeFails \/ MergeNothing \/ Merge \/ OutputRefused \/ OutputStarts
        \/ WriteRecord \/ WriteEnd

Spec == Init /\ [][Next]_vars
-----------------------------------------------------------------------------
SpansOf(h) == DOMAIN Image(h.blocks)
EndsAtTop(h) == h.blocks # << >> /\ End(Last(h.blocks)) = 0

\* In a merged file no byte was claimed by both and the blocks ascend, exactly
\* if the file put first does not come to the top of memory: the end of its last
\* block is 0 there, which turns the order of the two around and hides that they
\* overlap.
MergedAscends ==
    [][Merge => (SpansOf(hex) \cap SpansOf(other) = {} /\ Ascending(hex'.blocks)
                    <=> ~EndsAtTop(Lower))]_vars

\* Reading the lines back, as IntelHexFileInput does.
Reread == FoldLeft(LAMBDA r, line : IF r.how = "added" THEN ParseOneLine(r.hex, line) ELSE r,
                   [how |-> "added", hex |-> EmptyHex], out)

LacksBase(a) == a \div S = Top /\ (a % S) + Near <= S

\* What is written and read back is the same memory, of the same total length
\* and with the same start address, unless the output begins in the topmost
\* segment, whose number ulba has from the start, and not near its end.
RoundTrip ==
    pc = "done" /\ ~LacksBase(hex.blocks[1].addr) =>
        /\ Reread.how = "added" /\ Reread.hex.eof
        /\ Image(Reread.hex.blocks) = Image(hex.blocks)
        /\ Reread.hex.total = hex.total
        /\ Reread.hex.start = IF hex.start = NoStart THEN 0 ELSE hex.start

\* No record reaches from one segment into the next, so a reader that wraps
\* within a segment loads the same.
RecordsStayInSegment ==
    \A i \in DOMAIN out : out[i].kind = "data" => out[i].field + Len(out[i].data) <= S

\* The length of a record is wrong only for a block that ends one byte below a
\* segment, or, in a file with long records, one whose records meet the byte
\* below a segment.
OverrunsAtSegmentEnd ==
    pc = "undefined" =>
        LET b == hex.blocks[current]
            lastByte == (b.addr + Len32(b) + 1) % S = 0
        IN  lastByte \/ (MaxLen = LongLen /\ (b.addr + 1) % LongLen = 0)
=============================================================================
