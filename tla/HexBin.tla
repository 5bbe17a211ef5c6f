------------------------------ MODULE HexBin ------------------------------
(***************************************************************************)
(* HexToBin of src/intel hex: IntelHexFileFillEmptyValue closes the gaps   *)
(* between the blocks of a file that was read, then IntelHexFileToBin      *)
(* writes one binary file for each contiguous section.                     *)
(***************************************************************************)
EXTENDS HexFile

CONSTANTS MaxBlocks,    \* bound: blocks of the file that was read
          MaxLength     \* bound: bytes of one of them

ASSUME BinAssumption == MaxBlocks \in Nat /\ MaxLength \in 1 .. W-1

VARIABLES blocks,       \* the list of the file
          before,       \* history: the list as it was read
          pc,           \* "fill", "bin", "done"; "failed" if a file cannot be
                        \* created; "undefined" once the path buffer of ToBin
                        \* is overrun
          current,      \* Fill's and ToBin's current block
          count,        \* Fill's result
          next,         \* ToBin's current_addr
          files         \* the files written: what the name has behind the
                        \* path given, and the bytes

vars == <<blocks, before, pc, current, count, next, files>>

Filler == -1            \* the byte 0xFF that l_HexToBin passes

Init == /\ blocks \in ReadLists(MaxBlocks, 1 .. MaxLength)
        /\ before = blocks
        /\ pc = "fill" /\ current = 1 /\ count = 0
        /\ next = 0 /\ files = << >>

\* ToBin opens the file named by its argument before it looks at the blocks.
StartBin == /\ pc' = "bin" /\ current' = 1
            /\ files' = <<[suffix |-> << >>, data |-> << >>]>>
            /\ next' = IF blocks = << >> THEN 0 ELSE blocks[1].addr

\* The gap behind a block.  Bug variant: one byte short.
GapAfter_Short(i) == (blocks[i+1].addr - End(blocks[i]) - 1) % W
GapAfter(i) == (blocks[i+1].addr - End(blocks[i])) % W

\* The filling stops at the last block, and at the first block that touches
\* the next one: which a block of filler just put in always does.
FillEnds == pc = "fill" /\ (current < Len(blocks) => GapAfter(current) = 0)

FillStops == FillEnds /\ StartBin /\ UNCHANGED <<blocks, before, count>>

\* There is no memory for the path, or the file cannot be created.
StartFails == FillEnds /\ pc' = "failed"
              /\ UNCHANGED <<blocks, before, current, count, next, files>>

FillGap ==
    /\ pc = "fill" /\ current < Len(blocks) /\ GapAfter(current) # 0
    /\ LET gap == GapAfter(current)
       IN  /\ blocks' = InsertAt(blocks, current+1,
                                 Block(End(blocks[current]), [i \in 1 .. gap |-> Filler]))
           /\ count' = count + gap
    /\ current' = current + 1
    /\ UNCHANGED <<before, pc, next, files>>

\* A block that continues the section goes to the file that is open.  Bug
\* variant: every block continues it.
Continues_Always == TRUE
Continues == blocks[current].addr = next

WriteOn ==
    /\ pc = "bin" /\ current <= Len(blocks) /\ Continues
    /\ files' = [files EXCEPT ![Len(files)].data = @ \o blocks[current].data]
    /\ next' = End(blocks[current]) /\ current' = current + 1
    /\ UNCHANGED <<blocks, before, pc, count>>

\* The buffer of the name has room for one address, if the path given ends in
\* ".bin"; a second one is written past its end.  Bug variant: no room at all.
Overruns_First(suffix) == Len(suffix) > 0
Overruns(suffix) == Len(suffix) > 1

\* Otherwise a new file is opened, whose name is made from the last name used:
\* its extension is dropped and the address put behind it.
NewFile ==
    /\ pc = "bin" /\ current <= Len(blocks) /\ ~Continues
    /\ LET b == blocks[current]
           suffix == Append(Last(files).suffix, b.addr)
       IN  /\ files' = Append(files, [suffix |-> suffix, data |-> b.data])
           /\ next' = End(b) /\ current' = current + 1
           /\ pc' \in IF Overruns(suffix) THEN {"bin", "undefined"} ELSE {"bin"}
    /\ UNCHANGED <<blocks, before, count>>

\* It cannot be created: the files written so far stay, this block and those
\* behind it are in none of them.
NewFileFails ==
    /\ pc = "bin" /\ current <= Len(blocks) /\ ~Continues
    /\ pc' = "failed"
    /\ UNCHANGED <<blocks, before, current, count, next, files>>

BinEnds == /\ pc = "bin" /\ current > Len(blocks) /\ pc' = "done"
           /\ UNCHANGED <<blocks, before, current, count, next, files>>

Next == FillStops \/ StartFails \/ FillGap \/ WriteOn \/ NewFile \/ NewFileFails \/ BinEnds

Spec == Init /\ [][Next]_vars
-----------------------------------------------------------------------------
Written == DOMAIN Image(blocks)
WasRead == DOMAIN Image(before)

\* Filling adds filler bytes between the first block and the last, as many as
\* it reports, and changes no byte that was read.
FillKeepsData ==
    /\ \A a \in WasRead : Image(blocks)[a] = Image(before)[a]
    /\ \A a \in Written \ WasRead :
           /\ Image(blocks)[a] = Filler
           /\ \E l, h \in WasRead : l < a /\ a < h
    /\ count = Cardinality(Written \ WasRead)

\* The sections of a set of addresses begin where the address below is absent.
SectionStarts(as) == {a \in as : a-1 \notin as}

\* The file names aside, the binary files are the sections of the blocks in
\* ascending order, one file each, with every byte at its place.
FilesAreSections ==
    pc = "done" /\ blocks # << >> =>
        /\ Len(files) = Cardinality(SectionStarts(Written))
        /\ FlattenSeq([k \in DOMAIN files |-> files[k].data])
              = FlattenSeq([k \in DOMAIN blocks |-> blocks[k].data])
        /\ \A k \in 2 .. Len(files) :
              /\ Last(files[k].suffix) \in SectionStarts(Written)
              /\ files[k].data[1] = Image(blocks)[Last(files[k].suffix)]

\* Only a file of at least three sections beyond the filling comes to the
\* buffer's end.
OverrunNeedsThreeSections ==
    pc = "undefined" => Cardinality(SectionStarts(Written)) >= 3

\* "Fill data gaps with 0xFF" (l_HexToBin): when the filling is over no address
\* between the first and the last byte is without data.  Lists with two blocks
\* that touch, where the filling also stops, are left out: what is shown is that
\* it stops at the filler it has put in itself.
GapsAreFilled ==
    pc = "bin" /\ (\A i \in 1 .. Len(before)-1 : End(before[i]) # before[i+1].addr) =>
        Cardinality(SectionStarts(Written)) <= 1
=============================================================================
