------------------------------ MODULE Publish ------------------------------
(***************************************************************************)
(* A publication: src/lua_scripts/Publish DW732J.lua runs HexMerge,        *)
(* HexToBin (module HexBin), GenUpdateFile of src/DWIAP, del and 7z on one *)
(* directory and looks at no result, so a call that failed leaves what an  *)
(* earlier publication of the same day put there.  Any file may fail to be *)
(* opened; what is written to an open file is taken to reach it.           *)
(***************************************************************************)
EXTENDS HexBin

CONSTANTS LoaderAt, LoaderLength,   \* the bootloader, one block
          Chunk                     \* CHUNK_SIZE

ASSUME PublishAssumption ==
    /\ LoaderAt \in Address /\ LoaderLength \in 1 .. W-1 /\ LoaderAt + LoaderLength <= W
    /\ Chunk \in Nat \ {0}

VARIABLES terminal,     \* the terminal's file: "complete", or "cut" if its end
                        \* record is missing
          loader,       \* the bootloader's: the same, or "empty" if it has an
                        \* end record only
          step,         \* the script's next call, or where it is within one
          dir,          \* the directory: the builds .hex, .bin and .dat are of,
                        \* and the program in .dat
          got,          \* file_buf as far as it is filled
          failed        \* history: what could not be written because a file
                        \* could not be opened, or memory was short

publishVars == <<vars, terminal, loader, step, dir, got, failed>>

Loader == <<Block(LoaderAt, BytesAt(LoaderAt, LoaderLength))>>

\* The script starts.  A .hex and a .dat "before" it may be there or not; so may
\* an earlier .bin, which that publication could not delete.
PublishInit ==
    /\ Init
    /\ terminal \in {"complete", "cut"} /\ loader \in {"complete", "cut", "empty"}
    /\ step = "HexMerge" /\ got = << >> /\ failed = {}
    /\ \E bin \in {"none", "before"} :
          dir = [hex |-> "before", bin |-> bin, dat |-> "before", program |-> << >>]

Fails(what) == failed' = failed \cup {what}

-----------------------------------------------------------------------------
\* HexMerge writes .hex only if both files have their end record and the lower
\* one ends before the upper one or where it begins, or the bootloader's has no
\* block; see module HexOutput.  Bug variant: the two may not touch.
LoaderIsLower == blocks[1].addr > End(Last(Loader))
MergeWrites_Strict ==
    /\ terminal = "complete" /\ loader # "cut" /\ blocks # << >>
    /\ loader = "empty" \/ LoaderIsLower \/ End(Last(blocks)) < LoaderAt
MergeWrites ==
    /\ terminal = "complete" /\ loader # "cut" /\ blocks # << >>
    /\ loader = "empty" \/ LoaderIsLower \/ End(Last(blocks)) <= LoaderAt

HexMerge == /\ step = "HexMerge" /\ step' = "HexToBin"
            /\ dir' = IF MergeWrites THEN [dir EXCEPT !.hex = "new"] ELSE dir
            /\ UNCHANGED <<vars, terminal, loader, got, failed>>

\* Either file is missing or cannot be opened, or .hex cannot.
HexMergeFails == /\ step = "HexMerge" /\ step' = "HexToBin" /\ Fails("hex")
                 /\ UNCHANGED <<vars, terminal, loader, dir, got>>

\* HexToBin converts what could be read, complete or not.  A section that could
\* not be created leaves the .bin before it as it is.
HexToBin == /\ step = "HexToBin" /\ Next
            /\ IF pc' \in {"done", "failed"}
                 THEN /\ step' = "GenUpdateFile"
                      /\ IF files' = << >>
                           THEN Fails("bin") /\ UNCHANGED dir
                           ELSE dir' = [dir EXCEPT !.bin = "new"] /\ UNCHANGED failed
                 ELSE UNCHANGED <<step, dir, failed>>
            /\ UNCHANGED <<terminal, loader, got>>

\* The terminal's file is missing or cannot be opened.
HexToBinFails == /\ step = "HexToBin" /\ pc = "fill" /\ current = 1
                 /\ step' = "GenUpdateFile" /\ Fails("bin")
                 /\ UNCHANGED <<vars, terminal, loader, dir, got>>

-----------------------------------------------------------------------------
\* GenerateUpdateFile: .bin is missing or cannot be opened, or .dat cannot,
\* which then stays as it is.
GenUpdateFails == /\ step = "GenUpdateFile" /\ step' = "del" /\ Fails("dat")
                  /\ UNCHANGED <<vars, terminal, loader, dir, got>>

\* Else .dat is emptied before the .bin is read.
GenUpdateOpens == /\ step = "GenUpdateFile" /\ dir.bin # "none" /\ step' = "read"
                  /\ dir' = [dir EXCEPT !.dat = "emptied"]
                  /\ UNCHANGED <<vars, terminal, loader, got, failed>>

\* What the .bin holds; of an earlier one nothing is asked.
BinData == IF dir.bin = "new" THEN files[1].data ELSE <<Filler>>

\* A chunk goes behind those before it.  Bug variant: to the buffer's start.
Filled_FromStart(buf, chunk) == chunk \o SubSeq(buf, Len(chunk)+1, Len(buf))
Filled(buf, chunk) == buf \o chunk

\* The buffer grows by a chunk and a chunk is read, until one is short.
ReadChunk == /\ step = "read"
             /\ LET chunk == SubSeq(BinData, Len(got)+1, Min({Len(got)+Chunk, Len(BinData)}))
                IN  /\ got' = Filled(got, chunk)
                    /\ step' = IF Len(chunk) = Chunk THEN "read" ELSE "write"
             /\ UNCHANGED <<vars, terminal, loader, dir, failed>>

\* malloc or realloc fails: .dat has been emptied and stays so.
ReadFails == /\ step = "read" /\ step' = "del" /\ Fails("memory")
             /\ UNCHANGED <<vars, terminal, loader, dir, got>>

\* A .dat made from an earlier .bin is of no build of this publication.
WriteUpdate == /\ step = "write" /\ step' = "del"
               /\ dir' = [dir EXCEPT !.dat = IF dir.bin = "new" THEN "new" ELSE "stale",
                                     !.program = got]
               /\ UNCHANGED <<vars, terminal, loader, got, failed>>

-----------------------------------------------------------------------------
\* The .bin is deleted, unless it is in use, as it is after ReadFails; those of
\* further sections are not.  Then 7z packs what is in the directory.
Delete == /\ step = "del" /\ step' = "ExecCP"
          /\ dir' \in {dir, [dir EXCEPT !.bin = "none"]}
          /\ UNCHANGED <<vars, terminal, loader, got, failed>>

PublishNext == \/ HexMerge \/ HexMergeFails \/ HexToBin \/ HexToBinFails
               \/ GenUpdateFails \/ GenUpdateOpens \/ ReadChunk \/ ReadFails \/ WriteUpdate
               \/ Delete

PublishSpec == PublishInit /\ [][PublishNext]_publishVars
-----------------------------------------------------------------------------
\* The update file holds the terminal's memory from its first byte on, with
\* filler in the gap behind the first block, up to the first other gap: what
\* is behind that is in further .bin files only.  However long it is, it is
\* read to its end.
FurtherStarts == {before[i].addr : i \in 3 .. Len(before)} \cap SectionStarts(WasRead)
Program ==
    LET as == {a \in WasRead : \A s \in FurtherStarts : a < s}
    IN  IF as = {} THEN << >>
        ELSE [k \in 1 .. Max(as) - Min(as) + 1 |->
                LET a == Min(as) + k - 1 IN IF a \in WasRead THEN Image(before)[a] ELSE Filler]
UpdateHoldsProgram == dir.dat = "new" => dir.program = Program

\* The memory the terminal's file claims lies apart from the bootloader's, with
\* a gap where the bootloader is the lower one; or it only seems to, because
\* the file that is put first ends at the top of memory, at address 0.
SeemApart == \/ \A a \in WasRead : a > (LoaderAt + LoaderLength) % W
             \/ \A a \in WasRead : a < LoaderAt
             \/ W-1 \in WasRead
Merged == /\ "hex" \notin failed
          /\ terminal = "complete" /\ loader # "cut"
          /\ WasRead # {} /\ (loader = "empty" \/ SeemApart)

\* When 7z packs the directory, .hex is of this publication exactly if both
\* files were complete, the terminal's not empty and the two apart; and .dat is
\* exactly if .bin could be created, it and .dat be opened and its bytes be
\* held, whether .hex was written or not.  So where one of the two holds and the
\* other does not, and only there, a .hex and a .dat of different builds go
\* into one archive.
PackedBuilds ==
    step = "ExecCP" =>
        /\ dir.hex = "new" <=> Merged
        /\ dir.dat = "new" <=> failed \cap {"bin", "dat", "memory"} = {}
=============================================================================
