# A verification project for EffiLib

EffiLib is a collection of small Windows utilities in C, most of them usable
from Lua, kept beside copies of third-party libraries. This directory holds
TLA+ models of the utilities that carry logic of their own, the TLC
configurations that check them on small instances, and TLAPS proofs about them
for every size.

1. Inventory
2. Plan
3. Modules and the code they stand for
4. What each run checks, its bounds, its fairness
5. What is proved
6. Disagreements between code and documentation
7. What is not modelled

## 1. Inventory

| Component | State it keeps | Operations | Interacts with |
|---|---|---|---|
| Coroutine scheduler, `Win32API/coroutine.c` | slot table, capacity, count, running index; per coroutine status and fiber | open, close, new, resume, yield, status, running | Win32 fibers; its clients call back into it from inside coroutines |
| Its clients, `Win32API/main.c` | handles, loop position | `test()`, `main()`, `Permutations` | the scheduler |
| Intel HEX, `intel hex/intel.c` | list of address blocks, mode, base, end-of-file flag, total length, start address | input (parse a line, add a block), fill, merge, output, to binary, free | Lua binding `lua_intelhex.c`, command line `main.c`, files |
| Command execution, `exec/exec.c`, `stringbuffer.c` | a pipe, a child process, a growing string | run a command, return its output | the child, processes the child leaves behind, the bounded pipe |
| INI files, `minIni/minIni.c` | the file itself, a temporary file | gets, puts, browsing, deletion | the file system: create, copy, remove, rename; other programs |
| FatFs, `fatfs/ff.c` with `ffconf.h`, `ff_main.c`, `glue_stdio.c` | on disk: the table of clusters, the root directory, the data; in memory: a one-sector window on table and directory, a buffer for each open file, the hint and the count of free clusters | make a volume, mount; open, read, write, seek, truncate, synchronise, close; remove, rename, count the free space | a disk image read and written by sectors through glue to stdio; the caller, who keeps the documented rule about open files |
| Update files, `DWIAP/dwip_update.c` | a buffer that grows by chunks, the update file | read the `.bin`, write header and program; CRC-16 and CRC-32 | the publishing script; the `.bin` file of the Intel HEX conversion |
| Publishing, `lua_scripts/Publish DW732J.lua` | a directory of files, which is packed | merge, convert, make the update file, delete, pack | Intel HEX, update files, 7z; looks at no result |
| DES, `DES/DES.c` | key schedule | set key, encrypt, decrypt | - |
| Base64, `libb64/src` | a step, a pending character | encode block, encode end, decode block | nothing in the repository |

FatFs is Chan's file system, R0.09; it is modelled because this repository
configures it, provides its disk and drives it, and because its promises about
crashes and buffers are of the kind that tests hardly reach. The remaining
directories are copies of third-party code (Lua, libjpeg, jsoncpp, dlmalloc,
7z, svn, Base64) or samples without state (DLL templates, hash
functions, an empty C project, window templates).

What makes each of them right, and where it is hard:

- **Scheduler.** A handle must lead to the coroutine it was given for while
  slots are reused; `S->running` must agree with the fiber that executes; the
  count that steers growth and search must agree with the slots. Hard: control
  changes hands in the middle of library functions (`fiberProc` keeps a local
  over a whole coroutine), a client may resume from inside a coroutine since
  the assertion against it is commented out, the table grows.
- **Its clients.** The driver loop must end, and not before equal workers have.
- **Intel HEX.** What was read is what memory holds, in whatever order records
  come; writing and reading back is the identity; merging and filling lose
  nothing. Hard: unsigned addresses that wrap at 2^32, 16-bit segments, a block
  list whose order steers joining, inserting and refusing, a loop that inserts
  into the list it walks.
- **Command execution.** The string is the whole output and the call returns.
  Hard: three processes and a bounded pipe, where the wait comes before the
  reading.
- **INI files.** A setting that was put is there, nothing else changes, and no
  crash loses the file. Hard: crash between remove and rename, results that are
  not looked at, another program with the file open.
- **FatFs.** What is read is what was written, whatever calls it was cut into;
  a crash at any moment harms no file that was not being written. Hard: three
  layers of delayed writes (the buffer of a file, the window, the directory
  entry that waits for `f_sync`), sectors that go past the buffer, a chain and
  an entry that change in several disk writes whose order decides what a crash
  leaves.
- **Update files and publishing.** The update file holds the terminal's program
  and the archive files of one build. Hard: steps in sequence whose results
  nobody tests, over files that the last publication left.
- **DES, Base64.** Pure codings.

The hazards, with their lines and the properties that cover them, are listed in
`PROJECT.json`.

## 2. Plan

The scheduler comes first: it is the only component with callbacks and shared
mutable state under concurrency of a kind, and other programs build on it.

| Order | Module | Composes | State |
|---|---|---|---|
| 1 | `AsymCoroutines` | abstract specification of the scheduler | done |
| 2 | `Coroutine`, `MCCoroutine` | implements `AsymCoroutines` | done |
| 3 | `CoroutineDemo` | `Coroutine` with the driver programs | done |
| 4 | `Coroutine_proofs` | theorems about both | done |
| 5 | `HexFile`, `HexFile_proofs` | the block list and the line parser, as operators, and lemmas about them | done |
| 6 | `HexInput` | `HexFile`, the reading loop | done |
| 7 | `HexBin` | `HexFile`, filling then binary files | done |
| 8 | `HexOutput` | `HexFile`, merging then writing then reading back | done |
| 9 | `IntelHex_proofs` | `HexInput`, `HexOutput`: theorems about both | done |
| 10 | `ExecPipe`, `ExecPipe_proofs` | the caller, the command, one left behind, the pipe | done |
| 11 | `MinIni`, `MCMinIni`, `MinIni_proofs` | the caller, the file system, another program | done |
| 12 | `Publish`, `Publish_proofs` | `HexBin`, the update file, the script and its directory | done |
| 13 | `FatWindow` | the window on table and directory, and the disk writes | done |
| 14 | `FatVolume`, `FatFs` | `FatWindow`; chains and directory, then the files and a crash | done |
| 15 | `FatFile_proofs`, `FatFs_proofs` | theorems about a volume and one file, then about all of `FatFs` | done |

Every invariant and action property that a run checks and that holds has a
theorem by now; what is left to TLC is liveness (section 5).

Modules that are to be proved about have no RECURSIVE operator, have named
assumptions on their constants, and invariants that are conjunctions of named
parts.

## 3. Modules and the code they stand for

### The scheduler: `Coroutine`

One action is what the executing fiber does in one library call, up to the
call's return or its `SwitchToFiber`. Nothing else runs meanwhile: fibers
switch only where they say so.

| Code | Model |
|---|---|
| `S->cap`, `S->nco`, `S->running`, `S->co` | `cap`, `nco`, `running`, `slot` |
| `co->status`; "none" before `malloc`, "DEAD" after `free` | `status` |
| `co->ctx`: uninitialised, a fiber, deleted | `ctx` |
| `fiberProc`'s local `id` | `home` |
| the fiber that executes | `cpu` |
| the program goes on, has closed, exited, aborted, or has undefined behaviour | `mode` |
| `coroutine_new` | `NewInFreeSlot`, `NewGrow`, `NewNoSlot` (the `assert(0)`, or -1 without assertions) |
| `coroutine_resume` | `ResumeLive`, `ResumeDead`, `ResumeRunning`, `ResumeWild` |
| `coroutine_yield` | `Yield`, `YieldOutside` (the assertion) |
| end of `fiberProc` | `FuncReturn`, `FuncReturnExits` |
| `coroutine_close` | `Close` |
| `coroutine_status` | `StatusOf`, used by the driver |

`handle` is a history variable: what `coroutine_new` returned for an object.
When the table grows, `realloc` leaves part of the new array unwritten: each
such slot holds NULL or `Wild`, a nondeterministic choice, and following `Wild`
sets `mode` to "undefined". Two constants keep what the build and the system
decide open: `NDebug` (the Release configuration compiles assertions out) and
`SelfDelete` (Microsoft's documentation says that deleting the executing fiber
ends its thread; the code is written as if the call returned). Allocation and
`CreateFiber` are taken to succeed.

`AsymCoroutines` is the promise without the table: each live coroutine has a
handle no other live one has, a resume runs its coroutine, only from the main
program, a dead one never runs. `Implements` is its specification under
`st <- status, name <- handle, over <- (mode # "run")`.

`CoroutineDemo` adds the two loops of `main.c`: `test()` with two workers
resumed in turn while both are alive, `main()` with one worker and a
`coroutine_close` behind the loop. `quota` is how often each function yields.

### Intel HEX: `HexFile`, `HexInput`, `HexBin`, `HexOutput`

The list `BlockHead .. BlockTail` is a sequence of blocks `[addr, data]`.
Addresses wrap at `W` (2^32 in the code), a segment has `S` bytes (2^16);
every addition that is a `u32` addition in the code is taken modulo `W`. A
line is a record: ignored, malformed, or one of the record types; checksum,
hexadecimal digits and the segment record's malformed variants are part of
"malformed". Operators carry the functions' names: `AddBlock` with its join,
insert, overlap and error paths, `Store` with the update of `TotalLength`,
`StoreLinear` with the split at the top of memory, `ParseOneLine`.

`HexInput` reads any sequence of lines; its variable for the list is `ihf` and
its specification `InputSpec`, so that the theorems about reading and those
about writing can stand in one module. `HexBin` starts from any list that
reading leaves, walks it as `IntelHexFileFillEmptyValue` does, one gap for each
step, and then writes blocks as `IntelHexFileToBin` does, one block for each
step. `HexOutput` starts from two lists, merges as `IntelHexFileMerge` does,
one step for each way it can end, writes one record for each step, and is read
back with `ParseOneLine`. Each file that `ToBin` creates may fail to be created:
the first one, behind the filling, with nothing written (`StartFails`), a later
one with the files before it in place (`NewFileFails`).

`realloc` to no bytes is taken to return NULL and `malloc` not to, as the
compiler's library does; the path given to `ToBin` ends in `.bin` as the
scripts have it; the lists `HexBin` and `HexOutput` begin with are in ascending
order, which is what reading files in ascending order leaves (`BlocksAscend`).

### Command execution: `ExecPipe`

Actors: the caller (`ExecCreateProcess`), the command, and a process the
command may leave behind, which inherits the pipe's write end. `Start` is
`CreateProcess`, `Collect` is `WaitForSingleObject` returning with the closing
of the caller's write end behind it, `Read` one turn of the reading loop with
its append and its clearing of the buffer, `ReadBroken` the failing `ReadFile`
that ends it. The pipe is a bounded sequence of bytes. A chunk is appended as a
C string, so a NUL cuts the chunk: `CString`.

### INI files: `MinIni`

The file and the temporary file are sequences of lines (header, entry,
comment), or missing. `SectionAt`, `EndAt` and `Get` are `getkeystring`;
`Rewrite` is what the copying loops of `ini_puts` leave in the temporary file:
for a section that is absent, for a key found, for the next header met, for the
end of the file, and for the deletion of a key or a section. Each file
operation is an action: opening, creating, copying, removing, renaming, in the
order of the code, with its failure beside it. `Crash` ends the program between
any two; the next call finds what is left. `other` is another program that has
the file open, alone or for reading: on Windows such a file cannot be removed.
The history variables are the file before the call (`before`), the settings
the calls that returned 1 promise (`want`), the settings whose last call
crashed or did nothing although it returned 1 (`doubt`), and what can lose
settings (`mishaps`: the crash between remove and rename, a full disk, and a
file that could not be opened for reading but a moment later for writing).

### Publishing: `Publish`

`Publish DW732J.lua` is a sequence of calls whose results nobody looks at, and
`step` is the next one, or where it is within one. `HexToBin` is the whole of
module `HexBin`, one of its steps at a time; what `HexMerge` leaves of `.hex` is
taken from `HexOutput`'s conditions for a merge (`MergeWrites`).
`GenerateUpdateFile` is `GenUpdateOpens` (which empties `.dat` before anything is
read), one `ReadChunk` for each turn of the reading loop, `ReadFails` for a
`malloc` or `realloc` without memory, and `WriteUpdate`.

The terminal's file and the bootloader's may each lack the end record, the
bootloader's may have an end record only, and the terminal's any list of blocks.
Every file may be missing or fail to be opened: a source file or the `.hex`
(`HexMergeFails`), the terminal's file at its second reading (`HexToBinFails`), a
`.bin` (`StartFails`, `NewFileFails`), the `.bin` or the `.dat`
(`GenUpdateFails`). `dir` is a record of what the directory holds at each of the
three names: of this publication ("new"), from an earlier one of the same day
whose files the script writes over ("before"), for `.dat` also emptied, or made
from an earlier `.bin` ("stale"); and the program in `.dat`. `failed` is a
history variable: which of the three could not be written because a file could
not be opened, and whether memory was short. `del` may fail. What 7z packs is
what `dir` is when `step` has come to it.

### FatFs: `FatWindow`, `FatVolume`, `FatFs`

`ff_main.c` makes a volume of 5 MiB with clusters of 1 KiB: a FAT16 volume with
one table (`N_FATS`), a fixed root directory and two sectors to a cluster, which
is what `CSize = 2` has. `ffconf.h` leaves out locking (`_FS_SHARE`), shared
buffers (`_FS_TINY`) and long names, so each open file has its own sector buffer
and the volume has one window.

| Code | Model |
|---|---|
| the image behind `disk_write` | `vol.disk`: table, directory, data sectors |
| table and directory as the program sees them | `vol.fat`, `vol.dir`: the disk's, but for the sector in the window |
| `fs->winsect`, `fs->wflag`, `fs->last_clust`, `fs->free_clust` | `vol.win`, `vol.wflag`, `vol.last`, `vol.free` |
| `FIL`: `flag`, `sclust`, `fsize`, `fptr`, `clust`, `dsect`, `buf`, `dir_ptr` | the fields of `fil[f]` |
| `move_window`, `sync`, `put_fat`, `create_chain`, `remove_chain`, `dir_find`, `dir_register`, `dir_remove`, `f_mkfs`, `chk_mounted` | operators of the same names on a volume |
| the API functions | one action each, of the same names |

A call is one action, because there is one task and no callback. What a crash
inside a call can leave is still there in full: `vol.images` has the disks of
the last call, one for every disk write it made (`DiskWrite`), and
`Crash` picks any of them, mounts it and goes on, unless its structure is broken
(`Whole`); what the library does on a broken volume is not asked. One call of
`disk_write` is taken to be done or not done.

History variables are `content` (the bytes each file is to hold), `read` (what
the last `f_read` got and should have got), `stale` (a file was truncated while
its buffer was changed and for a sector given away), `vol.cut` and `vol.moving`
(for the two critical sections). Callers keep the documentation's rule that an
open file is not opened again, renamed or removed; the `ABORT` paths of the code
are for disk errors and broken chains and cannot be reached from a whole volume
without disk errors. Subdirectories, attributes and times are left out.

The loops of the code, along a chain, over the sectors of a directory, and those
of `f_write`, `f_read` and `f_lseek`, are written with `Loop`: a round that
changes nothing once the loop has ended, repeated as often as the loop can turn.
The rounds (`Freed`, `WriteOn`, `ReadOn`, `FollowOn`) are the bodies of the
loops. `ClosedAssumption` says that the value for "not open" is not an open
file.

## 4. What each run checks

| Run | Module | Shows |
|---|---|---|
| `coroutine_any` | `MCCoroutine` | for clients that resume from anywhere and through any number of growths, asserts off: the inductive invariant of the proofs, and that closing deletes every live coroutine |
| `coroutine_refines` | `MCCoroutine` | for clients that resume from the main program: types, handles, the search for a free slot, nobody stranded, failures only where a coroutine was never resumed, dead stays dead, and the refinement of `AsymCoroutines`; both outcomes of deleting the executing fiber |
| `coroutine_search_fails` | `MCCoroutine` | disagreement: after a growth the search can reach `assert(0)` |
| `demo_test` | `CoroutineDemo` | for both outcomes of deleting the executing fiber: equal workers both end, they take turns, and the two drivers come to their end, or to the end of the thread when the first function returns |
| `hex_input` | `HexInput` | memory holds what was read, blocks ascend, no false overlap, the total is the sum, crashes need empty records |
| `hex_overlap` | `HexInput` | disagreement: a record at the address of the first block is taken |
| `publish` | `Publish` | filling changes nothing that was read, the files are the sections, the name buffer overruns only from three sections on; the update file holds the program up to the first gap left open; `.hex` and `.dat` that are packed are of this publication each exactly under the conditions named |
| `hex_bin_gaps` | `HexBin` | disagreement: the filling stops at its own filler, behind the first gap |
| `hex_output` | `HexOutput` | round trip, records within segments, where lengths go wrong, and which merges leave the files apart and in order |
| `exec_pipe` | `ExecPipe` | result is the output; returns when the output fits; the only way to hang is a full pipe |
| `minini` | `MCMinIni` | settings survive calls, crashes and refusals except in the three named ways; nothing else changes; old or new contents survive; no duplicates are made |
| `fatfs` | `FatFs` | reads return what was written; a crash at any moment of any call spares files not being written; cross links and dangling entries only in the two critical sections; the count of free clusters is right and no cluster is lost without a crash |

### Bounds

- Scheduler: capacity 1 with five objects grows once to 4 and a second time to
  16, with every content of the unwritten slots; capacity 3 with four objects
  fills, wraps and reuses. The behaviours depend on full, not full, and where
  `nco` points, all of which occur. `MaxLive` bounds the coroutines alive at
  once. Objects are interchangeable and are a symmetry set where no temporal
  property is checked.
- Drivers: up to five yields, as `foo` has, for each worker separately; the
  table has its real size 16.
- `hex_input`: 8 addresses in two segments, four lines, two bytes in a record.
  Four records are enough for a block with a neighbour on each side and a
  fourth that joins, fits, overlaps or wraps.
- `publish` and `hex_bin_gaps`: four blocks of one or two bytes in 8 addresses
  (10 for `hex_bin_gaps`): three gaps, so that the stop after the first can be
  told from the end, and the third name. The bootloader has two bytes at 3, so a
  terminal lies below it, above it, on it, touches it, or ends at the top of
  memory. Chunks of 2: programs whose length is and is not a multiple of one.
- `hex_output`: 24 addresses in three segments of 8, records of 2 and 4 bytes
  (16 and 32), "near" 5 (255), blocks of 1, 5 and 9 bytes, the last longer than
  a segment and than the bound for long records, the middle one such that a cut
  can bring the output to an odd place in its block. The relations between the
  numbers are those of the code (`OutputAssumption`). Two blocks against one
  give each order, touch, overlap and interleaving.
- `exec_pipe`: a pipe of 3 bytes and a buffer of 2 with up to 6 bytes of
  output: it can fill, drain and be cut in every way; NUL bytes anywhere.
- `minini`: every file of up to three lines over two sections, two keys, two
  values and comments, without duplicates at the start, and two calls: the
  second call meets what a crash or a refusal of the first one left. Names of a
  kind are interchangeable; the properties are invariants, so the symmetry is
  sound.
- `fatfs`: two files on three clusters of two sectors of two bytes, and a table
  and a directory of one entry to a sector, so that every change of cluster and
  of entry moves the window. Reads and writes are of five bytes: the end of a
  sector in the buffer, a whole sector past it and the beginning of another, in
  each alignment that seeking to 0, 4 and 7 and earlier calls give; nine bytes
  (`MaxSize`) need all three clusters, so a second file finds the volume full.
  Seven calls are enough for open, write, seek, truncate, write, close and a
  call about the other file; after a crash two more, which is enough to open and
  read what it left.

Deadlock is not checked: all of these programs end, and the models stop there.
`exec_pipe` really can hang, which is what `WaitsOnlyWhenFull` describes.

### Fairness

Two runs need it. `CoroutineDemo` has weak fairness of its whole next-state
relation: one thread that the system keeps running, in code that never waits.
`ExecPipe` has weak fairness of the caller and of each process: Windows runs
every process that is not blocked, and a process blocked on the pipe has no
action enabled. A process left behind may be one that never ends (`stays`);
fairness does not end it, and `ReturnsIfItFits` excludes it by name.

## 5. What is proved

Eight modules hold the proofs, for every value of the constants that their named
ASSUMEs allow; the runs evaluate these too.

### The scheduler and its clients

`Coroutine_proofs`: for every `DefaultCap` in `Nat \ {0}`, every finite set of
objects, every `MaxLive`, any number of growths, both kinds of client and both
values of the other flags.

| Theorem | Statement |
|---|---|
| `Invariance` | `IInv` is an invariant |
| `TypeCorrect`, `HandlesCorrect`, `RunningCorrect`, `NoneStranded` | the invariants that are parts of it |
| `SearchCorrect` | before a growth, `nco < cap` implies a free slot |
| `FailuresCorrect` | for disciplined clients and before a growth no assertion fails, and only `coroutine_close` over a coroutine that was never resumed is undefined |
| `CloseCorrect` | closing leaves no live coroutine, through any growth |
| `DeadCorrect` | action property: a dead coroutine never runs and never owns a slot |
| `Refinement` | with `~AnyCaller` and `MaxLive <= DefaultCap`, `Spec => Abs!Spec` |

None of the invariants is inductive alone. That a fiber empties its own slot
when it returns (`FiberKeepsItsSlot`) needs that no second coroutine is put in
an occupied slot and that no other fiber empties it: `SlotsHoldLive`,
`LiveHasSlot`, `OneSlotEach` say that slots and live coroutines correspond one
to one; `FiberMatchesStatus` ties the fiber to the status, so that a suspended
coroutine has a fiber to switch to; `FirstTable` confines the unwritten slots to
grown tables. `IInv` is their conjunction under `mode = "run"` with the
invariants that are checked. Each action has a lemma, with one step for each
conjunct it can disturb.

`SearchCorrect` is a counting argument on top: each live coroutine has its own
slot and `nco` counts them, so if `nco < cap` the slots cannot all be taken
(`PigeonHole`, with the library's theorems about cardinality). `Refinement`
maps each action to an abstract action or a stutter; that a new handle is one
no live coroutine has follows from `HandleNamesItsCoroutine`.

The theorems about the drivers build on these: a step of a driver is a step of the
scheduler (`DemoSteps`), so `IInv` comes for free. `TurnsTaken` (the workers of
`test()` alternate strictly) and `EqualsEnd` (workers that yield equally often
have all ended when the loop stops) hold for any numbers of yields. What has to
be added to `IInv` (`DInv`): which object each handle that the program holds
leads to, or that its slot is empty (`Holds`), and how the place in the loop
tells how often each worker has been resumed (`InStep`, with `Begun`); the two
counts differ by one exactly while the second of the pair is due.

### INI files

`MinIni_proofs` is about files of any length, any names and
values, any number of calls, and a crash at any point.

| Theorem | Statement |
|---|---|
| `Survival` | `OldOrNewSurvives`: old or new contents are in one of the two files |
| `TypeCorrect` | the files are made of lines, the caller is where `ini_puts` can be |
| `Singled` | `NoDuplicatesMade`: no section and no key of a section twice |
| `PromisesKept` | `SettingsKept`: `ini_gets` finds what the last successful call promised |
| `OtherLinesKept` | `OnlyTheSettingChanges`: every line the call is not about stays, in its order |
| `RewriteChanges` | what a complete copy is, whichever loop of `ini_puts` made it |

`Survival` needs where the contents are on the way (`Progress`): until the
removal the file is what it was before the call, and when the removal is reached
the temporary file is complete. That holds whatever `Rewrite` makes of the
lines, so its proof leaves it unexpanded. `Singled`, `PromisesKept` and
`OtherLinesKept` need just that, and `RewriteChanges` supplies it: for every file
without duplicates and every request, the copy gives the setting its value,
leaves every other setting and every other line as it was, and has no
duplicates. The argument: whichever loop of
`ini_puts` runs, the result is a `Splice`, the lines up to a place, at most a
header and an entry, and the lines from a second place on. A line that is kept
keeps its order, and its section too, as no header comes or goes before it or a
header follows at once (`Neutral`, `SuffixSection`); so nothing is doubled if
nothing new meets its like (`Fresh`, `SpliceUnique`), and settings change exactly
where lines went or came (`Brings`, `SpliceChanges`). `AddsSection`,
`ChangesEntry` and `ErasesSection` find the two places for the three kinds of
request. The search of `getkeystring` is described by `StopFound`, and
`EntryFound` says that in a file without duplicates it finds the entry that is
there. On this the invariant `KInv` rests: until the removal the promised
settings are in the file, and after it in the temporary one, together with the
new one (`Promised`). For `OtherLinesKept` the invariant is `Settled`: a call that
returned 1 left the file as it was or its complete copy. That the copy has the
same other lines in the same order is a matter of counting: `Listed` puts the
lines at a set of places into a list by their rank among these, ranks grow and
leave none out (`RankGrows`, `RankOnto`), and so two sets that a growing function
maps onto each other make the same list (`ListedSame`); `SpliceOthers` says that
the other lines of a splice are those of the file, moved, and a new header
behind them. `MissingAssumption` says that the value that stands for "no
file" is not itself a file.

### Intel HEX reading

`HexFile_proofs` has the lemmas about the block list that the other modules of
the format rest on, for address spaces and segments of any size: what `AddBlock`
does in each of its cases (`AddBlockCases`), that `Store` and `StoreLinear` keep
the bytes of the list and add those of the record, also when it is split at the
top of memory, and that a memory is determined by its bytes (`SameImage`).

`IntelHex_proofs`, for files of any length and any order of records:

| Theorem | Statement |
|---|---|
| `LoadsAll` | `LoadsWhatWasRead` |
| `Ascends`, `NothingRefused` | `BlocksAscend`, `NoFalseOverlap` |
| `CrashNeedsEmpty` | `CrashNeedsEmptyRecords` |
| `TotalKept` | `TotalIsSum` |

The invariants: `LInv`, by which the bytes of the list are the bytes of the
records that were read, unless one was refused; and `OInv`, by which a list made
of records that are not empty, stay below the top of memory and claim no address
twice (`Clean`) is `Orderly`, ascending and apart, and none was refused. The two
need each other: that `AddBlock`, which looks at one neighbour, puts a record in
its place follows from the order of the list, and that the record does not
overlap any block from the bytes that are in it (`AddOrderly`).

`TotalLength`, the memory, and later the reading back are folds over a list, and
the library's theorem about folds takes an operator. The proofs describe a fold
by the list of values it goes through (`Runs`, `FoldPrefix`, `Sums`): that such
a list exists for every length is shown by taking the least length for which
there is none.

### Intel HEX output

| Theorem of `IntelHex_proofs` | Statement |
|---|---|
| `RecordsStay` | `RecordsStayInSegment` |
| `Overruns` | `OverrunsAtSegmentEnd` |
| `MergesApart` | `MergedAscends` |
| `ReadsBack` | `RoundTrip` |

The core of the first two is arithmetic on the cut that keeps a record within
its segment (`CutFits`, `RecordShape`), which needs that the record lengths
divide a segment and that there is more than one segment. `RInv` says how far
the writing of a block has come (`InBlock`), from which each record's length
follows. For `Overruns` the place of the output within its block has to be known
too (`Placed`): in a file with long records it is a multiple of them behind the
beginning of the block unless a cut has brought it to one in the segment. `MergesApart`
rests on the lists before the merge being ascending (`MInv`), and on what the
two comparisons of `IntelHexFileMerge` mean for such lists: unless the file put
first ends at the top of memory, whose end is address 0, a merge is right
(`MergeAscends`); and if it ends there, the two overlap or are in the wrong order
(`MergeHidesOrder`). So `MergedAscends` says exactly when a merge goes wrong.

`ReadsBack` joins the two halves of the format: while the output goes on, what
is written, read back by the parser, is the part of the list that lies behind
(`Loaded`). `LoadedAt` says that of the bytes, the total, the base, the mode and
the end of the blocks, and leaves the blocks themselves open, because the parser
joins what the writer has cut, and joins blocks that touch. Each record that is
written is a record that `StoreLinear` appends (`ReadMore`, `LoadedMore`). The
segment the code has in mind from the start (`LacksBase`) is the one exception,
which is the finding below.

### Filling, binary files and publishing

`Publish_proofs`:

| Theorem | Statement |
|---|---|
| `FillKeeps` | `FillKeepsData` |
| `OneFileEach`, `OverrunNeedsThree` | `FilesAreSections`, `OverrunNeedsThreeSections` |
| `ReadsAll` | the buffer holds the whole `.bin` when it is written, also when its length is a multiple of the chunk |
| `HoldsProgram` | `UpdateHoldsProgram` |
| `PackedAre` | `PackedBuilds` |

`FillInv` says all that filling ever does: nothing, or a plug behind the first
block (`FilledOnce`), after which it stops. `SectionInv` says what `ToBin` has
written when it has come past some blocks (`Sectioned`), also when it could not
create the next file: a file for each section
begun, with one address more in each name (`Named`), whose contents are together
the contents of the blocks; the flattening of a list of lists is described, like
a fold, by the values it goes through (`IsFlat`). The first file is then the
memory from the first address up to the second section (`FirstOf`), and `UInv`
follows it through the `.bin` on disk and the chunks of the buffer into the
update file.

The invariant `PInv` follows the script: `Reading` says that the buffer is a
beginning of the file, `Following` what decides, by each step, whether `.hex`,
`.bin` and `.dat` are this publication's. The link between the blocks and the
bytes is `MergesIfApart`: the comparisons of `IntelHexFileMerge` let the merge
take place exactly if the bytes that were read lie above the bootloader's with a
gap, or below them, or reach the top of memory. `PackedBuilds` therefore holds
in both directions: each of the two files is of this publication under its own
condition, and where one condition holds and the other does not the packed
directory has mixed builds.

### Command execution

`ExecPipe_proofs`: `TypeCorrect`, and `OutputReturned` (`ResultIsOutput`): for
pipes and buffers of any size and every order of writing and reading, the output
comes back in its order and without NUL bytes, and a byte of it is missing only
if it is NUL or follows a NUL so closely that one read may have had both; and
only when every writer has closed its end. The invariant (`EInv`) says where the
bytes are: all in the pipe until the reading begins (`Flow`), then a first part
of them read (`ReadTo`), from which the result has all that no NUL has hidden
(`Ordered`, `Covers`), while the pipe has the rest (`Behind`).

### FatFs

The theorems hold for any number of files, clusters, sectors in a cluster, bytes
in a sector, entries, sizes and offsets, any number of calls, and a crash at any
disk write of any call.

| Theorem | Statement |
|---|---|
| `ReadsWhatWasWrittenHolds` | `ReadsWhatWasWritten` |
| `BystandersSurviveHolds` | `BystandersSurvive` |
| `CrossLinksHold` | `CrossLinksOnlyInCriticalSections` |
| `AccountingHolds` | `Accounting` |
| `FilesInvariant` | `FilesInv`, from which the four follow |

`FatFile_proofs` is about the volume and one file, in three layers.

*The window.* On a volume that is coherent, that is, whose disk agrees with what
the program sees everywhere but in a changed window, `WindowMoves`, `FatPut`,
`EntryPut` and `Synchronised` say that the window's functions keep it coherent,
change the one entry they are about in the program's view, and that every disk
they leave behind is a view from before: the disk is late, never different. Two
orders that a crash depends on follow: `EndBeforeLink` (no disk shows a cluster
linked that is not marked as the end) and `EntryBeforeChain` (no disk shows a
file whose first cluster is already free).

*The chains.* A chain is not what a walk finds but a list that the table agrees
with (`Path`), one for each file and one for clusters that no entry leads to
(`Loose`), and the lists have no cluster in common (`Layout`). `Good` says of a
volume in the middle of a call that the program's view has such lists, and that
each disk a crash may find has lists of its own (`Fine`), which may be older or
shorter; both leave alone what the call is to leave alone: entries, table and
bytes of the other files (`K`). `remove_chain` and `create_chain` keep this round
by round: a cluster is loose from the moment it leaves a chain until it is
cleared, and from the moment it is marked until it is linked. That a walk along
a table and such a list are the same is proved once (`ChainIs`).

*The loops.* `Works` is what holds before each round of a loop about a file.
`Holding` says where each of its bytes is: in the buffer if that is for the byte's
sector, and on the disk if it is not or the buffer is unchanged; `Placed` that
the current cluster is the one of the byte before the file pointer. From these each
round of `f_write` adds its bytes at the file pointer and leaves the others, each
round of `f_read` gets the bytes that are held, and each round of `f_lseek`
follows or stretches the chain, until the loop has ended or the volume is full.

`FatFs_proofs` joins the calls. `FilesSound` says that lists exist for which
`Sound` holds: each file is absent, closed or open, with the entry, size and
list that go with that (`FileOk`); the disk has the entry and chain of a file
that was not changed since it was synchronised (`Settled`, `OnDisk`); each file
holds its bytes (`Holds`); and every disk of the last call has, of the files
that the call was not about, what the disk has at its end (`Unmoved`). Each call
has a lemma (`OpenStep` to `GetfreeStep`), which needs of the files that it is not
about only that the call leaves them alone (`Touches`, `CallEnds`). In a crash the
lists are found anew: on a disk that is whole, walking from the entries gives
lists for which `Sound` holds again (`ChainsOf`, `WholeChains`, `CrashStep`).

None of the four properties is inductive. Reading right depends on where the
current cluster is and whether the buffer is newer than the disk; that a
bystander survives depends on chains having no cluster in common; that no entry
dangles on any disk depends on the order of disk writes inside a call; and the
count of free clusters depends on each loop clearing or taking a free one
exactly once.

`FilesInv` says as much as the properties do, and no more: of the bytes nothing
once a file was truncated under its changed buffer (`stale`), and nothing at all
after a crash left a broken structure, as no call is modelled from there.

### Only model-checked

Liveness (`LoopEnds`, `ReturnsIfItFits`, `WaitsOnlyWhenFull`), which is out of
the prover's reach.

## 6. Disagreements between code and documentation

Shown by a run each: the search after a growth (`coroutine.c:82`), a record at the
first block's own address that is accepted (`intel.c:131`), and gaps that stay
open behind the first one (`intel.c:541`).

Met while modelling, and represented in the models without a run of their own:

- `fiberProc` deletes the fiber it runs on (`coroutine.c:108`). According to the
  documentation of Windows this ends the thread, so the first coroutine to
  return would take the program with it and `main.c:75` would not be reached; the
  code is written as if `DeleteFiber` returned. `FuncReturn` and
  `FuncReturnExits` are the two outcomes, `SelfDelete` says which may happen; the
  run `demo_test` has both, and `LoopEnds` says what is left of the end of the
  loop if the thread ends.
- The overlaps that `AddBlock` does not notice are more than the run of
  `OverlapIsRefused` shows, which stops at the first: a record that begins below
  the first block and reaches into it is put before it, and one that is joined
  to the block it continues (`intel.c:118`-`127`) may reach into the next. A
  record that begins inside a later block is refused.
- The filling stops not only at its own filler but at any block that touches the
  next one, with all gaps behind it open (`FillEnds`).
- The table grows by a factor of four, where the comment at `coroutine.c:77`
  has it double: `cap` is doubled, and doubled again behind the reallocation
  (`NewGrow`). The new object goes to the middle of the array, while the old
  capacity is returned as its handle, so the handle does not lead to it. This
  is why the handle properties are stated for the first table.
- `IntelHexFileToBin` makes each name from the last one: from the third section
  on a name carries two addresses (`intel.c:814`; the comment at line 768 has
  one), and the buffer has room for one (`NewFile`, `Overruns`).
- `IntelHexFileMerge` with an empty first file assigns a local pointer
  (`intel.c:591`), and the caller's file stays empty although success is
  returned (`MergeNothing`).
- A second file whose end touches the first one's beginning is refused as
  overlapping (`intel.c:594` compares with `>`), as are files whose blocks
  interleave (`Collide`). A file whose last byte is at 0xFFFFFFFF ends at address
  0, so both comparisons let it through: it is put first and joined to a file
  below it, or to one it overlaps, and the list no longer ascends
  (`MergedAscends`, `EndsAtTop`).
- `IntelHexFileOutput` starts with the topmost segment as the last one written,
  so a file that begins there has no base record (`LacksBase`); a cut at the
  end of a segment can make a record longer than the block or the buffer
  (`intel.c:699`, `OverrunsAtSegmentEnd`).
- `ExecCreateProcess` waits for the process before it reads (`exec.c:74`): more
  output than the pipe holds and neither comes on (`WaitsOnlyWhenFull`).
- `ini_puts` says that it returns 1 if successful, otherwise 0. It returns 1
  also when another program has the file open and neither remove nor rename
  took place, and when a key is to be deleted in a file that cannot be opened
  (`ReturnInVain`, `doubt`); and when the disk is full.
- `ini_puts` takes a file it cannot open for one that does not exist: if the
  program that had it open closes it before the next line, the whole file is
  replaced by one setting (`Create` with the mishap "race"). After a crash
  between remove and rename the next call starts a new file, and the one after
  that overwrites the temporary file that still had the settings (the mishap
  "window").
- The publishing script packs a `.hex` and a `.dat` of different builds whenever
  one of the two conditions of `PackedBuilds` holds alone. `.hex` is not written
  if one of the source files or `.hex` cannot be opened, if one lacks its end
  record, if the terminal's is empty, or if it touches the bootloader from above
  or interleaves with it; the `.dat` is made all the same. `.dat` is not of this
  publication if the terminal's file cannot be opened or the `.bin` not created,
  or the `.bin` or the `.dat` not opened (what was there stays, or an update file
  is made from an earlier `.bin`), or if there is no memory: it is then empty,
  because it is opened for writing before anything is read.
- `f_truncate` frees the clusters behind the file pointer and keeps the buffer,
  even if it was changed and is for a sector of one of them
  (`ff.c:3161`-`3176`). The next `f_sync` or `f_close` writes it there
  (`ff.c:2608`), by when the cluster may belong to another file. The application
  note (`doc/en/appnote.html:224`) has it that files not open in write mode are
  not affected. `ReadsWhatWasWritten` and `BystandersSurvive` exclude this by the
  history variable `stale`.
- A file that is truncated to nothing and not yet synchronised has an entry on
  disk that leads to free clusters, or to another file's once they are used
  again. The application note (`doc/en/appnote.html:216`) names `f_rename` as the
  one critical section in which a cross link can arise;
  `CrossLinksOnlyInCriticalSections` has both.

## 7. What is not modelled, and why

- libb64: a third-party library kept as distributed, used by nothing in the
  repository; a pure coding. Its state between two calls is a position in a group
  of four characters.
- The fields of the update file's header and its two checksums: table look-ups
  over a finished buffer. What the buffer holds is modelled.
- `GitSync.lua`, which runs one git command after the other and keeps nothing.
- `StringInsert`, which no program calls; `Permutations`, whose order is a matter
  of its recursion alone.
- A second program that writes the same INI file: the library has no locking and
  promises nothing for that.
- The formatting of a `.hex` line. That the output file cannot be created is left
  out of `HexOutput`, where nothing is written then, and is in `Publish`, where an
  earlier file stays.
- INI quoting, blank lines, and lines longer than the buffer: layout and
  conversions below the lines.
- Failing allocations, except where the caller goes on with what was done so far:
  `realloc` to no bytes in `AddBlock` (`intel.c:118`), the name buffer of `ToBin`
  (`intel.c:782`) and the two of `GenerateUpdateFile` (`dwip_update.c:79`, `99`) are
  modelled. `AddBlock` otherwise (`intel.c:138`-`147`) and the filling
  (`intel.c:549`), which test for them too, and all others are taken to succeed.
- In `Publish`, a disk that fills up while an open file is written, whose result
  nobody looks at, and source files in segmented mode.
- DES and the hash functions: arithmetic without state. That decryption undoes
  encryption follows from the structure of the cipher; its tables are constants
  to compare with the standard's.
- `ExecWinExec`, which only prints; the leak of `hRead` and of the command
  string, which changes no result.
- The encoding conversion and the window, picture and DLL templates: wrappers
  of Windows functions.
- Of FatFs: subdirectories, attributes and times; disk errors, which are returned
  at once; entries of a FAT12 table that straddle two sectors and the free count
  FAT32 keeps on disk, neither of which a volume of `ff_main.c` has; and what
  `ffconf.h` configures out (long names, locking, string functions, fast seek).
- dlmalloc, libjpeg, jsoncpp, Lua, 7z, svn, the code page tables of FatFs:
  third-party code and data kept as distributed. They are more than nine tenths of
  the repository's lines, which is why the modelled lines are a small share of all.
