------------------------------- MODULE FatFs -------------------------------
(***************************************************************************)
(* The files of src/fatfs/ff.c, as src/fatfs/ffconf.h configures it: no    *)
(* tiny buffers, so each open file has a sector buffer of its own beside   *)
(* the volume's window; one task; no locking, so callers keep the rule of  *)
(* the documentation that an open file is not opened again, renamed or     *)
(* removed.  Every call of the library is one action; a crash can leave    *)
(* the disk as it was at any moment of the last call.                      *)
(***************************************************************************)
EXTENDS FatVolume, TLC

CONSTANTS Names,          \* names of files, all in the root directory
          Data,           \* bytes that can be written
          Blank,          \* the byte of a sector nobody wrote
          Closed, Absent, \* no open file; no file
          SS,             \* bytes of a sector
          Sizes,          \* numbers of bytes read or written in one call
          Offsets,        \* offsets sought
          MaxSize,        \* bound: bytes of a file
          MaxCalls,       \* bound: calls of the library
          CallsAfterCrash \* bound: of these, calls after a crash

ASSUME FilesAssumption ==
    /\ SS \in Nat \ {0} /\ {MaxSize, MaxCalls, CallsAfterCrash} \subseteq Nat
    /\ Sizes \subseteq Nat \ {0} /\ Offsets \subseteq 0 .. MaxSize
    /\ IsFiniteSet(Names) /\ Cardinality(Names) <= Slots /\ Names \cap {End, Dde} = {}
    /\ Blank \notin Data /\ Absent \notin Seq(Data \cup {Blank})

\* An open file, the FIL of ff.h; dsect is -1 while no sector is in the buffer.
Buffers == [0 .. SS-1 -> Data \cup {Blank}]
FilRec == [wr : BOOLEAN, written : BOOLEAN, dirty : BOOLEAN, slot : 1 .. Slots,
           sclust : {0} \cup Cluster, fsize : Nat, fptr : Nat, clust : {0} \cup Cluster,
           dsect : {-1} \cup DataSector, buf : Buffers]
ASSUME ClosedAssumption == Closed \notin FilRec

VARIABLES vol,            \* the volume, see FatVolume
          fil,            \* the open files
          content,        \* history: the bytes each file is to hold
          subject,        \* history: the names the last call was about
          read,           \* history: what the last f_read got, and should have
          stale,          \* history: a buffer was kept for a sector cut off
          crashed,        \* history: "no"; or there was a crash, and it left
                          \* the structure "whole" or "broken"
          calls

vars == <<vol, fil, content, subject, read, stale, crashed, calls>>

\* A call works on s: the volume and the file it is about.
On(v, p) == [v |-> v, p |-> p]
Bytes(d) == [k \in 0 .. SS-1 |-> d]

Init == /\ vol = chk_mounted(f_mkfs([x \in DataSector |-> Bytes(Blank)]))
        /\ fil = [f \in Names |-> Closed]
        /\ content = [f \in Names |-> Absent]
        /\ subject = {} /\ read = << >> /\ stale = FALSE /\ crashed = "no"
        /\ calls = 0

-----------------------------------------------------------------------------
\* The buffer of a file goes to disk.
WriteBuffer(s) ==
    IF ~s.p.dirty THEN s
    ELSE On(DiskWrite(s.v, [s.v.disk EXCEPT !.data[s.p.dsect] = s.p.buf]),
            [s.p EXCEPT !.dirty = FALSE])

\* A sector comes into the buffer.  Bug variant: what was in it is dropped.
LoadBuffer_NoWriteBack(s, x) ==
    IF s.p.dsect = x THEN s
    ELSE [s EXCEPT !.p.buf = s.v.disk.data[x], !.p.dsect = x, !.p.dirty = FALSE]
LoadBuffer(s, x) ==
    IF s.p.dsect = x THEN s
    ELSE LET t == WriteBuffer(s)
         IN  [t EXCEPT !.p.buf = t.v.disk.data[x], !.p.dsect = x]

SectorOfCluster(p) == (p.fptr \div SS) % CSize
CurrentSector(p) == clust2sect(p.clust) + SectorOfCluster(p)

\* The cluster of the file pointer, which is on a sector boundary.  A file
\* without clusters gets its first one, a file that ends here one more.
WriteCluster(s) ==
    LET p == s.p
    IN  CASE SectorOfCluster(p) # 0 -> [v |-> s.v, clst |-> p.clust]
          [] p.fptr = 0 /\ p.sclust # 0 -> [v |-> s.v, clst |-> p.sclust]
          [] p.fptr = 0 /\ p.sclust = 0 -> create_chain(s.v, 0)
          [] OTHER -> create_chain(s.v, p.clust)

\* Whole sectors go to disk past the buffer, which is refilled if it holds one
\* of them.
WriteSectors(s, cc, d) ==
    LET x == CurrentSector(s.p)
        xs == x .. x+cc-1
        w == DiskWrite(s.v, [s.v.disk EXCEPT
                 !.data = [y \in DataSector |-> IF y \in xs THEN Bytes(d) ELSE @[y]]])
    IN  On(w, [s.p EXCEPT !.fptr = @ + cc*SS,
                          !.buf = IF s.p.dsect \in xs THEN Bytes(d) ELSE @])

\* A part of a sector goes to the buffer.
WritePart(s, n, d) ==
    LET at == s.p.fptr % SS
    IN  [s EXCEPT !.p.fptr = @ + n, !.p.dirty = TRUE,
                  !.p.buf = [k \in 0 .. SS-1 |-> IF k \in at .. at+n-1 THEN d ELSE @[k]]]

\* The file goes on in the cluster that was found, its first one if it had none;
\* the sector in the buffer has been left.
Entered(s, a) ==
    LET first == IF s.p.fptr = 0 /\ s.p.sclust = 0 THEN a.clst ELSE s.p.sclust
    IN  WriteBuffer(On(a.v, [s.p EXCEPT !.clust = a.clst, !.sclust = first]))

\* The buffer is now for the sector x, and holds it if the file reaches there.
Refilled(t, x) ==
    [t EXCEPT !.p.dsect = x,
              !.p.buf = IF t.p.dsect # x /\ t.p.fptr < t.p.fsize
                          THEN t.v.disk.data[x] ELSE @]

\* The loop of f_write, `left' bytes to go; it stops early when the volume is
\* full.
WriteInto(t, n, d) ==
    LET cc == Min({n \div SS, CSize - SectorOfCluster(t.p)})
        part == Min({n, SS})
    IN  IF cc > 0 THEN [s |-> WriteSectors(t, cc, d), left |-> n - cc*SS]
        ELSE [s |-> WritePart(Refilled(t, CurrentSector(t.p)), part, d), left |-> n - part]
WriteFrom(s, a, n, d) == IF a.clst = 0 THEN [s |-> On(a.v, s.p), left |-> 0]
                                       ELSE WriteInto(Entered(s, a), n, d)
WriteOn(r, d) ==
    LET at == r.s.p.fptr % SS
        part == Min({r.left, SS - at})
    IN  CASE r.left = 0 -> r
          [] r.left > 0 /\ at # 0 -> [s |-> WritePart(r.s, part, d), left |-> r.left - part]
          [] OTHER -> WriteFrom(r.s, WriteCluster(r.s), r.left, d)
WriteBytes(s, n, d) == Loop(LAMBDA r, k : WriteOn(r, d), [s |-> s, left |-> n], n).s

\* The loop of f_read, `left' bytes to go after those that were got: whole
\* sectors past the buffer, or a part of the one in the buffer.
ReadCluster(s) ==
    LET here == s.p.fptr % SS # 0 \/ SectorOfCluster(s.p) # 0
        v == IF here \/ s.p.fptr = 0 THEN s.v ELSE seek_fat(s.v, s.p.clust)
    IN  On(v, [s.p EXCEPT !.clust = CASE here -> @
                                      [] ~here /\ s.p.fptr = 0 -> s.p.sclust
                                      [] OTHER -> v.fat[@]])
ReadSectors(t, cc) ==
    LET x == CurrentSector(t.p)
        sector(y) == IF t.p.dirty /\ t.p.dsect = y THEN t.p.buf ELSE t.v.disk.data[y]
    IN  [k \in 1 .. cc*SS |-> sector(x + ((k-1) \div SS))[(k-1) % SS]]
ReadOn(r) ==
    LET at == r.s.p.fptr % SS
        part == Min({r.left, SS - at})
        t == ReadCluster(r.s)
        cc == IF at # 0 THEN 0 ELSE Min({r.left \div SS, CSize - SectorOfCluster(t.p)})
        u == IF at = 0 THEN LoadBuffer(t, CurrentSector(t.p)) ELSE t
    IN  CASE r.left = 0 -> r
          [] r.left > 0 /\ cc > 0 ->
                 [s |-> [t EXCEPT !.p.fptr = @ + cc*SS], left |-> r.left - cc*SS,
                  got |-> r.got \o ReadSectors(t, cc)]
          [] OTHER ->
                 [s |-> [u EXCEPT !.p.fptr = @ + part], left |-> r.left - part,
                  got |-> r.got \o [k \in 1 .. part |-> u.p.buf[at + k - 1]]]
ReadBytes(s, n) == Loop(LAMBDA r, k : ReadOn(r), [s |-> s, left |-> n, got |-> << >>], n)

\* f_lseek: from the cluster in which the file pointer is, `ofs' bytes to go.
\* In write mode the file is stretched as far as there are clusters.
bcs == CSize * SS
NextCluster(s) == IF s.p.wr THEN create_chain(s.v, s.p.clust)
                  ELSE LET v == seek_fat(s.v, s.p.clust)
                       IN  [v |-> v, clst |-> v.fat[s.p.clust]]
FollowInto(r, a) ==
    IF a.clst = 0 THEN [s |-> On(a.v, r.s.p), ofs |-> bcs]
    ELSE [s |-> On(a.v, [r.s.p EXCEPT !.clust = a.clst, !.fptr = @ + bcs]), ofs |-> r.ofs - bcs]
FollowOn(r) == IF r.ofs <= bcs THEN r ELSE FollowInto(r, NextCluster(r.s))
FollowClusters(s, ofs) == Loop(LAMBDA r, k : FollowOn(r), [s |-> s, ofs |-> ofs], ofs)

\* Where it ends inside a sector, that one is loaded.
Arrived(r) ==
    LET t == [r.s EXCEPT !.p.fptr = @ + r.ofs]
    IN  IF r.ofs % SS = 0 THEN t
        ELSE LoadBuffer(t, clust2sect(t.p.clust) + (r.ofs \div SS))
SeekOn(s, ofs) == Arrived(FollowClusters(s, ofs))

\* From the first cluster, which a file without one gets if there is any.
FirstCluster(s) == IF s.p.sclust # 0 THEN [v |-> s.v, clst |-> s.p.sclust]
                                     ELSE create_chain(s.v, 0)
SeekFromStart(s, a, ofs) ==
    LET t == On(a.v, [s.p EXCEPT !.fptr = 0, !.clust = a.clst, !.sclust = a.clst])
    IN  IF a.clst = 0 THEN t ELSE SeekOn(t, ofs)

Seek(s, ofs) ==
    LET p == s.p
        here == p.fptr > 0 /\ (ofs-1) \div bcs >= (p.fptr-1) \div bcs
        start == bcs * ((p.fptr-1) \div bcs)
    IN  CASE ofs = 0 -> [s EXCEPT !.p.fptr = 0]
          [] ofs > 0 /\ here -> SeekOn([s EXCEPT !.p.fptr = start], ofs - start)
          [] OTHER -> SeekFromStart(s, FirstCluster(s), ofs)

\* f_sync: the buffer, then the entry, then the window.  Bug variant: the entry
\* stays in the window.
SyncFile_NoFlush(s) ==
    LET t == WriteBuffer(s)
        w == move_window(t.v, DirSector(t.p.slot))
        e == [w.dir[t.p.slot] EXCEPT !.sclust = t.p.sclust, !.size = t.p.fsize]
    IN  IF ~s.p.written THEN s
        ELSE On(put_entry(w, t.p.slot, e), [t.p EXCEPT !.written = FALSE])
SyncFile(s) ==
    LET t == WriteBuffer(s)
        w == move_window(t.v, DirSector(t.p.slot))
        e == [w.dir[t.p.slot] EXCEPT !.sclust = t.p.sclust, !.size = t.p.fsize]
    IN  IF ~s.p.written THEN s
        ELSE On(sync([put_entry(w, t.p.slot, e) EXCEPT !.cut = @ \ {e.name}]),
                [t.p EXCEPT !.written = FALSE])

-----------------------------------------------------------------------------
\* After a crash the volume is used again only if its structure is whole: no
\* two entries share a cluster, no entry has a free one or too few.
CrossLinked(d) == \E i, j \in Used(d.dir) : i # j /\ Owned(d, i) \cap Owned(d, j) # {}
Dangling(d, i) == \E c \in Owned(d, i) : d.fat[c] = 0
Short(d, i) == Cardinality(Owned(d, i)) * CSize * SS < d.dir[i].size
Whole(d) == ~CrossLinked(d) /\ \A i \in Used(d.dir) : ~Dangling(d, i) /\ ~Short(d, i)

Call(fs) == /\ calls < MaxCalls /\ crashed # "broken"
            /\ calls' = calls + 1 /\ subject' = fs

\* A call about the open file f ends with s.
Leaves(f, s) == vol' = s.v /\ fil' = [fil EXCEPT ![f] = s.p]
IsOpen(f) == fil[f] # Closed
Writing(f) == IsOpen(f) /\ fil[f].wr
Start(f) == On(Called(vol), fil[f])

\* What a file is to hold once the bytes from `from' to `to' were set to d.
Overwrite(bytes, from, to, d) ==
    [k \in 1 .. Max({Len(bytes), to}) |-> IF k \in from+1 .. to THEN d ELSE bytes[k]]
\* The bytes of a file as the disk d has them.
Held(d, i) ==
    LET cs == Chain(d.fat, d.dir[i].sclust)
    IN  [k \in 1 .. d.dir[i].size |->
            LET x == (k-1) \div SS
            IN  d.data[clust2sect(cs[1 + (x \div CSize)]) + (x % CSize)][(k-1) % SS]]
\* Bytes that were never written may be anything.
Agrees(bytes, wanted) ==
    /\ Len(bytes) = Len(wanted)
    /\ \A k \in DOMAIN wanted : wanted[k] # Blank => bytes[k] = wanted[k]

\* f_open with FA_READ, FA_OPEN_ALWAYS or FA_CREATE_ALWAYS; a new file, and one
\* that is overwritten, has its entry emptied before its clusters are freed.
f_open(f, mode) ==
    /\ ~IsOpen(f) /\ Call({f})
    /\ LET v == dir_find(Called(vol), f)
           new == Slot(v, f) = 0
           w == IF new THEN dir_register(v, f) ELSE v
           i == Slot(w, f)
           cl == w.dir[i].sclust
           emptied == put_entry(w, i, Entry(f, 0, 0))
           freed == [remove_chain(emptied, cl) EXCEPT !.last = cl - 1]
           overwrite == new \/ mode = "create"
           u == CASE ~overwrite -> w
                  [] overwrite /\ cl = 0 -> emptied
                  [] OTHER -> move_window(freed, DirSector(i))
           p == [wr |-> mode # "read", written |-> overwrite, dirty |-> FALSE,
                 slot |-> i, sclust |-> u.dir[i].sclust, fsize |-> u.dir[i].size,
                 fptr |-> 0, clust |-> 0, dsect |-> -1, buf |-> Bytes(Blank)]
       IN  IF new /\ mode = "read"
             THEN vol' = v /\ UNCHANGED <<fil, content>>
             ELSE /\ vol' = u /\ fil' = [fil EXCEPT ![f] = p]
                  /\ content' = IF overwrite THEN [content EXCEPT ![f] = << >>] ELSE content
    /\ read' = << >> /\ UNCHANGED <<stale, crashed>>

f_read(f, n) ==
    /\ IsOpen(f) /\ Call({f})
    /\ LET p == fil[f]
           most == Min({n, p.fsize - p.fptr})
           r == ReadBytes(Start(f), most)
       IN  /\ Leaves(f, r.s)
           /\ read' = [got |-> r.got, wanted |-> SubSeq(content[f], p.fptr+1, p.fptr+most)]
    /\ UNCHANGED <<content, stale, crashed>>

Wrote(f, d, s) ==
    /\ Leaves(f, [s EXCEPT !.p.fsize = Max({@, s.p.fptr}), !.p.written = TRUE])
    /\ content' = [content EXCEPT ![f] = Overwrite(@, fil[f].fptr, s.p.fptr, d)]

f_write(f, n, d) ==
    /\ Writing(f) /\ fil[f].fptr + n <= MaxSize /\ Call({f})
    /\ Wrote(f, d, WriteBytes(Start(f), n, d))
    /\ read' = << >> /\ UNCHANGED <<stale, crashed>>

\* A file opened for reading is not sought beyond its end.
Sought(f, s) ==
    /\ Leaves(f, [s EXCEPT !.p.fsize = Max({@, s.p.fptr}),
                           !.p.written = @ \/ s.p.fptr > s.p.fsize])
    /\ content' = [content EXCEPT
                     ![f] = Overwrite(@, Len(@), Max({s.p.fptr, s.p.fsize}), Blank)]

f_lseek(f, ofs) ==
    /\ IsOpen(f) /\ Call({f})
    /\ Sought(f, Seek(Start(f), IF fil[f].wr THEN ofs ELSE Min({ofs, fil[f].fsize})))
    /\ read' = << >> /\ UNCHANGED <<stale, crashed>>

\* f_truncate: the clusters behind the file pointer are freed at once, the
\* entry waits for f_sync, and the buffer is kept whatever it is for.
Behind(v, p) == IF p.fptr = 0 THEN p.sclust ELSE v.fat[p.clust]
CutAt(v, p, f) == IF p.fptr = 0 THEN [v EXCEPT !.cut = @ \cup {f}] ELSE seek_fat(v, p.clust)
CutOff(v, p) ==
    LET rest == Behind(v, p)
    IN  CASE p.fptr = 0 -> On(remove_chain(v, rest), [p EXCEPT !.sclust = 0])
          [] p.fptr # 0 /\ rest = Eoc -> On(v, p)
          [] OTHER -> On(remove_chain(put_fat(v, p.clust, Eoc), rest), p)
SectorsOf(chain) == {clust2sect(c) + k : c \in ToSet(chain), k \in 0 .. CSize-1}

f_truncate(f) ==
    /\ Writing(f) /\ fil[f].fptr < fil[f].fsize /\ Call({f})
    /\ LET p == [fil[f] EXCEPT !.fsize = fil[f].fptr, !.written = TRUE]
           v == CutAt(Called(vol), p, f)
       IN  /\ Leaves(f, CutOff(v, p))
           /\ stale' = (stale \/ (p.dirty /\ p.dsect \in SectorsOf(Chain(v.fat, Behind(v, p)))))
    /\ content' = [content EXCEPT ![f] = SubSeq(@, 1, fil[f].fptr)]
    /\ read' = << >> /\ UNCHANGED crashed

f_sync(f) == /\ IsOpen(f) /\ Call({f}) /\ Leaves(f, SyncFile(Start(f)))
             /\ read' = << >> /\ UNCHANGED <<content, stale, crashed>>

f_close(f) == /\ IsOpen(f) /\ Call({f})
              /\ vol' = SyncFile(Start(f)).v /\ fil' = [fil EXCEPT ![f] = Closed]
              /\ read' = << >> /\ UNCHANGED <<content, stale, crashed>>

\* f_unlink: the entry goes first, then the clusters.  Bug variant: the clusters
\* first.
Unlinked_ChainFirst(v, i) == dir_remove(remove_chain(v, v.dir[i].sclust), i)
Unlinked(v, i) == remove_chain(dir_remove(v, i), v.dir[i].sclust)

f_unlink(f) ==
    /\ ~IsOpen(f) /\ content[f] # Absent /\ Call({f})
    /\ LET v == dir_find(Called(vol), f)
       IN  vol' = sync(Unlinked(v, Slot(v, f)))
    /\ content' = [content EXCEPT ![f] = Absent]
    /\ read' = << >> /\ UNCHANGED <<fil, stale, crashed>>

\* f_rename: the new entry is made and filled in, then the old one removed.
f_rename(f, g) ==
    /\ ~IsOpen(f) /\ content[f] # Absent /\ content[g] = Absent /\ Call({f, g})
    /\ LET v == dir_find(dir_find(Called(vol), f), g)
           i == Slot(v, f)
           w == dir_register(v, g)
           j == Slot(w, g)
           u == [put_entry(w, j, [v.dir[i] EXCEPT !.name = g]) EXCEPT !.moving = TRUE]
       IN  vol' = sync([dir_remove(u, i) EXCEPT !.moving = FALSE])
    /\ content' = [content EXCEPT ![g] = content[f], ![f] = Absent]
    /\ read' = << >> /\ UNCHANGED <<fil, stale, crashed>>

\* f_getfree: counts by reading every FAT sector unless the count is known.
f_getfree ==
    /\ Call({})
    /\ LET v == Called(vol)
           seen == Visited(v, [k \in 1 .. Clusters |-> FatSector(k+1)])
       IN  vol' = IF v.free # Unknown THEN v
                  ELSE [seen EXCEPT !.free = Cardinality({c \in Cluster : v.fat[c] = 0})]
    /\ read' = << >> /\ UNCHANGED <<fil, content, stale, crashed>>

\* The program ends at some moment of the last call and the volume is mounted
\* again: a file that was being written is from now on what the disk has.
Crash ==
    /\ crashed = "no"
    /\ \E m \in vol.images :
          /\ vol' = chk_mounted(m.disk)
          /\ crashed' = IF Whole(m.disk) THEN "whole" ELSE "broken"
          /\ content' = [f \in Names |->
                LET i == Slot(m.disk, f)
                IN  IF i = 0 \/ ~Whole(m.disk) THEN Absent ELSE Held(m.disk, i)]
    /\ fil' = [f \in Names |-> Closed] /\ subject' = {} /\ read' = << >>
    /\ calls' = Max({calls, MaxCalls - CallsAfterCrash}) /\ UNCHANGED stale

Next == \/ \E f \in Names :
             \/ \E mode \in {"read", "always", "create"} : f_open(f, mode)
             \/ \E n \in Sizes : f_read(f, n) \/ \E d \in Data : f_write(f, n, d)
             \/ \E ofs \in Offsets : f_lseek(f, ofs)
             \/ f_truncate(f) \/ f_sync(f) \/ f_close(f) \/ f_unlink(f)
             \/ \E g \in Names : f_rename(f, g)
        \/ f_getfree \/ Crash

Spec == Init /\ [][Next]_vars
-----------------------------------------------------------------------------
Symmetry == Permutations(Names) \cup Permutations(Data)

\* A read returns what was written, however it was cut into calls and went
\* through buffers; unless a file was cut short while its buffer was for a
\* sector that this gave away.
ReadsWhatWasWritten == read # << >> /\ ~stale => Agrees(read.got, read.wanted)

\* "Each case does not affect the files that not in write mode open"
\* (appnote.html, Critical Section): at every moment of a call about other
\* files, and at its end about these too, the disk holds each file, entry,
\* chain and bytes; except one that was changed since it was last
\* synchronised.
HoldsOn(d, f) == LET i == Slot(d, f)
                 IN  i # 0 /\ ~Dangling(d, i) /\ ~Short(d, i) /\ Agrees(Held(d, i), content[f])
BystandersSurvive ==
    ~stale /\ crashed # "broken" =>
        \A f \in Names : content[f] # Absent /\ (IsOpen(f) => ~fil[f].written) =>
            /\ HoldsOn(vol.disk, f)
            /\ \A m \in vol.images : f \notin subject => HoldsOn(m.disk, f)

\* "An interruption in the red section can cause a cross link": red is f_rename
\* alone.  A disk with two entries on one cluster, or one on a free cluster, is
\* there only while a file is being renamed, or after one was truncated to
\* nothing and not yet synchronised.
CrossLinksOnlyInCriticalSections ==
    crashed # "broken" =>
        \A m \in vol.images :
            CrossLinked(m.disk) \/ (\E i \in Used(m.disk.dir) : Dangling(m.disk, i))
                => m.moving \/ m.cut # {}

\* The count of free clusters follows the table; without a crash every taken
\* cluster is in the chain of a file, and of one only.
Claimed(f) == ToSet(Chain(vol.fat, IF IsOpen(f) THEN fil[f].sclust
                                   ELSE vol.dir[Slot(vol, f)].sclust))
Accounting ==
    crashed # "broken" =>
    /\ vol.free # Unknown => vol.free = Cardinality({c \in Cluster : vol.fat[c] = 0})
    /\ LET there == {f \in Names : content[f] # Absent}
           claimed == UNION {Claimed(f) : f \in there}
       IN  /\ claimed \subseteq {c \in Cluster : vol.fat[c] # 0}
           /\ crashed = "no" => claimed = {c \in Cluster : vol.fat[c] # 0}
           /\ \A f, g \in there : f # g => Claimed(f) \cap Claimed(g) = {}
=============================================================================
