----------------------------- MODULE FatWindow -----------------------------
(***************************************************************************)
(* The volume under src/fatfs/ff.c: the FAT and the fixed root directory   *)
(* of a FAT12/16 volume with one FAT (N_FATS), and the one-sector window   *)
(* through which both are read and changed.  A changed window is written   *)
(* back when it moves on, so the disk lags behind what the program sees.   *)
(*                                                                         *)
(* A volume v has                                                          *)
(*   disk     what would survive a crash: fat, dir and the data sectors    *)
(*   fat, dir the same as the program sees them: the disk's, with the      *)
(*            window's sector in place of the disk's                       *)
(*   win, wflag   the sector in the window, whether it was changed         *)
(*   last, free   last_clust and free_clust                                *)
(*   cut, moving  history: the files truncated to nothing whose entry does *)
(*            not say so yet; whether a rename is under way                *)
(*   images   history: what the disk was, one moment after the other,      *)
(*            during the last call                                         *)
(***************************************************************************)
EXTENDS Integers

CONSTANTS Clusters,        \* clusters of the data area, numbered from 2
          FatPerSector,    \* FAT entries in a sector
          Slots,           \* entries of the root directory
          SlotsPerSector,
          CSize            \* sectors of a cluster

ASSUME VolumeAssumption ==
    {Clusters, FatPerSector, Slots, SlotsPerSector, CSize} \subseteq Nat \ {0}

Cluster == 2 .. Clusters+1
DataSector == 0 .. Clusters*CSize - 1
Eoc == -1                   \* the FAT entry of a chain's last cluster
Unknown == -1               \* free_clust before it is counted
End == "end"                \* the name of an entry that was never used
Dde == "deleted"            \* the name of an entry that was deleted
Entry(name, sclust, size) == [name |-> name, sclust |-> sclust, size |-> size]

FatSector(c) == <<"fat", c \div FatPerSector>>
DirSector(i) == <<"dir", (i-1) \div SlotsPerSector>>
clust2sect(c) == (c-2) * CSize

Moment(v, disk) == [disk |-> disk, cut |-> v.cut, moving |-> v.moving]
DiskWrite(v, disk) == [v EXCEPT !.disk = disk, !.images = @ \cup {Moment(v, disk)}]

-----------------------------------------------------------------------------
\* sync, and the first half of move_window: the changed window goes to disk.
sync(v) ==
    IF ~v.wflag THEN v
    ELSE LET disk == [v.disk EXCEPT
                !.fat = [c \in Cluster |->
                            IF FatSector(c) = v.win THEN v.fat[c] ELSE @[c]],
                !.dir = [i \in 1 .. Slots |->
                            IF DirSector(i) = v.win THEN v.dir[i] ELSE @[i]]]
         IN  [DiskWrite(v, disk) EXCEPT !.wflag = FALSE]

\* move_window: another sector is read, so a change that was not written is lost.
move_window(v, x) ==
    IF v.win = x THEN v
    ELSE LET w == sync(v)
         IN  [w EXCEPT !.win = x, !.fat = w.disk.fat, !.dir = w.disk.dir]

\* get_fat is to look at fat[c] after this.
seek_fat(v, c) == move_window(v, FatSector(c))
put_fat(v, c, x) == [seek_fat(v, c) EXCEPT !.fat[c] = x, !.wflag = TRUE]

\* A new cluster is marked as the last one before c (0: nothing) is linked to it.
Linked(v, c, new) ==
    LET m == put_fat(v, new, Eoc)
    IN  IF c = 0 THEN m ELSE put_fat(m, c, new)

\* An entry is changed in the window.
put_entry(v, i, e) ==
    [move_window(v, DirSector(i)) EXCEPT !.dir[i] = e, !.wflag = TRUE]
dir_remove(v, i) ==
    LET w == move_window(v, DirSector(i))
    IN  put_entry(w, i, [w.dir[i] EXCEPT !.name = Dde])

\* A call begins.
Called(v) == [v EXCEPT !.images = {Moment(v, v.disk)}]
=============================================================================
