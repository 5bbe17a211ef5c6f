----------------------------- MODULE FatVolume -----------------------------
(***************************************************************************)
(* The chains, the free clusters and the directory of a volume (see module *)
(* FatWindow), as src/fatfs/ff.c finds and changes them.                   *)
(***************************************************************************)
EXTENDS FatWindow, SequencesExt

\* A loop of n rounds, the k-th of which is Round(_, k).
Loop(Round(_, _), x, n) ==
    LET after[k \in 0 .. n] == IF k = 0 THEN x ELSE Round(after[k-1], k)
    IN  after[n]

\* The clusters from c on, up to the end or to a cluster that is free.
Chain(fat, c) ==
    LET at(k) == Loop(LAMBDA x, j : IF x \in Cluster THEN fat[x] ELSE x, c, k)
        len == Min({k \in 0 .. Clusters : at(k) \notin Cluster})
    IN  [k \in 1 .. len |-> at(k-1)]

Counted(v, n) == [v EXCEPT !.free = IF @ = Unknown THEN @ ELSE @ + n]

\* remove_chain: each link is read and then cleared, from the first one on.  A
\* chain that begins with a free cluster is left alone.  Bug variant: the first
\* cluster is not freed.
Freed(r) ==
    IF r.clst \notin Cluster THEN r
    ELSE LET w == seek_fat(r.v, r.clst)
             next == w.fat[r.clst]
         IN  IF next = 0 THEN [v |-> w, clst |-> 0]
             ELSE [v |-> Counted(put_fat(w, r.clst, 0), 1), clst |-> next]
remove_chain_Rest(v, c) == Loop(LAMBDA r, k : Freed(r),
                                [v |-> v, clst |-> IF c \in Cluster THEN v.fat[c] ELSE c], Clusters).v
remove_chain(v, c) == Loop(LAMBDA r, k : Freed(r), [v |-> v, clst |-> c], Clusters).v

\* The sectors are read one after the other.
Visited(v, xs) == Loop(LAMBDA w, k : move_window(w, xs[k]), v, Len(xs))

\* The clusters create_chain probes: from behind `from' around to it.
Probes(from) == [k \in 1 .. Clusters |-> 2 + ((from - 2 + k) % Clusters)]

\* create_chain: the cluster after c, a new one (0: none is free) if c is the
\* last or 0.
create_chain(v, c) ==
    LET w == IF c = 0 THEN v ELSE seek_fat(v, c)
        hint == IF v.last \in Cluster THEN v.last ELSE 1
        probes == Probes(IF c = 0 THEN hint ELSE c)
        k == SelectInSeq(probes, LAMBDA x : v.fat[x] = 0)
        seen == IF k = 0 THEN probes ELSE SubSeq(probes, 1, k)
        found == Visited(w, [j \in DOMAIN seen |-> FatSector(seen[j])])
    IN  IF c # 0 /\ w.fat[c] # Eoc THEN [v |-> w, clst |-> w.fat[c]]
        ELSE IF k = 0 THEN [v |-> found, clst |-> 0]
        ELSE [v |-> Counted([Linked(found, c, probes[k]) EXCEPT !.last = probes[k]], -1),
              clst |-> probes[k]]

-----------------------------------------------------------------------------
\* dir_find: the entries are read up to the one of the name or one that was
\* never used; the index is 0 if there is none of that name.
Slot(v, name) == SelectInSeq(v.dir, LAMBDA e : e.name = name)
dir_find(v, name) ==
    LET stop == SelectInSeq(v.dir, LAMBDA e : e.name \in {name, End})
        seen == 1 .. (IF stop = 0 THEN Slots ELSE stop)
    IN  Visited(v, [i \in seen |-> DirSector(i)])

\* dir_register: the name goes into the first blank entry (there is one), with
\* no cluster and no size.
dir_register(v, name) ==
    LET blank == SelectInSeq(v.dir, LAMBDA e : e.name \in {End, Dde})
        w == Visited(v, [i \in 1 .. blank |-> DirSector(i)])
    IN  [w EXCEPT !.dir[blank] = Entry(name, 0, 0), !.wflag = TRUE]

\* f_mkfs: the disk of a new volume; the data area is as it was.
f_mkfs(data) == [fat  |-> [c \in Cluster |-> 0],
                 dir  |-> [i \in 1 .. Slots |-> Entry(End, 0, 0)],
                 data |-> data]

\* chk_mounted, the first time: nothing is in the window, the free clusters are
\* not counted and there is no hint.
chk_mounted(disk) ==
    LET fresh == [disk |-> disk, fat |-> disk.fat, dir |-> disk.dir,
                  win |-> << >>, wflag |-> FALSE, last |-> 0, free |-> Unknown,
                  cut |-> {}, moving |-> FALSE, images |-> {}]
    IN  [fresh EXCEPT !.images = {Moment(fresh, disk)}]

\* The entries in use, and the clusters of one.
Used(dir) == {i \in DOMAIN dir : dir[i].name \notin {End, Dde}}
Owned(d, i) == ToSet(Chain(d.fat, d.dir[i].sclust))
=============================================================================
