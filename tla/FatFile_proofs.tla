--------------------------- MODULE FatFile_proofs ---------------------------
(***************************************************************************)
(* Proofs about a volume and one open file, for volumes, sectors and       *)
(* clusters of any size: the window loses no change and what a crash finds *)
(* on the disk is what the program saw at some moment; the chains of the   *)
(* files stay apart and are on the disk when they have to be; the loops of *)
(* f_write, f_read and f_lseek, turn by turn, do to the bytes of a file    *)
(* what they are to do.                                                    *)
(***************************************************************************)
EXTENDS FatFs, SequenceTheorems, FiniteSetTheorems, WellFoundedInduction, TLAPS

\* A volume whose entries have names of N and whose data sectors are in B.
Links == {0, Eoc} \cup Cluster
Entries(N) == [name : N, sclust : {0} \cup Cluster, size : Nat]
Fats == [Cluster -> Links]
Dirs(N) == [1 .. Slots -> Entries(N)]
Disks(N, B) == [fat : Fats, dir : Dirs(N), data : B]
Moments(N, B) == [disk : Disks(N, B), cut : SUBSET N, moving : BOOLEAN]
Sectors == {<< >>} \cup {FatSector(c) : c \in Cluster} \cup {DirSector(i) : i \in 1 .. Slots}
Volumes(N, B) == [disk : Disks(N, B), fat : Fats, dir : Dirs(N),
                  win : Sectors, wflag : BOOLEAN, last : Int, free : Int,
                  cut : SUBSET N, moving : BOOLEAN, images : SUBSET Moments(N, B)]

\* The program and the disk disagree only about a changed window's sector.
Coherent(v) ==
    /\ \A c \in Cluster : v.fat[c] # v.disk.fat[c] => v.wflag /\ v.win = FatSector(c)
    /\ \A i \in 1 .. Slots : v.dir[i] # v.disk.dir[i] => v.wflag /\ v.win = DirSector(i)

\* The disk of this moment has the tables the program sees in v.
Shows(m, v) == m.disk.fat = v.fat /\ m.disk.dir = v.dir

\* w is v after the program may have moved the window: it sees the same, and
\* each disk that was written meanwhile is what it sees.
Same(v, w) == /\ w.fat = v.fat /\ w.dir = v.dir
              /\ \A m \in w.images : m \in v.images \/ Shows(m, v)

-----------------------------------------------------------------------------
LEMMA SyncKeeps ==
    ASSUME NEW N, NEW B, NEW v \in Volumes(N, B), Coherent(v)
    PROVE  /\ sync(v) \in Volumes(N, B) /\ Coherent(sync(v)) /\ Same(v, sync(v))
           /\ sync(v).disk.fat = v.fat /\ sync(v).disk.dir = v.dir
           /\ sync(v).win = v.win /\ ~sync(v).wflag
<1>1. CASE ~v.wflag
  <2>1. sync(v) = v
    BY <1>1 DEF sync
  <2>2. v.fat \in Fats /\ v.disk.fat \in Fats /\ v.dir \in Dirs(N) /\ v.disk.dir \in Dirs(N)
    BY DEF Volumes, Disks
  <2>3. v.disk.fat = v.fat
    BY <1>1, <2>2 DEF Coherent, Fats
  <2>4. v.disk.dir = v.dir
    <3> DEFINE E == Entries(N)
    <3>1. v.disk.dir \in [1 .. Slots -> E] /\ v.dir \in [1 .. Slots -> E]
      BY <2>2 DEF Dirs
    <3>2. \A i \in 1 .. Slots : v.disk.dir[i] = v.dir[i]
      BY <1>1 DEF Coherent
    <3> HIDE DEF E
    <3>3. v.disk.dir = [i \in 1 .. Slots |-> v.disk.dir[i]]
      BY <3>1
    <3>4. v.dir = [i \in 1 .. Slots |-> v.dir[i]]
      BY <3>1
    <3>5. [i \in 1 .. Slots |-> v.disk.dir[i]] = [i \in 1 .. Slots |-> v.dir[i]]
      BY <3>2, Zenon
    <3> QED BY <3>3, <3>4, <3>5, Zenon
  <2> QED BY <1>1, <2>1, <2>3, <2>4 DEF Same
<1>2. CASE v.wflag
  <2> DEFINE f == [c \in Cluster |-> IF FatSector(c) = v.win THEN v.fat[c] ELSE v.disk.fat[c]]
             d == [i \in 1 .. Slots |-> IF DirSector(i) = v.win THEN v.dir[i] ELSE v.disk.dir[i]]
             disk == [v.disk EXCEPT !.fat = f, !.dir = d]
  <2>1. v.fat \in Fats /\ v.disk \in Disks(N, B) /\ v.dir \in Dirs(N)
        /\ v.disk.fat \in Fats /\ v.disk.dir \in Dirs(N)
    BY DEF Volumes, Disks
  <2>2. f = v.fat
    BY <2>1 DEF Coherent, Fats
  <2>3. d = v.dir
    BY <2>1 DEF Coherent, Dirs
  <2> HIDE DEF f, d
  <2>4. disk \in Disks(N, B) /\ disk.fat = v.fat /\ disk.dir = v.dir
    BY <2>1, <2>2, <2>3 DEF Disks
  <2>5. sync(v) = [DiskWrite(v, disk) EXCEPT !.wflag = FALSE]
    BY <1>2, Zenon DEF sync, f, d
  <2> HIDE DEF disk
  <2>6. sync(v) = [v EXCEPT !.disk = disk, !.images = @ \cup {Moment(v, disk)}, !.wflag = FALSE]
    BY <2>5 DEF DiskWrite
  <2>7. Moment(v, disk) \in Moments(N, B) /\ Moment(v, disk).disk = disk
    BY <2>4 DEF Moment, Moments, Volumes
  <2>8. sync(v) \in Volumes(N, B)
    BY <2>4, <2>6, <2>7, ZenonT(60) DEF Volumes
  <2>9. /\ sync(v).disk = disk /\ sync(v).fat = v.fat /\ sync(v).dir = v.dir
        /\ sync(v).win = v.win /\ sync(v).wflag = FALSE
        /\ sync(v).images = v.images \cup {Moment(v, disk)}
    BY <2>6 DEF Volumes
  <2> QED BY <2>4, <2>7, <2>8, <2>9 DEF Coherent, Same, Shows
<1> QED BY <1>1, <1>2 DEF Volumes

\* Moving the window (ff.c:719-751) changes nothing the program sees: what it
\* changed is written before another sector is read.
THEOREM WindowMoves ==
    ASSUME NEW N, NEW B, NEW v \in Volumes(N, B), Coherent(v), NEW x \in Sectors
    PROVE  /\ move_window(v, x) \in Volumes(N, B) /\ Coherent(move_window(v, x))
           /\ move_window(v, x).win = x
           /\ Same(v, move_window(v, x))
<1> DEFINE w == move_window(v, x)
<1>1. CASE v.win = x
  BY <1>1 DEF move_window, Same
<1>2. CASE v.win # x
  <2> DEFINE s == sync(v)
  <2>1. /\ s \in Volumes(N, B) /\ Same(v, s)
        /\ s.disk.fat = v.fat /\ s.disk.dir = v.dir /\ ~s.wflag
    BY SyncKeeps
  <2>2. w = [s EXCEPT !.win = x, !.fat = s.disk.fat, !.dir = s.disk.dir]
    BY <1>2, Zenon DEF move_window
  <2> HIDE DEF s, w
  <2>3. s.disk \in Disks(N, B) /\ s.disk.fat \in Fats /\ s.disk.dir \in Dirs(N)
    BY <2>1 DEF Volumes, Disks
  <2>4. /\ w \in Volumes(N, B) /\ w.win = x /\ w.fat = v.fat /\ w.dir = v.dir
        /\ w.disk = s.disk /\ w.images = s.images
    BY <2>1, <2>2, <2>3 DEF Volumes
  <2> QED BY <2>1, <2>4 DEF Coherent, Same, w
<1> QED BY <1>1, <1>2

\* put_fat (ff.c:862-914) changes the one entry it is about.
THEOREM FatPut ==
    ASSUME NEW N, NEW B, NEW v \in Volumes(N, B), Coherent(v), NEW c \in Cluster, NEW x \in Links
    PROVE  /\ put_fat(v, c, x) \in Volumes(N, B) /\ Coherent(put_fat(v, c, x))
           /\ put_fat(v, c, x).fat = [v.fat EXCEPT ![c] = x]
           /\ put_fat(v, c, x).dir = v.dir
           /\ \A m \in put_fat(v, c, x).images : m \in v.images \/ Shows(m, v)
<1> DEFINE w == move_window(v, FatSector(c))
           u == put_fat(v, c, x)
<1>1. FatSector(c) \in Sectors
  BY DEF Sectors
<1>2. w \in Volumes(N, B) /\ Coherent(w) /\ w.win = FatSector(c) /\ Same(v, w)
  BY <1>1, WindowMoves
<1>3. u = [w EXCEPT !.fat[c] = x, !.wflag = TRUE]
  BY DEF put_fat, seek_fat
<1> HIDE DEF w, u
<1>4. w.fat \in Fats /\ [w.fat EXCEPT ![c] = x] \in Fats
  BY <1>2 DEF Volumes, Fats
<1>5. u = [w EXCEPT !.fat = [w.fat EXCEPT ![c] = x], !.wflag = TRUE]
  BY <1>2, <1>3 DEF Volumes
<1>6. /\ u \in Volumes(N, B) /\ u.fat = [w.fat EXCEPT ![c] = x] /\ u.dir = w.dir
      /\ u.wflag = TRUE /\ u.win = w.win /\ u.disk = w.disk /\ u.images = w.images
  BY <1>2, <1>4, <1>5 DEF Volumes
<1>7. Coherent(u)
  <2>1. \A b \in Cluster : b # c => u.fat[b] = w.fat[b]
    BY <1>4, <1>6 DEF Fats
  <2> QED BY <1>2, <1>6, <2>1 DEF Coherent
<1> QED BY <1>2, <1>6, <1>7 DEF Same, u

\* A change of an entry in the window (f_open, f_sync, f_rename) changes the one
\* it is about.
THEOREM EntryPut ==
    ASSUME NEW N, NEW B, NEW v \in Volumes(N, B), Coherent(v),
           NEW i \in 1 .. Slots, NEW e \in Entries(N)
    PROVE  /\ put_entry(v, i, e) \in Volumes(N, B) /\ Coherent(put_entry(v, i, e))
           /\ put_entry(v, i, e).dir = [v.dir EXCEPT ![i] = e]
           /\ put_entry(v, i, e).fat = v.fat
           /\ \A m \in put_entry(v, i, e).images : m \in v.images \/ Shows(m, v)
<1> DEFINE w == move_window(v, DirSector(i))
           u == put_entry(v, i, e)
<1>1. DirSector(i) \in Sectors
  BY DEF Sectors
<1>2. w \in Volumes(N, B) /\ Coherent(w) /\ w.win = DirSector(i) /\ Same(v, w)
  BY <1>1, WindowMoves
<1>3. u = [w EXCEPT !.dir[i] = e, !.wflag = TRUE]
  BY DEF put_entry
<1> HIDE DEF w, u
<1>4. w.dir \in Dirs(N) /\ [w.dir EXCEPT ![i] = e] \in Dirs(N)
  BY <1>2 DEF Volumes, Dirs
<1>5. u = [w EXCEPT !.dir = [w.dir EXCEPT ![i] = e], !.wflag = TRUE]
  BY <1>2, <1>3 DEF Volumes
<1>6. /\ u \in Volumes(N, B) /\ u.dir = [w.dir EXCEPT ![i] = e] /\ u.fat = w.fat
      /\ u.wflag = TRUE /\ u.win = w.win /\ u.disk = w.disk /\ u.images = w.images
  BY <1>2, <1>4, <1>5 DEF Volumes
<1>7. Coherent(u)
  <2>1. \A j \in 1 .. Slots : j # i => u.dir[j] = w.dir[j]
    BY <1>4, <1>6 DEF Dirs
  <2> QED BY <1>2, <1>6, <2>1 DEF Coherent
<1> QED BY <1>2, <1>6, <1>7 DEF Same, u

\* After sync (ff.c:761-790), with which f_sync, f_unlink and f_rename end, the
\* disk has the tables as the program sees them.
THEOREM Synchronised ==
    ASSUME NEW N, NEW B, NEW v \in Volumes(N, B), Coherent(v)
    PROVE  sync(v).disk.fat = v.fat /\ sync(v).disk.dir = v.dir
BY SyncKeeps

-----------------------------------------------------------------------------
\* create_chain (ff.c:1012-1015): whatever the sectors of the two entries and
\* whenever the program ends, a disk that has the link to the new cluster has
\* the new cluster marked as the end of the chain.
THEOREM EndBeforeLink ==
    ASSUME NEW N, NEW B, NEW v \in Volumes(N, B), Coherent(v),
           NEW c \in Cluster, NEW new \in Cluster, c # new, v.fat[c] # new,
           NEW m \in sync(Linked(v, c, new)).images, m \notin v.images
    PROVE  m.disk.fat[c] = new => m.disk.fat[new] = Eoc
<1> DEFINE a == put_fat(v, new, Eoc)
           b == put_fat(a, c, new)
<1>0. Eoc \in Links /\ new \in Links /\ 0 \notin Cluster /\ v.fat \in Fats
  BY VolumeAssumption DEF Cluster, Links, Volumes
<1>1. /\ a \in Volumes(N, B) /\ Coherent(a) /\ a.fat = [v.fat EXCEPT ![new] = Eoc]
      /\ \A k \in a.images : k \in v.images \/ Shows(k, v)
  BY <1>0, FatPut
<1>2. Linked(v, c, new) = b
  <2>1. c # 0
    BY <1>0
  <2> QED BY <2>1, Zenon DEF Linked
<1> HIDE DEF a
<1>3. /\ b \in Volumes(N, B) /\ Coherent(b) /\ b.fat = [a.fat EXCEPT ![c] = new]
      /\ \A k \in b.images : k \in a.images \/ Shows(k, a)
  BY <1>0, <1>1, FatPut
<1> HIDE DEF b
<1>4. \A k \in sync(b).images : k \in b.images \/ Shows(k, b)
  BY <1>3, SyncKeeps DEF Same
<1>5. Shows(m, v) \/ Shows(m, a) \/ Shows(m, b)
  BY <1>1, <1>2, <1>3, <1>4
<1>6. b.fat[new] = Eoc /\ a.fat[new] = Eoc
  BY <1>0, <1>1, <1>3 DEF Fats
<1> QED BY <1>5, <1>6 DEF Shows

\* f_unlink (ff.c:3239-3240): no disk shows the file's entry in use with its
\* first cluster already free.
THEOREM EntryBeforeChain ==
    ASSUME NEW N, Dde \in N, NEW B, NEW v \in Volumes(N, B), Coherent(v),
           NEW i \in 1 .. Slots, NEW c \in Cluster, v.fat[c] # 0,
           NEW m \in sync(put_fat(dir_remove(v, i), c, 0)).images, m \notin v.images
    PROVE  m.disk.fat[c] = 0 => m.disk.dir[i].name = Dde
<1> DEFINE w == move_window(v, DirSector(i))
           e == [w.dir[i] EXCEPT !.name = Dde]
           a == dir_remove(v, i)
           b == put_fat(a, c, 0)
<1>1. DirSector(i) \in Sectors
  BY DEF Sectors
<1>2. w \in Volumes(N, B) /\ Coherent(w) /\ Same(v, w)
  BY <1>1, WindowMoves
<1>3. a = put_entry(w, i, e)
  BY Zenon DEF dir_remove
<1> HIDE DEF w
<1>4. w.dir[i] \in Entries(N)
  BY <1>2 DEF Volumes, Dirs
<1>5. e \in Entries(N) /\ e.name = Dde
  BY <1>4 DEF Entries
<1> HIDE DEF e, a
<1>6. /\ a \in Volumes(N, B) /\ Coherent(a) /\ a.dir = [w.dir EXCEPT ![i] = e]
      /\ \A k \in a.images : k \in w.images \/ Shows(k, w)
  BY <1>2, <1>3, <1>5, EntryPut
<1>7. /\ b \in Volumes(N, B) /\ Coherent(b) /\ b.dir = a.dir
      /\ \A k \in b.images : k \in a.images \/ Shows(k, a)
  <2>1. PICK x \in Links : x = 0
    BY DEF Links
  <2>2. /\ put_fat(a, c, x) \in Volumes(N, B) /\ Coherent(put_fat(a, c, x))
        /\ put_fat(a, c, x).fat = [a.fat EXCEPT ![c] = x]
        /\ put_fat(a, c, x).dir = a.dir
        /\ \A k \in put_fat(a, c, x).images : k \in a.images \/ Shows(k, a)
    BY <1>6, FatPut
  <2> QED BY <2>1, <2>2
<1> HIDE DEF b
<1>8. \A k \in sync(b).images : k \in b.images \/ Shows(k, b)
  BY <1>7, SyncKeeps DEF Same
<1>9. Shows(m, v) \/ Shows(m, a) \/ Shows(m, b)
  <2>1. w.fat = v.fat /\ w.dir = v.dir /\ \A k \in w.images : k \in v.images \/ Shows(k, v)
    BY <1>2 DEF Same
  <2>2. \A k : Shows(k, w) => Shows(k, v)
    BY <2>1 DEF Shows
  <2> QED BY <1>6, <1>7, <1>8, <2>1, <2>2 DEF a, b
<1>10. w.dir \in Dirs(N)
  BY <1>2 DEF Volumes
<1>11. a.dir[i].name = Dde /\ b.dir[i].name = Dde
  BY <1>5, <1>6, <1>7, <1>10 DEF Dirs
<1> QED BY <1>9, <1>11 DEF Shows
-----------------------------------------------------------------------------
\* There is no library theorem without an operator parameter that gives a
\* least number, so that it is taken from the well-founded order.
LEMMA LeastNatural ==
    ASSUME NEW T \in SUBSET Nat, T # {}
    PROVE  \E x \in T : \A y \in T : x <= y
<1>1. PICK x \in T : \A y \in T : ~(<<y, x>> \in OpToRel(<, Nat))
  BY WFMin, NatLessThanWellFounded, Zenon
<1>2. \A y \in T : ~(y < x)
  BY <1>1, Zenon DEF OpToRel
<1> QED BY <1>2

LEMMA MinIsLeast ==
    ASSUME NEW T \in SUBSET Nat, T # {}
    PROVE  Min(T) \in T /\ \A y \in T : Min(T) <= y
<1>1. \E x \in T : \A y \in T : x <= y
  BY LeastNatural
<1> QED BY <1>1, Zenon DEF Min

\* What holds at 0 and passes from each number to the next holds up to n.
LEMMA Stepwise ==
    ASSUME NEW n \in Nat, NEW T \in SUBSET (0 .. n), 0 \in T,
           \A m \in 1 .. n : m-1 \in T => m \in T
    PROVE  \A m \in 0 .. n : m \in T
<1> DEFINE U == {m \in 0 .. n : m \notin T}
<1> SUFFICES ASSUME U # {} PROVE FALSE
  OBVIOUS
<1>1. PICK m \in U : \A y \in U : m <= y
  <2>1. U \in SUBSET Nat
    OBVIOUS
  <2> HIDE DEF U
  <2> QED BY <2>1, LeastNatural
<1>2. m \in 1 .. n /\ m-1 \in 0 .. n /\ ~(m <= m-1)
  OBVIOUS
<1>3. m-1 \in T
  BY <1>1, <1>2
<1> QED BY <1>2, <1>3

\* Division.
LEMMA WrapIs ==
    ASSUME NEW w \in Nat \ {0}, NEW x \in Nat
    PROVE  x % w \in 0 .. w-1 /\ x \div w \in Nat /\ x = w * (x \div w) + (x % w)
OBVIOUS

LEMMA WrapUnique ==
    ASSUME NEW w \in Nat \ {0}, NEW q \in Nat, NEW r \in 0 .. w-1
    PROVE  (w * q + r) % w = r
OBVIOUS


-----------------------------------------------------------------------------
\* Loops as the list of the states they go through.
Goes(p, g, x, n) == p[0] = x /\ \A k \in 1 .. n : p[k] = g[k][p[k-1]]
LEMMA RoundsExist ==
    ASSUME NEW n \in Nat, NEW V, NEW x \in V, NEW g \in [1 .. n -> [V -> V]]
    PROVE  \E p \in [0 .. n -> V] : Goes(p, g, x, n)
<1> DEFINE R(p, m) == p[0] = x /\ \A k \in 1 .. m : p[k] = g[k][p[k-1]]
           T == {m \in 0 .. n : \E p \in [0 .. m -> V] : R(p, m)}
<1>1. 0 \in T
  <2> DEFINE p == [k \in 0 .. 0 |-> x]
  <2>1. p \in [0 .. 0 -> V] /\ p[0] = x
    OBVIOUS
  <2> HIDE DEF p
  <2> QED BY <2>1
<1>2. ASSUME NEW m \in 1 .. n, m-1 \in T PROVE m \in T
  <2>1. PICK p \in [0 .. m-1 -> V] : R(p, m-1)
    BY <1>2
  <2> DEFINE q == [k \in 0 .. m |-> IF k < m THEN p[k] ELSE g[m][p[m-1]]]
  <2>2. p[m-1] \in V /\ m \in 1 .. n
    OBVIOUS
  <2>3. g[m][p[m-1]] \in V
    BY <2>2
  <2>4. q \in [0 .. m -> V]
    BY <2>3
  <2>5. q[0] = x
    BY <2>1
  <2>6. q[m] = g[m][q[m-1]]
    OBVIOUS
  <2>7. \A k \in 1 .. m-1 : q[k] = p[k] /\ q[k-1] = p[k-1]
    OBVIOUS
  <2> HIDE DEF q
  <2>8. \A k \in 1 .. m : q[k] = g[k][q[k-1]]
    <3> SUFFICES ASSUME NEW k \in 1 .. m PROVE q[k] = g[k][q[k-1]]
      OBVIOUS
    <3>1. CASE k = m
      BY <2>6, <3>1
    <3>2. CASE k \in 1 .. m-1
      BY <2>1, <2>7, <3>2
    <3> QED BY <3>1, <3>2
  <2>9. \E f \in [0 .. m -> V] : R(f, m)
    BY <2>4, <2>5, <2>8
  <2>10. m \in 0 .. n
    OBVIOUS
  <2> QED BY <2>9, <2>10
<1>3. n \in 0 .. n /\ T \in SUBSET (0 .. n)
  OBVIOUS
<1> HIDE DEF T
<1>4. n \in T
  BY <1>1, <1>2, <1>3, Stepwise
<1> QED BY <1>4 DEF T, Goes

-----------------------------------------------------------------------------
\* Chains.
\* s is a chain whose end is marked.
Path(fat, s) ==
    /\ s \in Seq(Cluster)
    /\ \A i \in 1 .. Len(s) : fat[s[i]] = IF i < Len(s) THEN s[i+1] ELSE Eoc

First(s) == IF s = << >> THEN 0 ELSE s[1]

LEMMA ListFacts ==
    ASSUME NEW S, NEW s \in Seq(S)
    PROVE  /\ Len(s) \in Nat /\ DOMAIN s = 1 .. Len(s) /\ s \in [1 .. Len(s) -> S]
           /\ \A i \in 1 .. Len(s) : s[i] \in S
           /\ s = << >> <=> Len(s) = 0
<1>1. Len(s) \in Nat /\ DOMAIN s = 1 .. Len(s) /\ s \in [1 .. Len(s) -> S]
  BY LenProperties
<1>2. \A i \in 1 .. Len(s) : s[i] \in S
  BY <1>1
<1>3. s = << >> <=> Len(s) = 0
  BY EmptySeq
<1> QED BY <1>1, <1>2, <1>3

LEMMA NoCluster == 0 \notin Cluster /\ Eoc \notin Cluster /\ Eoc # 0 /\ Eoc \in Int /\ Cluster \subseteq Int
BY VolumeAssumption DEF Cluster, Eoc

LEMMA PathFacts ==
    ASSUME NEW fat, NEW s, Path(fat, s)
    PROVE  /\ Len(s) \in Nat /\ s \in [1 .. Len(s) -> Cluster] /\ s \in Seq(Cluster)
           /\ DOMAIN s = 1 .. Len(s) /\ \A i \in 1 .. Len(s) : s[i] \in Cluster
           /\ s = << >> <=> Len(s) = 0
           /\ Len(s) > 0 => First(s) = s[1] /\ fat[s[Len(s)]] = Eoc
           /\ Len(s) = 0 => First(s) = 0
           /\ \A i \in 1 .. Len(s)-1 : fat[s[i]] = s[i+1] /\ fat[s[i]] \in Cluster
           /\ \A i \in 1 .. Len(s) : fat[s[i]] # 0
<1>1. s \in Seq(Cluster) /\ \A i \in 1 .. Len(s) : fat[s[i]] = IF i < Len(s) THEN s[i+1] ELSE Eoc
  BY DEF Path
<1>2. /\ Len(s) \in Nat /\ DOMAIN s = 1 .. Len(s) /\ s \in [1 .. Len(s) -> Cluster]
      /\ \A i \in 1 .. Len(s) : s[i] \in Cluster
      /\ s = << >> <=> Len(s) = 0
  BY <1>1, ListFacts
<1> DEFINE n == Len(s)
<1>3. n \in Nat /\ s \in [1 .. n -> Cluster] /\ \A i \in 1 .. n : fat[s[i]] = IF i < n THEN s[i+1] ELSE Eoc
  BY <1>1, <1>2
<1>4. (n > 0 => First(s) = s[1]) /\ (n = 0 => First(s) = 0)
  BY <1>2 DEF First
<1> HIDE DEF n
<1>5. n > 0 => fat[s[n]] = Eoc
  BY <1>3
<1>6. \A i \in 1 .. n-1 : fat[s[i]] = s[i+1] /\ fat[s[i]] \in Cluster
  BY <1>3
<1>7. \A i \in 1 .. n : fat[s[i]] # 0
  BY <1>3, NoCluster
<1> QED BY <1>1, <1>2, <1>4, <1>5, <1>6, <1>7 DEF n

\* A chain does not come back to a cluster.
LEMMA PathOnce ==
    ASSUME NEW fat, NEW s, Path(fat, s),
           NEW i \in 1 .. Len(s), NEW j \in 1 .. Len(s), s[i] = s[j]
    PROVE  i = j
<1>0. /\ Len(s) \in Nat /\ Len(s) > 0 /\ fat[s[Len(s)]] = Eoc
      /\ \A m \in 1 .. Len(s)-1 : fat[s[m]] = s[m+1] /\ fat[s[m]] \in Cluster
  BY PathFacts
<1>e. Eoc \notin Cluster
  BY VolumeAssumption DEF Cluster, Eoc
<1>1. ASSUME NEW a \in 1 .. Len(s), NEW b \in 1 .. Len(s), a < b, s[a] = s[b]
      PROVE  FALSE
  <2> DEFINE n == Len(s) - b
             T == {m \in 0 .. n : s[a+m] = s[b+m]}
  <2>1. n \in Nat /\ T \in SUBSET (0 .. n) /\ 0 \in T
    BY <1>0, <1>1
  <2>2. \A m \in 1 .. n : m-1 \in T => m \in T
    <3> SUFFICES ASSUME NEW m \in 1 .. n, m-1 \in T PROVE m \in T
      OBVIOUS
    <3>1. a+m-1 \in 1 .. Len(s)-1 /\ b+m-1 \in 1 .. Len(s)-1
      BY <1>0, <1>1
    <3>2. s[a+m-1] = s[b+m-1]
      OBVIOUS
    <3>3. \A x, y \in 1 .. Len(s)-1 : s[x] = s[y] => s[x+1] = s[y+1]
      BY <1>0, Zenon
    <3>4. s[(a+m-1)+1] = s[(b+m-1)+1]
      BY <3>1, <3>2, <3>3, Zenon
    <3>5. (a+m-1)+1 = a+m /\ (b+m-1)+1 = b+m
      OBVIOUS
    <3> QED BY <3>4, <3>5
  <2>5. a+n \in 1 .. Len(s)-1 /\ b+n = Len(s)
    BY <1>0, <1>1
  <2> HIDE DEF T, n
  <2>3. n \in T
    <3>1. n \in 0 .. n
      BY <2>1
    <3> QED BY <2>1, <2>2, <3>1, Stepwise
  <2>4. s[a+n] = s[Len(s)]
    BY <2>3, <2>5 DEF T
  <2> QED BY <1>0, <1>e, <2>4, <2>5
<1> QED BY <1>0, <1>1

LEMMA PathShort ==
    ASSUME NEW fat, NEW s, Path(fat, s)
    PROVE  Len(s) <= Clusters
<1>1. Len(s) \in Nat /\ s \in [1 .. Len(s) -> Cluster]
  BY PathFacts
<1>2. s \in Injection(1 .. Len(s), Cluster)
  BY <1>1, PathOnce DEF Injection, IsInjective
<1>3. Clusters \in Nat \ {0}
  BY VolumeAssumption
<1>4. IsFiniteSet(Cluster) /\ Cardinality(Cluster) = Clusters
  BY <1>3, FS_Interval DEF Cluster
<1>5. Cardinality(1 .. Len(s)) <= Cardinality(Cluster)
  BY <1>2, <1>4, FS_Injection
<1>6. Cardinality(1 .. Len(s)) = Len(s)
  BY <1>1, FS_Interval
<1> QED BY <1>4, <1>5, <1>6

\* p has the first n of them from c on, and what is there instead of another.
Leads(fat, c, n, p) ==
    /\ n \in 0 .. Clusters /\ p[0] = c /\ \A k \in 0 .. n : p[k] \in Cluster <=> k < n
    /\ \A k \in 1 .. n : p[k] = IF p[k-1] \in Cluster THEN fat[p[k-1]] ELSE p[k-1]

LEMMA ChainSteps ==
    ASSUME NEW fat, NEW c, NEW n, NEW p, Leads(fat, c, n, p)
    PROVE  Chain(fat, c) = [k \in 1 .. n |-> p[k-1]]
<1> DEFINE At(k) == Loop(LAMBDA x, j : IF x \in Cluster THEN fat[x] ELSE x, c, k)
<1>1. n \in Nat /\ n <= Clusters /\ Clusters \in Nat
  BY VolumeAssumption DEF Leads
<1>3. \A k \in 0 .. n : p[k] \in Cluster <=> k < n
  BY DEF Leads
<1>4. p[0] = c
  BY DEF Leads
<1>5. \A k \in 1 .. n : p[k] = IF p[k-1] \in Cluster THEN fat[p[k-1]] ELSE p[k-1]
  BY DEF Leads
<1>7. ASSUME NEW k \in 0 .. n PROVE At(k) = p[k]
  <2> DEFINE Next1(h) == [j \in 0 .. k |-> IF j = 0 THEN c
                            ELSE IF h[j-1] \in Cluster THEN fat[h[j-1]] ELSE h[j-1]]
             it == CHOOSE h : h = Next1(h)
             q == [j \in 0 .. k |-> p[j]]
             T == {j \in 0 .. k : it[j] = p[j]}
  <2>0. k \in Nat
    BY <1>1
  <2>1. q = Next1(q)
    <3>1. \A j \in 0 .. k : q[j] = IF j = 0 THEN c
                            ELSE IF q[j-1] \in Cluster THEN fat[q[j-1]] ELSE q[j-1]
      BY <1>4, <1>5, <1>1
    <3> QED BY <3>1
  <2>2. it = Next1(it)
    <3> HIDE DEF Next1, q
    <3> QED BY <2>1, Zenon
  <2>3. At(k) = it[k]
    BY Zenon DEF Loop
  <2> HIDE DEF it
  <2>4. \A j \in 0 .. k : it[j] = IF j = 0 THEN c
                            ELSE IF it[j-1] \in Cluster THEN fat[it[j-1]] ELSE it[j-1]
    BY <2>2
  <2> HIDE DEF Next1
  <2>5. T \in SUBSET (0 .. k) /\ 0 \in T
    BY <1>4, <2>0, <2>4
  <2>6. \A j \in 1 .. k : j-1 \in T => j \in T
    <3> SUFFICES ASSUME NEW j \in 1 .. k, j-1 \in T PROVE j \in T
      OBVIOUS
    <3>1. it[j] = IF it[j-1] \in Cluster THEN fat[it[j-1]] ELSE it[j-1]
      BY <2>4
    <3>2. p[j] = IF p[j-1] \in Cluster THEN fat[p[j-1]] ELSE p[j-1]
      BY <1>5, <1>1
    <3> QED BY <3>1, <3>2
  <2> HIDE DEF T
  <2>7. k \in T
    BY <2>0, <2>5, <2>6, Stepwise
  <2> QED BY <2>3, <2>7 DEF T
<1> DEFINE M == {k \in 0 .. Clusters : At(k) \notin Cluster}
<1>8. Min(M) = n
  <2>0. n \in 0 .. Clusters /\ n \in 0 .. n /\ \A k \in 0 .. n-1 : k \in 0 .. n /\ k < n
    BY <1>1
  <2> HIDE DEF At
  <2>1. n \in M /\ \A k \in 0 .. n-1 : k \notin M
    BY <1>3, <1>7, <2>0
  <2>2. M \in SUBSET Nat /\ M # {}
    BY <1>1, <2>1
  <2> HIDE DEF M
  <2>3. Min(M) \in M /\ \A y \in M : Min(M) <= y
    BY <2>2, MinIsLeast
  <2>4. Min(M) \in Nat /\ Min(M) <= n
    BY <2>1, <2>2, <2>3
  <2>5. ~(Min(M) \in 0 .. n-1)
    BY <2>1, <2>3
  <2> QED BY <1>1, <2>4, <2>5
<1>9. Chain(fat, c) = [k \in 1 .. n |-> At(k-1)]
  <2>1. Chain(fat, c) = [k \in 1 .. Min(M) |-> At(k-1)]
    BY Zenon DEF Chain
  <2> QED BY <1>8, <2>1
<1>10. \A k \in 1 .. n : At(k-1) = p[k-1]
  <2> HIDE DEF At
  <2> SUFFICES ASSUME NEW k \in 1 .. n PROVE At(k-1) = p[k-1]
    OBVIOUS
  <2>1. k-1 \in 0 .. n
    BY <1>1
  <2> QED BY <1>7, <2>1
<1> HIDE DEF At
<1> QED BY <1>9, <1>10

\* Chain is that list.
LEMMA ChainIs ==
    ASSUME NEW fat, NEW s, Path(fat, s)
    PROVE  Chain(fat, First(s)) = s
<1> DEFINE n == Len(s)
           c == First(s)
           p == [k \in Nat |-> IF k < n THEN s[k+1] ELSE IF c = 0 THEN 0 ELSE Eoc]
<1>1. /\ n \in Nat /\ s \in [1 .. n -> Cluster] /\ \A i \in 1 .. n : s[i] \in Cluster
      /\ n = 0 => c = 0
      /\ n > 0 => c # 0 /\ s[1] = c /\ fat[s[n]] = Eoc
      /\ \A i \in 1 .. n-1 : fat[s[i]] = s[i+1]
      /\ n <= Clusters /\ Clusters \in Nat
  BY PathFacts, PathShort, NoCluster, VolumeAssumption
<1> HIDE DEF c
<1>2. Eoc \notin Cluster /\ 0 \notin Cluster
  BY VolumeAssumption DEF Cluster, Eoc
<1>3. \A k \in 0 .. n : p[k] \in Cluster <=> k < n
  BY <1>1, <1>2
<1>4. p[0] = c
  BY <1>1
<1>5. \A k \in 1 .. n : p[k] = IF p[k-1] \in Cluster THEN fat[p[k-1]] ELSE p[k-1]
  <2>1. ASSUME NEW k \in 1 .. n PROVE p[k] = fat[p[k-1]] /\ p[k-1] \in Cluster
    <3>1. p[k-1] = s[k]
      BY <1>1
    <3>2. CASE k < n
      BY <1>1, <3>1, <3>2
    <3>3. CASE k = n
      BY <1>1, <3>1, <3>3
    <3> QED BY <1>1, <3>1, <3>2, <3>3
  <2> HIDE DEF p
  <2> QED BY <2>1
<1>6. \A k \in 1 .. n : s[k] = p[k-1]
  BY <1>1
<1> HIDE DEF p
<1>7. Leads(fat, c, n, p)
  BY <1>1, <1>3, <1>4, <1>5 DEF Leads
<1>8. Chain(fat, c) = [k \in 1 .. n |-> p[k-1]]
  BY <1>7, ChainSteps
<1> QED BY <1>1, <1>6, <1>8 DEF c

\* A chain may begin with a free cluster.
LEMMA ChainFree ==
    ASSUME NEW fat, NEW c \in Cluster, fat[c] = 0
    PROVE  c \in ToSet(Chain(fat, c))
<1> DEFINE p == [k \in 0 .. 1 |-> IF k = 0 THEN c ELSE 0]
<1>1. p[0] = c /\ p[1] = 0
  OBVIOUS
<1>2. 0 \notin Cluster /\ 1 \in 0 .. Clusters
  BY NoCluster, VolumeAssumption
<1> HIDE DEF p
<1>3. \A k \in 0 .. 1 : p[k] \in Cluster <=> k < 1
  BY <1>1, <1>2
<1>4. \A k \in 1 .. 1 : p[k] = IF p[k-1] \in Cluster THEN fat[p[k-1]] ELSE p[k-1]
  BY <1>1, <1>2
<1>5. Leads(fat, c, 1, p)
  BY <1>1, <1>2, <1>3, <1>4 DEF Leads
<1>6. Chain(fat, c) = [k \in 1 .. 1 |-> p[k-1]]
  <2> DEFINE n == 1
  <2>1. Leads(fat, c, n, p)
    BY <1>5
  <2> HIDE DEF n
  <2>2. Chain(fat, c) = [k \in 1 .. n |-> p[k-1]]
    BY <2>1, ChainSteps
  <2> QED BY <2>2 DEF n
<1>7. 1 \in DOMAIN Chain(fat, c) /\ Chain(fat, c)[1] = c
  BY <1>1, <1>6
<1> QED BY <1>7 DEF ToSet
-----------------------------------------------------------------------------
\* The clusters of a chain.
Members(s) == {s[i] : i \in 1 .. Len(s)}

LEMMA PathFrame ==
    ASSUME NEW fat, NEW fat2, NEW s, Path(fat, s), \A c \in Members(s) : fat2[c] = fat[c]
    PROVE  Path(fat2, s)
BY DEF Path, Members

LEMMA PathMembers ==
    ASSUME NEW fat, NEW s, Path(fat, s)
    PROVE  /\ Members(s) \subseteq Cluster
           /\ \A c \in Members(s) : fat[c] # 0
           /\ s # << >> => First(s) \in Members(s)
           /\ s = << >> => Members(s) = {}
<1>1. /\ Len(s) \in Nat /\ \A i \in 1 .. Len(s) : s[i] \in Cluster /\ fat[s[i]] # 0
      /\ s = << >> <=> Len(s) = 0
      /\ Len(s) > 0 => First(s) = s[1]
  BY PathFacts
<1>2. Members(s) \subseteq Cluster /\ \A c \in Members(s) : fat[c] # 0
  BY <1>1 DEF Members
<1>3. s # << >> => 1 \in 1 .. Len(s) /\ First(s) = s[1]
  BY <1>1
<1>4. s = << >> => 1 .. Len(s) = {}
  BY <1>1
<1> QED BY <1>2, <1>3, <1>4 DEF Members

LEMMA PathEmpty ==
    ASSUME NEW fat
    PROVE  /\ Path(fat, << >>) /\ Members(<< >>) = {} /\ First(<< >>) = 0
           /\ << >> \in Seq(Cluster) /\ Len(<< >>) = 0
<1>1. << >> \in Seq(Cluster) /\ Len(<< >>) = 0
  BY EmptySeq
<1>2. 1 .. Len(<< >>) = {}
  BY <1>1
<1> QED BY <1>1, <1>2 DEF Path, Members, First

\* The empty chain, by a name.
Nil == << >>
LEMMA NilIs ==
    /\ Nil \in Seq(Cluster) /\ Members(Nil) = {} /\ First(Nil) = 0 /\ Len(Nil) = 0
    /\ \A fat : Path(fat, Nil)
    /\ \A s \in Seq(Cluster) : s = Nil <=> Len(s) = 0
<1>1. \A s \in Seq(Cluster) : s = << >> <=> Len(s) = 0
  BY ListFacts
<1> QED BY <1>1, PathEmpty DEF Nil

LEMMA PathOne ==
    ASSUME NEW fat, NEW c \in Cluster, fat[c] = Eoc
    PROVE  /\ Path(fat, << c >>) /\ Members(<< c >>) = {c} /\ First(<< c >>) = c
           /\ << c >> \in Seq(Cluster) /\ Len(<< c >>) = 1 /\ << c >> # << >>
<1> DEFINE s == << c >>
<1>1. s \in Seq(Cluster) /\ Len(s) = 1 /\ s[1] = c /\ s # << >>
  OBVIOUS
<1> HIDE DEF s
<1>2. 1 .. Len(s) = {1}
  BY <1>1
<1> QED BY <1>1, <1>2 DEF Path, Members, First, s

\* t is s and one more cluster.
Longer(s, new, t) ==
    /\ t \in Seq(Cluster) /\ Len(t) = Len(s) + 1 /\ t[Len(s)+1] = new
    /\ \A i \in 1 .. Len(s) : t[i] = s[i]

LEMMA LongerExists ==
    ASSUME NEW s \in Seq(Cluster), NEW new \in Cluster
    PROVE  \E t : Longer(s, new, t)
<1> DEFINE t == Append(s, new)
<1>1. t \in Seq(Cluster) /\ Len(t) = Len(s)+1 /\ t[Len(s)+1] = new
      /\ \A i \in 1 .. Len(s) : t[i] = s[i]
  BY AppendProperties
<1> HIDE DEF t
<1>2. Longer(s, new, t)
  BY <1>1 DEF Longer
<1> QED BY <1>2

LEMMA PathBegun ==
    ASSUME NEW fat, NEW s, Len(s) = 0, NEW new \in Cluster, NEW t, Longer(s, new, t), fat[new] = Eoc
    PROVE  Path(fat, t) /\ Members(t) = {new} /\ First(t) = new
<1>1. t \in Seq(Cluster) /\ Len(t) = 1 /\ t[1] = new
  BY DEF Longer
<1>2. 1 .. Len(t) = {1} /\ t # << >>
  BY <1>1, ListFacts
<1> QED BY <1>1, <1>2 DEF Path, Members, First

LEMMA PathGrown ==
    ASSUME NEW fat, NEW fat2, NEW s, Path(fat, s), Len(s) > 0, NEW new \in Cluster,
           NEW t, Longer(s, new, t), fat2[s[Len(s)]] = new, fat2[new] = Eoc,
           \A c \in Members(s) : c # s[Len(s)] => fat2[c] = fat[c]
    PROVE  Path(fat2, t) /\ Members(t) = Members(s) \cup {new} /\ First(t) = First(s)
<1> DEFINE n == Len(s)
<1>1. /\ n \in Nat /\ s \in Seq(Cluster) /\ n > 0
      /\ \A i \in 1 .. n-1 : fat[s[i]] = s[i+1]
      /\ First(s) = s[1]
  BY PathFacts
<1>2. /\ t \in Seq(Cluster) /\ Len(t) = n+1 /\ t # << >>
      /\ \A i \in 1 .. n : t[i] = s[i]
      /\ t[n+1] = new
  <2>1. t \in Seq(Cluster) /\ Len(t) = n+1 /\ t[n+1] = new /\ \A i \in 1 .. n : t[i] = s[i]
    BY DEF Longer
  <2>2. t # << >>
    BY <1>1, <2>1, ListFacts
  <2> QED BY <2>1, <2>2
<1>3. \A i \in 1 .. n : s[i] = s[n] => i = n
  BY <1>1, PathOnce
<1>4. \A i \in 1 .. n-1 : s[i] \in Members(s) /\ s[i] # s[n]
  BY <1>1, <1>3 DEF Members
<1>5. fat2[s[n]] = new
  OBVIOUS
<1> HIDE DEF n
<1>6. \A i \in 1 .. n-1 : fat2[s[i]] = s[i+1]
  BY <1>1, <1>4 DEF n
<1>7. \A i \in 1 .. n+1 : fat2[t[i]] = IF i < n+1 THEN t[i+1] ELSE Eoc
  <2> SUFFICES ASSUME NEW i \in 1 .. n+1 PROVE fat2[t[i]] = IF i < n+1 THEN t[i+1] ELSE Eoc
    OBVIOUS
  <2>1. CASE i \in 1 .. n-1
    <3>1. fat2[s[i]] = s[i+1]
      BY <1>6, <2>1
    <3>2. t[i] = s[i] /\ t[i+1] = s[i+1] /\ i < n+1
      BY <1>1, <1>2, <2>1
    <3> QED BY <3>1, <3>2
  <2>2. CASE i = n
    BY <1>1, <1>2, <1>5, <2>2
  <2>3. CASE i = n+1
    BY <1>1, <1>2, <2>3
  <2> QED BY <1>1, <2>1, <2>2, <2>3
<1>8. Members(t) = Members(s) \cup {new}
  <2>1. Members(t) = {t[i] : i \in 1 .. n+1} /\ Members(s) = {s[i] : i \in 1 .. n}
    BY <1>2 DEF Members, n
  <2> QED BY <1>1, <1>2, <2>1
<1>9. First(t) = s[1]
  BY <1>1, <1>2 DEF First
<1> QED BY <1>1, <1>2, <1>7, <1>8, <1>9 DEF Path, n

LEMMA PathCut ==
    ASSUME NEW fat, NEW fat2, NEW s, Path(fat, s), NEW n \in 1 .. Len(s),
           fat2[s[n]] = Eoc, \A c \in Members(s) : c # s[n] => fat2[c] = fat[c]
    PROVE  /\ Path(fat2, SubSeq(s, 1, n))
           /\ Len(SubSeq(s, 1, n)) = n /\ SubSeq(s, 1, n) \in Seq(Cluster)
           /\ \A i \in 1 .. n : SubSeq(s, 1, n)[i] = s[i]
           /\ First(SubSeq(s, 1, n)) = First(s)
<1> DEFINE t == SubSeq(s, 1, n)
<1>1. /\ Len(s) \in Nat /\ s \in Seq(Cluster) /\ n \in Nat /\ n > 0 /\ n <= Len(s)
      /\ \A i \in 1 .. Len(s)-1 : fat[s[i]] = s[i+1]
      /\ \A i \in 1 .. Len(s) : s[i] \in Cluster
      /\ First(s) = s[1]
  BY PathFacts
<1>2. t \in Seq(Cluster) /\ Len(t) = n /\ \A i \in 1 .. n : t[i] = s[i]
  <2>1. \A i \in 1 .. n : s[i] \in Cluster
    BY <1>1
  <2>2. /\ t \in Seq(Cluster) /\ Len(t) = IF 1 <= n THEN n-1+1 ELSE 0
        /\ \A i \in 1 .. n-1+1 : t[i] = s[1+i-1]
    BY <1>1, <2>1, SubSeqProperties
  <2> QED BY <1>1, <2>2
<1> HIDE DEF t
<1>3. \A i \in 1 .. n-1 : s[i] \in Members(s) /\ s[i] # s[n]
  <2> SUFFICES ASSUME NEW i \in 1 .. n-1 PROVE s[i] \in Members(s) /\ s[i] # s[n]
    OBVIOUS
  <2>1. i \in 1 .. Len(s) /\ i # n
    BY <1>1
  <2> QED BY <2>1, PathOnce DEF Members
<1>4. \A i \in 1 .. n : fat2[t[i]] = IF i < n THEN t[i+1] ELSE Eoc
  <2> SUFFICES ASSUME NEW i \in 1 .. n PROVE fat2[t[i]] = IF i < n THEN t[i+1] ELSE Eoc
    OBVIOUS
  <2>1. CASE i = n
    BY <1>2, <2>1
  <2>2. CASE i \in 1 .. n-1
    <3>1. fat2[s[i]] = fat[s[i]] /\ fat[s[i]] = s[i+1]
      <4>1. i \in 1 .. Len(s)-1 /\ s[i] \in Members(s) /\ s[i] # s[n]
        BY <1>1, <1>3, <2>2
      <4> QED BY <1>1, <4>1
    <3>2. t[i] = s[i] /\ t[i+1] = s[i+1] /\ i < n
      BY <1>1, <1>2, <2>2
    <3> QED BY <3>1, <3>2
  <2> QED BY <1>1, <2>1, <2>2
<1>5. First(t) = s[1]
  <2>1. t # << >>
    BY <1>1, <1>2, EmptySeq
  <2> QED BY <1>1, <1>2, <2>1 DEF First
<1> QED BY <1>1, <1>2, <1>4, <1>5 DEF Path, t

LEMMA PathRest ==
    ASSUME NEW fat, NEW fat2, NEW s, Path(fat, s), NEW m \in 1 .. Len(s),
           \A i \in m+1 .. Len(s) : fat2[s[i]] = fat[s[i]]
    PROVE  /\ Path(fat2, SubSeq(s, m+1, Len(s)))
           /\ Len(SubSeq(s, m+1, Len(s))) = Len(s) - m
           /\ \A i \in 1 .. Len(s) - m : SubSeq(s, m+1, Len(s))[i] = s[m+i]
           /\ First(SubSeq(s, m+1, Len(s))) = IF m = Len(s) THEN 0 ELSE fat[s[m]]
<1> DEFINE n == Len(s)
           t == SubSeq(s, m+1, n)
<1>1. /\ n \in Nat /\ s \in Seq(Cluster) /\ m \in Nat /\ m > 0 /\ m <= n
      /\ \A i \in 1 .. n : fat[s[i]] = IF i < n THEN s[i+1] ELSE Eoc
      /\ \A i \in 1 .. n : s[i] \in Cluster
  BY PathFacts DEF Path
<1>p. \A i \in m+1 .. n : fat2[s[i]] = fat[s[i]]
  OBVIOUS
<1> HIDE DEF n
<1>2. t \in Seq(Cluster) /\ Len(t) = n - m /\ \A i \in 1 .. n-m : t[i] = s[m+i]
  <2>1. \A i \in m+1 .. n : s[i] \in Cluster
    BY <1>1
  <2>2. m+1 \in Int /\ n \in Int
    BY <1>1
  <2>3. /\ t \in Seq(Cluster) /\ Len(t) = IF m+1 <= n THEN n-(m+1)+1 ELSE 0
        /\ \A i \in 1 .. n-(m+1)+1 : t[i] = s[(m+1)+i-1]
    BY <2>1, <2>2, SubSeqProperties
  <2>4. Len(t) = n - m
    BY <1>1, <2>3
  <2>5. ASSUME NEW i \in 1 .. n-m PROVE t[i] = s[m+i]
    <3>1. i \in 1 .. n-(m+1)+1 /\ (m+1)+i-1 = m+i
      BY <1>1
    <3>2. t[i] = s[(m+1)+i-1]
      BY <2>3, <3>1
    <3> QED BY <3>1, <3>2
  <2> QED BY <2>3, <2>4, <2>5
<1> HIDE DEF t
<1>4. \A i \in 1 .. n-m : fat2[t[i]] = IF i < n-m THEN t[i+1] ELSE Eoc
  <2> SUFFICES ASSUME NEW i \in 1 .. n-m PROVE fat2[t[i]] = IF i < n-m THEN t[i+1] ELSE Eoc
    OBVIOUS
  <2>1. m+i \in m+1 .. n /\ m+i \in 1 .. n /\ (i < n-m <=> m+i < n)
    BY <1>1
  <2>2. fat2[t[i]] = IF m+i < n THEN s[m+i+1] ELSE Eoc
    BY <1>1, <1>2, <1>p, <2>1
  <2>3. i < n-m => i+1 \in 1 .. n-m /\ m+(i+1) = m+i+1
    BY <1>1
  <2>4. i < n-m => t[i+1] = s[m+i+1]
    BY <1>2, <2>3
  <2> QED BY <2>1, <2>2, <2>4
<1>5. First(t) = IF m = n THEN 0 ELSE fat[s[m]]
  <2>1. t = << >> <=> m = n
    BY <1>1, <1>2, ListFacts
  <2>2. m # n => t[1] = s[m+1] /\ fat[s[m]] = s[m+1]
    BY <1>1, <1>2
  <2> QED BY <2>1, <2>2 DEF First
<1> QED BY <1>1, <1>2, <1>4, <1>5 DEF Path, n, t

\* Every cluster of a chain leads to its end.
LEMMA PathSuffix ==
    ASSUME NEW fat, NEW s, Path(fat, s), NEW c \in Members(s)
    PROVE  \E t : Path(fat, t) /\ First(t) = c /\ t # << >>
<1>1. PICK m \in 1 .. Len(s) : s[m] = c
  BY DEF Members
<1>2. CASE m = 1
  BY <1>1, <1>2, PathFacts
<1>3. CASE m # 1
  <2> DEFINE k == m-1
  <2>1. Len(s) \in Nat /\ k \in 1 .. Len(s) /\ k # Len(s)
    BY <1>3, PathFacts
  <2> DEFINE t == SubSeq(s, k+1, Len(s))
  <2>2. Path(fat, t) /\ Len(t) = Len(s) - k /\ First(t) = IF k = Len(s) THEN 0 ELSE fat[s[k]]
    BY <2>1, PathRest
  <2>3. k \in 1 .. Len(s)-1 /\ k+1 = m
    BY <2>1
  <2>4. fat[s[k]] = s[k+1]
    BY <2>3, PathFacts
  <2> HIDE DEF t
  <2>5. Len(t) # 0
    BY <2>1, <2>2
  <2> QED BY <1>1, <2>1, <2>2, <2>3, <2>4, <2>5, PathFacts
<1> QED BY <1>2, <1>3
-----------------------------------------------------------------------------
\* A chain for each file, and one for the clusters that are on their way into or
\* out of one.
Loose == End
Holders == Names \cup {Loose}
Layout(fat, ch) ==
    /\ ch \in [Holders -> Seq(Cluster)]
    /\ \A f \in Holders : Path(fat, ch[f])
    /\ \A f, g \in Holders : f # g => Members(ch[f]) \cap Members(ch[g]) = {}

Covered(fat, ch) == \A c \in Cluster : fat[c] # 0 => \E f \in Holders : c \in Members(ch[f])

\* No two entries have one name, and an entry leads to its file's chain or has
\* no cluster; unless the file was truncated to nothing meanwhile.
Unique(dir) == \A i, j \in Used(dir) : dir[i].name = dir[j].name => i = j
Heads(dir, ch, cut) ==
    \A i \in Used(dir) : dir[i].name \notin cut => dir[i].sclust \in {0, First(ch[dir[i].name])}

\* What a call must leave alone: K has a disk and the slots, clusters and sectors
\* in question.
Kept(d, K) ==
    /\ \A i \in K.slots : d.dir[i] = K.disk.dir[i]
    /\ \A c \in K.clusters : d.fat[c] = K.disk.fat[c]
    /\ \A x \in K.sects : d.data[x] = K.disk.data[x]

Right(d, cut, moving, ch, K) ==
    /\ Layout(d.fat, ch)
    /\ K.whole => Covered(d.fat, ch)
    /\ Unique(d.dir)
    /\ ~moving => Heads(d.dir, ch, cut)
    /\ Kept(d, K)

Fine(m, K) == \E ch : Right(m.disk, m.cut, m.moving, ch, K)

\* The disk as the program sees it.
Seen(v) == [fat |-> v.fat, dir |-> v.dir, data |-> v.disk.data]
AllNames == Names \cup {End, Dde}
DataAreas == [DataSector -> Buffers]
Vols == Volumes(AllNames, DataAreas)

\* A volume in the middle of a call: what the program sees is right, and so is
\* every disk a crash may find.
Good(v, ch, K) ==
    /\ v \in Vols /\ Coherent(v)
    /\ Right(Seen(v), v.cut, v.moving, ch, K)
    /\ Fine(Moment(v, v.disk), K)
    /\ \A m \in v.images : Fine(m, K)

\* w has the tables of v, and its data.
Alike(v, w) ==
    /\ w.fat = v.fat /\ w.dir = v.dir /\ w.disk.data = v.disk.data
    /\ w.cut = v.cut /\ w.moving = v.moving /\ w.last = v.last /\ w.free = v.free

LEMMA SyncGood ==
    ASSUME NEW v \in Vols, Coherent(v), NEW ch, NEW K,
           Right(Seen(v), v.cut, v.moving, ch, K),
           v.wflag \/ Fine(Moment(v, v.disk), K), \A m \in v.images : Fine(m, K)
    PROVE  /\ Good(sync(v), ch, K) /\ Alike(v, sync(v))
           /\ sync(v).disk = Seen(v) /\ sync(v).win = v.win /\ ~sync(v).wflag
<1> DEFINE w == sync(v)
<1>1. /\ w \in Vols /\ Coherent(w) /\ w.fat = v.fat /\ w.dir = v.dir
      /\ w.disk.fat = v.fat /\ w.disk.dir = v.dir /\ w.win = v.win /\ ~w.wflag
  BY SyncKeeps DEF Same, Vols
<1>2. /\ w.disk.data = v.disk.data /\ w.cut = v.cut /\ w.moving = v.moving
      /\ w.last = v.last /\ w.free = v.free
      /\ v.wflag => \A m \in w.images : m \in v.images \/ m = Moment(v, w.disk)
      /\ ~v.wflag => w = v
  <2>1. CASE ~v.wflag
    BY <2>1 DEF sync
  <2>2. CASE v.wflag
    <3> DEFINE disk == [v.disk EXCEPT
                !.fat = [c \in Cluster |->
                            IF FatSector(c) = v.win THEN v.fat[c] ELSE @[c]],
                !.dir = [i \in 1 .. Slots |->
                            IF DirSector(i) = v.win THEN v.dir[i] ELSE @[i]]]
    <3>1. w = [DiskWrite(v, disk) EXCEPT !.wflag = FALSE]
      BY <2>2, Zenon DEF sync
    <3>2. disk.data = v.disk.data
      BY DEF Vols, Volumes, Disks
    <3> HIDE DEF disk, w
    <3>3. /\ w.disk = disk /\ w.cut = v.cut /\ w.moving = v.moving /\ w.last = v.last
          /\ w.free = v.free /\ w.images = v.images \cup {Moment(v, disk)}
      BY <3>1 DEF DiskWrite, Vols, Volumes
    <3> QED BY <2>2, <3>2, <3>3
  <2> QED BY <2>1, <2>2
<1> HIDE DEF w
<1>3. w.disk = Seen(v) /\ Seen(w) = Seen(v)
  <2>1. w.disk = [fat |-> w.disk.fat, dir |-> w.disk.dir, data |-> w.disk.data]
    BY <1>1 DEF Vols, Volumes, Disks
  <2> QED BY <1>1, <1>2, <2>1 DEF Seen
<1>4. Fine(Moment(v, w.disk), K) /\ Moment(w, w.disk) = Moment(v, w.disk)
  BY <1>2, <1>3 DEF Fine, Moment
<1>5. \A m \in w.images : Fine(m, K)
  BY <1>2, <1>4
<1>6. Right(Seen(w), w.cut, w.moving, ch, K)
  BY <1>2, <1>3
<1>7. Good(w, ch, K) /\ Alike(v, w)
  BY <1>1, <1>2, <1>4, <1>5, <1>6 DEF Good, Alike
<1> QED BY <1>1, <1>3, <1>7 DEF w

LEMMA MoveGood ==
    ASSUME NEW v, NEW ch, NEW K, Good(v, ch, K), NEW x \in Sectors
    PROVE  /\ Good(move_window(v, x), ch, K) /\ Alike(v, move_window(v, x))
           /\ move_window(v, x).win = x
<1> DEFINE w == move_window(v, x)
           s == sync(v)
<1>0. v \in Vols /\ Coherent(v)
  BY DEF Good
<1>1. CASE v.win = x
  BY <1>1 DEF move_window, Alike
<1>2. CASE v.win # x
  <2>1. Good(s, ch, K) /\ Alike(v, s) /\ s.disk = Seen(v)
    BY <1>0, SyncGood DEF Good
  <2>2. w = [s EXCEPT !.win = x, !.fat = s.disk.fat, !.dir = s.disk.dir]
    BY <1>2, Zenon DEF move_window
  <2>3. w \in Vols /\ Coherent(w) /\ w.win = x
    BY <1>0, WindowMoves DEF Vols
  <2> HIDE DEF s, w
  <2>4. s \in Vols
    BY <2>1 DEF Good
  <2>5. /\ w.fat = s.disk.fat /\ w.dir = s.disk.dir /\ w.disk = s.disk /\ w.cut = s.cut
        /\ w.moving = s.moving /\ w.last = s.last /\ w.free = s.free /\ w.images = s.images
    BY <2>2, <2>4 DEF Vols, Volumes
  <2>6. w.fat = v.fat /\ w.dir = v.dir /\ s.fat = v.fat /\ s.dir = v.dir
    BY <2>1, <2>5 DEF Seen, Alike
  <2>7. Alike(v, w)
    BY <2>1, <2>5, <2>6 DEF Alike
  <2>8. Seen(w) = Seen(s) /\ Moment(w, w.disk) = Moment(s, s.disk)
    BY <2>5, <2>6 DEF Seen, Moment
  <2>9. Good(w, ch, K)
    BY <2>1, <2>3, <2>5, <2>8 DEF Good
  <2> QED BY <2>3, <2>7, <2>9 DEF w
<1> QED BY <1>1, <1>2

\* The tables as they are to be after a change, with the data of v.
LEMMA PutFatGood ==
    ASSUME NEW v, NEW ch, NEW K, Good(v, ch, K), NEW c \in Cluster, NEW x \in Links, NEW ch2,
           Right([Seen(v) EXCEPT !.fat = [v.fat EXCEPT ![c] = x]], v.cut, v.moving, ch2, K)
    PROVE  /\ Good(put_fat(v, c, x), ch2, K)
           /\ Alike([v EXCEPT !.fat = [v.fat EXCEPT ![c] = x]], put_fat(v, c, x))
<1> DEFINE w == move_window(v, FatSector(c))
           u == put_fat(v, c, x)
<1>0. FatSector(c) \in Sectors /\ v \in Vols /\ Coherent(v)
  BY DEF Sectors, Good
<1>1. Good(w, ch, K) /\ Alike(v, w)
  BY <1>0, MoveGood
<1>2. u \in Vols /\ Coherent(u)
  BY <1>0, FatPut DEF Vols
<1>3. u = [w EXCEPT !.fat[c] = x, !.wflag = TRUE]
  BY DEF put_fat, seek_fat
<1> HIDE DEF w, u
<1>4. w \in Vols
  BY <1>1 DEF Good
<1>5. /\ u.fat = [w.fat EXCEPT ![c] = x] /\ u.dir = w.dir /\ u.disk = w.disk /\ u.cut = w.cut
      /\ u.moving = w.moving /\ u.last = w.last /\ u.free = w.free /\ u.images = w.images
  BY <1>3, <1>4 DEF Vols, Volumes
<1>6. Seen(u) = [Seen(v) EXCEPT !.fat = [v.fat EXCEPT ![c] = x]]
  BY <1>1, <1>5 DEF Seen, Alike
<1>7. Moment(u, u.disk) = Moment(w, w.disk)
  BY <1>5 DEF Moment
<1>8. Good(u, ch2, K)
  BY <1>1, <1>2, <1>5, <1>6, <1>7 DEF Good, Alike
<1>9. Alike([v EXCEPT !.fat = [v.fat EXCEPT ![c] = x]], u)
  BY <1>0, <1>1, <1>5 DEF Alike, Vols, Volumes
<1> QED BY <1>8, <1>9 DEF u

LEMMA PutEntryGood ==
    ASSUME NEW v, NEW ch, NEW K, Good(v, ch, K), NEW i \in 1 .. Slots, NEW e \in Entries(AllNames),
           NEW ch2,
           Right([Seen(v) EXCEPT !.dir = [v.dir EXCEPT ![i] = e]], v.cut, v.moving, ch2, K)
    PROVE  /\ Good(put_entry(v, i, e), ch2, K) /\ put_entry(v, i, e).wflag
           /\ Alike([v EXCEPT !.dir = [v.dir EXCEPT ![i] = e]], put_entry(v, i, e))
<1> DEFINE w == move_window(v, DirSector(i))
           u == put_entry(v, i, e)
<1>0. DirSector(i) \in Sectors /\ v \in Vols /\ Coherent(v)
  BY DEF Sectors, Good
<1>1. Good(w, ch, K) /\ Alike(v, w)
  BY <1>0, MoveGood
<1>2. u \in Vols /\ Coherent(u)
  BY <1>0, EntryPut DEF Vols
<1>3. u = [w EXCEPT !.dir[i] = e, !.wflag = TRUE]
  BY DEF put_entry
<1> HIDE DEF w, u
<1>4. w \in Vols
  BY <1>1 DEF Good
<1>5. /\ u.dir = [w.dir EXCEPT ![i] = e] /\ u.fat = w.fat /\ u.disk = w.disk /\ u.cut = w.cut
      /\ u.moving = w.moving /\ u.last = w.last /\ u.free = w.free /\ u.images = w.images
      /\ u.wflag
  BY <1>3, <1>4 DEF Vols, Volumes
<1>6. Seen(u) = [Seen(v) EXCEPT !.dir = [v.dir EXCEPT ![i] = e]]
  BY <1>1, <1>5 DEF Seen, Alike
<1>7. Moment(u, u.disk) = Moment(w, w.disk)
  BY <1>5 DEF Moment
<1>8. Good(u, ch2, K)
  BY <1>1, <1>2, <1>5, <1>6, <1>7 DEF Good, Alike
<1>9. Alike([v EXCEPT !.dir = [v.dir EXCEPT ![i] = e]], u)
  BY <1>0, <1>1, <1>5 DEF Alike, Vols, Volumes
<1> QED BY <1>5, <1>8, <1>9 DEF u

\* Bytes go to disk past the window.
LEMMA DataGood ==
    ASSUME NEW v, NEW ch, NEW K, Good(v, ch, K), NEW D \in DataAreas,
           \A x \in K.sects : D[x] = v.disk.data[x]
    PROVE  /\ Good(DiskWrite(v, [v.disk EXCEPT !.data = D]), ch, K)
           /\ Alike([v EXCEPT !.disk = [v.disk EXCEPT !.data = D]],
                    DiskWrite(v, [v.disk EXCEPT !.data = D]))
           /\ DiskWrite(v, [v.disk EXCEPT !.data = D]).disk.data = D
<1> DEFINE disk == [v.disk EXCEPT !.data = D]
           w == DiskWrite(v, disk)
<1>0. v \in Vols /\ v.disk \in Disks(AllNames, DataAreas) /\ Coherent(v)
  BY DEF Good, Vols, Volumes
<1>1. disk \in Disks(AllNames, DataAreas) /\ disk.fat = v.disk.fat /\ disk.dir = v.disk.dir /\ disk.data = D
  BY <1>0 DEF Disks
<1> HIDE DEF disk
<1>2. w = [v EXCEPT !.disk = disk, !.images = @ \cup {Moment(v, disk)}]
  BY DEF DiskWrite
<1> HIDE DEF w
<1>3. /\ w.disk = disk /\ w.fat = v.fat /\ w.dir = v.dir /\ w.win = v.win /\ w.wflag = v.wflag
      /\ w.cut = v.cut /\ w.moving = v.moving /\ w.last = v.last /\ w.free = v.free
      /\ w.images = v.images \cup {Moment(v, disk)}
  BY <1>0, <1>2 DEF Vols, Volumes
<1>4. Moment(v, disk) \in Moments(AllNames, DataAreas)
  BY <1>0, <1>1 DEF Moment, Moments, Vols, Volumes
<1>5. w \in Vols
  BY <1>0, <1>1, <1>2, <1>4 DEF Vols, Volumes
<1>6. Coherent(w)
  BY <1>0, <1>1, <1>3 DEF Coherent
<1>8. Right(Seen(w), w.cut, w.moving, ch, K)
  <2>1. Kept(Seen(v), K) => Kept(Seen(w), K)
    BY <1>1, <1>3 DEF Kept, Seen
  <2>2. Right(Seen(v), v.cut, v.moving, ch, K)
    BY DEF Good
  <2>3. Seen(w).fat = Seen(v).fat /\ Seen(w).dir = Seen(v).dir
    BY <1>3 DEF Seen
  <2> QED BY <1>3, <2>1, <2>2, <2>3 DEF Right
<1>9. Fine(Moment(v, disk), K)
  <2>1. PICK c2 : Right(v.disk, v.cut, v.moving, c2, K)
    BY DEF Good, Fine, Moment
  <2>2. Kept(v.disk, K) => Kept(disk, K)
    BY <1>1 DEF Kept
  <2>3. Right(disk, v.cut, v.moving, c2, K)
    BY <1>1, <2>1, <2>2 DEF Right
  <2> QED BY <2>3 DEF Fine, Moment
<1>10. Moment(w, w.disk) = Moment(v, disk)
  BY <1>3 DEF Moment
<1>11. Good(w, ch, K)
  BY <1>3, <1>5, <1>6, <1>8, <1>9, <1>10 DEF Good
<1>12. Alike([v EXCEPT !.disk = disk], w)
  BY <1>0, <1>3 DEF Alike, Vols, Volumes
<1> QED BY <1>1, <1>3, <1>11, <1>12 DEF w, disk

\* The count and the hint are not on the disk.
LEMMA FieldsGood ==
    ASSUME NEW v, NEW ch, NEW K, Good(v, ch, K), NEW n \in Int
    PROVE  /\ Good([v EXCEPT !.free = n], ch, K) /\ Good([v EXCEPT !.last = n], ch, K)
           /\ Alike([v EXCEPT !.free = n], [v EXCEPT !.free = n])
<1>0. v \in Vols
  BY DEF Good
<1> DEFINE a == [v EXCEPT !.free = n]
           b == [v EXCEPT !.last = n]
<1>1. /\ a \in Vols /\ a.fat = v.fat /\ a.dir = v.dir /\ a.disk = v.disk /\ a.wflag = v.wflag
      /\ a.win = v.win /\ a.cut = v.cut /\ a.moving = v.moving /\ a.images = v.images
  BY <1>0 DEF Vols, Volumes
<1>2. /\ b \in Vols /\ b.fat = v.fat /\ b.dir = v.dir /\ b.disk = v.disk /\ b.wflag = v.wflag
      /\ b.win = v.win /\ b.cut = v.cut /\ b.moving = v.moving /\ b.images = v.images
  BY <1>0 DEF Vols, Volumes
<1> HIDE DEF a, b
<1>3. Good(a, ch, K)
  BY <1>1 DEF Good, Coherent, Seen, Moment
<1>4. Good(b, ch, K)
  BY <1>2 DEF Good, Coherent, Seen, Moment
<1> QED BY <1>3, <1>4 DEF a, b, Alike
-----------------------------------------------------------------------------
\* The file f has the chain s from now on, and the clusters of t are loose.
With(ch, f, s, t) == [ch EXCEPT ![f] = s, ![Loose] = t]
\* What a call about f may touch.
Own(ch, f) == Members(ch[f]) \cup Members(ch[Loose])
Sects(C) == {clust2sect(c) + k : c \in C, k \in 0 .. CSize-1}
Others(ch, f) == UNION {Members(ch[g]) : g \in Holders \ {f, Loose}}
Aside(K, ch, f) == /\ K.clusters \subseteq Others(ch, f)
                   /\ K.sects \subseteq Sects(Others(ch, f))

LEMMA NameFacts == End \notin Names /\ Dde \notin Names /\ Loose \notin Names /\ Loose \in Holders
                   /\ Names \subseteq Holders /\ \A f \in Holders : f \in Names \/ f = Loose
BY FilesAssumption DEF Loose, Holders

LEMMA WithIs ==
    ASSUME NEW ch \in [Holders -> Seq(Cluster)], NEW f \in Names, NEW s \in Seq(Cluster), NEW t \in Seq(Cluster)
    PROVE  /\ With(ch, f, s, t) \in [Holders -> Seq(Cluster)]
           /\ With(ch, f, s, t)[f] = s /\ With(ch, f, s, t)[Loose] = t
           /\ \A g \in Holders : g # f /\ g # Loose => With(ch, f, s, t)[g] = ch[g]
<1>1. f \in Holders /\ f # Loose /\ Loose \in Holders
  BY NameFacts
<1> QED BY <1>1 DEF With

LEMMA OwnWith ==
    ASSUME NEW ch \in [Holders -> Seq(Cluster)], NEW f \in Names, NEW s \in Seq(Cluster), NEW t \in Seq(Cluster)
    PROVE  Own(With(ch, f, s, t), f) = Members(s) \cup Members(t)
BY WithIs DEF Own

LEMMA AsideWith ==
    ASSUME NEW ch \in [Holders -> Seq(Cluster)], NEW f \in Names, NEW s \in Seq(Cluster), NEW t \in Seq(Cluster),
           NEW K, Aside(K, ch, f)
    PROVE  Aside(K, With(ch, f, s, t), f)
<1>1. \A g \in Holders \ {f, Loose} : With(ch, f, s, t)[g] = ch[g]
  BY WithIs
<1> DEFINE w == With(ch, f, s, t)
<1> HIDE DEF w
<1>2. Others(w, f) = Others(ch, f)
  BY <1>1 DEF Others, w
<1> QED BY <1>2 DEF Aside, w

LEMMA OthersAre ==
    ASSUME NEW fat, NEW ch, Layout(fat, ch), NEW f \in Names, NEW c \in Others(ch, f)
    PROVE  c \in Cluster /\ fat[c] # 0 /\ c \notin Own(ch, f)
<1>1. PICK g \in Holders \ {f, Loose} : c \in Members(ch[g])
  BY DEF Others
<1>2. Path(fat, ch[g]) /\ Members(ch[g]) \cap Members(ch[f]) = {} /\ Members(ch[g]) \cap Members(ch[Loose]) = {}
  BY NameFacts DEF Layout
<1>3. Members(ch[g]) \subseteq Cluster /\ \A b \in Members(ch[g]) : fat[b] # 0
  BY <1>2, PathMembers
<1> QED BY <1>1, <1>2, <1>3 DEF Own

\* The chains of a file and the loose ones are laid out anew, in their clusters
\* and free ones.
LEMMA Relaid ==
    ASSUME NEW fat, NEW fat2, NEW ch, Layout(fat, ch), NEW f \in Names, NEW s, NEW t,
           Path(fat2, s), Path(fat2, t), Members(s) \cap Members(t) = {},
           \A c \in Members(s) \cup Members(t) : c \in Own(ch, f) \/ fat[c] = 0,
           \A c \in Cluster : c \notin Own(ch, f) /\ fat[c] # 0 => fat2[c] = fat[c]
    PROVE  /\ Layout(fat2, With(ch, f, s, t))
           /\ Covered(fat, ch)
                /\ (\A c \in Cluster : (c \in Own(ch, f) \/ fat[c] = 0) /\ fat2[c] # 0
                                         => c \in Members(s) \cup Members(t))
                => Covered(fat2, With(ch, f, s, t))
<1> DEFINE w == With(ch, f, s, t)
<1>0. s \in Seq(Cluster) /\ t \in Seq(Cluster) /\ ch \in [Holders -> Seq(Cluster)]
  BY DEF Path, Layout
<1>1. /\ w \in [Holders -> Seq(Cluster)] /\ w[f] = s /\ w[Loose] = t
      /\ \A g \in Holders : g # f /\ g # Loose => w[g] = ch[g]
  BY <1>0, WithIs
<1> HIDE DEF w
<1>2. f \in Holders /\ f # Loose /\ Loose \in Holders
  BY NameFacts
<1>3. \A g \in Holders : Path(fat, ch[g])
  BY DEF Layout
<1>4. ASSUME NEW g \in Holders, g # f, g # Loose
      PROVE  \A c \in Members(ch[g]) : c \in Cluster /\ fat[c] # 0 /\ c \notin Own(ch, f)
  <2>1. Members(ch[g]) \subseteq Cluster /\ \A c \in Members(ch[g]) : fat[c] # 0
    BY <1>3, PathMembers
  <2>2. Members(ch[g]) \cap Members(ch[f]) = {} /\ Members(ch[g]) \cap Members(ch[Loose]) = {}
    BY <1>2, <1>4 DEF Layout
  <2> QED BY <2>1, <2>2 DEF Own
<1>5. ASSUME NEW g \in Holders PROVE Path(fat2, w[g])
  <2>1. CASE g = f \/ g = Loose
    BY <1>1, <2>1
  <2>2. CASE g # f /\ g # Loose
    <3>1. \A c \in Members(ch[g]) : fat2[c] = fat[c]
      BY <1>4, <2>2
    <3>2. Path(fat2, ch[g])
      BY <1>3, <3>1, PathFrame
    <3> QED BY <1>1, <2>2, <3>2
  <2> QED BY <2>1, <2>2
<1>6. ASSUME NEW g \in Holders, g # f, g # Loose
      PROVE  Members(w[g]) \cap (Members(s) \cup Members(t)) = {}
  BY <1>1, <1>4, <1>6
<1>7. ASSUME NEW g \in Holders, NEW h \in Holders, g # h
      PROVE  Members(w[g]) \cap Members(w[h]) = {}
  <2>1. CASE g # f /\ g # Loose /\ h # f /\ h # Loose
    BY <1>1, <1>7, <2>1 DEF Layout
  <2>2. CASE g # f /\ g # Loose /\ (h = f \/ h = Loose)
    BY <1>1, <1>6, <2>2
  <2>3. CASE (g = f \/ g = Loose) /\ h # f /\ h # Loose
    BY <1>1, <1>6, <2>3
  <2>4. CASE (g = f \/ g = Loose) /\ (h = f \/ h = Loose)
    BY <1>1, <1>7, <2>4
  <2> QED BY <2>1, <2>2, <2>3, <2>4
<1>8. Layout(fat2, w)
  BY <1>1, <1>5, <1>7 DEF Layout
<1>9. ASSUME Covered(fat, ch),
             \A c \in Cluster : (c \in Own(ch, f) \/ fat[c] = 0) /\ fat2[c] # 0
                                         => c \in Members(s) \cup Members(t)
      PROVE  Covered(fat2, w)
  <2> SUFFICES ASSUME NEW c \in Cluster, fat2[c] # 0 PROVE \E g \in Holders : c \in Members(w[g])
    BY DEF Covered
  <2>1. CASE c \in Own(ch, f) \/ fat[c] = 0
    <3>1. c \in Members(w[f]) \/ c \in Members(w[Loose])
      BY <1>1, <1>9, <2>1
    <3> QED BY <1>2, <3>1
  <2>2. CASE c \notin Own(ch, f) /\ fat[c] # 0
    <3>1. PICK g \in Holders : c \in Members(ch[g])
      BY <1>9, <2>2 DEF Covered
    <3>2. g # f /\ g # Loose
      BY <2>2, <3>1 DEF Own
    <3> QED BY <1>1, <3>1, <3>2
  <2> QED BY <2>1, <2>2
<1> QED BY <1>8, <1>9 DEF w

\* The same for all that is to be right: with the table fat2, s and t may be the
\* chains of f and of the loose clusters.
Relays(v, ch, f, s, t, fat2) ==
    /\ Path(fat2, s) /\ Path(fat2, t) /\ Members(s) \cap Members(t) = {}
    /\ \A c \in Members(s) \cup Members(t) : c \in Own(ch, f) \/ v.fat[c] = 0
    /\ \A c \in Cluster : c \notin Own(ch, f) /\ v.fat[c] # 0 => fat2[c] = v.fat[c]
    /\ \A c \in Cluster : (c \in Own(ch, f) \/ v.fat[c] = 0) /\ fat2[c] # 0
                                         => c \in Members(s) \cup Members(t)
    /\ \A i \in Used(v.dir) : v.dir[i].name = f /\ f \notin v.cut /\ ~v.moving
                                    => v.dir[i].sclust \in {0, First(s)}

LEMMA RightRelaid ==
    ASSUME NEW v \in Vols, NEW ch, NEW K, Right(Seen(v), v.cut, v.moving, ch, K),
           NEW f \in Names, NEW s, NEW t, NEW fat2, Aside(K, ch, f),
           Relays(v, ch, f, s, t, fat2)
    PROVE  /\ Right([Seen(v) EXCEPT !.fat = fat2], v.cut, v.moving, With(ch, f, s, t), K)
           /\ Aside(K, With(ch, f, s, t), f)
<1>0. /\ Path(fat2, s) /\ Path(fat2, t) /\ Members(s) \cap Members(t) = {}
      /\ \A c \in Members(s) \cup Members(t) : c \in Own(ch, f) \/ v.fat[c] = 0
      /\ \A c \in Cluster : c \notin Own(ch, f) /\ v.fat[c] # 0 => fat2[c] = v.fat[c]
      /\ \A c \in Cluster : (c \in Own(ch, f) \/ v.fat[c] = 0) /\ fat2[c] # 0
                                         => c \in Members(s) \cup Members(t)
      /\ \A i \in Used(v.dir) : v.dir[i].name = f /\ f \notin v.cut /\ ~v.moving
                                    => v.dir[i].sclust \in {0, First(s)}
  BY DEF Relays
<1> DEFINE d == Seen(v)
           w == With(ch, f, s, t)
<1>1. d.fat = v.fat /\ d.dir = v.dir /\ d = [fat |-> d.fat, dir |-> d.dir, data |-> d.data]
  BY DEF Seen
<1> HIDE DEF d
<1>2. [d EXCEPT !.fat = fat2].fat = fat2 /\ [d EXCEPT !.fat = fat2].dir = d.dir
      /\ [d EXCEPT !.fat = fat2].data = d.data
  BY <1>1
<1>r. /\ Layout(v.fat, ch) /\ (K.whole => Covered(v.fat, ch)) /\ Unique(v.dir)
      /\ (~v.moving => Heads(v.dir, ch, v.cut)) /\ Kept(d, K)
  BY <1>1 DEF Right, d
<1>3. Layout(fat2, w) /\ (K.whole => Covered(fat2, w))
  BY <1>0, <1>r, Relaid
<1>4. s \in Seq(Cluster) /\ t \in Seq(Cluster) /\ ch \in [Holders -> Seq(Cluster)]
  BY <1>0, <1>r DEF Path, Layout
<1>5. /\ w[f] = s /\ w[Loose] = t /\ \A g \in Holders : g # f /\ g # Loose => w[g] = ch[g]
  <2> HIDE DEF d
  <2> QED BY <1>4, WithIs
<1> HIDE DEF w
<1>6. ~v.moving => Heads(v.dir, w, v.cut)
  <2> SUFFICES ASSUME ~v.moving, NEW i \in Used(v.dir), v.dir[i].name \notin v.cut
               PROVE  v.dir[i].sclust \in {0, First(w[v.dir[i].name])}
    BY DEF Heads
  <2>1. v.dir \in Dirs(AllNames)
    BY DEF Vols, Volumes
  <2>2. v.dir[i].name \in Names
    BY <2>1 DEF Used, Dirs, Entries, AllNames
  <2>3. v.dir[i].sclust \in {0, First(ch[v.dir[i].name])}
    BY <1>r DEF Heads
  <2>4. CASE v.dir[i].name = f
    BY <1>0, <1>5, <2>4
  <2>5. CASE v.dir[i].name # f
    BY <1>5, <2>2, <2>3, <2>5, NameFacts
  <2> QED BY <2>4, <2>5
<1>7. \A c \in K.clusters : c \in Cluster /\ v.fat[c] # 0 /\ fat2[c] = v.fat[c]
  <2> SUFFICES ASSUME NEW c \in K.clusters PROVE c \in Cluster /\ v.fat[c] # 0 /\ fat2[c] = v.fat[c]
    OBVIOUS
  <2>1. c \in Others(ch, f)
    BY DEF Aside
  <2>2. c \in Cluster /\ v.fat[c] # 0 /\ c \notin Own(ch, f)
    BY <1>r, <2>1, OthersAre
  <2> QED BY <1>0, <2>2
<1>8. Kept([d EXCEPT !.fat = fat2], K)
  BY <1>r, <1>1, <1>2, <1>7 DEF Kept
<1>9. Aside(K, With(ch, f, s, t), f)
  BY <1>4, AsideWith DEF w
<1> QED BY <1>1, <1>2, <1>r, <1>3, <1>6, <1>8, <1>9 DEF Right, d, w
-----------------------------------------------------------------------------
\* A chain in two: the clusters up to the m-th and the others.
LEMMA PathSplit ==
    ASSUME NEW fat, NEW s, Path(fat, s), NEW m \in 1 .. Len(s)
    PROVE  LET a == SubSeq(s, 1, m)
               b == SubSeq(s, m+1, Len(s))
           IN  /\ Members(a) \cup Members(b) = Members(s) /\ Members(a) \cap Members(b) = {}
               /\ s[m] \in Members(a) /\ s[m] \in Cluster
               /\ Len(a) = m /\ Len(b) = Len(s) - m
               /\ \A i \in 1 .. m : a[i] = s[i]
               /\ First(b) = IF m = Len(s) THEN 0 ELSE fat[s[m]]
               /\ First(a) = First(s)
<1> DEFINE n == Len(s)
           a == SubSeq(s, 1, m)
           b == SubSeq(s, m+1, n)
<1>1. n \in Nat /\ m \in Nat /\ m > 0 /\ m <= n /\ s[m] \in Cluster
  BY PathFacts
<1>2. Len(b) = n - m /\ \A i \in 1 .. n-m : b[i] = s[m+i]
  BY PathRest
<1>3. First(b) = IF m = n THEN 0 ELSE fat[s[m]]
  BY PathRest
<1>4. Len(a) = m /\ (\A i \in 1 .. m : a[i] = s[i]) /\ First(a) = First(s)
  <2> DEFINE fat2 == [c \in Members(s) |-> IF c = s[m] THEN Eoc ELSE fat[c]]
  <2>1. s[m] \in Members(s)
    BY DEF Members
  <2>2. fat2[s[m]] = Eoc /\ \A c \in Members(s) : c # s[m] => fat2[c] = fat[c]
    BY <2>1
  <2> HIDE DEF fat2, a
  <2> QED BY <2>2, PathCut DEF a
<1> HIDE DEF a, b
<1>5. Members(a) = {s[i] : i \in 1 .. m}
  BY <1>4 DEF Members
<1>6. Members(b) = {s[i] : i \in m+1 .. n}
  <2>1. Members(b) = {b[i] : i \in 1 .. n-m}
    BY <1>2 DEF Members
  <2>2. \A x : x \in Members(b) => \E i \in m+1 .. n : x = s[i]
    <3> SUFFICES ASSUME NEW i \in 1 .. n-m PROVE \E j \in m+1 .. n : b[i] = s[j]
      BY <2>1
    <3>1. m+i \in m+1 .. n
      BY <1>1
    <3> QED BY <1>2, <3>1
  <2>3. ASSUME NEW i \in m+1 .. n PROVE s[i] \in Members(b)
    <3>1. i-m \in 1 .. n-m /\ m+(i-m) = i
      BY <1>1
    <3>2. b[i-m] = s[i]
      BY <1>2, <3>1
    <3> QED BY <2>1, <3>1, <3>2
  <2> QED BY <2>2, <2>3
<1>7. Members(s) = {s[i] : i \in 1 .. n}
  BY DEF Members
<1> HIDE DEF n
<1>8. Members(a) \cup Members(b) = Members(s)
  <2>1. \A i : i \in 1 .. n <=> i \in 1 .. m \/ i \in m+1 .. n
    BY <1>1 DEF n
  <2> QED BY <1>5, <1>6, <1>7, <2>1
<1>9. ASSUME NEW i \in 1 .. m, NEW j \in m+1 .. n PROVE s[i] # s[j]
  <2>1. i \in 1 .. Len(s) /\ j \in 1 .. Len(s) /\ i # j
    BY <1>1 DEF n
  <2> QED BY <2>1, PathOnce
<1>10. Members(a) \cap Members(b) = {}
  BY <1>5, <1>6, <1>9
<1>11. s[m] \in Members(a)
  <2>1. m \in 1 .. m
    BY <1>1
  <2> QED BY <1>5, <2>1
<1> QED BY <1>1, <1>2, <1>3, <1>4, <1>8, <1>10, <1>11 DEF a, b, n

\* The first cluster of a chain is freed.
LEMMA PathTail ==
    ASSUME NEW fat \in Fats, NEW s, Path(fat, s), s # << >>
    PROVE  LET b == SubSeq(s, 2, Len(s))
               fat2 == [fat EXCEPT ![s[1]] = 0]
           IN  /\ Path(fat2, b) /\ Members(b) = Members(s) \ {s[1]} /\ s[1] \in Members(s)
               /\ s[1] \in Cluster /\ Len(b) = Len(s) - 1
               /\ First(b) = IF b = << >> THEN 0 ELSE fat[s[1]]
               /\ b = << >> => fat[s[1]] = Eoc
<1> DEFINE b == SubSeq(s, 2, Len(s))
           fat2 == [fat EXCEPT ![s[1]] = 0]
<1>1. Len(s) \in Nat /\ 1 \in 1 .. Len(s) /\ (s = << >> <=> Len(s) = 0) /\ s[1] \in Cluster
  BY PathFacts
<1>2. /\ Members(SubSeq(s, 1, 1)) \cup Members(SubSeq(s, 1+1, Len(s))) = Members(s)
      /\ Members(SubSeq(s, 1, 1)) \cap Members(SubSeq(s, 1+1, Len(s))) = {}
      /\ Len(SubSeq(s, 1, 1)) = 1
      /\ \A i \in 1 .. 1 : SubSeq(s, 1, 1)[i] = s[i]
      /\ Len(SubSeq(s, 1+1, Len(s))) = Len(s) - 1
      /\ First(SubSeq(s, 1+1, Len(s))) = IF 1 = Len(s) THEN 0 ELSE fat[s[1]]
  <2> HIDE DEF b, fat2
  <2>1. \A m \in 1 .. Len(s) :
          /\ Members(SubSeq(s, 1, m)) \cup Members(SubSeq(s, m+1, Len(s))) = Members(s)
          /\ Members(SubSeq(s, 1, m)) \cap Members(SubSeq(s, m+1, Len(s))) = {}
          /\ Len(SubSeq(s, 1, m)) = m
          /\ \A i \in 1 .. m : SubSeq(s, 1, m)[i] = s[i]
          /\ Len(SubSeq(s, m+1, Len(s))) = Len(s) - m
          /\ First(SubSeq(s, m+1, Len(s))) = IF m = Len(s) THEN 0 ELSE fat[s[m]]
    BY PathSplit
  <2> QED BY <1>1, <2>1, Zenon
<1>3. 1+1 = 2
  OBVIOUS
<1>4. Members(SubSeq(s, 1, 1)) = {s[1]}
  <2>1. 1 .. 1 = {1}
    OBVIOUS
  <2> QED BY <1>2, <2>1 DEF Members
<1>5. \A i \in 1+1 .. Len(s) : fat2[s[i]] = fat[s[i]]
  <2> SUFFICES ASSUME NEW i \in 1+1 .. Len(s) PROVE fat2[s[i]] = fat[s[i]]
    OBVIOUS
  <2>1. i \in 1 .. Len(s) /\ i # 1
    BY <1>1
  <2>2. s[i] # s[1] /\ s[i] \in Cluster
    BY <1>1, <2>1, PathOnce, PathFacts
  <2> QED BY <2>2 DEF Fats
<1> HIDE DEF fat2
<1>6. Path(fat2, SubSeq(s, 1+1, Len(s)))
  BY <1>1, <1>5, PathRest
<1>7. b = SubSeq(s, 1+1, Len(s))
  BY <1>3, Zenon
<1> HIDE DEF b
<1>8. Path(fat2, b) /\ Len(b) = Len(s) - 1
  BY <1>2, <1>6, <1>7
<1>9. b = << >> <=> Len(s) = 1
  BY <1>1, <1>8, PathFacts
<1>10. Members(b) = Members(s) \ {s[1]} /\ s[1] \in Members(s)
  BY <1>2, <1>4, <1>7
<1>11. Len(s) = 1 => fat[s[1]] = Eoc
  BY <1>1, PathFacts
<1>12. First(b) = IF b = << >> THEN 0 ELSE fat[s[1]]
  BY <1>2, <1>7, <1>9
<1> QED BY <1>1, <1>8, <1>9, <1>10, <1>11, <1>12 DEF b, fat2

-----------------------------------------------------------------------------
\* The count of free clusters.
FreeIn(fat) == {c \in Cluster : fat[c] = 0}
FreeRight(v) == v.free # Unknown => v.free = Cardinality(FreeIn(v.fat))

LEMMA FreeChanges ==
    ASSUME NEW fat \in Fats, NEW c \in Cluster, NEW x \in Links
    PROVE  /\ Cardinality(FreeIn(fat)) \in Nat
           /\ fat[c] # 0 /\ x = 0 => Cardinality(FreeIn([fat EXCEPT ![c] = x])) = Cardinality(FreeIn(fat)) + 1
           /\ fat[c] = 0 /\ x # 0 => Cardinality(FreeIn([fat EXCEPT ![c] = x])) = Cardinality(FreeIn(fat)) - 1
           /\ fat[c] # 0 /\ x # 0 => FreeIn([fat EXCEPT ![c] = x]) = FreeIn(fat)
<1> DEFINE F == FreeIn(fat)
           G == FreeIn([fat EXCEPT ![c] = x])
<1>1. IsFiniteSet(F)
  <2>1. Clusters \in Nat
    BY VolumeAssumption
  <2>2. IsFiniteSet(Cluster)
    BY <2>1, FS_Interval DEF Cluster
  <2> QED BY <2>2, FS_Subset DEF FreeIn
<1>2. fat[c] # 0 /\ x = 0 => G = F \cup {c} /\ c \notin F
  BY DEF FreeIn, Fats
<1>3. fat[c] = 0 /\ x # 0 => G = F \ {c} /\ c \in F
  BY DEF FreeIn, Fats
<1>4. fat[c] # 0 /\ x # 0 => G = F
  BY DEF FreeIn, Fats
<1> HIDE DEF F, G
<1>5. Cardinality(F) \in Nat
  BY <1>1, FS_CardinalityType
<1>6. fat[c] # 0 /\ x = 0 => Cardinality(G) = Cardinality(F) + 1
  BY <1>1, <1>2, FS_AddElement
<1>7. fat[c] = 0 /\ x # 0 => Cardinality(G) = Cardinality(F) - 1
  BY <1>1, <1>3, FS_RemoveElement
<1> QED BY <1>4, <1>5, <1>6, <1>7 DEF F, G

LEMMA CountedRight ==
    ASSUME NEW v \in Vols, NEW ch, NEW K, Good(v, ch, K), NEW n \in Int,
           v.free # Unknown => v.free + n = Cardinality(FreeIn(v.fat))
    PROVE  /\ Good(Counted(v, n), ch, K) /\ FreeRight(Counted(v, n))
           /\ Counted(v, n) = [v EXCEPT !.free = Counted(v, n).free]
<1> DEFINE m == IF v.free = Unknown THEN v.free ELSE v.free + n
<1>1. Counted(v, n) = [v EXCEPT !.free = m] /\ m \in Int
  BY DEF Counted, Vols, Volumes
<1>2. [v EXCEPT !.free = m].free = m /\ [v EXCEPT !.free = m].fat = v.fat
  BY DEF Vols, Volumes
<1> HIDE DEF m
<1>3. Good([v EXCEPT !.free = m], ch, K)
  BY <1>1, FieldsGood
<1> QED BY <1>1, <1>2, <1>3 DEF FreeRight, m
-----------------------------------------------------------------------------
\* w has the directory of v, and its data.
Beside(v, w) == w.dir = v.dir /\ w.disk.data = v.disk.data /\ w.cut = v.cut /\ w.moving = v.moving

LEMMA GoodFacts ==
    ASSUME NEW v, NEW ch, NEW K, Good(v, ch, K)
    PROVE  /\ v \in Vols /\ v.fat \in Fats /\ v.dir \in Dirs(AllNames) /\ v.disk.data \in DataAreas
           /\ v.last \in Int /\ v.free \in Int
           /\ Layout(v.fat, ch) /\ ch \in [Holders -> Seq(Cluster)]
           /\ \A f \in Holders : Path(v.fat, ch[f])
           /\ K.whole => Covered(v.fat, ch)
           /\ Unique(v.dir) /\ (~v.moving => Heads(v.dir, ch, v.cut)) /\ Kept(Seen(v), K)
           /\ Right(Seen(v), v.cut, v.moving, ch, K)
BY DEF Good, Right, Seen, Layout, Vols, Volumes, Disks

LEMMA UsedFacts ==
    ASSUME NEW dir \in Dirs(AllNames), NEW i \in Used(dir)
    PROVE  i \in 1 .. Slots /\ dir[i].name \in Names /\ dir[i].sclust \in {0} \cup Cluster
           /\ dir[i].size \in Nat /\ dir[i] \in Entries(AllNames)
BY DEF Used, Dirs, Entries, AllNames

LEMMA WithWith ==
    ASSUME NEW ch \in [Holders -> Seq(Cluster)], NEW f \in Names,
           NEW s \in Seq(Cluster), NEW t \in Seq(Cluster), NEW a, NEW b
    PROVE  With(With(ch, f, a, b), f, s, t) = With(ch, f, s, t)
<1>1. f \in Holders /\ f # Loose /\ Loose \in Holders
  BY NameFacts
<1> QED BY <1>1 DEF With

LEMMA WithSame ==
    ASSUME NEW ch \in [Holders -> Seq(Cluster)], NEW f \in Names
    PROVE  With(ch, f, ch[f], ch[Loose]) = ch
<1>1. f \in Holders /\ f # Loose /\ Loose \in Holders
  BY NameFacts
<1> QED BY <1>1 DEF With

\* One round of remove_chain.
LEMMA FreedStep ==
    ASSUME NEW v, NEW ch, NEW K, NEW f \in Names, Good(v, ch, K), FreeRight(v),
           Aside(K, ch, f), ch[Loose] # << >>
    PROVE  LET r == Freed([v |-> v, clst |-> First(ch[Loose])])
               t == SubSeq(ch[Loose], 2, Len(ch[Loose]))
           IN  /\ Good(r.v, With(ch, f, ch[f], t), K) /\ FreeRight(r.v) /\ Beside(v, r.v)
               /\ Aside(K, With(ch, f, ch[f], t), f)
               /\ Len(t) = Len(ch[Loose]) - 1 /\ t \in Seq(Cluster)
               /\ r.clst = IF t = << >> THEN Eoc ELSE First(t)
               /\ r = [v |-> r.v, clst |-> r.clst]
<1> DEFINE s == ch[Loose]
           c == First(s)
           t == SubSeq(s, 2, Len(s))
           fat2 == [v.fat EXCEPT ![c] = 0]
           w == seek_fat(v, c)
           u == put_fat(w, c, 0)
           r == Freed([v |-> v, clst |-> c])
<1>1. /\ v \in Vols /\ v.fat \in Fats /\ Path(v.fat, s) /\ Path(v.fat, ch[f]) /\ Layout(v.fat, ch)
      /\ Right(Seen(v), v.cut, v.moving, ch, K) /\ (~v.moving => Heads(v.dir, ch, v.cut))
      /\ v.dir \in Dirs(AllNames)
  BY GoodFacts, NameFacts
<1>2. c = s[1]
  BY <1>1, PathFacts
<1>3. /\ Path(fat2, t) /\ Members(t) = Members(s) \ {c} /\ c \in Members(s)
      /\ c \in Cluster /\ Len(t) = Len(s) - 1
      /\ First(t) = IF t = << >> THEN 0 ELSE v.fat[c]
      /\ t = << >> => v.fat[c] = Eoc
  <2> HIDE DEF s
  <2>1. s # << >>
    BY DEF s
  <2> QED BY <1>1, <1>2, <2>1, PathTail
<1>4. /\ Members(ch[f]) \cap Members(s) = {} /\ Members(ch[f]) \subseteq Cluster
      /\ Members(s) \subseteq Cluster /\ v.fat[c] # 0
  <2>1. Members(ch[f]) \cap Members(s) = {}
    BY <1>1, NameFacts DEF Layout
  <2> QED BY <1>1, <1>3, <2>1, PathMembers
<1> HIDE DEF c, s, t
<1>5. Own(ch, f) = Members(ch[f]) \cup Members(s)
  BY DEF Own, s
<1>6. \A b \in Cluster : b # c => fat2[b] = v.fat[b]
  BY <1>1 DEF Fats
<1>7. fat2[c] = 0
  BY <1>1, <1>3 DEF Fats
<1>f. fat2 = [v.fat EXCEPT ![c] = 0]
  OBVIOUS
<1> HIDE DEF fat2
<1>8. Path(fat2, ch[f])
  <2>1. \A b \in Members(ch[f]) : fat2[b] = v.fat[b]
    BY <1>3, <1>4, <1>6
  <2> QED BY <1>1, <2>1, PathFrame
<1>9. \A i \in Used(v.dir) : v.dir[i].name = f /\ f \notin v.cut /\ ~v.moving
                                    => v.dir[i].sclust \in {0, First(ch[f])}
  BY <1>1 DEF Heads
<1>10. Right([Seen(v) EXCEPT !.fat = fat2], v.cut, v.moving, With(ch, f, ch[f], t), K)
       /\ Aside(K, With(ch, f, ch[f], t), f)
  <2>1. Members(ch[f]) \cap Members(t) = {}
    BY <1>3, <1>4
  <2>2. \A b \in Members(ch[f]) \cup Members(t) : b \in Own(ch, f) \/ v.fat[b] = 0
    BY <1>3, <1>5
  <2>3. \A b \in Cluster : b \notin Own(ch, f) /\ v.fat[b] # 0 => fat2[b] = v.fat[b]
    BY <1>3, <1>5, <1>6
  <2>4. \A b \in Cluster : (b \in Own(ch, f) \/ v.fat[b] = 0) /\ fat2[b] # 0
                                         => b \in Members(ch[f]) \cup Members(t)
    BY <1>3, <1>4, <1>5, <1>6, <1>7
  <2> HIDE DEF r, u, w
  <2>5. Path(fat2, t)
    BY <1>3
  <2>6. Relays(v, ch, f, ch[f], t, fat2)
    BY <1>8, <1>9, <2>1, <2>2, <2>3, <2>4, <2>5, Zenon DEF Relays
  <2> QED BY <1>1, <2>6, RightRelaid, Zenon
<1>11. Good(w, ch, K) /\ Alike(v, w)
  <2>1. FatSector(c) \in Sectors
    BY <1>3 DEF Sectors
  <2> QED BY <2>1, MoveGood DEF seek_fat
<1> HIDE DEF w
<1>12. Seen(w) = Seen(v) /\ w.fat = v.fat /\ w.cut = v.cut /\ w.moving = v.moving /\ w.free = v.free
       /\ w.dir = v.dir /\ w.disk.data = v.disk.data
  BY <1>11 DEF Alike, Seen
<1> DEFINE ch2 == With(ch, f, ch[f], t)
<1> HIDE DEF ch2
<1>13. Good(u, ch2, K) /\ Alike([w EXCEPT !.fat = fat2], u)
  <2>0. 0 \in Links
    BY DEF Links
  <2>1. Right([Seen(w) EXCEPT !.fat = [w.fat EXCEPT ![c] = 0]], w.cut, w.moving, ch2, K)
    BY <1>10, <1>12, <1>f DEF ch2
  <2>2. \A x \in Links : x = 0 =>
           Good(put_fat(w, c, x), ch2, K) /\ Alike([w EXCEPT !.fat = [w.fat EXCEPT ![c] = x]], put_fat(w, c, x))
    BY <1>3, <1>11, <2>1, PutFatGood
  <2>3. [w.fat EXCEPT ![c] = 0] = fat2
    BY <1>12, <1>f
  <2> QED BY <2>0, <2>2, <2>3, Zenon
<1> HIDE DEF u
<1>14. /\ u \in Vols /\ u.fat = fat2 /\ u.free = v.free /\ u.dir = v.dir
       /\ u.disk.data = v.disk.data /\ u.cut = v.cut /\ u.moving = v.moving
  <2>1. w \in Vols /\ u \in Vols
    BY <1>11, <1>13 DEF Good
  <2> QED BY <1>12, <1>13, <2>1 DEF Alike, Vols, Volumes
<1>15. u.free # Unknown => u.free + 1 = Cardinality(FreeIn(u.fat))
  <2>1. Cardinality(FreeIn(fat2)) = Cardinality(FreeIn(v.fat)) + 1
    <3>1. 0 \in Links
      BY DEF Links
    <3> QED BY <1>1, <1>3, <1>4, <1>f, <3>1, FreeChanges
  <2> QED BY <1>14, <2>1 DEF FreeRight
<1>16. Good(Counted(u, 1), ch2, K) /\ FreeRight(Counted(u, 1)) /\ Beside(u, Counted(u, 1))
  <2> HIDE DEF ch2
  <2>1. /\ Good(Counted(u, 1), ch2, K) /\ FreeRight(Counted(u, 1))
        /\ Counted(u, 1) = [u EXCEPT !.free = Counted(u, 1).free]
    BY <1>13, <1>14, <1>15, CountedRight
  <2> QED BY <1>14, <2>1 DEF Beside, Vols, Volumes
<1>17. r = [v |-> Counted(u, 1), clst |-> v.fat[c]]
  BY <1>3, <1>4, <1>12 DEF Freed, u, w
<1> HIDE DEF r
<1>18. r.v = Counted(u, 1) /\ r.clst = v.fat[c]
  BY <1>17
<1>19. Beside(v, r.v)
  BY <1>14, <1>16, <1>18 DEF Beside
<1>20. r.clst = IF t = << >> THEN Eoc ELSE First(t)
  BY <1>3, <1>18
<1>21. t \in Seq(Cluster)
  BY <1>3 DEF Path
<1> QED BY <1>3, <1>10, <1>16, <1>17, <1>18, <1>19, <1>20, <1>21 DEF ch2, r, c, s, t

-----------------------------------------------------------------------------
\* The rounds of remove_chain one after the other.
FreedAfter(n, x) == Loop(LAMBDA r, k : Freed(r), x, n)
FreedSo(it, x, n) == /\ it[0] = x /\ \A j \in 1 .. n : it[j] = Freed(it[j-1])
                     /\ FreedAfter(n, x) = it[n]

LEMMA FreedRuns ==
    ASSUME NEW n \in Nat, NEW V, NEW x \in V, \A r \in V : Freed(r) \in V
    PROVE  \E it : /\ \A j \in 0 .. n : it[j] \in V
                   /\ FreedSo(it, x, n)
<1> DEFINE F(h) == [k \in 0 .. n |-> IF k = 0 THEN x ELSE Freed(h[k-1])]
           it == CHOOSE h : h = F(h)
           g == [k \in 1 .. n |-> [r \in V |-> Freed(r)]]
<1>1. PICK p \in [0 .. n -> V] : Goes(p, g, x, n)
  <2>1. g \in [1 .. n -> [V -> V]]
    OBVIOUS
  <2> HIDE DEF g, it, F
  <2> QED BY <2>1, RoundsExist, Zenon
<1> HIDE DEF it
<1>2. p[0] = x /\ \A k \in 1 .. n : p[k-1] \in V /\ p[k] = Freed(p[k-1])
  <2> HIDE DEF F
  <2>1. p[0] = x /\ \A k \in 1 .. n : p[k] = g[k][p[k-1]]
    BY <1>1 DEF Goes
  <2>2. \A k \in 1 .. n : p[k-1] \in V
    OBVIOUS
  <2> QED BY <2>1, <2>2
<1>3. p = F(p)
  BY <1>2
<1>4. it = F(it)
  <2> HIDE DEF F
  <2> QED BY <1>3, Zenon DEF it
<1>5. FreedAfter(n, x) = it[n]
  BY Zenon DEF FreedAfter, Loop, it
<1>6. it[0] = x /\ \A j \in 1 .. n : it[j] = Freed(it[j-1])
  BY <1>4
<1> DEFINE T == {j \in 0 .. n : it[j] \in V}
<1>7. T \in SUBSET (0 .. n) /\ 0 \in T /\ \A j \in 1 .. n : j-1 \in T => j \in T
  BY <1>6
<1> HIDE DEF T
<1>8. \A j \in 0 .. n : j \in T
  BY <1>7, Stepwise
<1>9. FreedSo(it, x, n)
  BY <1>5, <1>6 DEF FreedSo
<1> QED BY <1>8, <1>9 DEF T

\* remove_chain frees the loose clusters, and nothing else.
LEMMA RemoveGood ==
    ASSUME NEW v, NEW ch, NEW K, NEW f \in Names, Good(v, ch, K), FreeRight(v),
           Aside(K, ch, f), NEW c, c = First(ch[Loose])
    PROVE  LET w == remove_chain(v, c)
           IN  /\ Good(w, With(ch, f, ch[f], Nil), K) /\ FreeRight(w) /\ Beside(v, w)
               /\ Aside(K, With(ch, f, ch[f], Nil), f)
<1> DEFINE Has(r, t) ==
              /\ t \in Seq(Cluster) /\ Good(r.v, With(ch, f, ch[f], t), K) /\ FreeRight(r.v)
              /\ Aside(K, With(ch, f, ch[f], t), f) /\ Beside(v, r.v)
              /\ r = [v |-> r.v, clst |-> r.clst]
              /\ r.clst = First(t) \/ (t = << >> /\ r.clst = Eoc)
           V == {r \in [v : Vols, clst : Links] : \E t : Has(r, t)}
           x == [v |-> v, clst |-> c]
<1>1. /\ v \in Vols /\ ch \in [Holders -> Seq(Cluster)] /\ ch[Loose] \in Seq(Cluster) /\ ch[f] \in Seq(Cluster)
      /\ Path(v.fat, ch[Loose])
  BY GoodFacts, NameFacts
<1>2. ASSUME NEW r, NEW t, Has(r, t)
      PROVE  \E t2 : Has(Freed(r), t2) /\ (Len(t) > 0 => Len(t2) = Len(t)-1) /\ (Len(t) = 0 => Len(t2) = 0)
  <2>1. CASE t = << >>
    <3>1. r.clst = 0 \/ r.clst = Eoc
      BY <1>2, <2>1 DEF First
    <3>2. Freed(r) = r
      BY <3>1, NoCluster DEF Freed
    <3>3. Len(t) = 0
      BY <2>1, EmptySeq
    <3>4. Has(Freed(r), t)
      BY <1>2, <3>2
    <3> HIDE DEF Has
    <3> QED BY <3>3, <3>4
  <2>2. CASE t # << >>
    <3> DEFINE c1 == With(ch, f, ch[f], t)
               t2 == SubSeq(t, 2, Len(t))
    <3>1. c1[f] = ch[f] /\ c1[Loose] = t /\ Own(c1, f) = Members(ch[f]) \cup Members(t)
      <4>1. t \in Seq(Cluster)
        BY <1>2
      <4> HIDE DEF Has, V
      <4>2. c1[f] = ch[f] /\ c1[Loose] = t
        BY <1>1, <4>1, WithIs
      <4>3. Own(c1, f) = Members(ch[f]) \cup Members(t)
        BY <1>1, <4>1, OwnWith
      <4> QED BY <4>2, <4>3
    <3>2. r.clst = First(c1[Loose]) /\ r = [v |-> r.v, clst |-> r.clst]
      BY <1>2, <2>2, <3>1
    <3> HIDE DEF c1
    <3>g. Good(r.v, c1, K) /\ FreeRight(r.v) /\ Aside(K, c1, f) /\ c1[Loose] # << >>
      BY <1>2, <2>2, <3>1 DEF c1
    <3>3. LET q == Freed([v |-> r.v, clst |-> First(c1[Loose])])
              u == SubSeq(c1[Loose], 2, Len(c1[Loose]))
          IN  /\ Good(q.v, With(c1, f, c1[f], u), K) /\ FreeRight(q.v) /\ Beside(r.v, q.v)
              /\ Aside(K, With(c1, f, c1[f], u), f)
              /\ Len(u) = Len(c1[Loose]) - 1 /\ u \in Seq(Cluster)
              /\ q.clst = IF u = << >> THEN Eoc ELSE First(u)
              /\ q = [v |-> q.v, clst |-> q.clst]
      BY <3>g, FreedStep
    <3>4. LET q == Freed(r)
          IN  /\ Good(q.v, With(c1, f, c1[f], t2), K) /\ FreeRight(q.v) /\ Beside(r.v, q.v)
              /\ Aside(K, With(c1, f, c1[f], t2), f)
              /\ Len(t2) = Len(t) - 1 /\ t2 \in Seq(Cluster)
              /\ q.clst = IF t2 = << >> THEN Eoc ELSE First(t2)
              /\ q = [v |-> q.v, clst |-> q.clst]
      BY <3>1, <3>2, <3>3
    <3> HIDE DEF t2
    <3>5. With(c1, f, c1[f], t2) = With(ch, f, ch[f], t2)
      <4>0. t2 \in Seq(Cluster) /\ ch[f] \in Seq(Cluster) /\ ch \in [Holders -> Seq(Cluster)]
        BY <1>1, <3>4
      <4>1. \A a, b : With(With(ch, f, a, b), f, ch[f], t2) = With(ch, f, ch[f], t2)
        BY <4>0, WithWith
      <4>2. With(c1, f, ch[f], t2) = With(ch, f, ch[f], t2)
        BY <4>1, Zenon DEF c1
      <4> QED BY <3>1, <4>2
    <3>6. Beside(v, Freed(r).v)
      BY <1>2, <3>4 DEF Beside
    <3>7. Has(Freed(r), t2)
      BY <3>1, <3>4, <3>5, <3>6
    <3>8. Len(t) \in Nat /\ Len(t) # 0
      BY <1>2, <2>2, ListFacts
    <3> QED BY <3>4, <3>7, <3>8
  <2> QED BY <2>1, <2>2
<1>3. ASSUME NEW r, NEW t, Has(r, t) PROVE r \in V
  <2>1. r.v \in Vols
    BY <1>3 DEF Good
  <2>2. r.clst \in Links
    <3>1. First(t) \in {0} \cup Cluster
      BY <1>3, ListFacts DEF First
    <3> QED BY <1>3, <3>1 DEF Links
  <2>3. r = [v |-> r.v, clst |-> r.clst]
    BY <1>3
  <2> HIDE DEF Has
  <2>4. r \in [v : Vols, clst : Links]
    BY <2>1, <2>2, <2>3
  <2> QED BY <1>3, <2>4
<1>4. Has(x, ch[Loose])
  <2>1. With(ch, f, ch[f], ch[Loose]) = ch
    BY <1>1, WithSame
  <2> QED BY <1>1, <2>1 DEF Own, Beside
<1>5. Len(ch[Loose]) <= Clusters /\ Len(ch[Loose]) \in Nat /\ Clusters \in Nat
  BY <1>1, PathShort, ListFacts, VolumeAssumption
<1> HIDE DEF Has
<1>i. PICK it : (\A j \in 0 .. Clusters : it[j] \in V) /\ FreedSo(it, x, Clusters)
  <2>1. x \in V
    BY <1>3, <1>4
  <2>2. \A r \in V : Freed(r) \in V
    BY <1>2, <1>3
  <2> HIDE DEF V, x
  <2> QED BY <1>5, <2>1, <2>2, FreedRuns, Zenon
<1>6. /\ it[0] = x /\ \A j \in 1 .. Clusters : it[j] = Freed(it[j-1])
      /\ FreedAfter(Clusters, x) = it[Clusters]
  BY <1>i DEF FreedSo
<1> HIDE DEF V, x
<1> DEFINE T == {j \in 0 .. Clusters : \E t : Has(it[j], t) /\ Len(t) <= Clusters - j}
<1>7. T \in SUBSET (0 .. Clusters) /\ 0 \in T
  <2>1. Has(it[0], ch[Loose]) /\ Len(ch[Loose]) <= Clusters - 0
    BY <1>4, <1>5, <1>6
  <2> QED BY <1>5, <2>1
<1>8. \A j \in 1 .. Clusters : j-1 \in T => j \in T
  <2> SUFFICES ASSUME NEW j \in 1 .. Clusters, j-1 \in T PROVE j \in T
    OBVIOUS
  <2>1. PICK t : Has(it[j-1], t) /\ Len(t) <= Clusters - (j-1)
    OBVIOUS
  <2>2. PICK t2 : Has(it[j], t2) /\ (Len(t) > 0 => Len(t2) = Len(t)-1) /\ (Len(t) = 0 => Len(t2) = 0)
    BY <1>2, <1>6, <2>1
  <2>3. Len(t) \in Nat
    BY <2>1, ListFacts DEF Has
  <2>4. Len(t2) <= Clusters - j
    BY <1>5, <2>1, <2>2, <2>3
  <2> QED BY <2>2, <2>4
<1> HIDE DEF T
<1>9. Clusters \in T
  <2>1. \A m \in 0 .. Clusters : m \in T
    BY <1>5, <1>7, <1>8, Stepwise, Zenon
  <2> QED BY <1>5, <2>1
<1>10. PICK t : Has(it[Clusters], t) /\ Len(t) <= Clusters - Clusters
  BY <1>9 DEF T
<1>11. t = Nil
  BY <1>5, <1>10, NilIs DEF Has
<1>12. remove_chain(v, c) = it[Clusters].v
  BY <1>6, Zenon DEF remove_chain, FreedAfter, x
<1>13. Members(Nil) = {}
  BY NilIs
<1> QED BY <1>10, <1>11, <1>12, <1>13 DEF Has
-----------------------------------------------------------------------------
\* An entry of the table is changed so that s and t are the chains.
LEMMA LaidGood ==
    ASSUME NEW v, NEW ch, NEW K, Good(v, ch, K), NEW f \in Names, NEW s, NEW t,
           Aside(K, ch, f), NEW c \in Cluster, NEW x \in Links,
           Relays(v, ch, f, s, t, [v.fat EXCEPT ![c] = x])
    PROVE  LET w == put_fat(v, c, x)
           IN  /\ Good(w, With(ch, f, s, t), K) /\ Beside(v, w) /\ w.free = v.free /\ w.last = v.last
               /\ w.fat = [v.fat EXCEPT ![c] = x]
               /\ Aside(K, With(ch, f, s, t), f)
<1> DEFINE fat2 == [v.fat EXCEPT ![c] = x]
           w == put_fat(v, c, x)
           ch2 == With(ch, f, s, t)
<1>1. v \in Vols /\ Right(Seen(v), v.cut, v.moving, ch, K)
  BY GoodFacts
<1>2. Right([Seen(v) EXCEPT !.fat = fat2], v.cut, v.moving, ch2, K)
      /\ Aside(K, With(ch, f, s, t), f)
  <2> HIDE DEF w
  <2> QED BY <1>1, RightRelaid, Zenon
<1> HIDE DEF ch2, w
<1>3. Good(w, ch2, K) /\ Alike([v EXCEPT !.fat = fat2], w)
  BY <1>2, PutFatGood, Zenon DEF w
<1> HIDE DEF fat2
<1>4. Beside(v, w) /\ w.free = v.free /\ w.last = v.last /\ w.fat = fat2
  BY <1>1, <1>3 DEF Alike, Beside, Vols, Volumes
<1> QED BY <1>2, <1>3, <1>4 DEF w, ch2, fat2

\* Clusters change hands without a change of the table.
LEMMA RelabelGood ==
    ASSUME NEW v, NEW ch, NEW K, Good(v, ch, K), NEW f \in Names, NEW s, NEW t,
           Aside(K, ch, f), Relays(v, ch, f, s, t, v.fat)
    PROVE  Good(v, With(ch, f, s, t), K) /\ Aside(K, With(ch, f, s, t), f)
<1>1. v \in Vols /\ Right(Seen(v), v.cut, v.moving, ch, K)
  BY GoodFacts
<1>2. Right([Seen(v) EXCEPT !.fat = v.fat], v.cut, v.moving, With(ch, f, s, t), K)
      /\ Aside(K, With(ch, f, s, t), f)
  BY <1>1, RightRelaid, Zenon
<1>3. [Seen(v) EXCEPT !.fat = v.fat] = Seen(v)
  BY DEF Seen
<1> QED BY <1>2, <1>3 DEF Good

-----------------------------------------------------------------------------
\* Sectors come into the window one after the other.
VisitedSo(it, v, xs) == /\ it[0] = v /\ \A j \in 1 .. Len(xs) : it[j] = move_window(it[j-1], xs[j])
                        /\ Visited(v, xs) = it[Len(xs)]

LEMMA VisitedRuns ==
    ASSUME NEW xs \in Seq(Sectors), NEW V, NEW v \in V,
           \A w \in V : \A x \in Sectors : move_window(w, x) \in V
    PROVE  \E it : (\A j \in 0 .. Len(xs) : it[j] \in V) /\ VisitedSo(it, v, xs)
<1> DEFINE n == Len(xs)
           F(h) == [k \in 0 .. n |-> IF k = 0 THEN v ELSE move_window(h[k-1], xs[k])]
           it == CHOOSE h : h = F(h)
           g == [k \in 1 .. n |-> [w \in V |-> move_window(w, xs[k])]]
<1>0. n \in Nat /\ \A k \in 1 .. n : xs[k] \in Sectors
  BY ListFacts
<1> HIDE DEF n, it
<1>1. PICK p \in [0 .. n -> V] : Goes(p, g, v, n)
  <2>1. g \in [1 .. n -> [V -> V]]
    BY <1>0
  <2> HIDE DEF g, F
  <2> QED BY <1>0, <2>1, RoundsExist, Zenon
<1>2. p[0] = v /\ \A k \in 1 .. n : p[k-1] \in V /\ p[k] = move_window(p[k-1], xs[k])
  <2> HIDE DEF F
  <2>1. p[0] = v /\ \A k \in 1 .. n : p[k] = g[k][p[k-1]]
    BY <1>1 DEF Goes
  <2>2. \A k \in 1 .. n : p[k-1] \in V
    BY <1>0
  <2> QED BY <2>1, <2>2
<1>3. p = F(p)
  BY <1>2
<1>4. it = F(it)
  <2> HIDE DEF F
  <2> QED BY <1>3, Zenon DEF it
<1>5. Visited(v, xs) = it[n]
  BY Zenon DEF Visited, Loop, it, n
<1>6. it[0] = v /\ \A j \in 1 .. n : it[j] = move_window(it[j-1], xs[j])
  BY <1>0, <1>4
<1> DEFINE T == {j \in 0 .. n : it[j] \in V}
<1>7. T \in SUBSET (0 .. n) /\ 0 \in T /\ \A j \in 1 .. n : j-1 \in T => j \in T
  BY <1>0, <1>6
<1> HIDE DEF T
<1>8. \A j \in 0 .. n : j \in T
  BY <1>0, <1>7, Stepwise
<1>9. VisitedSo(it, v, xs)
  BY <1>5, <1>6 DEF VisitedSo, n
<1> QED BY <1>8, <1>9 DEF T, n

LEMMA VisitedGood ==
    ASSUME NEW v, NEW ch, NEW K, Good(v, ch, K), NEW xs \in Seq(Sectors)
    PROVE  Good(Visited(v, xs), ch, K) /\ Alike(v, Visited(v, xs))
<1> DEFINE V == {w \in Vols : Good(w, ch, K) /\ Alike(v, w)}
<1>1. v \in V
  BY DEF Good, Alike
<1>2. ASSUME NEW w \in V, NEW x \in Sectors PROVE move_window(w, x) \in V
  <2>1. Good(move_window(w, x), ch, K) /\ Alike(w, move_window(w, x))
    BY MoveGood
  <2>2. Alike(v, move_window(w, x)) /\ move_window(w, x) \in Vols
    BY <2>1 DEF Alike, Good
  <2> QED BY <2>1, <2>2
<1>0. Len(xs) \in Nat
  BY ListFacts
<1>3. \A w \in V : Good(w, ch, K) /\ Alike(v, w)
  OBVIOUS
<1> HIDE DEF V
<1>4. PICK it : (\A j \in 0 .. Len(xs) : it[j] \in V) /\ VisitedSo(it, v, xs)
  BY <1>1, <1>2, VisitedRuns
<1>5. Visited(v, xs) \in V
  BY <1>0, <1>4 DEF VisitedSo
<1> QED BY <1>3, <1>5

\* w differs from v in what was read, and written back, only.
Quiet(v, w) == Alike(v, w) /\ \A ch, K : Good(v, ch, K) => Good(w, ch, K)

LEMMA QuietSame == \A v : Quiet(v, v)
BY DEF Quiet, Alike

LEMMA QuietTwice ==
    ASSUME NEW u, NEW v, NEW w, Quiet(u, v), Quiet(v, w)
    PROVE  Quiet(u, w)
BY DEF Quiet, Alike

LEMMA MoveQuiet ==
    ASSUME NEW v, NEW c0, NEW K0, Good(v, c0, K0), NEW x \in Sectors
    PROVE  Quiet(v, move_window(v, x))
<1>1. Alike(v, move_window(v, x))
  BY MoveGood
<1>2. ASSUME NEW ch, NEW K, Good(v, ch, K) PROVE Good(move_window(v, x), ch, K)
  BY <1>2, MoveGood
<1> QED BY <1>1, <1>2 DEF Quiet

LEMMA SeekQuiet ==
    ASSUME NEW v, NEW c0, NEW K0, Good(v, c0, K0), NEW c \in Cluster
    PROVE  Quiet(v, seek_fat(v, c)) /\ seek_fat(v, c).fat = v.fat
<1>1. FatSector(c) \in Sectors
  BY DEF Sectors
<1>2. Quiet(v, seek_fat(v, c))
  BY <1>1, MoveQuiet DEF seek_fat
<1> QED BY <1>2 DEF Quiet, Alike

LEMMA VisitedQuiet ==
    ASSUME NEW v, NEW c0, NEW K0, Good(v, c0, K0), NEW xs \in Seq(Sectors)
    PROVE  Quiet(v, Visited(v, xs))
<1>1. Alike(v, Visited(v, xs))
  BY VisitedGood
<1>2. ASSUME NEW ch, NEW K, Good(v, ch, K) PROVE Good(Visited(v, xs), ch, K)
  BY <1>2, VisitedGood
<1> QED BY <1>1, <1>2 DEF Quiet

-----------------------------------------------------------------------------
LEMMA ProbesAre ==
    ASSUME NEW from \in {1} \cup Cluster
    PROVE  /\ Probes(from) \in Seq(Cluster) /\ Len(Probes(from)) = Clusters
           /\ \A k \in 1 .. Clusters : Probes(from)[k] \in Cluster
<1>1. Clusters \in Nat \ {0}
  BY VolumeAssumption
<1>2. ASSUME NEW k \in 1 .. Clusters PROVE 2 + ((from - 2 + k) % Clusters) \in Cluster
  <2>1. from - 2 + k \in Nat
    BY <1>1 DEF Cluster
  <2> DEFINE y == from - 2 + k
  <2> HIDE DEF y
  <2>2. y % Clusters \in 0 .. Clusters-1
    BY <1>1, <2>1, WrapIs DEF y
  <2>3. 2 + (y % Clusters) \in Cluster
    BY <1>1, <2>2 DEF Cluster
  <2> QED BY <2>3 DEF y
<1> QED BY <1>1, <1>2 DEF Probes

\* The sectors that create_chain reads are of the table.
LEMMA SeenSectors ==
    ASSUME NEW probes \in Seq(Cluster), NEW k \in 0 .. Len(probes)
    PROVE  LET seen == IF k = 0 THEN probes ELSE SubSeq(probes, 1, k)
           IN  [j \in DOMAIN seen |-> FatSector(seen[j])] \in Seq(Sectors)
<1> DEFINE seen == IF k = 0 THEN probes ELSE SubSeq(probes, 1, k)
<1>1. Len(probes) \in Nat /\ \A i \in 1 .. Len(probes) : probes[i] \in Cluster
  BY ListFacts
<1>2. seen \in Seq(Cluster)
  BY <1>1
<1> HIDE DEF seen
<1>3. DOMAIN seen = 1 .. Len(seen) /\ Len(seen) \in Nat /\ \A j \in 1 .. Len(seen) : seen[j] \in Cluster
  BY <1>2, ListFacts
<1>4. \A j \in 1 .. Len(seen) : FatSector(seen[j]) \in Sectors
  BY <1>3 DEF Sectors
<1>5. [j \in 1 .. Len(seen) |-> FatSector(seen[j])] \in Seq(Sectors)
  BY <1>3, <1>4
<1> QED BY <1>3, <1>5 DEF seen
-----------------------------------------------------------------------------
\* What create_chain gives for the m-th cluster of the chain s (0: there is no
\* chain yet): none, or the next one of s2, which is s or longer by one.
Position(s, m) == IF m = 0 THEN 0 ELSE s[m]
Grows(s, s2) == s2 = s \/ \E new \in Cluster : Longer(s, new, s2)
Gives(s, m, s2, clst) ==
    /\ s2 \in Seq(Cluster) /\ Grows(s, s2) /\ (s2 # s => m = Len(s))
    /\ \/ clst = 0 /\ s2 = s
       \/ m+1 \in 1 .. Len(s2) /\ clst = s2[m+1]

Asked(v, ch, K, f, m) ==
    /\ Good(v, ch, K) /\ FreeRight(v) /\ Aside(K, ch, f) /\ ch[Loose] = Nil
    /\ m \in 0 .. Len(ch[f]) /\ (m = 0 => ch[f] = << >>)

\* In w the chain of f is s2, whose last cluster was free in v.
Extended(v, w, ch, K, f, s2, new) ==
    /\ Good(w, With(ch, f, s2, Nil), K) /\ Beside(v, w) /\ w.free = v.free
    /\ FreeIn(w.fat) = FreeIn([v.fat EXCEPT ![new] = Eoc])
    /\ Aside(K, With(ch, f, s2, Nil), f)

\* The new cluster is marked and linked to.
LEMMA LinkedGood ==
    ASSUME NEW v, NEW ch, NEW K, NEW f \in Names, NEW m, Asked(v, ch, K, f, m),
           m = Len(ch[f]), NEW new \in Cluster, v.fat[new] = 0, NEW s2, Longer(ch[f], new, s2)
    PROVE  Extended(v, Linked(v, Position(ch[f], m), new), ch, K, f, s2, new)
<1> DEFINE s == ch[f]
           c == Position(s, m)
           a == put_fat(v, new, Eoc)
           w == Linked(v, c, new)
<1>1. /\ v \in Vols /\ v.fat \in Fats /\ Path(v.fat, s) /\ s \in Seq(Cluster) /\ ch \in [Holders -> Seq(Cluster)]
      /\ (~v.moving => Heads(v.dir, ch, v.cut)) /\ Good(v, ch, K) /\ Aside(K, ch, f)
  BY GoodFacts, NameFacts DEF Asked
<1>2. Len(s) \in Nat /\ m = Len(s) /\ (m = 0 <=> s = << >>)
  BY <1>1, ListFacts
<1>3. /\ Own(ch, f) = Members(s) /\ Members(s) \subseteq Cluster
      /\ \A b \in Members(s) : v.fat[b] # 0
      /\ new \notin Members(s)
  BY <1>1, NilIs, PathMembers DEF Own, Asked
<1> DEFINE fat2 == [v.fat EXCEPT ![new] = Eoc]
<1>4. fat2[new] = Eoc /\ (\A b \in Cluster : b # new => fat2[b] = v.fat[b]) /\ fat2 \in Fats
  BY <1>1 DEF Fats, Links
<1>5. \A i \in Used(v.dir) : v.dir[i].name = f /\ f \notin v.cut /\ ~v.moving
                                    => v.dir[i].sclust \in {0, First(s)}
  BY <1>1 DEF Heads
<1>6. /\ s2 \in Seq(Cluster) /\ Len(s2) = m+1 /\ s2[m+1] = new
  BY <1>2 DEF Longer
<1>8. Path(fat2, Nil) /\ Members(Nil) = {} /\ First(Nil) = 0
  BY NilIs
<1>9. Eoc \in Links /\ new \in Links /\ Eoc # 0 /\ new # 0
  BY NoCluster DEF Links
<1>f. fat2 = [v.fat EXCEPT ![new] = Eoc]
  OBVIOUS
<1>s. Longer(s, new, s2)
  OBVIOUS
<1> HIDE DEF a, w, s, fat2
<1>10. CASE m = 0
  <2>1. Path(fat2, s2) /\ Members(s2) = {new} /\ First(s2) = new /\ First(s) = 0 /\ Members(s) = {}
    <3>1. s = Nil
      BY <1>1, <1>2, <1>10, NilIs
    <3>2. Len(s) = 0
      BY <1>2, <1>10
    <3> QED BY <1>4, <1>8, <1>s, <3>1, <3>2, PathBegun
  <2>2. Relays(v, ch, f, s2, Nil, fat2)
    <3>1. \A i \in Used(v.dir) : v.dir[i].name = f /\ f \notin v.cut /\ ~v.moving
                                    => v.dir[i].sclust \in {0, First(s2)}
      BY <1>5, <2>1
    <3>2. \A b \in Members(s2) \cup Members(Nil) : b \in Own(ch, f) \/ v.fat[b] = 0
      BY <1>8, <2>1
    <3>3. \A b \in Cluster : b \notin Own(ch, f) /\ v.fat[b] # 0 => fat2[b] = v.fat[b]
      BY <1>4
    <3>4. \A b \in Cluster : (b \in Own(ch, f) \/ v.fat[b] = 0) /\ fat2[b] # 0
                                         => b \in Members(s2) \cup Members(Nil)
      BY <1>3, <1>4, <1>8, <2>1
    <3> QED BY <1>8, <2>1, <3>1, <3>2, <3>3, <3>4 DEF Relays
  <2>3. /\ Good(a, With(ch, f, s2, Nil), K) /\ Beside(v, a) /\ a.free = v.free
        /\ a.fat = fat2 /\ Aside(K, With(ch, f, s2, Nil), f)
    <3>1. Relays(v, ch, f, s2, Nil, [v.fat EXCEPT ![new] = Eoc])
      BY <1>f, <2>2
    <3>2. LET u == put_fat(v, new, Eoc)
          IN  /\ Good(u, With(ch, f, s2, Nil), K) /\ Beside(v, u) /\ u.free = v.free /\ u.last = v.last
              /\ u.fat = [v.fat EXCEPT ![new] = Eoc]
              /\ Aside(K, With(ch, f, s2, Nil), f)
      BY <1>1, <1>9, <3>1, LaidGood, Zenon
    <3> QED BY <1>f, <3>2 DEF a
  <2>4. w = a
    BY <1>10 DEF w, a, Linked, Position
  <2> QED BY <1>6, <1>8, <1>f, <2>3, <2>4 DEF w, s, Extended
<1>11. CASE m # 0
  <2>1. c = s[m] /\ c \in Cluster /\ c # 0 /\ c \in Members(s) /\ c # new /\ Len(s) > 0
    BY <1>1, <1>2, <1>3, <1>11, NoCluster, PathFacts DEF Position, Members
  <2> HIDE DEF c
  <2>2. Path(fat2, s)
    <3>1. \A b \in Members(s) : fat2[b] = v.fat[b]
      BY <1>3, <1>4
    <3> QED BY <1>1, <3>1, PathFrame
  <2>5. PICK t : t \in Seq(Cluster) /\ Members(t) = {new} /\ Path(fat2, t)
    <3>1. PICK t : Longer(Nil, new, t)
      BY NilIs, LongerExists
    <3>2. Path(fat2, t) /\ Members(t) = {new}
      BY <1>4, <3>1, NilIs, PathBegun
    <3> QED BY <3>2 DEF Path
  <2>e. Nil \in Seq(Cluster) /\ Members(Nil) = {} /\ \A fat : Path(fat, Nil)
    BY NilIs
  <2>3. Relays(v, ch, f, s, t, fat2)
    <3>1. \A b \in Members(s) \cup Members(t) : b \in Own(ch, f) \/ v.fat[b] = 0
      BY <1>3, <2>5
    <3>2. \A b \in Cluster : b \notin Own(ch, f) /\ v.fat[b] # 0 => fat2[b] = v.fat[b]
      BY <1>4
    <3>3. \A b \in Cluster : (b \in Own(ch, f) \/ v.fat[b] = 0) /\ fat2[b] # 0
                                         => b \in Members(s) \cup Members(t)
      BY <1>3, <1>4, <2>5
    <3> QED BY <1>3, <1>5, <2>5, <2>2, <3>1, <3>2, <3>3 DEF Relays
  <2> DEFINE ch1 == With(ch, f, s, t)
             fat3 == [fat2 EXCEPT ![c] = new]
  <2>4. /\ Good(a, ch1, K) /\ Beside(v, a) /\ a.free = v.free
        /\ a.fat = fat2 /\ Aside(K, With(ch, f, s, t), f)
    <3>1. Relays(v, ch, f, s, t, [v.fat EXCEPT ![new] = Eoc])
      BY <1>f, <2>3
    <3>2. LET u == put_fat(v, new, Eoc)
          IN  /\ Good(u, With(ch, f, s, t), K) /\ Beside(v, u) /\ u.free = v.free /\ u.last = v.last
              /\ u.fat = [v.fat EXCEPT ![new] = Eoc]
              /\ Aside(K, With(ch, f, s, t), f)
      BY <1>1, <1>9, <3>1, LaidGood, Zenon
    <3> QED BY <1>f, <3>2 DEF a
  <2>6. /\ ch1[f] = s /\ ch1[Loose] = t
        /\ Own(ch1, f) = Members(s) \cup {new}
    <3>1. ch1[f] = s /\ ch1[Loose] = t
      BY <1>1, <2>5, WithIs
    <3>2. Own(ch1, f) = Members(s) \cup Members(t)
      BY <3>1 DEF Own
    <3> QED BY <2>5, <3>1, <3>2
  <2> HIDE DEF ch1
  <2>7. /\ fat3[c] = new /\ fat3[new] = Eoc /\ \A b \in Cluster : b # c => fat3[b] = fat2[b]
    BY <1>4, <2>1 DEF Fats
  <2>f. fat3 = [a.fat EXCEPT ![c] = new]
    BY <2>4
  <2> HIDE DEF fat3
  <2>8. /\ Path(fat3, s2) /\ Members(s2) = Members(s) \cup {new} /\ First(s2) = First(s)
    <3>1. fat3[s[Len(s)]] = new
      BY <1>2, <2>1, <2>7
    <3>2. \A b \in Members(s) : b # s[Len(s)] => fat3[b] = fat2[b]
      BY <1>2, <1>3, <2>1, <2>7
    <3>3. Len(s) > 0 /\ fat3[new] = Eoc
      BY <2>1, <2>7
    <3> QED BY <2>2, <3>1, <3>2, <3>3, PathGrown, <1>s
  <2>9. Relays(a, ch1, f, s2, Nil, fat3)
    <3>1. \A b \in Members(s2) \cup Members(Nil) : b \in Own(ch1, f) \/ a.fat[b] = 0
      BY <2>e, <2>6, <2>8
    <3>2. \A b \in Cluster : b \notin Own(ch1, f) /\ a.fat[b] # 0 => fat3[b] = a.fat[b]
      BY <2>1, <2>4, <2>6, <2>7
    <3>3. \A b \in Cluster : (b \in Own(ch1, f) \/ a.fat[b] = 0) /\ fat3[b] # 0
                                         => b \in Members(s2) \cup Members(Nil)
      BY <2>1, <2>4, <2>6, <2>7, <2>8
    <3>4. \A i \in Used(a.dir) : a.dir[i].name = f /\ f \notin a.cut /\ ~a.moving
                                    => a.dir[i].sclust \in {0, First(s2)}
      BY <1>5, <2>4, <2>8 DEF Beside
    <3> QED BY <2>e, <2>8, <3>1, <3>2, <3>3, <3>4 DEF Relays
  <2>10. /\ Good(put_fat(a, c, new), With(ch1, f, s2, Nil), K) /\ Beside(a, put_fat(a, c, new))
         /\ put_fat(a, c, new).free = a.free
         /\ put_fat(a, c, new).fat = fat3
         /\ Aside(K, With(ch1, f, s2, Nil), f)
    <3>1. Aside(K, ch1, f)
      BY <2>4, Zenon DEF ch1
    <3>2. Relays(a, ch1, f, s2, Nil, [a.fat EXCEPT ![c] = new])
      BY <2>f, <2>9
    <3>3. LET u == put_fat(a, c, new)
          IN  /\ Good(u, With(ch1, f, s2, Nil), K) /\ Beside(a, u) /\ u.free = a.free /\ u.last = a.last
              /\ u.fat = [a.fat EXCEPT ![c] = new]
              /\ Aside(K, With(ch1, f, s2, Nil), f)
      <4>1. Good(a, ch1, K) /\ new \in Links /\ c \in Cluster
        BY <1>9, <2>1, <2>4
      <4> QED BY <4>1, <3>1, <3>2, LaidGood, Zenon
    <3> QED BY <2>f, <3>3
  <2>11. w = put_fat(a, c, new)
    BY <2>1, Zenon DEF w, a, Linked
  <2>12. With(ch1, f, s2, Nil) = With(ch, f, s2, Nil)
    <3>1. s2 \in Seq(Cluster) /\ Nil \in Seq(Cluster) /\ ch \in [Holders -> Seq(Cluster)]
      BY <1>1, <1>6, <2>e
    <3>2. \A a2, b2 : With(With(ch, f, a2, b2), f, s2, Nil) = With(ch, f, s2, Nil)
      BY <3>1, WithWith
    <3> QED BY <3>2, Zenon DEF ch1
  <2>13. FreeIn(fat3) = FreeIn(fat2)
    <3>1. fat2[c] # 0
      BY <1>3, <1>4, <2>1
    <3> QED BY <1>4, <1>9, <2>1, <2>4, <2>f, <3>1, FreeChanges
  <2>14. Beside(v, w) /\ w.free = v.free
    BY <2>4, <2>10, <2>11 DEF Beside
  <2> QED BY <1>6, <2>e, <1>f, <2>10, <2>11, <2>12, <2>13, <2>14 DEF w, s, c, Extended
<1> QED BY <1>10, <1>11
-----------------------------------------------------------------------------
\* What create_chain leaves: f has the chain s2.
Got(v, ch, K, f, m, r, s2) ==
    /\ Good(r.v, With(ch, f, s2, Nil), K) /\ FreeRight(r.v) /\ Beside(v, r.v)
    /\ Aside(K, With(ch, f, s2, Nil), f) /\ Gives(ch[f], m, s2, r.clst)
    /\ s2 = ch[f] => Quiet(v, r.v)

LEMMA AskedFacts ==
    ASSUME NEW v, NEW ch, NEW K, NEW f \in Names, NEW m, Asked(v, ch, K, f, m)
    PROVE  /\ Good(v, ch, K) /\ FreeRight(v) /\ v \in Vols /\ v.fat \in Fats /\ v.last \in Int
           /\ ch \in [Holders -> Seq(Cluster)] /\ Path(v.fat, ch[f]) /\ ch[f] \in Seq(Cluster)
           /\ ch[Loose] = Nil /\ With(ch, f, ch[f], Nil) = ch
           /\ Own(ch, f) = Members(ch[f]) /\ Aside(K, ch, f)
           /\ Len(ch[f]) \in Nat /\ m \in Nat /\ m <= Len(ch[f])
           /\ (m = 0 => Len(ch[f]) = 0)
           /\ (m # 0 => Position(ch[f], m) \in Cluster)
           /\ (m = 0 => Position(ch[f], m) = 0)
<1>1. /\ Good(v, ch, K) /\ FreeRight(v) /\ Aside(K, ch, f) /\ ch[Loose] = Nil
      /\ m \in 0 .. Len(ch[f]) /\ (m = 0 => ch[f] = << >>)
  BY DEF Asked
<1>2. /\ v \in Vols /\ v.fat \in Fats /\ v.last \in Int /\ ch \in [Holders -> Seq(Cluster)]
      /\ Path(v.fat, ch[f]) /\ ch[f] \in Seq(Cluster)
  BY <1>1, GoodFacts, NameFacts
<1>3. Own(ch, f) = Members(ch[f])
  BY <1>1, NilIs DEF Own
<1>4. Len(ch[f]) \in Nat /\ (ch[f] = << >> <=> Len(ch[f]) = 0)
      /\ \A i \in 1 .. Len(ch[f]) : ch[f][i] \in Cluster
  BY <1>2, ListFacts
<1>5. With(ch, f, ch[f], ch[Loose]) = ch
  BY <1>2, WithSame
<1>6. m # 0 => m \in 1 .. Len(ch[f])
  BY <1>1, <1>4
<1> QED BY <1>1, <1>2, <1>3, <1>4, <1>5, <1>6 DEF Position

LEMMA GotSame ==
    ASSUME NEW v, NEW ch, NEW K, NEW f \in Names, NEW m, Asked(v, ch, K, f, m),
           NEW w, Quiet(v, w), NEW x,
           x = 0 \/ (m < Len(ch[f]) /\ x = ch[f][m+1])
    PROVE  Got(v, ch, K, f, m, [v |-> w, clst |-> x], ch[f])
<1>1. /\ FreeRight(v) /\ ch[f] \in Seq(Cluster) /\ With(ch, f, ch[f], Nil) = ch
      /\ Aside(K, ch, f) /\ Len(ch[f]) \in Nat /\ m \in Nat
  BY AskedFacts
<1>2. FreeRight(w) /\ Beside(v, w)
  BY <1>1 DEF FreeRight, Alike, Beside, Quiet
<1>3. Gives(ch[f], m, ch[f], x)
  BY <1>1 DEF Gives, Grows
<1> DEFINE r == [v |-> w, clst |-> x]
<1>4. r.v = w /\ r.clst = x
  OBVIOUS
<1> HIDE DEF r
<1>5. Good(r.v, With(ch, f, ch[f], Nil), K) /\ Aside(K, With(ch, f, ch[f], Nil), f) /\ Quiet(v, r.v)
  <2>1. Good(v, ch, K)
    BY AskedFacts
  <2> QED BY <1>1, <1>4, <2>1 DEF Quiet
<1>6. FreeRight(r.v) /\ Beside(v, r.v) /\ Gives(ch[f], m, ch[f], r.clst)
  BY <1>2, <1>3, <1>4
<1>7. Got(v, ch, K, f, m, r, ch[f])
  BY <1>5, <1>6 DEF Got
<1> QED BY <1>7 DEF r

\* create_chain finds the next cluster or makes it, and harms nothing.
LEMMA CreateGood ==
    ASSUME NEW v, NEW ch, NEW K, NEW f \in Names, NEW m, Asked(v, ch, K, f, m)
    PROVE  \E s2 : Got(v, ch, K, f, m, create_chain(v, Position(ch[f], m)), s2)
<1> DEFINE s == ch[f]
           c == Position(s, m)
           w == IF c = 0 THEN v ELSE seek_fat(v, c)
           hint == IF v.last \in Cluster THEN v.last ELSE 1
           probes == Probes(IF c = 0 THEN hint ELSE c)
           k == SelectInSeq(probes, LAMBDA x : v.fat[x] = 0)
           seen == IF k = 0 THEN probes ELSE SubSeq(probes, 1, k)
           xs == [j \in DOMAIN seen |-> FatSector(seen[j])]
           found == Visited(w, xs)
           r == create_chain(v, c)
<1>1. /\ Good(v, ch, K) /\ FreeRight(v) /\ v \in Vols /\ v.fat \in Fats
      /\ Path(v.fat, s) /\ s \in Seq(Cluster) /\ Len(s) \in Nat /\ m \in Nat /\ m <= Len(s)
      /\ (m # 0 => c \in Cluster) /\ (m = 0 => c = 0 /\ Len(s) = 0)
  <2>1. /\ Good(v, ch, K) /\ FreeRight(v) /\ v \in Vols /\ v.fat \in Fats
        /\ Path(v.fat, ch[f]) /\ ch[f] \in Seq(Cluster) /\ Len(ch[f]) \in Nat /\ m \in Nat /\ m <= Len(ch[f])
    BY AskedFacts
  <2>2. (m # 0 => Position(ch[f], m) \in Cluster)
    BY AskedFacts
  <2>3. (m = 0 => Position(ch[f], m) = 0)
    BY DEF Position
  <2>4. (m = 0 => Len(ch[f]) = 0)
    BY AskedFacts
  <2> QED BY <2>1, <2>2, <2>3, <2>4, Zenon
<1>2. r = IF c # 0 /\ w.fat[c] # Eoc THEN [v |-> w, clst |-> w.fat[c]]
          ELSE IF k = 0 THEN [v |-> found, clst |-> 0]
          ELSE [v |-> Counted([Linked(found, c, probes[k]) EXCEPT !.last = probes[k]], -1),
                clst |-> probes[k]]
  BY Zenon DEF create_chain
<1> HIDE DEF r
<1>3. Good(w, ch, K) /\ Alike(v, w) /\ Quiet(v, w)
  <2>1. CASE c = 0
    BY <1>1, <2>1, QuietSame DEF Quiet
  <2>2. CASE c # 0
    <3>1. Quiet(v, seek_fat(v, c))
      BY <1>1, <2>2, SeekQuiet
    <3>2. w = seek_fat(v, c)
      BY <2>2
    <3> HIDE DEF w
    <3> QED BY <1>1, <3>1, <3>2 DEF Quiet
  <2> QED BY <2>1, <2>2
<1>4. w.fat = v.fat
  BY <1>3 DEF Alike
<1>5. probes \in Seq(Cluster) /\ Len(probes) = Clusters /\ \A j \in 1 .. Clusters : probes[j] \in Cluster
  <2>1. (IF c = 0 THEN hint ELSE c) \in {1} \cup Cluster
    BY <1>1
  <2> QED BY <2>1, ProbesAre
<1>6. k \in 0 .. Clusters /\ (k # 0 => v.fat[probes[k]] = 0)
  <2> DEFINE I == {i \in 1 .. Len(probes) : v.fat[probes[i]] = 0}
  <2>1. k = IF I # {} THEN Min(I) ELSE 0
    BY Zenon DEF SelectInSeq
  <2> HIDE DEF probes, k
  <2>2. I \in SUBSET Nat /\ Clusters \in Nat
    BY VolumeAssumption
  <2>3. I # {} => Min(I) \in I
    BY <2>2, MinIsLeast
  <2> QED BY <1>5, <2>1, <2>2, <2>3
<1> HIDE DEF w, probes, k
<1>7. Good(found, ch, K) /\ Alike(w, found)
  <2>1. xs \in Seq(Sectors)
    BY <1>5, <1>6, SeenSectors
  <2> HIDE DEF xs
  <2> QED BY <1>3, <2>1, VisitedGood
<1> HIDE DEF found
<1>q. Quiet(v, found)
  <2>1. xs \in Seq(Sectors)
    BY <1>5, <1>6, SeenSectors
  <2> HIDE DEF xs
  <2>2. Quiet(w, found)
    BY <1>3, <2>1, VisitedQuiet DEF found
  <2> QED BY <1>3, <2>2, QuietTwice
<1>8. Alike(v, found) /\ found.fat = v.fat /\ found.free = v.free
  BY <1>3, <1>7 DEF Alike
<1>9. CASE c # 0 /\ w.fat[c] # Eoc
  <2>1. m \in 1 .. Len(s) /\ c = s[m]
    BY <1>1, <1>9 DEF Position
  <2>2. m # Len(s)
    BY <1>1, <1>4, <1>9, <2>1, PathFacts
  <2>3. m \in 1 .. Len(s)-1
    BY <1>1, <2>1, <2>2
  <2>4. v.fat[c] = s[m+1] /\ m < Len(s)
    BY <1>1, <2>1, <2>3, PathFacts
  <2>5. r = [v |-> w, clst |-> s[m+1]]
    BY <1>2, <1>4, <1>9, <2>4
  <2> HIDE DEF s, c
  <2>6. Got(v, ch, K, f, m, [v |-> w, clst |-> s[m+1]], s)
    BY <1>3, <2>4, GotSame DEF s
  <2> QED BY <2>5, <2>6 DEF r, c, s
<1>10. CASE ~(c # 0 /\ w.fat[c] # Eoc) /\ k = 0
  <2>1. r = [v |-> found, clst |-> 0]
    BY <1>2, <1>10
  <2> HIDE DEF s, c
  <2>2. Got(v, ch, K, f, m, [v |-> found, clst |-> 0], s)
    BY <1>q, GotSame DEF s
  <2> QED BY <2>1, <2>2 DEF r, c, s
<1>11. CASE ~(c # 0 /\ w.fat[c] # Eoc) /\ k # 0
  <2> DEFINE new == probes[k]
             a == Linked(found, c, new)
             b == [a EXCEPT !.last = new]
  <2>1. new \in Cluster /\ v.fat[new] = 0
    BY <1>5, <1>6, <1>11
  <2>s. PICK s2 : Longer(s, new, s2)
    BY <1>1, <2>1, LongerExists
  <2>r. r = [v |-> Counted(b, -1), clst |-> new]
    BY <1>2, <1>11
  <2>2. m = Len(s)
    <3>1. CASE c = 0
      BY <1>1, <3>1, NoCluster
    <3>2. CASE c # 0
      <4>1. m \in 1 .. Len(s) /\ c = s[m] /\ v.fat[c] = Eoc
        BY <1>1, <1>4, <1>11, <3>2 DEF Position
      <4>2. ~(m \in 1 .. Len(s)-1)
        BY <1>1, <4>1, NoCluster, PathFacts
      <4> QED BY <1>1, <4>1, <4>2
    <3> QED BY <3>1, <3>2
  <2>3. Asked(found, ch, K, f, m)
    BY <1>7, <1>8 DEF Asked, FreeRight
  <2> HIDE DEF new, a, b
  <2>4. /\ Good(a, With(ch, f, s2, Nil), K) /\ Beside(found, a) /\ a.free = found.free
        /\ FreeIn(a.fat) = FreeIn([found.fat EXCEPT ![new] = Eoc])
        /\ Aside(K, With(ch, f, s2, Nil), f) /\ s2 \in Seq(Cluster) /\ Len(s2) = m+1 /\ s2[m+1] = new
    <3>1. new \in Cluster /\ found.fat[new] = 0 /\ m = Len(ch[f])
      BY <1>8, <2>1, <2>2
    <3>2. Longer(ch[f], new, s2)
      BY <2>s
    <3>3. Extended(found, Linked(found, Position(ch[f], m), new), ch, K, f, s2, new)
      BY <2>3, <3>1, <3>2, LinkedGood, Zenon
    <3>4. s2 \in Seq(Cluster) /\ Len(s2) = m+1 /\ s2[m+1] = new
      BY <2>2, <2>s DEF Longer
    <3> QED BY <3>3, <3>4 DEF a, Extended
  <2> DEFINE ch2 == With(ch, f, s2, Nil)
  <2> HIDE DEF ch2
  <2>5. Good(b, ch2, K) /\ b \in Vols /\ b.fat = a.fat /\ b.free = a.free /\ Beside(a, b)
    <3>1. a \in Vols /\ Good(a, ch2, K) /\ new \in Int
      BY <2>1, <2>4, NoCluster DEF Good, ch2
    <3>2. Good(b, ch2, K)
      BY <3>1, FieldsGood DEF b
    <3>3. b.fat = a.fat /\ b.free = a.free /\ Beside(a, b)
      BY <3>1 DEF Beside, Vols, Volumes, b
    <3> QED BY <3>2, <3>3 DEF Good
  <2>6. b.free # Unknown => b.free + (-1) = Cardinality(FreeIn(b.fat))
    <3>1. /\ Cardinality(FreeIn([v.fat EXCEPT ![new] = Eoc])) = Cardinality(FreeIn(v.fat)) - 1
          /\ Cardinality(FreeIn(v.fat)) \in Nat
      <4>1. Eoc \in Links /\ Eoc # 0
        BY NoCluster DEF Links
      <4> QED BY <1>1, <2>1, <4>1, FreeChanges
    <3>2. b.free = v.free /\ FreeIn(b.fat) = FreeIn([v.fat EXCEPT ![new] = Eoc])
      BY <1>8, <2>4, <2>5
    <3> QED BY <1>1, <3>1, <3>2 DEF FreeRight
  <2>7. /\ Good(Counted(b, -1), ch2, K) /\ FreeRight(Counted(b, -1))
        /\ Counted(b, -1) = [b EXCEPT !.free = Counted(b, -1).free]
    BY <2>5, <2>6, CountedRight
  <2>8. Beside(b, Counted(b, -1))
    BY <2>5, <2>7 DEF Beside, Vols, Volumes
  <2>9. Beside(v, Counted(b, -1))
    BY <1>8, <2>4, <2>5, <2>8 DEF Beside, Alike
  <2>10. Gives(s, m, s2, new)
    <3>1. m+1 \in 1 .. Len(s2)
      BY <1>1, <2>4
    <3>2. Grows(s, s2)
      BY <2>1, <2>s DEF Grows
    <3> QED BY <2>2, <2>4, <3>1, <3>2 DEF Gives
  <2>11. r.v = Counted(b, -1) /\ r.clst = new
    BY <2>r
  <2>e. s2 # s
    BY <1>1, <2>2, <2>4
  <2>12. Got(v, ch, K, f, m, r, s2)
    BY <2>4, <2>7, <2>9, <2>10, <2>11, <2>e DEF Got, ch2, s
  <2> QED BY <2>12 DEF r
<1> QED BY <1>9, <1>10, <1>11
-----------------------------------------------------------------------------
LEMMA Sizes1 == /\ SS \in Nat /\ SS > 0 /\ CSize \in Nat /\ CSize > 0 /\ bcs = CSize * SS
                /\ bcs \in Nat /\ bcs > 0 /\ Clusters \in Nat /\ Clusters > 0
                /\ SS \in Nat \ {0} /\ CSize \in Nat \ {0} /\ bcs \in Nat \ {0}
<1>1. SS \in Nat /\ SS > 0 /\ CSize \in Nat /\ CSize > 0 /\ Clusters \in Nat /\ Clusters > 0
  BY VolumeAssumption, FilesAssumption
<1>2. ASSUME NEW a \in Nat, NEW b \in Nat, a > 0, b > 0 PROVE a * b \in Nat /\ a * b > 0
  BY <1>2
<1>3. CSize * SS \in Nat /\ CSize * SS > 0
  BY <1>1, <1>2
<1> QED BY <1>1, <1>3 DEF bcs

LEMMA Mul ==
    ASSUME NEW w \in Nat, NEW a \in Nat, NEW b \in Nat
    PROVE  /\ a <= b => w * a <= w * b
           /\ w * a \in Nat /\ w * (a + 1) = w * a + w
           /\ w * (a + b) = w * a + w * b
OBVIOUS

\* Where the number x of a byte is: in the cluster q of the file, the sector k of
\* that and the byte r of that.
At(x, q, k, r) ==
    /\ q \in Nat /\ k \in 0 .. CSize-1 /\ r \in 0 .. SS-1
    /\ x = bcs * q + SS * k + r
    /\ x % SS = r /\ (x \div SS) % CSize = k

LEMMA AtExists ==
    ASSUME NEW x \in Nat
    PROVE  \E q, k, r : At(x, q, k, r)
<1> DEFINE a == x \div SS
           r == x % SS
           q == a \div CSize
           k == a % CSize
<1>1. SS \in Nat \ {0} /\ CSize \in Nat \ {0}
  BY Sizes1
<1>2. r \in 0 .. SS-1 /\ a \in Nat /\ x = SS * a + r
  BY <1>1, WrapIs
<1>3. k \in 0 .. CSize-1 /\ q \in Nat /\ a = CSize * q + k
  <2> HIDE DEF a
  <2> QED BY <1>1, <1>2, WrapIs
<1> HIDE DEF q
<1>4. x % SS = r /\ (x \div SS) % CSize = k
  OBVIOUS
<1> HIDE DEF k, r, a
<1>5. SS * a = bcs * q + SS * k
  <2>1. \A u, w, y, z \in Nat : u * (w * y + z) = (w * u) * y + u * z
    OBVIOUS
  <2>2. SS * a = SS * (CSize * q + k)
    BY <1>3
  <2>3. k \in Nat
    BY <1>1, <1>3
  <2>4. SS * (CSize * q + k) = (CSize * SS) * q + SS * k
    BY <1>1, <1>3, <2>1, <2>3
  <2> QED BY <2>2, <2>4 DEF bcs
<1>6. At(x, q, k, r)
  BY <1>2, <1>3, <1>4, <1>5 DEF At
<1> QED BY <1>6

\* The byte x is in the cluster q when it has no more than a cluster beyond it.
LEMMA InCluster ==
    ASSUME NEW q \in Nat, NEW y \in 1 .. bcs
    PROVE  (bcs * q + y - 1) \div bcs = q
<1>1. bcs \in Nat \ {0}
  BY Sizes1
<1> DEFINE w == bcs
           r == y - 1
<1>2. w \in Nat \ {0} /\ r \in 0 .. w-1
  BY <1>1
<1>3. w * q + r = bcs * q + y - 1
  BY <1>1
<1> HIDE DEF w, r
<1>4. (w * q + r) \div w = q
  BY <1>2
<1> QED BY <1>3, <1>4 DEF w

\* A sector is in one cluster only, and in the data area.
LEMMA SectorOnce ==
    ASSUME NEW c \in Cluster, NEW d \in Cluster, NEW k \in 0 .. CSize-1, NEW j \in 0 .. CSize-1,
           clust2sect(c) + k = clust2sect(d) + j
    PROVE  c = d /\ k = j
<1>1. CSize \in Nat \ {0}
  BY Sizes1
<1> DEFINE a == c-2
           b == d-2
<1>2. a \in Nat /\ b \in Nat /\ c = a+2 /\ d = b+2
  BY DEF Cluster
<1>3. clust2sect(c) = a * CSize /\ clust2sect(d) = b * CSize
  BY DEF clust2sect
<1> HIDE DEF a, b
<1>4. CSize * a + k = CSize * b + j
  BY <1>1, <1>2, <1>3
<1>5. (CSize * a + k) % CSize = k /\ (CSize * b + j) % CSize = j
  BY <1>1, <1>2, WrapUnique
<1>6. k = j
  BY <1>4, <1>5
<1>7. CSize * a = CSize * b
  BY <1>1, <1>2, <1>4, <1>6
<1>8. \A u, x, y \in Nat : u > 0 /\ u * x = u * y => x = y
  OBVIOUS
<1>9. a = b
  BY <1>1, <1>2, <1>7, <1>8
<1> QED BY <1>2, <1>6, <1>9

LEMMA SectorIn ==
    ASSUME NEW c \in Cluster, NEW k \in 0 .. CSize-1
    PROVE  clust2sect(c) + k \in DataSector /\ clust2sect(c) \in Nat
<1>1. CSize \in Nat /\ CSize > 0 /\ Clusters \in Nat
  BY Sizes1
<1> DEFINE a == c-2
<1>2. a \in 0 .. Clusters-1 /\ clust2sect(c) = a * CSize
  BY <1>1 DEF Cluster, clust2sect
<1> HIDE DEF a
<1>3. CSize * (a+1) <= CSize * Clusters /\ CSize * (a+1) = CSize * a + CSize /\ CSize * a \in Nat
  <2>1. a+1 \in Nat /\ a+1 <= Clusters /\ a \in Nat
    BY <1>1, <1>2
  <2> QED BY <1>1, <2>1, Mul
<1>4. CSize * a = a * CSize /\ CSize * Clusters = Clusters * CSize
  BY <1>1, <1>2
<1> DEFINE u == a * CSize
           w == Clusters * CSize
<1>5. u \in Nat /\ u + CSize <= w /\ w \in Nat
  BY <1>1, <1>3, <1>4
<1> HIDE DEF u, w
<1>6. u + k \in 0 .. w-1
  BY <1>1, <1>5
<1> QED BY <1>2, <1>5, <1>6 DEF DataSector, u, w

\* A file's sectors are none of those that K is about.
LEMMA SectorAside ==
    ASSUME NEW K, NEW fat, NEW ch, Layout(fat, ch), NEW f \in Names, Aside(K, ch, f),
           NEW c \in Members(ch[f]), NEW k \in 0 .. CSize-1
    PROVE  clust2sect(c) + k \notin K.sects
<1> SUFFICES ASSUME clust2sect(c) + k \in K.sects PROVE FALSE
  OBVIOUS
<1>1. clust2sect(c) + k \in Sects(Others(ch, f))
  BY DEF Aside
<1>2. PICK d \in Others(ch, f), j \in 0 .. CSize-1 : clust2sect(c) + k = clust2sect(d) + j
  BY <1>1 DEF Sects
<1>3. d \in Cluster /\ c \in Cluster /\ d # c
  <2>1. d \notin Own(ch, f) /\ d \in Cluster
    BY OthersAre
  <2>2. Path(fat, ch[f])
    BY NameFacts DEF Layout
  <2> QED BY <2>1, <2>2, PathMembers DEF Own
<1> QED BY <1>2, <1>3, SectorOnce
-----------------------------------------------------------------------------
\* A call about f, which has its chain in ch, is in the middle of its work.
Works(s, ch, K, f) ==
    /\ s = On(s.v, s.p)
    /\ Good(s.v, ch, K) /\ FreeRight(s.v) /\ Aside(K, ch, f) /\ ch[Loose] = Nil
    /\ s.p \in FilRec /\ s.p.sclust = First(ch[f])
    /\ s.p.dirty => s.p.dsect \in DataSector \ K.sects

\* The byte x of a file with the chain s is in the cluster c.
Lies(x, c, s) == \E q \in Nat : q+1 \in 1 .. Len(s) /\ c = s[q+1] /\ x \in bcs*q .. bcs*q + (bcs-1)
Placed(p, s) == /\ p.fptr > 0 => Lies(p.fptr-1, p.clust, s)
                /\ p.fptr % SS # 0 => p.dsect = CurrentSector(p)

\* The parts of a volume that calls about an open file leave alone.
Still(v, w) == w.dir = v.dir /\ w.cut = v.cut /\ w.moving = v.moving

LEMMA WorksFacts ==
    ASSUME NEW s, NEW ch, NEW K, NEW f \in Names, Works(s, ch, K, f)
    PROVE  /\ s = [v |-> s.v, p |-> s.p] /\ Good(s.v, ch, K) /\ FreeRight(s.v) /\ Aside(K, ch, f)
           /\ ch[Loose] = Nil /\ s.p \in FilRec /\ s.p.sclust = First(ch[f])
           /\ s.v \in Vols /\ s.v.fat \in Fats /\ s.v.disk.data \in DataAreas
           /\ ch \in [Holders -> Seq(Cluster)] /\ Path(s.v.fat, ch[f]) /\ ch[f] \in Seq(Cluster)
           /\ Layout(s.v.fat, ch) /\ Len(ch[f]) \in Nat /\ With(ch, f, ch[f], Nil) = ch
<1>1. /\ s = On(s.v, s.p) /\ Good(s.v, ch, K) /\ FreeRight(s.v) /\ Aside(K, ch, f)
      /\ ch[Loose] = Nil /\ s.p \in FilRec /\ s.p.sclust = First(ch[f])
  BY DEF Works
<1>2. /\ s.v \in Vols /\ s.v.fat \in Fats /\ s.v.disk.data \in DataAreas
      /\ ch \in [Holders -> Seq(Cluster)] /\ Path(s.v.fat, ch[f]) /\ ch[f] \in Seq(Cluster)
      /\ Layout(s.v.fat, ch)
  BY <1>1, GoodFacts, NameFacts
<1>3. Len(ch[f]) \in Nat
  BY <1>2, ListFacts
<1>4. With(ch, f, ch[f], ch[Loose]) = ch
  BY <1>2, WithSame
<1> QED BY <1>1, <1>2, <1>3, <1>4 DEF On

\* The fields of s.p are changed, but not what leads to the clusters.
LEMMA WorksOn ==
    ASSUME NEW s, NEW ch, NEW K, NEW f \in Names, Works(s, ch, K, f), NEW p \in FilRec,
           p.sclust = s.p.sclust, p.dirty => p.dsect \in DataSector \ K.sects
    PROVE  Works(On(s.v, p), ch, K, f)
<1> DEFINE t == On(s.v, p)
<1>1. t.v = s.v /\ t.p = p /\ t = On(t.v, t.p)
  BY DEF On
<1> HIDE DEF t
<1>2. Works(t, ch, K, f)
  BY <1>1 DEF Works
<1> QED BY <1>2 DEF t

\* Sectors that are not K's are written past the window.
LEMMA WorksData ==
    ASSUME NEW s, NEW ch, NEW K, NEW f \in Names, Works(s, ch, K, f), NEW D \in DataAreas,
           \A x \in K.sects : D[x] = s.v.disk.data[x]
    PROVE  LET w == DiskWrite(s.v, [s.v.disk EXCEPT !.data = D])
           IN  /\ Works(On(w, s.p), ch, K, f) /\ Still(s.v, w) /\ w.disk.data = D
               /\ w.fat = s.v.fat
<1> DEFINE w == DiskWrite(s.v, [s.v.disk EXCEPT !.data = D])
           t == On(w, s.p)
<1>1. Good(s.v, ch, K) /\ s.v \in Vols
  BY WorksFacts
<1>2. Good(w, ch, K) /\ Alike([s.v EXCEPT !.disk = [s.v.disk EXCEPT !.data = D]], w) /\ w.disk.data = D
  BY <1>1, DataGood
<1>3. t.v = w /\ t.p = s.p /\ t = On(t.v, t.p)
  BY DEF On
<1> HIDE DEF w, t
<1>4. w.fat = s.v.fat /\ w.dir = s.v.dir /\ w.cut = s.v.cut /\ w.moving = s.v.moving /\ w.free = s.v.free
  BY <1>1, <1>2 DEF Alike, Vols, Volumes
<1>5. FreeRight(w)
  BY <1>4 DEF FreeRight, Works
<1>6. Works(t, ch, K, f)
  BY <1>2, <1>3, <1>5 DEF Works
<1> QED BY <1>2, <1>4, <1>6 DEF w, t, Still

\* The window moves.
LEMMA WorksQuiet ==
    ASSUME NEW s, NEW ch, NEW K, NEW f \in Names, Works(s, ch, K, f), NEW w, Quiet(s.v, w)
    PROVE  /\ Works(On(w, s.p), ch, K, f) /\ Still(s.v, w) /\ w.fat = s.v.fat
           /\ w.disk.data = s.v.disk.data
<1> DEFINE t == On(w, s.p)
<1>1. Good(s.v, ch, K) /\ FreeRight(s.v)
  BY WorksFacts
<1>2. Good(w, ch, K) /\ FreeRight(w) /\ Still(s.v, w) /\ w.disk.data = s.v.disk.data /\ w.fat = s.v.fat
  BY <1>1 DEF Quiet, Alike, FreeRight, Still
<1>3. t.v = w /\ t.p = s.p /\ t = On(t.v, t.p)
  BY DEF On
<1> HIDE DEF t
<1>4. Works(t, ch, K, f)
  BY <1>2, <1>3 DEF Works
<1> QED BY <1>2, <1>4 DEF t

-----------------------------------------------------------------------------
\* p2 is p but for the buffer.
Buffered(p, p2) ==
    /\ p2.wr = p.wr /\ p2.written = p.written /\ p2.slot = p.slot /\ p2.sclust = p.sclust
    /\ p2.fsize = p.fsize /\ p2.fptr = p.fptr /\ p2.clust = p.clust

Flushed(s, t) ==
    /\ ~t.p.dirty /\ t.p.dsect = s.p.dsect /\ t.p.buf = s.p.buf
    /\ t.v.disk.data = IF s.p.dirty THEN [s.v.disk.data EXCEPT ![s.p.dsect] = s.p.buf]
                                   ELSE s.v.disk.data
    /\ ~s.p.dirty => t = s

Loaded(s, t, x) ==
    /\ t.p.dsect = x /\ (s.p.dsect = x => t = s)
    /\ s.p.dsect # x => ~t.p.dirty /\ t.p.buf = t.v.disk.data[x] /\ t.v = WriteBuffer(s).v

\* The buffer goes to its sector.
LEMMA WriteBufferWorks ==
    ASSUME NEW s, NEW ch, NEW K, NEW f \in Names, Works(s, ch, K, f)
    PROVE  LET t == WriteBuffer(s)
           IN  /\ Works(t, ch, K, f) /\ Still(s.v, t.v) /\ t.v.fat = s.v.fat
               /\ Buffered(s.p, t.p) /\ Flushed(s, t)
<1> DEFINE t == WriteBuffer(s)
<1>1. /\ s = [v |-> s.v, p |-> s.p] /\ s.p \in FilRec /\ s.v \in Vols /\ s.v.disk.data \in DataAreas
  BY WorksFacts
<1>2. CASE ~s.p.dirty
  <2>1. t = s
    BY <1>1, <1>2 DEF WriteBuffer
  <2> HIDE DEF t
  <2> QED BY <1>2, <2>1 DEF t, Still, Buffered, Flushed
<1>3. CASE s.p.dirty
  <2> DEFINE D == [s.v.disk.data EXCEPT ![s.p.dsect] = s.p.buf]
             w == DiskWrite(s.v, [s.v.disk EXCEPT !.data = D])
             p == [s.p EXCEPT !.dirty = FALSE]
             u == On(w, s.p)
  <2>1. s.p.dsect \in DataSector \ K.sects
    BY <1>3 DEF Works
  <2>2. D \in DataAreas /\ \A x \in K.sects : D[x] = s.v.disk.data[x]
    BY <1>1, <2>1 DEF DataAreas, FilRec
  <2>3. t = On(w, p)
    BY <1>1, <1>3 DEF WriteBuffer
  <2>d. D = [s.v.disk.data EXCEPT ![s.p.dsect] = s.p.buf]
    OBVIOUS
  <2> HIDE DEF D
  <2>4. /\ Works(u, ch, K, f) /\ Still(s.v, w) /\ w.disk.data = D /\ w.fat = s.v.fat
    BY <2>2, WorksData
  <2>p. p \in FilRec /\ p.sclust = s.p.sclust /\ ~p.dirty
    BY <1>1 DEF FilRec
  <2>5. u.v = w /\ u.p = s.p
    BY DEF On
  <2> HIDE DEF w, u, p, t
  <2>6. Works(On(w, p), ch, K, f)
    BY <2>4, <2>5, <2>p, WorksOn, Zenon
  <2>7. On(w, p).v = w /\ On(w, p).p = p
    BY DEF On
  <2>8. t.v = w /\ t.p = p /\ Works(t, ch, K, f)
    BY <2>3, <2>6, <2>7
  <2>9. Buffered(s.p, p) /\ p.dsect = s.p.dsect /\ p.buf = s.p.buf
    BY <1>1 DEF p, FilRec, Buffered
  <2>10. Flushed(s, t)
    BY <1>3, <2>4, <2>8, <2>9, <2>p, <2>d DEF Flushed
  <2> QED BY <2>4, <2>8, <2>9, <2>10 DEF t
<1> QED BY <1>2, <1>3

\* Another sector comes into the buffer.
LEMMA LoadBufferWorks ==
    ASSUME NEW s, NEW ch, NEW K, NEW f \in Names, Works(s, ch, K, f), NEW x \in DataSector
    PROVE  LET t == LoadBuffer(s, x)
           IN  /\ Works(t, ch, K, f) /\ Still(s.v, t.v) /\ t.v.fat = s.v.fat
               /\ Buffered(s.p, t.p) /\ Loaded(s, t, x)
<1> DEFINE t == LoadBuffer(s, x)
           u == WriteBuffer(s)
<1>1. s.p \in FilRec
  BY WorksFacts
<1>2. CASE s.p.dsect = x
  <2>1. t = s
    BY <1>2 DEF LoadBuffer
  <2> HIDE DEF t
  <2> QED BY <1>2, <2>1 DEF t, Still, Buffered, Loaded
<1>3. CASE s.p.dsect # x
  <2>1. /\ Works(u, ch, K, f) /\ Still(s.v, u.v) /\ u.v.fat = s.v.fat
        /\ Buffered(s.p, u.p) /\ ~u.p.dirty
    BY WriteBufferWorks DEF Flushed
  <2>2. t = [u EXCEPT !.p.buf = u.v.disk.data[x], !.p.dsect = x]
    BY <1>3, Zenon DEF LoadBuffer
  <2>u. u = WriteBuffer(s)
    OBVIOUS
  <2> HIDE DEF u, t
  <2>3. u = [v |-> u.v, p |-> u.p] /\ u.p \in FilRec /\ u.v.disk.data \in DataAreas
    BY <2>1, WorksFacts
  <2> DEFINE p == [u.p EXCEPT !.buf = u.v.disk.data[x], !.dsect = x]
  <2>4. t = On(u.v, p)
    BY <2>2, <2>3 DEF On
  <2>5. p \in FilRec /\ p.sclust = u.p.sclust /\ ~p.dirty /\ p.buf = u.v.disk.data[x]
    BY <2>1, <2>3 DEF FilRec, DataAreas
  <2>6. Buffered(s.p, p) /\ p.dsect = x
    BY <2>1, <2>3 DEF FilRec, Buffered
  <2> HIDE DEF p
  <2>7. Works(On(u.v, p), ch, K, f)
    BY <2>1, <2>5, WorksOn, Zenon
  <2>8. t.v = u.v /\ t.p = p
    BY <2>4 DEF On
  <2>9. Works(t, ch, K, f)
    BY <2>4, <2>7
  <2>10. Loaded(s, t, x)
    BY <1>3, <2>5, <2>6, <2>8, <2>u DEF Loaded
  <2> QED BY <2>1, <2>6, <2>8, <2>9, <2>10 DEF t
<1> QED BY <1>2, <1>3
-----------------------------------------------------------------------------
LEMMA OneQuotient ==
    ASSUME NEW w \in Nat, NEW a \in Nat, NEW b \in Nat, NEW x \in Int,
           w * a <= x, x < w * a + w, w * b <= x, x < w * b + w
    PROVE  a = b
<1>1. ASSUME NEW c \in Nat, NEW d \in Nat, c < d, w * d <= x, x < w * c + w PROVE FALSE
  <2>1. c+1 \in Nat /\ c+1 <= d
    BY <1>1
  <2>2. w * (c+1) <= w * d /\ w * (c+1) = w * c + w
    BY <2>1, Mul
  <2>3. w * c \in Nat /\ w * d \in Nat
    BY Mul
  <2> QED BY <1>1, <2>2, <2>3
<1>2. ~(a < b) /\ ~(b < a)
  BY <1>1
<1> QED BY <1>2

LEMMA AtParts ==
    ASSUME NEW x, NEW q, NEW k, NEW r, At(x, q, k, r)
    PROVE  /\ x \in Nat /\ q \in Nat /\ k \in Nat /\ r \in Nat /\ r < SS /\ k < CSize
           /\ SS * k \in Nat /\ SS * k + SS <= bcs /\ bcs * q \in Nat
           /\ x = bcs * q + SS * k + r /\ bcs * q <= x /\ x < bcs * q + bcs
<1>1. q \in Nat /\ k \in 0 .. CSize-1 /\ r \in 0 .. SS-1 /\ x = bcs * q + SS * k + r
  BY DEF At
<1>2. SS \in Nat /\ CSize \in Nat /\ bcs \in Nat /\ bcs = CSize * SS
  BY Sizes1
<1>3. k+1 \in Nat /\ k+1 <= CSize /\ k \in Nat
  BY <1>1, <1>2
<1>4. SS * (k+1) <= SS * CSize /\ SS * (k+1) = SS * k + SS /\ SS * k \in Nat
  BY <1>2, <1>3, Mul
<1>5. SS * CSize = CSize * SS
  BY <1>2
<1>6. bcs * q \in Nat
  BY <1>1, <1>2, Mul
<1> DEFINE a == bcs * q
           b == SS * k
<1>7. a \in Nat /\ b \in Nat /\ b + SS <= bcs /\ x = a + b + r
  BY <1>1, <1>2, <1>4, <1>5, <1>6
<1> HIDE DEF a, b
<1>8. x \in Nat /\ a <= x /\ x < a + bcs /\ r \in Nat /\ r < SS /\ k < CSize
  BY <1>1, <1>2, <1>3, <1>7
<1> QED BY <1>1, <1>3, <1>7, <1>8 DEF a, b

\* The place of a byte is where its parts say.
LEMMA AtOf ==
    ASSUME NEW q \in Nat, NEW k \in 0 .. CSize-1, NEW r \in 0 .. SS-1
    PROVE  At(bcs * q + SS * k + r, q, k, r)
<1>1. SS \in Nat \ {0} /\ CSize \in Nat \ {0} /\ bcs = CSize * SS
  BY Sizes1
<1>2. k \in Nat /\ r \in Nat
  BY <1>1
<1> DEFINE a == CSize * q + k
           x == bcs * q + SS * k + r
<1>3. a \in Nat /\ a % CSize = k
  <2>1. CSize * q \in Nat
    BY <1>1, Mul
  <2> QED BY <1>1, <1>2, <2>1, WrapUnique
<1>4. SS * a = bcs * q + SS * k
  <2>1. \A u, w, y, z \in Nat : u * (w * y + z) = (w * u) * y + u * z
    OBVIOUS
  <2>2. SS * (CSize * q + k) = (CSize * SS) * q + SS * k
    BY <1>1, <1>2, <2>1
  <2> QED BY <1>1, <2>2
<1> HIDE DEF a
<1>5. x = SS * a + r
  BY <1>4
<1> HIDE DEF x
<1>6. x % SS = r /\ x \div SS = a
  BY <1>1, <1>3, <1>5
<1>7. x = bcs * q + SS * k + r
  BY DEF x
<1> QED BY <1>3, <1>6, <1>7 DEF At, x

LEMMA AtOnce ==
    ASSUME NEW x, NEW q, NEW k, NEW r, At(x, q, k, r), NEW i, NEW j, NEW e, At(x, i, j, e)
    PROVE  q = i /\ k = j /\ r = e
<1>1. k = j /\ r = e
  BY DEF At
<1>2. x \in Nat /\ q \in Nat /\ bcs * q <= x /\ x < bcs * q + bcs
  BY AtParts
<1>3. i \in Nat /\ bcs * i <= x /\ x < bcs * i + bcs
  BY AtParts
<1>4. q = i
  BY <1>2, <1>3, OneQuotient, Sizes1
<1> QED BY <1>1, <1>4

-----------------------------------------------------------------------------
LEMMA LiesAt ==
    ASSUME NEW x, NEW c, NEW s, Lies(x, c, s), NEW q, NEW k, NEW r, At(x, q, k, r)
    PROVE  q+1 \in 1 .. Len(s) /\ c = s[q+1]
<1>1. PICK a \in Nat : a+1 \in 1 .. Len(s) /\ c = s[a+1] /\ x \in bcs*a .. bcs*a + (bcs-1)
  BY DEF Lies
<1>2. x \in Nat /\ q \in Nat /\ bcs * q <= x /\ x < bcs * q + bcs
  BY AtParts
<1>3. bcs \in Nat /\ bcs * a \in Nat
  BY Sizes1, Mul
<1>4. bcs * a <= x /\ x < bcs * a + bcs
  <2> DEFINE y == bcs * a
  <2>1. y \in Nat /\ x \in y .. y + (bcs-1)
    BY <1>1, <1>3
  <2> HIDE DEF y
  <2>2. y <= x /\ x < y + bcs
    BY <1>3, <2>1
  <2> QED BY <2>2 DEF y
<1>5. a = q
  BY <1>2, <1>3, <1>4, OneQuotient
<1> QED BY <1>1, <1>5

\* From a byte in a cluster to others in that cluster.
LEMMA LiesOn ==
    ASSUME NEW x, NEW q, NEW k, NEW r, At(x, q, k, r), NEW s, q+1 \in 1 .. Len(s),
           NEW y \in Nat, bcs * q <= y, y < bcs * q + bcs
    PROVE  Lies(y, s[q+1], s)
<1>1. q \in Nat /\ bcs * q \in Nat /\ bcs \in Nat
  BY AtParts, Sizes1
<1> DEFINE a == bcs * q
<1>2. y \in a .. a + (bcs-1)
  <2>1. a \in Nat /\ a <= y /\ y < a + bcs
    BY <1>1
  <2> HIDE DEF a
  <2> QED BY <1>1, <2>1
<1> QED BY <1>1, <1>2 DEF Lies, a

\* The byte behind one in a cluster is there too, or is the first of the next one.
LEMMA LiesNext ==
    ASSUME NEW x \in Nat, x > 0, NEW c, NEW s, Lies(x-1, c, s), Len(s) \in Nat,
           NEW q, NEW k, NEW r, At(x, q, k, r)
    PROVE  IF k = 0 /\ r = 0 THEN q \in 1 .. Len(s) /\ c = s[q]
           ELSE q+1 \in 1 .. Len(s) /\ c = s[q+1]
<1>1. PICK a \in Nat : a+1 \in 1 .. Len(s) /\ c = s[a+1] /\ x-1 \in bcs*a .. bcs*a + (bcs-1)
  BY DEF Lies
<1>2. /\ q \in Nat /\ k \in Nat /\ r \in Nat /\ SS * k \in Nat /\ bcs * q \in Nat
      /\ x = bcs * q + SS * k + r /\ x < bcs * q + bcs
  BY AtParts
<1>3. bcs \in Nat /\ bcs > 0 /\ SS \in Nat /\ SS > 0 /\ bcs * a \in Nat
  BY Sizes1, Mul
<1> DEFINE y == bcs * a
           z == bcs * q
           t == SS * k
<1>y. y \in Nat /\ z \in Nat /\ t \in Nat /\ x-1 \in y .. y + (bcs-1) /\ x = z + t + r /\ x < z + bcs
  BY <1>1, <1>2, <1>3
<1>4. CASE k = 0 /\ r = 0
  <2>1. t = 0
    BY <1>3, <1>4
  <2>2. q # 0
    <3> SUFFICES ASSUME q = 0 PROVE FALSE
      OBVIOUS
    <3>1. z = 0
      BY <1>3
    <3> HIDE DEF y, z, t
    <3> QED BY <1>4, <1>y, <2>1, <3>1
  <2>3. q-1 \in Nat
    BY <1>2, <2>2
  <2>4. PICK e \in Nat : q = e+1
    BY <1>2, <2>3
  <2>m. bcs * (e+1) = bcs * e + bcs /\ bcs * e \in Nat
    BY <1>3, Mul
  <2> DEFINE u == bcs * e
  <2>5. u \in Nat /\ z = u + bcs
    BY <2>4, <2>m
  <2> HIDE DEF y, z, t, u
  <2>6. y <= x-1 /\ x-1 < y + bcs /\ u <= x-1 /\ x-1 < u + bcs /\ x-1 \in Int
    BY <1>3, <1>4, <1>y, <2>1, <2>5
  <2>7. a = e
    BY <1>3, <2>6, OneQuotient DEF y, u
  <2> QED BY <1>1, <1>2, <1>4, <2>4, <2>7
<1>5. CASE ~(k = 0 /\ r = 0)
  <2>1. t + r > 0
    <3>1. CASE r # 0
      <4> HIDE DEF t
      <4> QED BY <1>2, <1>y, <3>1
    <3>2. CASE k # 0
      <4>1. SS * 1 <= SS * k /\ SS * 1 = SS
        BY <1>2, <1>3, <3>2
      <4>2. SS <= t
        BY <4>1
      <4> HIDE DEF t
      <4> QED BY <1>2, <1>3, <1>y, <4>2
    <3> QED BY <1>5, <3>1, <3>2
  <2> HIDE DEF y, z, t
  <2>2. y <= x-1 /\ x-1 < y + bcs /\ z <= x-1 /\ x-1 < z + bcs /\ x-1 \in Int
    BY <1>2, <1>3, <1>y, <2>1
  <2>3. a = q
    BY <1>2, <1>3, <2>2, OneQuotient DEF y, z
  <2> QED BY <1>1, <1>5, <2>3
<1> QED BY <1>4, <1>5

LEMMA LiesGrows ==
    ASSUME NEW s, Len(s) \in Nat, NEW s2, Grows(s, s2), NEW x, NEW c, Lies(x, c, s)
    PROVE  Lies(x, c, s2)
<1>1. PICK a \in Nat : a+1 \in 1 .. Len(s) /\ c = s[a+1] /\ x \in bcs*a .. bcs*a + (bcs-1)
  BY DEF Lies
<1>2. a+1 \in 1 .. Len(s2) /\ s2[a+1] = s[a+1]
  BY <1>1 DEF Grows, Longer
<1> QED BY <1>1, <1>2 DEF Lies
-----------------------------------------------------------------------------
LEMMA MinTwo ==
    ASSUME NEW a \in Nat, NEW b \in Nat
    PROVE  Min({a, b}) = IF a <= b THEN a ELSE b
<1>1. {a, b} \in SUBSET Nat /\ {a, b} # {}
  OBVIOUS
<1> DEFINE m == Min({a, b})
<1>2. m \in {a, b} /\ \A x \in {a, b} : m <= x
  BY <1>1, MinIsLeast
<1> HIDE DEF m
<1> QED BY <1>2 DEF m

\* A chain is as it was, or longer.
Extends(s, t) == Len(t) \in Nat /\ Len(s) <= Len(t) /\ \A i \in 1 .. Len(s) : t[i] = s[i]

LEMMA ExtendsFacts ==
    /\ \A s \in Seq(Cluster) : Extends(s, s)
    /\ \A s, t \in Seq(Cluster) : Grows(s, t) => Extends(s, t)
    /\ \A s, t, u \in Seq(Cluster) : Extends(s, t) /\ Extends(t, u) => Extends(s, u)
<1>1. \A s \in Seq(Cluster) : Len(s) \in Nat
  BY ListFacts
<1>2. \A s \in Seq(Cluster) : Extends(s, s)
  BY <1>1 DEF Extends
<1>3. \A s, t \in Seq(Cluster) : Grows(s, t) => Extends(s, t)
  BY <1>1 DEF Extends, Grows, Longer
<1>4. ASSUME NEW s \in Seq(Cluster), NEW t \in Seq(Cluster), NEW u \in Seq(Cluster), Extends(s, t), Extends(t, u)
      PROVE  Extends(s, u)
  <2>1. /\ Len(s) \in Nat /\ Len(t) \in Nat /\ Len(u) \in Nat /\ Len(s) <= Len(t) /\ Len(t) <= Len(u)
        /\ \A i \in 1 .. Len(s) : t[i] = s[i]
        /\ \A i \in 1 .. Len(t) : u[i] = t[i]
    BY <1>1, <1>4 DEF Extends
  <2> QED BY <2>1 DEF Extends
<1> QED BY <1>2, <1>3, <1>4

LEMMA LiesExtends ==
    ASSUME NEW s, NEW t, Len(s) \in Nat, Extends(s, t), NEW x, NEW c, Lies(x, c, s)
    PROVE  Lies(x, c, t)
<1>1. PICK a \in Nat : a+1 \in 1 .. Len(s) /\ c = s[a+1] /\ x \in bcs*a .. bcs*a + (bcs-1)
  BY DEF Lies
<1>2. a+1 \in 1 .. Len(t) /\ t[a+1] = s[a+1]
  BY <1>1 DEF Extends
<1> QED BY <1>1, <1>2 DEF Lies

LEMMA FirstIs ==
    ASSUME NEW s \in Seq(Cluster)
    PROVE  /\ First(s) = IF Len(s) = 0 THEN 0 ELSE s[1]
           /\ First(s) # 0 <=> Len(s) # 0
           /\ s = Nil <=> Len(s) = 0
           /\ Len(s) \in Nat
<1>1. Len(s) \in Nat /\ (s = << >> <=> Len(s) = 0) /\ \A i \in 1 .. Len(s) : s[i] \in Cluster
  BY ListFacts
<1>2. First(s) = IF Len(s) = 0 THEN 0 ELSE s[1]
  BY <1>1 DEF First
<1>3. Len(s) # 0 => s[1] # 0
  BY <1>1, NoCluster
<1> QED BY <1>1, <1>2, <1>3, NilIs

LEMMA ExtendsFirst ==
    ASSUME NEW s \in Seq(Cluster), NEW t \in Seq(Cluster), Extends(s, t)
    PROVE  /\ First(s) # 0 => First(t) = First(s)
           /\ s = t \/ Len(s) < Len(t)
<1>1. First(s) # 0 => First(t) = First(s)
  BY FirstIs DEF Extends
<1>2. CASE Len(s) = Len(t)
  <2>1. s \in [1 .. Len(s) -> Cluster] /\ t \in [1 .. Len(t) -> Cluster]
    BY ListFacts
  <2>2. \A i \in 1 .. Len(s) : t[i] = s[i]
    BY DEF Extends
  <2>3. s = t
    BY <1>2, <2>1, <2>2
  <2> QED BY <1>1, <2>3
<1>3. CASE Len(s) # Len(t)
  <2>1. Len(s) < Len(t)
    BY <1>3, FirstIs DEF Extends
  <2> QED BY <1>1, <2>1
<1> QED BY <1>2, <1>3

LEMMA LiesFirst ==
    ASSUME NEW t \in Seq(Cluster), NEW c, Lies(0, c, t)
    PROVE  First(t) = c /\ c # 0
<1>1. At(bcs * 0 + SS * 0 + 0, 0, 0, 0) /\ bcs * 0 + SS * 0 + 0 = 0
  BY AtOf, Sizes1
<1>2. At(0, 0, 0, 0)
  BY <1>1
<1>3. 0+1 \in 1 .. Len(t) /\ c = t[0+1]
  BY <1>2, LiesAt
<1> QED BY <1>3, FirstIs

-----------------------------------------------------------------------------
\* The cluster for the byte x of the file f was sought; its chain is t now.
Reached(s, ch, K, f, a, t, x) ==
    /\ Good(a.v, With(ch, f, t, Nil), K) /\ FreeRight(a.v) /\ Aside(K, With(ch, f, t, Nil), f)
    /\ Still(s.v, a.v) /\ a.v.disk.data = s.v.disk.data
    /\ t \in Seq(Cluster) /\ Extends(ch[f], t)
    /\ \/ a.clst = 0 /\ t = ch[f]
       \/ a.clst \in Cluster /\ Lies(x, a.clst, t)
    /\ t = ch[f] => Quiet(s.v, a.v)
    /\ t # ch[f] => bcs * Len(ch[f]) <= x

LEMMA ReachedHere ==
    ASSUME NEW s, NEW ch, NEW K, NEW f \in Names, Works(s, ch, K, f), NEW w, Quiet(s.v, w),
           NEW c \in Cluster, NEW x, Lies(x, c, ch[f])
    PROVE  Reached(s, ch, K, f, [v |-> w, clst |-> c], ch[f], x)
<1> DEFINE a == [v |-> w, clst |-> c]
<1>1. a.v = w /\ a.clst = c
  OBVIOUS
<1> HIDE DEF a
<1>2. /\ Good(s.v, ch, K) /\ FreeRight(s.v) /\ Aside(K, ch, f) /\ ch[f] \in Seq(Cluster)
      /\ With(ch, f, ch[f], Nil) = ch
  BY WorksFacts
<1>3. Good(w, ch, K) /\ FreeRight(w) /\ Still(s.v, w) /\ w.disk.data = s.v.disk.data
  BY <1>2 DEF Quiet, Alike, FreeRight, Still
<1>4. Extends(ch[f], ch[f])
  BY <1>2, ExtendsFacts
<1>5. Reached(s, ch, K, f, a, ch[f], x)
  BY <1>1, <1>2, <1>3, <1>4 DEF Reached
<1> QED BY <1>5 DEF a

LEMMA ReachedCreate ==
    ASSUME NEW s, NEW ch, NEW K, NEW f \in Names, Works(s, ch, K, f),
           NEW m \in 0 .. Len(ch[f]), m = 0 => Len(ch[f]) = 0, NEW x, At(x, m, 0, 0)
    PROVE  \E t : Reached(s, ch, K, f, create_chain(s.v, Position(ch[f], m)), t, x)
<1> DEFINE a == create_chain(s.v, Position(ch[f], m))
<1>1. /\ Good(s.v, ch, K) /\ FreeRight(s.v) /\ Aside(K, ch, f) /\ ch[f] \in Seq(Cluster)
      /\ ch[Loose] = Nil /\ Len(ch[f]) \in Nat
  BY WorksFacts
<1>2. Asked(s.v, ch, K, f, m)
  <2>1. m = 0 => ch[f] = << >>
    BY <1>1, ListFacts
  <2> QED BY <1>1, <2>1 DEF Asked
<1>3. PICK t : Got(s.v, ch, K, f, m, a, t)
  BY <1>2, CreateGood
<1> HIDE DEF a
<1>4. /\ Good(a.v, With(ch, f, t, Nil), K) /\ FreeRight(a.v) /\ Beside(s.v, a.v)
      /\ Aside(K, With(ch, f, t, Nil), f) /\ Gives(ch[f], m, t, a.clst)
      /\ t = ch[f] => Quiet(s.v, a.v)
  BY <1>3 DEF Got
<1>5. t \in Seq(Cluster) /\ Extends(ch[f], t)
  BY <1>1, <1>4, ExtendsFacts DEF Gives
<1>6. \/ a.clst = 0 /\ t = ch[f]
      \/ a.clst \in Cluster /\ Lies(x, a.clst, t)
  <2>1. CASE a.clst = 0 /\ t = ch[f]
    BY <2>1
  <2>2. CASE m+1 \in 1 .. Len(t) /\ a.clst = t[m+1]
    <3>1. x \in Nat /\ bcs * m <= x /\ x < bcs * m + bcs
      BY AtParts
    <3>2. Lies(x, t[m+1], t)
      BY <2>2, <3>1, LiesOn
    <3>3. t[m+1] \in Cluster
      BY <1>5, <2>2, ListFacts
    <3> QED BY <2>2, <3>2, <3>3
  <2> QED BY <1>4, <2>1, <2>2 DEF Gives
<1>7. Still(s.v, a.v) /\ a.v.disk.data = s.v.disk.data
  BY <1>4 DEF Beside, Still
<1>9. t # ch[f] => bcs * Len(ch[f]) <= x
  <2>1. t # ch[f] => m = Len(ch[f])
    BY <1>4 DEF Gives
  <2>2. bcs * m <= x
    BY AtParts
  <2> QED BY <2>1, <2>2
<1>8. Reached(s, ch, K, f, a, t, x)
  BY <1>4, <1>5, <1>6, <1>7, <1>9 DEF Reached
<1> QED BY <1>8 DEF a

\* The work goes on there.
LEMMA ReachedWorks ==
    ASSUME NEW s, NEW ch, NEW K, NEW f \in Names, Works(s, ch, K, f), NEW a, NEW t, NEW x,
           Reached(s, ch, K, f, a, t, x), NEW p \in FilRec, p.sclust = First(t),
           p.dirty => p.dsect \in DataSector \ K.sects
    PROVE  Works(On(a.v, p), With(ch, f, t, Nil), K, f) /\ With(ch, f, t, Nil)[f] = t
<1> DEFINE u == On(a.v, p)
           c2 == With(ch, f, t, Nil)
<1>1. u.v = a.v /\ u.p = p /\ u = On(u.v, u.p)
  BY DEF On
<1> HIDE DEF u
<1>2. ch \in [Holders -> Seq(Cluster)] /\ t \in Seq(Cluster) /\ Nil \in Seq(Cluster)
  BY WorksFacts, NilIs DEF Reached
<1>3. c2[f] = t /\ c2[Loose] = Nil
  BY <1>2, WithIs
<1>4. Good(a.v, c2, K) /\ FreeRight(a.v) /\ Aside(K, c2, f)
  BY DEF Reached
<1> HIDE DEF c2
<1>5. Works(u, c2, K, f)
  BY <1>1, <1>3, <1>4 DEF Works
<1> QED BY <1>3, <1>5 DEF u, c2

\* The cluster f_write goes to.
LEMMA WriteClusterReached ==
    ASSUME NEW s, NEW ch, NEW K, NEW f \in Names, Works(s, ch, K, f), Placed(s.p, ch[f]),
           s.p.fptr % SS = 0
    PROVE  \E t : Reached(s, ch, K, f, WriteCluster(s), t, s.p.fptr)
<1> DEFINE x == s.p.fptr
           a == WriteCluster(s)
           g == ch[f]
<1>1. /\ s.p \in FilRec /\ g \in Seq(Cluster) /\ Len(g) \in Nat /\ s.p.sclust = First(g)
  BY WorksFacts
<1>2. x \in Nat
  BY <1>1 DEF FilRec
<1>3. PICK q, k, r : At(x, q, k, r)
  BY <1>2, AtExists
<1>4. r = 0 /\ SectorOfCluster(s.p) = k /\ q \in Nat /\ k \in Nat
  BY <1>3, AtParts DEF At, SectorOfCluster
<1>5. Quiet(s.v, s.v)
  BY QuietSame
<1>6. x = 0 => q = 0 /\ k = 0
  <2>1. At(bcs * 0 + SS * 0 + 0, 0, 0, 0) /\ bcs * 0 + SS * 0 + 0 = 0
    BY AtOf, Sizes1
  <2> QED BY <1>3, <2>1, AtOnce
<1>7. x > 0 => IF k = 0 THEN q \in 1 .. Len(g) /\ s.p.clust = g[q]
                        ELSE q+1 \in 1 .. Len(g) /\ s.p.clust = g[q+1]
  <2> SUFFICES ASSUME x > 0 PROVE IF k = 0 THEN q \in 1 .. Len(g) /\ s.p.clust = g[q]
                                           ELSE q+1 \in 1 .. Len(g) /\ s.p.clust = g[q+1]
    OBVIOUS
  <2>1. Lies(x-1, s.p.clust, g)
    BY DEF Placed
  <2> HIDE DEF x, g
  <2>2. IF k = 0 /\ r = 0 THEN q \in 1 .. Len(g) /\ s.p.clust = g[q]
           ELSE q+1 \in 1 .. Len(g) /\ s.p.clust = g[q+1]
    BY <1>1, <1>2, <1>3, <2>1, LiesNext
  <2> QED BY <1>4, <2>2
<1>8. a = CASE k # 0 -> [v |-> s.v, clst |-> s.p.clust]
            [] x = 0 /\ s.p.sclust # 0 -> [v |-> s.v, clst |-> s.p.sclust]
            [] x = 0 /\ s.p.sclust = 0 -> create_chain(s.v, 0)
            [] OTHER -> create_chain(s.v, s.p.clust)
  BY <1>4 DEF WriteCluster
<1> HIDE DEF a, x
<1>9. CASE k # 0
  <2>1. a = [v |-> s.v, clst |-> s.p.clust]
    BY <1>6, <1>8, <1>9
  <2>2. q+1 \in 1 .. Len(g) /\ s.p.clust = g[q+1]
    BY <1>2, <1>6, <1>7, <1>9
  <2>3. bcs * q <= x /\ x < bcs * q + bcs
    BY <1>3, AtParts
  <2>4. Lies(x, g[q+1], g)
    BY <1>2, <1>3, <2>2, <2>3, LiesOn
  <2>5. g[q+1] \in Cluster
    BY <1>1, <2>2, ListFacts
  <2>6. Reached(s, ch, K, f, [v |-> s.v, clst |-> g[q+1]], ch[f], x)
    BY <1>5, <2>4, <2>5, ReachedHere
  <2> QED BY <2>1, <2>2, <2>6 DEF x, a
<1>10. CASE k = 0 /\ x = 0 /\ s.p.sclust # 0
  <2>1. a = [v |-> s.v, clst |-> s.p.sclust]
    BY <1>8, <1>10
  <2>2. 0+1 \in 1 .. Len(g) /\ s.p.sclust = g[0+1] /\ g[0+1] \in Cluster
    BY <1>1, <1>10, FirstIs, ListFacts
  <2>3. At(x, 0, k, r) /\ bcs * 0 <= x /\ x < bcs * 0 + bcs
    BY <1>3, <1>6, <1>10, AtParts
  <2>4. Lies(x, g[0+1], g)
    BY <1>2, <2>2, <2>3, LiesOn
  <2>6. Reached(s, ch, K, f, [v |-> s.v, clst |-> g[0+1]], ch[f], x)
    BY <1>5, <2>2, <2>4, ReachedHere
  <2> QED BY <2>1, <2>2, <2>6 DEF x, a
<1>11. CASE k = 0 /\ x = 0 /\ s.p.sclust = 0
  <2>1. a = create_chain(s.v, 0)
    BY <1>8, <1>11
  <2>2. Len(g) = 0
    BY <1>1, <1>11, FirstIs
  <2>3. At(x, 0, 0, 0) /\ 0 \in 0 .. Len(ch[f])
    BY <1>1, <1>3, <1>4, <1>6, <1>11
  <2>4. \E t : Reached(s, ch, K, f, create_chain(s.v, Position(ch[f], 0)), t, x)
    BY <2>2, <2>3, ReachedCreate
  <2> QED BY <2>1, <2>4 DEF x, a, Position
<1>12. CASE k = 0 /\ x # 0
  <2>1. a = create_chain(s.v, s.p.clust)
    BY <1>8, <1>12
  <2>2. q \in 1 .. Len(g) /\ s.p.clust = g[q]
    BY <1>2, <1>7, <1>12
  <2>3. q # 0 /\ q \in 0 .. Len(ch[f]) /\ At(x, q, 0, 0)
    BY <1>1, <1>3, <1>4, <1>12, <2>2
  <2>4. \E t : Reached(s, ch, K, f, create_chain(s.v, Position(ch[f], q)), t, x)
    BY <2>3, ReachedCreate
  <2>5. Position(ch[f], q) = s.p.clust
    BY <2>2, <2>3 DEF Position
  <2> QED BY <2>1, <2>4, <2>5 DEF x, a
<1> QED BY <1>9, <1>10, <1>11, <1>12
-----------------------------------------------------------------------------
Contents == Seq(Data \cup {Blank})

\* The byte x of a file with the chain s is the byte r of the sector X.
InSector(s, x, X, r) == \E q, k : /\ At(x, q, k, r) /\ q+1 \in 1 .. Len(s)
                                  /\ X = clust2sect(s[q+1]) + k

\* The byte r of the sector X is b for a call about a file, whose buffer may be
\* newer than the disk.
Has(s, X, r, b) == /\ s.p.dsect = X => s.p.buf[r] = b
                   /\ s.p.dsect # X \/ ~s.p.dirty => s.v.disk.data[X][r] = b

\* The file with the chain t holds the bytes c.
Holding(s, t, c) ==
    /\ s.p.dirty => s.p.dsect \in Sects(Members(t))
    /\ \A x \in 0 .. Len(c)-1 : \A X, r :
          c[x+1] # Blank /\ InSector(t, x, X, r) => Has(s, X, r, c[x+1])

LEMMA BlankIs == Blank \notin Data
BY FilesAssumption

LEMMA ListOf ==
    ASSUME NEW S, NEW n \in Nat, NEW g \in [1 .. n -> S]
    PROVE  g \in Seq(S) /\ Len(g) = n
<1>1. g \in Seq(S)
  OBVIOUS
<1> QED BY <1>1, ListFacts

LEMMA MaxTwo ==
    ASSUME NEW a \in Nat, NEW b \in Nat
    PROVE  Max({a, b}) = IF a <= b THEN b ELSE a
<1> DEFINE T == {a, b}
           m == Max(T)
<1>1. \E x \in T : \A y \in T : x >= y
  OBVIOUS
<1>t. \A x \in T : x \in Nat /\ (x = a \/ x = b)
  OBVIOUS
<1>u. a \in T /\ b \in T
  OBVIOUS
<1> HIDE DEF T
<1>2. m \in T /\ \A y \in T : m >= y
  BY <1>1, Zenon DEF Max
<1> HIDE DEF m
<1>3. m = IF a <= b THEN b ELSE a
  BY <1>2, <1>t, <1>u
<1> QED BY <1>3 DEF m, T

\* o is c with the bytes from a to e set to d.
Over(c, a, e, d, o) ==
    /\ o \in Contents /\ Len(o) \in Nat /\ Len(c) \in Nat /\ a <= Len(c)
    /\ Len(o) = IF Len(c) <= e THEN e ELSE Len(c)
    /\ \A x \in 0 .. Len(o)-1 : o[x+1] = IF a <= x /\ x < e THEN d ELSE c[x+1]

LEMMA OverwriteIs ==
    ASSUME NEW c \in Contents, NEW a \in Nat, NEW e \in Nat, a <= e, NEW d \in Data \cup {Blank}, a <= Len(c)
    PROVE  Over(c, a, e, d, Overwrite(c, a, e, d))
<1> DEFINE S == Data \cup {Blank}
           n == IF Len(c) <= e THEN e ELSE Len(c)
           o == Overwrite(c, a, e, d)
<1>1. Len(c) \in Nat /\ \A k \in 1 .. Len(c) : c[k] \in S
  BY ListFacts DEF Contents
<1>2. o = [k \in 1 .. n |-> IF k \in a+1 .. e THEN d ELSE c[k]]
  BY <1>1, MaxTwo DEF Overwrite
<1>3. n \in Nat /\ Len(c) <= n /\ (n = e \/ n = Len(c))
  BY <1>1
<1> HIDE DEF n, o
<1>4. \A k \in 1 .. n : (IF k \in a+1 .. e THEN d ELSE c[k]) \in S
  BY <1>1, <1>3
<1>5. o \in [1 .. n -> S]
  BY <1>2, <1>4
<1> HIDE DEF S
<1>6. o \in Seq(S) /\ Len(o) = n
  <2>1. n \in Nat
    BY <1>3
  <2>2. \A N \in Nat : \A g \in [1 .. N -> S] : g \in Seq(S) /\ Len(g) = N
    BY ListOf
  <2> QED BY <1>5, <2>1, <2>2
<1>7. \A x \in 0 .. n-1 : o[x+1] = IF a <= x /\ x < e THEN d ELSE c[x+1]
  BY <1>2, <1>3
<1> QED BY <1>1, <1>3, <1>6, <1>7 DEF Contents, o, n, S, Over

-----------------------------------------------------------------------------
\* A sector of a file's cluster: which bytes it has.
LEMMA SameSector ==
    ASSUME NEW fat, NEW s, Path(fat, s), NEW x, NEW X, NEW r, InSector(s, x, X, r),
           NEW q, q+1 \in 1 .. Len(s), NEW k \in 0 .. CSize-1, q \in Nat, X = clust2sect(s[q+1]) + k
    PROVE  At(x, q, k, r)
<1>1. PICK i, j : At(x, i, j, r) /\ i+1 \in 1 .. Len(s) /\ X = clust2sect(s[i+1]) + j
  BY DEF InSector
<1>2. s[q+1] \in Cluster /\ s[i+1] \in Cluster /\ j \in 0 .. CSize-1 /\ i \in Nat
  BY <1>1, PathFacts DEF At
<1>3. s[q+1] = s[i+1] /\ k = j
  BY <1>1, <1>2, SectorOnce
<1>4. q+1 = i+1
  BY <1>1, <1>3, PathOnce
<1>5. q = i
  BY <1>2, <1>4
<1> QED BY <1>1, <1>3, <1>5

LEMMA SectorFacts ==
    ASSUME NEW s, NEW ch, NEW K, NEW f \in Names, Works(s, ch, K, f),
           NEW q \in Nat, q+1 \in 1 .. Len(ch[f]), NEW k \in 0 .. CSize-1
    PROVE  LET X == clust2sect(ch[f][q+1]) + k
           IN  X \in DataSector /\ X \notin K.sects /\ X \in Sects(Members(ch[f]))
<1>1. /\ Path(s.v.fat, ch[f]) /\ Layout(s.v.fat, ch) /\ Aside(K, ch, f) /\ ch[f] \in Seq(Cluster)
  BY WorksFacts
<1>2. ch[f][q+1] \in Cluster /\ ch[f][q+1] \in Members(ch[f])
  BY <1>1, ListFacts DEF Members
<1> DEFINE c == ch[f][q+1]
           X == clust2sect(c) + k
<1>3. X \in Sects(Members(ch[f]))
  BY <1>2 DEF Sects
<1> HIDE DEF c
<1>4. X \in DataSector
  BY <1>2, SectorIn DEF c
<1>5. X \notin K.sects
  BY <1>1, <1>2, SectorAside DEF c
<1> QED BY <1>3, <1>4, <1>5 DEF c

\* The sectors from one of a cluster on, and their bytes.
LEMMA Stretch ==
    ASSUME NEW x, NEW q, NEW k, At(x, q, k, 0), NEW cc \in Nat, k + cc <= CSize,
           NEW y, NEW i, NEW j, NEW e, At(y, i, j, e)
    PROVE  /\ (x <= y /\ y < x + cc*SS) <=> (i = q /\ k <= j /\ j < k + cc)
           /\ cc*SS \in Nat /\ x + cc*SS <= bcs*q + bcs
<1>1. /\ x \in Nat /\ q \in Nat /\ k \in Nat /\ k < CSize /\ SS * k \in Nat /\ bcs * q \in Nat
      /\ x = bcs * q + SS * k
  <2>1. /\ x \in Nat /\ q \in Nat /\ k \in Nat /\ k < CSize /\ SS * k \in Nat /\ bcs * q \in Nat
        /\ x = bcs * q + SS * k + 0
    BY AtParts
  <2> QED BY <2>1
<1>2. /\ y \in Nat /\ i \in Nat /\ j \in Nat /\ e \in Nat /\ e < SS /\ SS * j \in Nat /\ bcs * i \in Nat
      /\ y = bcs * i + SS * j + e /\ bcs * i <= y /\ y < bcs * i + bcs
  BY AtParts
<1>3. SS \in Nat /\ SS > 0 /\ CSize \in Nat /\ bcs = CSize * SS /\ bcs \in Nat
  BY Sizes1
<1>4. SS * (k + cc) = SS * k + SS * cc /\ SS * cc \in Nat /\ cc * SS = SS * cc
      /\ SS * (k + cc) <= SS * CSize /\ SS * CSize = bcs
  BY <1>1, <1>3, Mul
<1> DEFINE a == bcs * q
           b == SS * k
           w == SS * cc
           u == SS * j
           z == bcs * i
<1>5. /\ a \in Nat /\ b \in Nat /\ w \in Nat /\ u \in Nat /\ z \in Nat /\ x = a + b /\ b + w <= bcs
      /\ y = z + u + e /\ z <= y /\ y < z + bcs /\ cc * SS = w
  BY <1>1, <1>2, <1>3, <1>4
<1>6. ASSUME x <= y, y < x + w PROVE i = q /\ k <= j /\ j < k + cc
  <2> HIDE DEF a, b, w, u, z
  <2>1. a <= y /\ y < a + bcs
    BY <1>3, <1>5, <1>6
  <2>2. i = q
    BY <1>1, <1>2, <1>3, <1>5, <2>1, OneQuotient DEF a, z
  <2>3. a = z
    BY <2>2 DEF a, z
  <2>4. b <= u + e /\ u + e < b + w
    BY <1>2, <1>5, <1>6, <2>3
  <2>5. ASSUME j+1 <= k PROVE FALSE
    <3>1. SS * (j+1) <= SS * k /\ SS * (j+1) = SS * j + SS
      BY <1>1, <1>2, <1>3, <2>5, Mul
    <3>2. u + SS <= b
      BY <3>1 DEF u, b
    <3> QED BY <1>2, <1>3, <1>5, <2>4, <3>2
  <2>6. ASSUME k + cc <= j PROVE FALSE
    <3>1. SS * (k + cc) <= SS * j
      BY <1>1, <1>2, <1>3, <2>6, Mul
    <3>2. b + w <= u
      BY <1>4, <3>1 DEF b, w, u
    <3> QED BY <1>2, <1>5, <2>4, <3>2
  <2> QED BY <1>1, <1>2, <2>2, <2>5, <2>6
<1>7. ASSUME i = q, k <= j, j < k + cc PROVE x <= y /\ y < x + w
  <2>1. SS * k <= SS * j /\ SS * (j+1) <= SS * (k + cc) /\ SS * (j+1) = SS * j + SS
    BY <1>1, <1>2, <1>3, <1>7, Mul
  <2>2. b <= u /\ u + SS <= b + w /\ a = z
    BY <1>4, <1>7, <2>1
  <2> HIDE DEF a, b, w, u, z
  <2> QED BY <1>2, <1>3, <1>5, <2>2
<1> HIDE DEF w
<1>8. w \in Nat /\ x + w <= bcs*q + bcs
  <2> HIDE DEF b
  <2>1. x = a + b /\ b + w <= bcs
    BY <1>5
  <2> HIDE DEF a
  <2>2. x + w <= a + bcs
    BY <1>3, <1>5, <2>1
  <2> QED BY <1>5, <2>2 DEF a
<1>9. cc * SS = w
  BY <1>5
<1> QED BY <1>6, <1>7, <1>8, <1>9
-----------------------------------------------------------------------------
\* Nothing that holds bytes has changed.
LEMMA HoldingSame ==
    ASSUME NEW s, NEW u, NEW t, NEW c, Holding(s, t, c), u.p.dirty = s.p.dirty, u.p.dsect = s.p.dsect,
           u.p.buf = s.p.buf, u.v.disk.data = s.v.disk.data
    PROVE  Holding(u, t, c)
BY DEF Holding, Has

LEMMA HoldingWriteBuffer ==
    ASSUME NEW s, NEW ch, NEW K, NEW f \in Names, Works(s, ch, K, f), NEW t, NEW c, Holding(s, t, c)
    PROVE  Holding(WriteBuffer(s), t, c)
<1> DEFINE u == WriteBuffer(s)
<1>1. /\ ~u.p.dirty /\ u.p.dsect = s.p.dsect /\ u.p.buf = s.p.buf
      /\ u.v.disk.data = IF s.p.dirty THEN [s.v.disk.data EXCEPT ![s.p.dsect] = s.p.buf]
                                      ELSE s.v.disk.data
  <2>1. Flushed(s, u)
    BY WriteBufferWorks
  <2> HIDE DEF u
  <2> QED BY <2>1 DEF Flushed
<1> HIDE DEF u
<1>2. s.p \in FilRec /\ s.v.disk.data \in DataAreas /\ (s.p.dirty => s.p.dsect \in DataSector)
  BY WorksFacts DEF Works
<1>3. u.p.dsect = s.p.dsect /\ u.p.buf = s.p.buf
  BY <1>1
<1>4. ASSUME NEW X, NEW r, NEW b, Has(s, X, r, b) PROVE Has(u, X, r, b)
  <2>1. CASE ~s.p.dirty
    BY <1>1, <1>3, <1>4, <2>1 DEF Has
  <2>2. CASE s.p.dirty /\ X = s.p.dsect
    <3>1. u.v.disk.data[X] = s.p.buf
      BY <1>1, <1>2, <2>2 DEF DataAreas
    <3> QED BY <1>1, <1>3, <1>4, <2>2, <3>1 DEF Has
  <2>3. CASE s.p.dirty /\ X # s.p.dsect
    <3>1. u.v.disk.data[X] = s.v.disk.data[X]
      BY <1>1, <1>2, <2>3 DEF DataAreas
    <3> QED BY <1>1, <1>3, <1>4, <2>3, <3>1 DEF Has
  <2> QED BY <2>1, <2>2, <2>3
<1>5. Holding(u, t, c)
  BY <1>1, <1>4 DEF Holding
<1> QED BY <1>5 DEF u

LEMMA HoldingLoadBuffer ==
    ASSUME NEW s, NEW ch, NEW K, NEW f \in Names, Works(s, ch, K, f), NEW t, NEW c, Holding(s, t, c),
           NEW x \in DataSector
    PROVE  Holding(LoadBuffer(s, x), t, c)
<1> DEFINE u == LoadBuffer(s, x)
           w == WriteBuffer(s)
<1>1. CASE s.p.dsect = x
  BY <1>1 DEF LoadBuffer
<1>2. CASE s.p.dsect # x
  <2>1. Loaded(s, u, x)
    BY LoadBufferWorks
  <2>2. Holding(w, t, c) /\ ~w.p.dirty
    BY HoldingWriteBuffer, WriteBufferWorks DEF Flushed
  <2>w. w = WriteBuffer(s)
    OBVIOUS
  <2> HIDE DEF u, w
  <2>4. /\ u.p.dsect = x /\ ~u.p.dirty /\ u.p.buf = u.v.disk.data[x] /\ u.v = w.v
    BY <1>2, <2>1, <2>w DEF Loaded
  <2>5. Holding(u, t, c)
    BY <2>2, <2>4 DEF Holding, Has
  <2> QED BY <2>5 DEF u
<1> QED BY <1>1, <1>2

\* The chain has grown behind the bytes.
LEMMA HoldingExtends ==
    ASSUME NEW s, NEW t, NEW t2, NEW c \in Contents, Holding(s, t, c), Len(t) \in Nat, Extends(t, t2),
           Len(c) <= bcs * Len(t)
    PROVE  Holding(s, t2, c) /\ Len(c) <= bcs * Len(t2)
<1>0. Len(c) \in Nat /\ bcs \in Nat /\ Len(t2) \in Nat /\ Len(t) <= Len(t2)
  BY ListFacts, Sizes1 DEF Contents, Extends
<1>1. Sects(Members(t)) \subseteq Sects(Members(t2))
  <2>1. Members(t) \subseteq Members(t2)
    BY <1>0 DEF Members, Extends
  <2> QED BY <2>1 DEF Sects
<1>2. ASSUME NEW x \in 0 .. Len(c)-1, NEW X, NEW r, InSector(t2, x, X, r) PROVE InSector(t, x, X, r)
  <2>1. PICK q, k : At(x, q, k, r) /\ q+1 \in 1 .. Len(t2) /\ X = clust2sect(t2[q+1]) + k
    BY <1>2 DEF InSector
  <2>2. q \in Nat /\ bcs * q <= x /\ bcs * q \in Nat
    BY <2>1, AtParts
  <2>3. q < Len(t)
    <3> SUFFICES ASSUME Len(t) <= q PROVE FALSE
      BY <2>2
    <3>1. bcs * Len(t) <= bcs * q
      BY <1>0, <2>2, Mul
    <3> DEFINE a == bcs * Len(t)
               b == bcs * q
    <3>2. a <= b /\ b <= x /\ Len(c) <= a /\ a \in Nat /\ b \in Nat
      BY <1>0, <2>2, <3>1, Mul
    <3> HIDE DEF a, b
    <3> QED BY <1>0, <3>2
  <2>4. q+1 \in 1 .. Len(t) /\ t2[q+1] = t[q+1]
    BY <2>2, <2>3 DEF Extends
  <2> QED BY <2>1, <2>4 DEF InSector
<1>3. Len(c) <= bcs * Len(t2)
  <2> DEFINE a == bcs * Len(t)
             b == bcs * Len(t2)
  <2>1. a \in Nat /\ b \in Nat /\ a <= b /\ Len(c) <= a
    BY <1>0, Mul
  <2> HIDE DEF a, b
  <2>2. Len(c) <= b
    BY <1>0, <2>1
  <2> QED BY <2>2 DEF b
<1> QED BY <1>1, <1>2, <1>3 DEF Holding

-----------------------------------------------------------------------------
\* How far the bytes of a file go during a call.
Reach(p) == IF p.fsize < p.fptr THEN p.fptr ELSE p.fsize

LEMMA RefilledWorks ==
    ASSUME NEW s, NEW ch, NEW K, NEW f \in Names, Works(s, ch, K, f), ~s.p.dirty,
           Lies(s.p.fptr, s.p.clust, ch[f]), NEW q, NEW k, At(s.p.fptr, q, k, 0),
           NEW x, x = CurrentSector(s.p)
    PROVE  LET u == Refilled(s, x)
           IN  /\ Works(u, ch, K, f) /\ u.v = s.v /\ Buffered(s.p, u.p) /\ u.p.dsect = x /\ ~u.p.dirty
               /\ \A c \in Contents : Holding(s, ch[f], c) /\ Len(c) = Reach(s.p) => Holding(u, ch[f], c)
<1> DEFINE u == Refilled(s, x)
           g == ch[f]
           b == IF s.p.dsect # x /\ s.p.fptr < s.p.fsize THEN s.v.disk.data[x] ELSE s.p.buf
           p == [s.p EXCEPT !.dsect = x, !.buf = b]
<1>1. /\ s = [v |-> s.v, p |-> s.p] /\ s.p \in FilRec /\ s.v.disk.data \in DataAreas /\ Path(s.v.fat, g)
  BY WorksFacts
<1>2. k \in 0 .. CSize-1 /\ q \in Nat /\ q+1 \in 1 .. Len(g) /\ s.p.clust = g[q+1]
  BY LiesAt DEF At
<1>3. x = clust2sect(g[q+1]) + k /\ x \in DataSector /\ x \notin K.sects
  <2>1. x = clust2sect(g[q+1]) + k
    BY <1>2 DEF CurrentSector, SectorOfCluster, At
  <2> QED BY <1>2, <2>1, SectorFacts
<1>4. u = On(s.v, p)
  <2>1. u = [s EXCEPT !.p.dsect = x,
              !.p.buf = IF s.p.dsect # x /\ s.p.fptr < s.p.fsize THEN s.v.disk.data[x] ELSE @]
    BY Zenon DEF Refilled
  <2>2. u = [s EXCEPT !.p.dsect = x, !.p.buf = b]
    BY <2>1
  <2> HIDE DEF b, u
  <2> QED BY <1>1, <2>2 DEF On, FilRec
<1>5. p \in FilRec /\ p.sclust = s.p.sclust /\ p.buf = b /\ p.dsect = x /\ ~p.dirty
  BY <1>1, <1>3 DEF FilRec, DataAreas
<1>6. Buffered(s.p, p)
  BY <1>1 DEF FilRec, Buffered
<1>b. /\ s.p.dsect = x => b = s.p.buf
      /\ s.p.dsect # x /\ s.p.fptr < s.p.fsize => b = s.v.disk.data[x]
  OBVIOUS
<1>r. s.p.fptr \in Nat /\ s.p.fsize \in Nat
  BY <1>1 DEF FilRec
<1> HIDE DEF p, b
<1>7. Works(On(s.v, p), ch, K, f)
  BY <1>5, WorksOn
<1>8. On(s.v, p).v = s.v /\ On(s.v, p).p = p
  BY DEF On
<1> HIDE DEF u
<1>9. u.v = s.v /\ u.p = p
  BY <1>4, <1>8
<1>10. ASSUME NEW c \in Contents, Holding(s, g, c), Len(c) = Reach(s.p)
       PROVE  Holding(u, g, c)
  <2> SUFFICES ASSUME NEW y \in 0 .. Len(c)-1, NEW X, NEW r, c[y+1] # Blank, InSector(g, y, X, r)
               PROVE  Has(u, X, r, c[y+1])
    BY <1>5, <1>9 DEF Holding
  <2>1. Has(s, X, r, c[y+1])
    BY <1>10 DEF Holding
  <2>2. u.v.disk.data[X][r] = c[y+1]
    BY <1>9, <2>1 DEF Has
  <2>3. ASSUME X = x PROVE p.buf[r] = c[y+1]
    <3>1. CASE s.p.dsect = x
      BY <1>5, <1>b, <2>1, <2>3, <3>1 DEF Has
    <3>2. CASE s.p.dsect # x /\ s.p.fptr < s.p.fsize
      BY <1>5, <1>9, <1>b, <2>2, <2>3, <3>2
    <3>3. CASE s.p.dsect # x /\ ~(s.p.fptr < s.p.fsize)
      <4>1. At(y, q, k, r)
        BY <1>1, <1>2, <1>3, <2>3, SameSector
      <4>2. s.p.fptr = bcs * q + SS * k + 0 /\ SS * k \in Nat /\ bcs * q \in Nat
        BY AtParts
      <4>3. y = bcs * q + SS * k + r /\ r \in Nat
        BY <4>1, AtParts
      <4> DEFINE i == bcs * q
                 j == SS * k
      <4>4. i \in Nat /\ j \in Nat /\ s.p.fptr = i + j /\ y = i + j + r
        BY <4>2, <4>3
      <4> HIDE DEF i, j
      <4>5. s.p.fptr <= y
        BY <4>3, <4>4
      <4>6. Len(c) = s.p.fptr
        BY <1>10, <1>r, <3>3 DEF Reach
      <4> QED BY <1>r, <4>5, <4>6
    <3> QED BY <3>1, <3>2, <3>3
  <2> QED BY <1>5, <1>9, <2>2, <2>3 DEF Has
<1>11. Works(u, ch, K, f)
  BY <1>4, <1>7
<1> QED BY <1>5, <1>6, <1>9, <1>10, <1>11 DEF u
-----------------------------------------------------------------------------
\* p2 is p but for the buffer and n bytes further.
Advanced(p, p2, n) ==
    /\ p2.wr = p.wr /\ p2.written = p.written /\ p2.slot = p.slot /\ p2.sclust = p.sclust
    /\ p2.fsize = p.fsize /\ p2.fptr = p.fptr + n /\ p2.clust = p.clust

\* The bytes c of the file are overwritten from its pointer on.
Overwritten(s, u, t, d) ==
    \A c \in Contents : Holding(s, t, c) /\ Len(c) = Reach(s.p)
                            => Holding(u, t, Overwrite(c, s.p.fptr, u.p.fptr, d))

LEMMA BytesAre == \A d \in Data : Bytes(d) \in Buffers /\ \A r \in 0 .. SS-1 : Bytes(d)[r] = d
BY DEF Bytes, Buffers

LEMMA AtByte ==
    ASSUME NEW x, NEW q, NEW k, NEW r, At(x, q, k, r), NEW e \in Nat, r + e < SS
    PROVE  At(x + e, q, k, r + e)
<1>1. q \in Nat /\ k \in 0 .. CSize-1 /\ r \in 0 .. SS-1 /\ x = bcs * q + SS * k + r
  BY DEF At
<1>2. SS * k \in Nat /\ bcs * q \in Nat /\ SS \in Nat /\ r \in Nat
  BY AtParts, Sizes1
<1>3. r + e \in 0 .. SS-1
  BY <1>1, <1>2
<1>4. At(bcs * q + SS * k + (r + e), q, k, r + e)
  BY <1>1, <1>3, AtOf
<1> DEFINE a == bcs * q
           b == SS * k
<1>5. a + b + (r + e) = x + e
  <2>1. a \in Nat /\ b \in Nat /\ x = a + b + r
    BY <1>1, <1>2
  <2> HIDE DEF a, b
  <2> QED BY <1>2, <2>1
<1> QED BY <1>4, <1>5

LEMMA EndOfSector ==
    ASSUME NEW x \in Nat, NEW n \in Nat, (x % SS) + n = SS
    PROVE  (x + n) % SS = 0
<1>1. SS \in Nat \ {0}
  BY Sizes1
<1> DEFINE a == x \div SS
           r == x % SS
<1>2. a \in Nat /\ r \in Nat /\ x = SS * a + r
  BY <1>1, WrapIs
<1> HIDE DEF a
<1>3. SS * (a + 1) = SS * a + SS /\ a+1 \in Nat /\ SS * a \in Nat
  BY <1>1, <1>2, Mul
<1> HIDE DEF r
<1>4. x + n = SS * (a+1) + 0
  <2> DEFINE y == SS * a
             z == SS * (a+1)
  <2>1. y \in Nat /\ z = y + SS /\ x = y + r
    BY <1>2, <1>3
  <2> HIDE DEF y, z
  <2>2. x + n = z + 0
    BY <1>1, <1>2, <2>1 DEF r
  <2> QED BY <2>2 DEF z
<1> DEFINE y == a + 1
<1>5. y \in Nat /\ 0 \in 0 .. SS-1 /\ x + n = SS * y + 0
  BY <1>1, <1>3, <1>4
<1> HIDE DEF y
<1>6. (SS * y + 0) % SS = 0
  BY <1>1, <1>5, WrapUnique
<1> QED BY <1>5, <1>6

\* A part of a sector goes to the buffer, which is for that sector.
LEMMA WritePartWorks ==
    ASSUME NEW s, NEW ch, NEW K, NEW f \in Names, Works(s, ch, K, f),
           Lies(s.p.fptr, s.p.clust, ch[f]), NEW q, NEW k, NEW at, At(s.p.fptr, q, k, at),
           s.p.dsect = CurrentSector(s.p), NEW n \in Nat, n > 0, at + n <= SS, NEW d \in Data
    PROVE  LET u == WritePart(s, n, d)
           IN  /\ Works(u, ch, K, f) /\ u.v = s.v /\ Advanced(s.p, u.p, n) /\ Placed(u.p, ch[f])
               /\ s.p.fptr <= Reach(s.p) => Overwritten(s, u, ch[f], d)
<1> DEFINE u == WritePart(s, n, d)
           g == ch[f]
           x == s.p.fptr
           b == [e \in 0 .. SS-1 |-> IF e \in at .. at+n-1 THEN d ELSE s.p.buf[e]]
           p == [s.p EXCEPT !.fptr = x + n, !.dirty = TRUE, !.buf = b]
           X0 == CurrentSector(s.p)
<1>1. /\ s = [v |-> s.v, p |-> s.p] /\ s.p \in FilRec /\ s.v.disk.data \in DataAreas /\ Path(s.v.fat, g)
      /\ Len(g) \in Nat
  BY WorksFacts
<1>2. k \in 0 .. CSize-1 /\ q \in Nat /\ q+1 \in 1 .. Len(g) /\ s.p.clust = g[q+1]
  BY LiesAt DEF At
<1>3. /\ X0 = clust2sect(g[q+1]) + k /\ X0 \in DataSector /\ X0 \notin K.sects
      /\ X0 \in Sects(Members(g))
  <2>1. X0 = clust2sect(g[q+1]) + k
    BY <1>2 DEF CurrentSector, SectorOfCluster, At
  <2> QED BY <1>2, <2>1, SectorFacts
<1>4. /\ x \in Nat /\ at \in Nat /\ SS * k \in Nat /\ bcs * q \in Nat /\ SS * k + SS <= bcs
      /\ x = bcs * q + SS * k + at /\ x % SS = at
  BY AtParts DEF At
<1>5. SS \in Nat /\ SS > 0 /\ bcs \in Nat
  BY Sizes1
<1>x. x \in Nat /\ x+n \in Nat
  BY <1>4
<1>6. u = On(s.v, p)
  <2>1. u = [s EXCEPT !.p.fptr = @ + n, !.p.dirty = TRUE,
                  !.p.buf = [e \in 0 .. SS-1 |-> IF e \in at .. at+n-1 THEN d ELSE @[e]]]
    BY <1>4 DEF WritePart
  <2> QED BY <1>1, <2>1 DEF On, FilRec
<1>7. b \in Buffers
  BY <1>1 DEF Buffers, FilRec
<1>b. \A e \in 0 .. SS-1 : b[e] = IF at <= e /\ e < at+n THEN d ELSE s.p.buf[e]
  BY <1>4, <1>5
<1> HIDE DEF b
<1>8. p \in FilRec /\ p.sclust = s.p.sclust /\ p.buf = b /\ p.dsect = s.p.dsect /\ p.dirty /\ p.fptr = x+n
      /\ p.clust = s.p.clust
  BY <1>1, <1>x, <1>7 DEF FilRec
<1>9. Advanced(s.p, p, n)
  BY <1>1 DEF FilRec, Advanced
<1> HIDE DEF p
<1>10. Works(On(s.v, p), ch, K, f)
  BY <1>3, <1>8, WorksOn
<1>11. u.v = s.v /\ u.p = p
  BY <1>6 DEF On
<1>12. Placed(p, g)
  <2>1. x+n > 0 /\ Lies(x+n-1, p.clust, g)
    <3> DEFINE i == bcs * q
               j == SS * k
    <3>1. i \in Nat /\ j \in Nat /\ x = i + j + at /\ j + SS <= bcs
      BY <1>4
    <3> HIDE DEF i, j
    <3>2. x+n-1 \in Nat /\ i <= x+n-1 /\ x+n-1 < i + bcs
      BY <1>4, <1>5, <3>1
    <3>3. Lies(x+n-1, g[q+1], g)
      BY <1>2, <3>2, LiesOn DEF i
    <3> QED BY <1>2, <1>4, <1>8, <3>3
  <2>2. ASSUME (x+n) % SS # 0 PROVE p.dsect = CurrentSector(p)
    <3>1. CASE at + n < SS
      <4>1. At(x+n, q, k, at+n)
        BY <3>1, AtByte
      <4>2. ((x+n) \div SS) % CSize = k
        BY <4>1 DEF At
      <4> QED BY <1>2, <1>3, <1>8, <4>2 DEF CurrentSector, SectorOfCluster
    <3>2. CASE at + n = SS
      <4>1. (x+n) % SS = 0
        BY <1>x, <1>4, <3>2, EndOfSector
      <4> QED BY <2>2, <4>1
    <3> QED BY <1>4, <1>5, <3>1, <3>2
  <2>3. p.fptr = x+n
    BY <1>8
  <2>4. Lies(p.fptr-1, p.clust, g)
    <3>1. p.fptr-1 = x+n-1
      BY <1>x, <1>4, <2>3
    <3> QED BY <2>1, <3>1, Zenon
  <2>5. p.fptr % SS # 0 => p.dsect = CurrentSector(p)
    BY <2>2, <2>3
  <2> HIDE DEF g
  <2> QED BY <2>4, <2>5 DEF Placed
<1> HIDE DEF u
<1>13. ASSUME x <= Reach(s.p) PROVE Overwritten(s, u, g, d)
  <2> SUFFICES ASSUME NEW c \in Contents, Holding(s, g, c), Len(c) = Reach(s.p)
               PROVE  Holding(u, g, Overwrite(c, x, x+n, d))
    BY <1>8, <1>11 DEF Overwritten
  <2> DEFINE o == Overwrite(c, x, x+n, d)
  <2>0. Over(c, x, x+n, d, o)
    <3>1. Len(c) \in Nat
      BY ListFacts DEF Contents
    <3>2. x <= Len(c) /\ x+n \in Nat /\ x <= x+n
      BY <1>4, <1>13
    <3> QED BY <1>4, <3>1, <3>2, OverwriteIs
  <2> HIDE DEF o
  <2>1. /\ Len(o) = (IF Len(c) <= x+n THEN x+n ELSE Len(c)) /\ Len(c) \in Nat /\ Len(o) \in Nat
        /\ x <= Len(c)
        /\ \A y \in 0 .. Len(o)-1 : o[y+1] = IF x <= y /\ y < x+n THEN d ELSE c[y+1]
    BY <2>0 DEF Over
  <2> SUFFICES ASSUME NEW y \in 0 .. Len(o)-1, NEW X, NEW r, o[y+1] # Blank, InSector(g, y, X, r)
               PROVE  Has(u, X, r, o[y+1])
    BY <1>3, <1>8, <1>11 DEF Holding, o
  <2>y. y \in Nat /\ y < Len(o)
    BY <2>1
  <2>z. x \in Nat /\ at \in Nat /\ n \in Nat
    BY <1>4
  <2>2. PICK i, j : At(y, i, j, r) /\ i+1 \in 1 .. Len(g) /\ X = clust2sect(g[i+1]) + j
    BY DEF InSector
  <2>3. r \in 0 .. SS-1 /\ r \in Nat
    BY <1>5, <2>2 DEF At
  <2>4. CASE x <= y /\ y < x+n
    <3>1. PICK e \in Nat : y = x + e /\ e < n
      <4>1. y-x \in Nat /\ y = x + (y-x) /\ y-x < n
        <5> HIDE DEF x
        <5> QED BY <2>z, <2>4, <2>y
      <4> QED BY <4>1
    <3>2. At(x + e, q, k, at + e)
      <4>1. at + e < SS
        BY <1>4, <1>5, <3>1
      <4> QED BY <4>1, AtByte
    <3>3. i = q /\ j = k /\ r = at + e
      BY <2>2, <3>1, <3>2, AtOnce
    <3>4. X = X0
      BY <1>3, <2>2, <3>3
    <3>5. at <= r /\ r < at+n
      BY <2>z, <3>1, <3>3
    <3>6. b[r] = d
      BY <1>b, <2>3, <3>5
    <3>7. o[y+1] = d
      BY <2>1, <2>4
    <3> QED BY <1>8, <1>11, <3>4, <3>6, <3>7 DEF Has
  <2>5. CASE ~(x <= y /\ y < x+n)
    <3>1. o[y+1] = c[y+1] /\ y \in 0 .. Len(c)-1
      <4>1. o[y+1] = c[y+1]
        BY <2>1, <2>5
      <4>2. y < Len(c)
        BY <2>z, <2>1, <2>5, <2>y
      <4> QED BY <2>1, <2>y, <4>1, <4>2
    <3>2. Has(s, X, r, c[y+1])
      BY <3>1 DEF Holding
    <3>3. CASE X # X0
      BY <1>8, <1>11, <3>1, <3>2, <3>3 DEF Has
    <3>4. CASE X = X0
      <4>1. At(y, q, k, r)
        BY <1>1, <1>2, <1>3, <3>4, SameSector
      <4>2. y = bcs * q + SS * k + r
        BY <4>1, AtParts
      <4>3. ~(at <= r /\ r < at + n)
        <5> DEFINE a == bcs * q
                   z == SS * k
        <5>1. a \in Nat /\ z \in Nat /\ x = a + z + at /\ y = a + z + r
          BY <1>4, <4>2
        <5> HIDE DEF a, z
        <5> QED BY <1>4, <2>3, <2>5, <5>1
      <4>4. b[r] = s.p.buf[r]
        BY <1>b, <2>3, <4>3
      <4> QED BY <1>8, <1>11, <3>1, <3>2, <3>4, <4>4 DEF Has
    <3> QED BY <3>3, <3>4
  <2> QED BY <2>4, <2>5
<1>14. Works(u, ch, K, f)
  BY <1>6, <1>10
<1> QED BY <1>9, <1>11, <1>12, <1>13, <1>14 DEF u, g
-----------------------------------------------------------------------------
LEMMA SectorBoundary ==
    ASSUME NEW x \in Nat, x % SS = 0, NEW cc \in Nat
    PROVE  (x + cc*SS) % SS = 0 /\ x + cc*SS \in Nat /\ cc*SS \in Nat
<1>1. SS \in Nat \ {0} /\ SS \in Nat
  BY Sizes1
<1> DEFINE a == x \div SS
<1>2. a \in Nat /\ x = SS * a + (x % SS)
  BY <1>1, WrapIs
<1> HIDE DEF a
<1>3. SS * (a + cc) = SS * a + SS * cc /\ SS * a \in Nat /\ SS * cc \in Nat
  BY <1>1, <1>2, Mul
<1>4. cc * SS = SS * cc
  BY <1>1
<1> DEFINE y == a + cc
           l == SS * cc
           m == SS * a
<1>5. y \in Nat /\ 0 \in 0 .. SS-1 /\ l \in Nat /\ m \in Nat /\ cc*SS = l /\ SS * y = m + l
  BY <1>1, <1>2, <1>3, <1>4
<1>6. x = m
  BY <1>1, <1>2, <1>5
<1> HIDE DEF y, l, m
<1>7. (SS * y + 0) % SS = 0
  BY <1>1, <1>5, WrapUnique
<1>8. x + cc*SS = SS * y + 0
  <2>1. x + cc*SS = m + l
    BY <1>5, <1>6
  <2> QED BY <1>5, <2>1
<1> QED BY <1>5, <1>6, <1>7, <1>8

LEMMA OthersSectors ==
    ASSUME NEW fat, NEW ch, Layout(fat, ch), NEW f \in Names, NEW K, Aside(K, ch, f), NEW y \in K.sects
    PROVE  y \in DataSector
<1>1. PICK c \in Others(ch, f), k \in 0 .. CSize-1 : y = clust2sect(c) + k
  BY DEF Aside, Sects
<1>2. c \in Cluster
  BY OthersAre
<1> QED BY <1>1, <1>2, SectorIn

\* Whole sectors go to disk.
LEMMA WriteSectorsWorks ==
    ASSUME NEW s, NEW ch, NEW K, NEW f \in Names, Works(s, ch, K, f), ~s.p.dirty,
           Lies(s.p.fptr, s.p.clust, ch[f]), NEW q, NEW k, At(s.p.fptr, q, k, 0),
           NEW cc \in Nat, cc > 0, k + cc <= CSize, NEW d \in Data
    PROVE  LET u == WriteSectors(s, cc, d)
           IN  /\ Works(u, ch, K, f) /\ Still(s.v, u.v) /\ u.v.fat = s.v.fat
               /\ Advanced(s.p, u.p, cc*SS) /\ Placed(u.p, ch[f])
               /\ s.p.fptr <= Reach(s.p) => Overwritten(s, u, ch[f], d)
<1> DEFINE u == WriteSectors(s, cc, d)
           g == ch[f]
           x == s.p.fptr
           n == cc*SS
           X0 == CurrentSector(s.p)
           xs == X0 .. X0+cc-1
           D == [y \in DataSector |-> IF y \in xs THEN Bytes(d) ELSE s.v.disk.data[y]]
           w == DiskWrite(s.v, [s.v.disk EXCEPT !.data = D])
           b == IF s.p.dsect \in xs THEN Bytes(d) ELSE s.p.buf
           p == [s.p EXCEPT !.fptr = x + n, !.buf = b]
<1>1. /\ s = [v |-> s.v, p |-> s.p] /\ s.p \in FilRec /\ s.v.disk.data \in DataAreas /\ Path(s.v.fat, g)
      /\ Len(g) \in Nat /\ Layout(s.v.fat, ch) /\ Aside(K, ch, f) /\ g \in Seq(Cluster) /\ s.v \in Vols
  BY WorksFacts
<1>2. k \in 0 .. CSize-1 /\ q \in Nat /\ q+1 \in 1 .. Len(g) /\ s.p.clust = g[q+1]
  BY LiesAt DEF At
<1>5. SS \in Nat /\ SS > 0 /\ bcs \in Nat /\ CSize \in Nat
  BY Sizes1
<1>3. X0 = clust2sect(g[q+1]) + k
  BY <1>2 DEF CurrentSector, SectorOfCluster, At
<1>c. g[q+1] \in Cluster /\ clust2sect(g[q+1]) \in Nat
  <2>1. g[q+1] \in Cluster
    BY <1>1, <1>2, ListFacts
  <2>2. 0 \in 0 .. CSize-1
    BY <1>5, Sizes1
  <2> QED BY <2>1, <2>2, SectorIn
<1>n. x \in Nat /\ n \in Nat /\ x + n \in Nat /\ (x + n) % SS = 0 /\ x <= x + n /\ x % SS = 0
  <2>1. x \in Nat /\ x % SS = 0
    BY AtParts DEF At
  <2>2. n \in Nat /\ x + n \in Nat /\ (x + n) % SS = 0
    BY <2>1, SectorBoundary
  <2> HIDE DEF x, n
  <2> QED BY <2>1, <2>2
<1>x. \A y \in xs : y \notin K.sects /\ y \in DataSector
                      /\ \E j \in 0 .. CSize-1 : k <= j /\ j < k + cc /\ y = clust2sect(g[q+1]) + j
  <2> TAKE y \in xs
  <2>1. PICK j \in 0 .. CSize-1 : k <= j /\ j < k + cc /\ y = clust2sect(g[q+1]) + j
    <3> DEFINE z == clust2sect(g[q+1])
    <3>1. z \in Nat /\ y \in z+k .. z+k+cc-1
      BY <1>3, <1>c
    <3> HIDE DEF z
    <3>2. y - z \in 0 .. CSize-1 /\ k <= y-z /\ y-z < k+cc /\ y = z + (y-z)
      BY <1>2, <1>5, <3>1
    <3> QED BY <3>2 DEF z
  <2>2. y \in DataSector /\ y \notin K.sects
    BY <1>2, <2>1, SectorFacts
  <2> QED BY <2>1, <2>2
<1> HIDE DEF xs
<1>b. Bytes(d) \in Buffers /\ \A r \in 0 .. SS-1 : Bytes(d)[r] = d
  BY BytesAre
<1>4. D \in DataAreas
  BY <1>1, <1>b DEF DataAreas
<1>6. \A y \in DataSector : D[y] = IF y \in xs THEN Bytes(d) ELSE s.v.disk.data[y]
  OBVIOUS
<1>7. \A y \in K.sects : D[y] = s.v.disk.data[y]
  <2> TAKE y \in K.sects
  <2>1. y \in DataSector
    BY <1>1, OthersSectors
  <2> QED BY <1>6, <1>x, <2>1
<1>8. u = On(w, p)
  <2>1. w = DiskWrite(s.v, [s.v.disk EXCEPT !.data = [y \in DataSector |-> IF y \in xs THEN Bytes(d) ELSE @[y]]])
    <3>1. [s.v.disk EXCEPT !.data = D] =
             [s.v.disk EXCEPT !.data = [y \in DataSector |-> IF y \in xs THEN Bytes(d) ELSE @[y]]]
      OBVIOUS
    <3> QED BY <3>1
  <2> HIDE DEF w, D
  <2> QED BY <2>1 DEF WriteSectors, xs
<1> HIDE DEF D
<1>9. Works(On(w, s.p), ch, K, f) /\ Still(s.v, w) /\ w.disk.data = D /\ w.fat = s.v.fat
  BY <1>4, <1>7, WorksData
<1> HIDE DEF w
<1>10. b \in Buffers
  BY <1>1, <1>b DEF FilRec
<1> HIDE DEF b
<1>11. /\ p \in FilRec /\ p.sclust = s.p.sclust /\ ~p.dirty /\ p.fptr = x+n /\ p.dsect = s.p.dsect
       /\ p.clust = s.p.clust /\ p.buf = b
  <2> HIDE DEF n
  <2> QED BY <1>1, <1>n, <1>10 DEF FilRec
<1>12. Advanced(s.p, p, n)
  <2> HIDE DEF n
  <2> QED BY <1>1 DEF FilRec, Advanced
<1> HIDE DEF p
<1>13. On(w, s.p).v = w /\ On(w, s.p).p = s.p /\ On(w, p).p = p /\ On(w, p).v = w
  BY DEF On
<1>14. Works(On(w, p), ch, K, f)
  <2> DEFINE t == On(w, s.p)
  <2>1. Works(t, ch, K, f) /\ t.v = w /\ t.p = s.p
    BY <1>9, <1>13
  <2> HIDE DEF t
  <2>2. p.sclust = t.p.sclust /\ (p.dirty => p.dsect \in DataSector \ K.sects)
    BY <1>11, <2>1
  <2>3. Works(On(t.v, p), ch, K, f)
    BY <1>11, <2>1, <2>2, WorksOn
  <2> QED BY <2>1, <2>3
<1>15. u.v = w /\ u.p = p
  BY <1>8, <1>13
<1>16. x + n <= bcs*q + bcs /\ bcs * q \in Nat /\ bcs*q <= x /\ x < bcs*q + bcs /\ n > 0
  <2>1. x + n <= bcs*q + bcs
    <3>1. At(x, q, k, 0)
      OBVIOUS
    <3> QED BY <1>2, <3>1, Stretch
  <2>2. n > 0
    BY <1>5
  <2> QED BY <2>1, <2>2, AtParts
<1>17. Placed(p, g)
  <2>1. Lies(x+n-1, g[q+1], g)
    <3>1. x+n-1 \in Nat /\ bcs * q <= x+n-1 /\ x+n-1 < bcs * q + bcs
      <4> DEFINE z == bcs * q
      <4>1. z \in Nat /\ x + n <= z + bcs /\ z <= x
        BY <1>16
      <4> HIDE DEF z, n
      <4>2. x+n-1 \in Nat /\ z <= x+n-1 /\ x+n-1 < z + bcs
        BY <1>n, <1>5, <1>16, <4>1
      <4> QED BY <4>2 DEF z
    <3> HIDE DEF n
    <3> QED BY <1>2, <3>1, LiesOn
  <2>2. p.fptr-1 = x+n-1 /\ p.clust = g[q+1]
    <3>1. p.fptr = x+n /\ x+n \in Nat
      BY <1>11, <1>n
    <3>2. p.clust = g[q+1]
      BY <1>2, <1>11
    <3> DEFINE y == x+n
    <3>4. p.fptr = y /\ y \in Nat
      BY <3>1
    <3> HIDE DEF y
    <3>3. p.fptr-1 = y-1
      BY <3>4
    <3>5. y-1 = x+n-1
      <4>1. x \in Nat /\ n \in Nat
        BY <1>n
      <4> HIDE DEF x, n
      <4> QED BY <4>1 DEF y
    <3> QED BY <3>2, <3>3, <3>5, Zenon
  <2>3. Lies(p.fptr-1, p.clust, g)
    BY <2>1, <2>2, Zenon
  <2>4. p.fptr % SS = 0
    BY <1>11, <1>n
  <2> QED BY <2>3, <2>4 DEF Placed
<1> HIDE DEF u
<1>18. ASSUME x <= Reach(s.p) PROVE Overwritten(s, u, g, d)
  <2> SUFFICES ASSUME NEW c \in Contents, Holding(s, g, c), Len(c) = Reach(s.p)
               PROVE  Holding(u, g, Overwrite(c, x, x+n, d))
    <3> HIDE DEF n
    <3> QED BY <1>11, <1>15 DEF Overwritten
  <2> DEFINE o == Overwrite(c, x, x+n, d)
  <2>0. Over(c, x, x+n, d, o)
    <3>1. Len(c) \in Nat
      BY ListFacts DEF Contents
    <3>2. x <= Len(c) /\ x+n \in Nat /\ x <= x+n
      BY <1>n, <1>18
    <3> HIDE DEF n
    <3> QED BY <1>n, <3>1, <3>2, OverwriteIs
  <2> HIDE DEF o
  <2>1. /\ Len(o) = (IF Len(c) <= x+n THEN x+n ELSE Len(c)) /\ Len(c) \in Nat /\ Len(o) \in Nat
        /\ x <= Len(c)
        /\ \A y \in 0 .. Len(o)-1 : o[y+1] = IF x <= y /\ y < x+n THEN d ELSE c[y+1]
    <3> HIDE DEF n
    <3> QED BY <2>0 DEF Over
  <2> SUFFICES ASSUME NEW y \in 0 .. Len(o)-1, NEW X, NEW r, o[y+1] # Blank, InSector(g, y, X, r)
               PROVE  Has(u, X, r, o[y+1])
    BY <1>11, <1>15 DEF Holding, o
  <2>y. y \in Nat /\ y < Len(o)
    BY <2>1
  <2>2. PICK i, j : At(y, i, j, r) /\ i+1 \in 1 .. Len(g) /\ X = clust2sect(g[i+1]) + j
    BY DEF InSector
  <2>3. r \in 0 .. SS-1 /\ j \in 0 .. CSize-1 /\ i \in Nat
    BY <2>2 DEF At
  <2>4. (x <= y /\ y < x + n) <=> (i = q /\ k <= j /\ j < k + cc)
    <3>1. At(x, q, k, 0)
      OBVIOUS
    <3> QED BY <2>2, <3>1, Stretch
  <2>5. X \in DataSector
    BY <2>2, <2>3, SectorFacts
  <2>6. X \in xs <=> (i = q /\ k <= j /\ j < k + cc)
    <3>1. ASSUME i = q, k <= j, j < k + cc PROVE X \in xs
      <4> DEFINE z == clust2sect(g[q+1])
      <4>1. z \in Nat /\ X = z + j
        BY <1>c, <2>2, <3>1
      <4> HIDE DEF z
      <4>2. X \in z+k .. z+k+cc-1
        BY <1>2, <2>3, <3>1, <4>1
      <4>3. X0 = z+k
        BY <1>3 DEF z
      <4> HIDE DEF X0
      <4> QED BY <4>2, <4>3 DEF xs
    <3>2. ASSUME X \in xs PROVE i = q /\ k <= j /\ j < k + cc
      <4>1. PICK l \in 0 .. CSize-1 : k <= l /\ l < k + cc /\ X = clust2sect(g[q+1]) + l
        BY <1>x, <3>2
      <4>2. At(y, q, l, r)
        BY <1>1, <1>2, <4>1, SameSector
      <4>3. q = i /\ l = j
        BY <2>2, <4>2, AtOnce
      <4> QED BY <4>1, <4>3
    <3> QED BY <3>1, <3>2
  <2>7. CASE X \in xs
    <3>1. o[y+1] = d
      BY <2>1, <2>4, <2>6, <2>7
    <3>2. D[X] = Bytes(d) /\ Bytes(d)[r] = d
      BY <1>b, <1>6, <2>3, <2>5, <2>7
    <3>3. s.p.dsect = X => b = Bytes(d)
      BY <2>7 DEF b
    <3> QED BY <1>9, <1>11, <1>15, <3>1, <3>2, <3>3 DEF Has
  <2>8. CASE X \notin xs
    <3>0. ~(x <= y /\ y < x + n)
      BY <2>4, <2>6, <2>8
    <3>1. o[y+1] = c[y+1] /\ y \in 0 .. Len(c)-1
      <4> HIDE DEF n
      <4> QED BY <1>n, <2>1, <2>y, <3>0
    <3>2. Has(s, X, r, c[y+1])
      BY <3>1 DEF Holding
    <3>3. D[X] = s.v.disk.data[X]
      BY <1>6, <2>5, <2>8
    <3>4. s.p.dsect = X => b = s.p.buf
      BY <2>8 DEF b
    <3> QED BY <1>9, <1>11, <1>15, <3>1, <3>2, <3>3, <3>4 DEF Has
  <2> QED BY <2>7, <2>8
<1>19. Works(u, ch, K, f)
  BY <1>8, <1>14
<1> QED BY <1>9, <1>12, <1>15, <1>17, <1>18, <1>19 DEF u, n, g
-----------------------------------------------------------------------------
\* What stays of an open file while it is written to; its pointer does not go back.
SameFile(p, p2) == /\ p2.wr = p.wr /\ p2.written = p.written /\ p2.slot = p.slot
                   /\ p2.fsize = p.fsize /\ p.fptr <= p2.fptr

\* The bytes from the pointer of s to that of u have become d.
Rewritten(s, g, u, t, d) ==
    \A c \in Contents : Holding(s, g, c) /\ Len(c) = Reach(s.p) /\ Len(c) <= bcs * Len(g)
                            => Holding(u, t, Overwrite(c, s.p.fptr, u.p.fptr, d))

\* s has become u by writing bytes d, and the chain of f is t now.
Written(s, ch, K, f, u, t, d) ==
    /\ Works(u, With(ch, f, t, Nil), K, f) /\ Placed(u.p, t) /\ Still(s.v, u.v)
    /\ t \in Seq(Cluster) /\ Extends(ch[f], t)
    /\ SameFile(s.p, u.p)
    /\ Rewritten(s, ch[f], u, t, d)

LEMMA FilFacts ==
    ASSUME NEW p \in FilRec
    PROVE  /\ p.fptr \in Nat /\ p.fsize \in Nat /\ p.slot \in 1 .. Slots /\ p.buf \in Buffers
           /\ Reach(p) \in Nat /\ p.fptr <= Reach(p) /\ p.fsize <= Reach(p)
           /\ p.sclust \in {0} \cup Cluster /\ p.clust \in {0} \cup Cluster /\ p.dsect \in {-1} \cup DataSector
BY DEF FilRec, Reach

\* The pointer is not behind the file's clusters.
LEMMA PlacedIn ==
    ASSUME NEW p \in FilRec, NEW t, Len(t) \in Nat, Placed(p, t)
    PROVE  p.fptr <= bcs * Len(t)
<1>1. p.fptr \in Nat /\ bcs \in Nat /\ bcs > 0
  BY FilFacts, Sizes1
<1>2. bcs * Len(t) \in Nat
  BY <1>1, Mul
<1>3. CASE p.fptr = 0
  BY <1>1, <1>2, <1>3
<1>4. CASE p.fptr > 0
  <2>1. PICK q \in Nat : q+1 \in 1 .. Len(t) /\ p.fptr-1 \in bcs*q .. bcs*q + (bcs-1)
    BY <1>4 DEF Placed, Lies
  <2>2. bcs * (q+1) <= bcs * Len(t) /\ bcs * (q+1) = bcs * q + bcs /\ bcs * q \in Nat /\ bcs * (q+1) \in Nat
    <3>1. q+1 \in Nat /\ q+1 <= Len(t)
      BY <2>1
    <3>2. bcs * (q+1) <= bcs * Len(t) /\ bcs * (q+1) \in Nat
      BY <1>1, <3>1, Mul
    <3>3. bcs * (q+1) = bcs * q + bcs /\ bcs * q \in Nat
      BY <1>1, Mul
    <3> QED BY <3>2, <3>3
  <2> DEFINE a == bcs * q
             b == bcs * (q+1)
             e == bcs * Len(t)
  <2>3. a \in Nat /\ b \in Nat /\ e \in Nat /\ b <= e /\ b = a + bcs /\ p.fptr-1 <= a + (bcs-1)
    BY <1>1, <1>2, <2>1, <2>2
  <2> HIDE DEF a, b, e
  <2>4. p.fptr <= e
    BY <1>1, <2>3
  <2> QED BY <2>4 DEF e
<1> QED BY <1>1, <1>3, <1>4

LEMMA ContentsFacts ==
    ASSUME NEW c \in Contents
    PROVE  Len(c) \in Nat /\ DOMAIN c = 1 .. Len(c) /\ \A x \in 1 .. Len(c) : c[x] \in Data \cup {Blank}
BY ListFacts DEF Contents

LEMMA SameBytes ==
    ASSUME NEW c \in Contents, NEW o \in Contents, Len(c) = Len(o),
           \A x \in 0 .. Len(c)-1 : c[x+1] = o[x+1]
    PROVE  c = o
<1>1. Len(c) \in Nat
  BY ContentsFacts
<1>2. \A i \in 1 .. Len(c) : c[i] = o[i]
  <2> TAKE i \in 1 .. Len(c)
  <2>1. i-1 \in 0 .. Len(c)-1 /\ (i-1)+1 = i
    BY <1>1
  <2> QED BY <2>1
<1>3. c = [i \in 1 .. Len(c) |-> c[i]] /\ o = [i \in 1 .. Len(c) |-> o[i]]
  BY SeqDef DEF Contents
<1> QED BY <1>2, <1>3

LEMMA OverwriteNothing ==
    ASSUME NEW c \in Contents, NEW a \in Nat, a <= Len(c), NEW d \in Data \cup {Blank}
    PROVE  Overwrite(c, a, a, d) = c
<1> DEFINE o == Overwrite(c, a, a, d)
<1>1. Over(c, a, a, d, o)
  BY OverwriteIs
<1> HIDE DEF o
<1>2. Len(c) \in Nat /\ o \in Contents /\ Len(o) = Len(c)
  BY <1>1, ContentsFacts DEF Over
<1>3. \A x \in 0 .. Len(c)-1 : c[x+1] = o[x+1]
  BY <1>1, <1>2 DEF Over
<1> QED BY <1>2, <1>3, SameBytes DEF o

LEMMA OverwriteTwice ==
    ASSUME NEW c \in Contents, NEW a \in Nat, NEW e \in Nat, NEW h \in Nat, a <= e, e <= h, a <= Len(c),
           NEW d \in Data \cup {Blank}
    PROVE  Overwrite(Overwrite(c, a, e, d), e, h, d) = Overwrite(c, a, h, d)
<1> DEFINE o == Overwrite(c, a, e, d)
           w == Overwrite(o, e, h, d)
           z == Overwrite(c, a, h, d)
<1>1. Over(c, a, e, d, o)
  BY OverwriteIs
<1>2. Over(c, a, h, d, z)
  BY OverwriteIs
<1>3. o \in Contents /\ e <= Len(o)
  <2> HIDE DEF o
  <2> QED BY <1>1 DEF Over
<1>4. Over(o, e, h, d, w)
  <2> HIDE DEF o
  <2> QED BY <1>3, OverwriteIs
<1> HIDE DEF o, w, z
<1>5. w \in Contents /\ z \in Contents /\ Len(w) = Len(z)
  BY <1>1, <1>2, <1>4 DEF Over
<1>6. \A x \in 0 .. Len(w)-1 : w[x+1] = z[x+1]
  <2> TAKE x \in 0 .. Len(w)-1
  <2>1. /\ Len(o) = (IF Len(c) <= e THEN e ELSE Len(c)) /\ Len(c) \in Nat /\ Len(o) \in Nat /\ Len(w) \in Nat
        /\ \A y \in 0 .. Len(o)-1 : o[y+1] = IF a <= y /\ y < e THEN d ELSE c[y+1]
        /\ Len(w) = (IF Len(o) <= h THEN h ELSE Len(o))
    BY <1>1, <1>4 DEF Over
  <2>2. w[x+1] = IF e <= x /\ x < h THEN d ELSE o[x+1]
    BY <1>4 DEF Over
  <2>3. z[x+1] = IF a <= x /\ x < h THEN d ELSE c[x+1]
    BY <1>2, <1>5 DEF Over
  <2>4. CASE e <= x /\ x < h
    BY <2>2, <2>3, <2>4
  <2>5. CASE ~(e <= x /\ x < h)
    <3>1. x \in 0 .. Len(o)-1
      BY <2>1, <2>5
    <3>2. w[x+1] = IF a <= x /\ x < e THEN d ELSE c[x+1]
      BY <2>1, <2>2, <2>5, <3>1
    <3> QED BY <2>1, <2>3, <2>5, <3>2
  <2> QED BY <2>4, <2>5
<1>7. w = z
  BY <1>5, <1>6, SameBytes
<1> QED BY <1>7 DEF o, w, z
-----------------------------------------------------------------------------
LEMMA WrittenSame ==
    ASSUME NEW s, NEW ch, NEW K, NEW f \in Names, Works(s, ch, K, f), Placed(s.p, ch[f]), NEW d \in Data
    PROVE  Written(s, ch, K, f, s, ch[f], d)
<1>1. /\ With(ch, f, ch[f], Nil) = ch /\ ch[f] \in Seq(Cluster) /\ s.p \in FilRec
  BY WorksFacts
<1>2. Extends(ch[f], ch[f])
  BY <1>1, ExtendsFacts
<1>3. Still(s.v, s.v) /\ SameFile(s.p, s.p)
  BY <1>1, FilFacts DEF Still, SameFile
<1>4. Rewritten(s, ch[f], s, ch[f], d)
  <2> SUFFICES ASSUME NEW c \in Contents, Holding(s, ch[f], c), Len(c) = Reach(s.p)
               PROVE  Holding(s, ch[f], Overwrite(c, s.p.fptr, s.p.fptr, d))
    BY DEF Rewritten
  <2>1. s.p.fptr \in Nat /\ s.p.fptr <= Len(c)
    BY <1>1, FilFacts
  <2>2. Overwrite(c, s.p.fptr, s.p.fptr, d) = c
    BY <2>1, OverwriteNothing
  <2> QED BY <2>2
<1> QED BY <1>1, <1>2, <1>3, <1>4 DEF Written

LEMMA WrittenTwice ==
    ASSUME NEW s, NEW ch, NEW K, NEW f \in Names, Works(s, ch, K, f), NEW d \in Data,
           NEW u, NEW t, Written(s, ch, K, f, u, t, d), NEW c1, c1 = With(ch, f, t, Nil),
           NEW w, NEW t2, Written(u, c1, K, f, w, t2, d)
    PROVE  Written(s, ch, K, f, w, t2, d)
<1>1. /\ ch \in [Holders -> Seq(Cluster)] /\ ch[f] \in Seq(Cluster) /\ s.p \in FilRec
  BY WorksFacts
<1>2. /\ Works(u, c1, K, f) /\ Placed(u.p, t) /\ Still(s.v, u.v) /\ t \in Seq(Cluster) /\ Extends(ch[f], t)
      /\ SameFile(s.p, u.p) /\ Rewritten(s, ch[f], u, t, d)
  BY DEF Written
<1>3. c1[f] = t
  <2>1. Nil \in Seq(Cluster) /\ t \in Seq(Cluster) /\ ch \in [Holders -> Seq(Cluster)]
    BY <1>1, <1>2, NilIs
  <2>2. With(ch, f, t, Nil)[f] = t
    BY <2>1, WithIs
  <2> QED BY <2>2
<1>4. /\ Works(w, With(c1, f, t2, Nil), K, f) /\ Placed(w.p, t2) /\ Still(u.v, w.v) /\ t2 \in Seq(Cluster)
      /\ Extends(t, t2) /\ SameFile(u.p, w.p) /\ Rewritten(u, t, w, t2, d)
  BY <1>3 DEF Written
<1>5. With(c1, f, t2, Nil) = With(ch, f, t2, Nil)
  <2>1. \A a, b : With(With(ch, f, a, b), f, t2, Nil) = With(ch, f, t2, Nil)
    BY <1>1, <1>4, NilIs, WithWith
  <2> QED BY <2>1
<1>6. Extends(ch[f], t2)
  BY <1>1, <1>2, <1>4, ExtendsFacts
<1>7. Still(s.v, w.v)
  BY <1>2, <1>4 DEF Still
<1>8. u.p \in FilRec /\ w.p \in FilRec
  <2>1. u.p \in FilRec
    BY <1>2, WorksFacts
  <2> HIDE DEF With
  <2>2. w.p \in FilRec
    BY <1>4 DEF Works
  <2> QED BY <2>1, <2>2
<1>p. /\ s.p.fptr \in Nat /\ u.p.fptr \in Nat /\ w.p.fptr \in Nat /\ s.p.fptr <= Reach(s.p)
      /\ s.p.fptr <= u.p.fptr /\ u.p.fptr <= w.p.fptr
      /\ s.p.fsize \in Nat /\ u.p.fsize = s.p.fsize
  BY <1>1, <1>2, <1>4, <1>8, FilFacts DEF SameFile
<1>9. SameFile(s.p, w.p)
  BY <1>2, <1>4, <1>p DEF SameFile
<1>10. Rewritten(s, ch[f], w, t2, d)
  <2> SUFFICES ASSUME NEW c \in Contents, Holding(s, ch[f], c), Len(c) = Reach(s.p), Len(c) <= bcs * Len(ch[f])
               PROVE  Holding(w, t2, Overwrite(c, s.p.fptr, w.p.fptr, d))
    BY DEF Rewritten
  <2> DEFINE o == Overwrite(c, s.p.fptr, u.p.fptr, d)
  <2>1. Holding(u, t, o)
    BY <1>2 DEF Rewritten
  <2>2. Over(c, s.p.fptr, u.p.fptr, d, o)
    BY <1>p, OverwriteIs
  <2> HIDE DEF o
  <2>3. o \in Contents /\ Len(o) = (IF Len(c) <= u.p.fptr THEN u.p.fptr ELSE Len(c)) /\ Len(c) \in Nat
    BY <2>2 DEF Over
  <2>4. Len(o) = Reach(u.p)
    BY <1>p, <2>3 DEF Reach
  <2>5. Len(o) <= bcs * Len(t)
    <3>1. Len(t) \in Nat /\ Len(ch[f]) \in Nat /\ Len(ch[f]) <= Len(t)
      BY <1>1, <1>2, ListFacts DEF Extends
    <3>2. u.p.fptr <= bcs * Len(t)
      BY <1>2, <1>8, <3>1, PlacedIn
    <3>3. bcs * Len(ch[f]) <= bcs * Len(t) /\ bcs * Len(ch[f]) \in Nat /\ bcs * Len(t) \in Nat
      BY <3>1, Sizes1, Mul
    <3> DEFINE a == bcs * Len(t)
               b == bcs * Len(ch[f])
    <3>4. a \in Nat /\ b \in Nat /\ b <= a /\ u.p.fptr <= a /\ Len(c) <= b
      BY <3>2, <3>3
    <3> HIDE DEF a, b
    <3>5. Len(o) <= a
      BY <1>p, <2>3, <3>4
    <3> QED BY <3>5 DEF a
  <2>6. Holding(w, t2, Overwrite(o, u.p.fptr, w.p.fptr, d))
    BY <1>4, <2>1, <2>3, <2>4, <2>5 DEF Rewritten
  <2>7. Overwrite(o, u.p.fptr, w.p.fptr, d) = Overwrite(c, s.p.fptr, w.p.fptr, d)
    <3>1. Overwrite(Overwrite(c, s.p.fptr, u.p.fptr, d), u.p.fptr, w.p.fptr, d) = Overwrite(c, s.p.fptr, w.p.fptr, d)
      BY <1>p, <2>3, OverwriteTwice
    <3> QED BY <3>1 DEF o
  <2> QED BY <2>6, <2>7
<1> QED BY <1>4, <1>5, <1>6, <1>7, <1>9, <1>10 DEF Written
-----------------------------------------------------------------------------
LEMMA WrittenHere ==
    ASSUME NEW s, NEW ch, NEW K, NEW f \in Names, Works(s, ch, K, f), NEW d,
           NEW u, Works(u, ch, K, f), Placed(u.p, ch[f]), Still(s.v, u.v), NEW n \in Nat, Advanced(s.p, u.p, n),
           Overwritten(s, u, ch[f], d)
    PROVE  Written(s, ch, K, f, u, ch[f], d)
<1>1. With(ch, f, ch[f], Nil) = ch /\ ch[f] \in Seq(Cluster) /\ s.p \in FilRec
  BY WorksFacts
<1>2. Extends(ch[f], ch[f])
  BY <1>1, ExtendsFacts
<1>3. SameFile(s.p, u.p)
  BY <1>1, FilFacts DEF SameFile, Advanced
<1>4. Rewritten(s, ch[f], u, ch[f], d)
  BY DEF Rewritten, Overwritten
<1> QED BY <1>1, <1>2, <1>3, <1>4 DEF Written

\* u is s with the pointer's cluster found, where the chain of f is t.
Entering(s, ch, K, f, u, t) ==
    /\ Works(u, With(ch, f, t, Nil), K, f) /\ Still(s.v, u.v) /\ ~u.p.dirty
    /\ t \in Seq(Cluster) /\ Extends(ch[f], t) /\ Lies(u.p.fptr, u.p.clust, t)
    /\ u.p.wr = s.p.wr /\ u.p.written = s.p.written /\ u.p.slot = s.p.slot
    /\ u.p.fsize = s.p.fsize /\ u.p.fptr = s.p.fptr
    /\ \A c \in Contents : Holding(s, ch[f], c) /\ Len(c) <= bcs * Len(ch[f]) => Holding(u, t, c)

LEMMA LongEnough ==
    ASSUME NEW s \in Seq(Cluster), NEW t \in Seq(Cluster), Extends(s, t), NEW n \in Nat, n <= bcs * Len(s)
    PROVE  n <= bcs * Len(t)
<1>1. Len(s) \in Nat /\ Len(t) \in Nat /\ Len(s) <= Len(t)
  BY ListFacts DEF Extends
<1>2. bcs * Len(s) <= bcs * Len(t) /\ bcs * Len(s) \in Nat /\ bcs * Len(t) \in Nat
  BY <1>1, Sizes1, Mul
<1> DEFINE a == bcs * Len(t)
           b == bcs * Len(s)
<1>3. a \in Nat /\ b \in Nat /\ b <= a /\ n <= b
  BY <1>2
<1> HIDE DEF a, b
<1>4. n <= a
  BY <1>3
<1> QED BY <1>4 DEF a

LEMMA EnteringThen ==
    ASSUME NEW s, NEW ch, NEW K, NEW f \in Names, Works(s, ch, K, f), NEW d \in Data,
           NEW u, NEW t, Entering(s, ch, K, f, u, t), NEW c1, c1 = With(ch, f, t, Nil),
           NEW w, NEW t2, Written(u, c1, K, f, w, t2, d)
    PROVE  Written(s, ch, K, f, w, t2, d)
<1>1. /\ ch \in [Holders -> Seq(Cluster)] /\ ch[f] \in Seq(Cluster) /\ s.p \in FilRec
  BY WorksFacts
<1>2. /\ Still(s.v, u.v) /\ t \in Seq(Cluster) /\ Extends(ch[f], t)
      /\ u.p.wr = s.p.wr /\ u.p.written = s.p.written /\ u.p.slot = s.p.slot
      /\ u.p.fsize = s.p.fsize /\ u.p.fptr = s.p.fptr
  BY DEF Entering
<1>3. c1[f] = t
  <2>1. Nil \in Seq(Cluster) /\ t \in Seq(Cluster) /\ ch \in [Holders -> Seq(Cluster)]
    BY <1>1, <1>2, NilIs
  <2>2. With(ch, f, t, Nil)[f] = t
    BY <2>1, WithIs
  <2> QED BY <2>2
<1>4. /\ Works(w, With(c1, f, t2, Nil), K, f) /\ Placed(w.p, t2) /\ Still(u.v, w.v) /\ t2 \in Seq(Cluster)
      /\ Extends(t, t2) /\ SameFile(u.p, w.p) /\ Rewritten(u, t, w, t2, d)
  BY <1>3 DEF Written
<1>5. With(c1, f, t2, Nil) = With(ch, f, t2, Nil)
  <2>1. \A a, b : With(With(ch, f, a, b), f, t2, Nil) = With(ch, f, t2, Nil)
    BY <1>1, <1>4, NilIs, WithWith
  <2> QED BY <2>1
<1>6. Extends(ch[f], t2)
  BY <1>1, <1>2, <1>4, ExtendsFacts
<1>7. Still(s.v, w.v)
  BY <1>2, <1>4 DEF Still
<1>9. SameFile(s.p, w.p)
  BY <1>2, <1>4 DEF SameFile
<1>10. Rewritten(s, ch[f], w, t2, d)
  <2> SUFFICES ASSUME NEW c \in Contents, Holding(s, ch[f], c), Len(c) = Reach(s.p), Len(c) <= bcs * Len(ch[f])
               PROVE  Holding(w, t2, Overwrite(c, s.p.fptr, w.p.fptr, d))
    BY DEF Rewritten
  <2>1. Holding(u, t, c)
    BY DEF Entering
  <2>2. Len(c) = Reach(u.p)
    BY <1>2 DEF Reach
  <2>3. Len(c) <= bcs * Len(t)
    <3>1. Len(c) \in Nat
      BY ContentsFacts
    <3> QED BY <1>1, <1>2, <3>1, LongEnough
  <2>4. Holding(w, t2, Overwrite(c, u.p.fptr, w.p.fptr, d))
    BY <1>4, <2>1, <2>2, <2>3 DEF Rewritten
  <2> QED BY <1>2, <2>4
<1> QED BY <1>4, <1>5, <1>6, <1>7, <1>9, <1>10 DEF Written

LEMMA EnteredWorks ==
    ASSUME NEW s, NEW ch, NEW K, NEW f \in Names, Works(s, ch, K, f), Placed(s.p, ch[f]),
           NEW a, NEW t, Reached(s, ch, K, f, a, t, s.p.fptr), a.clst # 0
    PROVE  Entering(s, ch, K, f, Entered(s, a), t)
<1> DEFINE first == IF s.p.fptr = 0 /\ s.p.sclust = 0 THEN a.clst ELSE s.p.sclust
           p == [s.p EXCEPT !.clust = a.clst, !.sclust = first]
           y == On(a.v, p)
           u == WriteBuffer(y)
           c1 == With(ch, f, t, Nil)
<1>1. /\ s.p \in FilRec /\ s.p.sclust = First(ch[f]) /\ ch[f] \in Seq(Cluster) /\ Len(ch[f]) \in Nat
  BY WorksFacts
<1>2. /\ t \in Seq(Cluster) /\ Extends(ch[f], t) /\ a.clst \in Cluster /\ Lies(s.p.fptr, a.clst, t)
      /\ Still(s.v, a.v) /\ a.v.disk.data = s.v.disk.data
  BY DEF Reached
<1>3. s.p.fptr \in Nat
  BY <1>1, FilFacts
<1>4. first = First(t)
  <2>1. CASE s.p.sclust # 0
    <3>1. First(t) = First(ch[f])
      BY <1>1, <1>2, <2>1, ExtendsFirst
    <3> QED BY <1>1, <2>1, <3>1
  <2>2. CASE s.p.sclust = 0
    <3>1. Len(ch[f]) = 0
      BY <1>1, <2>2, FirstIs
    <3>2. s.p.fptr = 0
      <4>1. ASSUME s.p.fptr > 0 PROVE FALSE
        BY <3>1, <4>1 DEF Placed, Lies
      <4> QED BY <1>3, <4>1
    <3>3. Lies(0, a.clst, t)
      BY <1>2, <3>2
    <3>4. First(t) = a.clst
      BY <1>2, <3>3, LiesFirst
    <3> QED BY <2>2, <3>2, <3>4
  <2> QED BY <2>1, <2>2
<1> HIDE DEF first
<1>5. first \in {0} \cup Cluster
  BY <1>2, <1>4, ListFacts DEF First
<1>6. /\ p \in FilRec /\ p.sclust = First(t) /\ p.clust = a.clst /\ p.dirty = s.p.dirty /\ p.dsect = s.p.dsect
      /\ p.buf = s.p.buf /\ p.fptr = s.p.fptr /\ p.fsize = s.p.fsize /\ p.slot = s.p.slot
      /\ p.wr = s.p.wr /\ p.written = s.p.written
  BY <1>1, <1>2, <1>4, <1>5 DEF FilRec
<1>e. Entered(s, a) = u
  BY DEF Entered, first
<1> HIDE DEF p
<1>7. y.v = a.v /\ y.p = p
  BY DEF On
<1>8. Works(y, c1, K, f)
  <2>1. p.dirty => p.dsect \in DataSector \ K.sects
    BY <1>6 DEF Works
  <2>2. Works(On(a.v, p), With(ch, f, t, Nil), K, f)
    BY <1>6, <2>1, ReachedWorks
  <2> QED BY <2>2
<1> HIDE DEF y, c1
<1>9. /\ Works(u, c1, K, f) /\ Still(y.v, u.v) /\ Buffered(y.p, u.p) /\ Flushed(y, u)
  BY <1>8, WriteBufferWorks
<1>10. ASSUME NEW c \in Contents, Holding(s, ch[f], c), Len(c) <= bcs * Len(ch[f])
       PROVE  Holding(u, t, c)
  <2>1. Holding(s, t, c)
    BY <1>1, <1>2, <1>10, HoldingExtends
  <2>2. Holding(y, t, c)
    BY <1>2, <1>6, <1>7, <2>1, HoldingSame
  <2> QED BY <1>8, <2>2, HoldingWriteBuffer
<1> HIDE DEF u
<1>11. /\ ~u.p.dirty /\ u.p.clust = a.clst /\ u.p.fptr = s.p.fptr /\ u.p.wr = s.p.wr
       /\ u.p.written = s.p.written /\ u.p.slot = s.p.slot /\ u.p.fsize = s.p.fsize
  BY <1>6, <1>7, <1>9 DEF Buffered, Flushed
<1>12. Still(s.v, u.v)
  BY <1>2, <1>7, <1>9 DEF Still
<1>13. Lies(u.p.fptr, u.p.clust, t)
  BY <1>2, <1>11
<1>14. Entering(s, ch, K, f, u, t)
  BY <1>2, <1>9, <1>10, <1>11, <1>12, <1>13 DEF Entering, c1
<1> QED BY <1>e, <1>14

\* In the pointer's cluster, a round of the loop of f_write.
LEMMA WrittenInto ==
    ASSUME NEW s, NEW ch, NEW K, NEW f \in Names, Works(s, ch, K, f), ~s.p.dirty,
           Lies(s.p.fptr, s.p.clust, ch[f]), s.p.fptr % SS = 0, NEW n \in Nat, n > 0, NEW d \in Data
    PROVE  /\ Written(s, ch, K, f, WriteInto(s, n, d).s, ch[f], d)
           /\ WriteInto(s, n, d).left \in Nat
           /\ WriteInto(s, n, d) = [s |-> WriteInto(s, n, d).s, left |-> WriteInto(s, n, d).left]
<1> DEFINE g == ch[f]
           m == n \div SS
           j == CSize - SectorOfCluster(s.p)
           cc == Min({m, j})
           part == Min({n, SS})
           z == IF cc > 0 THEN [s |-> WriteSectors(s, cc, d), left |-> n - cc*SS]
                ELSE [s |-> WritePart(Refilled(s, CurrentSector(s.p)), part, d), left |-> n - part]
<1>1. /\ s.p \in FilRec /\ s.p.fptr \in Nat
  BY WorksFacts, FilFacts
<1>2. PICK q, k, r : At(s.p.fptr, q, k, r)
  BY <1>1, AtExists
<1>3. At(s.p.fptr, q, k, 0) /\ SectorOfCluster(s.p) = k /\ k \in 0 .. CSize-1
  BY <1>2 DEF At, SectorOfCluster
<1>4. SS \in Nat \ {0} /\ SS \in Nat /\ CSize \in Nat
  BY Sizes1
<1>5. /\ m \in Nat /\ n % SS \in 0 .. SS-1 /\ n = SS * m + (n % SS)
  BY <1>4, WrapIs
<1>6. j \in Nat /\ j > 0 /\ k + j = CSize
  BY <1>3, <1>4
<1> HIDE DEF m, j
<1>7. cc = IF m <= j THEN m ELSE j
  BY <1>5, <1>6, MinTwo
<1>8. part = IF n <= SS THEN n ELSE SS
  BY <1>4, MinTwo
<1>9. WriteInto(s, n, d) = z
  BY DEF WriteInto, m, j
<1> HIDE DEF cc, part
<1>10. s.p.fptr <= Reach(s.p)
  BY <1>1, FilFacts
<1>11. CASE cc > 0
  <2>1. cc \in Nat /\ k + cc <= CSize /\ cc <= m
    BY <1>3, <1>4, <1>5, <1>6, <1>7
  <2> DEFINE u == WriteSectors(s, cc, d)
  <2>2. /\ Works(u, ch, K, f) /\ Still(s.v, u.v) /\ Advanced(s.p, u.p, cc*SS) /\ Placed(u.p, ch[f])
        /\ s.p.fptr <= Reach(s.p) => Overwritten(s, u, ch[f], d)
    BY <1>3, <1>11, <2>1, WriteSectorsWorks
  <2>3. cc*SS \in Nat /\ n - cc*SS \in Nat
    <3>1. SS * cc <= SS * m /\ SS * cc \in Nat /\ SS * m \in Nat
      BY <1>4, <1>5, <2>1, Mul
    <3>2. cc * SS = SS * cc
      BY <1>4, <2>1
    <3> DEFINE a == SS * m
               b == SS * cc
               e == n % SS
    <3>3. a \in Nat /\ b \in Nat /\ b <= a /\ e \in Nat /\ n = a + e /\ cc * SS = b
      BY <1>4, <1>5, <3>1, <3>2
    <3> HIDE DEF a, b, e
    <3>4. n - b \in Nat
      BY <3>3
    <3> QED BY <3>3, <3>4
  <2>4. z = [s |-> u, left |-> n - cc*SS]
    BY <1>11
  <2> HIDE DEF u, z
  <2>5. Written(s, ch, K, f, u, ch[f], d)
    BY <1>10, <2>2, <2>3, WrittenHere
  <2>6. z.s = u /\ z.left = n - cc*SS
    BY <2>4
  <2> QED BY <1>9, <2>3, <2>4, <2>5, <2>6
<1>12. CASE ~(cc > 0)
  <2>1. n < SS
    <3>1. m = 0
      BY <1>5, <1>6, <1>7, <1>12
    <3> DEFINE e == n % SS
    <3>2. e \in 0 .. SS-1 /\ n = SS * 0 + e
      BY <1>5, <3>1
    <3> HIDE DEF e
    <3> QED BY <1>4, <3>2
  <2>2. part = n
    BY <1>4, <1>8, <2>1
  <2> DEFINE x == CurrentSector(s.p)
             y == Refilled(s, x)
             u == WritePart(y, n, d)
  <2>3. /\ Works(y, ch, K, f) /\ y.v = s.v /\ Buffered(s.p, y.p) /\ y.p.dsect = x
        /\ \A c \in Contents : Holding(s, ch[f], c) /\ Len(c) = Reach(s.p) => Holding(y, ch[f], c)
    BY <1>3, RefilledWorks
  <2> HIDE DEF y
  <2>4. /\ y.p.fptr = s.p.fptr /\ y.p.clust = s.p.clust /\ y.p.fsize = s.p.fsize /\ Reach(y.p) = Reach(s.p)
        /\ CurrentSector(y.p) = x
    BY <2>3 DEF Buffered, Reach, CurrentSector, SectorOfCluster
  <2>5. /\ Works(u, ch, K, f) /\ u.v = y.v /\ Advanced(y.p, u.p, n) /\ Placed(u.p, ch[f])
        /\ y.p.fptr <= Reach(y.p) => Overwritten(y, u, ch[f], d)
    <3>1. Lies(y.p.fptr, y.p.clust, ch[f]) /\ At(y.p.fptr, q, k, 0) /\ y.p.dsect = CurrentSector(y.p)
          /\ 0 + n <= SS
      BY <1>3, <2>1, <2>3, <2>4, <1>4
    <3> HIDE DEF x
    <3> QED BY <2>3, <3>1, WritePartWorks
  <2>6. z = [s |-> u, left |-> n - n]
    BY <1>12, <2>2 DEF y
  <2> HIDE DEF u, z, x
  <2>7. Advanced(s.p, u.p, n) /\ Still(s.v, u.v)
    BY <2>3, <2>5 DEF Advanced, Buffered, Still
  <2>8. Overwritten(s, u, ch[f], d)
    <3> SUFFICES ASSUME NEW c \in Contents, Holding(s, ch[f], c), Len(c) = Reach(s.p)
                 PROVE  Holding(u, ch[f], Overwrite(c, s.p.fptr, u.p.fptr, d))
      BY DEF Overwritten
    <3>1. Holding(y, ch[f], c)
      BY <2>3
    <3> QED BY <1>10, <2>4, <2>5, <3>1 DEF Overwritten
  <2>9. Written(s, ch, K, f, u, ch[f], d)
    BY <2>5, <2>7, <2>8, WrittenHere
  <2>10. z.s = u /\ z.left = 0
    BY <2>6
  <2> QED BY <1>9, <2>6, <2>9, <2>10
<1> QED BY <1>11, <1>12
-----------------------------------------------------------------------------
\* A round that leaves left bytes to go.
Round(r) == r = [s |-> r.s, left |-> r.left] /\ r.left \in Nat

LEMMA WrittenFrom ==
    ASSUME NEW s, NEW ch, NEW K, NEW f \in Names, Works(s, ch, K, f), Placed(s.p, ch[f]),
           s.p.fptr % SS = 0, NEW n \in Nat, n > 0, NEW d \in Data
    PROVE  /\ Round(WriteFrom(s, WriteCluster(s), n, d))
           /\ \E t : Written(s, ch, K, f, WriteFrom(s, WriteCluster(s), n, d).s, t, d)
<1> DEFINE a == WriteCluster(s)
           z == WriteFrom(s, a, n, d)
<1>1. PICK t : Reached(s, ch, K, f, a, t, s.p.fptr)
  BY WriteClusterReached
<1> HIDE DEF a
<1>2. /\ s.p \in FilRec /\ s = On(s.v, s.p)
  BY WorksFacts DEF Works
<1>3. CASE a.clst = 0
  <2>1. z = [s |-> On(a.v, s.p), left |-> 0]
    BY <1>3 DEF WriteFrom
  <2> DEFINE u == On(a.v, s.p)
  <2>2. t = ch[f] /\ Quiet(s.v, a.v)
    BY <1>1, <1>3, NoCluster DEF Reached
  <2>3. Works(u, ch, K, f) /\ Still(s.v, a.v) /\ a.v.disk.data = s.v.disk.data
    BY <2>2, WorksQuiet
  <2>4. u.v = a.v /\ u.p = s.p
    BY DEF On
  <2> HIDE DEF u
  <2>5. PICK m \in Nat : Advanced(s.p, u.p, m)
    <3>1. s.p.fptr \in Nat
      BY <1>2, FilFacts
    <3>2. Advanced(s.p, u.p, 0)
      BY <2>4, <3>1 DEF Advanced
    <3> QED BY <3>2
  <2>6. Overwritten(s, u, ch[f], d)
    <3> SUFFICES ASSUME NEW c \in Contents, Holding(s, ch[f], c), Len(c) = Reach(s.p)
                 PROVE  Holding(u, ch[f], Overwrite(c, s.p.fptr, s.p.fptr, d))
      BY <2>4 DEF Overwritten
    <3>1. s.p.fptr \in Nat /\ s.p.fptr <= Len(c)
      BY <1>2, FilFacts
    <3>2. Overwrite(c, s.p.fptr, s.p.fptr, d) = c
      BY <3>1, OverwriteNothing
    <3>3. Holding(u, ch[f], c)
      BY <2>3, <2>4, HoldingSame
    <3> QED BY <3>2, <3>3
  <2>7. Written(s, ch, K, f, u, ch[f], d)
    <3>1. Placed(u.p, ch[f]) /\ Still(s.v, u.v)
      BY <2>3, <2>4
    <3> QED BY <2>3, <2>5, <2>6, <3>1, WrittenHere
  <2>8. z.s = u /\ z.left = 0 /\ z = [s |-> z.s, left |-> z.left]
    BY <2>1 DEF u
  <2> HIDE DEF z
  <2> QED BY <2>7, <2>8 DEF Round, z, a
<1>4. CASE a.clst # 0
  <2> DEFINE u == Entered(s, a)
             c1 == With(ch, f, t, Nil)
  <2>1. z = WriteInto(u, n, d)
    BY <1>4 DEF WriteFrom
  <2>2. Entering(s, ch, K, f, u, t)
    BY <1>1, <1>4, EnteredWorks
  <2> HIDE DEF u, z
  <2>3. Works(u, c1, K, f) /\ ~u.p.dirty /\ Lies(u.p.fptr, u.p.clust, t) /\ u.p.fptr % SS = 0 /\ t \in Seq(Cluster)
    BY <2>2 DEF Entering
  <2>4. c1[f] = t
    <3>1. Nil \in Seq(Cluster) /\ ch \in [Holders -> Seq(Cluster)]
      BY NilIs, WorksFacts
    <3> QED BY <2>3, <3>1, WithIs
  <2> HIDE DEF c1
  <2>5. /\ Written(u, c1, K, f, WriteInto(u, n, d).s, c1[f], d)
        /\ WriteInto(u, n, d).left \in Nat
        /\ WriteInto(u, n, d) = [s |-> WriteInto(u, n, d).s, left |-> WriteInto(u, n, d).left]
    BY <2>3, <2>4, WrittenInto
  <2>6. Round(z) /\ Written(u, c1, K, f, z.s, t, d)
    BY <2>1, <2>4, <2>5 DEF Round
  <2>7. Written(s, ch, K, f, z.s, t, d)
    BY <2>2, <2>6, EnteringThen, Zenon DEF c1
  <2> QED BY <2>6, <2>7 DEF z, a
<1> QED BY <1>3, <1>4

\* A round of f_write.
LEMMA WrittenOn ==
    ASSUME NEW r, Round(r), NEW ch, NEW K, NEW f \in Names, Works(r.s, ch, K, f), Placed(r.s.p, ch[f]),
           NEW d \in Data
    PROVE  /\ Round(WriteOn(r, d))
           /\ \E t : Written(r.s, ch, K, f, WriteOn(r, d).s, t, d)
<1> DEFINE s == r.s
           n == r.left
           x == s.p.fptr
           part == Min({n, SS - (x % SS)})
           z == WriteOn(r, d)
<1>1. /\ s.p \in FilRec /\ x \in Nat /\ n \in Nat /\ x <= Reach(s.p) /\ Len(ch[f]) \in Nat
  BY WorksFacts, FilFacts DEF Round
<1>2. z = CASE n = 0 -> r
            [] n > 0 /\ x % SS # 0 -> [s |-> WritePart(s, part, d), left |-> n - part]
            [] OTHER -> WriteFrom(s, WriteCluster(s), n, d)
  BY DEF WriteOn
<1>3. PICK q, k, e : At(x, q, k, e)
  BY <1>1, AtExists
<1>4. x % SS = e /\ e \in Nat /\ SS \in Nat /\ e < SS /\ SS - e \in Nat /\ SS - e > 0
  BY <1>3, Sizes1 DEF At
<1>5. part = IF n <= SS - e THEN n ELSE SS - e
  BY <1>1, <1>4, MinTwo
<1> HIDE DEF part, z, s, n
<1>6. CASE n = 0
  <2>1. z = r
    BY <1>2, <1>6
  <2>2. Written(s, ch, K, f, s, ch[f], d)
    BY WrittenSame DEF s
  <2> QED BY <2>1, <2>2 DEF z, s
<1>7. CASE n > 0 /\ x % SS # 0
  <2> DEFINE u == WritePart(s, part, d)
  <2>1. z = [s |-> u, left |-> n - part]
    BY <1>2, <1>7
  <2>2. part \in Nat /\ part > 0 /\ e + part <= SS /\ n - part \in Nat
    BY <1>1, <1>4, <1>5, <1>7
  <2>3. Lies(x, s.p.clust, ch[f]) /\ s.p.dsect = CurrentSector(s.p)
    <3>1. x > 0
      <4>1. ASSUME x = 0 PROVE FALSE
        <5>1. At(bcs * 0 + SS * 0 + 0, 0, 0, 0) /\ bcs * 0 + SS * 0 + 0 = 0
          BY AtOf, Sizes1
        <5>2. e = 0
          BY <1>3, <4>1, <5>1, AtOnce
        <5> QED BY <1>4, <1>7, <5>2
      <4> QED BY <1>1, <4>1
    <3>2. Lies(x-1, s.p.clust, ch[f]) /\ s.p.dsect = CurrentSector(s.p)
      BY <1>7, <3>1 DEF Placed, s
    <3>3. IF k = 0 /\ e = 0 THEN q \in 1 .. Len(ch[f]) /\ s.p.clust = ch[f][q]
          ELSE q+1 \in 1 .. Len(ch[f]) /\ s.p.clust = ch[f][q+1]
      <4> HIDE DEF x
      <4> QED BY <1>1, <1>3, <3>1, <3>2, LiesNext
    <3>4. q+1 \in 1 .. Len(ch[f]) /\ s.p.clust = ch[f][q+1]
      BY <1>4, <1>7, <3>3
    <3>5. bcs * q <= x /\ x < bcs * q + bcs
      BY <1>3, AtParts
    <3>6. Lies(x, ch[f][q+1], ch[f])
      <4> HIDE DEF x
      <4> QED BY <1>1, <1>3, <3>4, <3>5, LiesOn
    <3> QED BY <3>2, <3>4, <3>6
  <2>4. /\ Works(u, ch, K, f) /\ u.v = s.v /\ Advanced(s.p, u.p, part) /\ Placed(u.p, ch[f])
        /\ s.p.fptr <= Reach(s.p) => Overwritten(s, u, ch[f], d)
    BY <1>3, <2>2, <2>3, WritePartWorks DEF s
  <2> HIDE DEF u
  <2>5. Written(s, ch, K, f, u, ch[f], d)
    <3>1. Still(s.v, u.v) /\ Works(s, ch, K, f)
      BY <2>4 DEF Still, s
    <3> QED BY <1>1, <2>2, <2>4, <3>1, WrittenHere
  <2>6. z.s = u /\ Round(z)
    BY <2>1, <2>2 DEF Round
  <2> QED BY <2>5, <2>6 DEF z, s
<1>8. CASE n > 0 /\ x % SS = 0
  <2>1. z = WriteFrom(s, WriteCluster(s), n, d)
    BY <1>2, <1>8
  <2>2. Works(s, ch, K, f) /\ Placed(s.p, ch[f]) /\ s.p.fptr % SS = 0
    BY <1>8 DEF s
  <2>3. /\ Round(WriteFrom(s, WriteCluster(s), n, d))
        /\ \E t : Written(s, ch, K, f, WriteFrom(s, WriteCluster(s), n, d).s, t, d)
    BY <1>1, <1>8, <2>2, WrittenFrom
  <2> QED BY <2>1, <2>3 DEF z, s
<1> QED BY <1>1, <1>6, <1>7, <1>8
-----------------------------------------------------------------------------
\* The rounds of f_write one after the other.
WrittenAfter(n, x, d) == Loop(LAMBDA r, k : WriteOn(r, d), x, n)
WrittenSo(it, x, n, d) == /\ it[0] = x /\ \A j \in 1 .. n : it[j] = WriteOn(it[j-1], d)
                          /\ WrittenAfter(n, x, d) = it[n]

LEMMA WrittenRuns ==
    ASSUME NEW n \in Nat, NEW d, NEW V, NEW x \in V, \A r \in V : WriteOn(r, d) \in V
    PROVE  \E it : /\ \A j \in 0 .. n : it[j] \in V
                   /\ WrittenSo(it, x, n, d)
<1> DEFINE F(h) == [k \in 0 .. n |-> IF k = 0 THEN x ELSE WriteOn(h[k-1], d)]
           it == CHOOSE h : h = F(h)
           g == [k \in 1 .. n |-> [r \in V |-> WriteOn(r, d)]]
<1>1. PICK p \in [0 .. n -> V] : Goes(p, g, x, n)
  <2>1. g \in [1 .. n -> [V -> V]]
    OBVIOUS
  <2> HIDE DEF g, it, F
  <2> QED BY <2>1, RoundsExist, Zenon
<1> HIDE DEF it
<1>2. p[0] = x /\ \A k \in 1 .. n : p[k-1] \in V /\ p[k] = WriteOn(p[k-1], d)
  <2> HIDE DEF F
  <2>1. p[0] = x /\ \A k \in 1 .. n : p[k] = g[k][p[k-1]]
    BY <1>1 DEF Goes
  <2>2. \A k \in 1 .. n : p[k-1] \in V
    OBVIOUS
  <2> QED BY <2>1, <2>2
<1>3. p = F(p)
  BY <1>2
<1>4. it = F(it)
  <2> HIDE DEF F
  <2> QED BY <1>3, Zenon DEF it
<1>5. WrittenAfter(n, x, d) = it[n]
  BY Zenon DEF WrittenAfter, Loop, it
<1>6. it[0] = x /\ \A j \in 1 .. n : it[j] = WriteOn(it[j-1], d)
  BY <1>4
<1> DEFINE T == {j \in 0 .. n : it[j] \in V}
<1>7. T \in SUBSET (0 .. n) /\ 0 \in T /\ \A j \in 1 .. n : j-1 \in T => j \in T
  BY <1>6
<1> HIDE DEF T
<1>8. \A j \in 0 .. n : j \in T
  BY <1>7, Stepwise
<1>9. WrittenSo(it, x, n, d)
  BY <1>5, <1>6 DEF WrittenSo
<1> QED BY <1>8, <1>9 DEF T

\* The loop of f_write.
LEMMA WrittenBytes ==
    ASSUME NEW s, NEW ch, NEW K, NEW f \in Names, Works(s, ch, K, f), Placed(s.p, ch[f]),
           NEW n \in Nat, NEW d \in Data
    PROVE  \E t : Written(s, ch, K, f, WriteBytes(s, n, d), t, d)
<1> DEFINE V == {r \in [s : [v : Vols, p : FilRec], left : Nat] : \E t : Written(s, ch, K, f, r.s, t, d)}
           x == [s |-> s, left |-> n]
<1>1. ASSUME NEW r, Round(r), NEW t, Written(s, ch, K, f, r.s, t, d) PROVE r \in V
  <2>1. r.s = On(r.s.v, r.s.p) /\ r.s.p \in FilRec /\ r.s.v \in Vols
    BY <1>1 DEF Written, Works, Good
  <2>2. r.s \in [v : Vols, p : FilRec]
    BY <2>1 DEF On
  <2>3. r = [s |-> r.s, left |-> r.left] /\ r.left \in Nat
    BY <1>1 DEF Round
  <2>4. r \in [s : [v : Vols, p : FilRec], left : Nat]
    BY <2>2, <2>3
  <2> QED BY <1>1, <2>4
<1>2. x \in V
  <2>1. Round(x) /\ x.s = s
    BY DEF Round
  <2>2. Written(s, ch, K, f, s, ch[f], d)
    BY WrittenSame
  <2> HIDE DEF x, V
  <2> QED BY <1>1, <2>1, <2>2
<1>3. ASSUME NEW r \in V PROVE WriteOn(r, d) \in V
  <2>1. PICK t : Written(s, ch, K, f, r.s, t, d)
    BY <1>3
  <2>2. Round(r)
    BY <1>3 DEF Round
  <2> DEFINE c1 == With(ch, f, t, Nil)
  <2>3. Works(r.s, c1, K, f) /\ Placed(r.s.p, t) /\ t \in Seq(Cluster)
    BY <2>1 DEF Written
  <2>4. c1[f] = t
    <3>1. Nil \in Seq(Cluster) /\ ch \in [Holders -> Seq(Cluster)]
      BY NilIs, WorksFacts
    <3> HIDE DEF V
    <3> QED BY <2>3, <3>1, WithIs
  <2> HIDE DEF c1, V
  <2>5. Round(WriteOn(r, d)) /\ \E u : Written(r.s, c1, K, f, WriteOn(r, d).s, u, d)
    <3>1. Placed(r.s.p, c1[f])
      BY <2>3, <2>4
    <3> QED BY <2>2, <2>3, <3>1, WrittenOn
  <2>6. PICK u : Written(r.s, c1, K, f, WriteOn(r, d).s, u, d)
    BY <2>5
  <2>7. Written(s, ch, K, f, WriteOn(r, d).s, u, d)
    BY <2>1, <2>6, WrittenTwice, Zenon DEF c1
  <2> QED BY <1>1, <2>5, <2>7
<1>4. \A r \in V : \E t : Written(s, ch, K, f, r.s, t, d)
  OBVIOUS
<1> HIDE DEF V, x
<1>5. PICK it : (\A j \in 0 .. n : it[j] \in V) /\ WrittenSo(it, x, n, d)
  BY <1>2, <1>3, WrittenRuns
<1>6. it[n] \in V /\ WrittenAfter(n, x, d) = it[n]
  BY <1>5 DEF WrittenSo
<1>7. WriteBytes(s, n, d) = it[n].s
  BY <1>6, Zenon DEF WriteBytes, WrittenAfter, x
<1> QED BY <1>4, <1>6, <1>7
-----------------------------------------------------------------------------
LEMMA AtStart ==
    ASSUME NEW q \in Nat
    PROVE  At(bcs * q, q, 0, 0) /\ bcs * q \in Nat
<1>1. 0 \in 0 .. CSize-1 /\ 0 \in 0 .. SS-1 /\ SS \in Nat /\ bcs \in Nat /\ bcs * q \in Nat
  BY Sizes1, Mul
<1>2. At(bcs * q + SS * 0 + 0, q, 0, 0)
  BY <1>1, AtOf
<1>3. bcs * q + SS * 0 + 0 = bcs * q
  BY <1>1
<1> QED BY <1>1, <1>2, <1>3

\* The cluster f_lseek goes to next.
LEMMA NextReached ==
    ASSUME NEW s, NEW ch, NEW K, NEW f \in Names, Works(s, ch, K, f), NEW q \in Nat, q+1 \in 1 .. Len(ch[f]),
           s.p.clust = ch[f][q+1], s.p.wr \/ q+2 <= Len(ch[f])
    PROVE  \E t : Reached(s, ch, K, f, NextCluster(s), t, bcs * (q+1))
<1> DEFINE g == ch[f]
           x == bcs * (q+1)
<1>1. /\ g \in Seq(Cluster) /\ Len(g) \in Nat /\ Path(s.v.fat, g) /\ Good(s.v, ch, K)
  BY WorksFacts
<1>2. At(x, q+1, 0, 0) /\ x \in Nat /\ q+1 \in Nat
  BY AtStart
<1>3. CASE s.p.wr
  <2>1. NextCluster(s) = create_chain(s.v, s.p.clust)
    BY <1>3 DEF NextCluster
  <2> DEFINE m == q+1
  <2>2. m \in 0 .. Len(g) /\ m # 0 /\ At(x, m, 0, 0)
    BY <1>1, <1>2
  <2>3. Position(g, m) = s.p.clust
    BY <2>2 DEF Position
  <2> HIDE DEF m, x
  <2>4. \E t : Reached(s, ch, K, f, create_chain(s.v, Position(ch[f], m)), t, x)
    BY <2>2, ReachedCreate
  <2> QED BY <2>1, <2>3, <2>4 DEF x
<1>4. CASE ~s.p.wr
  <2> DEFINE v == seek_fat(s.v, s.p.clust)
  <2>1. NextCluster(s) = [v |-> v, clst |-> v.fat[s.p.clust]]
    BY <1>4 DEF NextCluster
  <2>2. s.p.clust \in Cluster /\ s.p.clust = g[q+1] /\ (q+1)+1 \in 1 .. Len(g)
    BY <1>1, <1>4, ListFacts
  <2>3. Quiet(s.v, v) /\ v.fat = s.v.fat
    BY <1>1, <2>2, SeekQuiet
  <2> HIDE DEF v
  <2>4. v.fat[s.p.clust] = g[(q+1)+1] /\ g[(q+1)+1] \in Cluster
    <3>1. q+1 \in 1 .. Len(g)-1
      BY <1>1, <2>2
    <3>2. s.v.fat[g[q+1]] = g[(q+1)+1]
      <4> DEFINE i == q+1
      <4>1. i \in 1 .. Len(g)-1
        BY <3>1
      <4> HIDE DEF i
      <4>2. s.v.fat[g[i]] = g[i+1]
        BY <1>1, <4>1, PathFacts
      <4> QED BY <4>2 DEF i
    <3>3. g[(q+1)+1] \in Cluster
      BY <1>1, <2>2, ListFacts
    <3> QED BY <2>2, <2>3, <3>2, <3>3
  <2>5. Lies(x, g[(q+1)+1], g)
    <3>1. bcs * (q+1) <= x /\ x < bcs * (q+1) + bcs
      BY <1>2, AtParts
    <3> HIDE DEF x
    <3> QED BY <1>2, <2>2, <3>1, LiesOn
  <2>6. Reached(s, ch, K, f, [v |-> v, clst |-> g[(q+1)+1]], ch[f], x)
    <3> HIDE DEF x
    <3> QED BY <2>3, <2>4, <2>5, ReachedHere
  <2> QED BY <2>1, <2>4, <2>6
<1> QED BY <1>3, <1>4

\* What stays of an open file while it is sought in.
SameButPlace(p, p2) == /\ p2.wr = p.wr /\ p2.written = p.written /\ p2.slot = p.slot
                       /\ p2.fsize = p.fsize /\ p2.dirty = p.dirty /\ p2.dsect = p.dsect /\ p2.buf = p.buf

\* The pointer is where the q-th cluster of t begins.
AtCluster(p, t, q) == p.fptr = bcs * q /\ q \in Nat /\ q+1 \in 1 .. Len(t) /\ p.clust = t[q+1]

\* s has become r.s on the way to r.ofs bytes further.
Following(s, ch, K, f, r, t) ==
    /\ r = [s |-> r.s, ofs |-> r.ofs] /\ r.ofs \in Nat /\ r.ofs > 0
    /\ Works(r.s, With(ch, f, t, Nil), K, f) /\ Still(s.v, r.s.v) /\ r.s.v.disk.data = s.v.disk.data
    /\ t \in Seq(Cluster) /\ Extends(ch[f], t)
    /\ SameButPlace(s.p, r.s.p)
    /\ \E q : AtCluster(r.s.p, t, q) /\ (t # ch[f] => q >= Len(ch[f]))
    /\ ~r.s.p.wr => r.s.p.fptr + r.ofs <= bcs * Len(t)
    /\ t = ch[f] => Quiet(s.v, r.s.v)

LEMMA FollowingOn ==
    ASSUME NEW s, NEW ch, NEW K, NEW f \in Names, ch \in [Holders -> Seq(Cluster)], NEW r, NEW t,
           Following(s, ch, K, f, r, t), r.ofs > bcs
    PROVE  /\ \E t2 : Following(s, ch, K, f, FollowOn(r), t2)
           /\ FollowOn(r).ofs = bcs \/ FollowOn(r).ofs <= r.ofs - 1
<1> DEFINE c1 == With(ch, f, t, Nil)
           a == NextCluster(r.s)
           z == FollowOn(r)
<1>1. /\ r.ofs \in Nat /\ Works(r.s, c1, K, f) /\ Still(s.v, r.s.v) /\ r.s.v.disk.data = s.v.disk.data
      /\ t \in Seq(Cluster) /\ Extends(ch[f], t) /\ SameButPlace(s.p, r.s.p)
      /\ ~r.s.p.wr => r.s.p.fptr + r.ofs <= bcs * Len(t)
      /\ t = ch[f] => Quiet(s.v, r.s.v)
  BY DEF Following
<1>2. PICK q : AtCluster(r.s.p, t, q) /\ (t # ch[f] => q >= Len(ch[f]))
  BY DEF Following
<1>3. r.s.p.fptr = bcs * q /\ q \in Nat /\ q+1 \in 1 .. Len(t) /\ r.s.p.clust = t[q+1] /\ Len(t) \in Nat
      /\ ch[f] \in Seq(Cluster) /\ Len(ch[f]) \in Nat
  BY <1>1, <1>2, NameFacts, ListFacts DEF AtCluster
<1>b. bcs \in Nat /\ bcs > 0 /\ bcs * q \in Nat /\ bcs * (q+1) = bcs * q + bcs /\ bcs * (q+1) \in Nat
  BY <1>3, Sizes1, Mul
<1>4. c1[f] = t
  <2>1. Nil \in Seq(Cluster)
    BY NilIs
  <2> HIDE DEF c1
  <2> QED BY <1>1, <2>1, WithIs DEF c1
<1>5. r.s.p.wr \/ q+2 <= Len(t)
  <2> SUFFICES ASSUME ~r.s.p.wr, ~(q+2 <= Len(t)) PROVE FALSE
    OBVIOUS
  <2>1. Len(t) = q+1
    BY <1>3
  <2>2. bcs * Len(t) = bcs * q + bcs
    BY <1>b, <2>1
  <2> DEFINE y == bcs * q
  <2>3. y \in Nat /\ y + r.ofs <= y + bcs
    BY <1>1, <1>3, <1>b, <2>2
  <2> HIDE DEF y
  <2> QED BY <1>1, <1>b, <2>3
<1>6. PICK t2 : Reached(r.s, c1, K, f, a, t2, bcs * (q+1))
  <2> HIDE DEF c1
  <2> QED BY <1>1, <1>3, <1>4, <1>5, NextReached
<1>7. z = FollowInto(r, a)
  BY <1>1, <1>b DEF FollowOn
<1>8. z = IF a.clst = 0 THEN [s |-> On(a.v, r.s.p), ofs |-> bcs]
          ELSE [s |-> On(a.v, [r.s.p EXCEPT !.clust = a.clst, !.fptr = @ + bcs]), ofs |-> r.ofs - bcs]
  BY <1>7 DEF FollowInto
<1> HIDE DEF a, z
<1>9. /\ t2 \in Seq(Cluster) /\ Extends(t, t2) /\ Still(r.s.v, a.v) /\ a.v.disk.data = r.s.v.disk.data
      /\ (t2 = t => Quiet(r.s.v, a.v))
      /\ \/ a.clst = 0 /\ t2 = t
         \/ a.clst \in Cluster /\ Lies(bcs * (q+1), a.clst, t2)
  <2> HIDE DEF c1
  <2> QED BY <1>4, <1>6 DEF Reached
<1>l. t2 # t => Len(t) = q+1
  <2> SUFFICES ASSUME t2 # t, Len(t) # q+1 PROVE FALSE
    OBVIOUS
  <2> HIDE DEF c1
  <2>1. bcs * Len(t) <= bcs * (q+1)
    BY <1>4, <1>6 DEF Reached
  <2> DEFINE m == q+2
             y == bcs * q
             w == bcs * Len(t)
             h == bcs * m
             i == bcs * (q+1)
  <2>2. m \in Nat /\ m <= Len(t) /\ m = q+1+1 /\ q+1 \in Nat
    BY <1>3
  <2>3. w \in Nat /\ w <= i /\ i = y + bcs /\ y \in Nat
    BY <1>3, <1>b, <2>1, Mul
  <2>4. h = i + bcs
    BY <1>b, <2>2, Mul
  <2>5. h <= w
    <3> HIDE DEF m
    <3> QED BY <1>3, <1>b, <2>2, Mul
  <2> HIDE DEF m, y, w, h, i
  <2> QED BY <1>b, <2>3, <2>4, <2>5
<1>10. Still(s.v, a.v) /\ a.v.disk.data = s.v.disk.data /\ Extends(ch[f], t2)
  BY <1>1, <1>3, <1>9, ExtendsFacts DEF Still
<1>11. With(c1, f, t2, Nil) = With(ch, f, t2, Nil)
  <2>1. \A e, b : With(With(ch, f, e, b), f, t2, Nil) = With(ch, f, t2, Nil)
    BY <1>9, NilIs, WithWith
  <2> QED BY <2>1
<1>r. r.s.p \in FilRec /\ r.s.p.sclust = First(t) /\ (r.s.p.dirty => r.s.p.dsect \in DataSector \ K.sects)
  <2> HIDE DEF c1
  <2> QED BY <1>1, <1>4 DEF Works
<1>s. First(t) # 0
  BY <1>1, <1>3, FirstIs
<1>t. First(t2) = First(t) /\ (t2 = t \/ Len(t) < Len(t2))
  BY <1>1, <1>9, <1>s, ExtendsFirst
<1> HIDE DEF c1
<1>12. CASE a.clst = 0
  <2> DEFINE u == On(a.v, r.s.p)
  <2>1. z = [s |-> u, ofs |-> bcs] /\ u.v = a.v /\ u.p = r.s.p
    BY <1>8, <1>12 DEF On
  <2>2. t2 = t
    BY <1>9, <1>12, NoCluster
  <2>3. Works(u, With(c1, f, t2, Nil), K, f)
    BY <1>1, <1>6, <1>r, <1>t, ReachedWorks
  <2> HIDE DEF u
  <2>4. z.s = u /\ z.ofs = bcs /\ z = [s |-> z.s, ofs |-> z.ofs]
    BY <2>1
  <2>5. t = ch[f] => Quiet(s.v, u.v)
    BY <1>1, <1>9, <2>1, <2>2, QuietTwice
  <2>6. r.s.p.fptr + bcs <= bcs * Len(t)
    <3>1. bcs * (q+1) <= bcs * Len(t)
      <4> DEFINE m == q+1
      <4>1. m \in Nat /\ m <= Len(t)
        BY <1>3
      <4> HIDE DEF m
      <4>2. bcs * m <= bcs * Len(t)
        BY <1>3, <1>b, <4>1, Mul
      <4> QED BY <4>2 DEF m
    <3> QED BY <1>3, <1>b, <3>1
  <2>7. Following(s, ch, K, f, z, t2)
    BY <1>1, <1>2, <1>b, <1>9, <1>10, <1>11, <2>1, <2>2, <2>3, <2>4, <2>5, <2>6 DEF Following
  <2> QED BY <2>4, <2>7 DEF z
<1>13. CASE a.clst # 0
  <2> DEFINE p == [r.s.p EXCEPT !.clust = a.clst, !.fptr = r.s.p.fptr + bcs]
             u == On(a.v, p)
  <2>1. z = [s |-> u, ofs |-> r.ofs - bcs] /\ u.v = a.v /\ u.p = p
    BY <1>8, <1>13, <1>r DEF On, FilRec
  <2>2. a.clst \in Cluster /\ Lies(bcs * (q+1), a.clst, t2)
    BY <1>9, <1>13
  <2>3. (q+1)+1 \in 1 .. Len(t2) /\ a.clst = t2[(q+1)+1]
    <3>1. At(bcs * (q+1), q+1, 0, 0)
      BY <1>3, AtStart
    <3> QED BY <2>2, <3>1, LiesAt
  <2>4. /\ p \in FilRec /\ p.sclust = r.s.p.sclust /\ p.dirty = r.s.p.dirty /\ p.dsect = r.s.p.dsect
        /\ p.clust = a.clst /\ p.fptr = r.s.p.fptr + bcs /\ p.wr = r.s.p.wr /\ SameButPlace(r.s.p, p)
    <3>1. r.s.p.fptr + bcs \in Nat
      BY <1>3, <1>b
    <3> QED BY <1>r, <2>2, <3>1 DEF FilRec, SameButPlace
  <2> HIDE DEF p
  <2>5. Works(u, With(c1, f, t2, Nil), K, f)
    <3>1. p.sclust = First(t2) /\ (p.dirty => p.dsect \in DataSector \ K.sects)
      BY <1>r, <1>t, <2>4
    <3> QED BY <1>1, <1>6, <2>4, <3>1, ReachedWorks
  <2> HIDE DEF u
  <2>6. z.s = u /\ z.ofs = r.ofs - bcs /\ z = [s |-> z.s, ofs |-> z.ofs] /\ z.ofs \in Nat /\ z.ofs > 0
        /\ z.ofs <= r.ofs - 1
    <3>1. r.ofs - bcs \in Nat /\ r.ofs - bcs > 0 /\ r.ofs - bcs <= r.ofs - 1
      BY <1>1, <1>b
    <3> QED BY <2>1, <3>1
  <2>7. t2 = ch[f] => Quiet(s.v, u.v)
    <3> SUFFICES ASSUME t2 = ch[f] PROVE Quiet(s.v, u.v)
      OBVIOUS
    <3>1. Len(ch[f]) <= Len(t) /\ Len(t) <= Len(t2)
      BY <1>1, <1>9 DEF Extends
    <3>2. t2 = t
      BY <1>3, <1>t, <3>1
    <3> QED BY <1>1, <1>9, <2>1, <3>2, QuietTwice
  <2>8. AtCluster(p, t2, q+1)
    BY <1>3, <1>b, <2>3, <2>4 DEF AtCluster
  <2>9. t2 # ch[f] => q+1 >= Len(ch[f])
    <3>1. CASE t # ch[f]
      BY <1>2, <1>3, <3>1
    <3>2. CASE t = ch[f] /\ t2 # t
      <4>1. Len(t) = q+1
        BY <1>l, <3>2
      <4> QED BY <1>3, <3>2, <4>1
    <3>3. CASE t = ch[f] /\ t2 = t
      BY <3>3
    <3> QED BY <3>1, <3>2, <3>3
  <2>10. ~p.wr => p.fptr + z.ofs <= bcs * Len(t2)
    <3> SUFFICES ASSUME ~p.wr PROVE p.fptr + z.ofs <= bcs * Len(t2)
      OBVIOUS
    <3>1. r.s.p.fptr + r.ofs <= bcs * Len(t)
      BY <1>1, <2>4
    <3>0. r.s.p.fptr \in Nat /\ r.ofs \in Nat /\ bcs \in Nat
      BY <1>1, <1>b, <1>r, FilFacts
    <3>2. r.s.p.fptr + r.ofs \in Nat
      BY <3>0
    <3>3. r.s.p.fptr + r.ofs <= bcs * Len(t2)
      BY <1>1, <1>9, <3>1, <3>2, LongEnough
    <3>4. p.fptr + z.ofs = r.s.p.fptr + r.ofs
      <4> DEFINE i == r.s.p.fptr
                 j == r.ofs
                 m == bcs
      <4>1. i \in Nat /\ j \in Nat /\ m \in Nat /\ p.fptr = i + m /\ z.ofs = j - m
        BY <2>4, <2>6, <3>0
      <4> HIDE DEF i, j, m
      <4>2. (i + m) + (j - m) = i + j
        BY <4>1
      <4>3. p.fptr + z.ofs = (i + m) + (j - m)
        BY <4>1
      <4> QED BY <4>2, <4>3 DEF i, j
    <3> QED BY <3>3, <3>4
  <2>11. SameButPlace(s.p, p)
    BY <1>1, <2>4 DEF SameButPlace
  <2>12. Following(s, ch, K, f, z, t2)
    BY <1>9, <1>10, <1>11, <2>1, <2>5, <2>6, <2>7, <2>8, <2>9, <2>10, <2>11 DEF Following
  <2> QED BY <2>6, <2>12 DEF z
<1> QED BY <1>12, <1>13
-----------------------------------------------------------------------------
\* The rounds of f_lseek one after the other.
FollowedAfter(n, x) == Loop(LAMBDA r, k : FollowOn(r), x, n)
FollowedSo(it, x, n) == /\ it[0] = x /\ \A j \in 1 .. n : it[j] = FollowOn(it[j-1])
                        /\ FollowedAfter(n, x) = it[n]

LEMMA FollowRuns ==
    ASSUME NEW n \in Nat, NEW V, NEW x \in V, \A r \in V : FollowOn(r) \in V
    PROVE  \E it : /\ \A j \in 0 .. n : it[j] \in V
                   /\ FollowedSo(it, x, n)
<1> DEFINE F(h) == [k \in 0 .. n |-> IF k = 0 THEN x ELSE FollowOn(h[k-1])]
           it == CHOOSE h : h = F(h)
           g == [k \in 1 .. n |-> [r \in V |-> FollowOn(r)]]
<1>1. PICK p \in [0 .. n -> V] : Goes(p, g, x, n)
  <2>1. g \in [1 .. n -> [V -> V]]
    OBVIOUS
  <2> HIDE DEF g, it, F
  <2> QED BY <2>1, RoundsExist, Zenon
<1> HIDE DEF it
<1>2. p[0] = x /\ \A k \in 1 .. n : p[k-1] \in V /\ p[k] = FollowOn(p[k-1])
  <2> HIDE DEF F
  <2>1. p[0] = x /\ \A k \in 1 .. n : p[k] = g[k][p[k-1]]
    BY <1>1 DEF Goes
  <2>2. \A k \in 1 .. n : p[k-1] \in V
    OBVIOUS
  <2> QED BY <2>1, <2>2
<1>3. p = F(p)
  BY <1>2
<1>4. it = F(it)
  <2> HIDE DEF F
  <2> QED BY <1>3, Zenon DEF it
<1>5. FollowedAfter(n, x) = it[n]
  BY Zenon DEF FollowedAfter, Loop, it
<1>6. it[0] = x /\ \A j \in 1 .. n : it[j] = FollowOn(it[j-1])
  BY <1>4
<1> DEFINE T == {j \in 0 .. n : it[j] \in V}
<1>7. T \in SUBSET (0 .. n) /\ 0 \in T /\ \A j \in 1 .. n : j-1 \in T => j \in T
  BY <1>6
<1> HIDE DEF T
<1>8. \A j \in 0 .. n : j \in T
  BY <1>7, Stepwise
<1>9. FollowedSo(it, x, n)
  BY <1>5, <1>6 DEF FollowedSo
<1> QED BY <1>8, <1>9 DEF T

\* f_lseek comes to the cluster of the byte that it is to come to.
LEMMA Followed ==
    ASSUME NEW s, NEW ch, NEW K, NEW f \in Names, ch \in [Holders -> Seq(Cluster)], NEW y, NEW n, NEW t0,
           Following(s, ch, K, f, [s |-> y, ofs |-> n], t0)
    PROVE  /\ FollowClusters(y, n).ofs <= bcs
           /\ \E t : Following(s, ch, K, f, FollowClusters(y, n), t)
<1> DEFINE x == [s |-> y, ofs |-> n]
           V == {r \in [s : [v : Vols, p : FilRec], ofs : Nat] : \E t : Following(s, ch, K, f, r, t)}
<1>0. n \in Nat /\ n > 0 /\ bcs \in Nat /\ bcs > 0
  <2>1. x.ofs \in Nat /\ x.ofs > 0
    BY DEF Following
  <2> QED BY <2>1, Sizes1
<1>1. ASSUME NEW r, NEW t, Following(s, ch, K, f, r, t) PROVE r \in V
  <2>1. r.s = On(r.s.v, r.s.p) /\ r.s.p \in FilRec /\ r.s.v \in Vols
    BY <1>1 DEF Following, Works, Good
  <2>2. r.s \in [v : Vols, p : FilRec]
    BY <2>1 DEF On
  <2>3. r = [s |-> r.s, ofs |-> r.ofs] /\ r.ofs \in Nat
    BY <1>1 DEF Following
  <2>4. r \in [s : [v : Vols, p : FilRec], ofs : Nat]
    BY <2>2, <2>3
  <2> QED BY <1>1, <2>4
<1>2. x \in V
  <2> HIDE DEF V
  <2> QED BY <1>1
<1>3. ASSUME NEW r, NEW t, Following(s, ch, K, f, r, t)
      PROVE  /\ \E t2 : Following(s, ch, K, f, FollowOn(r), t2)
             /\ FollowOn(r).ofs <= bcs \/ FollowOn(r).ofs <= r.ofs - 1
  <2>1. r.ofs \in Nat
    BY <1>3 DEF Following
  <2>2. CASE r.ofs > bcs
    <3>1. /\ \E t2 : Following(s, ch, K, f, FollowOn(r), t2)
          /\ FollowOn(r).ofs = bcs \/ FollowOn(r).ofs <= r.ofs - 1
      BY <1>3, <2>2, FollowingOn
    <3> QED BY <1>0, <3>1
  <2>3. CASE ~(r.ofs > bcs)
    <3>1. r.ofs <= bcs
      BY <1>0, <2>1, <2>3
    <3>2. FollowOn(r) = r
      BY <3>1 DEF FollowOn
    <3> QED BY <1>3, <3>1, <3>2
  <2> QED BY <2>2, <2>3
<1>4. \A r \in V : FollowOn(r) \in V
  <2> TAKE r \in V
  <2>1. PICK t : Following(s, ch, K, f, r, t)
    OBVIOUS
  <2>2. PICK t2 : Following(s, ch, K, f, FollowOn(r), t2)
    BY <1>3, <2>1
  <2> HIDE DEF V
  <2> QED BY <1>1, <2>2
<1>x. x.ofs = n
  OBVIOUS
<1> HIDE DEF V, x
<1>5. PICK it : (\A j \in 0 .. n : it[j] \in V) /\ FollowedSo(it, x, n)
  BY <1>0, <1>2, <1>4, FollowRuns
<1>6. /\ it[0] = x /\ \A j \in 1 .. n : it[j] = FollowOn(it[j-1])
      /\ FollowedAfter(n, x) = it[n]
  BY <1>5 DEF FollowedSo
<1> DEFINE T == {j \in 0 .. n : /\ \E t : Following(s, ch, K, f, it[j], t)
                                /\ it[j].ofs <= bcs \/ it[j].ofs <= n - j}
<1>7. T \in SUBSET (0 .. n) /\ 0 \in T
  <2>1. Following(s, ch, K, f, it[0], t0) /\ it[0].ofs <= n - 0
    BY <1>0, <1>6, <1>x DEF x
  <2> QED BY <1>0, <2>1
<1>8. \A j \in 1 .. n : j-1 \in T => j \in T
  <2> SUFFICES ASSUME NEW j \in 1 .. n, j-1 \in T PROVE j \in T
    OBVIOUS
  <2>1. PICK t : Following(s, ch, K, f, it[j-1], t)
    OBVIOUS
  <2>2. it[j-1].ofs <= bcs \/ it[j-1].ofs <= n - (j-1)
    OBVIOUS
  <2>3. it[j] = FollowOn(it[j-1])
    BY <1>6
  <2>4. PICK t2 : Following(s, ch, K, f, it[j], t2)
    BY <1>3, <2>1, <2>3
  <2>5. it[j].ofs <= bcs \/ it[j].ofs <= it[j-1].ofs - 1
    BY <1>3, <2>1, <2>3
  <2>6. it[j-1].ofs \in Nat /\ it[j].ofs \in Nat
    BY <2>1, <2>4 DEF Following
  <2> DEFINE a == it[j-1].ofs
             b == it[j].ofs
  <2>7. b <= bcs \/ b <= n - j
    <3>1. /\ a \in Nat /\ b \in Nat /\ (b <= bcs \/ b <= a - 1) /\ (a <= bcs \/ a <= n - (j-1))
      BY <2>2, <2>5, <2>6
    <3> HIDE DEF a, b
    <3> QED BY <1>0, <3>1
  <2> QED BY <2>4, <2>7
<1> HIDE DEF T
<1>9. n \in T
  <2>1. \A m \in 0 .. n : m \in T
    BY <1>0, <1>7, <1>8, Stepwise, Zenon
  <2> QED BY <1>0, <2>1
<1>10. PICK t : Following(s, ch, K, f, it[n], t)
  BY <1>9 DEF T
<1>11. it[n].ofs <= bcs
  <2>1. it[n].ofs <= bcs \/ it[n].ofs <= n - n
    BY <1>9 DEF T
  <2>2. it[n].ofs \in Nat /\ it[n].ofs > 0
    BY <1>10 DEF Following
  <2> QED BY <1>0, <2>1, <2>2
<1>12. FollowClusters(y, n) = it[n]
  BY <1>6, Zenon DEF FollowClusters, FollowedAfter, x
<1> QED BY <1>10, <1>11, <1>12
-----------------------------------------------------------------------------
\* s has become u by a seek, and the chain of f is t now.
Came(s, ch, K, f, u, t) ==
    /\ Works(u, With(ch, f, t, Nil), K, f) /\ Placed(u.p, t) /\ Still(s.v, u.v)
    /\ t \in Seq(Cluster) /\ Extends(ch[f], t)
    /\ u.p.wr = s.p.wr /\ u.p.written = s.p.written /\ u.p.slot = s.p.slot /\ u.p.fsize = s.p.fsize
    /\ t # ch[f] => bcs * Len(ch[f]) < u.p.fptr
    /\ ~s.p.dirty => ~u.p.dirty /\ (t = ch[f] => Quiet(s.v, u.v))
    /\ \A c \in Contents : Holding(s, ch[f], c) /\ Len(c) <= bcs * Len(ch[f]) => Holding(u, t, c)

LEMMA ArrivedWorks ==
    ASSUME NEW s, NEW ch, NEW K, NEW f \in Names, ch \in [Holders -> Seq(Cluster)], NEW r, NEW t,
           Following(s, ch, K, f, r, t), r.ofs <= bcs
    PROVE  Came(s, ch, K, f, Arrived(r), t)
<1> DEFINE c1 == With(ch, f, t, Nil)
           p == [r.s.p EXCEPT !.fptr = r.s.p.fptr + r.ofs]
           y == On(r.s.v, p)
           X == clust2sect(p.clust) + (r.ofs \div SS)
           u == Arrived(r)
<1>1. /\ r.ofs \in Nat /\ r.ofs > 0 /\ Works(r.s, c1, K, f) /\ Still(s.v, r.s.v) /\ r.s.v.disk.data = s.v.disk.data
      /\ t \in Seq(Cluster) /\ Extends(ch[f], t) /\ SameButPlace(s.p, r.s.p)
      /\ t = ch[f] => Quiet(s.v, r.s.v)
  BY DEF Following
<1>2. PICK q : AtCluster(r.s.p, t, q) /\ (t # ch[f] => q >= Len(ch[f]))
  BY DEF Following
<1>3. r.s.p.fptr = bcs * q /\ q \in Nat /\ q+1 \in 1 .. Len(t) /\ r.s.p.clust = t[q+1] /\ Len(t) \in Nat
      /\ ch[f] \in Seq(Cluster) /\ Len(ch[f]) \in Nat
  BY <1>1, <1>2, NameFacts, ListFacts DEF AtCluster
<1>4. /\ r.s.p \in FilRec /\ r.s = On(r.s.v, r.s.p) /\ (r.s.p.dirty => r.s.p.dsect \in DataSector \ K.sects)
  BY <1>1 DEF Works
<1>5. bcs * q \in Nat /\ bcs \in Nat /\ bcs > 0 /\ SS \in Nat /\ SS > 0
  BY <1>3, Sizes1, Mul
<1> DEFINE z == r.s.p.fptr + r.ofs
<1>6. z \in Nat /\ z > 0 /\ z = bcs * q + r.ofs
  <2> DEFINE w == bcs * q
  <2>1. w \in Nat /\ z = w + r.ofs
    BY <1>3, <1>5
  <2> HIDE DEF w, z
  <2>2. z \in Nat /\ z > 0
    BY <1>1, <2>1
  <2> QED BY <2>1, <2>2 DEF w
<1>7. /\ p \in FilRec /\ p.sclust = r.s.p.sclust /\ p.dirty = r.s.p.dirty /\ p.dsect = r.s.p.dsect /\ p.buf = r.s.p.buf
      /\ p.clust = t[q+1] /\ p.fptr = z /\ SameButPlace(r.s.p, p)
  BY <1>3, <1>4, <1>6 DEF FilRec, SameButPlace
<1>8. u = IF r.ofs % SS = 0 THEN y ELSE LoadBuffer(y, X)
  <2> DEFINE o == [r.s EXCEPT !.p.fptr = @ + r.ofs]
  <2>0. u = IF r.ofs % SS = 0 THEN o ELSE LoadBuffer(o, clust2sect(o.p.clust) + (r.ofs \div SS))
    BY DEF Arrived
  <2>1. o = y
    BY <1>4 DEF On
  <2>2. y.p = p
    BY DEF On
  <2> HIDE DEF y, p, o, u
  <2> QED BY <2>0, <2>1, <2>2
<1> HIDE DEF p
<1>9. Works(y, c1, K, f) /\ y.v = r.s.v /\ y.p = p
  BY <1>1, <1>4, <1>7, WorksOn DEF On
<1>10. Lies(z-1, t[q+1], t)
  <2> DEFINE w == bcs * q
             o == r.ofs
  <2>1. w \in Nat /\ z = w + o /\ o \in Nat /\ o > 0 /\ o <= bcs
    BY <1>1, <1>5, <1>6
  <2> HIDE DEF w, o, z
  <2>2. z-1 \in Nat /\ w <= z-1 /\ z-1 < w + bcs
    BY <1>5, <2>1
  <2>3. At(bcs * q, q, 0, 0)
    BY <1>3, AtStart
  <2> DEFINE b == bcs * q
  <2>4. At(b, q, 0, 0) /\ bcs * q <= z-1 /\ z-1 < bcs * q + bcs
    BY <2>2, <2>3 DEF w
  <2> HIDE DEF b
  <2> QED BY <1>3, <2>2, <2>4, LiesOn
<1>11. PICK k, e : k = r.ofs \div SS /\ e = r.ofs % SS /\ k \in Nat /\ e \in 0 .. SS-1 /\ r.ofs = SS * k + e
  <2>1. SS \in Nat \ {0}
    BY Sizes1
  <2>2. r.ofs % SS \in 0 .. SS-1 /\ r.ofs \div SS \in Nat /\ r.ofs = SS * (r.ofs \div SS) + (r.ofs % SS)
    BY <1>1, <2>1, WrapIs
  <2> WITNESS r.ofs \div SS, r.ofs % SS
  <2> QED BY <2>2
<1>e. k \in Nat /\ e \in Nat
  BY <1>5, <1>11
<1>12. e # 0 => k \in 0 .. CSize-1 /\ At(z, q, k, e)
  <2> SUFFICES ASSUME e # 0 PROVE k \in 0 .. CSize-1 /\ At(z, q, k, e)
    OBVIOUS
  <2>1. k < CSize
    <3> SUFFICES ASSUME CSize <= k PROVE FALSE
      BY <1>11, Sizes1
    <3>1. SS * CSize <= SS * k /\ SS * CSize \in Nat /\ SS * k \in Nat
      BY <1>11, Sizes1, Mul
    <3>2. bcs = SS * CSize
      BY Sizes1
    <3> DEFINE a == SS * CSize
               b == SS * k
    <3>3. a \in Nat /\ b \in Nat /\ a <= b /\ bcs = a /\ r.ofs = b + e
      BY <1>11, <3>1, <3>2
    <3> HIDE DEF a, b
    <3> QED BY <1>1, <1>e, <3>3
  <2>2. k \in 0 .. CSize-1
    BY <1>11, <2>1, Sizes1
  <2>3. At(bcs * q + SS * k + e, q, k, e)
    BY <1>3, <1>11, <2>2, AtOf
  <2>4. bcs * q + SS * k + e = z
    <3> DEFINE a == bcs * q
               b == SS * k
    <3>1. b \in Nat
      BY <1>5, <1>11, Mul
    <3>2. a \in Nat /\ b \in Nat /\ e \in Nat /\ z = a + (b + e)
      BY <1>5, <1>6, <1>11, <3>1
    <3> HIDE DEF a, b, z
    <3>3. a + b + e = z
      BY <3>2
    <3> QED BY <3>3 DEF a, b
  <2> HIDE DEF z
  <2> QED BY <2>2, <2>3, <2>4
<1>13. e = 0 => z % SS = 0
  <2> SUFFICES ASSUME e = 0 PROVE z % SS = 0
    OBVIOUS
  <2>1. PICK m \in Nat : z = SS * m + 0
    <3> DEFINE m == CSize * q + k
    <3>0. CSize * q \in Nat
      BY <1>3, Sizes1, Mul
    <3>1. CSize * q \in Nat /\ m \in Nat
      <4> DEFINE w == CSize * q
      <4>1. w \in Nat /\ m = w + k
        BY <3>0
      <4> HIDE DEF w, m
      <4> QED BY <1>e, <3>0, <4>1
    <3>2. SS * (CSize * q) + SS * k = SS * m
      BY <1>3, <1>5, <1>11, <3>1, Mul
    <3>3. SS * (CSize * q) = bcs * q
      BY <1>3, Sizes1
    <3>4. z = SS * m + 0
      BY <1>5, <1>6, <1>11, <3>2, <3>3, Mul
    <3> QED BY <3>1, <3>4
  <2>2. 0 \in 0 .. SS-1
    BY <1>5
  <2>3. (SS * m + 0) % SS = 0
    BY <2>1, <2>2, Sizes1, WrapUnique
  <2> QED BY <2>1, <2>3
<1>14. p.fptr = z /\ Lies(p.fptr-1, p.clust, t)
  BY <1>7, <1>10
<1> HIDE DEF z
<1>15. (CurrentSector(p) = X /\ X \in DataSector) \/ e = 0
  <2> SUFFICES ASSUME e # 0 PROVE (CurrentSector(p) = X /\ X \in DataSector)
    OBVIOUS
  <2>1. (p.fptr \div SS) % CSize = k
    BY <1>7, <1>12 DEF At
  <2>2. X = clust2sect(t[q+1]) + k
    BY <1>7, <1>11
  <2>3. t[q+1] \in Cluster
    BY <1>1, <1>3, ListFacts
  <2>4. X \in DataSector
    BY <1>12, <2>2, <2>3, SectorIn
  <2> QED BY <2>1, <2>4, <1>11 DEF CurrentSector, SectorOfCluster
<1>16. t # ch[f] => bcs * Len(ch[f]) < z
  <2> SUFFICES ASSUME t # ch[f] PROVE bcs * Len(ch[f]) < z
    OBVIOUS
  <2>1. bcs * Len(ch[f]) <= bcs * q /\ bcs * Len(ch[f]) \in Nat
    BY <1>2, <1>3, <1>5, Mul
  <2> DEFINE a == bcs * Len(ch[f])
             b == bcs * q
  <2>2. a \in Nat /\ b \in Nat /\ a <= b /\ z = b + r.ofs
    BY <1>5, <1>6, <2>1
  <2> HIDE DEF a, b
  <2>3. a < z
    BY <1>1, <2>2
  <2> QED BY <2>3 DEF a
<1>17. \A c \in Contents : Holding(s, ch[f], c) /\ Len(c) <= bcs * Len(ch[f]) => Holding(y, t, c)
  <2> SUFFICES ASSUME NEW c \in Contents, Holding(s, ch[f], c), Len(c) <= bcs * Len(ch[f]) PROVE Holding(y, t, c)
    OBVIOUS
  <2>1. Holding(s, t, c)
    BY <1>1, <1>3, HoldingExtends
  <2> HIDE DEF y
  <2>2. y.p.dirty = s.p.dirty /\ y.p.dsect = s.p.dsect /\ y.p.buf = s.p.buf /\ y.v.disk.data = s.v.disk.data
    BY <1>1, <1>7, <1>9 DEF SameButPlace
  <2> QED BY <2>1, <2>2, HoldingSame
<1> HIDE DEF y, X, c1
<1>18. y.p.fptr = z /\ y.p.wr = s.p.wr /\ y.p.written = s.p.written /\ y.p.slot = s.p.slot /\ y.p.fsize = s.p.fsize
       /\ y.p.dirty = s.p.dirty
  BY <1>1, <1>7, <1>9 DEF SameButPlace
<1>19. CASE e = 0
  <2>1. u = y
    BY <1>8, <1>11, <1>19
  <2> HIDE DEF u
  <2>2. Placed(y.p, t)
    BY <1>9, <1>13, <1>14, <1>19 DEF Placed
  <2> QED BY <1>1, <1>9, <1>16, <1>17, <1>18, <2>1, <2>2 DEF Came, c1, u
<1>20. CASE e # 0
  <2>1. u = LoadBuffer(y, X)
    BY <1>8, <1>11, <1>20
  <2> HIDE DEF u
  <2>2. /\ Works(u, c1, K, f) /\ Still(y.v, u.v) /\ Buffered(y.p, u.p) /\ Loaded(y, u, X)
    BY <1>9, <1>15, <1>20, <2>1, LoadBufferWorks
  <2>3. u.p.dsect = X /\ u.p.fptr = z /\ u.p.clust = p.clust
    BY <1>9, <1>18, <2>2 DEF Loaded, Buffered
  <2>4. CurrentSector(u.p) = CurrentSector(p)
    BY <1>7, <2>3 DEF CurrentSector, SectorOfCluster
  <2>5. Placed(u.p, t)
    <3>1. Lies(u.p.fptr-1, u.p.clust, t)
      BY <1>14, <2>3
    <3>2. u.p.dsect = CurrentSector(u.p)
      BY <1>15, <1>20, <2>3, <2>4
    <3> QED BY <3>1, <3>2 DEF Placed
  <2>6. ~y.p.dirty => ~u.p.dirty /\ u.v = y.v
    <3> SUFFICES ASSUME ~y.p.dirty PROVE ~u.p.dirty /\ u.v = y.v
      OBVIOUS
    <3>1. WriteBuffer(y) = y
      BY DEF WriteBuffer
    <3> QED BY <2>2, <3>1 DEF Loaded
  <2>7. \A c \in Contents : Holding(s, ch[f], c) /\ Len(c) <= bcs * Len(ch[f]) => Holding(u, t, c)
    <3> SUFFICES ASSUME NEW c \in Contents, Holding(s, ch[f], c), Len(c) <= bcs * Len(ch[f]) PROVE Holding(u, t, c)
      OBVIOUS
    <3>1. Holding(y, t, c)
      BY <1>17
    <3> QED BY <1>9, <1>15, <1>20, <2>1, <3>1, HoldingLoadBuffer
  <2>8. Still(s.v, u.v)
    BY <1>1, <1>9, <2>2 DEF Still
  <2>9. u.p.wr = s.p.wr /\ u.p.written = s.p.written /\ u.p.slot = s.p.slot /\ u.p.fsize = s.p.fsize
    BY <1>18, <2>2 DEF Buffered
  <2>10. ~s.p.dirty => ~u.p.dirty /\ (t = ch[f] => Quiet(s.v, u.v))
    BY <1>1, <1>9, <1>18, <2>6
  <2> QED BY <1>1, <1>16, <2>2, <2>3, <2>5, <2>7, <2>8, <2>9, <2>10 DEF Came, c1, u
<1> QED BY <1>19, <1>20
-----------------------------------------------------------------------------
\* A seek from the start of a file begins in its first cluster.
LEMMA FirstReached ==
    ASSUME NEW s, NEW ch, NEW K, NEW f \in Names, Works(s, ch, K, f), NEW x, At(x, 0, 0, 0)
    PROVE  \E t : Reached(s, ch, K, f, FirstCluster(s), t, x)
<1> DEFINE g == ch[f]
<1>1. /\ s.p \in FilRec /\ g \in Seq(Cluster) /\ Len(g) \in Nat /\ s.p.sclust = First(g)
  BY WorksFacts
<1>2. CASE s.p.sclust # 0
  <2>1. FirstCluster(s) = [v |-> s.v, clst |-> s.p.sclust]
    BY <1>2 DEF FirstCluster
  <2>2. 0+1 \in 1 .. Len(g) /\ s.p.sclust = g[0+1] /\ g[0+1] \in Cluster
    BY <1>1, <1>2, FirstIs, ListFacts
  <2>3. bcs * 0 <= x /\ x < bcs * 0 + bcs /\ x \in Nat
    BY AtParts
  <2> HIDE DEF g
  <2>4. Lies(x, g[0+1], g)
    BY <2>2, <2>3, LiesOn
  <2>5. Quiet(s.v, s.v)
    BY QuietSame
  <2>6. Reached(s, ch, K, f, [v |-> s.v, clst |-> g[0+1]], ch[f], x)
    BY <2>2, <2>4, <2>5, ReachedHere DEF g
  <2> QED BY <2>1, <2>2, <2>6
<1>3. CASE s.p.sclust = 0
  <2>1. FirstCluster(s) = create_chain(s.v, 0)
    BY <1>3 DEF FirstCluster
  <2>2. Len(g) = 0 /\ 0 \in 0 .. Len(ch[f])
    <3>1. Len(g) = 0
      BY <1>1, <1>3, FirstIs
    <3> QED BY <1>1, <3>1
  <2>3. \E t : Reached(s, ch, K, f, create_chain(s.v, Position(ch[f], 0)), t, x)
    BY <2>2, ReachedCreate
  <2> QED BY <2>1, <2>3 DEF Position
<1> QED BY <1>2, <1>3

\* Where a byte is, by division.
LEMMA ClusterOf ==
    ASSUME NEW x \in Nat, NEW q \in Nat, bcs * q <= x, x < bcs * q + bcs
    PROVE  x \div bcs = q
<1>1. bcs \in Nat \ {0} /\ bcs \in Nat
  BY Sizes1
<1> DEFINE h == x \div bcs
           m == x % bcs
<1>2. h \in Nat /\ m \in 0 .. bcs-1 /\ x = bcs * h + m
  BY <1>1, WrapIs
<1> HIDE DEF h, m
<1>3. bcs * h <= x /\ x < bcs * h + bcs
  <2> DEFINE a == bcs * h
  <2>1. a \in Nat /\ x = a + m
    BY <1>1, <1>2, Mul
  <2> HIDE DEF a
  <2>2. a <= x /\ x < a + bcs
    BY <1>1, <1>2, <2>1
  <2> QED BY <2>2 DEF a
<1>4. h = q
  BY <1>1, <1>2, <1>3, OneQuotient
<1> QED BY <1>4 DEF h

LEMMA ClusterBefore ==
    ASSUME NEW o \in Nat, o > 0, NEW q \in Nat, (o-1) \div bcs >= q
    PROVE  bcs * q < o /\ bcs * q \in Nat
<1>1. bcs \in Nat \ {0} /\ bcs \in Nat /\ o-1 \in Nat
  BY Sizes1
<1> DEFINE h == (o-1) \div bcs
           m == (o-1) % bcs
<1>2. h \in Nat /\ m \in 0 .. bcs-1 /\ o-1 = bcs * h + m /\ q <= h
  BY <1>1, WrapIs
<1> HIDE DEF h, m
<1>3. bcs * q <= bcs * h /\ bcs * q \in Nat /\ bcs * h \in Nat
  BY <1>1, <1>2, Mul
<1> DEFINE a == bcs * q
           b == bcs * h
<1>4. a \in Nat /\ b \in Nat /\ a <= b /\ o-1 = b + m /\ m \in Nat
  BY <1>1, <1>2, <1>3
<1> HIDE DEF a, b
<1>5. a < o
  BY <1>4
<1> QED BY <1>4, <1>5 DEF a

LEMMA SeekOnComes ==
    ASSUME NEW s, NEW ch, NEW K, NEW f \in Names, ch \in [Holders -> Seq(Cluster)], NEW y, NEW n, NEW t0,
           Following(s, ch, K, f, [s |-> y, ofs |-> n], t0)
    PROVE  \E t : Came(s, ch, K, f, SeekOn(y, n), t)
<1> DEFINE r == FollowClusters(y, n)
<1>1. r.ofs <= bcs /\ \E t : Following(s, ch, K, f, r, t)
  BY Followed
<1> HIDE DEF r
<1>2. PICK t : Following(s, ch, K, f, r, t)
  BY <1>1
<1>3. Came(s, ch, K, f, Arrived(r), t)
  BY <1>1, <1>2, ArrivedWorks
<1>4. SeekOn(y, n) = Arrived(r)
  BY DEF SeekOn, r
<1> QED BY <1>3, <1>4

\* A seek comes to where it is to come and harms nothing.
LEMMA SeekComes ==
    ASSUME NEW s, NEW ch, NEW K, NEW f \in Names, Works(s, ch, K, f), Placed(s.p, ch[f]),
           NEW ofs \in Nat, s.p.wr \/ ofs <= bcs * Len(ch[f])
    PROVE  \E t : Came(s, ch, K, f, Seek(s, ofs), t)
<1> DEFINE p == s.p
           g == ch[f]
           here == p.fptr > 0 /\ (ofs-1) \div bcs >= (p.fptr-1) \div bcs
           start == bcs * ((p.fptr-1) \div bcs)
           z == Seek(s, ofs)
<1>1. /\ p \in FilRec /\ g \in Seq(Cluster) /\ Len(g) \in Nat /\ p.sclust = First(g)
      /\ s = On(s.v, p) /\ ch \in [Holders -> Seq(Cluster)] /\ With(ch, f, g, Nil) = ch
      /\ (p.dirty => p.dsect \in DataSector \ K.sects)
  <2>1. /\ p \in FilRec /\ g \in Seq(Cluster) /\ Len(g) \in Nat /\ p.sclust = First(g)
        /\ ch \in [Holders -> Seq(Cluster)] /\ With(ch, f, g, Nil) = ch
    BY WorksFacts
  <2>2. s = On(s.v, p) /\ (p.dirty => p.dsect \in DataSector \ K.sects)
    BY DEF Works
  <2> QED BY <2>1, <2>2
<1>2. p.fptr \in Nat
  BY <1>1, FilFacts
<1>3. z = CASE ofs = 0 -> [s EXCEPT !.p.fptr = 0]
            [] ofs > 0 /\ here -> SeekOn([s EXCEPT !.p.fptr = start], ofs - start)
            [] OTHER -> SeekFromStart(s, FirstCluster(s), ofs)
  BY DEF Seek
<1>4. \A x \in Nat : [s EXCEPT !.p.fptr = x] = On(s.v, [p EXCEPT !.fptr = x])
  <2> TAKE x \in Nat
  <2>1. s = On(s.v, s.p) /\ s.p \in FilRec
    BY <1>1
  <2>2. s = [v |-> s.v, p |-> s.p]
    BY <2>1 DEF On
  <2>3. DOMAIN s = {"v", "p"}
    <3> HIDE DEF p
    <3>1. DOMAIN [v |-> s.v, p |-> s.p] = {"v", "p"}
      OBVIOUS
    <3> QED BY <2>2, <3>1
  <2> HIDE DEF z, here, start, g
  <2>4. [s EXCEPT !.p.fptr = x] = [v |-> s.v, p |-> [s.p EXCEPT !.fptr = x]]
    <3>1. [s EXCEPT !.p.fptr = x] = [a \in {"v", "p"} |-> IF a = "p" THEN [s.p EXCEPT !.fptr = x] ELSE s.v]
      BY <2>2, <2>3
    <3> QED BY <3>1
  <2> QED BY <2>4 DEF On
<1>5. ASSUME NEW x \in Nat
      PROVE  LET p2 == [p EXCEPT !.fptr = x]
             IN  /\ Works(On(s.v, p2), ch, K, f) /\ SameButPlace(p, p2) /\ p2.fptr = x /\ p2.clust = p.clust
                 /\ p2 \in FilRec
  <2> DEFINE p2 == [p EXCEPT !.fptr = x]
  <2>1. /\ p2 \in FilRec /\ p2.sclust = p.sclust /\ p2.dirty = p.dirty /\ p2.dsect = p.dsect
        /\ p2.fptr = x /\ p2.clust = p.clust /\ SameButPlace(p, p2)
    BY <1>1 DEF FilRec, SameButPlace
  <2> HIDE DEF p2
  <2>2. Works(On(s.v, p2), ch, K, f)
    BY <1>1, <2>1, WorksOn
  <2> QED BY <2>1, <2>2 DEF p2
<1>6. Still(s.v, s.v) /\ Quiet(s.v, s.v) /\ Extends(g, g)
  BY <1>1, QuietSame, ExtendsFacts DEF Still
<1>7. CASE ofs = 0
  <2> DEFINE p2 == [p EXCEPT !.fptr = 0]
             u == On(s.v, p2)
  <2>1. Works(u, ch, K, f) /\ SameButPlace(p, p2) /\ p2.fptr = 0 /\ p2 \in FilRec
    BY <1>5
  <2>2. z = u
    <3>1. z = [s EXCEPT !.p.fptr = 0]
      BY <1>3, <1>7
    <3> HIDE DEF z
    <3>2. [s EXCEPT !.p.fptr = 0] = On(s.v, [p EXCEPT !.fptr = 0])
      BY <1>4
    <3> QED BY <3>1, <3>2
  <2>3. u.v = s.v /\ u.p = p2
    BY DEF On
  <2> HIDE DEF p2, u, z
  <2>4. Placed(u.p, g)
    <3>1. 0 % SS = 0
      <4>1. At(bcs * 0 + SS * 0 + 0, 0, 0, 0) /\ bcs * 0 + SS * 0 + 0 = 0
        BY AtOf, Sizes1
      <4> QED BY <4>1 DEF At
    <3> QED BY <2>1, <2>3, <3>1 DEF Placed
  <2>5. \A c \in Contents : Holding(s, g, c) => Holding(u, g, c)
    <3>1. u.p.dirty = s.p.dirty /\ u.p.dsect = s.p.dsect /\ u.p.buf = s.p.buf /\ u.v.disk.data = s.v.disk.data
      BY <2>1, <2>3 DEF SameButPlace
    <3> QED BY <3>1, HoldingSame
  <2>6. /\ u.p.wr = s.p.wr /\ u.p.written = s.p.written /\ u.p.slot = s.p.slot /\ u.p.fsize = s.p.fsize
        /\ u.p.dirty = s.p.dirty
    BY <2>1, <2>3 DEF SameButPlace
  <2>7. Came(s, ch, K, f, u, g)
    BY <1>1, <1>6, <2>1, <2>3, <2>4, <2>5, <2>6 DEF Came
  <2> QED BY <2>2, <2>7 DEF z
<1>8. CASE ofs > 0 /\ here
  <2>1. PICK q \in Nat : q+1 \in 1 .. Len(g) /\ p.clust = g[q+1] /\ p.fptr-1 \in bcs*q .. bcs*q + (bcs-1)
    BY <1>8 DEF Placed, Lies
  <2>2. (p.fptr-1) \div bcs = q
    <3> DEFINE x == p.fptr-1
               a == bcs * q
    <3>1. x \in Nat /\ a \in Nat /\ bcs \in Nat /\ x \in a .. a + (bcs-1)
      BY <1>2, <1>8, <2>1, Sizes1, Mul
    <3> HIDE DEF x, a
    <3>2. a <= x /\ x < a + bcs
      BY <3>1
    <3>3. x \div bcs = q
      BY <3>1, <3>2, ClusterOf DEF a
    <3> QED BY <3>3 DEF x
  <2>3. start = bcs * q /\ start \in Nat /\ start < ofs
    <3>1. (ofs-1) \div bcs >= q
      BY <1>8, <2>2
    <3>2. bcs * q < ofs /\ bcs * q \in Nat
      BY <1>8, <2>1, <3>1, ClusterBefore
    <3> QED BY <2>2, <3>2
  <2>4. z = SeekOn([s EXCEPT !.p.fptr = start], ofs - start)
    BY <1>3, <1>8
  <2> HIDE DEF start, z, here
  <2> DEFINE p2 == [p EXCEPT !.fptr = start]
             y == On(s.v, p2)
             n == ofs - start
             r == [s |-> y, ofs |-> n]
  <2>5. [s EXCEPT !.p.fptr = start] = y
    BY <1>4, <2>3
  <2>6. Works(y, ch, K, f) /\ SameButPlace(p, p2) /\ p2.fptr = start /\ p2.clust = p.clust
    BY <1>5, <2>3
  <2>7. y.v = s.v /\ y.p = p2
    BY DEF On
  <2>8. n \in Nat /\ n > 0 /\ start + n = ofs
    BY <2>3
  <2> HIDE DEF p2, y, n
  <2>9. r.s = y /\ r.ofs = n /\ r = [s |-> r.s, ofs |-> r.ofs]
    OBVIOUS
  <2> HIDE DEF r
  <2>10. AtCluster(p2, g, q)
    BY <2>1, <2>3, <2>6 DEF AtCluster
  <2>11. ~p2.wr => p2.fptr + n <= bcs * Len(g)
    BY <2>6, <2>8 DEF SameButPlace
  <2>12. Following(s, ch, K, f, r, g)
    BY <1>1, <1>6, <2>6, <2>7, <2>8, <2>9, <2>10, <2>11 DEF Following
  <2>13. Following(s, ch, K, f, [s |-> y, ofs |-> n], g)
    BY <2>12 DEF r
  <2>14. \E t : Came(s, ch, K, f, SeekOn(y, n), t)
    BY <1>1, <2>13, SeekOnComes
  <2> QED BY <2>4, <2>5, <2>14 DEF n, z
<1>9. CASE ofs > 0 /\ ~here
  <2> DEFINE a == FirstCluster(s)
             p2 == [p EXCEPT !.fptr = 0, !.clust = a.clst, !.sclust = a.clst]
             y == On(a.v, p2)
             r == [s |-> y, ofs |-> ofs]
  <2>1. z = IF a.clst = 0 THEN y ELSE SeekOn(y, ofs)
    BY <1>3, <1>9 DEF SeekFromStart
  <2>2. At(0, 0, 0, 0) /\ bcs * 0 = 0
    BY AtStart, Sizes1
  <2>3. PICK t : Reached(s, ch, K, f, a, t, 0)
    BY <2>2, FirstReached
  <2> HIDE DEF a, z
  <2>4. /\ t \in Seq(Cluster) /\ Extends(g, t) /\ Still(s.v, a.v) /\ a.v.disk.data = s.v.disk.data
        /\ (t = g => Quiet(s.v, a.v)) /\ (t # g => bcs * Len(g) <= 0)
        /\ \/ a.clst = 0 /\ t = g
           \/ a.clst \in Cluster /\ Lies(0, a.clst, t)
    BY <2>3 DEF Reached
  <2>5. a.clst \in {0} \cup Cluster
    BY <2>4
  <2>6. /\ p2 \in FilRec /\ p2.sclust = a.clst /\ p2.clust = a.clst /\ p2.fptr = 0 /\ p2.dirty = p.dirty
        /\ p2.dsect = p.dsect /\ p2.buf = p.buf /\ SameButPlace(p, p2)
    BY <1>1, <2>5 DEF FilRec, SameButPlace
  <2> HIDE DEF p2
  <2>c. y.v = a.v /\ y.p = p2
    BY DEF On
  <2>7. CASE a.clst # 0
    <3>1. a.clst \in Cluster /\ Lies(0, a.clst, t)
      BY <2>4, <2>7
    <3>2. First(t) = a.clst
      BY <2>4, <3>1, LiesFirst
    <3>3. Works(y, With(ch, f, t, Nil), K, f)
      <4>1. p2.sclust = First(t) /\ (p2.dirty => p2.dsect \in DataSector \ K.sects)
        BY <1>1, <2>6, <3>2
      <4> QED BY <2>3, <2>6, <4>1, ReachedWorks
    <3>4. 0+1 \in 1 .. Len(t) /\ a.clst = t[0+1]
      BY <2>2, <3>1, LiesAt
    <3> HIDE DEF y
    <3>5. r.s = y /\ r.ofs = ofs /\ r = [s |-> r.s, ofs |-> r.ofs]
      OBVIOUS
    <3> HIDE DEF r
    <3>6. AtCluster(p2, t, 0)
      BY <2>2, <2>6, <3>4 DEF AtCluster
    <3>7. t # g => 0 >= Len(g)
      <4> SUFFICES ASSUME t # g PROVE 0 >= Len(g)
        OBVIOUS
      <4>1. bcs * Len(g) <= 0
        BY <2>4
      <4> SUFFICES ASSUME Len(g) > 0 PROVE FALSE
        BY <1>1
      <4>2. 1 \in Nat /\ 1 <= Len(g)
        BY <1>1
      <4>3. bcs * 1 <= bcs * Len(g)
        BY <1>1, <4>2, Sizes1, Mul
      <4> DEFINE w == bcs * Len(g)
      <4>4. w \in Nat /\ w <= 0 /\ bcs <= w
        <5>1. bcs * Len(g) \in Nat
          BY <1>1, Sizes1, Mul
        <5>2. bcs * 1 = bcs
          BY Sizes1
        <5> QED BY <4>1, <4>3, <5>1, <5>2
      <4> HIDE DEF w
      <4> QED BY <4>4, Sizes1
    <3>8. ~p2.wr => p2.fptr + ofs <= bcs * Len(t)
      <4> SUFFICES ASSUME ~p2.wr PROVE p2.fptr + ofs <= bcs * Len(t)
        OBVIOUS
      <4>1. ofs <= bcs * Len(g)
        BY <2>6 DEF SameButPlace
      <4>2. ofs <= bcs * Len(t)
        BY <1>1, <2>4, <4>1, LongEnough
      <4>3. p2.fptr + ofs = ofs
        BY <2>6
      <4> QED BY <4>2, <4>3
    <3>9. Following(s, ch, K, f, r, t)
      <4>1. r.ofs \in Nat /\ r.ofs > 0
        BY <1>9, <3>5
      <4>2. \E q : AtCluster(r.s.p, t, q) /\ (t # ch[f] => q >= Len(ch[f]))
        BY <2>c, <3>5, <3>6, <3>7
      <4>3. ~r.s.p.wr => r.s.p.fptr + r.ofs <= bcs * Len(t)
        BY <2>c, <3>5, <3>8
      <4> QED BY <2>4, <2>6, <2>c, <3>3, <3>5, <4>1, <4>2, <4>3 DEF Following
    <3>10. Following(s, ch, K, f, [s |-> y, ofs |-> ofs], t)
      BY <3>9 DEF r
    <3>11. \E t2 : Came(s, ch, K, f, SeekOn(y, ofs), t2)
      BY <1>1, <3>10, SeekOnComes
    <3> QED BY <2>1, <2>7, <3>11 DEF z
  <2>8. CASE a.clst = 0
    <3>1. t = g /\ Quiet(s.v, a.v)
      BY <2>4, <2>8, NoCluster
    <3>2. First(g) = 0
      <4> SUFFICES ASSUME First(g) # 0 PROVE FALSE
        OBVIOUS
      <4>1. a.clst = s.p.sclust
        BY <1>1 DEF FirstCluster, a
      <4> QED BY <1>1, <2>8, <4>1
    <3>3. Works(y, With(ch, f, t, Nil), K, f)
      <4>1. p2.sclust = First(t) /\ (p2.dirty => p2.dsect \in DataSector \ K.sects)
        BY <1>1, <2>6, <2>8, <3>1, <3>2
      <4> QED BY <2>3, <2>6, <4>1, ReachedWorks
    <3> HIDE DEF y
    <3>4. Placed(y.p, t)
      <4>1. 0 % SS = 0
        BY <2>2 DEF At
      <4> QED BY <2>6, <2>c, <4>1 DEF Placed
    <3>5. /\ y.p.wr = s.p.wr /\ y.p.written = s.p.written /\ y.p.slot = s.p.slot /\ y.p.fsize = s.p.fsize
          /\ y.p.dirty = s.p.dirty
      BY <2>6, <2>c DEF SameButPlace
    <3>6. \A c \in Contents : Holding(s, g, c) => Holding(y, t, c)
      <4>1. y.p.dirty = s.p.dirty /\ y.p.dsect = s.p.dsect /\ y.p.buf = s.p.buf /\ y.v.disk.data = s.v.disk.data
        BY <2>4, <2>6, <2>c
      <4> QED BY <3>1, <4>1, HoldingSame
    <3>7. Came(s, ch, K, f, y, t)
      BY <2>4, <2>c, <3>1, <3>3, <3>4, <3>5, <3>6 DEF Came
    <3> QED BY <2>1, <2>8, <3>7 DEF z
  <2> QED BY <2>7, <2>8
<1> QED BY <1>7, <1>8, <1>9
-----------------------------------------------------------------------------
\* A byte of the clusters of a file is in one of them.
LEMMA InLength ==
    ASSUME NEW x, NEW q, NEW k, NEW r, At(x, q, k, r), NEW n \in Nat, x < bcs * n
    PROVE  q+1 \in 1 .. n
<1>1. q \in Nat /\ bcs * q <= x /\ bcs * q \in Nat /\ x \in Nat
  BY AtParts
<1>2. SUFFICES ASSUME n <= q PROVE FALSE
  BY <1>1
<1>3. bcs * n <= bcs * q /\ bcs * n \in Nat
  BY <1>1, <1>2, Sizes1, Mul
<1> DEFINE a == bcs * n
           b == bcs * q
<1>4. a \in Nat /\ b \in Nat /\ a <= b /\ b <= x /\ x < a
  BY <1>1, <1>3
<1> HIDE DEF a, b
<1> QED BY <1>1, <1>4

\* t is s where the next byte can be read.
Ready(s, t, g) ==
    /\ Quiet(s.v, t.v) /\ SameButPlace(s.p, t.p) /\ t.p.fptr = s.p.fptr
    /\ Lies(s.p.fptr, t.p.clust, g)
    /\ s.p.fptr % SS # 0 => t.p.dsect = CurrentSector(t.p)

LEMMA ReadyAs ==
    ASSUME NEW s, NEW ch, NEW K, NEW f \in Names, Works(s, ch, K, f), NEW w, Quiet(s.v, w),
           NEW c \in Cluster, Lies(s.p.fptr, c, ch[f]),
           s.p.fptr % SS # 0 => c = s.p.clust /\ s.p.dsect = CurrentSector(s.p)
    PROVE  LET t == On(w, [s.p EXCEPT !.clust = c])
           IN  Works(t, ch, K, f) /\ Ready(s, t, ch[f])
<1> DEFINE p == [s.p EXCEPT !.clust = c]
           t == On(w, p)
<1>1. s.p \in FilRec /\ s.v.disk.data = s.v.disk.data
  BY WorksFacts
<1>2. /\ p \in FilRec /\ p.sclust = s.p.sclust /\ p.clust = c /\ p.fptr = s.p.fptr /\ p.dirty = s.p.dirty
      /\ p.dsect = s.p.dsect /\ SameButPlace(s.p, p)
  BY <1>1 DEF FilRec, SameButPlace
<1>3. t.v = w /\ t.p = p
  BY DEF On
<1> HIDE DEF p
<1>4. Works(On(w, s.p), ch, K, f)
  BY WorksQuiet
<1> DEFINE o == On(w, s.p)
<1>5. o.v = w /\ o.p = s.p
  BY DEF On
<1>6. p.dirty => p.dsect \in DataSector \ K.sects
  BY <1>2 DEF Works
<1> HIDE DEF o
<1>7. Works(On(o.v, p), ch, K, f)
  BY <1>2, <1>4, <1>5, <1>6, WorksOn DEF o
<1>8. Works(t, ch, K, f)
  BY <1>5, <1>7
<1>9. s.p.fptr % SS # 0 => p.dsect = CurrentSector(p)
  BY <1>2 DEF CurrentSector, SectorOfCluster
<1>10. Ready(s, t, ch[f])
  BY <1>2, <1>3, <1>9 DEF Ready
<1> QED BY <1>8, <1>10 DEF t, p

\* The cluster in which f_read goes on.
LEMMA ReadClusterWorks ==
    ASSUME NEW s, NEW ch, NEW K, NEW f \in Names, Works(s, ch, K, f), Placed(s.p, ch[f]),
           s.p.fptr < bcs * Len(ch[f])
    PROVE  Works(ReadCluster(s), ch, K, f) /\ Ready(s, ReadCluster(s), ch[f])
<1> DEFINE x == s.p.fptr
           g == ch[f]
           here == x % SS # 0 \/ SectorOfCluster(s.p) # 0
           w == IF here \/ x = 0 THEN s.v ELSE seek_fat(s.v, s.p.clust)
           c == CASE here -> s.p.clust
                  [] ~here /\ x = 0 -> s.p.sclust
                  [] OTHER -> w.fat[s.p.clust]
           t == ReadCluster(s)
<1>1. /\ s.p \in FilRec /\ g \in Seq(Cluster) /\ Len(g) \in Nat /\ s.p.sclust = First(g)
      /\ Path(s.v.fat, g) /\ Good(s.v, ch, K)
  BY WorksFacts
<1>2. x \in Nat
  BY <1>1, FilFacts
<1>3. PICK q, k, r : At(x, q, k, r)
  BY <1>2, AtExists
<1>4. r = x % SS /\ SectorOfCluster(s.p) = k /\ q \in Nat /\ k \in Nat /\ q+1 \in 1 .. Len(g)
      /\ bcs * q <= x /\ x < bcs * q + bcs
  <2>1. q+1 \in 1 .. Len(g)
    BY <1>1, <1>3, InLength
  <2>2. r = x % SS /\ SectorOfCluster(s.p) = k
    BY <1>3 DEF At, SectorOfCluster
  <2> QED BY <1>3, <2>1, <2>2, AtParts
<1>5. t = On(w, [s.p EXCEPT !.clust = c])
  BY DEF ReadCluster
<1>6. x = 0 => q = 0 /\ k = 0 /\ r = 0
  <2>1. At(bcs * 0 + SS * 0 + 0, 0, 0, 0) /\ bcs * 0 + SS * 0 + 0 = 0
    BY AtOf, Sizes1
  <2> QED BY <1>3, <2>1, AtOnce
<1>7. x > 0 => IF k = 0 /\ r = 0 THEN q \in 1 .. Len(g) /\ s.p.clust = g[q]
                        ELSE q+1 \in 1 .. Len(g) /\ s.p.clust = g[q+1]
  <2> SUFFICES ASSUME x > 0 PROVE IF k = 0 /\ r = 0 THEN q \in 1 .. Len(g) /\ s.p.clust = g[q]
                                           ELSE q+1 \in 1 .. Len(g) /\ s.p.clust = g[q+1]
    OBVIOUS
  <2>1. Lies(x-1, s.p.clust, g)
    BY DEF Placed
  <2> HIDE DEF x, g
  <2> QED BY <1>1, <1>2, <1>3, <2>1, LiesNext
<1>8. here <=> r # 0 \/ k # 0
  BY <1>4
<1> HIDE DEF here, t
<1>9. c = g[q+1] /\ (r # 0 => c = s.p.clust /\ s.p.dsect = CurrentSector(s.p)) /\ Quiet(s.v, w)
  <2>1. CASE here
    <3>1. c = s.p.clust /\ w = s.v
      BY <2>1
    <3>2. x > 0 /\ ~(k = 0 /\ r = 0)
      BY <1>2, <1>6, <1>8, <2>1
    <3>3. s.p.clust = g[q+1]
      BY <1>7, <3>2
    <3>4. r # 0 => s.p.dsect = CurrentSector(s.p)
      BY <1>4 DEF Placed
    <3> QED BY <3>1, <3>3, <3>4, QuietSame
  <2>2. CASE ~here /\ x = 0
    <3>1. c = s.p.sclust /\ w = s.v
      BY <2>2
    <3>2. r = 0 /\ q = 0
      BY <1>6, <2>2
    <3>3. s.p.sclust = g[q+1]
      <4>1. First(g) = g[1]
        BY <1>1, <1>4, FirstIs
      <4>2. q+1 = 1
        BY <3>2
      <4> QED BY <1>1, <4>1, <4>2
    <3> QED BY <3>1, <3>2, <3>3, QuietSame
  <2>3. CASE ~here /\ x # 0
    <3>1. c = w.fat[s.p.clust] /\ w = seek_fat(s.v, s.p.clust)
      BY <2>3
    <3>2. r = 0 /\ k = 0 /\ x > 0
      BY <1>2, <1>8, <2>3
    <3>3. q \in 1 .. Len(g) /\ s.p.clust = g[q]
      BY <1>7, <3>2
    <3>4. q \in 1 .. Len(g)-1 /\ g[q] \in Cluster
      BY <1>1, <1>4, <3>3, ListFacts
    <3>5. s.v.fat[g[q]] = g[q+1]
      BY <1>1, <3>4, PathFacts
    <3>6. Quiet(s.v, w) /\ w.fat = s.v.fat
      BY <1>1, <3>1, <3>3, <3>4, SeekQuiet
    <3> QED BY <3>1, <3>2, <3>3, <3>5, <3>6
  <2> QED BY <2>1, <2>2, <2>3
<1> HIDE DEF c, w
<1>10. Lies(x, g[q+1], g) /\ g[q+1] \in Cluster
  <2> HIDE DEF x, g
  <2> QED BY <1>1, <1>2, <1>3, <1>4, LiesOn, ListFacts
<1>11. Works(On(w, [s.p EXCEPT !.clust = c]), ch, K, f) /\ Ready(s, On(w, [s.p EXCEPT !.clust = c]), ch[f])
  <2>1. c \in Cluster /\ Lies(s.p.fptr, c, ch[f])
    BY <1>9, <1>10
  <2>2. s.p.fptr % SS # 0 => c = s.p.clust /\ s.p.dsect = CurrentSector(s.p)
    BY <1>4, <1>9
  <2> QED BY <1>9, <2>1, <2>2, ReadyAs
<1> QED BY <1>5, <1>11 DEF t
-----------------------------------------------------------------------------
LEMMA DivIs ==
    ASSUME NEW w \in Nat \ {0}, NEW x \in Nat, NEW q \in Nat, NEW r \in 0 .. w-1, x = w * q + r
    PROVE  x \div w = q /\ x % w = r
<1> DEFINE h == x \div w
           m == x % w
<1>1. h \in Nat /\ m \in 0 .. w-1 /\ x = w * h + m
  BY WrapIs
<1> HIDE DEF h, m
<1>2. w \in Nat /\ w * h \in Nat /\ w * q \in Nat
  BY <1>1, Mul
<1>3. w * h <= x /\ x < w * h + w /\ w * q <= x /\ x < w * q + w
  <2> DEFINE a == w * h
             b == w * q
  <2>1. a \in Nat /\ b \in Nat /\ x = a + m /\ x = b + r
    BY <1>1, <1>2
  <2> HIDE DEF a, b
  <2>2. a <= x /\ x < a + w /\ b <= x /\ x < b + w
    BY <1>1, <1>2, <2>1
  <2> QED BY <2>2 DEF a, b
<1>4. h = q
  BY <1>1, <1>2, <1>3, OneQuotient
<1>5. m = r
  BY WrapUnique DEF m
<1> QED BY <1>4, <1>5 DEF h, m

\* Where the pointer comes to within its cluster.
Points(p, y, c, X) == p.fptr = y /\ p.clust = c /\ p.dsect = X
LEMMA PlacedOn ==
    ASSUME NEW x, NEW q, NEW k, NEW at, At(x, q, k, at), NEW g, q+1 \in 1 .. Len(g),
           NEW n \in Nat, n > 0, at + n <= SS,
           NEW p, Points(p, x + n, g[q+1], clust2sect(g[q+1]) + k)
    PROVE  Placed(p, g)
<1>4. /\ x \in Nat /\ at \in Nat /\ SS * k \in Nat /\ bcs * q \in Nat /\ SS * k + SS <= bcs
      /\ x = bcs * q + SS * k + at
  BY AtParts
<1>5. SS \in Nat /\ SS > 0 /\ bcs \in Nat
  BY Sizes1
<1>x. x \in Nat /\ x+n \in Nat
  BY <1>4
<1>1. x+n > 0 /\ Lies(x+n-1, g[q+1], g)
  <2> DEFINE i == bcs * q
             j == SS * k
  <2>1. /\ i \in Nat /\ j \in Nat /\ x = i + j + at /\ j + SS <= bcs /\ x \in Nat /\ at \in Nat
        /\ n \in Nat /\ n > 0 /\ at + n <= SS
    BY <1>4
  <2> HIDE DEF i, j
  <2>2. x+n-1 \in Nat /\ i <= x+n-1 /\ x+n-1 < i + bcs
    <3>1. \A a, b, c, m, S, B \in Nat : m > 0 /\ c + m <= S /\ b + S <= B
             => /\ (a+b+c)+m-1 \in Nat /\ a <= (a+b+c)+m-1 /\ (a+b+c)+m-1 < a+B
      OBVIOUS
    <3> QED BY <1>5, <2>1, <3>1
  <2>3. Lies(x+n-1, g[q+1], g)
    BY <2>2, LiesOn DEF i
  <2> QED BY <1>4, <2>3
<1>2. ASSUME (x+n) % SS # 0 PROVE p.dsect = CurrentSector(p)
  <2>1. CASE at + n < SS
    <3>1. At(x+n, q, k, at+n)
      BY <2>1, AtByte
    <3>2. ((x+n) \div SS) % CSize = k
      BY <3>1 DEF At
    <3> QED BY <3>2 DEF Points, CurrentSector, SectorOfCluster
  <2>2. CASE at + n = SS
    <3>0. x % SS = at
      BY DEF At
    <3>1. (x+n) % SS = 0
      BY <1>x, <3>0, <2>2, EndOfSector
    <3> QED BY <1>2, <3>1
  <2> QED BY <1>4, <1>5, <2>1, <2>2
<1>3. Lies(p.fptr-1, p.clust, g)
  <2>0. p.fptr = x+n /\ p.clust = g[q+1]
    BY DEF Points
  <2>1. p.fptr-1 = x+n-1
    BY <1>x, <1>4, <2>0
  <2> QED BY <1>1, <2>0, <2>1, Zenon
<1>6. p.fptr % SS # 0 => p.dsect = CurrentSector(p)
  BY <1>2 DEF Points
<1> QED BY <1>3, <1>6 DEF Placed

-----------------------------------------------------------------------------
\* The bytes got are those the file holds from the pointer of s up to that of u.
Took(s, g, u, got) ==
    /\ got \in Contents /\ Len(got) \in Nat /\ u.p.fptr = s.p.fptr + Len(got)
    /\ \A c \in Contents : Holding(s, g, c) /\ Len(c) <= bcs * Len(g) /\ s.p.fptr + Len(got) <= Len(c) =>
          \A j \in 1 .. Len(got) : c[s.p.fptr + j] # Blank => got[j] = c[s.p.fptr + j]

Took2(s, ch, K, f, u, got) == Came(s, ch, K, f, u, ch[f]) /\ Took(s, ch[f], u, got)

LEMMA JoinIs ==
    ASSUME NEW a \in Contents, NEW b \in Contents
    PROVE  /\ a \o b \in Contents /\ Len(a \o b) = Len(a) + Len(b) /\ Len(a) \in Nat /\ Len(b) \in Nat
           /\ \A j \in 1 .. Len(a) : (a \o b)[j] = a[j]
           /\ \A j \in 1 .. Len(b) : (a \o b)[Len(a) + j] = b[j]
  BY DEF Contents

LEMMA CameTwice ==
    ASSUME NEW s, NEW ch, NEW K, NEW f \in Names, Works(s, ch, K, f), NEW g, g = ch[f],
           NEW u, Came(s, ch, K, f, u, g), NEW w, Came(u, ch, K, f, w, g)
    PROVE  Came(s, ch, K, f, w, g)
<1>1. g \in Seq(Cluster) /\ Extends(g, g)
  BY WorksFacts, ExtendsFacts
<1>2. Still(s.v, w.v)
  BY DEF Came, Still
<1>3. /\ w.p.wr = s.p.wr /\ w.p.written = s.p.written /\ w.p.slot = s.p.slot /\ w.p.fsize = s.p.fsize
  BY DEF Came
<1>4. ~s.p.dirty => ~w.p.dirty /\ Quiet(s.v, w.v)
  BY QuietTwice DEF Came
<1>5. \A c \in Contents : Holding(s, g, c) /\ Len(c) <= bcs * Len(g) => Holding(w, g, c)
  BY DEF Came
<1>6. Works(w, With(ch, f, g, Nil), K, f) /\ Placed(w.p, g)
  BY DEF Came
<1> QED BY <1>1, <1>2, <1>3, <1>4, <1>5, <1>6 DEF Came

LEMMA TookTwice ==
    ASSUME NEW s, NEW ch, NEW K, NEW f \in Names, Works(s, ch, K, f),
           NEW u, NEW a, Took2(s, ch, K, f, u, a), NEW w, NEW b, Took2(u, ch, K, f, w, b)
    PROVE  Took2(s, ch, K, f, w, a \o b)
<1> DEFINE o == a \o b
           g == ch[f]
           x == s.p.fptr
<1>1. /\ a \in Contents /\ b \in Contents /\ Len(a) \in Nat /\ Len(b) \in Nat
      /\ u.p.fptr = x + Len(a) /\ w.p.fptr = u.p.fptr + Len(b)
  BY DEF Took2, Took
<1>2. /\ o \in Contents /\ Len(o) = Len(a) + Len(b)
      /\ \A j \in 1 .. Len(a) : o[j] = a[j]
      /\ \A j \in 1 .. Len(b) : o[Len(a) + j] = b[j]
  BY <1>1, JoinIs
<1>3. s.p \in FilRec
  BY WorksFacts
<1>4. x \in Nat
  BY <1>3, FilFacts
<1> HIDE DEF o, x, g
<1>5. ASSUME NEW c \in Contents, Holding(s, g, c), Len(c) <= bcs * Len(g), x + Len(o) <= Len(c),
             NEW j \in 1 .. Len(o), c[x + j] # Blank
      PROVE  o[j] = c[x + j]
  <2>0. Len(c) \in Nat
    BY ContentsFacts
  <2>1. CASE j <= Len(a)
    <3>1. x + Len(a) <= Len(c) /\ j \in 1 .. Len(a)
      BY <1>1, <1>2, <1>4, <1>5, <2>0, <2>1
    <3>2. a[j] = c[x + j]
      BY <1>5, <3>1 DEF Took2, Took, x, g
    <3> QED BY <1>2, <3>1, <3>2
  <2>2. CASE j > Len(a)
    <3> DEFINE i == j - Len(a)
    <3>1. i \in 1 .. Len(b) /\ j = Len(a) + i /\ x + j = u.p.fptr + i /\ u.p.fptr + Len(b) <= Len(c)
      BY <1>1, <1>2, <1>4, <1>5, <2>0, <2>2
    <3> HIDE DEF i
    <3>2. Holding(u, g, c)
      BY <1>5 DEF Took2, Came, g
    <3>3. b[i] = c[u.p.fptr + i]
      BY <1>5, <3>1, <3>2 DEF Took2, Took, g
    <3>4. o[j] = b[i]
      BY <1>2, <3>1
    <3> QED BY <3>1, <3>3, <3>4
  <2> QED BY <1>1, <1>2, <2>1, <2>2
<1>6. w.p.fptr = x + Len(o) /\ Len(o) \in Nat
  BY <1>1, <1>2, <1>4
<1>7. Took(s, g, w, o)
  BY <1>2, <1>5, <1>6 DEF Took, x
<1>8. Came(s, ch, K, f, w, g)
  BY CameTwice DEF Took2, g
<1> QED BY <1>7, <1>8 DEF Took2, o, g

\* What is got from where the next byte can be read.
LEMMA ReadyThen ==
    ASSUME NEW s, NEW ch, NEW K, NEW f \in Names, Works(s, ch, K, f), NEW t, Works(t, ch, K, f),
           Ready(s, t, ch[f]), NEW u, NEW a, Took2(t, ch, K, f, u, a)
    PROVE  Took2(s, ch, K, f, u, a)
<1> DEFINE g == ch[f]
<1>1. /\ Quiet(s.v, t.v) /\ SameButPlace(s.p, t.p) /\ t.p.fptr = s.p.fptr
  BY DEF Ready
<1>2. \A c \in Contents : Holding(s, g, c) => Holding(t, g, c)
  <2>1. t.v.disk.data = s.v.disk.data
    BY <1>1 DEF Quiet, Alike
  <2> QED BY <1>1, <2>1, HoldingSame DEF SameButPlace
<1>3. g \in Seq(Cluster) /\ Extends(g, g)
  BY WorksFacts, ExtendsFacts
<1> HIDE DEF g
<1>4. Came(t, ch, K, f, u, g) /\ Took(t, g, u, a)
  BY DEF Took2, g
<1>5. Still(s.v, u.v)
  BY <1>1, <1>4 DEF Came, Still, Quiet, Alike
<1>6. /\ u.p.wr = s.p.wr /\ u.p.written = s.p.written /\ u.p.slot = s.p.slot /\ u.p.fsize = s.p.fsize
  BY <1>1, <1>4 DEF Came, SameButPlace
<1>7. ~s.p.dirty => ~u.p.dirty /\ Quiet(s.v, u.v)
  BY <1>1, <1>4, QuietTwice DEF Came, SameButPlace, g
<1>8. \A c \in Contents : Holding(s, g, c) /\ Len(c) <= bcs * Len(g) => Holding(u, g, c)
  BY <1>2, <1>4 DEF Came, g
<1>9. Works(u, With(ch, f, g, Nil), K, f) /\ Placed(u.p, g)
  BY <1>4 DEF Came
<1>10. Came(s, ch, K, f, u, ch[f])
  BY <1>3, <1>5, <1>6, <1>7, <1>8, <1>9 DEF Came, g
<1>11. Took(s, g, u, a)
  BY <1>1, <1>2, <1>4 DEF Took
<1> QED BY <1>10, <1>11 DEF Took2, g
-----------------------------------------------------------------------------
\* The pointer goes on and nothing else changes.
LEMMA PointerOn ==
    ASSUME NEW s, NEW ch, NEW K, NEW f \in Names, Works(s, ch, K, f), NEW y \in Nat, NEW p,
           p = [s.p EXCEPT !.fptr = y], Placed(p, ch[f])
    PROVE  LET u == On(s.v, p) IN Came(s, ch, K, f, u, ch[f]) /\ u.p.fptr = y
<1> DEFINE u == On(s.v, p)
           g == ch[f]
<1>1. /\ s.p \in FilRec /\ g \in Seq(Cluster) /\ With(ch, f, g, Nil) = ch
  BY WorksFacts
<1>2. /\ p \in FilRec /\ p.sclust = s.p.sclust /\ p.dirty = s.p.dirty /\ p.dsect = s.p.dsect
      /\ p.fptr = y /\ p.clust = s.p.clust /\ SameButPlace(s.p, p)
  BY <1>1 DEF FilRec, SameButPlace
<1>3. p.dirty => p.dsect \in DataSector \ K.sects
  BY <1>2 DEF Works
<1>4. Works(u, ch, K, f)
  BY <1>2, <1>3, WorksOn
<1>5. u.v = s.v /\ u.p = p
  BY DEF On
<1> HIDE DEF u
<1>6. \A c \in Contents : Holding(s, g, c) => Holding(u, g, c)
  <2>1. u.p.dirty = s.p.dirty /\ u.p.dsect = s.p.dsect /\ u.p.buf = s.p.buf /\ u.v.disk.data = s.v.disk.data
    BY <1>2, <1>5 DEF SameButPlace
  <2> QED BY <2>1, HoldingSame
<1>7. Extends(g, g) /\ Still(s.v, u.v) /\ Quiet(s.v, u.v)
  BY <1>1, <1>5, ExtendsFacts, QuietSame DEF Still
<1>8. Came(s, ch, K, f, u, g)
  BY <1>1, <1>2, <1>4, <1>5, <1>6, <1>7 DEF Came, SameButPlace
<1> QED BY <1>2, <1>5, <1>8 DEF u, g

\* Whole sectors are read past the buffer.
LEMMA ReadSectorsTook ==
    ASSUME NEW s, NEW ch, NEW K, NEW f \in Names, Works(s, ch, K, f),
           Lies(s.p.fptr, s.p.clust, ch[f]), NEW q, NEW k, At(s.p.fptr, q, k, 0),
           NEW cc \in Nat, cc > 0, k + cc <= CSize
    PROVE  Took2(s, ch, K, f, [s EXCEPT !.p.fptr = @ + cc*SS], ReadSectors(s, cc))
<1> DEFINE u == [s EXCEPT !.p.fptr = @ + cc*SS]
           x == s.p.fptr
           y == x + cc*SS
           g == ch[f]
           p == [s.p EXCEPT !.fptr = y]
           X0 == CurrentSector(s.p)
           n == cc*SS
           sector(z) == IF s.p.dirty /\ s.p.dsect = z THEN s.p.buf ELSE s.v.disk.data[z]
           got == ReadSectors(s, cc)
<1>1. /\ s.p \in FilRec /\ g \in Seq(Cluster) /\ s.v.disk.data \in DataAreas /\ Path(s.v.fat, g)
      /\ Len(g) \in Nat /\ s = [v |-> s.v, p |-> s.p]
  BY WorksFacts
<1>2. /\ k \in 0 .. CSize-1 /\ k \in Nat /\ q \in Nat /\ q+1 \in 1 .. Len(g) /\ s.p.clust = g[q+1] /\ x \in Nat
      /\ x % SS = 0 /\ (x \div SS) % CSize = k
  BY LiesAt, AtParts DEF At
<1>3. X0 = clust2sect(g[q+1]) + k
  BY <1>2 DEF CurrentSector, SectorOfCluster
<1>4. n \in Nat /\ y \in Nat /\ y % SS = 0
  BY <1>2, SectorBoundary
<1>5. u = On(s.v, p)
  BY <1>1 DEF On, FilRec
<1>6. p.fptr = y /\ p.clust = s.p.clust
  BY <1>1 DEF FilRec
<1>7. Placed(p, g)
  <2>1. n > 0
    <3>1. SS * 1 <= SS * cc /\ SS * 1 = SS /\ SS * cc = cc * SS
      BY Sizes1, Mul
    <3> QED BY <3>1, <1>4, Sizes1
  <2>2. y <= bcs*q + bcs /\ bcs*q <= x
    <3>1. At(x, q, k, 0)
      OBVIOUS
    <3> HIDE DEF x
    <3>2. x + cc*SS <= bcs*q + bcs
      BY <3>1, Stretch
    <3>3. bcs * q <= x
      BY <3>1, AtParts
    <3> QED BY <3>2, <3>3
  <2> HIDE DEF x, n, p
  <2>3. y-1 \in Nat /\ bcs*q <= y-1 /\ y-1 < bcs*q + bcs /\ y > 0
    <3> DEFINE a == bcs*q
    <3>1. a \in Nat /\ y = x + n /\ a <= x /\ y <= a + bcs
      BY <1>2, <2>2, AtStart DEF n
    <3> HIDE DEF a, y
    <3>2. y-1 \in Nat /\ a <= y-1 /\ y-1 < a + bcs /\ y > 0
      BY <1>2, <1>4, <2>1, <3>1, Sizes1
    <3> QED BY <3>2 DEF a
  <2>4. Lies(y-1, g[q+1], g)
    BY <1>2, <2>3, LiesOn DEF x
  <2> HIDE DEF y
  <2> QED BY <1>2, <1>4, <1>6, <2>4, Zenon DEF Placed
<1> HIDE DEF p, u
<1>8. Came(s, ch, K, f, u, g) /\ u.p.fptr = y
  BY <1>4, <1>5, <1>7, PointerOn DEF p
<1>9. got = [j \in 1 .. n |-> sector(X0 + ((j-1) \div SS))[(j-1) % SS]]
  BY DEF ReadSectors
<1> DEFINE place(j) == \E jj \in Nat, e \in 0 .. SS-1 :
              /\ At(x + (j-1), q, jj, e) /\ jj \in 0 .. CSize-1 /\ k <= jj
              /\ (j-1) \div SS = jj - k /\ (j-1) % SS = e
              /\ X0 + (jj - k) = clust2sect(g[q+1]) + jj
<1>10. \A j \in 1 .. n : place(j)
  <2> SUFFICES ASSUME NEW j \in 1 .. n PROVE place(j)
    OBVIOUS
  <2> DEFINE b == x + (j-1)
  <2>n. n \in Nat /\ x \in Nat
    BY <1>2, <1>4
  <2> HIDE DEF n, g, X0, x
  <2>1. j-1 \in Nat /\ b \in Nat /\ x <= b /\ b < x + n
    BY <2>n
  <2> USE DEF x
  <2>2. PICK i, jj, e : At(b, i, jj, e)
    BY <2>1, AtExists
  <2>3. i = q /\ k <= jj /\ jj < k + cc
    <3>1. (x <= b /\ b < x + cc*SS) <=> (i = q /\ k <= jj /\ jj < k + cc)
      <4>1. At(x, q, k, 0)
        OBVIOUS
      <4> HIDE DEF x, b
      <4> QED BY <2>2, <4>1, Stretch
    <3> QED BY <2>1, <3>1 DEF n
  <2>4. jj \in 0 .. CSize-1 /\ jj \in Nat /\ e \in 0 .. SS-1 /\ e \in Nat
    BY <2>2, AtParts DEF At
  <2>5. b = bcs*q + SS*jj + e /\ x = bcs*q + SS*k
    <3>1. x = bcs*q + SS*k + 0
      BY AtParts
    <3>2. b = bcs*i + SS*jj + e
      BY <2>2, AtParts
    <3>3. bcs*q + SS*k + 0 = bcs*q + SS*k
      <4>1. bcs*q \in Nat /\ SS*k \in Nat
        BY <1>2, Sizes1, Mul
      <4> QED BY <4>1
    <3> HIDE DEF x, b
    <3> QED BY <2>3, <3>1, <3>2, <3>3
  <2> DEFINE h == jj - k
  <2>6. h \in Nat /\ jj = h + k
    BY <1>2, <2>3, <2>4
  <2> HIDE DEF h
  <2>7. SS*jj = SS*h + SS*k /\ SS*h \in Nat /\ SS*k \in Nat /\ bcs*q \in Nat
    BY <1>2, <2>6, Sizes1, Mul
  <2>8. j-1 = SS*h + e
    <3> DEFINE A == bcs*q
               B == SS*h
               C == SS*k
               D == SS*jj
    <3>1. A \in Nat /\ B \in Nat /\ C \in Nat /\ D = B + C /\ b = A + D + e /\ x = A + C
      BY <2>5, <2>7
    <3> HIDE DEF A, B, C, D
    <3>2. b - x = B + e
      BY <2>4, <3>1
    <3>3. b - x = j-1
      BY <1>2, <2>1
    <3> QED BY <3>2, <3>3 DEF B
  <2>9. (j-1) \div SS = h /\ (j-1) % SS = e
    BY <2>1, <2>4, <2>6, <2>8, Sizes1, DivIs
  <2>10. X0 + h = clust2sect(g[q+1]) + jj
    <3>1. clust2sect(g[q+1]) \in Nat
      BY <1>1, <1>2, ListFacts, SectorIn DEF g
    <3> HIDE DEF g
    <3> QED BY <1>2, <1>3, <2>4, <2>6, <3>1
  <2> HIDE DEF x
  <2> QED BY <2>2, <2>3, <2>4, <2>9, <2>10 DEF h
<1> HIDE DEF got, x, g, X0, n, sector, y
<1>11. \A j \in 1 .. n : got[j] \in Data \cup {Blank}
  <2> SUFFICES ASSUME NEW j \in 1 .. n PROVE got[j] \in Data \cup {Blank}
    OBVIOUS
  <2>1. PICK jj \in Nat, e \in 0 .. SS-1 :
              /\ At(x + (j-1), q, jj, e) /\ jj \in 0 .. CSize-1 /\ k <= jj
              /\ (j-1) \div SS = jj - k /\ (j-1) % SS = e
              /\ X0 + (jj - k) = clust2sect(g[q+1]) + jj
    BY <1>10
  <2>2. got[j] = sector(clust2sect(g[q+1]) + jj)[e]
    BY <1>9, <2>1
  <2>3. clust2sect(g[q+1]) + jj \in DataSector
    BY <1>2, <2>1, SectorFacts DEF g
  <2>4. sector(clust2sect(g[q+1]) + jj) \in Buffers
    BY <1>1, <2>3 DEF sector, FilRec, DataAreas
  <2> QED BY <2>1, <2>2, <2>4 DEF Buffers
<1>12. got \in Contents /\ Len(got) = n
  <2>1. got \in [1 .. n -> Data \cup {Blank}]
    BY <1>9, <1>11
  <2> QED BY <1>4, <2>1, ListOf DEF Contents
<1>13. ASSUME NEW c \in Contents, Holding(s, g, c), x + n <= Len(c), NEW j \in 1 .. n, c[x + j] # Blank
       PROVE  got[j] = c[x + j]
  <2>1. PICK jj \in Nat, e \in 0 .. SS-1 :
              /\ At(x + (j-1), q, jj, e) /\ jj \in 0 .. CSize-1 /\ k <= jj
              /\ (j-1) \div SS = jj - k /\ (j-1) % SS = e
              /\ X0 + (jj - k) = clust2sect(g[q+1]) + jj
    BY <1>10
  <2> DEFINE X == clust2sect(g[q+1]) + jj
             b == x + (j-1)
  <2>2. got[j] = sector(X)[e]
    BY <1>9, <2>1
  <2>3. InSector(g, b, X, e)
    BY <1>2, <2>1 DEF InSector
  <2>4. b+1 = x + j /\ b \in 0 .. Len(c)-1
    <3>1. Len(c) \in Nat
      BY ContentsFacts
    <3>2. x \in Nat /\ n \in Nat
      BY <1>2, <1>4
    <3>3. x + n <= Len(c) /\ j \in 1 .. n
      BY <1>13
    <3> QED BY <3>1, <3>2, <3>3
  <2> HIDE DEF X, b
  <2>5. Has(s, X, e, c[b+1])
    BY <1>13, <2>3, <2>4 DEF Holding
  <2>6. sector(X)[e] = c[b+1]
    BY <2>5 DEF Has, sector
  <2> QED BY <2>2, <2>4, <2>6
<1>14. Took(s, g, u, got)
  BY <1>4, <1>8, <1>12, <1>13 DEF Took, y, n, x
<1> QED BY <1>8, <1>14 DEF Took2, u, got, g
-----------------------------------------------------------------------------
\* A part of the sector in the buffer is read.
PartOf(u, at, n) == [j \in 1 .. n |-> u.p.buf[at + j - 1]]

LEMMA ReadPartTook ==
    ASSUME NEW s, NEW ch, NEW K, NEW f \in Names, Works(s, ch, K, f),
           Lies(s.p.fptr, s.p.clust, ch[f]), NEW q, NEW k, NEW at, At(s.p.fptr, q, k, at),
           s.p.dsect = CurrentSector(s.p), NEW n \in Nat, n > 0, at + n <= SS
    PROVE  Took2(s, ch, K, f, [s EXCEPT !.p.fptr = @ + n], PartOf(s, at, n))
<1> DEFINE u == [s EXCEPT !.p.fptr = @ + n]
           x == s.p.fptr
           y == x + n
           g == ch[f]
           p == [s.p EXCEPT !.fptr = y]
           X0 == CurrentSector(s.p)
           got == PartOf(s, at, n)
<1>1. /\ s.p \in FilRec /\ g \in Seq(Cluster) /\ Path(s.v.fat, g)
      /\ Len(g) \in Nat /\ s = [v |-> s.v, p |-> s.p]
  BY WorksFacts
<1>2. /\ k \in 0 .. CSize-1 /\ k \in Nat /\ q \in Nat /\ q+1 \in 1 .. Len(g) /\ s.p.clust = g[q+1] /\ x \in Nat
      /\ x % SS = at /\ (x \div SS) % CSize = k /\ at \in Nat /\ at \in 0 .. SS-1
  BY LiesAt, AtParts DEF At
<1>3. X0 = clust2sect(g[q+1]) + k
  BY <1>2 DEF CurrentSector, SectorOfCluster
<1>4. y \in Nat
  BY <1>2
<1>5. u = On(s.v, p)
  BY <1>1 DEF On, FilRec
<1>6. Points(p, y, g[q+1], X0)
  BY <1>1, <1>2 DEF FilRec, Points
<1> HIDE DEF p, u
<1>7. Placed(p, g)
  <2>1. At(x, q, k, at)
    OBVIOUS
  <2> HIDE DEF x, X0
  <2> QED BY <1>2, <1>3, <1>6, <2>1, PlacedOn
<1>8. Came(s, ch, K, f, u, g) /\ u.p.fptr = y
  BY <1>4, <1>5, <1>7, PointerOn DEF p
<1>9. SS \in Nat /\ s.p.buf \in Buffers
  BY <1>1, Sizes1 DEF FilRec
<1>10. \A j \in 1 .. n : at + j - 1 \in 0 .. SS-1 /\ j-1 \in Nat /\ at + (j-1) < SS /\ at + (j-1) = at + j - 1
  <2> HIDE DEF x, X0, y, g
  <2>1. at \in Nat
    BY <1>2
  <2> QED BY <1>9, <2>1
<1>11. got \in Contents /\ Len(got) = n
  <2>1. \A j \in 1 .. n : s.p.buf[at + j - 1] \in Data \cup {Blank}
    BY <1>9, <1>10 DEF Buffers
  <2>2. got \in [1 .. n -> Data \cup {Blank}]
    BY <2>1 DEF PartOf
  <2> QED BY <2>2, ListOf DEF Contents
<1>12. ASSUME NEW c \in Contents, Holding(s, g, c), x + n <= Len(c), NEW j \in 1 .. n, c[x + j] # Blank
       PROVE  got[j] = c[x + j]
  <2> DEFINE e == j-1
             b == x + e
  <2>1. At(b, q, k, at + e)
    <3>1. At(x, q, k, at) /\ e \in Nat /\ at + e < SS
      BY <1>10
    <3> HIDE DEF x, e
    <3> QED BY <3>1, AtByte
  <2>2. InSector(g, b, X0, at + e)
    BY <1>2, <1>3, <2>1 DEF InSector
  <2>3. b+1 = x + j /\ b \in 0 .. Len(c)-1
    <3>1. Len(c) \in Nat
      BY ContentsFacts
    <3>2. x \in Nat /\ x + n <= Len(c) /\ j \in 1 .. n
      BY <1>2, <1>12
    <3> HIDE DEF X0, g, x
    <3> QED BY <3>1, <3>2
  <2>4. at + e = at + j - 1
    BY <1>10
  <2> HIDE DEF b, X0, e
  <2>5. Has(s, X0, at + e, c[b+1])
    BY <1>12, <2>2, <2>3 DEF Holding
  <2>6. s.p.buf[at + e] = c[b+1]
    BY <2>5 DEF Has, X0
  <2>7. got[j] = s.p.buf[at + j - 1]
    BY DEF PartOf
  <2> QED BY <2>3, <2>4, <2>6, <2>7
<1> HIDE DEF got, x, g, X0, y
<1>14. Took(s, g, u, got)
  BY <1>8, <1>11, <1>12 DEF Took, y, x
<1> QED BY <1>8, <1>14 DEF Took2, u, got, g

\* What is got once a sector has come into the buffer.
LEMMA LoadThen ==
    ASSUME NEW s, NEW ch, NEW K, NEW f \in Names, Works(s, ch, K, f), NEW x \in DataSector,
           NEW u, NEW a, Took2(LoadBuffer(s, x), ch, K, f, u, a)
    PROVE  Took2(s, ch, K, f, u, a)
<1> DEFINE g == ch[f]
           t == LoadBuffer(s, x)
<1>1. /\ Works(t, ch, K, f) /\ Still(s.v, t.v) /\ Buffered(s.p, t.p) /\ Loaded(s, t, x)
  BY LoadBufferWorks
<1>2. \A c \in Contents : Holding(s, g, c) => Holding(t, g, c)
  BY HoldingLoadBuffer
<1>3. g \in Seq(Cluster) /\ Extends(g, g)
  BY WorksFacts, ExtendsFacts
<1>4. ~s.p.dirty => ~t.p.dirty /\ Quiet(s.v, t.v)
  <2> SUFFICES ASSUME ~s.p.dirty PROVE ~t.p.dirty /\ Quiet(s.v, t.v)
    OBVIOUS
  <2>1. WriteBuffer(s).v = s.v
    BY DEF WriteBuffer
  <2> HIDE DEF t
  <2>2. t = s \/ (~t.p.dirty /\ t.v = s.v)
    BY <1>1, <2>1 DEF Loaded
  <2> QED BY <2>2, QuietSame
<1> HIDE DEF g
<1>5. Came(t, ch, K, f, u, g) /\ Took(t, g, u, a)
  BY DEF Took2, g
<1> HIDE DEF t
<1>6. Still(s.v, u.v)
  BY <1>1, <1>5 DEF Came, Still
<1>7. /\ u.p.wr = s.p.wr /\ u.p.written = s.p.written /\ u.p.slot = s.p.slot /\ u.p.fsize = s.p.fsize
  BY <1>1, <1>5 DEF Came, Buffered
<1>8. ~s.p.dirty => ~u.p.dirty /\ Quiet(s.v, u.v)
  BY <1>4, <1>5, QuietTwice DEF Came, g
<1>9. \A c \in Contents : Holding(s, g, c) /\ Len(c) <= bcs * Len(g) => Holding(u, g, c)
  BY <1>2, <1>5 DEF Came, g
<1>10. Works(u, With(ch, f, g, Nil), K, f) /\ Placed(u.p, g)
  BY <1>5 DEF Came
<1>11. Came(s, ch, K, f, u, ch[f])
  BY <1>3, <1>6, <1>7, <1>8, <1>9, <1>10 DEF Came, g
<1>12. Took(s, g, u, a)
  BY <1>1, <1>2, <1>5 DEF Took, Buffered
<1> QED BY <1>11, <1>12 DEF Took2, g

\* A round of f_read.
Reading(s, ch, K, f, r, n) ==
    /\ r = [s |-> r.s, left |-> r.left, got |-> r.got]
    /\ r.left \in Nat /\ Len(r.got) + r.left = n
    /\ Took2(s, ch, K, f, r.s, r.got)

LEMMA ReadingStart ==
    ASSUME NEW s, NEW ch, NEW K, NEW f \in Names, Works(s, ch, K, f), Placed(s.p, ch[f]), NEW n \in Nat
    PROVE  Reading(s, ch, K, f, [s |-> s, left |-> n, got |-> << >>], n)
<1> DEFINE g == ch[f]
           r == [s |-> s, left |-> n, got |-> << >>]
<1>1. /\ s.p \in FilRec /\ g \in Seq(Cluster) /\ With(ch, f, g, Nil) = ch /\ Extends(g, g)
  BY WorksFacts, ExtendsFacts
<1>2. Still(s.v, s.v) /\ Quiet(s.v, s.v)
  BY QuietSame DEF Still
<1>3. Came(s, ch, K, f, s, g)
  BY <1>1, <1>2 DEF Came
<1>4. << >> \in Contents /\ Len(<< >>) = 0
  BY DEF Contents
<1>5. s.p.fptr + 0 = s.p.fptr
  BY <1>1, FilFacts
<1>6. Took(s, g, s, << >>)
  BY <1>4, <1>5 DEF Took
<1>7. r.s = s /\ r.left = n /\ r.got = << >> /\ r = [s |-> r.s, left |-> r.left, got |-> r.got]
  OBVIOUS
<1> HIDE DEF r
<1>8. Reading(s, ch, K, f, r, n)
  BY <1>3, <1>4, <1>6, <1>7 DEF Reading, Took2
<1> QED BY <1>8 DEF r
-----------------------------------------------------------------------------
\* In a round m bytes a are got.
Gets(s, ch, K, f, r, m, u, a) ==
    /\ ReadOn(r) = [s |-> u, left |-> r.left - m, got |-> r.got \o a]
    /\ m \in 1 .. r.left /\ Len(a) = m
    /\ Took2(s, ch, K, f, u, a)

LEMMA SectorsFit ==
    ASSUME NEW n \in Nat, NEW cc \in Nat, cc <= n \div SS
    PROVE  cc*SS <= n /\ cc*SS \in Nat /\ (cc > 0 => cc*SS > 0)
<1>1. SS \in Nat \ {0} /\ SS \in Nat /\ SS > 0
  BY Sizes1
<1> DEFINE h == n \div SS
           m == n % SS
<1>2. h \in Nat /\ m \in Nat /\ n = SS*h + m
  BY <1>1, WrapIs
<1> HIDE DEF h, m
<1>3. SS*cc <= SS*h /\ SS*cc \in Nat /\ SS*h \in Nat
  BY <1>1, <1>2, Mul DEF h
<1>4. cc*SS = SS*cc
  BY <1>1
<1>5. cc > 0 => SS*1 <= SS*cc /\ SS*1 = SS
  BY <1>1, Mul
<1> DEFINE a == SS*cc
           b == SS*h
<1>6. a \in Nat /\ b \in Nat /\ a <= b /\ n = b + m /\ cc*SS = a /\ (cc > 0 => SS <= a)
  BY <1>2, <1>3, <1>4, <1>5
<1> HIDE DEF a, b
<1>7. a <= n /\ (cc > 0 => a > 0)
  BY <1>1, <1>2, <1>6
<1> QED BY <1>6, <1>7

LEMMA ReadOnGets ==
    ASSUME NEW r, NEW ch, NEW K, NEW f \in Names, Works(r.s, ch, K, f), Placed(r.s.p, ch[f]),
           r.left \in Nat, r.left > 0, r.s.p.fptr + r.left <= bcs * Len(ch[f])
    PROVE  \E m, u, a : Gets(r.s, ch, K, f, r, m, u, a)
<1> DEFINE s == r.s
           x == r.s.p.fptr
           g == ch[f]
           n == r.left
           at == x % SS
           part == Min({n, SS - at})
           t == ReadCluster(s)
           cc == IF at # 0 THEN 0 ELSE Min({n \div SS, CSize - SectorOfCluster(t.p)})
           u == IF at = 0 THEN LoadBuffer(t, CurrentSector(t.p)) ELSE t
<1>1. s.p \in FilRec /\ Len(g) \in Nat
  BY WorksFacts
<1>2. x \in Nat
  BY <1>1, FilFacts
<1>3. x < bcs * Len(g)
  <2> DEFINE b == bcs * Len(g)
  <2>1. b \in Nat /\ x + n <= b
    BY <1>1, Sizes1, Mul
  <2> HIDE DEF b, x
  <2> QED BY <1>2, <2>1 DEF b
<1>4. Works(t, ch, K, f) /\ Ready(s, t, g)
  BY <1>3, ReadClusterWorks
<1>5. PICK q, k, e : At(x, q, k, e)
  BY <1>2, AtExists
<1>6. ReadOn(r) = CASE n = 0 -> r
          [] n > 0 /\ cc > 0 ->
                 [s |-> [t EXCEPT !.p.fptr = @ + cc*SS], left |-> n - cc*SS,
                  got |-> r.got \o ReadSectors(t, cc)]
          [] OTHER ->
                 [s |-> [u EXCEPT !.p.fptr = @ + part], left |-> n - part,
                  got |-> r.got \o PartOf(u, at, part)]
  BY DEF ReadOn, PartOf
<1> HIDE DEF t
<1>7. t.p.fptr = x /\ Lies(x, t.p.clust, g) /\ (at # 0 => t.p.dsect = CurrentSector(t.p))
  BY <1>4 DEF Ready
<1>8. e = at /\ SectorOfCluster(t.p) = k /\ k \in 0 .. CSize-1 /\ e \in 0 .. SS-1 /\ q \in Nat
  BY <1>5, <1>7 DEF At, SectorOfCluster
<1>9. SS \in Nat /\ SS > 0 /\ CSize \in Nat /\ SS \in Nat \ {0} /\ n \in Nat /\ n > 0
  BY Sizes1
<1> HIDE DEF u
<1>10. cc \in Nat /\ (cc > 0 => at = 0 /\ k + cc <= CSize /\ cc <= n \div SS)
  <2>1. CASE at = 0
    <3>0. n \div SS \in Nat
      BY <1>9, WrapIs
    <3>0b. CSize - k \in Nat
      <4>1. k \in 0 .. CSize-1 /\ CSize \in Nat
        BY <1>8, <1>9
      <4> QED BY <4>1
    <3>1. n \div SS \in Nat /\ CSize - k \in Nat
      BY <3>0, <3>0b
    <3>2. cc = Min({n \div SS, CSize - k})
      BY <1>8, <2>1
    <3> DEFINE h == n \div SS
               j == CSize - k
    <3>3. cc = Min({h, j}) /\ h \in Nat /\ j \in Nat
      BY <3>1, <3>2
    <3> HIDE DEF cc, h
    <3>4. cc \in Nat /\ cc <= h /\ cc <= j
      BY <3>3, MinTwo
    <3> QED BY <1>8, <1>9, <2>1, <3>4 DEF h
  <2> QED BY <2>1
<1> HIDE DEF cc
<1>11. CASE cc > 0
  <2> DEFINE w == [t EXCEPT !.p.fptr = @ + cc*SS]
             a == ReadSectors(t, cc)
             m == cc*SS
  <2>1. At(t.p.fptr, q, k, 0)
    BY <1>5, <1>7, <1>8, <1>10, <1>11
  <2>2. Took2(t, ch, K, f, w, a)
    BY <1>4, <1>7, <1>10, <1>11, <2>1, ReadSectorsTook
  <2>3. m \in 1 .. n
    <3>1. cc*SS <= n /\ cc*SS \in Nat /\ cc*SS > 0
      BY <1>9, <1>10, <1>11, SectorsFit
    <3> HIDE DEF n
    <3> QED BY <1>9, <3>1
  <2>4. ReadOn(r) = [s |-> w, left |-> n - m, got |-> r.got \o a]
    BY <1>6, <1>9, <1>11
  <2>4x. t.p \in FilRec
    BY <1>4, WorksFacts
  <2>4y. DOMAIN t = {"v", "p"} /\ t = [v |-> t.v, p |-> t.p]
    BY <1>4 DEF Works, On
  <2>5. w.p.fptr = x + m
    BY <1>7, <2>4x, <2>4y DEF FilRec
  <2> HIDE DEF w, a
  <2>6. Took2(s, ch, K, f, w, a)
    BY <1>4, <2>2, ReadyThen
  <2>7. Len(a) = m
    <3>1. Len(a) \in Nat /\ w.p.fptr = s.p.fptr + Len(a)
      BY <2>6 DEF Took2, Took
    <3> HIDE DEF m, x
    <3>2. m \in Nat /\ x + Len(a) = x + m
      BY <2>3, <2>5, <3>1 DEF x
    <3> QED BY <1>2, <3>1, <3>2
  <2>8. Gets(s, ch, K, f, r, m, w, a)
    BY <2>3, <2>4, <2>6, <2>7 DEF Gets
  <2> QED BY <2>8
<1>12. CASE ~(cc > 0)
  <2> DEFINE w == [u EXCEPT !.p.fptr = @ + part]
             a == PartOf(u, at, part)
  <2>1. part \in 1 .. n /\ at + part <= SS /\ part \in Nat /\ part > 0
    <3> DEFINE j == SS - at
    <3>1. j \in Nat /\ j > 0 /\ at \in Nat
      BY <1>8, <1>9
    <3>2. part = Min({n, j})
      OBVIOUS
    <3> HIDE DEF part, n
    <3>3. part \in Nat /\ part <= n /\ part <= j /\ part > 0
      <4> HIDE DEF j
      <4> QED BY <1>9, <3>1, <3>2, MinTwo
    <3> HIDE DEF at
    <3> QED BY <1>9, <3>1, <3>3
  <2>2. ReadOn(r) = [s |-> w, left |-> n - part, got |-> r.got \o a]
    BY <1>6, <1>9, <1>12
  <2> HIDE DEF part
  <2>3. At(x, q, k, at)
    BY <1>5, <1>8
  <2>4. CurrentSector(t.p) \in DataSector
    <3>1. t.p.clust = g[q+1] /\ q+1 \in 1 .. Len(g)
      <4> HIDE DEF x, g
      <4> QED BY <1>5, <1>7, LiesAt
    <3>2. CurrentSector(t.p) = clust2sect(g[q+1]) + k
      BY <1>8, <3>1 DEF CurrentSector
    <3> QED BY <1>4, <1>8, <3>1, <3>2, SectorFacts
  <2>5. Works(u, ch, K, f) /\ u.p.dsect = CurrentSector(u.p) /\ u.p.fptr = x /\ u.p.clust = t.p.clust
    <3>1. CASE at = 0
      <4>1. u = LoadBuffer(t, CurrentSector(t.p))
        BY <3>1 DEF u
      <4>2. Works(u, ch, K, f) /\ Buffered(t.p, u.p) /\ Loaded(t, u, CurrentSector(t.p))
        BY <1>4, <2>4, <4>1, LoadBufferWorks
      <4>3. u.p.fptr = t.p.fptr /\ u.p.clust = t.p.clust /\ u.p.dsect = CurrentSector(t.p)
        BY <4>2 DEF Buffered, Loaded
      <4>4. CurrentSector(u.p) = CurrentSector(t.p)
        BY <4>3 DEF CurrentSector, SectorOfCluster
      <4> QED BY <1>7, <4>2, <4>3, <4>4
    <3>2. CASE at # 0
      <4>1. u = t
        BY <3>2 DEF u
      <4> QED BY <1>4, <1>7, <3>2, <4>1
    <3> QED BY <3>1, <3>2
  <2>6. Took2(u, ch, K, f, w, a)
    <3>1. Lies(u.p.fptr, u.p.clust, ch[f]) /\ At(u.p.fptr, q, k, at)
      BY <1>7, <2>3, <2>5
    <3> HIDE DEF at
    <3> QED BY <2>1, <2>5, <3>1, ReadPartTook
  <2>7. Took2(t, ch, K, f, w, a)
    <3> HIDE DEF w, a
    <3>1. CASE at = 0
      <4>1. u = LoadBuffer(t, CurrentSector(t.p))
        BY <3>1 DEF u
      <4> QED BY <1>4, <2>4, <2>6, <4>1, LoadThen
    <3>2. CASE at # 0
      BY <2>6, <3>2 DEF u
    <3> QED BY <3>1, <3>2
  <2>4x. u.p \in FilRec
    BY <2>5, WorksFacts
  <2>4y. DOMAIN u = {"v", "p"} /\ u = [v |-> u.v, p |-> u.p]
    BY <2>5 DEF Works, On
  <2>8. w.p.fptr = x + part
    BY <2>5, <2>4x, <2>4y DEF FilRec
  <2> HIDE DEF w, a
  <2>9. Took2(s, ch, K, f, w, a)
    BY <1>4, <2>7, ReadyThen
  <2>10. Len(a) = part
    <3>1. Len(a) \in Nat /\ w.p.fptr = s.p.fptr + Len(a)
      BY <2>9 DEF Took2, Took
    <3>2. x + Len(a) = x + part
      BY <2>8, <3>1
    <3> HIDE DEF x
    <3> QED BY <1>2, <2>1, <3>1, <3>2
  <2>11. Gets(s, ch, K, f, r, part, w, a)
    BY <2>1, <2>2, <2>9, <2>10 DEF Gets
  <2> QED BY <2>11
<1> QED BY <1>11, <1>12
-----------------------------------------------------------------------------
\* The rounds of f_read one after the other.
ReadAfter(n, x) == Loop(LAMBDA r, k : ReadOn(r), x, n)
ReadSo(it, x, n) == /\ it[0] = x /\ \A j \in 1 .. n : it[j] = ReadOn(it[j-1])
                    /\ ReadAfter(n, x) = it[n]

LEMMA ReadRuns ==
    ASSUME NEW n \in Nat, NEW V, NEW x \in V, \A r \in V : ReadOn(r) \in V
    PROVE  \E it : /\ \A j \in 0 .. n : it[j] \in V
                   /\ ReadSo(it, x, n)
<1> DEFINE F(h) == [k \in 0 .. n |-> IF k = 0 THEN x ELSE ReadOn(h[k-1])]
           it == CHOOSE h : h = F(h)
           g == [k \in 1 .. n |-> [r \in V |-> ReadOn(r)]]
<1>1. PICK p \in [0 .. n -> V] : Goes(p, g, x, n)
  <2>1. g \in [1 .. n -> [V -> V]]
    OBVIOUS
  <2> HIDE DEF g, it, F
  <2> QED BY <2>1, RoundsExist, Zenon
<1> HIDE DEF it
<1>2. p[0] = x /\ \A k \in 1 .. n : p[k-1] \in V /\ p[k] = ReadOn(p[k-1])
  <2> HIDE DEF F
  <2>1. p[0] = x /\ \A k \in 1 .. n : p[k] = g[k][p[k-1]]
    BY <1>1 DEF Goes
  <2>2. \A k \in 1 .. n : p[k-1] \in V
    OBVIOUS
  <2> QED BY <2>1, <2>2
<1>3. p = F(p)
  BY <1>2
<1>4. it = F(it)
  <2> HIDE DEF F
  <2> QED BY <1>3, Zenon DEF it
<1>5. ReadAfter(n, x) = it[n]
  BY Zenon DEF ReadAfter, Loop, it
<1>6. it[0] = x /\ \A j \in 1 .. n : it[j] = ReadOn(it[j-1])
  BY <1>4
<1> DEFINE T == {j \in 0 .. n : it[j] \in V}
<1>7. T \in SUBSET (0 .. n) /\ 0 \in T /\ \A j \in 1 .. n : j-1 \in T => j \in T
  BY <1>6
<1> HIDE DEF T
<1>8. \A j \in 0 .. n : j \in T
  BY <1>7, Stepwise
<1>9. ReadSo(it, x, n)
  BY <1>5, <1>6 DEF ReadSo
<1> QED BY <1>8, <1>9 DEF T

LEMMA ReadingOn ==
    ASSUME NEW s, NEW ch, NEW K, NEW f \in Names, Works(s, ch, K, f), NEW n \in Nat,
           s.p.fptr + n <= bcs * Len(ch[f]), NEW r, Reading(s, ch, K, f, r, n)
    PROVE  /\ Reading(s, ch, K, f, ReadOn(r), n)
           /\ r.left > 0 => ReadOn(r).left <= r.left - 1
           /\ r.left = 0 => ReadOn(r) = r
<1>1. /\ r = [s |-> r.s, left |-> r.left, got |-> r.got]
      /\ r.left \in Nat /\ Len(r.got) + r.left = n /\ Took2(s, ch, K, f, r.s, r.got)
  BY DEF Reading
<1>2. CASE r.left = 0
  <2>1. ReadOn(r) = r
    BY <1>2 DEF ReadOn
  <2> QED BY <1>2, <2>1
<1>3. CASE r.left > 0
  <2>1. With(ch, f, ch[f], Nil) = ch /\ s.p \in FilRec
    BY WorksFacts
  <2>2. Works(r.s, ch, K, f) /\ Placed(r.s.p, ch[f])
    BY <1>1, <2>1 DEF Took2, Came
  <2>3. r.s.p.fptr = s.p.fptr + Len(r.got) /\ r.got \in Contents /\ Len(r.got) \in Nat
    BY <1>1 DEF Took2, Took
  <2>4. r.s.p.fptr + r.left <= bcs * Len(ch[f])
    <3>1. s.p.fptr \in Nat
      BY <2>1, FilFacts
    <3> DEFINE b == bcs * Len(ch[f])
    <3>2. s.p.fptr + n <= b
      OBVIOUS
    <3> HIDE DEF b
    <3>3. r.s.p.fptr + r.left = s.p.fptr + n
      BY <1>1, <2>3, <3>1
    <3>4. r.s.p.fptr + r.left <= b
      BY <3>2, <3>3
    <3> QED BY <3>4 DEF b
  <2>5. PICK m, u, a : Gets(r.s, ch, K, f, r, m, u, a)
    BY <1>1, <1>3, <2>2, <2>4, ReadOnGets
  <2>6. /\ ReadOn(r) = [s |-> u, left |-> r.left - m, got |-> r.got \o a]
        /\ m \in 1 .. r.left /\ Len(a) = m /\ Took2(r.s, ch, K, f, u, a)
    BY <2>5 DEF Gets
  <2>7. Took2(s, ch, K, f, u, r.got \o a)
    BY <1>1, <2>6, TookTwice
  <2>8. Len(r.got \o a) = Len(r.got) + Len(a) /\ Len(a) \in Nat
    <3>1. a \in Contents
      BY <2>6 DEF Took2, Took
    <3> QED BY <2>3, <3>1, JoinIs
  <2> DEFINE z == ReadOn(r)
  <2>9. z.s = u /\ z.left = r.left - m /\ z.got = r.got \o a
        /\ z = [s |-> z.s, left |-> z.left, got |-> z.got]
    BY <2>6
  <2> HIDE DEF z
  <2>10. z.left \in Nat /\ z.left <= r.left - 1
    BY <1>1, <2>6, <2>9
  <2>11. Len(z.got) + z.left = n
    BY <1>1, <2>3, <2>6, <2>8, <2>9
  <2>12. Reading(s, ch, K, f, z, n)
    BY <2>7, <2>9, <2>10, <2>11 DEF Reading
  <2> QED BY <1>3, <2>10, <2>12 DEF z
<1> QED BY <1>1, <1>2, <1>3

\* f_read gets the bytes from its pointer on.
LEMMA ReadBytesTook ==
    ASSUME NEW s, NEW ch, NEW K, NEW f \in Names, Works(s, ch, K, f), Placed(s.p, ch[f]), NEW n \in Nat,
           s.p.fptr + n <= bcs * Len(ch[f])
    PROVE  /\ Took2(s, ch, K, f, ReadBytes(s, n).s, ReadBytes(s, n).got)
           /\ Len(ReadBytes(s, n).got) = n
<1> DEFINE V == {r \in [s : [v : Vols, p : FilRec], left : Nat, got : Contents] : Reading(s, ch, K, f, r, n)}
           x == [s |-> s, left |-> n, got |-> << >>]
<1>1. ASSUME NEW r, Reading(s, ch, K, f, r, n) PROVE r \in V
  <2>1. r = [s |-> r.s, left |-> r.left, got |-> r.got] /\ r.left \in Nat /\ Took2(s, ch, K, f, r.s, r.got)
    BY <1>1 DEF Reading
  <2>2. With(ch, f, ch[f], Nil) = ch
    BY WorksFacts
  <2>3. Works(r.s, ch, K, f) /\ r.got \in Contents
    BY <2>1, <2>2 DEF Took2, Came, Took
  <2>4. r.s = On(r.s.v, r.s.p) /\ r.s.p \in FilRec /\ r.s.v \in Vols
    BY <2>3 DEF Works, Good
  <2>5. r.s \in [v : Vols, p : FilRec]
    BY <2>4 DEF On
  <2>6. r \in [s : [v : Vols, p : FilRec], left : Nat, got : Contents]
    BY <2>1, <2>3, <2>5
  <2> QED BY <1>1, <2>6
<1>2. x \in V
  <2>1. Reading(s, ch, K, f, x, n)
    BY ReadingStart
  <2> HIDE DEF x, V
  <2> QED BY <1>1, <2>1
<1>3. ASSUME NEW r \in V PROVE ReadOn(r) \in V
  <2>1. Reading(s, ch, K, f, r, n)
    BY <1>3
  <2>2. Reading(s, ch, K, f, ReadOn(r), n)
    BY <2>1, ReadingOn
  <2> HIDE DEF V
  <2> QED BY <1>1, <2>2
<1>4. \A r \in V : Reading(s, ch, K, f, r, n)
  OBVIOUS
<1> HIDE DEF V
<1>5. PICK it : (\A j \in 0 .. n : it[j] \in V) /\ ReadSo(it, x, n)
  BY <1>2, <1>3, ReadRuns
<1>6. x.left = n
  OBVIOUS
<1> HIDE DEF x
<1>7. it[n] \in V /\ ReadAfter(n, x) = it[n] /\ it[0] = x /\ \A j \in 1 .. n : it[j] = ReadOn(it[j-1])
  BY <1>5 DEF ReadSo
<1>8. ReadBytes(s, n) = it[n]
  BY <1>7, Zenon DEF ReadBytes, ReadAfter, x
<1> DEFINE T == {j \in 0 .. n : it[j].left <= n - j}
<1>9. \A j \in 0 .. n : j \in T
  <2>1. T \in SUBSET (0 .. n) /\ 0 \in T
    BY <1>6, <1>7
  <2>2. ASSUME NEW j \in 1 .. n, j-1 \in T PROVE j \in T
    <3>1. j-1 \in 0 .. n /\ it[j-1].left <= n - (j-1) /\ j \in 0 .. n
      BY <2>2
    <3>2. Reading(s, ch, K, f, it[j-1], n)
      BY <1>4, <1>5, <3>1
    <3>3. it[j] = ReadOn(it[j-1]) /\ it[j-1].left \in Nat
      BY <1>7, <3>2 DEF Reading
    <3>4. it[j].left <= n - j
      <4>1. CASE it[j-1].left = 0
        BY <3>1, <3>2, <3>3, <4>1, ReadingOn
      <4>2. CASE it[j-1].left > 0
        <5>1. it[j].left <= it[j-1].left - 1 /\ it[j].left \in Nat
          <6>1. Reading(s, ch, K, f, ReadOn(it[j-1]), n) /\ ReadOn(it[j-1]).left <= it[j-1].left - 1
            BY <3>2, <4>2, ReadingOn
          <6> QED BY <3>3, <6>1 DEF Reading
        <5> QED BY <3>1, <3>3, <5>1
      <4> QED BY <3>3, <4>1, <4>2
    <3> QED BY <3>1, <3>4
  <2> HIDE DEF T
  <2> QED BY <2>1, <2>2, Stepwise, Zenon
<1>10. Reading(s, ch, K, f, it[n], n) /\ it[n].left <= 0
  BY <1>4, <1>7, <1>9
<1>11. it[n].left \in Nat /\ Len(it[n].got) + it[n].left = n /\ Took2(s, ch, K, f, it[n].s, it[n].got)
  BY <1>10 DEF Reading
<1>12. Len(it[n].got) = n
  <2>1. Len(it[n].got) \in Nat
    BY <1>11 DEF Took2, Took
  <2> QED BY <1>10, <1>11, <2>1
<1> QED BY <1>8, <1>11, <1>12
=============================================================================
